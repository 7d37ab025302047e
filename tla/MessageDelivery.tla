--------------------------- MODULE MessageDelivery ---------------------------
(***************************************************************************)
(* What the system as a whole promises to its clients.  A request may give *)
(* rise to several copies, which are published and then delivered: each    *)
(* publication at most once through every gateway, only to a client that   *)
(* it is addressed to, and only after a client has sent its request to a   *)
(* game that is served.  It may be lost.                                   *)
(*                                                                         *)
(* Requests and copies may be sent again, which makes publications more:   *)
(* one for each resend.  The first one has the number 0, the others that   *)
(* of the resend, counted over the whole system.                           *)
(***************************************************************************)
EXTENDS Naturals, Sequences

CONSTANTS
    Clients,    \* the connections of the clients
    Requests,   \* what they send
    Served,     \* the requests to games that somebody serves
    CopiesOf(_),    \* what may be published on account of a request's publication
    Addressees(_),  \* the clients that a copy is addressed to
    Gate,       \* the gateway of each client
    MaxResends  \* bound: resends

VARIABLES
    sent,       \* the publications of requests
    published,  \* the publications of copies
    resends,    \* how many requests and copies were sent again
    delivered   \* the publications delivered to each client, in order

Init ==
    /\ sent = {}
    /\ published = {}
    /\ resends = 0
    /\ delivered = [c \in Clients |-> <<>>]

Send(r) ==
    /\ <<r, 0>> \notin sent
    /\ resends' \in resends..MaxResends
    /\ sent' = sent \cup ({r} \X ({0} \cup (resends + 1)..resends'))
    /\ UNCHANGED <<published, delivered>>

Publish(k) ==
    /\ k \notin published
    /\ published' = published \cup {k}
    /\ UNCHANGED <<sent, resends, delivered>>

PublishAgain(k) ==
    /\ resends' = resends + 1
    /\ published' = published \cup {[k EXCEPT !.no = resends + 1]}
    /\ UNCHANGED <<sent, delivered>>

Had(c, k) == \E n \in DOMAIN delivered[c] : delivered[c][n] = k

Deliver(k, c) ==
    /\ \A d \in Clients : Gate[d] = Gate[c] => ~ Had(d, k)
    /\ delivered' = [delivered EXCEPT ![c] = Append(@, k)]
    /\ UNCHANGED <<sent, published, resends>>

Next ==
    \/ \E r \in Requests : Send(r)
    \/ \E p \in sent : p[1] \in Served /\ \E k \in CopiesOf(p) : Publish(k)
    \/ \E k \in published : PublishAgain(k)
    \/ \E k \in published : \E c \in Addressees(k) : Deliver(k, c)

Spec == Init /\ [][Next]_<<sent, published, resends, delivered>>
=============================================================================
