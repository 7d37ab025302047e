----------------------------- MODULE ChatSystem ------------------------------
(***************************************************************************)
(* The whole system: clients, each connected to one of several gateways,   *)
(* the request topic of each game, the instances of the chat service, and  *)
(* the topic "broadcast", which every gateway receives.                    *)
(*                                                                         *)
(* The parts are those of Gateway and ChatService, in larger steps: a      *)
(* gateway handles a request, or a message of the topic, in one.  (Gateway *)
(* shows what the smaller ones do: a request is published after its        *)
(* session is bound, and a message goes to the session it was looked up    *)
(* for or is dropped.)  The subscriptions are plain: every instance and    *)
(* every gateway gets its own copy of each message, or loses it.           *)
(*                                                                         *)
(* A message whose acknowledgement is lost is sent again (QoS 1, or a      *)
(* retry of the Redis client), although the topic may have it: RobustMQ    *)
(* shows how.  Resends are numbered throughout the system, and the number  *)
(* tells the publications of a message apart: 0 is the first one.  No such *)
(* number is in the message; only the properties look at it.               *)
(***************************************************************************)
EXTENDS Naturals, Sequences

CONSTANTS
    Gateways, Instances, Clients, Users, Requests,
    NoClient,   \* no entry in userSessions
    NoUser,     \* the receiver ID 0: a message to nobody
    Gate,       \* the gateway of each client
    UserOf,     \* the user ID that each client gives in its requests
    From,       \* the client of each request
    Receiver,   \* its ReceiverId
    GameOf,     \* its GameId
    ServedGame, \* the game whose topic the chat service subscribes to (mmo)
    MaxResends  \* bound: messages that are sent again

ASSUME SystemAssumption ==
    /\ Gate \in [Clients -> Gateways]
    /\ UserOf \in [Clients -> Users]
    /\ From \in [Requests -> Clients]
    /\ Receiver \in [Requests -> Users \cup {NoUser}]
    /\ NoClient \notin Clients /\ NoUser \notin Users
    /\ MaxResends \in Nat

VARIABLES
    conn,           \* each connection: "open" or "gone"
    userSessions,   \* of each gateway
    sent,           \* the publications of the requests by the gateways
    ipc,            \* where each handler is with each request
    published,      \* the publications on the topic "broadcast"
    resends,        \* how many messages were sent again
    broadcast,      \* the messages of the topic on their way to each gateway
    delivered,      \* those delivered to each client
    lost            \* the requests of which something was lost

clientVars == <<conn, userSessions>>
topicVars == <<published, resends, broadcast>>
vars == <<clientVars, sent, ipc, topicVars, delivered, lost>>

Numbers == 0..MaxResends

(* An instance handles every publication of a request in a goroutine. *)
Handlers == Instances \X Numbers

Kinds == {"MessageBroadcast", "ChatResponse"}
Copy(kind, h, r, n) == [kind |-> kind, handler |-> h, req |-> r, no |-> n]
Copies == [kind : Kinds, handler : Handlers, req : Requests, no : Numbers]

(* Mutant: the answer goes to the receiver as well. *)
TargetOfReceiver(k) == Receiver[k.req]

(* TargetUserId: of an answer the sender, of a message its receiver. *)
TargetOf(k) ==
    IF k.kind = "ChatResponse" THEN UserOf[From[k.req]] ELSE Receiver[k.req]

Served == {r \in Requests : GameOf[r] = ServedGame}

Init ==
    /\ conn = [c \in Clients |-> "open"]
    /\ userSessions = [g \in Gateways |-> [u \in Users |-> NoClient]]
    /\ sent = {}
    /\ ipc = [h \in Handlers |-> [r \in Requests |-> "none"]]
    /\ published = {}
    /\ resends = 0
    /\ broadcast = [g \in Gateways |-> <<>>]
    /\ delivered = [c \in Clients |-> <<>>]
    /\ lost = {}

-----------------------------------------------------------------------------
(* Clients and gateways *)

Handled(r) == <<r, 0>> \in sent

Bound(c) == \E r \in Requests : Handled(r) /\ From[r] = c

(* The first request of a client enters it as its user, whoever was there: *)
(* games are not told apart.                                               *)
Bind(c) ==
    userSessions' = IF Bound(c)
                    THEN userSessions
                    ELSE [userSessions EXCEPT ![Gate[c]][UserOf[c]] = c]

(* A gateway receives the request and publishes it on the topic of its     *)
(* game; instances are subscribed to one topic only.  Publish returns, and *)
(* the read pump goes on, only after the resends; a handler may start at   *)
(* any time after that, so they need no step of their own.                 *)
RouteChat(r) ==
    /\ conn[From[r]] = "open" /\ ~ Handled(r)
    /\ Bind(From[r])
    /\ resends' \in resends..MaxResends
    /\ LET N == {0} \cup (resends + 1)..resends'
       IN  /\ sent' = sent \cup ({r} \X N)
           /\ \E L \in SUBSET (Instances \X N) :
                  /\ ipc' = [h \in Handlers |->
                                IF r \in Served /\ h \in (Instances \X N) \ L
                                THEN [ipc[h] EXCEPT ![r] = "parse"] ELSE ipc[h]]
                  /\ lost' = IF L = {} THEN lost ELSE lost \cup {r}
    /\ UNCHANGED <<conn, published, broadcast, delivered>>

(* Mutant: the deferred function leaves the user map as it is. *)
DisconnectKeepUser(c) ==
    /\ conn[c] = "open"
    /\ conn' = [conn EXCEPT ![c] = "gone"]
    /\ UNCHANGED <<userSessions, sent, ipc, topicVars, delivered, lost>>

(* A connection ends, and the entry of its user with it, whoever is there. *)
Disconnect(c) ==
    /\ conn[c] = "open"
    /\ conn' = [conn EXCEPT ![c] = "gone"]
    /\ userSessions' = IF Bound(c)
                       THEN [userSessions EXCEPT ![Gate[c]][UserOf[c]] = NoClient]
                       ELSE userSessions
    /\ UNCHANGED <<sent, ipc, topicVars, delivered, lost>>

-----------------------------------------------------------------------------
(* Instances of the chat service *)

Goto(h, r, label) == ipc' = [ipc EXCEPT ![h][r] = label]

(* The request finds room in saveChan ... *)
Accept(h, r) ==
    /\ ipc[h][r] = "parse"
    /\ Goto(h, r, IF Receiver[r] # NoUser THEN "forward" ELSE "ack")
    /\ UNCHANGED <<clientVars, sent, topicVars, delivered, lost>>

(* ... or none, and is given up. *)
Reject(h, r) ==
    /\ ipc[h][r] = "parse"
    /\ Goto(h, r, "dropped")
    /\ lost' = lost \cup {r}
    /\ UNCHANGED <<clientVars, sent, topicVars, delivered>>

(* Every gateway gets its copy, or loses it. *)
PublishCopy(k) ==
    /\ published' = published \cup {k}
    /\ \E L \in SUBSET Gateways :
           /\ broadcast' = [g \in Gateways |->
                               IF g \in L THEN broadcast[g] ELSE Append(broadcast[g], k)]
           /\ lost' = IF L = {} THEN lost ELSE lost \cup {k.req}
    /\ UNCHANGED <<clientVars, sent, delivered>>

(* Mutant: once more after the answer. *)
ForwardAgain(h, r) ==
    /\ ipc[h][r] = "forward" \/ (ipc[h][r] = "done" /\ Receiver[r] # NoUser)
    /\ PublishCopy(Copy("MessageBroadcast", h, r, 0))
    /\ Goto(h, r, IF ipc[h][r] = "done" THEN "dropped" ELSE "ack")
    /\ UNCHANGED resends

(* The message to the receiver; after it the handler is at "ack", where    *)
(* the call of Publish may still wait for its acknowledgement.             *)
Forward(h, r) ==
    /\ ipc[h][r] = "forward"
    /\ PublishCopy(Copy("MessageBroadcast", h, r, 0))
    /\ Goto(h, r, "ack")
    /\ UNCHANGED resends

(* The answer to the sender; likewise. *)
Ack(h, r) ==
    /\ ipc[h][r] = "ack"
    /\ PublishCopy(Copy("ChatResponse", h, r, 0))
    /\ Goto(h, r, "done")
    /\ UNCHANGED resends

HandleRequest(h, r) == Accept(h, r) \/ Reject(h, r) \/ Forward(h, r) \/ Ack(h, r)

(* The message that the handler published last. *)
InFlight(h, r) ==
    IF ipc[h][r] = "done" THEN "ChatResponse" ELSE "MessageBroadcast"

(* The acknowledgement of that message was lost, and the message is sent   *)
(* again, although the topic may have it already.                          *)
Resend(h, r) ==
    /\ ipc[h][r] \in {"ack", "done"} /\ resends < MaxResends
    /\ Copy(InFlight(h, r), h, r, 0) \in published
    /\ resends' = resends + 1
    /\ PublishCopy(Copy(InFlight(h, r), h, r, resends'))
    /\ UNCHANGED ipc

-----------------------------------------------------------------------------
(* The consumer of a gateway *)

(* userID > 0, and the entry of the user. *)
Lookup(g, u) == IF u = NoUser THEN NoClient ELSE userSessions[g][u]

(* Mutant: leaves the message for the next round. *)
HandleBroadcastAgain(g) ==
    /\ broadcast[g] # <<>>
    /\ LET k == Head(broadcast[g])
           c == Lookup(g, TargetOf(k))
       IN  IF c = NoClient
           THEN UNCHANGED <<broadcast, delivered, lost>>
           ELSE /\ delivered' = [delivered EXCEPT ![c] = Append(@, k)]
                /\ UNCHANGED <<broadcast, lost>>
    /\ UNCHANGED <<clientVars, sent, ipc, published, resends>>

(* The message goes to the client that is entered as its target, unless    *)
(* its Send is full; without an entry it is dropped.                       *)
HandleBroadcast(g) ==
    /\ broadcast[g] # <<>>
    /\ broadcast' = [broadcast EXCEPT ![g] = Tail(@)]
    /\ LET k == Head(broadcast[g])
           c == Lookup(g, TargetOf(k))
       IN  \/ /\ c # NoClient
              /\ delivered' = [delivered EXCEPT ![c] = Append(@, k)]
              /\ UNCHANGED lost
           \/ /\ lost' = IF c = NoClient THEN lost ELSE lost \cup {k.req}
              /\ UNCHANGED delivered
    /\ UNCHANGED <<clientVars, sent, ipc, published, resends>>

-----------------------------------------------------------------------------
Next ==
    \/ \E r \in Requests : RouteChat(r)
    \/ \E c \in Clients : Disconnect(c)
    \/ \E h \in Handlers, r \in Requests : HandleRequest(h, r) \/ Resend(h, r)
    \/ \E g \in Gateways : HandleBroadcast(g)

Spec == Init /\ [][Next]_vars

(* The goroutines of the instances and the consumers of the gateways run. *)
Fairness ==
    /\ \A h \in Handlers, r \in Served : WF_vars(HandleRequest(h, r))
    /\ \A g \in Gateways : WF_vars(HandleBroadcast(g))

FairSpec == Spec /\ Fairness

-----------------------------------------------------------------------------
(* Properties *)

Elements(seq) == {seq[n] : n \in DOMAIN seq}

(* The type invariant.  An entry of userSessions is an open connection to  *)
(* that gateway, of a client that gave that user ID.                       *)
TypeOK ==
    /\ conn \in [Clients -> {"open", "gone"}]
    /\ userSessions \in [Gateways -> [Users -> Clients \cup {NoClient}]]
    /\ \A g \in Gateways, u \in Users :
           userSessions[g][u] \in {NoClient} \cup
               {c \in Clients : Gate[c] = g /\ UserOf[c] = u /\ conn[c] = "open"}
    /\ sent \subseteq Requests \X Numbers
    /\ ipc \in [Handlers -> [Requests ->
                   {"none", "parse", "forward", "ack", "done", "dropped"}]]
    /\ published \subseteq Copies
    /\ resends \in Numbers
    /\ broadcast \in [Gateways -> Seq(Copies)]
    /\ delivered \in [Clients -> Seq(Copies)]
    /\ lost \subseteq Requests

(* Through one gateway, the message of a handler comes before its answer   *)
(* to the same request, however often either was sent again: when a sender *)
(* has the answer, its gateway has nothing left to deliver to the receiver. *)
ForwardedFirst ==
    \A c \in Clients, h \in Handlers, r \in Requests, m, n \in Numbers :
        Copy("ChatResponse", h, r, m) \in Elements(delivered[c]) =>
            Copy("MessageBroadcast", h, r, n) \notin Elements(broadcast[Gate[c]])

(* The system implements MessageDelivery: whatever is delivered twice was  *)
(* published twice, by two instances or because an acknowledgement was     *)
(* lost, and every resend makes one publication more and no other; a       *)
(* request to another game is never answered; and nobody gets anything     *)
(* that is not addressed to the user ID he gave, which is all that the     *)
(* gateways know.                                                          *)
CopiesOf(p) == [kind : Kinds, handler : Instances \X {p[2]}, req : {p[1]}, no : {0}]
Addressees(k) == {c \in Clients : UserOf[c] = TargetOf(k)}

MD == INSTANCE MessageDelivery

ImplementsDelivery == MD!Spec

(* Somebody else is entered as the user of c, or nobody. *)
Displaced(c) == userSessions[Gate[c]][UserOf[c]] # c

(* A request to the game that is served is answered, unless something of   *)
(* it was lost or its client is no longer the one entered for its user ID, *)
(* be it that it has left, or that a client with the same user ID came or  *)
(* went, of whatever game.                                                 *)
AnsweredOrLost ==
    \A r \in Served :
        Handled(r) ~>
            \/ \E h \in Handlers, n \in Numbers :
                   Copy("ChatResponse", h, r, n) \in Elements(delivered[From[r]])
            \/ r \in lost
            \/ Displaced(From[r])

(* docs/ARCHITECTURE.md:55: instances of the chat service share the load,  *)
(* and none handles what another one does.                                 *)
ConsumedOnce ==
    \A r \in Requests, h, k \in Handlers :
        ipc[h][r] # "none" /\ ipc[k][r] # "none" => h[1] = k[1]

(* README.md:13, docs/multi_game_architecture.md:951: the same user ID in  *)
(* another game is another user; nobody gets anything from a game that he  *)
(* does not play.                                                          *)
GamesIsolated ==
    \A c \in Clients : \A k \in Elements(delivered[c]) :
        \E r \in Requests : Handled(r) /\ From[r] = c /\ GameOf[r] = GameOf[k.req]

(* Of these two claims at least one holds: a state in which this is false  *)
(* refutes both.                                                           *)
OneClaimHolds == ConsumedOnce \/ GamesIsolated
=============================================================================
