---------------------------- MODULE WriteBehind -----------------------------
(***************************************************************************)
(* What the chat service promises about a request and the database.  A     *)
(* request is accepted or turned away; it is answered only once it has     *)
(* been accepted; an accepted request is tried once, and is then stored or *)
(* lost for good.  Nothing is said about the order in which requests are   *)
(* stored, and an answer does not wait for it.                             *)
(***************************************************************************)
CONSTANT Requests

VARIABLES
    status,     \* "new", "refused", "accepted", "stored" or "lost"
    answered    \* the requests whose sender was sent an answer

vars == <<status, answered>>

Init ==
    /\ status = [r \in Requests |-> "new"]
    /\ answered = {}

(* The request is turned away, and will not be heard of again. *)
Refuse(r) ==
    /\ status[r] = "new"
    /\ status' = [status EXCEPT ![r] = "refused"]
    /\ UNCHANGED answered

Accept(r) ==
    /\ status[r] = "new"
    /\ status' = [status EXCEPT ![r] = "accepted"]
    /\ UNCHANGED answered

Answer(r) ==
    /\ status[r] \in {"accepted", "stored", "lost"}
    /\ r \notin answered
    /\ answered' = answered \cup {r}
    /\ UNCHANGED status

(* Some attempts end, one at a time or, in a crash, all at once: those in  *)
(* S with a row in the database, those in L without.                       *)
Settle(S, L) ==
    /\ S \cap L = {} /\ S \cup L # {}
    /\ \A r \in S \cup L : status[r] = "accepted"
    /\ status' = [r \in Requests |-> IF r \in S THEN "stored"
                                    ELSE IF r \in L THEN "lost" ELSE status[r]]
    /\ UNCHANGED answered

Next ==
    \/ \E r \in Requests : Refuse(r) \/ Accept(r) \/ Answer(r)
    \/ \E S, L \in SUBSET Requests : Settle(S, L)

Spec == Init /\ [][Next]_vars
=============================================================================
