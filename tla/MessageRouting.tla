--------------------------- MODULE MessageRouting ---------------------------
(***************************************************************************)
(* What one gateway promises to its clients and to the chat service, with  *)
(* every operation in one step: a message goes to the session that is      *)
(* entered for its target when its turn comes.  From there on it has a     *)
(* place in the line of that session, which nothing overtakes.  It is lost *)
(* only if SendCap others stand before it, or the connection fails; from   *)
(* then on nothing is delivered any more.                                  *)
(***************************************************************************)
EXTENDS Naturals, Sequences

CONSTANTS Sessions, Users, NoSession, NoUser, SendCap

VARIABLES
    owner,      \* the user each session is bound to, or NoUser
    entry,      \* the session each user is reached by, or NoSession
    gone,       \* the sessions that have left
    arrived,    \* the targets of the messages, in order
    handled,    \* how many of them had their turn
    waiting,    \* the line of messages of each session
    failed,     \* the sessions that nothing is delivered to any more
    delivered   \* what was delivered to each session

sessionVars == <<owner, entry, gone>>
messageVars == <<arrived, handled, waiting, failed, delivered>>
vars == <<sessionVars, messageVars>>

Init ==
    /\ owner = [s \in Sessions |-> NoUser]
    /\ entry = [u \in Users |-> NoSession]
    /\ gone = {}
    /\ arrived = <<>>
    /\ handled = 0
    /\ waiting = [s \in Sessions |-> <<>>]
    /\ failed = {}
    /\ delivered = [s \in Sessions |-> <<>>]

(* The latest session of a user takes his messages. *)
Enter(s, u) ==
    /\ owner[s] = NoUser /\ s \notin gone
    /\ owner' = [owner EXCEPT ![s] = u]
    /\ entry' = [entry EXCEPT ![u] = s]
    /\ UNCHANGED <<gone, messageVars>>

(* A session leaves once, and its user with it, by whatever session he is  *)
(* reached by now.                                                         *)
Leave(s) ==
    /\ s \notin gone
    /\ gone' = gone \cup {s}
    /\ entry' = IF owner[s] = NoUser THEN entry ELSE [entry EXCEPT ![owner[s]] = NoSession]
    /\ UNCHANGED <<owner, messageVars>>

Arrive(u) ==
    /\ arrived' = Append(arrived, u)
    /\ UNCHANGED <<sessionVars, handled, waiting, failed, delivered>>

Reached(u) == IF u \in Users THEN entry[u] ELSE NoSession

Route ==
    /\ handled < Len(arrived)
    /\ handled' = handled + 1
    /\ LET s == Reached(arrived[handled + 1]) IN
       waiting' = IF s = NoSession
                  THEN waiting
                  ELSE [waiting EXCEPT ![s] = Append(@, handled + 1)]
    /\ UNCHANGED <<sessionVars, arrived, failed, delivered>>

Deliver(s) ==
    /\ s \notin failed /\ waiting[s] # <<>>
    /\ delivered' = [delivered EXCEPT ![s] = Append(@, Head(waiting[s]))]
    /\ waiting' = [waiting EXCEPT ![s] = Tail(@)]
    /\ UNCHANGED <<sessionVars, arrived, handled, failed>>

(* The latest message, and no other, finds the line too long. *)
Overflow(s) ==
    /\ Len(waiting[s]) > SendCap /\ waiting[s][Len(waiting[s])] = handled
    /\ waiting' = [waiting EXCEPT ![s] = SubSeq(@, 1, Len(@) - 1)]
    /\ UNCHANGED <<sessionVars, arrived, handled, failed, delivered>>

(* A connection fails, with the message that is being written or between   *)
(* two of them.                                                            *)
Fail(s) ==
    /\ s \notin failed
    /\ failed' = failed \cup {s}
    /\ \/ UNCHANGED waiting
       \/ waiting[s] # <<>> /\ waiting' = [waiting EXCEPT ![s] = Tail(@)]
    /\ UNCHANGED <<sessionVars, arrived, handled, delivered>>

Next ==
    \/ \E s \in Sessions, u \in Users : Enter(s, u)
    \/ \E s \in Sessions : Leave(s) \/ Deliver(s) \/ Overflow(s) \/ Fail(s)
    \/ \E u \in Users \cup {NoUser} : Arrive(u)
    \/ Route

Spec == Init /\ [][Next]_vars
=============================================================================
