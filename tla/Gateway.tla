------------------------------ MODULE Gateway -------------------------------
(***************************************************************************)
(* One gateway process (src/game-gateway): the read pump and the write     *)
(* pump of every client connection, the registry they share, and the       *)
(* single goroutine that routes the messages of the "broadcast" topic.     *)
(*                                                                         *)
(* A downstream message is identified by its place in the order in which   *)
(* the consumer receives it: arrived[i] is the TargetUserId of the i-th    *)
(* one, and the queues hold such places.  Upstream, a packet is the user   *)
(* ID that its Base claims, or one of the two values below for a packet    *)
(* that never reaches the message queue.                                   *)
(***************************************************************************)
EXTENDS SessionManager, Naturals, Sequences

CONSTANTS
    Unroutable,     \* RoutePacket ends with no effect: other route, bad payload
    Damaged,        \* ReadPacket fails: text frame, bad header or length
    NoPacket,       \* the read pump holds no packet
    SendCap,        \* capacity of Session.Send (1024)
    MaxBroadcasts   \* bound: downstream messages that ever arrive

ASSUME PacketAssumption ==
    /\ {Unroutable, Damaged, NoPacket} \cap (Users \cup {NoUser}) = {}
    /\ Unroutable # Damaged /\ Unroutable # NoPacket /\ Damaged # NoPacket
ASSUME SendCapAssumption == SendCap \in Nat \ {0}
ASSUME MaxBroadcastsAssumption == MaxBroadcasts \in Nat

VARIABLES
    conn,       \* the WebSocket: "none", "open", "broken" by the peer or
                \* the network, "closed" by this process
    rpc,        \* where each read pump is
    packet,     \* the packet it is handling
    wpc,        \* where each write pump is
    send,       \* the channel Session.Send
    wmsg,       \* the message a write pump is writing, 0 if none
    delivered,  \* the messages written to each connection
    arrived,    \* targets of the downstream messages, in order
    taken,      \* how many of them the consumer has taken
    csess       \* the session it looked up and will enqueue to

readVars == <<rpc, packet>>
writeVars == <<wpc, wmsg, delivered>>
consumerVars == <<taken, csess>>
vars == <<registryVars, conn, readVars, writeVars, send, arrived, consumerVars>>

Targets == Users \cup {NoUser}
Packets == Targets \cup {Unroutable, Damaged}
Message == 1..MaxBroadcasts

Init ==
    /\ RegistryInit
    /\ conn = [s \in Sessions |-> "none"]
    /\ rpc = [s \in Sessions |-> "off"]
    /\ packet = [s \in Sessions |-> NoPacket]
    /\ wpc = [s \in Sessions |-> "off"]
    /\ send = [s \in Sessions |-> <<>>]
    /\ wmsg = [s \in Sessions |-> 0]
    /\ delivered = [s \in Sessions |-> <<>>]
    /\ arrived = <<>>
    /\ taken = 0
    /\ csess = NoSession

-----------------------------------------------------------------------------
(* Connections *)

HandleConnection(s) ==
    /\ conn[s] = "none"
    /\ conn' = [conn EXCEPT ![s] = "open"]
    /\ Add(s)
    /\ rpc' = [rpc EXCEPT ![s] = "read"]
    /\ wpc' = [wpc EXCEPT ![s] = "select"]
    /\ UNCHANGED <<packet, wmsg, delivered, send, arrived, consumerVars>>

(* Environment: the client goes away, or the network between. *)
Disconnect(s) ==
    /\ conn[s] = "open"
    /\ conn' = [conn EXCEPT ![s] = "broken"]
    /\ UNCHANGED <<registryVars, readVars, writeVars, send, arrived, consumerVars>>

-----------------------------------------------------------------------------
(* The read pump.  UNCHANGED of everything but the read pump's own state:  *)

OnlyReadPump == UNCHANGED <<conn, writeVars, send, arrived, consumerVars>>

(* A whole frame arrives; frames already buffered are read even from a     *)
(* connection that is gone.                                                *)
ReadPacket(s) ==
    /\ rpc[s] = "read"
    /\ \E p \in Packets : packet' = [packet EXCEPT ![s] = p]
    /\ rpc' = [rpc EXCEPT ![s] = "handle"]
    /\ UNCHANGED registryVars /\ OnlyReadPump

(* A close frame, a broken connection, or 60 s without a frame or a pong. *)
ReadError(s) ==
    /\ rpc[s] = "read"
    /\ rpc' = [rpc EXCEPT ![s] = "unbind"]
    /\ UNCHANGED <<registryVars, packet>> /\ OnlyReadPump

(* ReadPacket returns the decoding error, and any error leaves the loop. *)
DecodeError(s) ==
    /\ rpc[s] = "handle" /\ packet[s] = Damaged
    /\ packet' = [packet EXCEPT ![s] = NoPacket]
    /\ rpc' = [rpc EXCEPT ![s] = "unbind"]
    /\ UNCHANGED registryVars /\ OnlyReadPump

(* RoutePacket returns without an effect: the error only counts. *)
Unrouted(s) ==
    /\ rpc[s] = "handle" /\ packet[s] = Unroutable
    /\ packet' = [packet EXCEPT ![s] = NoPacket]
    /\ rpc' = [rpc EXCEPT ![s] = "read"]
    /\ UNCHANGED registryVars /\ OnlyReadPump

(* Mutant: binds again on every request, and so follows the latest claim. *)
RouteChatRebinding(s) ==
    /\ rpc[s] = "handle" /\ packet[s] \in Targets
    /\ IF packet[s] # NoUser THEN Bind(packet[s], s) ELSE UNCHANGED registryVars
    /\ rpc' = [rpc EXCEPT ![s] = "publish"]
    /\ UNCHANGED packet /\ OnlyReadPump

(* Mutant: leaves the binding for later. *)
RouteChatUnbound(s) ==
    /\ rpc[s] = "handle" /\ packet[s] \in Targets
    /\ rpc' = [rpc EXCEPT ![s] = "publish"]
    /\ UNCHANGED <<registryVars, packet>> /\ OnlyReadPump

(* routeChatPacket up to the publication: the first request that names a   *)
(* user binds the session to that user, for good.                          *)
RouteChat(s) ==
    /\ rpc[s] = "handle" /\ packet[s] \in Targets
    /\ IF userID[s] = NoUser /\ packet[s] # NoUser
       THEN Bind(packet[s], s)
       ELSE UNCHANGED registryVars
    /\ rpc' = [rpc EXCEPT ![s] = "publish"]
    /\ UNCHANGED packet /\ OnlyReadPump

(* mqProducer.Publish returns, with or without an error: the loop goes on. *)
Publish(s) ==
    /\ rpc[s] = "publish"
    /\ packet' = [packet EXCEPT ![s] = NoPacket]
    /\ rpc' = [rpc EXCEPT ![s] = "read"]
    /\ UNCHANGED registryVars /\ OnlyReadPump

(* The deferred function: sessions.Remove in its two steps, then Close. *)
Unbind(s) ==
    /\ rpc[s] = "unbind"
    /\ RemoveUser(s)
    /\ rpc' = [rpc EXCEPT ![s] = "unlist"]
    /\ UNCHANGED packet /\ OnlyReadPump

Unlist(s) ==
    /\ rpc[s] = "unlist"
    /\ RemoveSession(s)
    /\ rpc' = [rpc EXCEPT ![s] = "close"]
    /\ UNCHANGED packet /\ OnlyReadPump

(* Mutant: the deferred function forgets to close the connection. *)
NoCloseRead(s) ==
    /\ rpc[s] = "close"
    /\ rpc' = [rpc EXCEPT ![s] = "done"]
    /\ UNCHANGED <<registryVars, packet>> /\ OnlyReadPump

CloseRead(s) ==
    /\ rpc[s] = "close"
    /\ conn' = [conn EXCEPT ![s] = "closed"]
    /\ rpc' = [rpc EXCEPT ![s] = "done"]
    /\ UNCHANGED <<registryVars, packet, writeVars, send, arrived, consumerVars>>

-----------------------------------------------------------------------------
(* The write pump.  Nobody closes Session.Send, so the branch of the code  *)
(* for a closed channel is never taken.                                    *)

OnlyWritePump == UNCHANGED <<registryVars, readVars, arrived, consumerVars>>

(* Mutant: looks at the next message without taking it off the channel. *)
PeekSend(s) ==
    /\ wpc[s] = "select" /\ send[s] # <<>>
    /\ wmsg' = [wmsg EXCEPT ![s] = Head(send[s])]
    /\ wpc' = [wpc EXCEPT ![s] = "write"]
    /\ UNCHANGED <<conn, send, delivered>> /\ OnlyWritePump

TakeSend(s) ==
    /\ wpc[s] = "select" /\ send[s] # <<>>
    /\ wmsg' = [wmsg EXCEPT ![s] = Head(send[s])]
    /\ send' = [send EXCEPT ![s] = Tail(send[s])]
    /\ wpc' = [wpc EXCEPT ![s] = "write"]
    /\ UNCHANGED <<conn, delivered>> /\ OnlyWritePump

(* Mutant: writes one message and returns. *)
WriteOnce(s) ==
    /\ wpc[s] = "write" /\ conn[s] # "closed"
    /\ delivered' = [delivered EXCEPT ![s] = Append(@, wmsg[s])]
    /\ wmsg' = [wmsg EXCEPT ![s] = 0]
    /\ wpc' = [wpc EXCEPT ![s] = "done"]
    /\ UNCHANGED <<conn, send>> /\ OnlyWritePump

(* The operating system takes the frame, which it may also do for a        *)
(* connection whose peer is gone.                                          *)
WriteOk(s) ==
    /\ wpc[s] = "write" /\ conn[s] # "closed"
    /\ delivered' = [delivered EXCEPT ![s] = Append(@, wmsg[s])]
    /\ wmsg' = [wmsg EXCEPT ![s] = 0]
    /\ wpc' = [wpc EXCEPT ![s] = "select"]
    /\ UNCHANGED <<conn, send>> /\ OnlyWritePump

(* The connection is gone, or 10 s were not enough: the message is lost. *)
WriteError(s) ==
    /\ wpc[s] = "write"
    /\ wmsg' = [wmsg EXCEPT ![s] = 0]
    /\ wpc' = [wpc EXCEPT ![s] = "close"]
    /\ UNCHANGED <<conn, send, delivered>> /\ OnlyWritePump

(* The ping of the 50 s ticker fails.  (One that succeeds changes nothing.) *)
PingError(s) ==
    /\ wpc[s] = "select"
    /\ wpc' = [wpc EXCEPT ![s] = "close"]
    /\ UNCHANGED <<conn, send, wmsg, delivered>> /\ OnlyWritePump

CloseWrite(s) ==
    /\ wpc[s] = "close"
    /\ conn' = [conn EXCEPT ![s] = "closed"]
    /\ wpc' = [wpc EXCEPT ![s] = "done"]
    /\ UNCHANGED <<send, wmsg, delivered>> /\ OnlyWritePump

-----------------------------------------------------------------------------
(* The consumer of the "broadcast" topic *)

OnlyConsumer == UNCHANGED <<registryVars, conn, readVars, writeVars>>

(* Environment: the message queue hands the process another message. *)
Arrive ==
    /\ Len(arrived) < MaxBroadcasts
    /\ \E u \in Targets : arrived' = Append(arrived, u)
    /\ UNCHANGED <<send, consumerVars>> /\ OnlyConsumer

(* HandleBroadcast up to the lookup of routeToClient.  A message without   *)
(* a target, or whose target has no session, is dropped here.              *)
Lookup ==
    /\ csess = NoSession /\ taken < Len(arrived)
    /\ taken' = taken + 1
    /\ csess' = GetByUserID(arrived[taken + 1])
    /\ UNCHANGED <<send, arrived>> /\ OnlyConsumer

(* Mutant: a plain send, which waits for room. *)
EnqueueBlocking ==
    /\ csess # NoSession /\ Len(send[csess]) < SendCap
    /\ send' = [send EXCEPT ![csess] = Append(@, taken)]
    /\ csess' = NoSession
    /\ UNCHANGED <<taken, arrived>> /\ OnlyConsumer

(* Mutant: no bound on the queue. *)
EnqueueUnbounded ==
    /\ csess # NoSession
    /\ send' = [send EXCEPT ![csess] = Append(@, taken)]
    /\ csess' = NoSession
    /\ UNCHANGED <<taken, arrived>> /\ OnlyConsumer

(* Mutant: off by one, the last place of the queue is never used. *)
EnqueueEarlyDrop ==
    /\ csess # NoSession
    /\ send' = IF Len(send[csess]) + 1 < SendCap
               THEN [send EXCEPT ![csess] = Append(@, taken)]
               ELSE send
    /\ csess' = NoSession
    /\ UNCHANGED <<taken, arrived>> /\ OnlyConsumer

(* The send of routeToClient: it never waits, a full queue drops. *)
Enqueue ==
    /\ csess # NoSession
    /\ send' = IF Len(send[csess]) < SendCap
               THEN [send EXCEPT ![csess] = Append(@, taken)]
               ELSE send
    /\ csess' = NoSession
    /\ UNCHANGED <<taken, arrived>> /\ OnlyConsumer

-----------------------------------------------------------------------------
(* The steps a read pump takes by itself once it holds a packet or leaves. *)
ReadPumpStep(s) ==
    DecodeError(s) \/ Unrouted(s) \/ RouteChat(s) \/ Publish(s)
        \/ Unbind(s) \/ Unlist(s) \/ CloseRead(s)

ReadPump(s) == ReadPacket(s) \/ ReadError(s) \/ ReadPumpStep(s)

WritePumpStep(s) == TakeSend(s) \/ WriteOk(s) \/ WriteError(s) \/ CloseWrite(s)

WritePump(s) == WritePumpStep(s) \/ PingError(s)

Consumer == Lookup \/ Enqueue

Next ==
    \/ \E s \in Sessions :
           HandleConnection(s) \/ Disconnect(s) \/ ReadPump(s) \/ WritePump(s)
    \/ Arrive
    \/ Consumer

Spec == Init /\ [][Next]_vars

(***************************************************************************)
(* Fairness.  A goroutine that can run runs.  A write ends within its 10 s *)
(* deadline, and Publish returns.  A read ends with an error on a          *)
(* connection that is gone: at once or at the 60 s deadline, after the     *)
(* finitely many frames that were buffered, hence strong fairness.  A ping *)
(* is only sure to fail once this process has closed the connection.       *)
(***************************************************************************)
Fairness ==
    /\ \A s \in Sessions :
           /\ WF_vars(ReadPumpStep(s))
           /\ SF_vars(ReadError(s) /\ conn[s] # "open")
           /\ WF_vars(WritePumpStep(s))
           /\ WF_vars(PingError(s) /\ conn[s] = "closed")
    /\ WF_vars(Consumer)

FairSpec == Spec /\ Fairness

-----------------------------------------------------------------------------
(* Properties *)

Holding(s) == IF wmsg[s] = 0 THEN <<>> ELSE <<wmsg[s]>>

(* Everything ever queued to s and not lost, oldest first. *)
Pipeline(s) == delivered[s] \o Holding(s) \o send[s]

Elements(seq) == {seq[i] : i \in DOMAIN seq}

(* The read loop of s is running. *)
Live(s) == rpc[s] \in {"read", "handle", "publish"}

(* The type invariant; it includes the capacity of Session.Send. *)
TypeOK ==
    /\ RegistryTypeOK
    /\ conn \in [Sessions -> {"none", "open", "broken", "closed"}]
    /\ rpc \in [Sessions -> {"off", "read", "handle", "publish",
                             "unbind", "unlist", "close", "done"}]
    /\ packet \in [Sessions -> Packets \cup {NoPacket}]
    /\ wpc \in [Sessions -> {"off", "select", "write", "close", "done"}]
    /\ send \in [Sessions -> Seq(Message)]
    /\ \A s \in Sessions : Len(send[s]) <= SendCap
    /\ wmsg \in [Sessions -> Message \cup {0}]
    /\ delivered \in [Sessions -> Seq(Message)]
    /\ arrived \in Seq(Targets)
    /\ Len(arrived) <= MaxBroadcasts
    /\ taken \in 0..Len(arrived)
    /\ csess \in Sessions \cup {NoSession}

(* An entry of userSessions always points to a registered session that is  *)
(* bound to that very user and whose read pump has not passed the removal: *)
(* the two-step Remove never leaves an entry for a dead session behind.    *)
NoStaleEntry ==
    \A u \in Users :
        LET s == userSessions[u] IN
        s # NoSession =>
            /\ s \in sessions
            /\ userID[s] = u
            /\ rpc[s] \in {"handle", "read", "publish", "unbind"}

(* A live session bound to a user whom no other session ever claimed is    *)
(* the one that GetByUserID finds: only a second session of the same user  *)
(* can take its messages away.                                             *)
SoleSessionReachable ==
    \A s \in Sessions :
        /\ userID[s] # NoUser
        /\ Live(s)
        /\ \A t \in Sessions \ {s} : userID[t] # userID[s]
        => GetByUserID(userID[s]) = s

(* Whatever is queued to, held for or written to a session was addressed   *)
(* to the user that session is bound to, also when the session that was    *)
(* looked up has been removed before the message is queued.                *)
NoMisrouting ==
    \A s \in Sessions :
        \A i \in Elements(Pipeline(s)) : arrived[i] = userID[s]

(* A message reaches one session at most, and once, and every session gets *)
(* its messages in the order in which the consumer received them.          *)
OrderedAtMostOnce ==
    \A s \in Sessions :
        /\ \A j, k \in DOMAIN Pipeline(s) : j < k => Pipeline(s)[j] < Pipeline(s)[k]
        /\ \A t \in Sessions \ {s} :
               Elements(Pipeline(s)) \cap Elements(Pipeline(t)) = {}

(* A request that claims a user is given to the message queue only after   *)
(* its session is bound and while it is registered, so the answer cannot   *)
(* overtake the binding.                                                   *)
BoundBeforePublish ==
    \A s \in Sessions :
        rpc[s] = "publish" /\ packet[s] \in Users =>
            userID[s] # NoUser /\ s \in sessions

(* The gateway implements MessageRouting: although a lookup and the send   *)
(* after it, and the two halves of Remove, are steps of their own that     *)
(* other goroutines come between, each message goes where it would have    *)
(* gone had they been one, and is lost only where MessageRouting says.     *)
InHand(s) == IF csess = s THEN <<taken>> ELSE <<>>
Line(s) == Holding(s) \o send[s] \o InHand(s)
Lines == [s \in Sessions |-> Line(s)]
Gone == {s \in Sessions : rpc[s] \in {"unlist", "close", "done"}}
Failed == {s \in Sessions : wpc[s] \in {"close", "done"}}

Routing == INSTANCE MessageRouting WITH
    owner <- userID, entry <- userSessions, gone <- Gone,
    handled <- taken, waiting <- Lines, failed <- Failed

RoutesAtOnce == Routing!Spec

(* docs/GATEWAY_LOGIC.md:43: an answer finds the session by its user ID.   *)
(* Stated for every user who has a live session that is bound to him.      *)
LiveUserReachable ==
    \A s \in Sessions :
        userID[s] # NoUser /\ Live(s) => GetByUserID(userID[s]) # NoSession

(* A connection that is lost or closed is cleaned up: both pumps end and   *)
(* the session leaves both maps.                                           *)
CleanedUp ==
    \A s \in Sessions :
        conn[s] \in {"broken", "closed"} ~>
            /\ rpc[s] = "done" /\ wpc[s] = "done" /\ s \notin sessions
            /\ \A u \in Users : userSessions[u] # s

(* No session, whatever its client does, holds up the one consumer of the  *)
(* broadcasts: each message is taken and dealt with.                       *)
ConsumerProgress ==
    \A i \in Message :
        i <= Len(arrived) ~> (taken > i \/ (taken = i /\ csess = NoSession))

(* A queued message is written to its connection unless that connection    *)
(* ends.                                                                   *)
QueueDrains ==
    \A s \in Sessions, i \in Message :
        i \in Elements(send[s]) ~>
            i \in Elements(delivered[s]) \/ conn[s] # "open"
=============================================================================
