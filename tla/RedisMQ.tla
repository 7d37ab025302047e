------------------------------ MODULE RedisMQ -------------------------------
(***************************************************************************)
(* One subscription through Redis (pkg/mq/redis_mq.go), from the channel   *)
(* of the Redis client over the bridge goroutine and msgChan to the loop   *)
(* that consumes it (in the main programs of both services).               *)
(*                                                                         *)
(* A message is its number among those published on the topic.  Redis      *)
(* keeps nothing: what does not reach the client is lost.  Publish and     *)
(* Subscribe leave no state behind but the subscription, which is there    *)
(* from the start.  MessageQueue takes this module in and checks it.       *)
(***************************************************************************)
EXTENDS Naturals, Sequences

CONSTANTS
    ClientCap,  \* capacity of the Redis client's channel
    ChanCap,    \* capacity of msgChan (100)
    MaxTopic    \* bound: messages published on the topic

VARIABLES
    topic,      \* how many messages were published
    clientChan, \* the channel of the Redis client
    bpc,        \* where the bridge goroutine is
    redisMsg,   \* the message it has taken, 0 if none
    msgChan,    \* the channel returned by Subscribe
    closed,     \* it has been closed
    cancelled,  \* Close was called
    received,   \* what the consumer has received
    looping     \* its loop is running

clientVars == <<topic, clientChan>>
bridgeVars == <<bpc, redisMsg, closed>>
consumerVars == <<received, looping>>
vars == <<clientVars, bridgeVars, msgChan, cancelled, consumerVars>>

Message == 1..MaxTopic

Init ==
    /\ topic = 0
    /\ clientChan = <<>>
    /\ bpc = "select"
    /\ redisMsg = 0
    /\ msgChan = <<>>
    /\ closed = FALSE
    /\ cancelled = FALSE
    /\ received = <<>>
    /\ looping = TRUE

(* Environment: a message is published; it reaches the client, or is lost  *)
(* because the client is not connected or has no room.                     *)
PeerPublish ==
    /\ topic < MaxTopic
    /\ topic' = topic + 1
    /\ \/ /\ Len(clientChan) < ClientCap
          /\ clientChan' = Append(clientChan, topic + 1)
       \/ UNCHANGED clientChan
    /\ UNCHANGED <<bridgeVars, msgChan, cancelled, consumerVars>>

(* RedisMQ.Close cancels the context that the bridge watches. *)
Close ==
    /\ ~ cancelled
    /\ cancelled' = TRUE
    /\ UNCHANGED <<clientVars, bridgeVars, msgChan, consumerVars>>

-----------------------------------------------------------------------------
(* The bridge goroutine *)

(* Mutant: looks at the next message without taking it. *)
BridgePeek ==
    /\ bpc = "select" /\ clientChan # <<>>
    /\ redisMsg' = Head(clientChan)
    /\ bpc' = "send"
    /\ UNCHANGED <<clientVars, msgChan, closed, cancelled, consumerVars>>

BridgeTake ==
    /\ bpc = "select" /\ clientChan # <<>>
    /\ redisMsg' = Head(clientChan)
    /\ clientChan' = Tail(clientChan)
    /\ bpc' = "send"
    /\ UNCHANGED <<topic, msgChan, closed, cancelled, consumerVars>>

(* Mutant: ends without closing msgChan. *)
BridgeLeave ==
    /\ bpc = "select" /\ cancelled
    /\ bpc' = "done"
    /\ UNCHANGED <<clientVars, redisMsg, msgChan, closed, cancelled, consumerVars>>

(* ctx.Done is watched by the select only.  The deferred calls close the   *)
(* subscription and msgChan.  The client never closes its own channel.     *)
BridgeStop ==
    /\ bpc = "select" /\ cancelled
    /\ bpc' = "done"
    /\ closed' = TRUE
    /\ UNCHANGED <<clientVars, redisMsg, msgChan, cancelled, consumerVars>>

(* Mutant: drops the message when msgChan is full. *)
BridgeSendOrDrop ==
    /\ bpc = "send"
    /\ msgChan' = IF Len(msgChan) < ChanCap THEN Append(msgChan, redisMsg) ELSE msgChan
    /\ redisMsg' = 0
    /\ bpc' = "select"
    /\ UNCHANGED <<clientVars, closed, cancelled, consumerVars>>

(* The send waits for room, also after Close. *)
BridgeSend ==
    /\ bpc = "send" /\ Len(msgChan) < ChanCap
    /\ msgChan' = Append(msgChan, redisMsg)
    /\ redisMsg' = 0
    /\ bpc' = "select"
    /\ UNCHANGED <<clientVars, closed, cancelled, consumerVars>>

-----------------------------------------------------------------------------
(* The loop over msgChan *)

Consume ==
    /\ looping /\ msgChan # <<>>
    /\ received' = Append(received, Head(msgChan))
    /\ msgChan' = Tail(msgChan)
    /\ UNCHANGED <<clientVars, bridgeVars, cancelled, looping>>

EndOfRange ==
    /\ looping /\ msgChan = <<>> /\ closed
    /\ looping' = FALSE
    /\ UNCHANGED <<clientVars, bridgeVars, msgChan, cancelled, received>>

-----------------------------------------------------------------------------
Bridge == BridgeTake \/ BridgeStop \/ BridgeSend
Consumer == Consume \/ EndOfRange

Next == PeerPublish \/ Close \/ Bridge \/ Consumer

Spec == Init /\ [][Next]_vars

(* Goroutines that can run do, and a select that finds both channels ready *)
(* does not prefer the messages for ever.                                  *)
Fairness ==
    /\ WF_vars(Bridge)
    /\ SF_vars(BridgeStop)
    /\ WF_vars(Consumer)

FairSpec == Spec /\ Fairness

-----------------------------------------------------------------------------
(* Properties *)

(* The type invariant; it includes the capacities of the two channels. *)
TypeOK ==
    /\ topic \in 0..MaxTopic
    /\ clientChan \in Seq(Message) /\ Len(clientChan) <= ClientCap
    /\ bpc \in {"select", "send", "done"}
    /\ redisMsg \in Message \cup {0}
    /\ msgChan \in Seq(Message) /\ Len(msgChan) <= ChanCap
    /\ closed \in BOOLEAN
    /\ cancelled \in BOOLEAN
    /\ received \in Seq(Message)
    /\ looping \in BOOLEAN

Pipeline == received \o msgChan \o (IF redisMsg = 0 THEN <<>> ELSE <<redisMsg>>) \o clientChan

(* The subscriber receives the messages of the topic in order and each of  *)
(* them once, whichever were lost before they reached the client.          *)
InOrder ==
    \A i, j \in DOMAIN Pipeline : i < j => Pipeline[i] < Pipeline[j]

Elements(seq) == {seq[i] : i \in DOMAIN seq}

(* A message that has reached the client is received, however slow the     *)
(* consumer is, unless the subscription is closed.                         *)
OnlyTheNetworkLoses ==
    \A i \in Message : i \in Elements(clientChan) ~> i \in Elements(received) \/ cancelled

(* Close ends the loop of the consumer, although the bridge may be waiting *)
(* for room in msgChan, where it does not watch the context.               *)
CloseEndsLoop == cancelled ~> ~ looping
=============================================================================
