---------------------------- MODULE MessageQueue -----------------------------
(***************************************************************************)
(* The message queue of a process (pkg/mq/mq.go): both main programs       *)
(* choose one of the two implementations from their configuration and      *)
(* then use it through the same interface.  The topic, the channel that    *)
(* Subscribe returns and what its consumer receives are the same in both;  *)
(* the part of the one that was not chosen stays as it is at the start.    *)
(***************************************************************************)
EXTENDS RobustMQ

CONSTANT ClientCap  \* capacity of the Redis client's channel

ASSUME ClientCapAssumption == ClientCap \in Nat

VARIABLES
    kind,                               \* cfg.MQ.Type
    clientChan, bpc, redisMsg, closed,  \* of RedisMQ
    cancelled, looping

R == INSTANCE RedisMQ

redisVars == <<clientChan, bpc, redisMsg, closed, cancelled, looping>>
robustVars == <<linkVars, publishVars, inbound, callback>>
mqVars == <<kind, redisVars, robustVars, topic, consumeVars>>

(* The switch on cfg.MQ.Type. *)
MQInit ==
    /\ kind \in {"redis", "robustmq"}
    /\ Init
    /\ R!Init

MQNext ==
    /\ UNCHANGED kind
    /\ \/ kind = "redis" /\ R!Next /\ UNCHANGED robustVars
       \/ kind = "robustmq" /\ Next /\ UNCHANGED redisVars

MQSpec == MQInit /\ [][MQNext]_mqVars

(* Each of the two as in its own module. *)
MQFairSpec ==
    /\ MQSpec
    /\ kind = "robustmq" => Fairness
    /\ kind = "redis" => R!Fairness

-----------------------------------------------------------------------------
(* Properties *)

(* The type invariants; they include the capacity of msgChan. *)
MQTypeOK ==
    /\ kind \in {"redis", "robustmq"}
    /\ TypeOK
    /\ R!TypeOK

(* Whichever queue is configured, the subscriber receives the messages of  *)
(* the topic in their order and each of them once.                         *)
MQInOrder == InOrder /\ R!InOrder

(* With Redis, what has reached the client is received unless the          *)
(* subscription is closed: the process itself loses nothing.               *)
OnlyTheNetworkLoses == R!OnlyTheNetworkLoses

(* With Redis, Close ends the loop of the consumer, although the bridge    *)
(* may be waiting for room in msgChan, where it does not watch the context. *)
CloseEndsLoop == R!CloseEndsLoop
=============================================================================
