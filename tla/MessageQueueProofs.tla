-------------------------- MODULE MessageQueueProofs -------------------------
(***************************************************************************)
(* Proofs about MessageQueue, for any calls, messages, capacities of the   *)
(* channels and losses of the connection.  First the MQTT client alone,    *)
(* then the Redis client alone, then the choice between them.              *)
(*                                                                         *)
(* ReturnedMeansStored is inductive together with AckedMeansStored, the    *)
(* same for an acknowledgement that the client has not read yet.  The      *)
(* order of the messages is inductive together with the fact that no       *)
(* message is later than the last that was published.                      *)
(***************************************************************************)
EXTENDS MessageQueue, SortedQueues, TLAPS

-----------------------------------------------------------------------------
(* The MQTT client *)

(* The broker acknowledges only what it has. *)
AckedMeansStored ==
    \A k \in DOMAIN inbound : \A c \in Calls : inbound[k] = Puback(c) => c \in stored

RobustInv ==
    /\ TypeOK
    /\ AckedMeansStored
    /\ ReturnedMeansStored

USE ChanCapAssumption, BoundAssumption, ClientCapAssumption

(* The two kinds of packets, and their content, can be told apart. *)
LEMMA Kinds ==
    /\ \A i \in Message, c \in Calls : Publication(i) # Puback(c)
    /\ \A c, d \in Calls : Puback(c) = Puback(d) => c = d
    /\ \A i \in Message : Publication(i) \in Inbound /\ Publication(i).id = i
    /\ \A c \in Calls : Puback(c) \in Inbound /\ Puback(c).kind = "PUBACK"
    /\ \A p \in Inbound : p.kind = "PUBLISH" => p.id \in Message
<1> USE DEF Publication, Puback, Inbound
<1>1. \A i \in Message, c \in Calls : Publication(i) # Puback(c)
  <2> SUFFICES ASSUME NEW i \in Message, NEW c \in Calls, Publication(i) = Puback(c)
               PROVE  FALSE
    OBVIOUS
  <2>1. Publication(i).kind = "PUBLISH" /\ Puback(c).kind = "PUBACK"
    OBVIOUS
  <2> QED  BY <2>1
<1>2. \A c, d \in Calls : Puback(c) = Puback(d) => c = d
  <2> SUFFICES ASSUME NEW c \in Calls, NEW d \in Calls, Puback(c) = Puback(d)
               PROVE  c = d
    OBVIOUS
  <2>1. Puback(c).id = c /\ Puback(d).id = d
    OBVIOUS
  <2> QED  BY <2>1
<1>3. \A i \in Message : Publication(i) \in Inbound /\ Publication(i).id = i
  OBVIOUS
<1>4. \A c \in Calls : Puback(c) \in Inbound /\ Puback(c).kind = "PUBACK"
  OBVIOUS
<1>5. ASSUME NEW p \in Inbound, p.kind = "PUBLISH" PROVE p.id \in Message
  <2>1. CASE \E c \in Calls : p = Puback(c)
    BY <1>5, <2>1
  <2>2. CASE \E i \in Message : p = Publication(i)
    BY <2>2
  <2> QED  BY <2>1, <2>2
<1> QED  BY <1>1, <1>2, <1>3, <1>4, <1>5

(* The initial state satisfies every part of the invariant. *)
LEMMA RobustInitInv == Init => RobustInv
<1> SUFFICES ASSUME Init PROVE RobustInv
  OBVIOUS
<1>1. TypeOK
  BY DEF Init, TypeOK, Message
<1>2. AckedMeansStored /\ ReturnedMeansStored
  BY DEF Init, AckedMeansStored, ReturnedMeansStored
<1> QED  BY <1>1, <1>2 DEF RobustInv

(* Every step keeps the types and the capacity of msgChan. *)
LEMMA RobustTypeStep == TypeOK /\ [Next]_vars => TypeOK'
<1> SUFFICES ASSUME TypeOK, [Next]_vars PROVE TypeOK'
  OBVIOUS
<1> USE DEF TypeOK, linkVars, publishVars, consumeVars
<1>1. CASE LoseLink
  <2>1. PICK F \in SUBSET {c \in Calls : cpc[c] = "waiting"} :
            cpc' = [c \in Calls |-> IF c \in F THEN "failed" ELSE cpc[c]]
    BY <1>1 DEF LoseLink
  <2>2. cpc' \in [Calls -> {"new", "waiting", "returned", "failed"}]
    BY <2>1
  <2>3. losses' \in 0..MaxLosses
    BY <1>1 DEF LoseLink
  <2>4. inbound' = <<>> /\ inbound' \in Seq(Inbound)
    BY <1>1 DEF LoseLink
  <2> QED  BY <1>1, <2>2, <2>3, <2>4 DEF LoseLink
<1>2. CASE Reconnect
  BY <1>2 DEF Reconnect
<1>3. ASSUME NEW c \in Calls, Publish(c) PROVE TypeOK'
  BY <1>3 DEF Publish
<1>4. ASSUME NEW c \in Calls, BrokerStore(c) PROVE TypeOK'
  BY <1>4, Kinds DEF BrokerStore
<1>5. CASE PeerPublish
  <2>1. topic + 1 \in Message
    BY <1>5 DEF PeerPublish, Message
  <2>2. inbound' \in Seq(Inbound)
    BY <1>5, <2>1, Kinds DEF PeerPublish
  <2> QED  BY <1>5, <2>2 DEF PeerPublish
<1>6. CASE ReadPuback
  BY <1>6 DEF ReadPuback
<1>7. CASE StartCallback
  <2>1. Head(inbound) \in Inbound
    BY <1>7 DEF StartCallback
  <2>2. callback' \in Message
    BY <1>7, <2>1, Kinds DEF StartCallback
  <2> QED  BY <1>7, <2>2 DEF StartCallback
<1>8. CASE EndCallback
  BY <1>8 DEF EndCallback
<1>9. CASE Consume
  BY <1>9 DEF Consume
<1>10. CASE UNCHANGED vars
  BY <1>10 DEF vars
<1> QED  BY <1>1, <1>2, <1>3, <1>4, <1>5, <1>6, <1>7, <1>8, <1>9, <1>10 DEF Next, Client

(* An acknowledgement enters the connection only when the broker stores    *)
(* the message, and the broker forgets none.                               *)
LEMMA AckedStep == RobustInv /\ [Next]_vars => AckedMeansStored'
<1> SUFFICES ASSUME RobustInv, [Next]_vars PROVE AckedMeansStored'
  OBVIOUS
<1> USE DEF RobustInv, TypeOK, AckedMeansStored, linkVars, publishVars, consumeVars
<1>1. ASSUME UNCHANGED stored, inbound' = Tail(inbound), inbound # <<>> PROVE AckedMeansStored'
  BY <1>1
<1>2. ASSUME UNCHANGED <<stored, inbound>> PROVE AckedMeansStored'
  BY <1>2
<1>3. CASE LoseLink
  BY <1>3 DEF LoseLink
<1>4. ASSUME NEW c \in Calls, BrokerStore(c) PROVE AckedMeansStored'
  BY <1>4, Kinds DEF BrokerStore
<1>5. CASE PeerPublish
  <2>1. topic + 1 \in Message
    BY <1>5 DEF PeerPublish, Message
  <2> QED  BY <1>5, <2>1, Kinds DEF PeerPublish
<1>6. CASE ReadPuback
  BY <1>1, <1>6 DEF ReadPuback
<1>7. CASE StartCallback
  BY <1>1, <1>7 DEF StartCallback
<1>8. CASE Reconnect \/ EndCallback \/ Consume \/ UNCHANGED vars
  BY <1>2, <1>8 DEF Reconnect, EndCallback, Consume, vars
<1>9. ASSUME NEW c \in Calls, Publish(c) PROVE AckedMeansStored'
  BY <1>2, <1>9 DEF Publish
<1> QED  BY <1>3, <1>4, <1>5, <1>6, <1>7, <1>8, <1>9 DEF Next, Client

(* A call returns only by reading its acknowledgement. *)
LEMMA ReturnedStep == RobustInv /\ [Next]_vars => ReturnedMeansStored'
<1> SUFFICES ASSUME RobustInv, [Next]_vars PROVE ReturnedMeansStored'
  OBVIOUS
<1> USE DEF RobustInv, TypeOK, ReturnedMeansStored, linkVars, publishVars, consumeVars
<1>1. CASE LoseLink
  BY <1>1 DEF LoseLink
<1>2. ASSUME NEW c \in Calls, Publish(c) PROVE ReturnedMeansStored'
  BY <1>2 DEF Publish
<1>3. ASSUME NEW c \in Calls, BrokerStore(c) PROVE ReturnedMeansStored'
  BY <1>3 DEF BrokerStore
<1>4. CASE ReadPuback
  <2>1. PICK c \in Calls :
            /\ Head(inbound) = Puback(c)
            /\ cpc' = [cpc EXCEPT ![c] = IF @ = "waiting" THEN "returned" ELSE @]
    BY <1>4 DEF ReadPuback
  <2>2. c \in stored
    BY <1>4, <2>1 DEF ReadPuback, AckedMeansStored
  <2> QED  BY <1>4, <2>1, <2>2 DEF ReadPuback
<1>5. CASE Reconnect \/ PeerPublish \/ StartCallback \/ EndCallback \/ Consume \/ UNCHANGED vars
  BY <1>5 DEF Reconnect, PeerPublish, StartCallback, EndCallback, Consume, vars
<1> QED  BY <1>1, <1>2, <1>3, <1>4, <1>5 DEF Next, Client

(* What the client has read, in order and none later than the topic. *)
ReadInOrder == Sorted(Pipeline) /\ UpTo(Pipeline, topic)

(* What it has yet to read comes later, and in order. *)
UnreadLater ==
    \A k \in DOMAIN inbound :
        inbound[k].kind = "PUBLISH" =>
            /\ inbound[k].id <= topic
            /\ \A i \in DOMAIN Pipeline : Pipeline[i] < inbound[k].id

UnreadInOrder ==
    \A j, k \in DOMAIN inbound :
        j < k /\ inbound[j].kind = "PUBLISH" /\ inbound[k].kind = "PUBLISH" =>
            inbound[j].id < inbound[k].id

RobustOrder == ReadInOrder /\ UnreadLater /\ UnreadInOrder

(* The parts of the pipeline are sequences of numbers. *)
LEMMA RobustParts ==
    ASSUME TypeOK
    PROVE  /\ received \in Seq(Nat) /\ msgChan \in Seq(Nat) /\ received \o msgChan \in Seq(Nat)
           /\ Pipeline \in Seq(Nat)
           /\ callback = 0 => Pipeline = received \o msgChan
           /\ callback # 0 => callback \in Nat /\ Pipeline = (received \o msgChan) \o <<callback>>
<1>1. Message \subseteq Nat
  BY DEF Message
<1>2. received \in Seq(Nat) /\ msgChan \in Seq(Nat)
  BY <1>1, SeqMonotonic DEF TypeOK
<1>3. received \o msgChan \in Seq(Nat)
  BY <1>2
<1>4. CASE callback = 0
  <2>1. Pipeline = received \o msgChan \o <<>>
    BY <1>4 DEF Pipeline
  <2>2. (received \o msgChan) \o <<>> = received \o msgChan
    BY <1>3
  <2> QED  BY <1>2, <1>3, <1>4, <2>1, <2>2
<1>5. CASE callback # 0
  <2>1. callback \in Nat
    BY <1>1, <1>5 DEF TypeOK
  <2>2. Pipeline = (received \o msgChan) \o <<callback>>
    BY <1>5 DEF Pipeline
  <2>3. Pipeline \in Seq(Nat)
    BY <1>3, <2>1, <2>2
  <2> QED  BY <1>2, <1>3, <1>5, <2>1, <2>2, <2>3
<1> QED  BY <1>4, <1>5

(* A step that leaves the pipeline alone, and takes from the connection    *)
(* what it holds, or its head, or adds an acknowledgement.                 *)
LEMMA PipelineSame ==
    ASSUME TypeOK, TypeOK', RobustOrder, Pipeline' = Pipeline, topic' = topic,
           \/ inbound' = <<>>
           \/ inbound' = inbound
           \/ inbound # <<>> /\ inbound' = Tail(inbound)
           \/ \E c \in Calls : inbound' = Append(inbound, Puback(c))
    PROVE  RobustOrder'
<1> USE DEF RobustOrder
<1>1. ReadInOrder'
  BY DEF ReadInOrder
<1>2. inbound \in Seq(Inbound)
  BY DEF TypeOK
<1>3. CASE inbound' = <<>>
  BY <1>1, <1>3 DEF UnreadLater, UnreadInOrder
<1>4. CASE inbound' = inbound
  BY <1>1, <1>4 DEF UnreadLater, UnreadInOrder
<1>5. CASE inbound # <<>> /\ inbound' = Tail(inbound)
  <2>1. \A k \in DOMAIN inbound' : k \in Nat /\ k + 1 \in DOMAIN inbound /\ inbound'[k] = inbound[k + 1]
    BY <1>2, <1>5
  <2>2. UnreadLater'
    BY <2>1 DEF UnreadLater
  <2>3. \A j, k \in DOMAIN inbound' : j < k => j + 1 < k + 1
    BY <2>1
  <2>4. UnreadInOrder'
    BY <2>1, <2>3 DEF UnreadInOrder
  <2> QED  BY <1>1, <2>2, <2>4
<1>6. ASSUME NEW c \in Calls, inbound' = Append(inbound, Puback(c)) PROVE RobustOrder'
  <2>1. Puback(c) \in Inbound /\ Puback(c).kind # "PUBLISH"
    BY Kinds
  <2>2. \A k \in DOMAIN inbound' :
            inbound'[k].kind = "PUBLISH" => k \in DOMAIN inbound /\ inbound'[k] = inbound[k]
    BY <1>2, <1>6, <2>1
  <2>3. UnreadLater'
    BY <2>2 DEF UnreadLater
  <2>4. UnreadInOrder'
    BY <2>2 DEF UnreadInOrder
  <2> QED  BY <1>1, <2>3, <2>4
<1> QED  BY <1>3, <1>4, <1>5, <1>6

(* The order is kept: the connection is read from its head, and a message  *)
(* that is published is later than all of them.                            *)
LEMMA RobustOrderStep == TypeOK /\ TypeOK' /\ RobustOrder /\ [Next]_vars => RobustOrder'
<1> SUFFICES ASSUME TypeOK, TypeOK', RobustOrder, [Next]_vars PROVE RobustOrder'
  OBVIOUS
<1> USE DEF linkVars, publishVars, consumeVars
<1>1. ASSUME UNCHANGED <<received, msgChan, callback>> PROVE Pipeline' = Pipeline
  BY <1>1 DEF Pipeline
<1>2. CASE LoseLink
  BY <1>1, <1>2, PipelineSame DEF LoseLink
<1>3. CASE Reconnect
  BY <1>1, <1>3, PipelineSame DEF Reconnect
<1>4. ASSUME NEW c \in Calls, Publish(c) PROVE RobustOrder'
  BY <1>1, <1>4, PipelineSame DEF Publish
<1>5. ASSUME NEW c \in Calls, BrokerStore(c) PROVE RobustOrder'
  BY <1>1, <1>5, PipelineSame DEF BrokerStore
<1>6. CASE ReadPuback
  BY <1>1, <1>6, PipelineSame DEF ReadPuback
<1>7. CASE PeerPublish
  <2>1. /\ Pipeline' = Pipeline /\ topic' = topic + 1 /\ topic \in Nat
        /\ topic + 1 \in Message /\ inbound \in Seq(Inbound)
    BY <1>1, <1>7 DEF PeerPublish, TypeOK, Message
  <2>2. \A i \in DOMAIN Pipeline : Pipeline[i] \in Nat
    <3>1. Pipeline \in Seq(Nat)
      BY RobustParts
    <3> QED  BY ONLY <3>1, ElementIn
  <2>3. \A i \in DOMAIN Pipeline : Pipeline[i] < topic + 1 /\ Pipeline[i] <= topic + 1
    BY <2>1, <2>2 DEF RobustOrder, ReadInOrder, UpTo
  <2>4. ReadInOrder'
    BY <2>1, <2>3 DEF RobustOrder, ReadInOrder, UpTo
  <2>5. \A k \in DOMAIN inbound : inbound[k] \in Inbound
    BY ONLY <2>1, ElementIn
  <2>6. \A k \in DOMAIN inbound : inbound[k].kind = "PUBLISH" =>
            /\ inbound[k].id \in Nat /\ inbound[k].id <= topic
            /\ inbound[k].id < topic + 1 /\ inbound[k].id <= topic + 1
    <3>1. \A k \in DOMAIN inbound : inbound[k].kind = "PUBLISH" =>
              inbound[k].id \in Nat /\ inbound[k].id <= topic
      BY <2>5, Kinds DEF RobustOrder, UnreadLater, Message
    <3> QED  BY <2>1, <3>1
  <2>7. CASE inbound' = inbound
    BY <2>1, <2>4, <2>6, <2>7 DEF RobustOrder, UnreadLater, UnreadInOrder
  <2>8. CASE inbound' = Append(inbound, Publication(topic + 1))
    <3>1. Publication(topic + 1) \in Inbound /\ Publication(topic + 1).id = topic + 1
      BY <2>1, Kinds
    <3>2. \A k \in DOMAIN inbound' :
              \/ k \in DOMAIN inbound /\ inbound'[k] = inbound[k]
              \/ k = Len(inbound) + 1 /\ inbound'[k] = Publication(topic + 1)
      BY <2>1, <2>8, <3>1
    <3>3. UnreadLater'
      BY <2>1, <2>3, <2>6, <3>1, <3>2 DEF RobustOrder, UnreadLater
    <3>4. ASSUME NEW j \in DOMAIN inbound', NEW k \in DOMAIN inbound', j < k,
                 inbound'[j].kind = "PUBLISH", inbound'[k].kind = "PUBLISH"
          PROVE  inbound'[j].id < inbound'[k].id
      <4>1. DOMAIN inbound = 1..Len(inbound) /\ Len(inbound) \in Nat
        BY <2>1
      <4>2. j \in DOMAIN inbound /\ inbound'[j] = inbound[j]
        BY <3>2, <3>4, <4>1
      <4>3. CASE k \in DOMAIN inbound /\ inbound'[k] = inbound[k]
        BY <3>4, <4>2, <4>3 DEF RobustOrder, UnreadInOrder
      <4>4. CASE inbound'[k] = Publication(topic + 1)
        BY <2>6, <3>1, <3>4, <4>2, <4>4
      <4> QED  BY <3>2, <4>3, <4>4
    <3>5. UnreadInOrder'
      BY <3>4 DEF UnreadInOrder
    <3> QED  BY <2>4, <3>3, <3>5 DEF RobustOrder
  <2> QED  BY <1>7, <2>7, <2>8 DEF PeerPublish
<1>8. CASE StartCallback
  <2>1. /\ inbound # <<>> /\ callback = 0 /\ Head(inbound).kind = "PUBLISH"
        /\ callback' = Head(inbound).id /\ inbound' = Tail(inbound)
        /\ received' = received /\ msgChan' = msgChan /\ topic' = topic
        /\ inbound \in Seq(Inbound) /\ topic \in Nat
    BY <1>8 DEF StartCallback, TypeOK
  <2>2. 1 \in DOMAIN inbound /\ Head(inbound) = inbound[1] /\ Head(inbound) \in Inbound
    BY <2>1
  <2>3. callback' \in Nat /\ callback' # 0 /\ callback' <= topic
    BY <2>1, <2>2, Kinds DEF RobustOrder, UnreadLater, Message
  <2>4. Pipeline \in Seq(Nat) /\ Pipeline = received \o msgChan
    BY <2>1, RobustParts
  <2>5. Pipeline' = (received' \o msgChan') \o <<callback'>>
    BY <2>3 DEF Pipeline
  <2>6. Pipeline' = Append(Pipeline, callback')
    BY <2>1, <2>3, <2>4, <2>5
  <2> DEFINE P == Pipeline
             m == Head(inbound).id
  <2>7. P \in Seq(Nat) /\ m \in Nat /\ m <= topic /\ Pipeline' = Append(P, m)
    BY <2>1, <2>3, <2>4, <2>6
  <2>8. Sorted(P) /\ \A i \in DOMAIN P : P[i] < m
    BY <2>1, <2>2 DEF RobustOrder, ReadInOrder, UnreadLater
  <2>9. \A k \in DOMAIN inbound' : k \in Nat \ {0} /\ k + 1 \in DOMAIN inbound /\ inbound'[k] = inbound[k + 1]
    BY <2>1
  <2>10. \A k \in DOMAIN inbound' : inbound'[k].kind = "PUBLISH" => m < inbound'[k].id
    <3>1. \A k \in DOMAIN inbound' : 1 < k + 1
      BY <2>9
    <3> QED  BY <2>1, <2>2, <2>9, <3>1 DEF RobustOrder, UnreadInOrder
  <2>11. \A k \in DOMAIN inbound' : inbound'[k].kind = "PUBLISH" =>
             inbound'[k].id <= topic /\ \A i \in DOMAIN P : P[i] < inbound'[k].id
    BY <2>9 DEF RobustOrder, UnreadLater
  <2> HIDE DEF P, m
  <2>12. /\ Sorted(Append(P, m)) /\ UpTo(Append(P, m), m)
         /\ \A i \in DOMAIN Append(P, m) :
                Append(P, m)[i] = m \/ \E k \in DOMAIN P : Append(P, m)[i] = P[k]
    BY ONLY <2>7, <2>8, AppendSorted
  <2>13. UpTo(Append(P, m), topic)
    <3>1. Append(P, m) \in Seq(Nat)
      BY <2>7
    <3>2. \A i \in DOMAIN Append(P, m) : Append(P, m)[i] \in Nat
      BY ONLY <3>1, ElementIn
    <3> QED  BY <2>1, <2>7, <2>12, <3>2 DEF UpTo
  <2>14. ReadInOrder'
    BY <2>1, <2>7, <2>12, <2>13 DEF ReadInOrder
  <2>15. UnreadLater'
    BY <2>1, <2>7, <2>10, <2>11, <2>12 DEF UnreadLater
  <2>16. \A j, k \in DOMAIN inbound' : j < k => j + 1 < k + 1
    BY <2>9
  <2>17. UnreadInOrder'
    BY <2>9, <2>16 DEF RobustOrder, UnreadInOrder
  <2> QED  BY <2>14, <2>15, <2>17 DEF RobustOrder
<1>9. CASE EndCallback
  <2>1. /\ callback # 0 /\ callback' = 0 /\ msgChan' = Append(msgChan, callback)
        /\ received' = received /\ topic' = topic /\ inbound' = inbound
    BY <1>9 DEF EndCallback
  <2>2. /\ received \in Seq(Nat) /\ msgChan \in Seq(Nat) /\ callback \in Nat
        /\ Pipeline = (received \o msgChan) \o <<callback>>
    BY <2>1, RobustParts
  <2>3. Pipeline' = received \o Append(msgChan, callback)
    <3>1. Pipeline' = received' \o msgChan' \o <<>>
      BY <2>1 DEF Pipeline
    <3>2. msgChan' \in Seq(Nat) /\ received' \o msgChan' \in Seq(Nat)
      BY <2>1, <2>2
    <3>3. (received' \o msgChan') \o <<>> = received' \o msgChan'
      BY <3>2
    <3> QED  BY <2>1, <3>1, <3>3
  <2>4. received \o Append(msgChan, callback) = Append(received \o msgChan, callback)
    BY ONLY <2>2, AppendLast
  <2>5. Append(received \o msgChan, callback) = (received \o msgChan) \o <<callback>>
    BY <2>2
  <2>6. Pipeline' = Pipeline
    BY <2>2, <2>3, <2>4, <2>5
  <2> QED  BY <2>1, <2>6, PipelineSame
<1>10. CASE Consume
  <2>1. /\ msgChan # <<>> /\ received' = Append(received, Head(msgChan))
        /\ msgChan' = Tail(msgChan)
        /\ callback' = callback /\ topic' = topic /\ inbound' = inbound
    BY <1>10 DEF Consume
  <2>2. received \in Seq(Nat) /\ msgChan \in Seq(Nat)
    BY RobustParts
  <2>3. Append(received, Head(msgChan)) \o Tail(msgChan) = received \o msgChan
    BY ONLY <2>1, <2>2, MoveHead
  <2>4. Pipeline' = Pipeline
    BY <2>1, <2>3 DEF Pipeline
  <2> QED  BY <2>1, <2>4, PipelineSame
<1>11. CASE UNCHANGED vars
  BY <1>1, <1>11, PipelineSame DEF vars
<1> QED  BY <1>2, <1>3, <1>4, <1>5, <1>6, <1>7, <1>8, <1>9, <1>10, <1>11 DEF Next, Client

-----------------------------------------------------------------------------
(* The Redis client *)

BridgeSending == bpc = "send" <=> redisMsg # 0

RedisInv ==
    /\ R!TypeOK
    /\ BridgeSending
    /\ Sorted(R!Pipeline)
    /\ UpTo(R!Pipeline, topic)

(* The parts of the pipeline are sequences of numbers. *)
LEMMA RedisParts ==
    ASSUME R!TypeOK
    PROVE  /\ received \in Seq(Nat) /\ msgChan \in Seq(Nat) /\ received \o msgChan \in Seq(Nat)
           /\ clientChan \in Seq(Nat) /\ R!Pipeline \in Seq(Nat)
           /\ redisMsg = 0 => R!Pipeline = (received \o msgChan) \o clientChan
           /\ redisMsg # 0 => /\ redisMsg \in Nat
                              /\ R!Pipeline = ((received \o msgChan) \o <<redisMsg>>) \o clientChan
<1>1. R!Message \subseteq Nat
  BY DEF R!Message
<1>2. received \in Seq(Nat) /\ msgChan \in Seq(Nat) /\ clientChan \in Seq(Nat)
  BY <1>1, SeqMonotonic DEF R!TypeOK
<1>3. received \o msgChan \in Seq(Nat)
  BY <1>2
<1>4. CASE redisMsg = 0
  <2>1. R!Pipeline = received \o msgChan \o <<>> \o clientChan
    BY <1>4 DEF R!Pipeline
  <2>2. (received \o msgChan) \o <<>> = received \o msgChan
    BY <1>3
  <2>3. R!Pipeline = (received \o msgChan) \o clientChan
    BY <2>1, <2>2
  <2>4. R!Pipeline \in Seq(Nat)
    BY <1>2, <1>3, <2>3
  <2> QED  BY <1>2, <1>3, <1>4, <2>3, <2>4
<1>5. CASE redisMsg # 0
  <2>1. redisMsg \in Nat
    BY <1>1, <1>5 DEF R!TypeOK
  <2>2. R!Pipeline = ((received \o msgChan) \o <<redisMsg>>) \o clientChan
    BY <1>5 DEF R!Pipeline
  <2>3. (received \o msgChan) \o <<redisMsg>> \in Seq(Nat)
    BY <1>3, <2>1
  <2>4. R!Pipeline \in Seq(Nat)
    BY <1>2, <2>2, <2>3
  <2> QED  BY <1>2, <1>3, <1>5, <2>1, <2>2, <2>4
<1> QED  BY <1>4, <1>5

(* Every step keeps the types and the capacities of the two channels. *)
LEMMA RedisTypeStep == RedisInv /\ R!Next => R!TypeOK' /\ BridgeSending'
<1> SUFFICES ASSUME RedisInv, R!Next PROVE R!TypeOK' /\ BridgeSending'
  OBVIOUS
<1>0. R!TypeOK /\ BridgeSending
  BY DEF RedisInv
<1> USE <1>0 DEF R!TypeOK, BridgeSending, R!clientVars, R!bridgeVars, R!consumerVars
<1>1. CASE R!PeerPublish
  <2>1. topic + 1 \in R!Message /\ topic' \in 0..MaxTopic
    BY <1>1 DEF R!PeerPublish, R!Message
  <2>2. CASE clientChan' = Append(clientChan, topic + 1) /\ Len(clientChan) < ClientCap
    BY <1>1, <2>1, <2>2 DEF R!PeerPublish
  <2>3. CASE clientChan' = clientChan
    BY <1>1, <2>1, <2>3 DEF R!PeerPublish
  <2> QED  BY <1>1, <2>2, <2>3 DEF R!PeerPublish
<1>2. CASE R!Close
  BY <1>2 DEF R!Close
<1>3. CASE R!BridgeTake
  <2>1. Head(clientChan) \in R!Message /\ 0 \notin R!Message
    BY <1>3 DEF R!BridgeTake, R!Message
  <2>2. Tail(clientChan) \in Seq(R!Message) /\ Len(Tail(clientChan)) <= ClientCap
    BY <1>3 DEF R!BridgeTake
  <2> QED  BY <1>3, <2>1, <2>2 DEF R!BridgeTake
<1>4. CASE R!BridgeStop
  BY <1>4 DEF R!BridgeStop
<1>5. CASE R!BridgeSend
  <2>1. redisMsg \in R!Message
    BY <1>5 DEF R!BridgeSend
  <2>2. Append(msgChan, redisMsg) \in Seq(R!Message) /\ Len(Append(msgChan, redisMsg)) <= ChanCap
    BY <1>5, <2>1 DEF R!BridgeSend
  <2> QED  BY <1>5, <2>2 DEF R!BridgeSend
<1>6. CASE R!Consume
  BY <1>6 DEF R!Consume
<1>7. CASE R!EndOfRange
  BY <1>7 DEF R!EndOfRange
<1> QED  BY <1>1, <1>2, <1>3, <1>4, <1>5, <1>6, <1>7 DEF R!Next, R!Bridge, R!Consumer

(* Only a publication adds to the pipeline, and what it adds is later. *)
LEMMA RedisOrderStep == RedisInv /\ R!Next => Sorted(R!Pipeline)' /\ UpTo(R!Pipeline, topic)'
<1> SUFFICES ASSUME RedisInv, R!Next PROVE Sorted(R!Pipeline)' /\ UpTo(R!Pipeline, topic)'
  OBVIOUS
<1>0. R!TypeOK /\ BridgeSending /\ R!TypeOK' /\ BridgeSending' /\ topic \in Nat
  BY RedisTypeStep DEF RedisInv, R!TypeOK
<1>p. /\ received \in Seq(Nat) /\ msgChan \in Seq(Nat) /\ received \o msgChan \in Seq(Nat)
      /\ clientChan \in Seq(Nat) /\ R!Pipeline \in Seq(Nat)
  BY <1>0, RedisParts
<1> USE DEF R!clientVars, R!bridgeVars, R!consumerVars
<1>1. ASSUME (R!Pipeline)' = R!Pipeline, topic' = topic
      PROVE  Sorted(R!Pipeline)' /\ UpTo(R!Pipeline, topic)'
  BY <1>1 DEF RedisInv
<1>2. ASSUME UNCHANGED <<received, msgChan, redisMsg, clientChan>>
      PROVE  (R!Pipeline)' = R!Pipeline
  BY <1>2 DEF R!Pipeline
<1>3. CASE R!PeerPublish
  <2>1. /\ UNCHANGED <<received, msgChan, redisMsg>> /\ topic' = topic + 1
        /\ clientChan' = clientChan \/ clientChan' = Append(clientChan, topic + 1)
    BY <1>3 DEF R!PeerPublish
  <2>2. \A i \in DOMAIN (R!Pipeline) : (R!Pipeline)[i] \in Nat
    BY <1>p, ElementIn
  <2>3. \A i \in DOMAIN (R!Pipeline) : (R!Pipeline)[i] < topic + 1 /\ (R!Pipeline)[i] <= topic + 1
    BY <1>0, <2>2 DEF RedisInv, UpTo
  <2>4. CASE clientChan' = clientChan
    <3>1. (R!Pipeline)' = R!Pipeline
      BY <1>2, <2>1, <2>4
    <3> QED  BY <2>1, <2>3, <3>1 DEF RedisInv, UpTo
  <2>5. CASE clientChan' = Append(clientChan, topic + 1)
    <3> DEFINE D == (received \o msgChan) \o (IF redisMsg = 0 THEN <<>> ELSE <<redisMsg>>)
               P == R!Pipeline
               m == topic + 1
    <3>1. D \in Seq(Nat)
      BY <1>0, <1>p, RedisParts
    <3>2. P = D \o clientChan /\ P' = D \o Append(clientChan, m)
      BY <2>1, <2>5 DEF R!Pipeline
    <3>3. P \in Seq(Nat) /\ clientChan \in Seq(Nat) /\ m \in Nat
      BY <1>0, <1>p
    <3>4. Sorted(P) /\ \A i \in DOMAIN P : P[i] < m
      BY <2>3 DEF RedisInv
    <3>5. topic' = m
      BY <2>1
    <3> HIDE DEF D, P, m
    <3>6. P' = Append(P, m)
      BY ONLY <3>1, <3>2, <3>3, AppendLast
    <3>7. Sorted(Append(P, m)) /\ UpTo(Append(P, m), m)
      BY ONLY <3>3, <3>4, AppendSorted
    <3>8. Sorted(P') /\ UpTo(P', topic')
      BY <3>5, <3>6, <3>7
    <3> QED  BY <3>8 DEF P
  <2> QED  BY <2>1, <2>4, <2>5
<1>4. CASE R!Close
  BY <1>1, <1>2, <1>4 DEF R!Close
<1>5. CASE R!BridgeTake
  <2>1. /\ clientChan # <<>> /\ redisMsg' = Head(clientChan) /\ clientChan' = Tail(clientChan)
        /\ bpc = "select" /\ bpc' = "send"
        /\ received' = received /\ msgChan' = msgChan /\ topic' = topic
    BY <1>5 DEF R!BridgeTake
  <2>2. redisMsg = 0 /\ redisMsg' # 0
    BY <1>0, <2>1 DEF BridgeSending
  <2>3. R!Pipeline = (received \o msgChan) \o clientChan
    BY <1>0, <2>2, RedisParts
  <2>4. (R!Pipeline)' = ((received \o msgChan) \o <<Head(clientChan)>>) \o Tail(clientChan)
    BY <2>1, <2>2 DEF R!Pipeline
  <2>5. ((received \o msgChan) \o <<Head(clientChan)>>) \o Tail(clientChan)
            = (received \o msgChan) \o clientChan
    BY ONLY <1>p, <2>1, MoveHead
  <2> QED  BY <1>1, <2>1, <2>3, <2>4, <2>5
<1>6. CASE R!BridgeStop
  BY <1>1, <1>2, <1>6 DEF R!BridgeStop
<1>7. CASE R!BridgeSend
  <2>1. /\ redisMsg' = 0 /\ bpc = "send" /\ msgChan' = Append(msgChan, redisMsg)
        /\ received' = received /\ clientChan' = clientChan /\ topic' = topic
    BY <1>7 DEF R!BridgeSend
  <2>2. redisMsg # 0
    BY <1>0, <2>1 DEF BridgeSending
  <2>3. redisMsg \in Nat /\ R!Pipeline = ((received \o msgChan) \o <<redisMsg>>) \o clientChan
    BY <1>0, <2>2, RedisParts
  <2>4. received \o Append(msgChan, redisMsg) = Append(received \o msgChan, redisMsg)
    BY ONLY <1>p, <2>3, AppendLast
  <2>5. Append(received \o msgChan, redisMsg) = (received \o msgChan) \o <<redisMsg>>
    BY <1>p, <2>3
  <2>6. (R!Pipeline)' = (received' \o msgChan') \o clientChan'
    <3>1. received' \o msgChan' \in Seq(Nat)
      BY <1>p, <2>1, <2>3
    <3>2. (received' \o msgChan') \o <<>> = received' \o msgChan'
      BY <3>1
    <3> QED  BY <2>1, <3>2 DEF R!Pipeline
  <2> QED  BY <1>1, <2>1, <2>3, <2>4, <2>5, <2>6
<1>8. CASE R!Consume
  <2>1. /\ msgChan # <<>> /\ received' = Append(received, Head(msgChan))
        /\ msgChan' = Tail(msgChan)
        /\ redisMsg' = redisMsg /\ topic' = topic /\ clientChan' = clientChan
    BY <1>8 DEF R!Consume
  <2>2. Append(received, Head(msgChan)) \o Tail(msgChan) = received \o msgChan
    BY ONLY <1>p, <2>1, MoveHead
  <2>3. (R!Pipeline)' = R!Pipeline
    BY <2>1, <2>2 DEF R!Pipeline
  <2> QED  BY <1>1, <2>1, <2>3
<1>9. CASE R!EndOfRange
  BY <1>1, <1>2, <1>9 DEF R!EndOfRange
<1> QED  BY <1>3, <1>4, <1>5, <1>6, <1>7, <1>8, <1>9 DEF R!Next, R!Bridge, R!Consumer

-----------------------------------------------------------------------------
(* The choice between the two *)

(* The part of the queue that was not chosen stays empty. *)
MQInv ==
    \/ /\ kind = "redis"
       /\ RedisInv
       /\ callback = 0 /\ inbound = <<>>
       /\ TypeOK /\ ReturnedMeansStored
    \/ /\ kind = "robustmq"
       /\ RobustInv /\ RobustOrder
       /\ clientChan = <<>> /\ redisMsg = 0
       /\ R!TypeOK

(* Both queues start empty. *)
LEMMA MQInitInv == MQInit => MQInv
<1> SUFFICES ASSUME MQInit PROVE MQInv
  OBVIOUS
<1>1. RobustInv
  BY RobustInitInv DEF MQInit
<1>2. R!TypeOK /\ BridgeSending
  <2>1. R!Init
    BY DEF MQInit
  <2>2. BridgeSending
    BY <2>1 DEF R!Init, BridgeSending
  <2>3. /\ topic = 0 /\ clientChan = <<>> /\ msgChan = <<>> /\ received = <<>>
        /\ Len(clientChan) = 0 /\ Len(msgChan) = 0
    BY <2>1 DEF R!Init
  <2>4. 0 \in 0..MaxTopic /\ 0 <= ClientCap /\ 0 <= ChanCap
    OBVIOUS
  <2>5. <<>> \in Seq(R!Message)
    OBVIOUS
  <2>6. R!TypeOK
    BY <2>1, <2>3, <2>4, <2>5 DEF R!Init, R!TypeOK
  <2> QED  BY <2>2, <2>6
<1>3. /\ received = <<>> /\ msgChan = <<>> /\ callback = 0 /\ inbound = <<>>
      /\ clientChan = <<>> /\ redisMsg = 0
  BY DEF MQInit, Init, R!Init
<1>4. Pipeline = <<>> /\ R!Pipeline = <<>>
  BY <1>3 DEF Pipeline, R!Pipeline
<1>5. RobustOrder
  BY <1>3, <1>4 DEF RobustOrder, ReadInOrder, UnreadLater, UnreadInOrder, Sorted, UpTo
<1>6. RedisInv
  BY <1>2, <1>4 DEF RedisInv, Sorted, UpTo
<1>7. TypeOK /\ ReturnedMeansStored
  BY <1>1 DEF RobustInv
<1>8. kind = "redis" \/ kind = "robustmq"
  BY DEF MQInit
<1> QED  BY <1>1, <1>2, <1>3, <1>5, <1>6, <1>7, <1>8 DEF MQInv

(* Every step is one of the chosen queue. *)
LEMMA MQStep == MQInv /\ [MQNext]_mqVars => MQInv'
<1> SUFFICES ASSUME MQInv, [MQNext]_mqVars PROVE MQInv'
  OBVIOUS
<1>1. CASE kind = "redis" /\ kind' = "redis" /\ R!Next /\ UNCHANGED robustVars
  <2>1. RedisInv /\ callback = 0 /\ inbound = <<>> /\ TypeOK /\ ReturnedMeansStored
    BY <1>1 DEF MQInv
  <2>2. RedisInv'
    BY <1>1, <2>1, RedisTypeStep, RedisOrderStep DEF RedisInv
  <2>3. callback' = 0 /\ inbound' = <<>>
    BY <1>1, <2>1 DEF robustVars
  <2>4. R!TypeOK'
    BY <2>2 DEF RedisInv
  <2>5. /\ topic' \in 0..MaxTopic /\ msgChan' \in Seq(Message) /\ Len(msgChan') <= ChanCap
        /\ received' \in Seq(Message)
    BY <2>4 DEF R!TypeOK, R!Message, Message
  <2>6. UNCHANGED <<link, losses, subscribed, cpc, sent, stored, inbound, callback>>
    BY <1>1 DEF robustVars, linkVars, publishVars
  <2>7. TypeOK'
    BY <2>1, <2>5, <2>6 DEF TypeOK
  <2>8. ReturnedMeansStored'
    BY <2>1, <2>6 DEF ReturnedMeansStored
  <2> QED  BY <1>1, <2>2, <2>3, <2>7, <2>8 DEF MQInv
<1>2. CASE kind = "robustmq" /\ kind' = "robustmq" /\ Next /\ UNCHANGED redisVars
  <2>1. RobustInv /\ RobustOrder /\ clientChan = <<>> /\ redisMsg = 0 /\ R!TypeOK
    BY <1>2 DEF MQInv
  <2>2. TypeOK' /\ AckedMeansStored' /\ ReturnedMeansStored'
    BY <1>2, <2>1, RobustTypeStep, AckedStep, ReturnedStep DEF RobustInv
  <2>3. RobustOrder'
    BY <1>2, <2>1, <2>2, RobustOrderStep DEF RobustInv
  <2>4. UNCHANGED <<clientChan, bpc, redisMsg, closed, cancelled, looping>>
    BY <1>2 DEF redisVars
  <2>5. /\ topic' \in 0..MaxTopic /\ msgChan' \in Seq(R!Message) /\ Len(msgChan') <= ChanCap
        /\ received' \in Seq(R!Message)
    BY <2>2 DEF TypeOK, R!Message, Message
  <2>6. R!TypeOK'
    BY <2>1, <2>4, <2>5 DEF R!TypeOK
  <2> QED  BY <1>2, <2>1, <2>2, <2>3, <2>4, <2>6 DEF MQInv, RobustInv
<1>3. CASE UNCHANGED mqVars
  <2>1. UNCHANGED <<kind, callback, inbound, clientChan, redisMsg>> /\ UNCHANGED vars
    BY <1>3 DEF mqVars, redisVars, robustVars, vars
  <2>2. UNCHANGED <<topic, clientChan, bpc, redisMsg, msgChan, closed, cancelled, received, looping>>
    BY <1>3 DEF mqVars, redisVars, consumeVars
  <2>3. (R!TypeOK' <=> R!TypeOK) /\ (RedisInv' <=> RedisInv)
    BY <2>2 DEF R!TypeOK, RedisInv, BridgeSending, R!Pipeline, R!Message
  <2>4. /\ (RobustInv' <=> RobustInv) /\ (RobustOrder' <=> RobustOrder)
        /\ (TypeOK' <=> TypeOK) /\ (ReturnedMeansStored' <=> ReturnedMeansStored)
    BY <2>1 DEF vars, linkVars, publishVars, consumeVars, RobustInv, RobustOrder, TypeOK,
                ReturnedMeansStored, AckedMeansStored, ReadInOrder, UnreadLater,
                UnreadInOrder, Pipeline
  <2> QED  BY <2>1, <2>3, <2>4 DEF MQInv
<1>4. \/ kind = "redis" /\ kind' = "redis" /\ R!Next /\ UNCHANGED robustVars
      \/ kind = "robustmq" /\ kind' = "robustmq" /\ Next /\ UNCHANGED redisVars
      \/ UNCHANGED mqVars
  BY DEF MQNext
<1> QED  BY <1>1, <1>2, <1>3, <1>4

(* The inductive invariant holds in every reachable state. *)
LEMMA MQInvariance == MQSpec => []MQInv
BY MQInitInv, MQStep, PTL DEF MQSpec

-----------------------------------------------------------------------------
(* The theorems *)

(* The state keeps its types, and the channels their capacities. *)
THEOREM TypeCorrect == MQSpec => []MQTypeOK
<1>1. MQInv => MQTypeOK
  BY DEF MQInv, MQTypeOK, RobustInv, RedisInv
<1> QED  BY <1>1, MQInvariance, PTL

(* When Publish returns, the broker has the message, whatever the          *)
(* connection did meanwhile.                                               *)
THEOREM PublishedIsStored == MQSpec => []ReturnedMeansStored
<1>1. MQInv => ReturnedMeansStored
  BY DEF MQInv, RobustInv
<1> QED  BY <1>1, MQInvariance, PTL

(* Whichever queue is configured, and whatever its connection loses, the   *)
(* subscriber receives the messages in their order and each once.          *)
THEOREM ReceivedInOrder == MQSpec => []MQInOrder
<1>1. ASSUME MQInv PROVE MQInOrder
  <2>1. CASE kind = "redis"
    <3>1. RedisInv /\ callback = 0 /\ inbound = <<>> /\ TypeOK
      BY <1>1, <2>1 DEF MQInv
    <3>2. R!InOrder
      BY <3>1 DEF RedisInv, Sorted, R!InOrder
    <3>3. Pipeline = received \o msgChan
      BY <3>1, RobustParts
    <3>4. Sorted(received \o msgChan)
      <4>1. /\ received \o msgChan \in Seq(Nat) /\ clientChan \in Seq(Nat)
            /\ Sorted(R!Pipeline)
        BY <3>1, RedisParts DEF RedisInv
      <4>2. CASE redisMsg = 0
        <5>1. Sorted((received \o msgChan) \o clientChan)
          BY <3>1, <4>1, <4>2, RedisParts DEF RedisInv
        <5> QED  BY ONLY <4>1, <5>1, PrefixSorted
      <4>3. CASE redisMsg # 0
        <5>1. /\ redisMsg \in Nat
              /\ Sorted(((received \o msgChan) \o <<redisMsg>>) \o clientChan)
          BY <3>1, <4>1, <4>3, RedisParts DEF RedisInv
        <5>2. <<redisMsg>> \in Seq(Nat) /\ (received \o msgChan) \o <<redisMsg>> \in Seq(Nat)
          BY <4>1, <5>1
        <5>3. Sorted((received \o msgChan) \o <<redisMsg>>)
          BY ONLY <4>1, <5>1, <5>2, PrefixSorted
        <5> QED  BY ONLY <4>1, <5>2, <5>3, PrefixSorted
      <4> QED  BY <4>2, <4>3
    <3>5. InOrder
      BY <3>1, <3>3, <3>4 DEF InOrder, Sorted
    <3> QED  BY <3>2, <3>5 DEF MQInOrder
  <2>2. CASE kind = "robustmq"
    <3>1. RobustInv /\ RobustOrder /\ clientChan = <<>> /\ redisMsg = 0 /\ R!TypeOK /\ TypeOK
      BY <1>1, <2>2 DEF MQInv, RobustInv
    <3>2. \A k \in DOMAIN inbound : \A j \in 1..(k - 1) : j \in DOMAIN inbound /\ j < k
      BY <3>1 DEF TypeOK
    <3>3. InOrder
      BY <3>1, <3>2 DEF RobustOrder, ReadInOrder, UnreadLater, UnreadInOrder, Sorted,
                        InOrder, Elements
    <3>4. received \o msgChan \in Seq(Nat)
      BY <3>1, RobustParts
    <3>5. (received \o msgChan) \o <<>> = received \o msgChan
      BY <3>4
    <3>6. R!Pipeline = received \o msgChan
      BY <3>1, <3>5, RedisParts
    <3>7. Sorted(received \o msgChan)
      <4>1. CASE callback = 0
        BY <3>1, <4>1, RobustParts DEF RobustOrder, ReadInOrder
      <4>2. CASE callback # 0
        <5>1. callback \in Nat /\ Sorted((received \o msgChan) \o <<callback>>)
          BY <3>1, <4>2, RobustParts DEF RobustOrder, ReadInOrder
        <5>2. <<callback>> \in Seq(Nat)
          BY <5>1
        <5> QED  BY ONLY <3>4, <5>1, <5>2, PrefixSorted
      <4> QED  BY <4>1, <4>2
    <3> QED  BY <3>3, <3>6, <3>7 DEF MQInOrder, R!InOrder, Sorted
  <2> QED  BY <1>1, <2>1, <2>2 DEF MQInv
<1> QED  BY <1>1, MQInvariance, PTL
=============================================================================
