------------------------------ MODULE RobustMQ ------------------------------
(***************************************************************************)
(* One process and its MQTT client (pkg/mq/robustmq.go): the calls of      *)
(* Publish, each of which waits for the broker's acknowledgement, and the  *)
(* one subscription, from the connection over the callback and msgChan to  *)
(* the loop that consumes it.                                              *)
(*                                                                         *)
(* The client reads one connection, in order, for both: while a callback   *)
(* waits, no acknowledgement is read.  It reconnects by itself and sends   *)
(* again what was not acknowledged; with the clean sessions that the       *)
(* options leave on, the broker keeps neither messages nor subscriptions   *)
(* for a client that is not connected.                                     *)
(***************************************************************************)
EXTENDS Naturals, Sequences

CONSTANTS
    Calls,      \* the calls of Publish
    ChanCap,    \* capacity of msgChan (100)
    MaxTopic,   \* bound: messages that others publish on the topic
    MaxLosses   \* bound: losses of the connection

ASSUME ChanCapAssumption == ChanCap \in Nat \ {0}
ASSUME BoundAssumption == MaxTopic \in Nat /\ MaxLosses \in Nat

VARIABLES
    link,       \* the client is connected
    losses,     \* how often the connection was lost
    subscribed, \* the broker has the subscription
    cpc,        \* where each call of Publish is
    sent,       \* the calls whose message is on its way to the broker
    stored,     \* the calls whose message the broker has
    topic,      \* how many messages others published on the topic
    inbound,    \* what the connection holds for the client to read
    callback,   \* the message whose callback runs, 0 if none
    msgChan,    \* the channel returned by Subscribe
    received    \* what the consumer has received

linkVars == <<link, losses, subscribed>>
publishVars == <<cpc, sent, stored>>
consumeVars == <<msgChan, received>>
vars == <<linkVars, publishVars, topic, inbound, callback, consumeVars>>

Message == 1..MaxTopic
Publication(i) == [kind |-> "PUBLISH", id |-> i]
Puback(c) == [kind |-> "PUBACK", id |-> c]
Inbound == {Publication(i) : i \in Message} \cup {Puback(c) : c \in Calls}

(* Both main programs connect and subscribe first, and end if that fails. *)
Init ==
    /\ link = TRUE
    /\ losses = 0
    /\ subscribed = TRUE
    /\ cpc = [c \in Calls |-> "new"]
    /\ sent = {}
    /\ stored = {}
    /\ topic = 0
    /\ inbound = <<>>
    /\ callback = 0
    /\ msgChan = <<>>
    /\ received = <<>>

-----------------------------------------------------------------------------
(* The connection *)

(* What was on the way is lost.  The token of a call that waits stays, or  *)
(* ends with an error; a callback that runs goes on.                       *)
LoseLink ==
    /\ link /\ losses < MaxLosses
    /\ link' = FALSE
    /\ losses' = losses + 1
    /\ subscribed' = FALSE
    /\ sent' = {}
    /\ inbound' = <<>>
    /\ \E F \in SUBSET {c \in Calls : cpc[c] = "waiting"} :
           cpc' = [c \in Calls |-> IF c \in F THEN "failed" ELSE cpc[c]]
    /\ UNCHANGED <<stored, topic, callback, consumeVars>>

(* The client sends again; the handler of the connection only logs, so     *)
(* the subscription is not made again.                                     *)
Reconnect ==
    /\ ~ link
    /\ link' = TRUE
    /\ sent' = {c \in Calls : cpc[c] = "waiting"}
    /\ UNCHANGED <<losses, subscribed, cpc, stored, topic, inbound, callback, consumeVars>>

-----------------------------------------------------------------------------
(* Publish *)

(* Mutant: QoS 0, where the token ends when the message was written. *)
PublishQoS0(c) ==
    /\ cpc[c] = "new" /\ link
    /\ cpc' = [cpc EXCEPT ![c] = "returned"]
    /\ sent' = sent \cup {c}
    /\ UNCHANGED <<linkVars, stored, topic, inbound, callback, consumeVars>>

(* Publish and the wait for its token.  Without a connection the client    *)
(* keeps the message for later.                                            *)
Publish(c) ==
    /\ cpc[c] = "new"
    /\ cpc' = [cpc EXCEPT ![c] = "waiting"]
    /\ sent' = IF link THEN sent \cup {c} ELSE sent
    /\ UNCHANGED <<linkVars, stored, topic, inbound, callback, consumeVars>>

(* Environment: the broker takes a message and acknowledges it. *)
BrokerStore(c) ==
    /\ c \in sent
    /\ sent' = sent \ {c}
    /\ stored' = stored \cup {c}
    /\ inbound' = Append(inbound, Puback(c))
    /\ UNCHANGED <<linkVars, cpc, topic, callback, consumeVars>>

(* The token ends, and with it the call. *)
ReadPuback ==
    /\ inbound # <<>> /\ callback = 0
    /\ \E c \in Calls :
           /\ Head(inbound) = Puback(c)
           /\ cpc' = [cpc EXCEPT ![c] = IF @ = "waiting" THEN "returned" ELSE @]
    /\ inbound' = Tail(inbound)
    /\ UNCHANGED <<linkVars, sent, stored, topic, callback, consumeVars>>

-----------------------------------------------------------------------------
(* Subscribe: the messages of the topic *)

(* Environment: somebody publishes on the topic. *)
PeerPublish ==
    /\ topic < MaxTopic
    /\ topic' = topic + 1
    /\ inbound' = IF link /\ subscribed THEN Append(inbound, Publication(topic + 1)) ELSE inbound
    /\ UNCHANGED <<linkVars, publishVars, callback, consumeVars>>

(* The client calls the callback, for one message after the other. *)
StartCallback ==
    /\ inbound # <<>> /\ callback = 0
    /\ Head(inbound).kind = "PUBLISH"
    /\ callback' = Head(inbound).id
    /\ inbound' = Tail(inbound)
    /\ UNCHANGED <<linkVars, publishVars, topic, consumeVars>>

(* Mutant: does not wait for room. *)
EndCallbackUnbounded ==
    /\ callback # 0
    /\ msgChan' = Append(msgChan, callback)
    /\ callback' = 0
    /\ UNCHANGED <<linkVars, publishVars, topic, inbound, received>>

(* The callback waits for room in msgChan. *)
EndCallback ==
    /\ callback # 0 /\ Len(msgChan) < ChanCap
    /\ msgChan' = Append(msgChan, callback)
    /\ callback' = 0
    /\ UNCHANGED <<linkVars, publishVars, topic, inbound, received>>

(* Mutant: the consumer handles a message itself and waits for what the    *)
(* handling publishes, instead of starting a goroutine.                    *)
ConsumeInline ==
    /\ msgChan # <<>>
    /\ \A c \in Calls : cpc[c] # "waiting"
    /\ received' = Append(received, Head(msgChan))
    /\ msgChan' = Tail(msgChan)
    /\ UNCHANGED <<linkVars, publishVars, topic, inbound, callback>>

(* The loop of the consumer takes a message.  It waits for no publication: *)
(* the gateway's makes none, the chat service's starts a goroutine.        *)
Consume ==
    /\ msgChan # <<>>
    /\ received' = Append(received, Head(msgChan))
    /\ msgChan' = Tail(msgChan)
    /\ UNCHANGED <<linkVars, publishVars, topic, inbound, callback>>

-----------------------------------------------------------------------------
Client == ReadPuback \/ StartCallback \/ EndCallback

Next ==
    \/ LoseLink \/ Reconnect
    \/ \E c \in Calls : Publish(c) \/ BrokerStore(c)
    \/ PeerPublish
    \/ Client
    \/ Consume

Spec == Init /\ [][Next]_vars

(* The client's goroutines and the consumer run, the broker takes what     *)
(* reaches it, and a lost connection is made again.                        *)
Fairness ==
    /\ WF_vars(Reconnect)
    /\ \A c \in Calls : WF_vars(BrokerStore(c))
    /\ WF_vars(Client)
    /\ WF_vars(Consume)

FairSpec == Spec /\ Fairness

-----------------------------------------------------------------------------
(* Properties *)

(* The type invariant; it includes the capacity of msgChan. *)
TypeOK ==
    /\ link \in BOOLEAN
    /\ losses \in 0..MaxLosses
    /\ subscribed \in BOOLEAN
    /\ cpc \in [Calls -> {"new", "waiting", "returned", "failed"}]
    /\ sent \subseteq Calls
    /\ stored \subseteq Calls
    /\ topic \in 0..MaxTopic
    /\ inbound \in Seq(Inbound)
    /\ callback \in Message \cup {0}
    /\ msgChan \in Seq(Message)
    /\ Len(msgChan) <= ChanCap
    /\ received \in Seq(Message)

Elements(seq) == {seq[i] : i \in DOMAIN seq}

(* What the client has read and not lost, oldest first. *)
Pipeline == received \o msgChan \o (IF callback = 0 THEN <<>> ELSE <<callback>>)

(* The messages of the topic are received in order and each of them once,  *)
(* across losses of the connection; and what the connection still holds    *)
(* comes after them, in order.                                             *)
InOrder ==
    /\ \A i, j \in DOMAIN Pipeline : i < j => Pipeline[i] < Pipeline[j]
    /\ \A k \in DOMAIN inbound :
           inbound[k].kind = "PUBLISH" =>
               /\ \A i \in Elements(Pipeline) : i < inbound[k].id
               /\ \A j \in 1..(k - 1) :
                      inbound[j].kind = "PUBLISH" => inbound[j].id < inbound[k].id

(* When Publish returns without an error, the broker has the message, also *)
(* if the connection was lost and the message sent again in between.       *)
ReturnedMeansStored ==
    \A c \in Calls : cpc[c] = "returned" => c \in stored

(* Publish returns, although its acknowledgement has to wait for messages  *)
(* that are read before it and have to wait for room in msgChan.           *)
PublishReturns ==
    \A c \in Calls : cpc[c] = "waiting" ~> cpc[c] \in {"returned", "failed"}

(* docs/ARCHITECTURE.md:25: MQTT with QoS 1 delivers every message at      *)
(* least once; so what is published on the topic is received.              *)
AtLeastOnce ==
    \A i \in Message : topic >= i ~> i \in Elements(received)
=============================================================================
