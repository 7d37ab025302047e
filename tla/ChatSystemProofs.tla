-------------------------- MODULE ChatSystemProofs ---------------------------
(***************************************************************************)
(* Proofs about ChatSystem, for any gateways, instances, clients, users,   *)
(* requests and games.                                                     *)
(*                                                                         *)
(* What makes every step one of MessageDelivery: a publication that is on  *)
(* its way to a gateway is there once and was not delivered by that        *)
(* gateway, and a new one is really new: a first publication because the   *)
(* handler goes on from it, a further one by the number of its resend.     *)
(***************************************************************************)
EXTENDS ChatSystem, SortedQueues, TLAPS

USE SystemAssumption

(* What a handler handles was published for it, and published at first. *)
Received ==
    \A h \in Handlers, r \in Requests :
        ipc[h][r] # "none" => <<r, h[2]>> \in sent /\ Handled(r) /\ r \in Served

(* Who is entered for a user has sent a request. *)
Entered ==
    \A g \in Gateways, u \in Users :
        userSessions[g][u] # NoClient => Bound(userSessions[g][u])

Published(k) == k \in published

(* A handler is past what it has published, and no number is used before   *)
(* its resend.                                                             *)
Stage ==
    \A k \in published :
        /\ k.no <= resends
        /\ ipc[k.handler][k.req] \in IF k.kind = "ChatResponse" THEN {"done"} ELSE {"ack", "done"}

Answers(a, m) ==
    /\ a.kind = "ChatResponse" /\ m.kind = "MessageBroadcast"
    /\ a.handler = m.handler /\ a.req = m.req

AllPublished ==
    /\ \A g \in Gateways : \A n \in DOMAIN broadcast[g] : Published(broadcast[g][n])
    /\ \A c \in Clients : \A n \in DOMAIN delivered[c] : Published(delivered[c][n])

Once ==
    /\ \A g \in Gateways : \A m, n \in DOMAIN broadcast[g] :
           m # n => broadcast[g][m] # broadcast[g][n]
    /\ \A c \in Clients : \A m \in DOMAIN delivered[c], n \in DOMAIN broadcast[Gate[c]] :
           delivered[c][m] # broadcast[Gate[c]][n]

(* A message is ahead of the answer to the same request. *)
InTurn ==
    /\ \A g \in Gateways : \A m, n \in DOMAIN broadcast[g] :
           Answers(broadcast[g][m], broadcast[g][n]) => n < m
    /\ \A c \in Clients : \A m \in DOMAIN delivered[c], n \in DOMAIN broadcast[Gate[c]] :
           ~ Answers(delivered[c][m], broadcast[Gate[c]][n])

Inv ==
    /\ TypeOK
    /\ Received
    /\ Entered
    /\ Stage
    /\ AllPublished
    /\ Once
    /\ InTurn

(* The initial state satisfies every part of the invariant. *)
LEMMA InitInv == Init => Inv
<1> SUFFICES ASSUME Init PROVE Inv
  OBVIOUS
<1>1. TypeOK
  BY DEF Init, TypeOK, Numbers
<1>2. /\ \A g \in Gateways : broadcast[g] = <<>>
      /\ \A c \in Clients : delivered[c] = <<>>
  BY DEF Init
<1>3. AllPublished /\ Once /\ InTurn
  BY <1>2 DEF AllPublished, Once, InTurn
<1>4. Received /\ Entered /\ Stage
  BY DEF Init, Received, Entered, Stage
<1> QED  BY <1>1, <1>3, <1>4 DEF Inv

(* What PublishCopy does to each gateway's queue. *)
LEMMA PublishCopyTypes ==
    ASSUME TypeOK, NEW k \in Copies, PublishCopy(k)
    PROVE  /\ \A g \in Gateways :
                  broadcast'[g] = broadcast[g] \/ broadcast'[g] = Append(broadcast[g], k)
           /\ broadcast' \in [Gateways -> Seq(Copies)]
           /\ lost' \in SUBSET Requests
           /\ published' = published \cup {k} /\ published' \subseteq Copies
           /\ UNCHANGED <<conn, userSessions, sent, delivered>>
<1>1. PICK L \in SUBSET Gateways :
          /\ broadcast' = [g \in Gateways |->
                              IF g \in L THEN broadcast[g] ELSE Append(broadcast[g], k)]
          /\ lost' = IF L = {} THEN lost ELSE lost \cup {k.req}
  BY DEF PublishCopy
<1>a. \A g \in Gateways : broadcast[g] \in Seq(Copies)
  BY DEF TypeOK
<1>2. ASSUME NEW g \in Gateways
      PROVE  broadcast[g] \in Seq(Copies) /\ Append(broadcast[g], k) \in Seq(Copies)
  <2>1. broadcast[g] \in Seq(Copies)
    BY <1>a
  <2> QED  BY <2>1
<1>3. k.req \in Requests
  BY DEF Copies
<1>4. lost' \in SUBSET Requests
  BY <1>1, <1>3 DEF TypeOK
<1>5. \A g \in Gateways :
          broadcast'[g] = broadcast[g] \/ broadcast'[g] = Append(broadcast[g], k)
  BY <1>1
<1>6. broadcast' \in [Gateways -> Seq(Copies)]
  <2> DEFINE f(g) == IF g \in L THEN broadcast[g] ELSE Append(broadcast[g], k)
  <2>1. \A g \in Gateways : f(g) \in Seq(Copies)
    BY <1>2
  <2>2. broadcast' = [g \in Gateways |-> f(g)]
    BY <1>1
  <2> HIDE DEF f
  <2> QED  BY <2>1, <2>2
<1>7. published' = published \cup {k} /\ published' \subseteq Copies
  BY DEF PublishCopy, TypeOK
<1> QED  BY <1>4, <1>5, <1>6, <1>7 DEF PublishCopy, clientVars

(* A copy that is made is one of Copies. *)
LEMMA CopyIn ==
    ASSUME NEW kind \in Kinds, NEW h \in Handlers, NEW r \in Requests, NEW n \in Numbers
    PROVE  /\ Copy(kind, h, r, n) \in Copies
           /\ Copy(kind, h, r, n).kind = kind /\ Copy(kind, h, r, n).handler = h
           /\ Copy(kind, h, r, n).req = r /\ Copy(kind, h, r, n).no = n
BY DEF Copy, Copies

(* Whoever a gateway finds is a client of its own with that user ID. *)
LEMMA LookupType ==
    ASSUME TypeOK, NEW g \in Gateways, NEW k \in Copies, Lookup(g, TargetOf(k)) # NoClient
    PROVE  /\ Lookup(g, TargetOf(k)) \in Clients
           /\ Gate[Lookup(g, TargetOf(k))] = g
           /\ UserOf[Lookup(g, TargetOf(k))] = TargetOf(k)
<1>1. TargetOf(k) \in Users \cup {NoUser}
  BY DEF TargetOf, Copies
<1>2. TargetOf(k) \in Users
  BY <1>1 DEF Lookup
<1>3. TargetOf(k) # NoUser
  BY <1>2
<1> QED  BY <1>2, <1>3 DEF Lookup, TypeOK

(* Where the instances are after one has gone on with a request. *)
Labels == {"none", "parse", "forward", "ack", "done", "dropped"}

LEMMA GotoType ==
    ASSUME TypeOK, NEW h \in Handlers, NEW r \in Requests, NEW label \in Labels,
           Goto(h, r, label)
    PROVE  /\ ipc' \in [Handlers -> [Requests -> Labels]]
           /\ \A j \in Handlers, q \in Requests :
                  ipc'[j][q] = IF j = h /\ q = r THEN label ELSE ipc[j][q]
<1>1. ipc \in [Handlers -> [Requests -> Labels]]
  BY DEF TypeOK, Labels
<1>2. ipc' = [ipc EXCEPT ![h] = [ipc[h] EXCEPT ![r] = label]]
  BY DEF Goto
<1>3. [ipc[h] EXCEPT ![r] = label] \in [Requests -> Labels]
  BY <1>1
<1>4. ipc' \in [Handlers -> [Requests -> Labels]]
  BY <1>1, <1>2, <1>3
<1>5. \A j \in Handlers : ipc'[j] = IF j = h THEN [ipc[h] EXCEPT ![r] = label] ELSE ipc[j]
  BY <1>1, <1>2
<1> QED  BY <1>1, <1>4, <1>5

LEMMA HandleGoes ==
    ASSUME TypeOK, NEW h \in Handlers, NEW r \in Requests, HandleRequest(h, r)
    PROVE  \E label \in Labels \ {"none"} :
               /\ Goto(h, r, label)
               /\ Accept(h, r) \/ Reject(h, r) => ipc[h][r] = "parse"
               /\ Forward(h, r) => ipc[h][r] = "forward" /\ label = "ack"
               /\ Ack(h, r) => ipc[h][r] = "ack" /\ label = "done"
BY DEF HandleRequest, Accept, Reject, Forward, Ack, Labels

(* A gateway publishes a request: what the topic and the handlers get. *)
LEMMA RouteParts ==
    ASSUME TypeOK, NEW r \in Requests, RouteChat(r)
    PROVE  /\ resends' \in Numbers /\ resends <= resends'
           /\ \E N \in SUBSET Numbers :
                  /\ N = {0} \cup (resends + 1)..resends'
                  /\ sent' = sent \cup ({r} \X N)
                  /\ \A h \in Handlers, q \in Requests :
                         ipc'[h][q] = ipc[h][q] \/ (q = r /\ r \in Served /\ h[2] \in N)
           /\ ipc' \in [Handlers -> [Requests -> Labels]]
           /\ lost' \in SUBSET Requests
           /\ ~ Handled(r)
           /\ UNCHANGED <<conn, published, broadcast, delivered>>
<1>1. resends \in Nat /\ MaxResends \in Nat /\ resends' \in resends..MaxResends
  BY DEF RouteChat, TypeOK, Numbers
<1>2. PICK N : N = {0} \cup (resends + 1)..resends'
  OBVIOUS
<1>3. N \in SUBSET Numbers /\ resends' \in Numbers /\ resends <= resends'
  BY <1>1, <1>2 DEF Numbers
<1>4. PICK L : /\ ipc' = [h \in Handlers |->
                             IF r \in Served /\ h \in (Instances \X N) \ L
                             THEN [ipc[h] EXCEPT ![r] = "parse"] ELSE ipc[h]]
               /\ lost' = IF L = {} THEN lost ELSE lost \cup {r}
  <2>1. PICK L \in SUBSET (Instances \X ({0} \cup (resends + 1)..resends')) :
            /\ ipc' = [h \in Handlers |->
                          IF /\ r \in Served
                             /\ h \in (Instances \X ({0} \cup (resends + 1)..resends')) \ L
                          THEN [ipc[h] EXCEPT ![r] = "parse"] ELSE ipc[h]]
            /\ lost' = IF L = {} THEN lost ELSE lost \cup {r}
    BY DEF RouteChat
  <2> QED  BY ONLY <1>2, <2>1
<1>5. ipc \in [Handlers -> [Requests -> Labels]] /\ lost \subseteq Requests
  BY DEF TypeOK, Labels
<1>6. ipc' \in [Handlers -> [Requests -> Labels]] /\ lost' \in SUBSET Requests
  BY <1>4, <1>5 DEF Labels
<1>7. ASSUME NEW h \in Handlers, NEW q \in Requests
      PROVE  ipc'[h][q] = ipc[h][q] \/ (q = r /\ r \in Served /\ h[2] \in N)
  BY <1>4, <1>5
<1>8. sent' = sent \cup ({r} \X N)
  BY <1>2 DEF RouteChat
<1>9. ~ Handled(r) /\ UNCHANGED <<conn, published, broadcast, delivered>>
  BY DEF RouteChat
<1> QED  BY <1>2, <1>3, <1>6, <1>7, <1>8, <1>9

(* What a resend publishes: the first publication of it was made, and the  *)
(* number is new.                                                          *)
LEMMA ResendParts ==
    ASSUME Inv, NEW h \in Handlers, NEW r \in Requests, Resend(h, r)
    PROVE  /\ resends' = resends + 1 /\ resends' \in Numbers /\ UNCHANGED ipc
           /\ \E k \in Copies :
                  /\ k.handler = h /\ k.req = r /\ k.no = resends'
                  /\ PublishCopy(k) /\ ~ Published(k)
                  /\ k.kind = "MessageBroadcast" => ipc[h][r] = "ack"
                  /\ k.kind = "ChatResponse" => ipc[h][r] = "done"
                  /\ \E first \in published : k = [first EXCEPT !.no = resends']
<1>1. resends' = resends + 1 /\ resends' \in Numbers /\ UNCHANGED ipc
  BY DEF Resend, Inv, TypeOK, Numbers
<1>2. InFlight(h, r) \in Kinds /\ 0 \in Numbers
  BY DEF InFlight, Kinds, Numbers
<1>3. PICK k \in Copies :
          /\ k = Copy(InFlight(h, r), h, r, resends')
          /\ k.kind = InFlight(h, r) /\ k.handler = h /\ k.req = r /\ k.no = resends'
  BY <1>1, <1>2, CopyIn
<1>4. PublishCopy(k) /\ ipc[h][r] \in {"ack", "done"}
  BY <1>3 DEF Resend
<1>5. ~ Published(k)
  <2>1. \A x \in published : x.no <= resends /\ resends \in Nat
    BY DEF Inv, Stage, TypeOK, Numbers
  <2> QED  BY <1>1, <1>3, <2>1 DEF Published
<1>6. /\ k.kind = "MessageBroadcast" => ipc[h][r] = "ack"
      /\ k.kind = "ChatResponse" => ipc[h][r] = "done"
  BY <1>3, <1>4 DEF InFlight
<1>7. PICK first : first = Copy(InFlight(h, r), h, r, 0) /\ first \in published
  BY DEF Resend
<1>8. k = [first EXCEPT !.no = resends']
  BY <1>3, <1>7 DEF Copy
<1> QED  BY <1>1, <1>3, <1>4, <1>5, <1>6, <1>7, <1>8

(* Every step keeps the types. *)
LEMMA TypeStep == Inv /\ [Next]_vars => TypeOK'
<1> SUFFICES ASSUME Inv, [Next]_vars PROVE TypeOK'
  OBVIOUS
<1>0. TypeOK /\ Entered
  BY DEF Inv
<1> USE <1>0 DEF TypeOK, clientVars, topicVars
<1>1. ASSUME NEW r \in Requests, RouteChat(r) PROVE TypeOK'
  <2>1. /\ ipc' \in [Handlers -> [Requests -> Labels]] /\ lost' \in SUBSET Requests
        /\ resends' \in Numbers
        /\ UNCHANGED <<conn, published, broadcast, delivered>>
    BY <1>1, RouteParts
  <2>2. sent' \subseteq Requests \X Numbers
    <3>1. PICK N \in SUBSET Numbers : sent' = sent \cup ({r} \X N)
      BY <1>1, RouteParts
    <3> QED  BY <3>1
  <2>4. /\ userSessions' \in [Gateways -> [Users -> Clients \cup {NoClient}]]
        /\ \A g \in Gateways, u \in Users :
               userSessions'[g][u] \in {NoClient} \cup
                   {c \in Clients : Gate[c] = g /\ UserOf[c] = u /\ conn[c] = "open"}
    BY <1>1 DEF RouteChat, Bind
  <2> QED  BY <2>1, <2>2, <2>4 DEF Labels
<1>2. ASSUME NEW c \in Clients, Disconnect(c) PROVE TypeOK'
  <2>1. UNCHANGED <<sent, ipc, published, resends, broadcast, delivered, lost>>
    BY <1>2 DEF Disconnect
  <2>2. conn' \in [Clients -> {"open", "gone"}]
    BY <1>2 DEF Disconnect
  <2>3. \A g \in Gateways, u \in Users :
            /\ userSessions'[g][u] \in {userSessions[g][u], NoClient}
            /\ userSessions'[g][u] # c
    <3>1. CASE Bound(c)
      BY <1>2, <3>1 DEF Disconnect
    <3>2. CASE ~ Bound(c)
      <4>1. userSessions' = userSessions
        BY <1>2, <3>2 DEF Disconnect
      <4>2. ASSUME NEW g \in Gateways, NEW u \in Users, userSessions[g][u] = c PROVE FALSE
        <5>1. Bound(userSessions[g][u])
          BY <4>2 DEF Entered
        <5> QED  BY ONLY <3>2, <4>2, <5>1
      <4> QED  BY <4>1, <4>2
    <3> QED  BY <3>1, <3>2
  <2>4. userSessions' \in [Gateways -> [Users -> Clients \cup {NoClient}]]
    BY <1>2 DEF Disconnect
  <2>5. \A d \in Clients : d # c => conn'[d] = conn[d]
    BY <1>2 DEF Disconnect
  <2> QED  BY <2>1, <2>2, <2>3, <2>4, <2>5
<1>3. ASSUME NEW h \in Handlers, NEW r \in Requests, HandleRequest(h, r) PROVE TypeOK'
  <2>1. ipc' \in [Handlers -> [Requests ->
                     {"none", "parse", "forward", "ack", "done", "dropped"}]]
    <3>1. PICK label \in Labels : Goto(h, r, label)
      BY <1>3, HandleGoes
    <3> QED  BY <3>1, GotoType DEF Labels
  <2>2. CASE Accept(h, r) \/ Reject(h, r)
    BY <2>1, <2>2 DEF Accept, Reject
  <2>3. CASE Forward(h, r) \/ Ack(h, r)
    <3>1. PICK k \in Copies : PublishCopy(k) /\ UNCHANGED resends
      <4>1. 0 \in Numbers
        BY DEF Numbers
      <4> QED  BY <2>3, <4>1, CopyIn DEF Forward, Ack, Kinds
    <3>2. /\ broadcast' \in [Gateways -> Seq(Copies)] /\ lost' \in SUBSET Requests
          /\ published' \subseteq Copies
          /\ UNCHANGED <<conn, userSessions, sent, delivered>>
      BY <3>1, PublishCopyTypes
    <3> QED  BY <2>1, <3>1, <3>2
  <2> QED  BY <1>3, <2>2, <2>3 DEF HandleRequest
<1>6. ASSUME NEW h \in Handlers, NEW r \in Requests, Resend(h, r) PROVE TypeOK'
  <2>1. PICK k \in Copies : PublishCopy(k)
    BY <1>6, ResendParts
  <2>2. resends' \in Numbers /\ UNCHANGED ipc
    BY <1>6, ResendParts
  <2>3. /\ broadcast' \in [Gateways -> Seq(Copies)] /\ lost' \in SUBSET Requests
        /\ published' \subseteq Copies
        /\ UNCHANGED <<conn, userSessions, sent, delivered>>
    BY <2>1, PublishCopyTypes
  <2> QED  BY <2>2, <2>3
<1>4. ASSUME NEW g \in Gateways, HandleBroadcast(g) PROVE TypeOK'
  <2> DEFINE k == Head(broadcast[g])
             c == Lookup(g, TargetOf(k))
  <2>1. broadcast[g] \in Seq(Copies) /\ broadcast[g] # <<>>
    BY <1>4 DEF HandleBroadcast
  <2>2. k \in Copies /\ Tail(broadcast[g]) \in Seq(Copies)
    BY <2>1
  <2>3. k.req \in Requests
    BY <2>2 DEF Copies
  <2>4. c # NoClient => c \in Clients
    BY <2>2, LookupType
  <2>5. broadcast' \in [Gateways -> Seq(Copies)]
    BY <1>4, <2>2 DEF HandleBroadcast
  <2>6. \/ delivered' = delivered
        \/ c # NoClient /\ delivered' = [delivered EXCEPT ![c] = Append(@, k)]
    BY <1>4 DEF HandleBroadcast
  <2>7. lost' \in SUBSET Requests
    BY <1>4, <2>3 DEF HandleBroadcast
  <2>8. UNCHANGED <<conn, userSessions, sent, ipc, published, resends>>
    BY <1>4 DEF HandleBroadcast
  <2> HIDE DEF k, c
  <2>9. delivered' \in [Clients -> Seq(Copies)]
    <3>1. CASE c # NoClient /\ delivered' = [delivered EXCEPT ![c] = Append(@, k)]
      <4>1. c \in Clients /\ delivered[c] \in Seq(Copies)
        BY <2>4, <3>1
      <4>2. Append(delivered[c], k) \in Seq(Copies)
        BY <2>2, <4>1
      <4> QED  BY <3>1, <4>1, <4>2
    <3> QED  BY <2>6, <3>1
  <2> QED  BY <2>5, <2>7, <2>8, <2>9
<1>5. CASE UNCHANGED vars
  BY <1>5 DEF vars
<1> QED  BY <1>1, <1>2, <1>3, <1>4, <1>5, <1>6 DEF Next

(* A request is handled only after it was sent, and who is entered sent    *)
(* one.                                                                    *)
LEMMA SentStep == Inv /\ [Next]_vars => Received' /\ Entered'
<1> SUFFICES ASSUME Inv, [Next]_vars PROVE Received' /\ Entered'
  OBVIOUS
<1>0. TypeOK /\ Received /\ Entered
  BY DEF Inv
<1> USE <1>0 DEF Received, Handled, clientVars, topicVars
<1>1. ASSUME NEW r \in Requests, RouteChat(r) PROVE Received' /\ Entered'
  <2>1. PICK N \in SUBSET Numbers :
            /\ N = {0} \cup (resends + 1)..resends'
            /\ sent' = sent \cup ({r} \X N)
            /\ \A h \in Handlers, q \in Requests :
                   ipc'[h][q] = ipc[h][q] \/ (q = r /\ r \in Served /\ h[2] \in N)
    BY <1>1, RouteParts
  <2>2. <<r, 0>> \in sent' /\ Bind(From[r])
    BY <1>1, <2>1 DEF RouteChat
  <2>4. Received'
    BY <2>1, <2>2
  <2>5. \A c : Bound(c) \/ c = From[r] => Bound(c)'
    BY <2>1, <2>2 DEF Bound
  <2>6. \A g \in Gateways, u \in Users :
            userSessions'[g][u] = userSessions[g][u] \/ userSessions'[g][u] = From[r]
    BY <2>2 DEF Bind, TypeOK
  <2>7. Entered'
    BY <2>5, <2>6 DEF Entered
  <2> QED  BY <2>4, <2>7
<1>2. ASSUME NEW c \in Clients, Disconnect(c) PROVE Received' /\ Entered'
  <2>1. UNCHANGED <<sent, ipc>>
    BY <1>2 DEF Disconnect
  <2>2. \A g \in Gateways, u \in Users :
            userSessions'[g][u] = userSessions[g][u] \/ userSessions'[g][u] = NoClient
    BY <1>2 DEF Disconnect, TypeOK
  <2>3. Received'
    BY <2>1
  <2>4. ASSUME NEW g \in Gateways, NEW u \in Users, userSessions'[g][u] # NoClient
        PROVE  Bound(userSessions[g][u])'
    <3>1. Bound(userSessions[g][u]) /\ userSessions'[g][u] = userSessions[g][u]
      BY <2>2, <2>4 DEF Entered
    <3>2. PICK r \in Requests : Handled(r) /\ From[r] = userSessions[g][u]
      BY <3>1 DEF Bound
    <3> QED  BY <2>1, <3>1, <3>2 DEF Bound
  <2> QED  BY <2>3, <2>4 DEF Entered
<1>3. ASSUME NEW h \in Handlers, NEW r \in Requests, HandleRequest(h, r)
      PROVE  Received' /\ Entered'
  <2>1. UNCHANGED <<sent, userSessions>>
    BY <1>3 DEF HandleRequest, Accept, Reject, Forward, Ack, PublishCopy
  <2>2. PICK label \in Labels : Goto(h, r, label) /\ ipc[h][r] # "none"
    BY <1>3, HandleGoes DEF HandleRequest
  <2>3. \A j \in Handlers, q \in Requests : ipc'[j][q] # "none" => ipc[j][q] # "none"
    BY <2>2, GotoType
  <2> QED  BY <2>1, <2>3 DEF Entered, Bound
<1>4. CASE \/ \E g \in Gateways : HandleBroadcast(g)
           \/ \E h \in Handlers, r \in Requests : Resend(h, r)
           \/ UNCHANGED vars
  <2>1. UNCHANGED <<sent, ipc, userSessions>>
    BY <1>4 DEF HandleBroadcast, Resend, PublishCopy, vars
  <2> QED  BY <2>1 DEF Entered, Bound
<1> QED  BY <1>1, <1>2, <1>3, <1>4 DEF Next

(* What is published stays so. *)
LEMMA PublishedStays ==
    ASSUME [Next]_vars, NEW k, Published(k)
    PROVE  Published(k)'
BY DEF Next, RouteChat, Disconnect, HandleRequest, Accept, Reject, Forward, Ack, Resend,
       PublishCopy, HandleBroadcast, topicVars, vars, Published

(* A handler goes on from what it has published, and never back. *)
LEMMA StageStep == Inv /\ [Next]_vars => Stage'
<1> SUFFICES ASSUME Inv, [Next]_vars PROVE Stage'
  OBVIOUS
<1>0. /\ TypeOK /\ Received /\ Stage
      /\ \A k \in published : k.handler \in Handlers /\ k.req \in Requests
      /\ resends \in Nat /\ MaxResends \in Nat
  <2>1. TypeOK /\ Received /\ Stage
    BY DEF Inv
  <2>2. published \subseteq Copies /\ resends \in 0..MaxResends
    BY <2>1 DEF TypeOK, Numbers
  <2>3. \A k \in published : k.handler \in Handlers /\ k.req \in Requests
    BY <2>2 DEF Copies
  <2> QED  BY <2>1, <2>2, <2>3
<1>1. ASSUME NEW r \in Requests, RouteChat(r) PROVE Stage'
  <2>1. /\ ~ Handled(r) /\ UNCHANGED published
        /\ resends <= resends' /\ resends' \in Nat
        /\ \A h \in Handlers, q \in Requests : ipc'[h][q] = ipc[h][q] \/ q = r
    BY <1>0, <1>1, RouteParts DEF Numbers
  <2>2. ASSUME NEW k \in published
        PROVE  k.no <= resends' /\ ipc'[k.handler][k.req] = ipc[k.handler][k.req]
    <3>1. k.req # r
      BY <1>0, <2>1, <2>2 DEF Received, Stage
    <3>2. k.no \in Nat
      BY <1>0, <2>2 DEF TypeOK, Copies, Numbers
    <3> QED  BY <1>0, <2>1, <2>2, <3>1, <3>2 DEF Stage
  <2> QED  BY <1>0, <2>1, <2>2 DEF Stage
<1>2. ASSUME NEW h \in Handlers, NEW r \in Requests, HandleRequest(h, r) PROVE Stage'
  <2>1. PICK label \in Labels :
            /\ Goto(h, r, label)
            /\ Accept(h, r) \/ Reject(h, r) => ipc[h][r] = "parse"
            /\ Forward(h, r) => ipc[h][r] = "forward" /\ label = "ack"
            /\ Ack(h, r) => ipc[h][r] = "ack" /\ label = "done"
    BY <1>0, <1>2, HandleGoes
  <2>2. \A k : k.handler \in Handlers /\ k.req \in Requests =>
            ipc'[k.handler][k.req] =
                IF k.handler = h /\ k.req = r THEN label ELSE ipc[k.handler][k.req]
    BY <1>0, <2>1, GotoType
  <2>3. CASE (Accept(h, r) \/ Reject(h, r)) /\ UNCHANGED <<published, resends>>
    BY <1>0, <2>1, <2>2, <2>3 DEF Stage
  <2>4. CASE Forward(h, r)
    <3>1. PICK k : /\ k.kind = "MessageBroadcast" /\ k.handler = h /\ k.req = r /\ k.no = 0
                   /\ published' = published \cup {k} /\ UNCHANGED resends
      BY <2>4 DEF Forward, PublishCopy, Copy
    <3> QED  BY <1>0, <2>1, <2>2, <2>4, <3>1 DEF Stage
  <2>5. CASE Ack(h, r)
    <3>1. PICK k : /\ k.kind = "ChatResponse" /\ k.handler = h /\ k.req = r /\ k.no = 0
                   /\ published' = published \cup {k} /\ UNCHANGED resends
      BY <2>5 DEF Ack, PublishCopy, Copy
    <3> QED  BY <1>0, <2>1, <2>2, <2>5, <3>1 DEF Stage
  <2> QED  BY <1>2, <2>3, <2>4, <2>5 DEF HandleRequest, Accept, Reject, topicVars
<1>3. ASSUME NEW h \in Handlers, NEW r \in Requests, Resend(h, r) PROVE Stage'
  <2>1. PICK k \in Copies :
            /\ k.handler = h /\ k.req = r /\ k.no = resends' /\ PublishCopy(k)
            /\ k.kind = "MessageBroadcast" => ipc[h][r] = "ack"
            /\ k.kind = "ChatResponse" => ipc[h][r] = "done"
    BY <1>3, ResendParts
  <2>2. resends' = resends + 1 /\ UNCHANGED ipc /\ published' = published \cup {k}
    BY <1>3, <2>1, ResendParts DEF PublishCopy
  <2>3. \A x \in published : x.no <= resends' /\ x.no \in Nat
    BY <1>0, <2>2 DEF Stage, TypeOK, Copies, Numbers
  <2>4. k.kind \in {"MessageBroadcast", "ChatResponse"}
    BY DEF Copies, Kinds
  <2> QED  BY <1>0, <2>1, <2>2, <2>3, <2>4 DEF Stage
<1>4. CASE (\E c \in Clients : Disconnect(c)) \/ (\E g \in Gateways : HandleBroadcast(g))
               \/ UNCHANGED vars
  BY <1>0, <1>4 DEF Disconnect, HandleBroadcast, topicVars, vars, Stage
<1> QED  BY <1>1, <1>2, <1>3, <1>4 DEF Next

(* The parts of the invariant about copies, after a step that leaves the   *)
(* copies alone.                                                           *)
LEMMA CopiesSame ==
    ASSUME Inv, [Next]_vars, UNCHANGED <<broadcast, delivered>>
    PROVE  AllPublished' /\ Once' /\ InTurn'
<1>1. /\ \A g \in Gateways : \A n \in DOMAIN broadcast[g] : broadcast[g][n] \in Copies
      /\ \A c \in Clients : \A n \in DOMAIN delivered[c] : delivered[c][n] \in Copies
  BY DEF Inv, TypeOK
<1>2. AllPublished'
  BY <1>1, PublishedStays DEF Inv, AllPublished
<1> QED  BY <1>2 DEF Inv, Once, InTurn

(* ... and after one that publishes a copy: it is new everywhere, and when *)
(* it is a message, its answer was not published.                          *)
LEMMA CopiesPublished ==
    ASSUME Inv, [Next]_vars, NEW k \in Copies, PublishCopy(k),
           ~ Published(k), k.kind = "MessageBroadcast" => ipc[k.handler][k.req] # "done"
    PROVE  AllPublished' /\ Once' /\ InTurn'
<1>0. TypeOK /\ AllPublished /\ Once /\ InTurn
  BY DEF Inv
<1>1. /\ delivered' = delivered
      /\ \A g \in Gateways :
             broadcast'[g] = broadcast[g] \/ broadcast'[g] = Append(broadcast[g], k)
  BY <1>0, PublishCopyTypes
<1>2. /\ \A g \in Gateways : broadcast[g] \in Seq(Copies)
      /\ \A c \in Clients : delivered[c] \in Seq(Copies)
  BY <1>0 DEF TypeOK
<1>3. ASSUME NEW g \in Gateways, NEW n \in DOMAIN (broadcast'[g])
      PROVE  \/ n \in DOMAIN broadcast[g] /\ broadcast'[g][n] = broadcast[g][n] /\ n < Len(broadcast[g]) + 1
             \/ n = Len(broadcast[g]) + 1 /\ broadcast'[g][n] = k
  <2>1. CASE broadcast'[g] = broadcast[g]
    <3>1. DOMAIN broadcast[g] = 1..Len(broadcast[g]) /\ Len(broadcast[g]) \in Nat
      BY <1>2
    <3> QED  BY <1>3, <2>1, <3>1
  <2>2. CASE broadcast'[g] = Append(broadcast[g], k)
    <3>1. broadcast[g] \in Seq(Copies) /\ k \in Copies /\ n \in DOMAIN Append(broadcast[g], k)
      BY <1>2, <1>3, <2>2
    <3>2. \/ n \in DOMAIN broadcast[g] /\ Append(broadcast[g], k)[n] = broadcast[g][n] /\ n < Len(broadcast[g]) + 1
          \/ n = Len(broadcast[g]) + 1 /\ Append(broadcast[g], k)[n] = k
      BY ONLY <3>1, AppendElements
    <3> QED  BY <2>2, <3>2
  <2> QED  BY <1>1, <2>1, <2>2
<1>4. /\ \A g \in Gateways : \A n \in DOMAIN broadcast[g] :
             broadcast[g][n] \in Copies /\ Published(broadcast[g][n]) /\ broadcast[g][n] # k
      /\ \A c \in Clients : \A n \in DOMAIN delivered[c] :
             delivered[c][n] \in Copies /\ Published(delivered[c][n]) /\ delivered[c][n] # k
  <2>1. /\ \A g \in Gateways : \A n \in DOMAIN broadcast[g] :
               broadcast[g][n] \in Copies /\ Published(broadcast[g][n])
        /\ \A c \in Clients : \A n \in DOMAIN delivered[c] :
               delivered[c][n] \in Copies /\ Published(delivered[c][n])
    BY <1>0, <1>2, ElementIn DEF AllPublished
  <2> QED  BY <2>1
<1>5. ASSUME NEW a \in Copies, Published(a) PROVE ~ Answers(a, k)
  BY <1>5 DEF Answers, Published, Inv, Stage
<1>6. ~ Answers(k, k)
  BY DEF Answers
<1>7. AllPublished'
  <2>1. ASSUME NEW g \in Gateways, NEW n \in DOMAIN (broadcast'[g])
        PROVE  Published(broadcast[g][n])'
    <3>1. CASE n \in DOMAIN broadcast[g] /\ broadcast'[g][n] = broadcast[g][n]
      <4> DEFINE e == broadcast[g][n]
      <4>1. PICK x \in Copies : x = e
        BY <1>4, <3>1
      <4>2. Published(x)'
        BY <1>4, <3>1, <4>1, PublishedStays
      <4>3. broadcast'[g][n] = x
        BY <3>1, <4>1
      <4> QED  BY <4>2, <4>3 DEF Published
    <3>2. CASE broadcast'[g][n] = k
      BY <3>2 DEF Published, PublishCopy
    <3> QED  BY <1>3, <3>1, <3>2
  <2>2. ASSUME NEW c \in Clients, NEW n \in DOMAIN (delivered'[c])
        PROVE  Published(delivered[c][n])'
    <3>1. PICK x \in Copies : x = delivered[c][n] /\ Published(x)
      BY <1>1, <1>4, <2>2
    <3>2. Published(x)'
      BY <3>1, PublishedStays
    <3> QED  BY <1>1, <3>1, <3>2 DEF Published
  <2> QED  BY <2>1, <2>2 DEF AllPublished
<1>8. Once'
  <2>1. ASSUME NEW g \in Gateways, NEW m \in DOMAIN (broadcast'[g]), NEW n \in DOMAIN (broadcast'[g]),
               m # n
        PROVE  broadcast'[g][m] # broadcast'[g][n]
    <3>1. CASE m \in DOMAIN broadcast[g] /\ n \in DOMAIN broadcast[g]
               /\ broadcast'[g][m] = broadcast[g][m] /\ broadcast'[g][n] = broadcast[g][n]
      BY <1>0, <2>1, <3>1 DEF Once
    <3> QED  BY <1>3, <1>4, <2>1, <3>1
  <2>2. ASSUME NEW c \in Clients, NEW m \in DOMAIN (delivered'[c]),
               NEW n \in DOMAIN (broadcast'[Gate[c]])
        PROVE  delivered'[c][m] # broadcast'[Gate[c]][n]
    <3>1. m \in DOMAIN delivered[c] /\ delivered'[c][m] = delivered[c][m] /\ Gate[c] \in Gateways
      BY <1>1, <2>2
    <3> QED  BY <1>0, <1>3, <1>4, <3>1 DEF Once
  <2> QED  BY <2>1, <2>2 DEF Once
<1>9. InTurn'
  <2>1. ASSUME NEW g \in Gateways, NEW m \in DOMAIN (broadcast'[g]), NEW n \in DOMAIN (broadcast'[g]),
               Answers(broadcast'[g][m], broadcast'[g][n])
        PROVE  n < m
    <3>1. CASE m \in DOMAIN broadcast[g] /\ n \in DOMAIN broadcast[g]
               /\ broadcast'[g][m] = broadcast[g][m] /\ broadcast'[g][n] = broadcast[g][n]
      BY <1>0, <2>1, <3>1 DEF InTurn
    <3>2. CASE n = Len(broadcast[g]) + 1 /\ broadcast'[g][n] = k
      BY <1>3, <1>4, <1>5, <1>6, <2>1, <3>2
    <3>3. CASE m = Len(broadcast[g]) + 1 /\ n < Len(broadcast[g]) + 1
      BY <3>3
    <3> QED  BY <1>3, <3>1, <3>2, <3>3
  <2>2. ASSUME NEW c \in Clients, NEW m \in DOMAIN (delivered'[c]),
               NEW n \in DOMAIN (broadcast'[Gate[c]])
        PROVE  ~ Answers(delivered'[c][m], broadcast'[Gate[c]][n])
    <3>1. m \in DOMAIN delivered[c] /\ delivered'[c][m] = delivered[c][m] /\ Gate[c] \in Gateways
      BY <1>1, <2>2
    <3>2. CASE n \in DOMAIN broadcast[Gate[c]] /\ broadcast'[Gate[c]][n] = broadcast[Gate[c]][n]
      BY <1>0, <3>1, <3>2 DEF InTurn
    <3>3. CASE broadcast'[Gate[c]][n] = k
      BY <1>4, <1>5, <3>1, <3>3
    <3> QED  BY <1>3, <3>1, <3>2, <3>3
  <2>3. /\ \A g \in Gateways : \A m, n \in DOMAIN (broadcast'[g]) :
               Answers(broadcast'[g][m], broadcast'[g][n]) => n < m
        /\ \A c \in Clients : \A m \in DOMAIN (delivered'[c]), n \in DOMAIN (broadcast'[Gate[c]]) :
               ~ Answers(delivered'[c][m], broadcast'[Gate[c]][n])
    BY <2>1, <2>2
  <2> QED  BY <2>3 DEF InTurn, Answers
<1> QED  BY <1>7, <1>8, <1>9

(* What a gateway does with the head of its queue. *)
LEMMA DeliverParts ==
    ASSUME Inv, NEW g \in Gateways, HandleBroadcast(g)
    PROVE  \E k \in Copies :
               /\ broadcast[g] \in Seq(Copies) /\ broadcast[g] # <<>>
               /\ k = broadcast[g][1] /\ 1 \in DOMAIN broadcast[g] /\ Published(k)
               /\ broadcast' = [broadcast EXCEPT ![g] = Tail(broadcast[g])]
               /\ \/ delivered' = delivered
                  \/ \E c \in Clients :
                         /\ Gate[c] = g /\ UserOf[c] = TargetOf(k)
                         /\ delivered[c] \in Seq(Copies)
                         /\ delivered' = [delivered EXCEPT ![c] = Append(delivered[c], k)]
<1>0. TypeOK /\ AllPublished
  BY DEF Inv
<1>1. broadcast[g] \in Seq(Copies) /\ broadcast[g] # <<>>
  BY <1>0 DEF HandleBroadcast, TypeOK
<1>2. Head(broadcast[g]) = broadcast[g][1] /\ 1 \in DOMAIN broadcast[g] /\ Head(broadcast[g]) \in Copies
  BY <1>1
<1>3. PICK k \in Copies : k = Head(broadcast[g])
  BY <1>2
<1>4. Published(k)
  BY <1>0, <1>2, <1>3 DEF AllPublished
<1>5. PICK c : c = Lookup(g, TargetOf(k))
  OBVIOUS
<1>6. c # NoClient => c \in Clients /\ Gate[c] = g /\ UserOf[c] = TargetOf(k)
  BY <1>0, <1>5, LookupType
<1>7. c \in Clients => delivered[c] \in Seq(Copies)
  BY <1>0 DEF TypeOK
<1>8. /\ broadcast' = [broadcast EXCEPT ![g] = Tail(broadcast[g])]
      /\ \/ delivered' = delivered
         \/ c # NoClient /\ delivered' = [delivered EXCEPT ![c] = Append(delivered[c], k)]
  BY <1>3, <1>5 DEF HandleBroadcast
<1> QED  BY <1>1, <1>2, <1>3, <1>4, <1>6, <1>7, <1>8

(* ... and after one that takes a copy off a gateway's queue. *)
LEMMA CopiesDelivered ==
    ASSUME Inv, [Next]_vars, NEW g \in Gateways, HandleBroadcast(g)
    PROVE  AllPublished' /\ Once' /\ InTurn'
<1>0. TypeOK /\ AllPublished /\ Once /\ InTurn
  BY DEF Inv
<1>1. PICK k \in Copies :
          /\ broadcast[g] \in Seq(Copies) /\ broadcast[g] # <<>>
          /\ k = broadcast[g][1] /\ 1 \in DOMAIN broadcast[g] /\ Published(k)
          /\ broadcast' = [broadcast EXCEPT ![g] = Tail(broadcast[g])]
          /\ \/ delivered' = delivered
             \/ \E c \in Clients :
                    /\ Gate[c] = g /\ UserOf[c] = TargetOf(k)
                    /\ delivered[c] \in Seq(Copies)
                    /\ delivered' = [delivered EXCEPT ![c] = Append(delivered[c], k)]
  BY DeliverParts
<1>2. /\ \A h \in Gateways : broadcast[h] \in Seq(Copies)
      /\ \A c \in Clients : delivered[c] \in Seq(Copies) /\ Gate[c] \in Gateways
  BY <1>0 DEF TypeOK
<1>3. \A h \in Gateways : h # g => broadcast'[h] = broadcast[h]
  BY <1>0, <1>1 DEF TypeOK
<1>4. broadcast'[g] = Tail(broadcast[g])
  BY <1>0, <1>1 DEF TypeOK
<1>5. ASSUME NEW n \in DOMAIN (broadcast'[g])
      PROVE  n \in Nat \ {0} /\ n + 1 \in DOMAIN broadcast[g] /\ broadcast'[g][n] = broadcast[g][n + 1]
  <2>1. broadcast[g] \in Seq(Copies) /\ broadcast[g] # <<>> /\ n \in DOMAIN Tail(broadcast[g])
    BY <1>1, <1>4, <1>5
  <2>2. n \in Nat \ {0} /\ n + 1 \in DOMAIN broadcast[g] /\ Tail(broadcast[g])[n] = broadcast[g][n + 1]
    BY ONLY <2>1, TailElements
  <2> QED  BY <1>4, <2>2
<1>6. ASSUME NEW c \in Clients, NEW n \in DOMAIN (delivered'[c])
      PROVE  \/ n \in DOMAIN delivered[c] /\ delivered'[c][n] = delivered[c][n]
             \/ Gate[c] = g /\ delivered'[c][n] = k
  <2>1. CASE delivered'[c] = delivered[c]
    BY <1>6, <2>1
  <2>2. CASE Gate[c] = g /\ delivered'[c] = Append(delivered[c], k)
    <3>1. delivered[c] \in Seq(Copies) /\ k \in Copies /\ n \in DOMAIN Append(delivered[c], k)
      BY <1>2, <1>6, <2>2
    <3>2. \/ n \in DOMAIN delivered[c] /\ Append(delivered[c], k)[n] = delivered[c][n]
          \/ Append(delivered[c], k)[n] = k
      BY ONLY <3>1, AppendElements
    <3> QED  BY <2>2, <3>2
  <2>3. delivered'[c] = delivered[c] \/ (Gate[c] = g /\ delivered'[c] = Append(delivered[c], k))
    BY <1>0, <1>1 DEF TypeOK
  <2> QED  BY <2>1, <2>2, <2>3
<1>7. AllPublished'
  <2>1. \A x \in Copies : Published(x) => Published(x)'
    BY PublishedStays
  <2>2. ASSUME NEW h \in Gateways, NEW n \in DOMAIN (broadcast'[h])
        PROVE  Published(broadcast[h][n])'
    <3>1. PICK m \in DOMAIN broadcast[h] : broadcast'[h][n] = broadcast[h][m]
      BY <1>3, <1>5, <2>2
    <3>2. PICK x \in Copies : x = broadcast[h][m]
      BY <1>2, ElementIn
    <3>3. Published(x)
      BY <1>0, <3>1, <3>2 DEF AllPublished
    <3>4. Published(x)' /\ broadcast'[h][n] = x
      BY <2>1, <3>1, <3>2, <3>3
    <3> QED  BY <3>4 DEF Published
  <2>3. ASSUME NEW c \in Clients, NEW n \in DOMAIN (delivered'[c])
        PROVE  Published(delivered[c][n])'
    <3>1. \E x \in Copies : x = delivered'[c][n] /\ Published(x)
      <4>1. CASE n \in DOMAIN delivered[c] /\ delivered'[c][n] = delivered[c][n]
        <5>1. delivered[c][n] \in Copies
          BY <1>2, <4>1, ElementIn
        <5> QED  BY <1>0, <4>1, <5>1 DEF AllPublished
      <4> QED  BY <1>1, <1>6, <2>3, <4>1
    <3>2. PICK x \in Copies : x = delivered'[c][n] /\ Published(x)
      BY <3>1
    <3>3. Published(x)'
      BY <2>1, <3>2
    <3> QED  BY <3>2, <3>3 DEF Published
  <2> QED  BY <2>2, <2>3 DEF AllPublished
<1>8. Once'
  <2>1. ASSUME NEW h \in Gateways, NEW m \in DOMAIN (broadcast'[h]), NEW n \in DOMAIN (broadcast'[h]),
               m # n
        PROVE  broadcast'[h][m] # broadcast'[h][n]
    <3>1. CASE h = g
      <4>1. m + 1 # n + 1
        BY <1>5, <2>1, <3>1
      <4> QED  BY <1>0, <1>5, <2>1, <3>1, <4>1 DEF Once
    <3>2. CASE h # g
      BY <1>0, <1>3, <2>1, <3>2 DEF Once
    <3> QED  BY <3>1, <3>2
  <2>2. ASSUME NEW c \in Clients, NEW m \in DOMAIN (delivered'[c]),
               NEW n \in DOMAIN (broadcast'[Gate[c]])
        PROVE  delivered'[c][m] # broadcast'[Gate[c]][n]
    <3>1. CASE Gate[c] = g
      <4>1. n + 1 \in DOMAIN broadcast[g] /\ broadcast'[g][n] = broadcast[g][n + 1] /\ n + 1 # 1
        BY <1>5, <2>2, <3>1
      <4>2. k # broadcast[g][n + 1]
        BY <1>0, <1>1, <4>1 DEF Once
      <4> QED  BY <1>0, <1>6, <2>2, <3>1, <4>1, <4>2 DEF Once
    <3>2. CASE Gate[c] # g
      BY <1>0, <1>2, <1>3, <1>6, <2>2, <3>2 DEF Once
    <3> QED  BY <3>1, <3>2
  <2> QED  BY <2>1, <2>2 DEF Once
<1>9. InTurn'
  <2>1. ASSUME NEW h \in Gateways, NEW m \in DOMAIN (broadcast'[h]), NEW n \in DOMAIN (broadcast'[h]),
               Answers(broadcast'[h][m], broadcast'[h][n])
        PROVE  n < m
    <3>1. CASE h = g
      <4>1. n + 1 < m + 1
        BY <1>0, <1>5, <2>1, <3>1 DEF InTurn
      <4> QED  BY <1>5, <2>1, <3>1, <4>1
    <3>2. CASE h # g
      BY <1>0, <1>3, <2>1, <3>2 DEF InTurn
    <3> QED  BY <3>1, <3>2
  <2>2. ASSUME NEW c \in Clients, NEW m \in DOMAIN (delivered'[c]),
               NEW n \in DOMAIN (broadcast'[Gate[c]])
        PROVE  ~ Answers(delivered'[c][m], broadcast'[Gate[c]][n])
    <3>1. CASE Gate[c] = g
      <4>1. n + 1 \in DOMAIN broadcast[g] /\ broadcast'[g][n] = broadcast[g][n + 1] /\ ~ n + 1 < 1
        BY <1>5, <2>2, <3>1
      <4>2. ~ Answers(k, broadcast[g][n + 1])
        BY <1>0, <1>1, <4>1 DEF InTurn
      <4> QED  BY <1>0, <1>6, <2>2, <3>1, <4>1, <4>2 DEF InTurn
    <3>2. CASE Gate[c] # g
      BY <1>0, <1>2, <1>3, <1>6, <2>2, <3>2 DEF InTurn
    <3> QED  BY <3>1, <3>2
  <2>3. /\ \A h \in Gateways : \A m, n \in DOMAIN (broadcast'[h]) :
               Answers(broadcast'[h][m], broadcast'[h][n]) => n < m
        /\ \A c \in Clients : \A m \in DOMAIN (delivered'[c]), n \in DOMAIN (broadcast'[Gate[c]]) :
               ~ Answers(delivered'[c][m], broadcast'[Gate[c]][n])
    BY <2>1, <2>2
  <2> QED  BY <2>3 DEF InTurn, Answers
<1> QED  BY <1>7, <1>8, <1>9

(* The inductive invariant holds in every reachable state. *)
LEMMA InvStep == Inv /\ [Next]_vars => Inv'
<1> SUFFICES ASSUME Inv, [Next]_vars PROVE Inv'
  OBVIOUS
<1>0. TypeOK
  BY DEF Inv
<1>1. TypeOK' /\ Received' /\ Entered' /\ Stage'
  BY TypeStep, SentStep, StageStep
<1>2. ASSUME UNCHANGED <<broadcast, delivered>> PROVE Inv'
  BY <1>1, <1>2, CopiesSame DEF Inv
<1>6. ASSUME NEW k \in Copies, PublishCopy(k), ~ Published(k),
             k.kind = "MessageBroadcast" => ipc[k.handler][k.req] # "done"
      PROVE  Inv'
  BY <1>1, <1>6, CopiesPublished DEF Inv
<1>3. ASSUME NEW h \in Handlers, NEW r \in Requests, HandleRequest(h, r) PROVE Inv'
  <2>1. /\ Forward(h, r) => ipc[h][r] = "forward"
        /\ Ack(h, r) => ipc[h][r] = "ack"
    BY DEF Forward, Ack
  <2>2. 0 \in Numbers /\ Stage
    BY DEF Inv, Numbers
  <2>3. CASE Accept(h, r) \/ Reject(h, r)
    BY <1>2, <2>3 DEF Accept, Reject, topicVars
  <2>5. CASE Forward(h, r)
    <3>1. PICK k \in Copies : /\ k = Copy("MessageBroadcast", h, r, 0)
                              /\ k.kind = "MessageBroadcast" /\ k.handler = h /\ k.req = r
      BY <2>2, CopyIn DEF Kinds
    <3>2. PublishCopy(k)
      BY <2>5, <3>1 DEF Forward
    <3>3. ~ Published(k) /\ ipc[h][r] # "done"
      BY <2>1, <2>2, <2>5, <3>1 DEF Published, Stage
    <3> QED  BY <1>6, <3>1, <3>2, <3>3
  <2>6. CASE Ack(h, r)
    <3>1. PICK k \in Copies : /\ k = Copy("ChatResponse", h, r, 0)
                              /\ k.kind = "ChatResponse" /\ k.handler = h /\ k.req = r
      BY <2>2, CopyIn DEF Kinds
    <3>2. PublishCopy(k)
      BY <2>6, <3>1 DEF Ack
    <3>3. ~ Published(k)
      BY <2>1, <2>2, <2>6, <3>1 DEF Published, Stage
    <3> QED  BY <1>6, <3>1, <3>2, <3>3
  <2> QED  BY <1>3, <2>3, <2>5, <2>6 DEF HandleRequest
<1>7. ASSUME NEW h \in Handlers, NEW r \in Requests, Resend(h, r) PROVE Inv'
  <2>1. PICK k \in Copies :
            /\ k.handler = h /\ k.req = r /\ PublishCopy(k) /\ ~ Published(k)
            /\ k.kind = "MessageBroadcast" => ipc[h][r] = "ack"
    BY <1>7, ResendParts
  <2> QED  BY <1>6, <2>1
<1>4. ASSUME NEW g \in Gateways, HandleBroadcast(g) PROVE Inv'
  BY <1>1, <1>4, CopiesDelivered DEF Inv
<1>5. CASE (\E r \in Requests : RouteChat(r)) \/ (\E c \in Clients : Disconnect(c)) \/ UNCHANGED vars
  BY <1>2, <1>5 DEF RouteChat, Disconnect, topicVars, vars
<1> QED  BY <1>3, <1>4, <1>5, <1>7 DEF Next

LEMMA Invariance == Spec => []Inv
BY InitInv, InvStep, PTL DEF Spec

-----------------------------------------------------------------------------
(* The theorems *)

(* The state keeps its types, and whoever is entered for a user is         *)
(* connected and gave that user ID.                                        *)
THEOREM TypeCorrect == Spec => []TypeOK
<1>1. Inv => TypeOK
  BY DEF Inv
<1> QED  BY <1>1, Invariance, PTL

(* A sender who has its answer has nothing to wait for at its gateway. *)
THEOREM MessageBeforeAnswer == Spec => []ForwardedFirst
<1>1. ASSUME Inv PROVE ForwardedFirst
  <2> SUFFICES ASSUME NEW c \in Clients, NEW h \in Handlers, NEW r \in Requests,
                      NEW a \in Numbers, NEW b \in Numbers,
                      NEW m \in DOMAIN delivered[c], NEW n \in DOMAIN broadcast[Gate[c]],
                      delivered[c][m] = Copy("ChatResponse", h, r, a),
                      broadcast[Gate[c]][n] = Copy("MessageBroadcast", h, r, b)
               PROVE  FALSE
    BY DEF ForwardedFirst, Elements
  <2>1. Answers(delivered[c][m], broadcast[Gate[c]][n])
    BY DEF Answers, Copy
  <2> QED  BY <1>1, <2>1 DEF Inv, InTurn
<1> QED  BY <1>1, Invariance, PTL

(* Every step of the system is a step of MessageDelivery, or none: what is *)
(* published, for the first time or again, is told apart from all that was *)
(* published before, and reaches the clients of a gateway once.            *)
THEOREM Implementation == Spec => ImplementsDelivery
<1>1. Init => MD!Init
  BY DEF Init, MD!Init
<1>2. ASSUME Inv, [Next]_vars PROVE [MD!Next]_<<sent, published, resends, delivered>>
  <2>1. ASSUME NEW r \in Requests, RouteChat(r) PROVE MD!Next
    <3>1. MD!Send(r)
      BY <2>1 DEF RouteChat, Handled, MD!Send
    <3> QED  BY <3>1 DEF MD!Next
  <2>2. ASSUME NEW g \in Gateways, HandleBroadcast(g), delivered' # delivered PROVE MD!Next
    <3>1. PICK k \in Copies :
              /\ k = broadcast[g][1] /\ 1 \in DOMAIN broadcast[g] /\ Published(k)
              /\ \E c \in Clients :
                     /\ Gate[c] = g /\ UserOf[c] = TargetOf(k)
                     /\ delivered' = [delivered EXCEPT ![c] = Append(delivered[c], k)]
      BY <1>2, <2>2, DeliverParts
    <3>2. PICK c \in Clients :
              /\ Gate[c] = g /\ UserOf[c] = TargetOf(k)
              /\ delivered' = [delivered EXCEPT ![c] = Append(delivered[c], k)]
      BY <3>1
    <3>3. \A d \in Clients : Gate[d] = Gate[c] => ~ MD!Had(d, k)
      BY <1>2, <3>1, <3>2 DEF Inv, Once, MD!Had
    <3>4. k \in published /\ c \in Addressees(k)
      BY <3>1, <3>2 DEF Published, Addressees
    <3>5. UNCHANGED <<sent, published, resends>>
      BY <2>2 DEF HandleBroadcast
    <3>6. MD!Deliver(k, c)
      BY <3>2, <3>3, <3>5 DEF MD!Deliver
    <3> QED  BY <3>4, <3>6 DEF MD!Next
  <2>3. ASSUME NEW h \in Handlers, NEW r \in Requests, Forward(h, r) \/ Ack(h, r)
        PROVE  MD!Next
    <3>1. PICK kind \in Kinds :
              /\ PublishCopy(Copy(kind, h, r, 0)) /\ UNCHANGED resends
              /\ kind = "MessageBroadcast" => ipc[h][r] = "forward"
              /\ kind = "ChatResponse" => ipc[h][r] = "ack"
      BY <2>3 DEF Forward, Ack, Kinds
    <3>2. PICK k : k = Copy(kind, h, r, 0)
      OBVIOUS
    <3>3. /\ k.kind = kind /\ k.handler = h /\ k.req = r /\ ipc[h][r] # "none"
          /\ kind = "MessageBroadcast" \/ kind = "ChatResponse"
      BY <3>1, <3>2 DEF Copy, Kinds
    <3>4. k \notin published
      BY <1>2, <3>1, <3>3 DEF Inv, Stage
    <3>5. <<r, h[2]>> \in sent /\ r \in Served
      BY <1>2, <3>3 DEF Inv, Received
    <3>6. k \in CopiesOf(<<r, h[2]>>)
      <4>1. PICK i \in Instances, n \in Numbers : h = <<i, n>>
        BY DEF Handlers
      <4>2. h \in Instances \X {h[2]}
        BY <4>1
      <4> QED  BY <3>2, <4>2 DEF CopiesOf, Copy
    <3>7. MD!Publish(k)
      BY <3>1, <3>2, <3>4 DEF MD!Publish, PublishCopy
    <3>8. PICK p : p = <<r, h[2]>>
      OBVIOUS
    <3>9. p \in sent /\ p[1] \in Served /\ k \in CopiesOf(p)
      BY <3>5, <3>6, <3>8
    <3> QED  BY <3>7, <3>9 DEF MD!Next
  <2>4. ASSUME NEW h \in Handlers, NEW r \in Requests, Resend(h, r) PROVE MD!Next
    <3>1. PICK k \in Copies :
              PublishCopy(k) /\ \E first \in published : k = [first EXCEPT !.no = resends']
      BY <1>2, <2>4, ResendParts
    <3>2. PICK first \in published : k = [first EXCEPT !.no = resends']
      BY <3>1
    <3>3. resends' = resends + 1
      BY <2>4 DEF Resend
    <3>4. MD!PublishAgain(first)
      BY <3>1, <3>2, <3>3 DEF MD!PublishAgain, PublishCopy
    <3> QED  BY <3>4 DEF MD!Next
  <2>5. ASSUME NEW g \in Gateways, HandleBroadcast(g) PROVE UNCHANGED <<sent, published, resends>>
    BY <2>5 DEF HandleBroadcast
  <2>6. CASE \/ \E h \in Handlers, r \in Requests : Accept(h, r) \/ Reject(h, r)
             \/ \E c \in Clients : Disconnect(c)
             \/ UNCHANGED vars
    BY <2>6 DEF Accept, Reject, Disconnect, topicVars, vars
  <2> QED  BY <1>2, <2>1, <2>2, <2>3, <2>4, <2>5, <2>6 DEF Next, HandleRequest
<1> QED  BY <1>1, <1>2, Invariance, PTL DEF Spec, ImplementsDelivery, MD!Spec
=============================================================================
