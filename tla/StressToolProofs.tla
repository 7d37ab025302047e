-------------------------- MODULE StressToolProofs ---------------------------
(***************************************************************************)
(* Proofs about StressTool, for any number of users and requests.          *)
(*                                                                         *)
(* That the report counts every user once rests on where the one result of *)
(* a user can be: not made yet, in the channel, or counted.                *)
(***************************************************************************)
EXTENDS StressTool, SortedQueues, FiniteSetTheorems, WellFoundedInduction, TLAPS

USE ParameterAssumption

Labels == {"off", "dial", "bind", "binding", "send", "receive", "result", "close", "done"}

Results == [user : User, duration : 1..MaxDuration]

(* What the argument needs of the types. *)
Types ==
    /\ mpc \in {"start", "wait", "progress", "stop", "collect", "done"}
    /\ started \in 0..Concurrency
    /\ upc \in [User -> Labels]
    /\ resultChan \in Seq(Results)
    /\ counted \in [User -> Nat]

InChannel(u) == \E n \in DOMAIN resultChan : resultChan[n].user = u

OneEach ==
    \A m, n \in DOMAIN resultChan : resultChan[m].user = resultChan[n].user => m = n

(* The one result of each user. *)
OneResult ==
    \A u \in User :
        IF upc[u] \in {"close", "done"}
        THEN IF InChannel(u) THEN counted[u] = 0 ELSE counted[u] = 1
        ELSE counted[u] = 0 /\ ~ InChannel(u)

(* The order of the steps of main and of the collector. *)
MainOrder ==
    /\ mpc = "start" => started < Concurrency /\ \A u \in User : u > started => upc[u] = "off"
    /\ mpc \in {"progress", "stop", "collect", "done"} => \A u \in User : upc[u] = "done"
    /\ closed => mpc \in {"collect", "done"}
    /\ ~ collecting => closed /\ resultChan = <<>>
    /\ mpc = "done" => ~ collecting

Inv == Types /\ OneEach /\ OneResult /\ MainOrder

(* The initial state satisfies every part of the invariant. *)
LEMMA InitInv == Init => Inv
<1> SUFFICES ASSUME Init PROVE Inv
  OBVIOUS
<1>1. Types
  BY DEF Init, Types, Labels
<1>2. resultChan = <<>> /\ closed = FALSE /\ collecting = TRUE
  BY DEF Init
<1>3. OneEach /\ OneResult
  BY <1>2 DEF Init, OneEach, OneResult, InChannel
<1>4. MainOrder
  BY <1>2 DEF Init, MainOrder, User
<1> QED  BY <1>1, <1>3, <1>4 DEF Inv

(* A step of a user that neither makes a result nor ends. *)
LEMMA Underway ==
    ASSUME Inv, NEW u \in User, NEW label \in Labels, Goto(u, label),
           upc[u] # "off", upc[u] # "done",
           label = "done" <=> upc[u] = "close", label \notin {"off", "close"},
           UNCHANGED <<mpc, started, resultChan, closed, collecting, counted>>
    PROVE  Inv'
<1>1. /\ upc' \in [User -> Labels] /\ upc'[u] = label
      /\ \A v \in User : v # u => upc'[v] = upc[v]
  BY DEF Inv, Types, Goto
<1>2. Types' /\ OneEach'
  BY <1>1 DEF Inv, Types, OneEach
<1>3. OneResult'
  BY <1>1 DEF Inv, OneResult, InChannel, Labels, Types
<1>4. MainOrder'
  BY <1>1 DEF Inv, MainOrder
<1> QED  BY <1>2, <1>3, <1>4 DEF Inv

(* Every step of a user. *)
LEMMA UserStep == \A u \in User : Inv /\ RunUser(u) => Inv'
<1> SUFFICES ASSUME Inv, NEW u \in User, RunUser(u) PROVE Inv'
  OBVIOUS
<1> USE DEF statVars, OnlyUser
<1>1. ASSUME NEW label \in Labels, Goto(u, label), upc[u] # "off", upc[u] # "done",
             label = "done" <=> upc[u] = "close", label \notin {"off", "close"},
             UNCHANGED <<mpc, started, statVars>>
      PROVE  Inv'
  BY <1>1, Underway
<1>2. CASE NewGameChatClient(u) \/ TryAgain(u)
  BY <1>1, <1>2 DEF NewGameChatClient, TryAgain, Labels
<1>3. CASE SendBind(u)
  BY <1>1, <1>3 DEF SendBind, Labels
<1>4. CASE ReadBind(u)
  BY <1>1, <1>4 DEF ReadBind, Labels
<1>5. CASE ReadError(u)
  BY <1>1, <1>5 DEF ReadError, Labels
<1>6. CASE SendMessage(u)
  BY <1>1, <1>6 DEF SendMessage, Labels
<1>7. CASE ReceiveMessage(u)
  <2>1. upc[u] = "receive" /\ UNCHANGED <<mpc, started, statVars>>
    BY <1>7 DEF ReceiveMessage
  <2>2. CASE UNCHANGED upc
    BY <2>1, <2>2 DEF Inv, Types, OneEach, OneResult, InChannel, MainOrder
  <2>3. CASE Goto(u, "send") \/ Goto(u, "result")
    BY <1>1, <2>1, <2>3 DEF Labels
  <2> QED  BY <1>7, <2>2, <2>3 DEF ReceiveMessage
<1>8. CASE Done(u)
  BY <1>1, <1>8 DEF Done, Labels
<1>9. CASE AddResult(u)
  <2>1. PICK e \in Results : e.user = u /\ resultChan' = Append(resultChan, e)
    <3>1. \E d \in IF Success(u) THEN 1..MaxDuration ELSE {1} :
              resultChan' = Append(resultChan, [user |-> u, duration |-> d])
      BY <1>9 DEF AddResult
    <3>2. PICK d \in 1..MaxDuration :
              resultChan' = Append(resultChan, [user |-> u, duration |-> d])
      BY <3>1
    <3>3. [user |-> u, duration |-> d] \in Results /\ [user |-> u, duration |-> d].user = u
      BY DEF Results
    <3> QED  BY <3>2, <3>3
  <2>2. /\ upc[u] = "result" /\ Goto(u, "close")
        /\ UNCHANGED <<mpc, started, closed, collecting, counted>>
    BY <1>9 DEF AddResult
  <2>3. resultChan \in Seq(Results)
    BY DEF Inv, Types
  <2>4. /\ upc' \in [User -> Labels] /\ upc'[u] = "close"
        /\ \A v \in User : v # u => upc'[v] = upc[v]
    BY <2>2 DEF Inv, Types, Goto, Labels
  <2>5. Types'
    BY <2>1, <2>2, <2>3, <2>4 DEF Inv, Types
  <2>6. ASSUME NEW n \in DOMAIN resultChan'
        PROVE  \/ n \in DOMAIN resultChan /\ resultChan'[n] = resultChan[n]
               \/ n = Len(resultChan) + 1 /\ resultChan'[n] = e
    <3>1. n \in DOMAIN Append(resultChan, e)
      BY <2>1, <2>6
    <3>2. e \in Results
      OBVIOUS
    <3>3. \/ n \in DOMAIN resultChan /\ Append(resultChan, e)[n] = resultChan[n]
          \/ n = Len(resultChan) + 1 /\ Append(resultChan, e)[n] = e
      BY ONLY <2>3, <3>1, <3>2, AppendElements
    <3> QED  BY <2>1, <3>3
  <2>7. /\ \A n \in DOMAIN resultChan : n \in DOMAIN resultChan' /\ resultChan'[n] = resultChan[n]
        /\ \E n \in DOMAIN resultChan' : resultChan'[n] = e
    <3>1. /\ \A n \in DOMAIN resultChan :
                 n \in DOMAIN Append(resultChan, e) /\ Append(resultChan, e)[n] = resultChan[n]
          /\ Len(resultChan) + 1 \in DOMAIN Append(resultChan, e)
          /\ Append(resultChan, e)[Len(resultChan) + 1] = e
      BY <2>3
    <3> QED  BY <2>1, <3>1
  <2>8. ~ InChannel(u) /\ counted[u] = 0
    BY <2>2 DEF Inv, OneResult
  <2>9. OneEach'
    BY <2>1, <2>6, <2>8 DEF Inv, OneEach, InChannel
  <2>10. \A v \in User : InChannel(v)' <=> (InChannel(v) \/ v = u)
    BY <2>1, <2>6, <2>7 DEF InChannel
  <2>11. OneResult'
    BY <2>2, <2>4, <2>8, <2>10 DEF Inv, OneResult
  <2>12. MainOrder'
    <3>1. ~ \A v \in User : upc[v] = "done"
      BY <2>2
    <3> QED  BY <2>2, <2>4, <3>1 DEF Inv, MainOrder
  <2> QED  BY <2>5, <2>9, <2>11, <2>12 DEF Inv
<1> QED  BY <1>2, <1>3, <1>4, <1>5, <1>6, <1>7, <1>8, <1>9 DEF RunUser

(* Every step of the collector. *)
LEMMA CollectorStep == Inv /\ Collector => Inv'
<1> SUFFICES ASSUME Inv, Collector PROVE Inv'
  OBVIOUS
<1>1. CASE EndCollect
  BY <1>1 DEF EndCollect, userVars, Inv, Types, OneEach, OneResult, InChannel, MainOrder
<1>2. CASE Collect
  <2>1. /\ collecting /\ resultChan # <<>> /\ resultChan' = Tail(resultChan)
        /\ UNCHANGED <<mpc, started, upc, closed, collecting>>
    BY <1>2 DEF Collect, userVars
  <2>2. resultChan \in Seq(Results)
    BY DEF Inv, Types
  <2>3. PICK u \in User : /\ u = resultChan[1].user
                         /\ counted' = [counted EXCEPT ![u] = @ + 1]
    <3>1. Head(resultChan) = resultChan[1] /\ Head(resultChan) \in Results
      BY <2>1, <2>2
    <3>2. Head(resultChan).user \in User
      BY <3>1 DEF Results
    <3> QED  BY <1>2, <3>1, <3>2 DEF Collect
  <2>4. ASSUME NEW n \in DOMAIN resultChan'
        PROVE  /\ n \in Nat \ {0} /\ n + 1 \in DOMAIN resultChan
               /\ resultChan'[n] = resultChan[n + 1]
    <3>1. n \in DOMAIN Tail(resultChan) /\ resultChan # <<>>
      BY <2>1, <2>4
    <3>2. /\ n \in Nat \ {0} /\ n + 1 \in DOMAIN resultChan
          /\ Tail(resultChan)[n] = resultChan[n + 1]
      BY ONLY <2>2, <3>1, TailElements
    <3> QED  BY <2>1, <3>2
  <2>5. 1 \in DOMAIN resultChan
    BY <2>1, <2>2
  <2>6. ASSUME NEW n \in DOMAIN resultChan, n # 1
        PROVE  \E m \in DOMAIN resultChan' : resultChan'[m] = resultChan[n]
    <3>1. n - 1 \in DOMAIN Tail(resultChan) /\ (n - 1) + 1 = n
      BY <2>1, <2>2, <2>6
    <3> QED  BY <2>1, <2>4, <3>1
  <2>7. Types'
    BY <2>1, <2>2, <2>3 DEF Inv, Types
  <2>8. OneEach'
    <3>1. ASSUME NEW m \in DOMAIN resultChan', NEW n \in DOMAIN resultChan',
                 resultChan'[m].user = resultChan'[n].user
          PROVE  m = n
      <4>1. m + 1 = n + 1
        BY <2>4, <3>1 DEF Inv, OneEach
      <4> QED  BY <2>4, <3>1, <4>1
    <3> QED  BY <3>1 DEF OneEach
  <2>9. InChannel(u) /\ ~ InChannel(u)'
    <3>1. InChannel(u)
      BY <2>3, <2>5 DEF InChannel
    <3>2. ASSUME NEW n \in DOMAIN resultChan' PROVE resultChan'[n].user # u
      <4>1. n + 1 # 1 /\ n + 1 \in DOMAIN resultChan /\ resultChan'[n] = resultChan[n + 1]
        BY <2>4, <3>2
      <4> QED  BY <2>3, <2>5, <4>1 DEF Inv, OneEach
    <3> QED  BY <3>1, <3>2 DEF InChannel
  <2>10. \A v \in User : v # u => (InChannel(v)' <=> InChannel(v))
    BY <2>3, <2>4, <2>6 DEF InChannel
  <2>11. /\ counted'[u] = counted[u] + 1
         /\ \A v \in User : v # u => counted'[v] = counted[v]
    BY <2>3 DEF Inv, Types
  <2>12. OneResult'
    BY <2>1, <2>9, <2>10, <2>11 DEF Inv, OneResult
  <2>13. MainOrder'
    BY <2>1 DEF Inv, MainOrder
  <2> QED  BY <2>7, <2>8, <2>12, <2>13 DEF Inv
<1> QED  BY <1>1, <1>2 DEF Collector

(* Every step of main. *)
LEMMA MainStep == Inv /\ Dispose => Inv'
<1> SUFFICES ASSUME Inv, Dispose PROVE Inv'
  OBVIOUS
<1> USE DEF userVars, statVars
<1>1. CASE StartUser
  <2>1. /\ mpc = "start" /\ started' = started + 1
        /\ upc' = [upc EXCEPT ![started + 1] = "dial"]
        /\ mpc' = IF started + 1 = Concurrency THEN "wait" ELSE "start"
        /\ UNCHANGED <<resultChan, closed, collecting, counted>>
    BY <1>1 DEF StartUser
  <2>2. started \in Nat /\ started + 1 \in User /\ started < Concurrency
    BY <2>1 DEF Inv, Types, MainOrder, User
  <2>3. upc[started + 1] = "off"
    BY <2>1, <2>2 DEF Inv, MainOrder
  <2>4. /\ upc' \in [User -> Labels] /\ upc'[started + 1] = "dial"
        /\ \A v \in User : v # started + 1 => upc'[v] = upc[v]
    BY <2>1, <2>2 DEF Inv, Types, Labels
  <2>5. Types' /\ OneEach'
    BY <2>1, <2>2, <2>4 DEF Inv, Types, OneEach
  <2>6. OneResult'
    BY <2>1, <2>2, <2>3, <2>4 DEF Inv, OneResult, InChannel
  <2>7. \A u \in User : u > started + 1 => u > started /\ u # started + 1
    BY <2>2 DEF User
  <2>8. MainOrder'
    BY <2>1, <2>2, <2>4, <2>7 DEF Inv, MainOrder
  <2> QED  BY <2>5, <2>6, <2>8 DEF Inv
<1>2. CASE WaitUsers \/ StopProgress \/ CloseResults \/ PrintReport
  BY <1>2 DEF WaitUsers, StopProgress, CloseResults, PrintReport, Inv, Types, OneEach, OneResult, InChannel, MainOrder
<1> QED  BY <1>1, <1>2 DEF Dispose

(* The inductive invariant holds in every reachable state. *)
LEMMA Invariance == Spec => []Inv
<1>1. ASSUME Inv, [Next]_vars PROVE Inv'
  <2>1. CASE (\E u \in User, k \in Request : Forward(u, k) \/ Acknowledge(u, k)) \/ UNCHANGED vars
    BY <1>1, <2>1 DEF Forward, Acknowledge, vars, userVars, statVars,
                      Inv, Types, OneEach, OneResult, InChannel, MainOrder
  <2> QED  BY <1>1, <2>1, UserStep, CollectorStep, MainStep DEF Next
<1> QED  BY <1>1, InitInv, PTL DEF Spec

(* However the users, the collector and main interleave, the report counts *)
(* the result of every user exactly once, and nobody sends on the closed   *)
(* channel.                                                                *)
THEOREM ReportIsComplete == Spec => []ReportComplete
<1>1. ASSUME Inv PROVE ReportComplete
  <2>1. closed => \A u \in User : upc[u] = "done"
    BY <1>1 DEF Inv, MainOrder
  <2>2. ASSUME mpc = "done", NEW u \in User PROVE counted[u] = 1
    <3>1. resultChan = <<>> /\ upc[u] = "done"
      BY <1>1, <2>2 DEF Inv, MainOrder
    <3> QED  BY <1>1, <3>1 DEF Inv, OneResult, InChannel
  <2> QED  BY <2>1, <2>2 DEF ReportComplete
<1> QED  BY <1>1, Invariance, PTL

-----------------------------------------------------------------------------
(* Sums over finite sets *)

(* The sum of the messages that the users of S have sent, as ReportHonest  *)
(* forms it: user by user, in the order in which CHOOSE picks them.        *)
SentBy(m, S) == MapThenSumSet(LAMBDA u : m[u].sent, S)

(* h gives the sum for every part of S, in whatever order it is formed. *)
Additive(h, m, S) ==
    /\ h \in [SUBSET S -> Int]
    /\ h[{}] = 0
    /\ \A T \in SUBSET S : \A u \in T : h[T] = m[u].sent + h[T \ {u}]

(* Every set of finite sets has one that contains no other of them: the    *)
(* form of induction that is used here.                                    *)
LEMMA SmallestSet ==
    ASSUME NEW S, IsFiniteSet(S), NEW W, W \subseteq SUBSET S, W # {}
    PROVE  \E T \in W : \A V \in W : V \subseteq T => V = T
<1>1. IsWellFoundedOn(StrictSubsetOrdering(S), SUBSET S)
  BY FS_StrictSubsetOrderingWellFounded, FS_FiniteSubsetsOfFinite
<1>2. PICK T \in W : \A V \in W : <<V, T>> \notin StrictSubsetOrdering(S)
  BY <1>1, WFMin
<1>3. ASSUME NEW V \in W, V \subseteq T PROVE V = T
  <2>1. <<V, T>> \in (SUBSET S) \X (SUBSET S) /\ <<V, T>>[1] = V /\ <<V, T>>[2] = T
    OBVIOUS
  <2> QED  BY <1>2, <1>3, <2>1 DEF StrictSubsetOrdering
<1> QED  BY <1>3

(* There is such a function: it grows with the set, user by user. *)
LEMMA AdditiveExists ==
    ASSUME NEW m, NEW S, IsFiniteSet(S), \A u \in S : m[u].sent \in Int
    PROVE  \E h : Additive(h, m, S)
<1> DEFINE W == {T \in SUBSET S : ~ \E h : Additive(h, m, T)}
<1> SUFFICES ASSUME W # {} PROVE FALSE
  <2>1. S \in SUBSET S
    OBVIOUS
  <2> QED  BY <2>1
<1>1. PICK T \in W : \A V \in W : V \subseteq T => V = T
  <2>1. W \subseteq SUBSET S
    OBVIOUS
  <2> HIDE DEF W
  <2> QED  BY <2>1, SmallestSet
<1>2. T # {}
  <2> DEFINE h == [V \in SUBSET {} |-> 0]
  <2>1. h \in [SUBSET {} -> Int] /\ h[{}] = 0
    OBVIOUS
  <2>2. Additive(h, m, {})
    BY <2>1 DEF Additive
  <2> QED  BY <1>1, <2>2
<1>3. PICK u \in T : TRUE
  BY <1>2
<1> DEFINE S1 == T \ {u}
<1>4. PICK g : Additive(g, m, S1)
  <2>1. S1 \in SUBSET S /\ S1 \subseteq T /\ S1 # T
    BY <1>1, <1>3
  <2>2. S1 \notin W
    <3> HIDE DEF W, S1
    <3> QED  BY <1>1, <2>1
  <2> QED  BY <2>1, <2>2
<1> HIDE DEF W
<1> DEFINE h == [V \in SUBSET T |-> IF u \in V THEN m[u].sent + g[V \ {u}] ELSE g[V]]
<1>5. g \in [SUBSET S1 -> Int] /\ g[{}] = 0
  BY <1>4 DEF Additive
<1>6. T \in SUBSET S /\ m[u].sent \in Int
  BY <1>1, <1>3 DEF W
<1>7. \A V \in SUBSET T : V \ {u} \in SUBSET S1 /\ (u \notin V => V \in SUBSET S1)
  OBVIOUS
<1>8. h \in [SUBSET T -> Int]
  BY <1>5, <1>6, <1>7
<1>9. h[{}] = 0
  BY <1>5
<1>10. ASSUME NEW V \in SUBSET T, NEW v \in V PROVE h[V] = m[v].sent + h[V \ {v}]
  <2>0. V \ {v} \in SUBSET T
    OBVIOUS
  <2>1. CASE v = u
    BY <2>0, <2>1
  <2>2. CASE v # u /\ u \notin V
    <3>1. g[V] = m[v].sent + g[V \ {v}]
      BY <1>4, <1>7, <2>2 DEF Additive
    <3> QED  BY <2>0, <2>2, <3>1
  <2>3. CASE v # u /\ u \in V
    <3>1. V \ {u} \in SUBSET S1 /\ v \in V \ {u}
      BY <2>3
    <3>2. g[V \ {u}] = m[v].sent + g[(V \ {u}) \ {v}]
      BY <1>4, <3>1 DEF Additive
    <3>3. (V \ {u}) \ {v} = (V \ {v}) \ {u} /\ u \in V \ {v}
      BY <2>3
    <3>4. h[V] = m[u].sent + g[V \ {u}] /\ h[V \ {v}] = m[u].sent + g[(V \ {v}) \ {u}]
      BY <2>0, <2>3, <3>3
    <3>5. m[v].sent \in Int /\ g[(V \ {v}) \ {u}] \in Int
      <4>1. (V \ {v}) \ {u} \in SUBSET S1
        OBVIOUS
      <4>2. v \in S
        BY <1>6
      <4> QED  BY <1>5, <4>1, <4>2
    <3>6. g[V \ {u}] = m[v].sent + g[(V \ {v}) \ {u}]
      BY <3>2, <3>3
    <3>7. h[V] = m[u].sent + (m[v].sent + g[(V \ {v}) \ {u}])
      BY <3>4, <3>6
    <3>8. h[V \ {v}] = m[u].sent + g[(V \ {v}) \ {u}]
      BY <3>4
    <3> DEFINE a == m[u].sent
               b == m[v].sent
               c == g[(V \ {v}) \ {u}]
    <3>9. a + (b + c) = b + (a + c)
      BY <1>6, <3>5
    <3> HIDE DEF h
    <3> QED  BY <3>7, <3>8, <3>9
  <2> QED  BY <2>1, <2>2, <2>3
<1>11. Additive(h, m, T)
  <2> HIDE DEF h
  <2> QED  BY <1>8, <1>9, <1>10 DEF Additive
<1> QED  BY <1>1, <1>11 DEF W

(* One step of the recursion of the sum. *)
Pick(T) == CHOOSE u \in T : TRUE
Unfolded(g, m, S) ==
    [T \in SUBSET S |-> IF T = {} THEN 0 ELSE m[Pick(T)].sent + g[T \ {Pick(T)}]]

(* An additive function tells the sum. *)
LEMMA SumIs ==
    ASSUME NEW m, NEW S, IsFiniteSet(S), NEW h, Additive(h, m, S)
    PROVE  SentBy(m, S) = h[S]
<1> DEFINE G == CHOOSE g : g = Unfolded(g, m, S)
<1>1. SentBy(m, S) = G[S]
  BY DEF SentBy, MapThenSumSet, MapThenFoldSet, Unfolded, Pick
<1>2. \A T : T # {} => Pick(T) \in T
  BY DEF Pick
<1>3. h = Unfolded(h, m, S)
  <2>1. h \in [SUBSET S -> Int] /\ h[{}] = 0
    BY DEF Additive
  <2>2. ASSUME NEW T \in SUBSET S
        PROVE  h[T] = IF T = {} THEN 0 ELSE m[Pick(T)].sent + h[T \ {Pick(T)}]
    BY <1>2, <2>1 DEF Additive
  <2>3. h = [T \in SUBSET S |-> h[T]]
    BY <2>1
  <2> QED  BY <2>2, <2>3 DEF Unfolded
<1>4. G = Unfolded(G, m, S)
  <2>1. \E g : g = Unfolded(g, m, S)
    BY <1>3
  <2> QED  BY <2>1
<1> HIDE DEF G
<1>5. \A T \in SUBSET S : G[T] = IF T = {} THEN 0 ELSE m[Pick(T)].sent + G[T \ {Pick(T)}]
  BY <1>4 DEF Unfolded
<1> DEFINE W == {T \in SUBSET S : G[T] # h[T]}
<1>6. W = {}
  <2> SUFFICES ASSUME W # {} PROVE FALSE
    OBVIOUS
  <2>1. PICK T \in W : \A V \in W : V \subseteq T => V = T
    <3>1. W \subseteq SUBSET S
      OBVIOUS
    <3> HIDE DEF W
    <3> QED  BY <3>1, SmallestSet
  <2>2. T # {}
    BY <1>5, <2>1 DEF Additive
  <2>3. Pick(T) \in T /\ T \ {Pick(T)} \in SUBSET S /\ T \ {Pick(T)} # T /\ T \ {Pick(T)} \subseteq T
    BY <1>2, <2>2
  <2>4. G[T \ {Pick(T)}] = h[T \ {Pick(T)}]
    BY <2>1, <2>3
  <2>5. G[T] = h[T]
    BY <1>5, <2>2, <2>3, <2>4 DEF Additive
  <2> QED  BY <2>1, <2>5
<1>7. S \in SUBSET S
  OBVIOUS
<1> QED  BY <1>1, <1>6, <1>7

(* The sum over one user more. *)
LEMMA SumAdd ==
    ASSUME NEW m, NEW S, IsFiniteSet(S), NEW u, u \notin S,
           \A v \in S \cup {u} : m[v].sent \in Int
    PROVE  SentBy(m, S \cup {u}) = SentBy(m, S) + m[u].sent
<1> DEFINE S1 == S \cup {u}
<1>1. IsFiniteSet(S1)
  BY FS_AddElement
<1>2. PICK h : Additive(h, m, S1)
  BY <1>1, AdditiveExists
<1> DEFINE g == [T \in SUBSET S |-> h[T]]
<1>3. \A T \in SUBSET S : T \in SUBSET S1 /\ g[T] = h[T]
  OBVIOUS
<1>4. Additive(g, m, S)
  <2>1. h \in [SUBSET S1 -> Int] /\ h[{}] = 0
    BY <1>2 DEF Additive
  <2>2. g \in [SUBSET S -> Int] /\ g[{}] = 0
    BY <1>3, <2>1
  <2>3. ASSUME NEW T \in SUBSET S, NEW v \in T PROVE g[T] = m[v].sent + g[T \ {v}]
    <3>1. T \in SUBSET S1 /\ T \ {v} \in SUBSET S
      BY <1>3
    <3>2. h[T] = m[v].sent + h[T \ {v}]
      BY <1>2, <3>1 DEF Additive
    <3> HIDE DEF g
    <3> QED  BY <1>3, <3>1, <3>2
  <2> HIDE DEF g
  <2> QED  BY <2>2, <2>3 DEF Additive
<1>5. SentBy(m, S1) = h[S1] /\ SentBy(m, S) = g[S]
  <2> HIDE DEF g
  <2> QED  BY <1>1, <1>2, <1>4, SumIs
<1>6. h[S1] = m[u].sent + h[S]
  <2>1. S1 \in SUBSET S1 /\ u \in S1 /\ S1 \ {u} = S
    OBVIOUS
  <2> HIDE DEF S1
  <2> QED  BY <1>2, <2>1 DEF Additive
<1>7. g[S] = h[S]
  BY <1>3
<1>8. h[S] \in Int /\ m[u].sent \in Int
  <2>1. S \in SUBSET S1 /\ u \in S1
    OBVIOUS
  <2> QED  BY <1>2, <2>1 DEF Additive
<1> QED  BY <1>5, <1>6, <1>7, <1>8

(* The sum does not change with users outside of the set; the sum over     *)
(* nobody is 0.                                                            *)
LEMMA SumSame ==
    ASSUME NEW m, NEW n, NEW S, IsFiniteSet(S),
           \A u \in S : m[u].sent \in Int /\ n[u].sent = m[u].sent
    PROVE  SentBy(n, S) = SentBy(m, S)
<1>1. PICK h : Additive(h, m, S)
  BY AdditiveExists
<1>2. Additive(h, n, S)
  BY <1>1 DEF Additive
<1> QED  BY <1>1, <1>2, SumIs

LEMMA SumNone == ASSUME NEW m PROVE SentBy(m, {}) = 0
<1>1. IsFiniteSet({})
  BY FS_EmptySet
<1>2. PICK h : Additive(h, m, {})
  BY <1>1, AdditiveExists
<1> QED  BY <1>1, <1>2, SumIs DEF Additive

-----------------------------------------------------------------------------
(* The report *)

CountedUsers == {u \in User : counted[u] = 1}
Winners == {u \in CountedUsers : Success(u)}

Steps == {"none", "sent", "forwarded", "acknowledged"}

(* The rest of the types. *)
Environment ==
    /\ attempt \in [User -> 0..(DialAttempts - 1)]
    /\ stage \in [User -> [Request -> Steps]]
    /\ inbox \in [User -> Seq(Packets)]
    /\ closed \in BOOLEAN /\ collecting \in BOOLEAN

(* What a user has sent and received, by where it is. *)
Round(u) ==
    /\ messages[u].recv <= messages[u].sent
    /\ upc[u] \in {"off", "dial", "bind", "binding"} => messages[u].sent = 0
    /\ upc[u] = "send" => messages[u].sent < TotalNumber
    /\ upc[u] = "receive" => messages[u].recv < messages[u].sent

Rounds ==
    /\ messages \in [User -> [sent : 0..TotalNumber, recv : 0..TotalNumber]]
    /\ \A u \in User : Round(u)

(* The totals, over the users whose result has been counted. *)
TotalsType ==
    totals \in [success : Nat, failure : Nat, sent : Nat, recv : Nat,
                latency : Nat, min : Nat, max : Nat]

Requests ==
    /\ totals.success = TotalNumber * Cardinality(Winners)
    /\ totals.success + totals.failure <= TotalNumber * Cardinality(CountedUsers)
    /\ totals.failure = 0 <=> \A u \in CountedUsers : Success(u)

Messages ==
    /\ totals.sent = SentBy(messages, CountedUsers)
    /\ totals.recv <= totals.sent

Latencies ==
    /\ Cardinality(Winners) * totals.min <= totals.latency
    /\ totals.latency <= Cardinality(Winners) * totals.max

Totals == TotalsType /\ Requests /\ Messages /\ Latencies

ReportInv == Environment /\ Rounds /\ Totals

-----------------------------------------------------------------------------
LEMMA UserFinite == IsFiniteSet(User) /\ Cardinality(User) = Concurrency
BY FS_Interval DEF User

LEMMA CountedFinite ==
    /\ IsFiniteSet(CountedUsers) /\ IsFiniteSet(Winners)
    /\ Cardinality(CountedUsers) \in Nat /\ Cardinality(Winners) \in Nat
<1>1. CountedUsers \in SUBSET User /\ Winners \in SUBSET User
  BY DEF CountedUsers, Winners
<1> QED  BY <1>1, UserFinite, FS_Subset, FS_CardinalityType

(* The initial state satisfies it. *)
LEMMA InitReport == Init => ReportInv
<1> SUFFICES ASSUME Init PROVE ReportInv
  OBVIOUS
<1>1. Environment
  <2>1. attempt \in [User -> 0..(DialAttempts - 1)]
    BY DEF Init
  <2>2. stage \in [User -> [Request -> Steps]]
    BY DEF Init, Steps
  <2>3. inbox = [u \in User |-> <<>>] /\ <<>> \in Seq(Packets)
    BY DEF Init
  <2>4. closed \in BOOLEAN /\ collecting \in BOOLEAN
    BY DEF Init
  <2> QED  BY <2>1, <2>2, <2>3, <2>4 DEF Environment
<1>2. Rounds
  BY DEF Init, Rounds, Round
<1>3. CountedUsers = {} /\ Winners = {}
  BY DEF Init, CountedUsers, Winners
<1>4. totals = NewStatistics
  BY DEF Init
<1>5. TotalsType
  BY <1>4 DEF TotalsType, NewStatistics
<1>6. Cardinality(CountedUsers) = 0 /\ Cardinality(Winners) = 0
  BY <1>3, FS_EmptySet
<1>7. Requests
  BY <1>3, <1>4, <1>6 DEF Requests, NewStatistics
<1>8. Messages
  BY <1>3, <1>4, SumNone DEF Messages, NewStatistics
<1>9. Latencies
  BY <1>4, <1>6 DEF Latencies, NewStatistics
<1> QED  BY <1>1, <1>2, <1>5, <1>7, <1>8, <1>9 DEF ReportInv, Totals

(* What the steps do to the types: a packet is delivered, one is read. *)
LEMMA Delivered ==
    ASSUME Environment, NEW kind \in {"MessageBroadcast", "ChatResponse"},
           NEW u \in User, NEW to \in User, Deliver(kind, u, to)
    PROVE  inbox' \in [User -> Seq(Packets)]
<1> DEFINE p == [kind |-> kind, from |-> u, to |-> to]
<1>1. inbox \in [User -> Seq(Packets)]
  BY DEF Environment
<1>2. p \in Packets
  BY DEF Packets
<1>3. Append(inbox[to], p) \in Seq(Packets)
  <2> HIDE DEF p
  <2> QED  BY <1>1, <1>2
<1>4. CASE inbox' = [inbox EXCEPT ![to] = Append(@, p)]
  <2> HIDE DEF p
  <2> QED  BY <1>1, <1>3, <1>4
<1>5. CASE inbox' = inbox
  BY <1>1, <1>5
<1> QED  BY <1>4, <1>5 DEF Deliver

LEMMA Read ==
    ASSUME Environment, NEW u \in User, inbox[u] # <<>>,
           inbox' = [inbox EXCEPT ![u] = Tail(@)]
    PROVE  inbox' \in [User -> Seq(Packets)]
<1>1. inbox \in [User -> Seq(Packets)]
  BY DEF Environment
<1>2. Tail(inbox[u]) \in Seq(Packets)
  BY <1>1
<1> QED  BY <1>1, <1>2

LEMMA Staged ==
    ASSUME Environment, NEW u \in User, NEW k, NEW step \in Steps,
           stage' = [stage EXCEPT ![u][k] = step]
    PROVE  stage' \in [User -> [Request -> Steps]]
<1>1. stage \in [User -> [Request -> Steps]]
  BY DEF Environment
<1>2. [stage[u] EXCEPT ![k] = step] \in [Request -> Steps]
  BY <1>1
<1> QED  BY <1>1, <1>2

(* The steps of the gateway and the chat service. *)
LEMMA ForwardReport ==
    ASSUME Environment, NEW u \in User, NEW k \in Request, Forward(u, k) \/ Acknowledge(u, k)
    PROVE  Environment' /\ UNCHANGED <<upc, messages, counted, totals>>
<1>1. Receiver(u, k) \in User
  BY DEF Receiver, User
<1>2. UNCHANGED <<upc, attempt, messages, closed, collecting, counted, totals>>
  BY DEF Forward, Acknowledge, userVars, statVars
<1>3. inbox' \in [User -> Seq(Packets)]
  BY <1>1, Delivered DEF Forward, Acknowledge
<1>4. stage' \in [User -> [Request -> Steps]]
  BY Staged DEF Forward, Acknowledge, Steps
<1> QED  BY <1>2, <1>3, <1>4 DEF Environment

(* The steps of a user: of its own messages only, and not of a result that *)
(* has been counted.                                                       *)
LEMMA UserEnvironment ==
    ASSUME Types, Environment, NEW u \in User, RunUser(u)
    PROVE  Environment' /\ UNCHANGED <<counted, totals>>
<1> USE DEF statVars, envVars, OnlyUser
<1>1. UNCHANGED <<closed, collecting, counted, totals>>
  BY DEF RunUser, NewGameChatClient, TryAgain, SendBind, ReadBind, ReadError,
         SendMessage, ReceiveMessage, AddResult, Done
<1>2. attempt' \in [User -> 0..(DialAttempts - 1)]
  <2>1. attempt \in [User -> 0..(DialAttempts - 1)]
    BY DEF Environment
  <2>2. CASE TryAgain(u)
    BY <2>1, <2>2 DEF TryAgain
  <2>3. CASE NewGameChatClient(u)
    BY <2>1, <2>3 DEF NewGameChatClient
  <2>4. CASE UNCHANGED attempt
    BY <2>1, <2>4
  <2> QED  BY <2>2, <2>3, <2>4 DEF RunUser, SendBind, ReadBind, ReadError,
               SendMessage, ReceiveMessage, AddResult, Done
<1>3. stage' \in [User -> [Request -> Steps]]
  <2>1. stage \in [User -> [Request -> Steps]]
    BY DEF Environment
  <2>2. UNCHANGED stage \/ \E k : stage' = [stage EXCEPT ![u][k] = "sent"]
    BY DEF RunUser, NewGameChatClient, TryAgain, SendBind, ReadBind, ReadError,
           SendMessage, ReceiveMessage, AddResult, Done
  <2> QED  BY <2>1, <2>2, Staged DEF Steps
<1>4. inbox' \in [User -> Seq(Packets)]
  <2>1. inbox \in [User -> Seq(Packets)]
    BY DEF Environment
  <2>2. CASE ReadBind(u) \/ ReceiveMessage(u)
    BY <2>2, Read DEF ReadBind, ReceiveMessage
  <2>3. CASE inbox' = [inbox EXCEPT ![u] = <<>>]
    <3>1. <<>> \in Seq(Packets)
      OBVIOUS
    <3> QED  BY <2>1, <2>3, <3>1
  <2>4. CASE UNCHANGED inbox
    BY <2>1, <2>4
  <2> QED  BY <2>2, <2>3, <2>4 DEF RunUser, NewGameChatClient, TryAgain, SendBind,
               ReadError, SendMessage, AddResult, Done
<1> QED  BY <1>1, <1>2, <1>3, <1>4 DEF Environment

LEMMA UserRounds ==
    ASSUME Types, Rounds, NEW u \in User, RunUser(u)
    PROVE  /\ Rounds'
           /\ \A v \in User : v # u => messages'[v] = messages[v]
           /\ upc[u] \in {"close", "done"} => UNCHANGED messages
<1> USE DEF envVars, Goto
<1>1. /\ upc \in [User -> Labels] /\ Round(u)
      /\ messages \in [User -> [sent : 0..TotalNumber, recv : 0..TotalNumber]]
      /\ messages[u].sent \in 0..TotalNumber /\ messages[u].recv \in 0..TotalNumber
  BY DEF Types, Rounds
<1>2. \A v \in User : v # u => upc'[v] = upc[v] /\ messages'[v] = messages[v]
  BY <1>1 DEF RunUser, NewGameChatClient, TryAgain, SendBind, ReadBind, ReadError,
              SendMessage, ReceiveMessage, AddResult, Done
<1>3. \A v \in User : v # u => Round(v)'
  BY <1>2 DEF Rounds, Round
<1>4. CASE UNCHANGED messages
  <2>1. Round(u)'
    <3>1. CASE UNCHANGED upc
      BY <1>1, <1>4, <3>1 DEF Round
    <3>2. CASE NewGameChatClient(u) \/ TryAgain(u)
      BY <1>1, <1>4, <3>2 DEF Round, NewGameChatClient, TryAgain
    <3>3. CASE SendBind(u) \/ ReadBind(u)
      BY <1>1, <1>4, <3>3 DEF Round, SendBind, ReadBind
    <3>4. CASE ReadError(u) \/ AddResult(u) \/ Done(u)
      BY <1>1, <1>4, <3>4 DEF Round, ReadError, AddResult, Done
    <3>5. CASE SendMessage(u)
      BY <1>1, <1>4, <3>5 DEF Round, SendMessage
    <3>6. CASE ReceiveMessage(u)
      BY <1>1, <1>4, <3>1, <3>6 DEF Round, ReceiveMessage
    <3> QED  BY <3>2, <3>3, <3>4, <3>5, <3>6 DEF RunUser
  <2> QED  BY <1>1, <1>2, <1>3, <1>4, <2>1 DEF Rounds
<1>5. CASE /\ upc[u] = "send" /\ upc'[u] = "receive"
           /\ messages' = [messages EXCEPT ![u].sent = @ + 1]
  <2>1. /\ messages[u].sent + 1 \in 0..TotalNumber
        /\ messages'[u].sent = messages[u].sent + 1 /\ messages'[u].recv = messages[u].recv
    BY <1>1, <1>5 DEF Round
  <2>2. messages' \in [User -> [sent : 0..TotalNumber, recv : 0..TotalNumber]]
    BY <1>1, <1>5, <2>1
  <2>3. Round(u)'
    BY <1>1, <1>5, <2>1 DEF Round
  <2> QED  BY <1>2, <1>3, <1>5, <2>2, <2>3 DEF Rounds
<1>6. CASE /\ upc[u] = "receive"
           /\ upc'[u] = IF messages[u].sent < TotalNumber THEN "send" ELSE "result"
           /\ messages' = [messages EXCEPT ![u].recv = @ + 1]
  <2>1. /\ messages[u].recv + 1 \in 0..TotalNumber
        /\ messages'[u].recv = messages[u].recv + 1 /\ messages'[u].sent = messages[u].sent
    BY <1>1, <1>6 DEF Round
  <2>2. messages' \in [User -> [sent : 0..TotalNumber, recv : 0..TotalNumber]]
    BY <1>1, <1>6, <2>1
  <2>3. Round(u)'
    BY <1>1, <1>6, <2>1 DEF Round
  <2> QED  BY <1>2, <1>3, <1>6, <2>2, <2>3 DEF Rounds
<1>7. UNCHANGED messages
      \/ /\ upc[u] = "send" /\ upc'[u] = "receive"
         /\ messages' = [messages EXCEPT ![u].sent = @ + 1]
      \/ /\ upc[u] = "receive"
         /\ upc'[u] = IF messages[u].sent < TotalNumber THEN "send" ELSE "result"
         /\ messages' = [messages EXCEPT ![u].recv = @ + 1]
  <2>1. CASE SendMessage(u)
    BY <1>1, <2>1 DEF SendMessage
  <2>2. CASE ReceiveMessage(u)
    BY <1>1, <2>2 DEF ReceiveMessage
  <2> QED  BY <2>1, <2>2 DEF RunUser, NewGameChatClient, TryAgain, SendBind, ReadBind,
               ReadError, AddResult, Done
<1> QED  BY <1>4, <1>5, <1>6, <1>7

(* What is counted stays as it was counted. *)
LEMMA Frozen ==
    ASSUME Rounds, Totals, UNCHANGED <<counted, totals>>,
           \A u \in CountedUsers : messages'[u] = messages[u]
    PROVE  Totals'
<1>1. CountedUsers' = CountedUsers
  BY DEF CountedUsers
<1>2. \A u \in CountedUsers : Success(u)' <=> Success(u)
  BY DEF Success
<1>3. Winners' = Winners
  BY <1>1, <1>2 DEF Winners
<1>4. SentBy(messages', CountedUsers) = SentBy(messages, CountedUsers)
  <2>1. \A u \in CountedUsers :
            messages[u].sent \in Int /\ messages'[u].sent = messages[u].sent
    BY DEF Rounds, CountedUsers
  <2> QED  BY <2>1, CountedFinite, SumSame
<1>5. TotalsType'
  BY DEF Totals, TotalsType
<1>6. Requests'
  BY <1>1, <1>2, <1>3 DEF Totals, Requests
<1>7. Messages'
  BY <1>1, <1>4 DEF Totals, Messages
<1>8. Latencies'
  BY <1>3 DEF Totals, Latencies
<1> QED  BY <1>5, <1>6, <1>7, <1>8 DEF Totals

(* A product grows with its factors. *)
LEMMA Products ==
    ASSUME NEW n \in Nat, NEW a \in Nat, NEW b \in Nat, a <= b
    PROVE  /\ n * a <= n * b /\ n * a \in Nat /\ n * b \in Nat
           /\ (n + 1) * a = n * a + a /\ (n + 1) * b = n * b + b
<1>1. b - a \in Nat /\ n * b = n * a + n * (b - a)
  OBVIOUS
<1>2. n * (b - a) \in Nat /\ n * a \in Nat /\ n * b \in Nat
  BY <1>1
<1>3. (n + 1) * a = n * a + a /\ (n + 1) * b = n * b + b
  OBVIOUS
<1> QED  BY <1>1, <1>2, <1>3

(* The numbers of the next result. *)
LEMMA NextResult ==
    ASSUME Inv, Rounds, Collect
    PROVE  \E u \in User, d \in 1..MaxDuration :
               /\ counted[u] = 0 /\ counted' = [counted EXCEPT ![u] = @ + 1]
               /\ totals' = IF Success(u) THEN AddSuccess(u, d) ELSE AddFailure(u)
               /\ UNCHANGED <<upc, messages, attempt, stage, inbox, closed, collecting>>
<1>1. resultChan \in Seq(Results) /\ resultChan # <<>>
  BY DEF Inv, Types, Collect
<1>2. Head(resultChan) = resultChan[1] /\ 1 \in DOMAIN resultChan /\ resultChan[1] \in Results
  BY <1>1
<1> DEFINE u == resultChan[1].user
           d == resultChan[1].duration
<1>3. u \in User /\ d \in 1..MaxDuration
  BY <1>2 DEF Results
<1>4. counted[u] = 0
  BY <1>2, <1>3 DEF Inv, OneResult, InChannel
<1>5. /\ counted' = [counted EXCEPT ![u] = @ + 1]
      /\ totals' = IF Success(u) THEN AddSuccess(u, d) ELSE AddFailure(u)
      /\ UNCHANGED <<upc, messages, attempt, stage, inbox, closed, collecting>>
  BY <1>2 DEF Collect, userVars, envVars
<1> QED  BY <1>3, <1>4, <1>5

(* The sets grow by the user of the result. *)
LEMMA OneCountedMore ==
    ASSUME Types, NEW u \in User, counted[u] = 0,
           counted' = [counted EXCEPT ![u] = @ + 1], UNCHANGED messages
    PROVE  /\ u \notin CountedUsers /\ CountedUsers' = CountedUsers \cup {u}
           /\ Winners' = IF Success(u) THEN Winners \cup {u} ELSE Winners
           /\ \A v \in User : Success(v)' <=> Success(v)
           /\ Cardinality(CountedUsers') = Cardinality(CountedUsers) + 1
           /\ Cardinality(Winners') =
                  IF Success(u) THEN Cardinality(Winners) + 1 ELSE Cardinality(Winners)
<1>1. counted'[u] = 1 /\ \A v \in User : v # u => counted'[v] = counted[v]
  BY DEF Types
<1>2. u \notin CountedUsers /\ u \notin Winners
  BY DEF CountedUsers, Winners
<1>3. CountedUsers' = CountedUsers \cup {u}
  BY <1>1 DEF CountedUsers
<1>4. \A v : Success(v)' <=> Success(v)
  BY DEF Success
<1>5. Winners' = IF Success(u) THEN Winners \cup {u} ELSE Winners
  BY <1>3, <1>4 DEF Winners
<1>6. Cardinality(CountedUsers') = Cardinality(CountedUsers) + 1
  BY <1>2, <1>3, CountedFinite, FS_AddElement
<1>7. Cardinality(Winners \cup {u}) = Cardinality(Winners) + 1
  BY <1>2, CountedFinite, FS_AddElement
<1> QED  BY <1>2, <1>3, <1>4, <1>5, <1>6, <1>7

(* What a step of the collector adds to the totals. *)
LEMMA CollectTotals ==
    ASSUME Inv, Rounds, Totals, Collect
    PROVE  Totals'
<1>1. PICK u \in User, d \in 1..MaxDuration :
          /\ counted[u] = 0 /\ counted' = [counted EXCEPT ![u] = @ + 1]
          /\ totals' = IF Success(u) THEN AddSuccess(u, d) ELSE AddFailure(u)
          /\ UNCHANGED <<upc, messages, attempt, stage, inbox, closed, collecting>>
  BY NextResult
<1> DEFINE C == Cardinality(CountedUsers)
           W == Cardinality(Winners)
           s == messages[u].sent
           r == messages[u].recv
<1>2. /\ u \notin CountedUsers /\ CountedUsers' = CountedUsers \cup {u}
      /\ Winners' = IF Success(u) THEN Winners \cup {u} ELSE Winners
      /\ \A v \in User : Success(v)' <=> Success(v)
      /\ Cardinality(CountedUsers') = C + 1
      /\ Cardinality(Winners') = IF Success(u) THEN W + 1 ELSE W
  BY <1>1, OneCountedMore DEF Inv
<1>3. /\ s \in Nat /\ r \in Nat /\ r <= s /\ s <= TotalNumber
      /\ Success(u) <=> r = TotalNumber
  BY DEF Rounds, Round, Success
<1>4. C \in Nat /\ W \in Nat /\ d \in Nat /\ TotalNumber \in Nat \ {0}
  BY CountedFinite
<1>5. /\ totals.success \in Nat /\ totals.failure \in Nat /\ totals.sent \in Nat
      /\ totals.recv \in Nat /\ totals.latency \in Nat /\ totals.min \in Nat /\ totals.max \in Nat
  BY DEF Totals, TotalsType
<1>6. Requests /\ Messages /\ Latencies
  BY DEF Totals
<1>7. CountedUsers \subseteq User
  BY DEF CountedUsers
<1>8. TotalNumber * (C + 1) = TotalNumber * C + TotalNumber /\ TotalNumber * C \in Nat
  BY <1>4
<1>9. Messages' \/ ~ (totals'.sent = totals.sent + s /\ totals'.recv = totals.recv + r)
  <2> SUFFICES ASSUME totals'.sent = totals.sent + s, totals'.recv = totals.recv + r
               PROVE  Messages'
    OBVIOUS
  <2>1. \A v \in CountedUsers \cup {u} : messages[v].sent \in Int
    BY <1>7 DEF Rounds
  <2>2. SentBy(messages, CountedUsers \cup {u}) = SentBy(messages, CountedUsers) + s
    BY <1>2, <2>1, CountedFinite, SumAdd
  <2>3. messages' = messages
    BY <1>1
  <2>4. SentBy(messages', CountedUsers') = SentBy(messages, CountedUsers) + s
    BY <1>2, <2>2, <2>3
  <2>5. totals'.recv <= totals'.sent
    BY <1>3, <1>5, <1>6 DEF Messages
  <2> QED  BY <1>6, <2>4, <2>5 DEF Messages
<1>10. CASE Success(u)
  <2>1. totals' = AddSuccess(u, d)
    BY <1>1, <1>10
  <2>2. /\ totals'.success = totals.success + TotalNumber /\ totals'.failure = totals.failure
        /\ totals'.sent = totals.sent + s /\ totals'.recv = totals.recv + r
        /\ totals'.latency = totals.latency + d
        /\ totals'.min = IF d < totals.min THEN d ELSE totals.min
        /\ totals'.max = IF d > totals.max THEN d ELSE totals.max
    BY <1>3, <1>10, <2>1 DEF AddSuccess
  <2>3. TotalsType'
    BY <1>3, <1>4, <1>5, <2>1 DEF TotalsType, AddSuccess
  <2>4. Requests'
    <3>1. TotalNumber * (W + 1) = TotalNumber * W + TotalNumber /\ TotalNumber * W \in Nat
      BY <1>4
    <3>2. totals'.success = TotalNumber * Cardinality(Winners')
      BY <1>2, <1>6, <1>10, <2>2, <3>1 DEF Requests
    <3>3. totals'.success + totals'.failure <= TotalNumber * Cardinality(CountedUsers')
      BY <1>2, <1>4, <1>5, <1>6, <1>8, <2>2 DEF Requests
    <3>4. (\A v \in CountedUsers' : Success(v)') <=> \A v \in CountedUsers : Success(v)
      BY <1>2, <1>7, <1>10
    <3>5. totals'.failure = 0 <=> \A v \in CountedUsers' : Success(v)'
      BY <1>6, <2>2, <3>4 DEF Requests
    <3> QED  BY <3>2, <3>3, <3>5 DEF Requests
  <2>5. Latencies'
    <3>1. Cardinality(Winners') = W + 1
      BY <1>2, <1>10
    <3> DEFINE mn == totals'.min
               mx == totals'.max
    <3>2. mn \in Nat /\ mx \in Nat /\ mn <= totals.min /\ mn <= d /\ totals.max <= mx /\ d <= mx
      BY <1>4, <1>5, <2>2
    <3>3. W * mn <= W * totals.min /\ W * totals.max <= W * mx
      BY <1>4, <1>5, <3>2, Products
    <3>4. (W + 1) * mn = W * mn + mn /\ (W + 1) * mx = W * mx + mx
      BY <1>4, <1>5, <3>2, Products
    <3>5. /\ W * mn \in Nat /\ W * mx \in Nat
          /\ W * totals.min \in Nat /\ W * totals.max \in Nat
      BY <1>4, <1>5, <3>2
    <3>6. W * totals.min <= totals.latency /\ totals.latency <= W * totals.max
      BY <1>6 DEF Latencies
    <3>7. totals'.latency = totals.latency + d
      BY <2>2
    <3> HIDE DEF mn, mx, W
    <3>8. W * mn + mn <= totals.latency + d /\ totals.latency + d <= W * mx + mx
      BY <1>4, <1>5, <3>2, <3>3, <3>5, <3>6
    <3>9. (W + 1) * mn <= totals'.latency /\ totals'.latency <= (W + 1) * mx
      BY <3>4, <3>7, <3>8
    <3> QED  BY <3>1, <3>9 DEF Latencies, mn, mx
  <2> QED  BY <1>9, <2>2, <2>3, <2>4, <2>5 DEF Totals
<1>11. CASE ~ Success(u)
  <2> DEFINE f == IF s = TotalNumber THEN TotalNumber ELSE TotalNumber - s
  <2>1. totals' = AddFailure(u)
    BY <1>1, <1>11
  <2>2. f \in Nat /\ 0 < f /\ f <= TotalNumber
    BY <1>3
  <2>3. /\ totals'.success = totals.success /\ totals'.failure = totals.failure + f
        /\ totals'.sent = totals.sent + s /\ totals'.recv = totals.recv + r
        /\ totals'.latency = totals.latency
        /\ totals'.min = totals.min /\ totals'.max = totals.max
    BY <2>1 DEF AddFailure, Totals, TotalsType
  <2>4. TotalsType'
    <3>1. AddFailure(u) = [totals EXCEPT !.failure = @ + f, !.sent = @ + s, !.recv = @ + r]
      BY DEF AddFailure
    <3>2. totals.failure + f \in Nat /\ totals.sent + s \in Nat /\ totals.recv + r \in Nat
      BY <1>3, <1>5, <2>2
    <3> HIDE DEF f, s, r
    <3> QED  BY <2>1, <3>1, <3>2 DEF Totals, TotalsType
  <2> HIDE DEF f
  <2>5. Requests'
    <3>1. totals'.success = TotalNumber * Cardinality(Winners')
      BY <1>2, <1>6, <1>11, <2>3 DEF Requests
    <3>2. totals'.success + totals'.failure <= TotalNumber * Cardinality(CountedUsers')
      BY <1>2, <1>4, <1>5, <1>6, <1>8, <2>2, <2>3 DEF Requests
    <3>3. ~ \A v \in CountedUsers' : Success(v)'
      BY <1>2, <1>11
    <3>4. totals'.failure # 0
      BY <1>5, <2>2, <2>3
    <3> QED  BY <3>1, <3>2, <3>3, <3>4 DEF Requests
  <2>6. Latencies'
    BY <1>2, <1>6, <1>11, <2>3 DEF Latencies
  <2> QED  BY <1>9, <2>3, <2>4, <2>5, <2>6 DEF Totals
<1> QED  BY <1>10, <1>11

(* Every step keeps the report right. *)
LEMMA ReportStep ==
    ASSUME Inv, ReportInv, [Next]_vars
    PROVE  ReportInv'
<1>1. Types /\ OneResult /\ Environment /\ Rounds /\ Totals
  BY DEF Inv, ReportInv
<1>2. ASSUME UNCHANGED <<upc, messages, counted, totals>> PROVE Rounds' /\ Totals'
  <2>1. Rounds'
    BY <1>1, <1>2 DEF Rounds, Round
  <2>2. Totals'
    BY <1>1, <1>2, Frozen
  <2> QED  BY <2>1, <2>2
<1>3. ASSUME NEW u \in User, RunUser(u) PROVE ReportInv'
  <2>1. Environment' /\ UNCHANGED <<counted, totals>>
    BY <1>1, <1>3, UserEnvironment
  <2>2. /\ Rounds'
        /\ \A v \in User : v # u => messages'[v] = messages[v]
        /\ upc[u] \in {"close", "done"} => UNCHANGED messages
    BY <1>1, <1>3, UserRounds
  <2>3. \A v \in CountedUsers : messages'[v] = messages[v]
    BY <1>1, <2>2 DEF OneResult, CountedUsers
  <2>4. Totals'
    BY <1>1, <2>1, <2>3, Frozen
  <2> QED  BY <2>1, <2>2, <2>4 DEF ReportInv
<1>4. CASE Dispose
  <2>1. Environment' /\ UNCHANGED <<messages, counted, totals>>
    BY <1>1, <1>4 DEF Dispose, StartUser, WaitUsers, StopProgress, CloseResults, PrintReport,
                      userVars, envVars, statVars, Environment
  <2>2. Totals'
    BY <1>1, <2>1, Frozen
  <2>3. CASE StartUser
    <3>1. /\ upc \in [User -> Labels] /\ started + 1 \in User /\ upc[started + 1] = "off"
          /\ upc' = [upc EXCEPT ![started + 1] = "dial"]
      BY <2>3 DEF StartUser, Inv, Types, MainOrder, User
    <3>2. Rounds'
      BY <1>1, <2>1, <3>1 DEF Rounds, Round
    <3> QED  BY <2>1, <2>2, <3>2 DEF ReportInv
  <2>4. CASE UNCHANGED upc
    BY <1>2, <2>1, <2>4 DEF ReportInv
  <2> QED  BY <1>4, <2>3, <2>4 DEF Dispose, WaitUsers, StopProgress, CloseResults,
               PrintReport, userVars
<1>5. CASE Collect
  <2>1. Totals'
    BY <1>1, <1>5, CollectTotals DEF Inv
  <2>2. UNCHANGED <<upc, messages, attempt, stage, inbox, closed, collecting>>
    BY <1>5 DEF Collect, userVars, envVars
  <2>3. Environment' /\ Rounds'
    BY <1>1, <2>2 DEF Environment, Rounds, Round
  <2> QED  BY <2>1, <2>3 DEF ReportInv
<1>6. CASE EndCollect
  <2>1. UNCHANGED <<upc, messages, counted, totals, attempt, stage, inbox, closed>>
        /\ collecting' = FALSE
    BY <1>6 DEF EndCollect, userVars, envVars
  <2>2. Environment'
    BY <1>1, <2>1 DEF Environment
  <2> QED  BY <1>2, <2>1, <2>2 DEF ReportInv
<1>7. ASSUME NEW u \in User, NEW k \in Request, Forward(u, k) \/ Acknowledge(u, k)
      PROVE  ReportInv'
  BY <1>1, <1>2, <1>7, ForwardReport DEF ReportInv
<1>8. CASE UNCHANGED vars
  <2>1. Environment'
    BY <1>1, <1>8 DEF vars, userVars, envVars, statVars, Environment
  <2> QED  BY <1>2, <1>8, <2>1 DEF vars, userVars, envVars, statVars, ReportInv
<1> QED  BY <1>3, <1>4, <1>5, <1>6, <1>7, <1>8 DEF Next, Collector

LEMMA ReportInvariance == Spec => [](Inv /\ ReportInv)
<1>1. Init => ReportInv
  BY InitReport
<1>2. Inv /\ ReportInv /\ [Next]_vars => ReportInv'
  BY ReportStep
<1> QED  BY <1>1, <1>2, Invariance, PTL DEF Spec

(* The channel holds no more than one result of each user. *)
LEMMA FewResults ==
    ASSUME Types, OneEach
    PROVE  Len(resultChan) <= Concurrency
<1> DEFINE n == Len(resultChan)
           f == [i \in 1..n |-> resultChan[i].user]
<1>1. resultChan \in Seq(Results) /\ n \in Nat /\ DOMAIN resultChan = 1..n
  BY DEF Types
<1>2. \A i \in 1..n : resultChan[i].user \in User
  <2>1. \A i \in 1..n : resultChan[i] \in Results
    BY <1>1, ElementIn
  <2> QED  BY <2>1 DEF Results
<1>3. f \in [1..n -> User]
  BY <1>2
<1>4. IsFiniteSet(1..n) /\ Cardinality(1..n) = n
  BY <1>1, FS_Interval
<1>5. ASSUME n > Concurrency PROVE FALSE
  <2>1. \E i, j \in 1..n : i # j /\ f[i] = f[j]
    <3> HIDE DEF f, n
    <3> QED  BY <1>1, <1>3, <1>4, <1>5, UserFinite, FS_PigeonHole
  <2> QED  BY <1>1, <2>1 DEF OneEach
<1> QED  BY <1>1, <1>5

(* The states have the types of the model; in particular resultChan never  *)
(* holds more than its capacity, so that no AddResult ever waits.          *)
THEOREM TypeCorrect == Spec => []TypeOK
<1>1. ASSUME Inv, ReportInv PROVE TypeOK
  <2>1. Types /\ OneEach /\ Environment /\ Rounds /\ TotalsType
    BY <1>1 DEF Inv, ReportInv, Totals
  <2>2. Len(resultChan) <= 10 * Concurrency
    <3>1. Len(resultChan) \in Nat /\ Len(resultChan) <= Concurrency
      BY <2>1, FewResults DEF Types
    <3> QED  BY <3>1
  <2>3. /\ resultChan \in Seq([user : User, duration : 1..MaxDuration])
        /\ upc \in [User -> {"off", "dial", "bind", "binding", "send", "receive",
                             "result", "close", "done"}]
    BY <2>1 DEF Types, Results, Labels
  <2> QED  BY <2>1, <2>2, <2>3 DEF TypeOK, Types, Environment, Steps, Rounds, TotalsType
<1> QED  BY <1>1, ReportInvariance, PTL

(* The report says that no request failed exactly when every session went  *)
(* through to its end, and its numbers of requests and of messages are     *)
(* those of the users (AddResult and Print of statistics.go).              *)
THEOREM ReportIsHonest == Spec => []ReportHonest
<1>1. ASSUME Inv, ReportInv PROVE ReportHonest
  <2> SUFFICES ASSUME mpc = "done"
               PROVE  /\ totals.failure = 0 <=> \A u \in User : Success(u)
                      /\ totals.success = TotalNumber * Cardinality({u \in User : Success(u)})
                      /\ totals.success + totals.failure <= Concurrency * TotalNumber
                      /\ totals.sent = MapThenSumSet(LAMBDA u : messages[u].sent, User)
                      /\ totals.recv <= totals.sent
    BY DEF ReportHonest
  <2>1. CountedUsers = User
    <3>1. ASSUME NEW u \in User PROVE counted[u] = 1
      <4>1. resultChan = <<>> /\ upc[u] = "done"
        BY <1>1 DEF Inv, MainOrder
      <4> QED  BY <1>1, <4>1 DEF Inv, OneResult, InChannel
    <3> QED  BY <3>1 DEF CountedUsers
  <2>2. Requests /\ Messages
    BY <1>1 DEF ReportInv, Totals
  <2>3. Winners = {u \in User : Success(u)}
    BY <2>1 DEF Winners
  <2>4. totals.success + totals.failure <= Concurrency * TotalNumber
    <3>1. totals.success + totals.failure <= TotalNumber * Concurrency
      BY <2>1, <2>2, UserFinite DEF Requests
    <3>2. TotalNumber * Concurrency = Concurrency * TotalNumber
      OBVIOUS
    <3> QED  BY <3>1, <3>2
  <2>5. totals.sent = MapThenSumSet(LAMBDA u : messages[u].sent, User)
    BY <2>1, <2>2 DEF Messages, SentBy
  <2> QED  BY <2>1, <2>2, <2>3, <2>4, <2>5 DEF Requests, Messages
<1> QED  BY <1>1, ReportInvariance, PTL

(* The latencies of the report fit together, while it is added up and when *)
(* it is printed: the smallest and the largest are those of sessions that  *)
(* the sum is of.                                                          *)
THEOREM ReportedLatenciesFit == Spec => []LatenciesFit
<1>1. ASSUME ReportInv PROVE LatenciesFit
  <2> DEFINE W == Cardinality(Winners)
             l == totals.latency
             mn == totals.min
             mx == totals.max
  <2>1. l \in Nat /\ mn \in Nat /\ mx \in Nat /\ W \in Nat /\ TotalNumber \in Nat
    BY <1>1, CountedFinite DEF ReportInv, Totals, TotalsType
  <2>2. totals.success = TotalNumber * W /\ W * mn <= l /\ l <= W * mx
    BY <1>1 DEF ReportInv, Totals, Requests, Latencies
  <2>3. LatenciesFit
        <=> (totals.success > 0 => totals.success * mn <= l * TotalNumber
                                   /\ l * TotalNumber <= totals.success * mx)
    BY DEF LatenciesFit
  <2> HIDE DEF W, l, mn, mx
  <2>4. W * mn \in Nat /\ W * mx \in Nat
    BY <2>1
  <2>5. TotalNumber * (W * mn) <= TotalNumber * l /\ TotalNumber * l <= TotalNumber * (W * mx)
    BY <2>1, <2>2, <2>4, Products
  <2>6. /\ (TotalNumber * W) * mn = TotalNumber * (W * mn) /\ TotalNumber * l = l * TotalNumber
        /\ (TotalNumber * W) * mx = TotalNumber * (W * mx)
    BY <2>1
  <2> QED  BY <2>2, <2>3, <2>5, <2>6
<1> QED  BY <1>1, ReportInvariance, PTL
=============================================================================
