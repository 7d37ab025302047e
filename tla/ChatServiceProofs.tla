------------------------- MODULE ChatServiceProofs --------------------------
(***************************************************************************)
(* Proofs about ChatService, for any requests, workers, capacity of        *)
(* saveChan and number of crashes: its safety properties, and that it      *)
(* implements WriteBehind.                                                 *)
(*                                                                         *)
(* Inv adds to the properties what ties the place of a goroutine to the    *)
(* fate of its request: Untouched before it is accepted, Kept afterwards,  *)
(* and Pending for what it has not published yet.                          *)
(***************************************************************************)
EXTENDS ChatService, TLAPS

Channel == Elements(saveChan)
Held == Channel \cup Jobs \cup saved \cup lost

(* Before it is accepted, or when it was turned away, a request is nowhere. *)
Untouched ==
    \A r \in Requests : gpc[r] \in {"new", "parse", "dropped"} => r \notin Held

(* Once accepted it is somewhere, for good. *)
Kept ==
    \A r \in Requests : gpc[r] \in {"forward", "ack", "done"} => r \in Held

(* What a goroutine has still to publish is not downstream yet. *)
Pending ==
    \A r \in Requests :
        /\ gpc[r] = "forward" => Forwarded(r) \notin Elements(downstream)
        /\ gpc[r] \in {"forward", "ack"} => Acknowledged(r) \notin Elements(downstream)

Inv ==
    /\ TypeOK
    /\ SavedOnce
    /\ Untouched
    /\ Kept
    /\ Pending
    /\ AnswerMeansAccepted
    /\ ForwardedThenAcknowledged

USE RequestAssumption, SaveCapAssumption, MaxCrashesAssumption

-----------------------------------------------------------------------------
(* Sequences as the sets of their elements *)

(* Appending adds the new element and nothing else. *)
LEMMA AppendElements ==
    ASSUME NEW S, NEW q \in Seq(S), NEW e \in S
    PROVE  Elements(Append(q, e)) = Elements(q) \cup {e}
<1>1. /\ Append(q, e) \in Seq(S) /\ Len(Append(q, e)) = Len(q) + 1
      /\ \A i \in 1..Len(q) : Append(q, e)[i] = q[i]
      /\ Append(q, e)[Len(q) + 1] = e
  OBVIOUS
<1>2. DOMAIN Append(q, e) = 1..Len(q) + 1 /\ DOMAIN q = 1..Len(q) /\ Len(q) \in Nat
  BY <1>1
<1>3. ASSUME NEW i \in 1..Len(q) + 1 PROVE Append(q, e)[i] \in Elements(q) \cup {e}
  BY <1>1, <1>2, <1>3 DEF Elements
<1>4. ASSUME NEW x \in Elements(q) PROVE x \in Elements(Append(q, e))
  <2>1. PICK i \in 1..Len(q) : x = q[i]
    BY <1>2 DEF Elements
  <2> QED  BY <1>1, <1>2, <2>1 DEF Elements
<1>5. e \in Elements(Append(q, e))
  BY <1>1, <1>2 DEF Elements
<1> QED  BY <1>2, <1>3, <1>4, <1>5 DEF Elements

(* Taking the head off a sequence without repetitions removes just it. *)
LEMMA TailElements ==
    ASSUME NEW S, NEW q \in Seq(S), q # <<>>,
           \A i, j \in DOMAIN q : q[i] = q[j] => i = j
    PROVE  /\ Head(q) \in Elements(q)
           /\ Elements(Tail(q)) = Elements(q) \ {Head(q)}
           /\ \A i, j \in DOMAIN Tail(q) : Tail(q)[i] = Tail(q)[j] => i = j
<1>1. /\ Len(q) \in Nat \ {0} /\ DOMAIN q = 1..Len(q)
      /\ Tail(q) \in Seq(S) /\ Len(Tail(q)) = Len(q) - 1 /\ DOMAIN Tail(q) = 1..Len(q) - 1
      /\ Head(q) = q[1]
      /\ \A i \in 1..Len(q) - 1 : Tail(q)[i] = q[i + 1]
  OBVIOUS
<1>2. Head(q) \in Elements(q)
  BY <1>1 DEF Elements
<1>3. ASSUME NEW x \in Elements(Tail(q)) PROVE x \in Elements(q) \ {Head(q)}
  <2>1. PICK i \in 1..Len(q) - 1 : x = q[i + 1]
    BY <1>1 DEF Elements
  <2>2. i + 1 \in DOMAIN q /\ 1 \in DOMAIN q /\ i + 1 # 1
    BY <1>1
  <2> QED  BY <1>1, <2>1, <2>2 DEF Elements
<1>4. ASSUME NEW x \in Elements(q), x # Head(q) PROVE x \in Elements(Tail(q))
  <2>1. PICK i \in DOMAIN q : x = q[i]
    BY DEF Elements
  <2>2. i - 1 \in 1..Len(q) - 1 /\ x = Tail(q)[i - 1]
    BY <1>1, <1>4, <2>1
  <2> QED  BY <1>1, <2>2 DEF Elements
<1>5. ASSUME NEW i \in DOMAIN Tail(q), NEW j \in DOMAIN Tail(q), Tail(q)[i] = Tail(q)[j]
      PROVE  i = j
  <2>1. i + 1 \in DOMAIN q /\ j + 1 \in DOMAIN q /\ q[i + 1] = q[j + 1]
    BY <1>1, <1>5
  <2>2. i + 1 = j + 1
    BY <2>1
  <2> QED  BY <1>1, <2>2
<1> QED  BY <1>2, <1>3, <1>4, <1>5

-----------------------------------------------------------------------------
(* The initial state satisfies every part of the invariant. *)
LEMMA InitInv == Init => Inv
<1> SUFFICES ASSUME Init PROVE Inv
  OBVIOUS
<1>1. Elements(saveChan) = {} /\ Jobs = {} /\ Elements(downstream) = {}
  BY DEF Init, Elements, Jobs
<1>2. TypeOK
  BY DEF Init, TypeOK
<1>3. SavedOnce /\ Untouched /\ Kept
  BY <1>1 DEF Init, SavedOnce, Untouched, Kept, Held, Channel
<1>4. Pending /\ AnswerMeansAccepted /\ ForwardedThenAcknowledged
  BY <1>1 DEF Init, Pending, AnswerMeansAccepted, ForwardedThenAcknowledged
<1> QED  BY <1>2, <1>3, <1>4 DEF Inv

(* Every step keeps the types and the capacity of saveChan. *)
LEMMA TypeStep == TypeOK /\ [Next]_vars => TypeOK'
<1> SUFFICES ASSUME TypeOK, [Next]_vars PROVE TypeOK'
  OBVIOUS
<1> USE DEF TypeOK, saveVars
<1>1. ASSUME NEW r \in Requests, Receive(r) \/ Miss(r) \/ DropMalformed(r) \/ Reject(r)
      PROVE  TypeOK'
  BY <1>1 DEF Receive, Miss, DropMalformed, Reject
<1>2. ASSUME NEW r \in Requests, Accept(r) PROVE TypeOK'
  <2>1. /\ Append(saveChan, r) \in Seq(Requests)
        /\ Len(saveChan) < SaveCap => Len(Append(saveChan, r)) <= SaveCap
    OBVIOUS
  <2> QED  BY <1>2, <2>1 DEF Accept
<1>3. ASSUME NEW r \in Requests, Forward(r) \/ Ack(r) PROVE TypeOK'
  <2>1. /\ Append(downstream, Forwarded(r)) \in Seq(Downstream)
        /\ Append(downstream, Acknowledged(r)) \in Seq(Downstream)
    BY DEF Downstream
  <2> QED  BY <1>3, <2>1 DEF Forward, Ack
<1>4. ASSUME NEW w \in Workers, TakeJob(w) PROVE TypeOK'
  <2>1. /\ Head(saveChan) \in Requests /\ Tail(saveChan) \in Seq(Requests)
        /\ Len(Tail(saveChan)) <= SaveCap
    BY <1>4 DEF TakeJob
  <2> QED  BY <1>4, <2>1 DEF TakeJob
<1>5. ASSUME NEW w \in Workers, Save(w) PROVE TypeOK'
  BY <1>5 DEF Save
<1>6. CASE Crash
  <2>1. Jobs \subseteq Requests /\ Elements(saveChan) \subseteq Requests
    BY DEF Jobs, Elements
  <2>2. gpc' \in [Requests -> {"new", "parse", "forward", "ack", "done", "dropped", "dead"}]
    BY <1>6 DEF Crash
  <2>3. saveChan' = <<>> /\ job' \in [Workers -> Requests \cup {Nobody}]
    BY <1>6 DEF Crash
  <2>4. saved' \subseteq Requests /\ lost' \subseteq Requests
    BY <1>6, <2>1 DEF Crash
  <2>5. crashes' \in 0..MaxCrashes
    <3>1. crashes < MaxCrashes /\ crashes' = crashes + 1
      BY <1>6 DEF Crash
    <3> QED  BY <3>1
  <2>6. up' = FALSE /\ downstream' = downstream
    BY <1>6 DEF Crash
  <2>7. saveChan' \in Seq(Requests) /\ Len(saveChan') <= SaveCap
    BY <2>3
  <2> QED  BY <2>2, <2>3, <2>4, <2>5, <2>6, <2>7
<1>7. CASE Restart \/ UNCHANGED vars
  BY <1>7 DEF Restart, vars
<1> QED  BY <1>1, <1>2, <1>3, <1>4, <1>5, <1>6, <1>7 DEF Next, Goroutine

-----------------------------------------------------------------------------
(* What the steps do to the places where a request can be *)

(* Pushing a request that is nowhere puts it into the channel alone. *)
LEMMA AcceptEffect ==
    ASSUME Inv, NEW r \in Requests, Accept(r)
    PROVE  /\ r \notin Held
           /\ Channel' = Channel \cup {r} /\ Jobs' = Jobs
           /\ UNCHANGED <<saved, lost, downstream, job>>
           /\ \A i, j \in DOMAIN saveChan' : saveChan'[i] = saveChan'[j] => i = j
<1>1. r \notin Held
  BY DEF Accept, Inv, Untouched
<1>2. saveChan \in Seq(Requests) /\ saveChan' = Append(saveChan, r)
  BY DEF Accept, Inv, TypeOK
<1>3. Channel' = Channel \cup {r}
  BY <1>2, AppendElements DEF Channel
<1>4. ASSUME NEW i \in DOMAIN saveChan', NEW j \in DOMAIN saveChan', saveChan'[i] = saveChan'[j]
      PROVE  i = j
  <2>1. /\ DOMAIN saveChan' = 1..Len(saveChan) + 1 /\ DOMAIN saveChan = 1..Len(saveChan)
        /\ Len(saveChan) \in Nat
        /\ \A k \in 1..Len(saveChan) : saveChan'[k] = saveChan[k]
        /\ saveChan'[Len(saveChan) + 1] = r
    BY <1>2
  <2>2. \A k \in 1..Len(saveChan) : saveChan[k] # r
    BY <1>1, <2>1 DEF Held, Channel, Elements
  <2>3. \A k, l \in 1..Len(saveChan) : saveChan[k] = saveChan[l] => k = l
    BY <2>1 DEF Inv, SavedOnce
  <2> QED  BY <1>4, <2>1, <2>2, <2>3
<1> QED  BY <1>1, <1>3, <1>4 DEF Accept, Jobs

(* A worker takes one request from the channel, and no other has it. *)
LEMMA TakeJobEffect ==
    ASSUME Inv, NEW w \in Workers, TakeJob(w)
    PROVE  /\ Head(saveChan) \in Channel
           /\ Channel' = Channel \ {Head(saveChan)}
           /\ Jobs' = Jobs \cup {Head(saveChan)}
           /\ UNCHANGED <<gpc, saved, lost, downstream>>
           /\ \A i, j \in DOMAIN saveChan' : saveChan'[i] = saveChan'[j] => i = j
           /\ \A u, v \in Workers : job'[u] = job'[v] /\ job'[u] # Nobody => u = v
<1>1. /\ saveChan \in Seq(Requests) /\ saveChan # <<>> /\ saveChan' = Tail(saveChan)
      /\ job[w] = Nobody /\ job' = [job EXCEPT ![w] = Head(saveChan)]
      /\ job \in [Workers -> Requests \cup {Nobody}]
  BY DEF TakeJob, Inv, TypeOK
<1>2. \A i, j \in DOMAIN saveChan : saveChan[i] = saveChan[j] => i = j
  BY DEF Inv, SavedOnce
<1>3. /\ Head(saveChan) \in Channel
      /\ Channel' = Channel \ {Head(saveChan)}
      /\ \A i, j \in DOMAIN saveChan' : saveChan'[i] = saveChan'[j] => i = j
  BY <1>1, <1>2, TailElements DEF Channel
<1>4. Head(saveChan) \in Requests
  BY <1>1
<1>5. Jobs' = Jobs \cup {Head(saveChan)}
  BY <1>1, <1>4 DEF Jobs
<1>6. ASSUME NEW u \in Workers, NEW v \in Workers, job'[u] = job'[v], job'[u] # Nobody
      PROVE  u = v
  <2>1. Head(saveChan) \notin Jobs
    BY <1>3 DEF Inv, SavedOnce, Channel
  <2>2. \A x \in Workers : x # w => job'[x] = job[x] /\ job[x] # Head(saveChan)
    BY <1>1, <1>4, <2>1 DEF Jobs
  <2>3. job'[w] = Head(saveChan)
    BY <1>1
  <2> QED  BY <1>6, <2>2, <2>3 DEF Inv, SavedOnce
<1> QED  BY <1>3, <1>5, <1>6 DEF TakeJob

(* A save ends the job of one worker and of no other. *)
LEMMA SaveEffect ==
    ASSUME Inv, NEW w \in Workers, Save(w)
    PROVE  /\ job[w] \in Jobs
           /\ Channel' = Channel /\ UNCHANGED <<saveChan, gpc, downstream>>
           /\ Jobs' = Jobs \ {job[w]}
           /\ \/ saved' = saved \cup {job[w]} /\ lost' = lost
              \/ lost' = lost \cup {job[w]} /\ saved' = saved
           /\ \A u, v \in Workers : job'[u] = job'[v] /\ job'[u] # Nobody => u = v
<1>1. /\ job \in [Workers -> Requests \cup {Nobody}]
      /\ job[w] # Nobody /\ job' = [job EXCEPT ![w] = Nobody]
  BY DEF Save, Inv, TypeOK
<1>2. \A u, v \in Workers : job[u] = job[v] /\ job[u] # Nobody => u = v
  BY DEF Inv, SavedOnce
<1>3. \A u \in Workers : job'[u] = IF u = w THEN Nobody ELSE job[u]
  BY <1>1
<1>4. job[w] \in Jobs
  BY <1>1 DEF Jobs
<1>5. Jobs' = Jobs \ {job[w]}
  BY <1>1, <1>2, <1>3 DEF Jobs
<1> QED  BY <1>2, <1>3, <1>4, <1>5 DEF Save, Channel

(* A crash empties the memory: what was there is saved or lost. *)
LEMMA CrashEffect ==
    ASSUME Inv, Crash
    PROVE  /\ Channel' = {} /\ Jobs' = {} /\ UNCHANGED downstream
           /\ \E C \in SUBSET Jobs : /\ saved' = saved \cup C
                                    /\ lost' = lost \cup Channel \cup (Jobs \ C)
           /\ \A r \in Requests : gpc'[r] # gpc[r] => gpc'[r] = "dead"
           /\ \A u \in Workers : job'[u] = Nobody
           /\ saveChan' = <<>>
<1>1. saveChan' = <<>> /\ \A u \in Workers : job'[u] = Nobody
  BY DEF Crash
<1>2. Channel' = {} /\ Jobs' = {}
  BY <1>1 DEF Channel, Elements, Jobs
<1> QED  BY <1>1, <1>2 DEF Crash, Channel

-----------------------------------------------------------------------------
(* The invariants about the places *)

(* A goroutine's step that touches neither the channel nor the pool. *)
LEMMA QuietEffect ==
    ASSUME UNCHANGED saveVars
    PROVE  Channel' = Channel /\ Jobs' = Jobs /\ Held' = Held
BY DEF saveVars, Channel, Jobs, Held

(* A request moves from saveChan to one worker to its end, by every step.  *)
LEMMA SavedOnceStep == Inv /\ [Next]_vars => SavedOnce'
<1> SUFFICES ASSUME Inv, [Next]_vars PROVE SavedOnce'
  OBVIOUS
<1>0. SavedOnce /\ Elements(saveChan) = Channel /\ Elements(saveChan)' = Channel'
  BY DEF Inv, Channel
<1>1. ASSUME NEW r \in Requests, Accept(r) PROVE SavedOnce'
  BY <1>0, <1>1, AcceptEffect DEF SavedOnce, Held
<1>2. ASSUME NEW w \in Workers, TakeJob(w) PROVE SavedOnce'
  <2>1. \A i, j \in DOMAIN saveChan' : saveChan'[i] = saveChan'[j] => i = j
    BY <1>2, TakeJobEffect
  <2>2. \A u, v \in Workers : job'[u] = job'[v] /\ job'[u] # Nobody => u = v
    BY <1>2, TakeJobEffect
  <2>3. /\ Channel' \cap Jobs' = {}
        /\ (Channel' \cup Jobs') \cap (saved' \cup lost') = {}
        /\ saved' \cap lost' = {}
    BY <1>0, <1>2, TakeJobEffect DEF SavedOnce
  <2> QED  BY <1>0, <2>1, <2>2, <2>3 DEF SavedOnce
<1>3. ASSUME NEW w \in Workers, Save(w) PROVE SavedOnce'
  <2>1. \A i, j \in DOMAIN saveChan' : saveChan'[i] = saveChan'[j] => i = j
    BY <1>0, <1>3, SaveEffect DEF SavedOnce
  <2>2. \A u, v \in Workers : job'[u] = job'[v] /\ job'[u] # Nobody => u = v
    BY <1>3, SaveEffect
  <2>3. /\ Channel' \cap Jobs' = {}
        /\ (Channel' \cup Jobs') \cap (saved' \cup lost') = {}
        /\ saved' \cap lost' = {}
    BY <1>0, <1>3, SaveEffect DEF SavedOnce
  <2> QED  BY <1>0, <2>1, <2>2, <2>3 DEF SavedOnce
<1>4. CASE Crash
  <2>1. PICK C \in SUBSET Jobs : /\ saved' = saved \cup C
                                /\ lost' = lost \cup Channel \cup (Jobs \ C)
    BY <1>4, CrashEffect
  <2>2. saved' \cap lost' = {}
    BY <1>0, <2>1 DEF SavedOnce
  <2>3. /\ Channel' = {} /\ Jobs' = {} /\ saveChan' = <<>>
        /\ \A u \in Workers : job'[u] = Nobody
    BY <1>4, CrashEffect
  <2>4. \A i, j \in DOMAIN saveChan' : saveChan'[i] = saveChan'[j] => i = j
    BY <2>3
  <2> QED  BY <1>0, <2>2, <2>3, <2>4 DEF SavedOnce
<1>5. CASE UNCHANGED saveVars
  BY <1>0, <1>5, QuietEffect DEF SavedOnce, saveVars
<1>6. ASSUME NEW r \in Requests,
             Receive(r) \/ Miss(r) \/ DropMalformed(r) \/ Reject(r) \/ Forward(r) \/ Ack(r)
      PROVE  SavedOnce'
  BY <1>5, <1>6 DEF Receive, Miss, DropMalformed, Reject, Forward, Ack
<1>7. CASE Restart \/ UNCHANGED vars
  BY <1>5, <1>7 DEF Restart, vars
<1> QED  BY <1>1, <1>2, <1>3, <1>4, <1>6, <1>7 DEF Next, Goroutine

(* No step takes a request out of all its places again. *)
LEMMA HeldStep ==
    ASSUME Inv, [Next]_vars
    PROVE  \/ \E r \in Requests : Accept(r) /\ Held' = Held \cup {r}
           \/ Held' = Held
<1>1. ASSUME NEW r \in Requests, Accept(r) PROVE Held' = Held \cup {r}
  BY <1>1, AcceptEffect DEF Held
<1>2. ASSUME NEW w \in Workers, TakeJob(w) PROVE Held' = Held
  BY <1>2, TakeJobEffect DEF Held
<1>3. ASSUME NEW w \in Workers, Save(w) PROVE Held' = Held
  BY <1>3, SaveEffect DEF Held
<1>4. CASE Crash
  BY <1>4, CrashEffect DEF Held
<1>5. ASSUME NEW r \in Requests,
             Receive(r) \/ Miss(r) \/ DropMalformed(r) \/ Reject(r) \/ Forward(r) \/ Ack(r)
      PROVE  Held' = Held
  <2>1. UNCHANGED saveVars
    BY <1>5 DEF Receive, Miss, DropMalformed, Reject, Forward, Ack, saveVars
  <2> QED  BY <2>1, QuietEffect
<1>6. CASE Restart \/ UNCHANGED vars
  <2>1. UNCHANGED saveVars
    BY <1>6 DEF Restart, vars, saveVars
  <2> QED  BY <2>1, QuietEffect
<1> QED  BY <1>1, <1>2, <1>3, <1>4, <1>5, <1>6 DEF Next, Goroutine

(* What a step may do to the place of a goroutine. *)
LEMMA PlaceStep ==
    ASSUME Inv, [Next]_vars, NEW r \in Requests, gpc'[r] # gpc[r]
    PROVE  \/ gpc'[r] = "dead"
           \/ gpc[r] = "new" /\ gpc'[r] \in {"parse", "dropped"}
           \/ gpc[r] = "parse" /\ gpc'[r] = "dropped"
           \/ Accept(r) /\ gpc[r] = "parse" /\ gpc'[r] \in {"forward", "ack"}
           \/ Forward(r) /\ gpc[r] = "forward" /\ gpc'[r] = "ack"
           \/ Ack(r) /\ gpc[r] = "ack" /\ gpc'[r] = "done"
<1>0. gpc \in [Requests -> {"new", "parse", "forward", "ack", "done", "dropped", "dead"}]
  BY DEF Inv, TypeOK
<1>1. ASSUME NEW q \in Requests, Receive(q) \/ Miss(q) PROVE r = q /\ gpc[r] = "new" /\ gpc'[r] \in {"parse", "dropped"}
  BY <1>0, <1>1 DEF Receive, Miss
<1>2. ASSUME NEW q \in Requests, DropMalformed(q) \/ Reject(q)
      PROVE  r = q /\ gpc[r] = "parse" /\ gpc'[r] = "dropped"
  BY <1>0, <1>2 DEF DropMalformed, Reject
<1>3. ASSUME NEW q \in Requests, Accept(q)
      PROVE  r = q /\ gpc[r] = "parse" /\ gpc'[r] \in {"forward", "ack"}
  BY <1>0, <1>3 DEF Accept
<1>4. ASSUME NEW q \in Requests, Forward(q)
      PROVE  r = q /\ gpc[r] = "forward" /\ gpc'[r] = "ack"
  BY <1>0, <1>4 DEF Forward
<1>5. ASSUME NEW q \in Requests, Ack(q)
      PROVE  r = q /\ gpc[r] = "ack" /\ gpc'[r] = "done"
  BY <1>0, <1>5 DEF Ack
<1>6. CASE Crash
  BY <1>6, CrashEffect
<1>7. (\E w \in Workers : TakeJob(w) \/ Save(w)) \/ Restart \/ UNCHANGED vars => UNCHANGED gpc
  BY DEF TakeJob, Save, Restart, vars
<1> QED  BY <1>1, <1>2, <1>3, <1>4, <1>5, <1>6, <1>7 DEF Next, Goroutine

(* A request is somewhere exactly from the push to saveChan on. *)
LEMMA PlacesStep == Inv /\ [Next]_vars => Untouched' /\ Kept'
<1> SUFFICES ASSUME Inv, [Next]_vars, NEW r \in Requests
             PROVE  /\ gpc'[r] \in {"new", "parse", "dropped"} => r \notin Held'
                    /\ gpc'[r] \in {"forward", "ack", "done"} => r \in Held'
  BY DEF Untouched, Kept
<1>1. /\ gpc[r] \in {"new", "parse", "dropped"} => r \notin Held
      /\ gpc[r] \in {"forward", "ack", "done"} => r \in Held
  BY DEF Inv, Untouched, Kept
<1>2. CASE gpc'[r] = gpc[r] /\ ~ Accept(r)
  <2>1. ASSUME NEW q \in Requests, Accept(q), Held' = Held \cup {q} PROVE r # q
    BY <1>2, <2>1
  <2> QED  BY <1>1, <1>2, <2>1, HeldStep
<1>3. CASE gpc'[r] # gpc[r] \/ Accept(r)
  <2>1. CASE Accept(r)
    <3>1. r \in Held'
      BY <2>1, AcceptEffect DEF Held
    <3>2. gpc'[r] \in {"forward", "ack"}
      BY <2>1 DEF Accept, Inv, TypeOK
    <3> QED  BY <3>1, <3>2
  <2>2. CASE gpc'[r] # gpc[r] /\ ~ Accept(r)
    <3>1. r \in Held' <=> r \in Held
      BY <2>2, HeldStep
    <3> QED  BY <1>1, <2>2, <3>1, PlaceStep
  <2> QED  BY <1>3, <2>1, <2>2
<1> QED  BY <1>2, <1>3

-----------------------------------------------------------------------------
(* The invariants about what is published *)

(* The goroutine of r publishes m. *)
Publishes(r, m) ==
    /\ downstream' = Append(downstream, m)
    /\ \/ Forward(r) /\ gpc[r] = "forward" /\ gpc'[r] = "ack" /\ m = Forwarded(r)
       \/ Ack(r) /\ gpc[r] = "ack" /\ gpc'[r] = "done" /\ m = Acknowledged(r)

(* Only a goroutine about to publish changes what is downstream. *)
LEMMA PublishStep ==
    ASSUME Inv, [Next]_vars
    PROVE  \/ downstream' = downstream
           \/ \E r \in Requests, m \in Downstream : Publishes(r, m)
<1>0. gpc \in [Requests -> {"new", "parse", "forward", "ack", "done", "dropped", "dead"}]
  BY DEF Inv, TypeOK
<1>1. ASSUME NEW r \in Requests, Forward(r)
      PROVE  downstream' = downstream \/ \E m \in Downstream : Publishes(r, m)
  <2>1. Forwarded(r) \in Downstream
    BY DEF Downstream
  <2> QED  BY <1>0, <1>1, <2>1 DEF Forward, Publishes
<1>2. ASSUME NEW r \in Requests, Ack(r)
      PROVE  downstream' = downstream \/ \E m \in Downstream : Publishes(r, m)
  <2>1. Acknowledged(r) \in Downstream
    BY DEF Downstream
  <2> QED  BY <1>0, <1>2, <2>1 DEF Ack, Publishes
<1>3. ASSUME NEW r \in Requests,
             Receive(r) \/ Miss(r) \/ DropMalformed(r) \/ Accept(r) \/ Reject(r)
      PROVE  downstream' = downstream
  BY <1>3 DEF Receive, Miss, DropMalformed, Accept, Reject
<1>4. (\E w \in Workers : TakeJob(w) \/ Save(w)) \/ Crash \/ Restart \/ UNCHANGED vars
          => downstream' = downstream
  BY DEF TakeJob, Save, Crash, Restart, vars
<1> QED  BY <1>1, <1>2, <1>3, <1>4 DEF Next, Goroutine

(* A publication adds one element, and it is not downstream yet. *)
LEMMA PublishEffect ==
    ASSUME Inv, NEW r \in Requests, NEW m \in Downstream, Publishes(r, m)
    PROVE  /\ Elements(downstream') = Elements(downstream) \cup {m}
           /\ m \notin Elements(downstream)
           /\ m = Forwarded(r) => Acknowledged(r) \notin Elements(downstream)
           /\ r \in Held
<1>1. downstream \in Seq(Downstream)
  BY DEF Inv, TypeOK
<1>2. Elements(downstream') = Elements(downstream) \cup {m}
  BY <1>1, AppendElements DEF Publishes
<1>3. r \in Held
  BY DEF Publishes, Inv, Kept
<1>4. Forwarded(r) # Acknowledged(r)
  BY DEF Forwarded, Acknowledged
<1> QED  BY <1>2, <1>3, <1>4 DEF Publishes, Inv, Pending

(* A goroutine moves on when it publishes, and never goes back. *)
LEMMA PendingStep == Inv /\ [Next]_vars => Pending'
<1> SUFFICES ASSUME Inv, [Next]_vars, NEW r \in Requests, gpc'[r] \in {"forward", "ack"}
             PROVE  /\ gpc'[r] = "forward" => Forwarded(r) \notin Elements(downstream')
                    /\ Acknowledged(r) \notin Elements(downstream')
  BY DEF Pending, Elements
<1>1. /\ gpc[r] = "forward" => Forwarded(r) \notin Elements(downstream)
      /\ gpc[r] \in {"forward", "ack"} => Acknowledged(r) \notin Elements(downstream)
  BY DEF Inv, Pending
<1>2. CASE gpc'[r] # gpc[r] /\ Accept(r)
  <2>1. downstream' = downstream /\ r \notin Held
    BY <1>2, AcceptEffect
  <2>2. Acknowledged(r) \notin Elements(downstream) /\ Forwarded(r) \notin Elements(downstream)
    BY <2>1 DEF Inv, AnswerMeansAccepted, Held, Channel, Waiting, Taken
  <2> QED  BY <2>1, <2>2
<1>3. CASE gpc'[r] # gpc[r] /\ ~ Accept(r)
  <2>1. gpc[r] = "forward" /\ gpc'[r] = "ack"
    BY <1>3, PlaceStep
  <2>2. ASSUME NEW q \in Requests, NEW m \in Downstream, Publishes(q, m)
        PROVE  Acknowledged(r) \notin Elements(downstream')
    <3>1. m # Acknowledged(r)
      BY <2>1, <2>2 DEF Publishes, Forwarded, Acknowledged
    <3> QED  BY <1>1, <2>1, <2>2, <3>1, PublishEffect
  <2> QED  BY <1>1, <2>1, <2>2, PublishStep
<1>4. CASE gpc'[r] = gpc[r]
  <2>1. ASSUME NEW q \in Requests, NEW m \in Downstream, Publishes(q, m)
        PROVE  m # Acknowledged(r) /\ m # Forwarded(r)
    <3>1. q # r
      BY <1>4, <2>1 DEF Publishes
    <3> QED  BY <2>1, <3>1 DEF Publishes, Forwarded, Acknowledged
  <2>2. ASSUME NEW q \in Requests, NEW m \in Downstream, Publishes(q, m)
        PROVE  /\ gpc'[r] = "forward" => Forwarded(r) \notin Elements(downstream')
               /\ Acknowledged(r) \notin Elements(downstream')
    BY <1>1, <1>4, <2>1, <2>2, PublishEffect
  <2> QED  BY <1>1, <1>4, <2>2, PublishStep
<1> QED  BY <1>2, <1>3, <1>4

(* Only the goroutine of an accepted request publishes anything. *)
LEMMA AnswerStep == Inv /\ [Next]_vars => AnswerMeansAccepted'
<1> SUFFICES ASSUME Inv, [Next]_vars, NEW r \in Requests,
                    \/ Acknowledged(r) \in Elements(downstream')
                    \/ Forwarded(r) \in Elements(downstream')
             PROVE  r \in Held'
  BY DEF AnswerMeansAccepted, Held, Channel, Waiting, Taken, Elements, Jobs
<1>1. Held \subseteq Held'
  BY HeldStep
<1>2. \/ Acknowledged(r) \in Elements(downstream)
      \/ Forwarded(r) \in Elements(downstream)
      => r \in Held
  BY DEF Inv, AnswerMeansAccepted, Held, Channel, Waiting, Taken
<1>3. ASSUME NEW q \in Requests, NEW m \in Downstream, Publishes(q, m)
      PROVE  r \in Held
  <2>1. CASE m = Acknowledged(r) \/ m = Forwarded(r)
    <3>1. q = r
      BY <1>3, <2>1 DEF Publishes, Forwarded, Acknowledged
    <3> QED  BY <1>3, <3>1, PublishEffect
  <2>2. CASE m # Acknowledged(r) /\ m # Forwarded(r)
    BY <1>2, <1>3, <2>2, PublishEffect
  <2> QED  BY <2>1, <2>2
<1> QED  BY <1>1, <1>2, <1>3, PublishStep

(* What is appended downstream is new, and no forwarding follows an answer. *)
LEMMA OrderStep == Inv /\ [Next]_vars => ForwardedThenAcknowledged'
<1> SUFFICES ASSUME Inv, [Next]_vars PROVE ForwardedThenAcknowledged'
  OBVIOUS
<1>0. ForwardedThenAcknowledged /\ downstream \in Seq(Downstream)
  BY DEF Inv, TypeOK
<1>1. CASE downstream' = downstream
  BY <1>0, <1>1 DEF ForwardedThenAcknowledged
<1>2. ASSUME NEW q \in Requests, NEW m \in Downstream, Publishes(q, m)
      PROVE  ForwardedThenAcknowledged'
  <2> SUFFICES ASSUME NEW i \in DOMAIN downstream', NEW j \in DOMAIN downstream', i < j
               PROVE  /\ downstream'[i] # downstream'[j]
                      /\ \A r \in Requests : ~ (downstream'[i] = Acknowledged(r)
                                               /\ downstream'[j] = Forwarded(r))
    BY DEF ForwardedThenAcknowledged, Forwarded, Acknowledged
  <2>1. /\ DOMAIN downstream' = 1..Len(downstream) + 1 /\ Len(downstream) \in Nat
        /\ DOMAIN downstream = 1..Len(downstream)
        /\ \A k \in 1..Len(downstream) : downstream'[k] = downstream[k]
        /\ downstream'[Len(downstream) + 1] = m
    BY <1>0, <1>2 DEF Publishes
  <2>2. CASE j \in DOMAIN downstream
    BY <1>0, <2>1, <2>2 DEF ForwardedThenAcknowledged
  <2>3. CASE j = Len(downstream) + 1
    <3>1. downstream'[i] \in Elements(downstream) /\ downstream'[j] = m
      BY <2>1, <2>3 DEF Elements
    <3>2. \A r \in Requests : m = Forwarded(r) => r = q
      BY <1>2 DEF Publishes, Forwarded, Acknowledged
    <3> QED  BY <1>2, <3>1, <3>2, PublishEffect
  <2> QED  BY <2>1, <2>2, <2>3
<1> QED  BY <1>1, <1>2, PublishStep

-----------------------------------------------------------------------------
(* The inductive invariant holds in every reachable state. *)
LEMMA Invariance == Spec => []Inv
<1>1. Inv /\ [Next]_vars => Inv'
  <2>1. Inv => TypeOK
    BY DEF Inv
  <2> QED  BY <2>1, TypeStep, SavedOnceStep, PlacesStep, PendingStep, AnswerStep, OrderStep
           DEF Inv
<1> QED  BY <1>1, InitInv, PTL DEF Spec

(* The state keeps its types, and saveChan its capacity. *)
THEOREM TypeCorrect == Spec => []TypeOK
<1>1. Inv => TypeOK
  BY DEF Inv
<1> QED  BY <1>1, Invariance, PTL

(* However goroutines, workers and crashes interleave, no request is saved *)
(* twice, and none after it was given up.                                  *)
THEOREM NoDoubleSave == Spec => []SavedOnce
<1>1. Inv => SavedOnce
  BY DEF Inv
<1> QED  BY <1>1, Invariance, PTL

(* No answer and no forwarded message for a request that was turned away. *)
THEOREM OnlyAcceptedAnswered == Spec => []AnswerMeansAccepted
<1>1. Inv => AnswerMeansAccepted
  BY DEF Inv
<1> QED  BY <1>1, Invariance, PTL

(* The message to the receiver goes before the answer, and both go once. *)
THEOREM PublicationOrder == Spec => []ForwardedThenAcknowledged
<1>1. Inv => ForwardedThenAcknowledged
  BY DEF Inv
<1> QED  BY <1>1, Invariance, PTL

-----------------------------------------------------------------------------
(* The implementation of WriteBehind *)

StatusBar == [r \in Requests |-> Status(r)]
AnsweredBar == {r \in Requests : Acknowledged(r) \in Elements(downstream)}

(* Status in the terms of the places. *)
LEMMA StatusCases ==
    ASSUME Inv, NEW r \in Requests
    PROVE  /\ r \in saved => Status(r) = "stored"
           /\ r \in lost => Status(r) = "lost"
           /\ r \in Channel \cup Jobs => Status(r) = "accepted"
           /\ r \notin Held => Status(r) = IF gpc[r] = "dropped" THEN "refused" ELSE "new"
BY DEF Inv, SavedOnce, Status, Held, Channel, Waiting, Taken

(* A step that leaves the places alone changes a status by a refusal only. *)
LEMMA SameStatus ==
    ASSUME Inv, Inv', NEW r \in Requests, Channel' \cup Jobs' = Channel \cup Jobs,
           saved' = saved, lost' = lost, (gpc'[r] = "dropped") <=> (gpc[r] = "dropped")
    PROVE  Status(r)' = Status(r)
<1>1. Held' = Held
  BY DEF Held
<1>2. \/ r \in saved /\ r \in saved'
      \/ r \in lost /\ r \in lost'
      \/ r \in Channel \cup Jobs /\ r \in Channel' \cup Jobs'
      \/ r \notin Held /\ r \notin Held'
  BY <1>1 DEF Held
<1>3. /\ r \in saved' => Status(r)' = "stored"
      /\ r \in lost' => Status(r)' = "lost"
      /\ r \in Channel' \cup Jobs' => Status(r)' = "accepted"
      /\ r \notin Held' => Status(r)' = IF gpc'[r] = "dropped" THEN "refused" ELSE "new"
  BY DEF Inv, SavedOnce, Status, Held, Channel, Waiting, Taken
<1> QED  BY <1>2, <1>3, StatusCases

(* Initially all requests are new, and none is answered. *)
LEMMA ImplementsInit == Init => WB!Init
<1> SUFFICES ASSUME Init PROVE WB!Init
  OBVIOUS
<1>1. Elements(saveChan) = {} /\ Jobs = {} /\ Elements(downstream) = {}
  BY DEF Init, Elements, Jobs
<1>2. \A r \in Requests : Status(r) = "new"
  BY <1>1 DEF Init, Status, Waiting, Taken
<1> QED  BY <1>1, <1>2 DEF WB!Init

(* The steps by which a request is turned away refuse it. *)
LEMMA RefuseStep ==
    ASSUME Inv, Inv', NEW r \in Requests, Miss(r) \/ DropMalformed(r) \/ Reject(r)
    PROVE  WB!Refuse(r)
<1>0. gpc \in [Requests -> {"new", "parse", "forward", "ack", "done", "dropped", "dead"}]
  BY DEF Inv, TypeOK
<1>1. /\ gpc[r] \in {"new", "parse"} /\ gpc' = [gpc EXCEPT ![r] = "dropped"]
      /\ UNCHANGED saveVars /\ downstream' = downstream
  BY DEF Miss, DropMalformed, Reject
<1>2. Channel' = Channel /\ Jobs' = Jobs /\ saved' = saved /\ lost' = lost /\ Held' = Held
  BY <1>1, QuietEffect DEF saveVars
<1>3. r \notin Held /\ r \notin Held'
  BY <1>1, <1>2 DEF Inv, Untouched
<1>4. Status(r) = "new" /\ Status(r)' = "refused"
  <2>1. Status(r) = "new"
    BY <1>1, <1>3, StatusCases
  <2>2. gpc'[r] = "dropped"
    BY <1>0, <1>1
  <2> QED  BY <1>3, <2>1, <2>2 DEF Status, Held, Channel, Waiting, Taken
<1>5. \A q \in Requests \ {r} : Status(q)' = Status(q)
  BY <1>0, <1>1, <1>2, SameStatus
<1>6. StatusBar' = [StatusBar EXCEPT ![r] = "refused"]
  BY <1>4, <1>5 DEF StatusBar
<1>7. AnsweredBar' = AnsweredBar
  BY <1>1 DEF AnsweredBar, Elements
<1> QED  BY <1>4, <1>6, <1>7 DEF WB!Refuse, StatusBar, AnsweredBar

(* The push to saveChan accepts the request, and no other. *)
LEMMA AcceptStep ==
    ASSUME Inv, Inv', NEW r \in Requests, Accept(r)
    PROVE  WB!Accept(r)
<1>0. gpc \in [Requests -> {"new", "parse", "forward", "ack", "done", "dropped", "dead"}]
  BY DEF Inv, TypeOK
<1>1. /\ r \notin Held /\ Channel' = Channel \cup {r} /\ Jobs' = Jobs
      /\ saved' = saved /\ lost' = lost /\ downstream' = downstream
  BY AcceptEffect
<1>2. gpc[r] = "parse" /\ \A q \in Requests : q # r => gpc'[q] = gpc[q]
  BY <1>0 DEF Accept
<1>3. Status(r) = "new"
  BY <1>1, <1>2, StatusCases
<1>4. Status(r)' = "accepted"
  BY <1>1 DEF Status, Held, Channel, Waiting, Taken
<1>5. ASSUME NEW q \in Requests, q # r PROVE Status(q)' = Status(q)
  <2>1. q \in Channel' <=> q \in Channel
    BY <1>1, <1>5
  <2> QED  BY <1>1, <1>2, <1>5, <2>1 DEF Status, Channel, Waiting, Taken
<1>6. StatusBar' = [StatusBar EXCEPT ![r] = "accepted"]
  BY <1>4, <1>5 DEF StatusBar
<1>7. AnsweredBar' = AnsweredBar
  BY <1>1 DEF AnsweredBar, Elements
<1> QED  BY <1>3, <1>6, <1>7 DEF WB!Accept, StatusBar, AnsweredBar

(* The end of one save, or of all of them in a crash. *)
LEMMA SettleStep ==
    ASSUME Inv, Inv', saved \subseteq saved', lost \subseteq lost',
           Channel \cup Jobs = Channel' \cup Jobs' \cup (saved' \ saved) \cup (lost' \ lost),
           downstream' = downstream,
           \A r \in Requests : (gpc'[r] = "dropped") <=> (gpc[r] = "dropped")
    PROVE  (\E A, B \in SUBSET Requests : WB!Settle(A, B)) \/ UNCHANGED WB!vars
<1> DEFINE S == saved' \ saved
           L == lost' \ lost
<1>0. /\ Channel \subseteq Requests /\ Jobs \subseteq Requests
      /\ S \cap L = {} /\ S \cup L \subseteq Channel \cup Jobs
      /\ Channel' \cup Jobs' = (Channel \cup Jobs) \ (S \cup L)
      /\ saved' = saved \cup S /\ lost' = lost \cup L
  <2>1. Channel \subseteq Requests /\ Jobs \subseteq Requests
    BY DEF Inv, TypeOK, Channel, Elements, Jobs
  <2>2. saved' \cap lost' = {} /\ (Channel' \cup Jobs') \cap (saved' \cup lost') = {}
    BY DEF Inv, SavedOnce, Channel
  <2> QED  BY <2>1, <2>2
<1> HIDE DEF S, L
<1>1. \A r \in S \cup L : Status(r) = "accepted"
  BY <1>0, StatusCases
<1>2. \A r \in S : Status(r)' = "stored"
  BY <1>0 DEF Status
<1>3. \A r \in L : Status(r)' = "lost"
  BY <1>0 DEF Inv, SavedOnce, Status
<1>4. ASSUME NEW r \in Requests, r \notin S \cup L PROVE Status(r)' = Status(r)
  <2>1. /\ r \in Channel' \cup Jobs' <=> r \in Channel \cup Jobs
        /\ r \in saved' <=> r \in saved
        /\ r \in lost' <=> r \in lost
    BY <1>0, <1>4
  <2> QED  BY <1>4, <2>1 DEF Status, Channel, Waiting, Taken
<1>5. AnsweredBar' = AnsweredBar
  BY DEF AnsweredBar, Elements
<1>6. CASE S \cup L = {}
  <2>1. StatusBar' = StatusBar
    BY <1>4, <1>6 DEF StatusBar
  <2> QED  BY <1>5, <2>1 DEF WB!vars, StatusBar, AnsweredBar
<1>7. CASE S \cup L # {}
  <2>1. StatusBar' = [r \in Requests |-> IF r \in S THEN "stored"
                                        ELSE IF r \in L THEN "lost" ELSE StatusBar[r]]
    BY <1>2, <1>3, <1>4 DEF StatusBar
  <2>2. \A r \in S \cup L : StatusBar[r] = "accepted"
    BY <1>0, <1>1 DEF StatusBar
  <2>3. WB!Settle(S, L)
    BY <1>0, <1>5, <1>7, <2>1, <2>2 DEF WB!Settle, StatusBar, AnsweredBar
  <2>4. S \in SUBSET Requests /\ L \in SUBSET Requests
    BY <1>0
  <2> QED  BY <2>3, <2>4
<1> QED  BY <1>6, <1>7

(* A step that keeps the places and turns nothing away answers one request *)
(* at most.                                                                *)
LEMMA AnswerOrStutter ==
    ASSUME Inv, Inv', [Next]_vars, UNCHANGED <<Channel, Jobs, saved, lost>>,
           \A r \in Requests : (gpc'[r] = "dropped") <=> (gpc[r] = "dropped")
    PROVE  (\E r \in Requests : WB!Answer(r)) \/ UNCHANGED WB!vars
<1>1. StatusBar' = StatusBar
  BY SameStatus DEF StatusBar
<1>2. CASE downstream' = downstream
  <2>1. AnsweredBar' = AnsweredBar
    BY <1>2 DEF AnsweredBar, Elements
  <2> QED  BY <1>1, <2>1 DEF WB!vars, StatusBar, AnsweredBar
<1>3. ASSUME NEW q \in Requests, NEW m \in Downstream, Publishes(q, m)
      PROVE  (\E r \in Requests : WB!Answer(r)) \/ UNCHANGED WB!vars
  <2>1. /\ Elements(downstream') = Elements(downstream) \cup {m}
        /\ m \notin Elements(downstream) /\ q \in Held
    BY <1>3, PublishEffect
  <2>2. Elements(downstream)' = Elements(downstream) \cup {m}
    BY <2>1 DEF Elements
  <2>3. CASE m = Forwarded(q)
    <3>1. \A r \in Requests : Acknowledged(r) # m
      BY <2>3 DEF Forwarded, Acknowledged
    <3>2. AnsweredBar' = AnsweredBar
      BY <2>2, <3>1 DEF AnsweredBar, Acknowledged
    <3> QED  BY <1>1, <3>2 DEF WB!vars, StatusBar, AnsweredBar
  <2>4. CASE m = Acknowledged(q)
    <3>1. \A r \in Requests : Acknowledged(r) = m => r = q
      BY <2>4 DEF Acknowledged
    <3>2. AnsweredBar' = AnsweredBar \cup {q} /\ q \notin AnsweredBar
      BY <2>1, <2>2, <2>4, <3>1 DEF AnsweredBar, Acknowledged
    <3>3. StatusBar[q] \in {"accepted", "stored", "lost"}
      BY <2>1, StatusCases DEF StatusBar, Held
    <3>4. WB!Answer(q)
      BY <1>1, <3>2, <3>3 DEF WB!Answer, StatusBar, AnsweredBar
    <3> QED  BY <3>4
  <2> QED  BY <1>3, <2>3, <2>4 DEF Publishes
<1> QED  BY <1>2, <1>3, PublishStep

(* Every step of the service is a step of WriteBehind or a stutter. *)
LEMMA ImplementsStep == Inv /\ Inv' /\ [Next]_vars => [WB!Next]_WB!vars
<1> SUFFICES ASSUME Inv, Inv', [Next]_vars PROVE [WB!Next]_WB!vars
  OBVIOUS
<1>0. gpc \in [Requests -> {"new", "parse", "forward", "ack", "done", "dropped", "dead"}]
  BY DEF Inv, TypeOK
<1>1. ASSUME NEW r \in Requests, Miss(r) \/ DropMalformed(r) \/ Reject(r)
      PROVE  [WB!Next]_WB!vars
  BY <1>1, RefuseStep DEF WB!Next
<1>2. ASSUME NEW r \in Requests, Accept(r) PROVE [WB!Next]_WB!vars
  BY <1>2, AcceptStep DEF WB!Next
<1>3. ASSUME NEW r \in Requests, Receive(r) \/ Forward(r) \/ Ack(r)
      PROVE  [WB!Next]_WB!vars
  <2>1. UNCHANGED saveVars
    BY <1>3 DEF Receive, Forward, Ack, saveVars
  <2>2. \A q \in Requests : (gpc'[q] = "dropped") <=> (gpc[q] = "dropped")
    BY <1>0, <1>3 DEF Receive, Forward, Ack
  <2>3. UNCHANGED <<Channel, Jobs, saved, lost>>
    BY <2>1, QuietEffect DEF saveVars
  <2> QED  BY <2>2, <2>3, AnswerOrStutter DEF WB!Next
<1>4. ASSUME NEW w \in Workers, TakeJob(w) PROVE [WB!Next]_WB!vars
  <2>1. /\ Channel' \cup Jobs' = Channel \cup Jobs
        /\ saved' = saved /\ lost' = lost /\ downstream' = downstream /\ gpc' = gpc
    BY <1>4, TakeJobEffect
  <2> QED  BY <2>1, SettleStep DEF WB!Next
<1>5. ASSUME NEW w \in Workers, Save(w) PROVE [WB!Next]_WB!vars
  <2> DEFINE r == job[w]
  <2>1. /\ r \in Jobs /\ Channel' = Channel /\ Jobs' = Jobs \ {r} /\ r \notin Channel
        /\ gpc' = gpc /\ downstream' = downstream
    BY <1>5, SaveEffect DEF Inv, SavedOnce, Channel
  <2>2. r \notin saved /\ r \notin lost
    BY <2>1 DEF Inv, SavedOnce
  <2>3. \/ saved' = saved \cup {r} /\ lost' = lost
        \/ lost' = lost \cup {r} /\ saved' = saved
    BY <1>5, SaveEffect
  <2> QED  BY <2>1, <2>2, <2>3, SettleStep DEF WB!Next
<1>6. CASE Crash
  <2>1. PICK C \in SUBSET Jobs : /\ saved' = saved \cup C
                                /\ lost' = lost \cup Channel \cup (Jobs \ C)
    BY <1>6, CrashEffect
  <2>2. /\ Channel' = {} /\ Jobs' = {} /\ downstream' = downstream
        /\ \A r \in Requests : (gpc'[r] = "dropped") <=> (gpc[r] = "dropped")
    BY <1>6, CrashEffect DEF Crash
  <2>3. (Channel \cup Jobs) \cap (saved \cup lost) = {}
    BY DEF Inv, SavedOnce, Channel
  <2> QED  BY <2>1, <2>2, <2>3, SettleStep DEF WB!Next
<1>7. CASE Restart \/ UNCHANGED vars
  <2>1. UNCHANGED saveVars /\ gpc' = gpc
    BY <1>7 DEF Restart, vars, saveVars
  <2>2. UNCHANGED <<Channel, Jobs, saved, lost>>
    BY <2>1, QuietEffect DEF saveVars
  <2> QED  BY <2>1, <2>2, AnswerOrStutter DEF WB!Next
<1> QED  BY <1>1, <1>2, <1>3, <1>4, <1>5, <1>6, <1>7 DEF Next, Goroutine

(* Every behaviour of the service, crashes included, is one of WriteBehind. *)
THEOREM Implementation == Spec => KeepsPromise
<1>1. Inv /\ [Next]_vars => Inv'
  <2>1. Inv => TypeOK
    BY DEF Inv
  <2> QED  BY <2>1, TypeStep, SavedOnceStep, PlacesStep, PendingStep, AnswerStep, OrderStep
           DEF Inv
<1> QED  BY <1>1, InitInv, ImplementsInit, ImplementsStep, Invariance, PTL
         DEF Spec, KeepsPromise, WB!Spec
=============================================================================
