---------------------------- MODULE SortedQueues -----------------------------
(***************************************************************************)
(* Sequences of numbers that increase, as the queues of this system hold   *)
(* them.  A queue of several parts is the concatenation of its parts:      *)
(* passing an element from one part to the next leaves it as it is, losing *)
(* one takes an element out of the middle.                                 *)
(***************************************************************************)
EXTENDS Naturals, Sequences, SequenceTheorems, TLAPS

Sorted(s) == \A i, j \in DOMAIN s : i < j => s[i] < s[j]

(* No element is greater than n. *)
UpTo(s, n) == \A i \in DOMAIN s : s[i] <= n

(* What is in a sequence over S is in S. *)
LEMMA ElementIn ==
    ASSUME NEW S, NEW q \in Seq(S), NEW i \in DOMAIN q
    PROVE  q[i] \in S
OBVIOUS

(* What is in a queue after something was added, and after its head left. *)
LEMMA AppendElements ==
    ASSUME NEW S, NEW q \in Seq(S), NEW e \in S, NEW n \in DOMAIN Append(q, e)
    PROVE  /\ Append(q, e) \in Seq(S)
           /\ \/ n \in DOMAIN q /\ Append(q, e)[n] = q[n] /\ n < Len(q) + 1
              \/ n = Len(q) + 1 /\ Append(q, e)[n] = e
<1>1. Append(q, e) \in Seq(S)
  OBVIOUS
<1>2. \/ n \in DOMAIN q /\ Append(q, e)[n] = q[n] /\ n < Len(q) + 1
      \/ n = Len(q) + 1 /\ Append(q, e)[n] = e
  OBVIOUS
<1> QED  BY <1>1, <1>2

LEMMA TailElements ==
    ASSUME NEW S, NEW q \in Seq(S), q # <<>>, NEW n \in DOMAIN Tail(q)
    PROVE  /\ n \in Nat \ {0} /\ n + 1 \in DOMAIN q /\ Tail(q)[n] = q[n + 1]
           /\ 1 \in DOMAIN q /\ Head(q) = q[1]
OBVIOUS

(* An element greater than all of a queue may be appended to it. *)
LEMMA AppendSorted ==
    ASSUME NEW s \in Seq(Nat), NEW m \in Nat, Sorted(s), \A i \in DOMAIN s : s[i] < m
    PROVE  /\ Sorted(Append(s, m)) /\ UpTo(Append(s, m), m)
           /\ \A i \in DOMAIN Append(s, m) :
                  Append(s, m)[i] = m \/ \E k \in DOMAIN s : Append(s, m)[i] = s[k]
<1> DEFINE t == Append(s, m)
<1>1. DOMAIN t = 1..(Len(s) + 1) /\ DOMAIN s = 1..Len(s) /\ Len(s) \in Nat
  OBVIOUS
<1>2. \A i \in DOMAIN t : t[i] \in Nat /\ t[i] = IF i \in DOMAIN s THEN s[i] ELSE m
  BY <1>1
<1> HIDE DEF t
<1>4. ASSUME NEW i \in DOMAIN t, NEW j \in DOMAIN t, i < j PROVE t[i] < t[j]
  <2>1. i \in DOMAIN s
    BY <1>1, <1>4
  <2>2. CASE j \in DOMAIN s
    BY <1>2, <1>4, <2>1, <2>2 DEF Sorted
  <2>3. CASE j \notin DOMAIN s
    BY <1>2, <1>4, <2>1, <2>3
  <2> QED  BY <2>2, <2>3
<1>5. UpTo(t, m)
  <2>1. \A i \in DOMAIN t : t[i] = m \/ t[i] < m
    BY <1>2
  <2> QED  BY <1>2, <2>1 DEF UpTo
<1>6. \A i \in DOMAIN t : t[i] = m \/ \E k \in DOMAIN s : t[i] = s[k]
  BY <1>2
<1> QED  BY <1>4, <1>5, <1>6 DEF Sorted, t

(* A queue from which an element is lost stays in order. *)
LEMMA LossSorted ==
    ASSUME NEW s \in Seq(Nat), NEW e \in Nat, NEW t \in Seq(Nat), NEW n \in Nat,
           Sorted((s \o <<e>>) \o t), UpTo((s \o <<e>>) \o t, n)
    PROVE  /\ Sorted(s \o t) /\ UpTo(s \o t, n)
           /\ \A i \in DOMAIN (s \o t) :
                  \E k \in DOMAIN ((s \o <<e>>) \o t) : (s \o t)[i] = ((s \o <<e>>) \o t)[k]
<1> DEFINE long == (s \o <<e>>) \o t
           short == s \o t
           at(i) == IF i <= Len(s) THEN i ELSE i + 1
<1>1. /\ short \in Seq(Nat) /\ Len(short) = Len(s) + Len(t)
      /\ long \in Seq(Nat) /\ Len(long) = Len(s) + 1 + Len(t)
      /\ Len(s) \in Nat /\ Len(t) \in Nat
  OBVIOUS
<1>2. \A i \in DOMAIN short : at(i) \in DOMAIN long /\ short[i] = long[at(i)]
  <2>1. \A i \in DOMAIN short : short[i] = IF i <= Len(s) THEN s[i] ELSE t[i - Len(s)]
    BY <1>1
  <2>2. s \o <<e>> \in Seq(Nat) /\ Len(s \o <<e>>) = Len(s) + 1
    OBVIOUS
  <2>3. \A k \in 1..Len(s) : (s \o <<e>>)[k] = s[k]
    OBVIOUS
  <2>4. \A k \in DOMAIN long :
            long[k] = IF k <= Len(s) + 1 THEN (s \o <<e>>)[k] ELSE t[k - (Len(s) + 1)]
    BY <1>1, <2>2
  <2>5. ASSUME NEW i \in DOMAIN short, i <= Len(s)
        PROVE  at(i) \in DOMAIN long /\ short[i] = long[at(i)]
    <3>1. at(i) = i /\ i \in 1..Len(s) /\ i \in DOMAIN long
      BY <1>1, <2>5
    <3> QED  BY <2>1, <2>3, <2>4, <2>5, <3>1
  <2>6. ASSUME NEW i \in DOMAIN short, ~ i <= Len(s)
        PROVE  at(i) \in DOMAIN long /\ short[i] = long[at(i)]
    <3>1. at(i) = i + 1 /\ i + 1 \in DOMAIN long /\ ~ i + 1 <= Len(s) + 1
      BY <1>1, <2>6
    <3>2. (i + 1) - (Len(s) + 1) = i - Len(s)
      BY <1>1
    <3> QED  BY <2>1, <2>4, <2>6, <3>1, <3>2
  <2> QED  BY <2>5, <2>6
<1>3. \A i, j \in DOMAIN short : i < j => at(i) < at(j)
  BY <1>1
<1> HIDE DEF long, short, at
<1>4. Sorted(short)
  BY <1>2, <1>3 DEF Sorted, long
<1>5. UpTo(short, n)
  BY <1>2 DEF UpTo, long
<1>6. \A i \in DOMAIN short : \E k \in DOMAIN long : short[i] = long[k]
  BY <1>2
<1> QED  BY <1>4, <1>5, <1>6 DEF short, long

(* The first part of an ordered queue is in order. *)
LEMMA PrefixSorted ==
    ASSUME NEW s \in Seq(Nat), NEW t \in Seq(Nat), Sorted(s \o t)
    PROVE  Sorted(s)
<1>1. \A i \in DOMAIN s : i \in DOMAIN (s \o t) /\ (s \o t)[i] = s[i]
  OBVIOUS
<1> QED  BY <1>1 DEF Sorted

(* The head of the second part may go to the first. *)
LEMMA MoveHead ==
    ASSUME NEW S, NEW s \in Seq(S), NEW t \in Seq(S), t # <<>>
    PROVE  /\ (s \o <<Head(t)>>) \o Tail(t) = s \o t
           /\ Append(s, Head(t)) \o Tail(t) = s \o t
           /\ Head(t) \in S /\ Tail(t) \in Seq(S)
<1>1. Head(t) \in S /\ Tail(t) \in Seq(S) /\ <<Head(t)>> \in Seq(S)
  OBVIOUS
<1>2. <<Head(t)>> \o Tail(t) = t
  BY <1>1
<1>3. (s \o <<Head(t)>>) \o Tail(t) = s \o (<<Head(t)>> \o Tail(t))
  BY <1>1, ConcatAssociative
<1>4. Append(s, Head(t)) = s \o <<Head(t)>>
  BY <1>1
<1> QED  BY <1>1, <1>2, <1>3, <1>4

(* To append to the last part is to append to the whole. *)
LEMMA AppendLast ==
    ASSUME NEW S, NEW s \in Seq(S), NEW t \in Seq(S), NEW e \in S
    PROVE  s \o Append(t, e) = Append(s \o t, e)
OBVIOUS
=============================================================================
