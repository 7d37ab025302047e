-------------------------- MODULE WSTransportProofs --------------------------
(***************************************************************************)
(* Proofs about WSTransport, for any capacity of writeChan and any number  *)
(* of requests.                                                            *)
(*                                                                         *)
(* The order of the answers is inductive together with the fact that no    *)
(* answer is to a later request than the last one read, and none yet to    *)
(* that one while the handler is at it.                                    *)
(***************************************************************************)
EXTENDS WSTransport, SortedQueues, TLAPS

USE WriteCapAssumption, MaxRequestsAssumption

Writing == wpc = "write" <=> wmsg # 0

AtHand == hpc = "handle" => read # 0

Unanswered == hpc = "handle" => \A i \in DOMAIN Pipeline : Pipeline[i] < read

Inv ==
    /\ TypeOK
    /\ Writing
    /\ AtHand
    /\ Sorted(Pipeline)
    /\ UpTo(Pipeline, read)
    /\ Unanswered

(* The initial state satisfies every part of the invariant. *)
LEMMA InitInv == Init => Inv
<1> SUFFICES ASSUME Init PROVE Inv
  OBVIOUS
<1>1. writeChan = <<>> /\ written = <<>> /\ wmsg = 0 /\ Len(writeChan) = 0
  BY DEF Init
<1>2. Pipeline = <<>>
  BY <1>1 DEF Pipeline
<1>3. Sorted(Pipeline) /\ UpTo(Pipeline, read) /\ Unanswered
  BY <1>2 DEF Sorted, UpTo, Unanswered
<1>4. <<>> \in Seq(Request) /\ 0 \in 0..MaxRequests /\ 0 <= WriteCap
  OBVIOUS
<1>5. TypeOK /\ Writing /\ AtHand
  BY <1>1, <1>4 DEF Init, TypeOK, Writing, AtHand
<1> QED  BY <1>3, <1>5 DEF Inv

(* The parts of the pipeline are sequences of numbers. *)
LEMMA PipelineParts ==
    ASSUME TypeOK
    PROVE  /\ written \in Seq(Nat) /\ writeChan \in Seq(Nat) /\ Pipeline \in Seq(Nat)
           /\ wmsg = 0 => Pipeline = written \o writeChan
           /\ wmsg # 0 => wmsg \in Nat /\ Pipeline = (written \o <<wmsg>>) \o writeChan
<1>1. Request \subseteq Nat
  BY DEF Request
<1>2. written \in Seq(Nat) /\ writeChan \in Seq(Nat)
  BY <1>1, SeqMonotonic DEF TypeOK
<1>3. CASE wmsg = 0
  <2>1. Pipeline = written \o <<>> \o writeChan
    BY <1>3 DEF Pipeline
  <2>2. written \o <<>> = written
    BY <1>2
  <2> QED  BY <1>2, <1>3, <2>1, <2>2
<1>4. CASE wmsg # 0
  <2>1. wmsg \in Nat
    BY <1>1, <1>4 DEF TypeOK
  <2>2. Pipeline = (written \o <<wmsg>>) \o writeChan
    BY <1>4 DEF Pipeline
  <2>3. written \o <<wmsg>> \in Seq(Nat)
    BY <1>2, <2>1
  <2> QED  BY <1>2, <1>4, <2>1, <2>2, <2>3
<1> QED  BY <1>3, <1>4

(* Every step keeps the types and the capacity of writeChan. *)
LEMMA TypeStep == Inv /\ [Next]_vars => TypeOK' /\ Writing' /\ AtHand'
<1> SUFFICES ASSUME Inv, [Next]_vars PROVE TypeOK' /\ Writing' /\ AtHand'
  OBVIOUS
<1>0. TypeOK /\ Writing /\ AtHand
  BY DEF Inv
<1> USE <1>0 DEF TypeOK, Writing, AtHand, handlerVars, writerVars
<1>1. CASE Disconnect
  BY <1>1 DEF Disconnect
<1>2. CASE ReadMessage
  BY <1>2 DEF ReadMessage
<1>3. CASE ReadError \/ NoAnswer \/ Panic \/ WaitDone \/ CloseChan \/ CloseConn
  BY <1>3 DEF ReadError, NoAnswer, Panic, WaitDone, CloseChan, CloseConn
<1>4. CASE Answer
  <2>1. read \in Request
    BY <1>4 DEF Answer, Request
  <2> QED  BY <1>4, <2>1 DEF Answer
<1>5. CASE TakeAnswer
  BY <1>5 DEF TakeAnswer, Request
<1>6. CASE EndOfRange
  BY <1>6 DEF EndOfRange
<1>7. CASE WriteOk
  BY <1>7 DEF WriteOk
<1>8. CASE WriteError
  BY <1>8 DEF WriteError
<1>9. CASE UNCHANGED vars
  BY <1>9 DEF vars
<1> QED  BY <1>1, <1>2, <1>3, <1>4, <1>5, <1>6, <1>7, <1>8, <1>9
         DEF Next, Handler, Handle, Leave, Writer, Write

(* A step that leaves the pipeline and the request at hand alone. *)
LEMMA PipelineSame ==
    ASSUME Inv, Pipeline' = Pipeline, read' = read, hpc' = "handle" => hpc = "handle"
    PROVE  Sorted(Pipeline)' /\ UpTo(Pipeline, read)' /\ Unanswered'
BY DEF Inv, Unanswered

(* Only an answer to the last request read is added, and once. *)
LEMMA OrderStep ==
    Inv /\ [Next]_vars => Sorted(Pipeline)' /\ UpTo(Pipeline, read)' /\ Unanswered'
<1> SUFFICES ASSUME Inv, [Next]_vars
             PROVE  Sorted(Pipeline)' /\ UpTo(Pipeline, read)' /\ Unanswered'
  OBVIOUS
<1>0. TypeOK /\ Writing /\ TypeOK' /\ Writing' /\ read \in Nat
  BY TypeStep DEF Inv, TypeOK
<1>p. /\ written \in Seq(Nat) /\ writeChan \in Seq(Nat) /\ Pipeline \in Seq(Nat)
  BY <1>0, PipelineParts
<1>n. \A i \in DOMAIN Pipeline : Pipeline[i] \in Nat
  BY ONLY <1>p, ElementIn
<1> USE DEF handlerVars, writerVars
<1>1. ASSUME UNCHANGED <<writeChan, wmsg, written>> PROVE Pipeline' = Pipeline
  BY <1>1 DEF Pipeline
<1>2. CASE ReadMessage
  <2>1. Pipeline' = Pipeline /\ read' = read + 1
    BY <1>1, <1>2 DEF ReadMessage
  <2>2. \A i \in DOMAIN Pipeline : Pipeline[i] < read + 1 /\ Pipeline[i] <= read + 1
    BY <1>0, <1>n DEF Inv, UpTo
  <2> QED  BY <2>1, <2>2 DEF Inv, UpTo, Unanswered
<1>3. CASE Answer
  <2>1. /\ hpc = "handle" /\ hpc' = "read" /\ read' = read
        /\ UNCHANGED <<wmsg, written>>
    BY <1>3 DEF Answer
  <2>2. CASE writeChan' = writeChan
    BY <1>1, <2>1, <2>2, PipelineSame
  <2>3. CASE writeChan' = Append(writeChan, read)
    <3> DEFINE D == written \o (IF wmsg = 0 THEN <<>> ELSE <<wmsg>>)
               P == Pipeline
    <3>1. D \in Seq(Nat)
      BY <1>0, <1>p, PipelineParts
    <3>2. P = D \o writeChan /\ P' = D \o Append(writeChan, read)
      BY <2>1, <2>3 DEF Pipeline
    <3>3. P \in Seq(Nat) /\ writeChan \in Seq(Nat) /\ read \in Nat
      BY <1>0, <1>p
    <3>4. Sorted(P) /\ \A i \in DOMAIN P : P[i] < read
      BY <2>1 DEF Inv, Unanswered
    <3> HIDE DEF D, P
    <3>5. P' = Append(P, read)
      BY ONLY <3>1, <3>2, <3>3, AppendLast
    <3>6. Sorted(Append(P, read)) /\ UpTo(Append(P, read), read)
      BY ONLY <3>3, <3>4, AppendSorted
    <3>7. Sorted(P') /\ UpTo(P', read')
      BY <2>1, <3>5, <3>6
    <3>8. Unanswered'
      BY <2>1 DEF Unanswered
    <3> QED  BY <3>7, <3>8 DEF P
  <2> QED  BY <1>3, <2>2, <2>3 DEF Answer
<1>4. CASE TakeAnswer
  <2>1. /\ writeChan # <<>> /\ wmsg' = Head(writeChan) /\ writeChan' = Tail(writeChan)
        /\ wpc = "range" /\ wpc' = "write"
        /\ written' = written /\ hpc' = hpc /\ read' = read
    BY <1>4 DEF TakeAnswer
  <2>2. wmsg = 0 /\ wmsg' # 0
    BY <1>0, <2>1 DEF Writing
  <2>3. Pipeline = written \o writeChan
    BY <1>0, <2>2, PipelineParts
  <2>4. Pipeline' = (written \o <<Head(writeChan)>>) \o Tail(writeChan)
    BY <2>1, <2>2 DEF Pipeline
  <2>5. (written \o <<Head(writeChan)>>) \o Tail(writeChan) = written \o writeChan
    BY ONLY <1>p, <2>1, MoveHead
  <2> QED  BY <2>1, <2>3, <2>4, <2>5, PipelineSame
<1>5. CASE WriteOk
  <2>1. /\ wpc = "write" /\ written' = Append(written, wmsg) /\ wmsg' = 0
        /\ writeChan' = writeChan /\ hpc' = hpc /\ read' = read
    BY <1>5 DEF WriteOk
  <2>2. wmsg \in Nat /\ Pipeline = (written \o <<wmsg>>) \o writeChan
    BY <1>0, <2>1, PipelineParts DEF Writing
  <2>3. Append(written, wmsg) = written \o <<wmsg>>
    BY <1>p, <2>2
  <2>4. written' \o <<>> = written'
    BY <1>p, <2>1, <2>2
  <2>5. Pipeline' = written' \o writeChan'
    BY <2>1, <2>4 DEF Pipeline
  <2> QED  BY <2>1, <2>2, <2>3, <2>5, PipelineSame
<1>6. CASE WriteError
  <2>1. /\ wpc = "write" /\ written' = written /\ wmsg' = 0
        /\ writeChan' = writeChan /\ hpc' = hpc /\ read' = read
    BY <1>6 DEF WriteError
  <2>2. wmsg \in Nat /\ Pipeline = (written \o <<wmsg>>) \o writeChan
    BY <1>0, <2>1, PipelineParts DEF Writing
  <2>3. written \o <<>> = written
    BY <1>p
  <2>4. Pipeline' = written \o writeChan
    BY <2>1, <2>3 DEF Pipeline
  <2>5. /\ Sorted((written \o <<wmsg>>) \o writeChan)
        /\ UpTo((written \o <<wmsg>>) \o writeChan, read)
    BY <2>2 DEF Inv
  <2>6. /\ Sorted(written \o writeChan) /\ UpTo(written \o writeChan, read)
        /\ \A i \in DOMAIN (written \o writeChan) :
               \E k \in DOMAIN ((written \o <<wmsg>>) \o writeChan) :
                   (written \o writeChan)[i] = ((written \o <<wmsg>>) \o writeChan)[k]
    <3>1. written \in Seq(Nat) /\ writeChan \in Seq(Nat) /\ wmsg \in Nat /\ read \in Nat
      BY <1>0, <1>p, <2>2
    <3> QED  BY ONLY <2>5, <3>1, LossSorted
  <2>7. Unanswered'
    BY <2>1, <2>2, <2>4, <2>6 DEF Inv, Unanswered
  <2> QED  BY <2>1, <2>4, <2>6, <2>7
<1>7. CASE Disconnect \/ ReadError \/ NoAnswer \/ Panic \/ WaitDone \/ CloseChan
               \/ CloseConn \/ EndOfRange \/ UNCHANGED vars
  BY <1>1, <1>7, PipelineSame DEF Disconnect, ReadError, NoAnswer, Panic, WaitDone, CloseChan,
                                  CloseConn, EndOfRange, vars
<1> QED  BY <1>2, <1>3, <1>4, <1>5, <1>6, <1>7
         DEF Next, Handler, Handle, Leave, Writer, Write

(* The inductive invariant holds in every reachable state. *)
LEMMA Invariance == Spec => []Inv
<1>1. Inv /\ [Next]_vars => Inv'
  BY TypeStep, OrderStep DEF Inv
<1> QED  BY <1>1, InitInv, PTL DEF Spec

(* The state keeps its types, and writeChan its capacity. *)
THEOREM TypeCorrect == Spec => []TypeOK
<1>1. Inv => TypeOK
  BY DEF Inv
<1> QED  BY <1>1, Invariance, PTL

(* Whatever is dropped or lost, the answers leave in the order of their    *)
(* requests and each of them once.                                         *)
THEOREM AnsweredInOrder == Spec => []AnswersInOrder
<1>1. Inv => AnswersInOrder
  BY DEF Inv, Sorted, AnswersInOrder
<1> QED  BY <1>1, Invariance, PTL
=============================================================================
