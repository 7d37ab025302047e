---------------------------- MODULE ChatService -----------------------------
(***************************************************************************)
(* One chat service process (src/game-chat-service): a goroutine for every *)
(* request that arrives on its topic, the channel saveChan, and the pool   *)
(* of workers that write to the database.                                  *)
(*                                                                         *)
(* A request is one message of the topic; the gateways have checked that   *)
(* it has a Base.  The process may crash, for any reason (one in the code: *)
(* main.go goes on without a database, and the first save then panics in a *)
(* goroutine that nothing recovers); what it had in memory is gone.        *)
(***************************************************************************)
EXTENDS Naturals, Sequences

CONSTANTS
    Requests,       \* the messages of the topic
    Private,        \* those with a receiver: they are forwarded as well
    Malformed,      \* those that do not parse as a ChatRequest
    Workers,        \* the goroutines of the save pool (50)
    Nobody,         \* no request
    SaveCap,        \* capacity of saveChan (20000)
    MaxCrashes      \* bound: crashes of the process

ASSUME RequestAssumption ==
    Private \subseteq Requests /\ Malformed \subseteq Requests /\ Nobody \notin Requests
ASSUME SaveCapAssumption == SaveCap \in Nat
ASSUME MaxCrashesAssumption == MaxCrashes \in Nat

VARIABLES
    up,         \* the process runs
    crashes,    \* how often it has crashed
    gpc,        \* where the goroutine of each request is; "new": none yet
    saveChan,   \* the channel saveChan
    job,        \* the request each worker is saving
    saved,      \* the requests with a row in the database
    lost,       \* accepted requests that never will have one
    downstream  \* what was published to the topic "broadcast", in order

saveVars == <<saveChan, job, saved, lost>>
vars == <<up, crashes, gpc, saveVars, downstream>>

Forwarded(r) == [kind |-> "MessageBroadcast", req |-> r]
Acknowledged(r) == [kind |-> "ChatResponse", req |-> r]
Downstream == {Forwarded(r) : r \in Requests} \cup {Acknowledged(r) : r \in Requests}

Elements(seq) == {seq[i] : i \in DOMAIN seq}

Init ==
    /\ up = TRUE
    /\ crashes = 0
    /\ gpc = [r \in Requests |-> "new"]
    /\ saveChan = <<>>
    /\ job = [w \in Workers |-> Nobody]
    /\ saved = {}
    /\ lost = {}
    /\ downstream = <<>>

-----------------------------------------------------------------------------
(* The topic *)

(* The consumer loop starts a goroutine for the request. *)
Receive(r) ==
    /\ up /\ gpc[r] = "new"
    /\ gpc' = [gpc EXCEPT ![r] = "parse"]
    /\ UNCHANGED <<up, crashes, saveVars, downstream>>

(* Nobody is subscribed while the process is down. *)
Miss(r) ==
    /\ ~ up /\ gpc[r] = "new"
    /\ gpc' = [gpc EXCEPT ![r] = "dropped"]
    /\ UNCHANGED <<up, crashes, saveVars, downstream>>

-----------------------------------------------------------------------------
(* The goroutine of a request *)

DropMalformed(r) ==
    /\ gpc[r] = "parse" /\ r \in Malformed
    /\ gpc' = [gpc EXCEPT ![r] = "dropped"]
    /\ UNCHANGED <<up, crashes, saveVars, downstream>>

(* Mutant: saveChan without a bound. *)
AcceptUnbounded(r) ==
    /\ gpc[r] = "parse" /\ r \notin Malformed
    /\ saveChan' = Append(saveChan, r)
    /\ gpc' = [gpc EXCEPT ![r] = IF r \in Private THEN "forward" ELSE "ack"]
    /\ UNCHANGED <<up, crashes, job, saved, lost, downstream>>

(* HandleRequest puts the request into saveChan if there is room. *)
Accept(r) ==
    /\ gpc[r] = "parse" /\ r \notin Malformed
    /\ Len(saveChan) < SaveCap
    /\ saveChan' = Append(saveChan, r)
    /\ gpc' = [gpc EXCEPT ![r] = IF r \in Private THEN "forward" ELSE "ack"]
    /\ UNCHANGED <<up, crashes, job, saved, lost, downstream>>

(* Mutant: the overloaded service goes on as if the request were saved. *)
RejectButAnswer(r) ==
    /\ gpc[r] = "parse" /\ r \notin Malformed
    /\ Len(saveChan) >= SaveCap
    /\ gpc' = [gpc EXCEPT ![r] = "ack"]
    /\ UNCHANGED <<up, crashes, saveVars, downstream>>

(* A full saveChan is an error, and an error gets no answer. *)
Reject(r) ==
    /\ gpc[r] = "parse" /\ r \notin Malformed
    /\ Len(saveChan) >= SaveCap
    /\ gpc' = [gpc EXCEPT ![r] = "dropped"]
    /\ UNCHANGED <<up, crashes, saveVars, downstream>>

(* The broadcast to the receiver; a failed publication is only logged. *)
Forward(r) ==
    /\ gpc[r] = "forward"
    /\ \/ downstream' = Append(downstream, Forwarded(r))
       \/ UNCHANGED downstream
    /\ gpc' = [gpc EXCEPT ![r] = "ack"]
    /\ UNCHANGED <<up, crashes, saveVars>>

(* Mutant: a forwarding that failed is tried again after the answer. *)
AckThenRetry(r) ==
    /\ gpc[r] = "ack"
    /\ downstream' = Append(downstream, Acknowledged(r))
    /\ gpc' = [gpc EXCEPT ![r] = IF r \in Private /\ Forwarded(r) \notin Elements(downstream)
                                THEN "forward" ELSE "done"]
    /\ UNCHANGED <<up, crashes, saveVars>>

(* Mutant: the answer waits for the row in the database. *)
AckWhenSaved(r) ==
    /\ gpc[r] = "ack" /\ r \in saved
    /\ downstream' = Append(downstream, Acknowledged(r))
    /\ gpc' = [gpc EXCEPT ![r] = "done"]
    /\ UNCHANGED <<up, crashes, saveVars>>

(* The answer to the sender; a failed publication is only logged. *)
Ack(r) ==
    /\ gpc[r] = "ack"
    /\ \/ downstream' = Append(downstream, Acknowledged(r))
       \/ UNCHANGED downstream
    /\ gpc' = [gpc EXCEPT ![r] = "done"]
    /\ UNCHANGED <<up, crashes, saveVars>>

Goroutine(r) ==
    DropMalformed(r) \/ Accept(r) \/ Reject(r) \/ Forward(r) \/ Ack(r)

-----------------------------------------------------------------------------
(* The save pool *)

(* Mutant: leaves the request in the channel until it is saved. *)
PeekJob(w) ==
    /\ up /\ job[w] = Nobody /\ saveChan # <<>>
    /\ job' = [job EXCEPT ![w] = Head(saveChan)]
    /\ UNCHANGED <<up, crashes, gpc, saveChan, saved, lost, downstream>>

TakeJob(w) ==
    /\ up /\ job[w] = Nobody /\ saveChan # <<>>
    /\ job' = [job EXCEPT ![w] = Head(saveChan)]
    /\ saveChan' = Tail(saveChan)
    /\ UNCHANGED <<up, crashes, gpc, saved, lost, downstream>>

(* Mutant: a failed save goes back into the channel, without end. *)
SaveOrRequeue(w) ==
    /\ job[w] # Nobody
    /\ \/ saved' = saved \cup {job[w]} /\ UNCHANGED saveChan
       \/ saveChan' = Append(saveChan, job[w]) /\ UNCHANGED saved
    /\ job' = [job EXCEPT ![w] = Nobody]
    /\ UNCHANGED <<up, crashes, gpc, lost, downstream>>

(* SaveMessage inserts the row or fails; an error is only logged. *)
Save(w) ==
    /\ job[w] # Nobody
    /\ \/ saved' = saved \cup {job[w]} /\ UNCHANGED lost
       \/ lost' = lost \cup {job[w]} /\ UNCHANGED saved
    /\ job' = [job EXCEPT ![w] = Nobody]
    /\ UNCHANGED <<up, crashes, gpc, saveChan, downstream>>

-----------------------------------------------------------------------------
(* Crashes *)

Jobs == {job[w] : w \in Workers} \ {Nobody}

(* The database may have committed an insert whose answer never came. *)
Crash ==
    /\ up /\ crashes < MaxCrashes
    /\ up' = FALSE
    /\ crashes' = crashes + 1
    /\ gpc' = [r \in Requests |-> IF gpc[r] \in {"parse", "forward", "ack"}
                                 THEN "dead" ELSE gpc[r]]
    /\ \E C \in SUBSET Jobs :
           /\ saved' = saved \cup C
           /\ lost' = lost \cup Elements(saveChan) \cup (Jobs \ C)
    /\ saveChan' = <<>>
    /\ job' = [w \in Workers |-> Nobody]
    /\ UNCHANGED downstream

Restart ==
    /\ ~ up
    /\ up' = TRUE
    /\ UNCHANGED <<crashes, gpc, saveVars, downstream>>

-----------------------------------------------------------------------------
Next ==
    \/ \E r \in Requests : Receive(r) \/ Miss(r) \/ Goroutine(r)
    \/ \E w \in Workers : TakeJob(w) \/ Save(w)
    \/ Crash \/ Restart

Spec == Init /\ [][Next]_vars

(* Goroutines that can run do; Publish and the database answer in the end. *)
Fairness ==
    /\ \A r \in Requests : WF_vars(Goroutine(r))
    /\ \A w \in Workers : WF_vars(TakeJob(w) \/ Save(w))

FairSpec == Spec /\ Fairness

-----------------------------------------------------------------------------
(* Properties *)

(* The type invariant; it includes the capacity of saveChan. *)
TypeOK ==
    /\ up \in BOOLEAN
    /\ crashes \in 0..MaxCrashes
    /\ gpc \in [Requests -> {"new", "parse", "forward", "ack", "done", "dropped", "dead"}]
    /\ saveChan \in Seq(Requests)
    /\ Len(saveChan) <= SaveCap
    /\ job \in [Workers -> Requests \cup {Nobody}]
    /\ saved \subseteq Requests
    /\ lost \subseteq Requests
    /\ downstream \in Seq(Downstream)

(* The goroutine of r got past the push to saveChan. *)
Waiting(r) == r \in Elements(saveChan)
Taken(r) == r \in Jobs

(* A request waits, is being saved, is saved or is lost, never two of them *)
(* and never twice: however the goroutines, the workers and a crash        *)
(* interleave, no request gets two rows, and none is saved after it has    *)
(* been given up.                                                          *)
SavedOnce ==
    /\ \A i, j \in DOMAIN saveChan : saveChan[i] = saveChan[j] => i = j
    /\ \A v, w \in Workers : job[v] = job[w] /\ job[v] # Nobody => v = w
    /\ Elements(saveChan) \cap Jobs = {}
    /\ (Elements(saveChan) \cup Jobs) \cap (saved \cup lost) = {}
    /\ saved \cap lost = {}

(* A sender is answered only if the request was accepted: it waits, is     *)
(* being saved, is saved or is lost.  A request that was turned away or    *)
(* dropped leaves no trace, downstream or in the database.                 *)
AnswerMeansAccepted ==
    \A r \in Requests :
        \/ Acknowledged(r) \in Elements(downstream)
        \/ Forwarded(r) \in Elements(downstream)
        => Waiting(r) \/ Taken(r) \/ r \in saved \cup lost

(* Downstream, the message to the receiver comes before the answer to the  *)
(* sender, and each of them once.                                          *)
ForwardedThenAcknowledged ==
    \A i, j \in DOMAIN downstream :
        i < j => /\ downstream[i] # downstream[j]
                 /\ \A r \in Requests :
                        ~ (downstream[i] = Acknowledged(r) /\ downstream[j] = Forwarded(r))

(* game-protocols/chat/chat_message.proto:36: the message_id of the answer *)
(* is the unique ID of the message in the database; so a request that was  *)
(* answered is never one that will have no row.                            *)
AcknowledgedHasRow ==
    \A r \in Requests : Acknowledged(r) \in Elements(downstream) => r \notin lost

(* The goroutine of a request ends; it waits neither for room in saveChan  *)
(* nor for the database.                                                   *)
EveryRequestHandled ==
    \A r \in Requests : gpc[r] = "parse" ~> gpc[r] \in {"done", "dropped", "dead"}

(* An accepted request does not stay in memory: it is saved, or lost.      *)
EverySaveEnds ==
    \A r \in Requests : Waiting(r) ~> r \in saved \cup lost

(* The service implements WriteBehind. *)
Status(r) ==
    IF r \in saved THEN "stored"
    ELSE IF r \in lost THEN "lost"
    ELSE IF Waiting(r) \/ Taken(r) THEN "accepted"
    ELSE IF gpc[r] = "dropped" THEN "refused"
    ELSE "new"

WB == INSTANCE WriteBehind WITH
          status <- [r \in Requests |-> Status(r)],
          answered <- {r \in Requests : Acknowledged(r) \in Elements(downstream)}

(* Every step of the service, crashes included, is a step of WriteBehind:  *)
(* it keeps the promise that module states.                                *)
KeepsPromise == WB!Spec
=============================================================================
