---------------------------- MODULE WSTransport -----------------------------
(***************************************************************************)
(* One connection to the WebSocket entrance of the chat service            *)
(* (game-chat-service/internal/transport/websocket.go): the handler, which *)
(* reads requests and answers them, and the goroutine that writes the      *)
(* answers, joined by the channel writeChan and the channel done.          *)
(*                                                                         *)
(* An answer is the number of the request it belongs to.  What             *)
(* HandleRequest does to the rest of the service is in ChatService; here   *)
(* only its result matters.                                                *)
(***************************************************************************)
EXTENDS Naturals, Sequences

CONSTANTS
    WriteCap,       \* capacity of writeChan (512)
    MaxRequests     \* bound: requests read from the connection

ASSUME WriteCapAssumption == WriteCap \in Nat
ASSUME MaxRequestsAssumption == MaxRequests \in Nat

VARIABLES
    conn,       \* "open", "broken" by the peer or the network, "closed" here
    hpc,        \* where the handler is
    read,       \* how many requests it has read; the last one is at hand
    writeChan,  \* the channel writeChan
    chanClosed, \* it has been closed
    wpc,        \* where the writer is; in "done", the channel done is closed
    wmsg,       \* the answer it is writing, 0 if none
    written     \* the answers written to the connection

handlerVars == <<hpc, read, chanClosed>>
writerVars == <<wpc, wmsg, written>>
vars == <<conn, handlerVars, writeChan, writerVars>>

Request == 1..MaxRequests

Init ==
    /\ conn = "open"
    /\ hpc = "read"
    /\ read = 0
    /\ writeChan = <<>>
    /\ chanClosed = FALSE
    /\ wpc = "range"
    /\ wmsg = 0
    /\ written = <<>>

(* Environment: the peer closes the connection, or the network breaks it. *)
Disconnect ==
    /\ conn = "open"
    /\ conn' = "broken"
    /\ UNCHANGED <<handlerVars, writeChan, writerVars>>

-----------------------------------------------------------------------------
(* The handler *)

(* Frames that are already buffered are read even after the peer has gone. *)
ReadMessage ==
    /\ hpc = "read" /\ read < MaxRequests
    /\ read' = read + 1
    /\ hpc' = "handle"
    /\ UNCHANGED <<conn, chanClosed, writeChan, writerVars>>

(* Mutant: goes on reading after an error. *)
ReadErrorIgnored ==
    /\ hpc = "read"
    /\ UNCHANGED vars

ReadError ==
    /\ hpc = "read"
    /\ hpc' = "wait"
    /\ UNCHANGED <<conn, read, chanClosed, writeChan, writerVars>>

(* The request does not parse, or HandleRequest returns an error. *)
NoAnswer ==
    /\ hpc = "handle"
    /\ hpc' = "read"
    /\ UNCHANGED <<conn, read, chanClosed, writeChan, writerVars>>

(* A request without a Base: the handler panics.  Its deferred function    *)
(* runs, and net/http recovers.                                            *)
Panic ==
    /\ hpc = "handle"
    /\ hpc' = "deferred"
    /\ UNCHANGED <<conn, read, chanClosed, writeChan, writerVars>>

(* Mutant: no bound on the queue. *)
AnswerUnbounded ==
    /\ hpc = "handle"
    /\ writeChan' = Append(writeChan, read)
    /\ hpc' = "read"
    /\ UNCHANGED <<conn, read, chanClosed, writerVars>>

(* HandleRequest succeeds.  The answer is queued without waiting; when     *)
(* writeChan is full it is dropped.                                        *)
Answer ==
    /\ hpc = "handle"
    /\ writeChan' = IF Len(writeChan) < WriteCap THEN Append(writeChan, read) ELSE writeChan
    /\ hpc' = "read"
    /\ UNCHANGED <<conn, read, chanClosed, writerVars>>

(* The receive from done at the end of the handler. *)
WaitDone ==
    /\ hpc = "wait" /\ wpc = "done"
    /\ hpc' = "deferred"
    /\ UNCHANGED <<conn, read, chanClosed, writeChan, writerVars>>

(* Mutant: the deferred function leaves the channel open. *)
LeaveChanOpen ==
    /\ hpc = "deferred"
    /\ hpc' = "close"
    /\ UNCHANGED <<conn, read, chanClosed, writeChan, writerVars>>

(* The deferred function, in two steps. *)
CloseChan ==
    /\ hpc = "deferred"
    /\ chanClosed' = TRUE
    /\ hpc' = "close"
    /\ UNCHANGED <<conn, read, writeChan, writerVars>>

CloseConn ==
    /\ hpc = "close"
    /\ conn' = "closed"
    /\ hpc' = "done"
    /\ UNCHANGED <<read, chanClosed, writeChan, writerVars>>

-----------------------------------------------------------------------------
(* The writer *)

(* Mutant: looks at the next answer without taking it off the channel. *)
PeekAnswer ==
    /\ wpc = "range" /\ writeChan # <<>>
    /\ wmsg' = Head(writeChan)
    /\ wpc' = "write"
    /\ UNCHANGED <<conn, handlerVars, writeChan, written>>

TakeAnswer ==
    /\ wpc = "range" /\ writeChan # <<>>
    /\ wmsg' = Head(writeChan)
    /\ writeChan' = Tail(writeChan)
    /\ wpc' = "write"
    /\ UNCHANGED <<conn, handlerVars, written>>

(* The range loop ends when the channel is closed and empty. *)
EndOfRange ==
    /\ wpc = "range" /\ writeChan = <<>> /\ chanClosed
    /\ wpc' = "done"
    /\ UNCHANGED <<conn, handlerVars, writeChan, wmsg, written>>

(* The operating system may take an answer for a peer that has gone. *)
WriteOk ==
    /\ wpc = "write" /\ conn # "closed"
    /\ written' = Append(written, wmsg)
    /\ wmsg' = 0
    /\ wpc' = "range"
    /\ UNCHANGED <<conn, handlerVars, writeChan>>

(* The connection is gone; or the handler has read a close frame or a      *)
(* malformed one, after which the WebSocket library refuses to write.      *)
WriteError ==
    /\ wpc = "write" /\ (conn # "open" \/ hpc = "wait")
    /\ wmsg' = 0
    /\ wpc' = "done"
    /\ UNCHANGED <<conn, handlerVars, writeChan, written>>

-----------------------------------------------------------------------------
Handle == NoAnswer \/ Panic \/ Answer
Leave == WaitDone \/ CloseChan \/ CloseConn
Handler == ReadMessage \/ ReadError \/ Handle \/ Leave
Write == WriteOk \/ WriteError
Writer == TakeAnswer \/ EndOfRange \/ Write

Next == Disconnect \/ Handler \/ Writer

Spec == Init /\ [][Next]_vars

(***************************************************************************)
(* A goroutine that can run runs.  A read of a connection that is gone     *)
(* ends with an error, after the finitely many frames that were buffered.  *)
(* A write to it returns; one to an open connection has no deadline and    *)
(* may wait for ever, for a peer that does not read.                       *)
(***************************************************************************)
Fairness ==
    /\ WF_vars(Handle)
    /\ WF_vars(Leave)
    /\ SF_vars(ReadError /\ conn # "open")
    /\ WF_vars(TakeAnswer \/ EndOfRange)
    /\ WF_vars(Write /\ conn # "open")

FairSpec == Spec /\ Fairness

-----------------------------------------------------------------------------
(* Properties *)

(* The type invariant; it includes the capacity of writeChan. *)
TypeOK ==
    /\ conn \in {"open", "broken", "closed"}
    /\ hpc \in {"read", "handle", "wait", "deferred", "close", "done"}
    /\ read \in 0..MaxRequests
    /\ writeChan \in Seq(Request)
    /\ Len(writeChan) <= WriteCap
    /\ chanClosed \in BOOLEAN
    /\ wpc \in {"range", "write", "done"}
    /\ wmsg \in Request \cup {0}
    /\ written \in Seq(Request)

Pipeline == written \o (IF wmsg = 0 THEN <<>> ELSE <<wmsg>>) \o writeChan

(* Answers leave in the order of their requests and each of them once,     *)
(* whichever of them were dropped for lack of room.                        *)
AnswersInOrder ==
    \A i, j \in DOMAIN Pipeline : i < j => Pipeline[i] < Pipeline[j]

(* The writer does not outlive the handler: whether the handler returned   *)
(* or panicked, the closed channel or the closed connection ends it.       *)
WriterEnds == hpc = "done" ~> wpc = "done"

(* Once a write has failed, the handler leaves too, and closes the         *)
(* connection.                                                             *)
FailedWriteReleases == wpc = "done" ~> hpc = "done"

(* websocket.go:128: at its end the handler waits for the writes to be     *)
(* completed; so it waits only as long as there is something to write.     *)
WaitCompletes == hpc = "wait" ~> hpc = "done"
=============================================================================
