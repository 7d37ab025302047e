----------------------------- MODULE StressTool ------------------------------
(***************************************************************************)
(* The stress tool (scripts/stress_go): main starts one goroutine for      *)
(* every user, each with a client of its own; their results go through a   *)
(* channel to the goroutine that adds them up, and main prints the totals. *)
(*                                                                         *)
(* The gateway and the chat service are the environment: they forward each *)
(* request to its receiver and then acknowledge it to its sender, each     *)
(* request by itself, and may lose either.  Request 0 of a user binds it,  *)
(* and names the user itself as the receiver.  A sender's ID is not 0      *)
(* (the IDs start at 2000).                                                *)
(***************************************************************************)
EXTENDS WireFormat, FiniteSets, FiniteSetsExt

CONSTANTS
    Concurrency,    \* how many users, 1..Concurrency in order of their IDs
    TotalNumber,    \* requests of each user
    DialAttempts,   \* how often a client dials before it gives up (3)
    MaxDuration     \* bound: how long a session lasts

ASSUME ParameterAssumption ==
    Concurrency \in Nat \ {0} /\ TotalNumber \in Nat \ {0}
    /\ DialAttempts \in Nat \ {0} /\ MaxDuration \in Nat \ {0}

VARIABLES
    mpc,        \* where main is (Dispose)
    started,    \* how many users it has started
    upc,        \* where the goroutine of each user is
    attempt,    \* failed attempts to dial
    messages,   \* MessagesSent and MessagesRecv of each result
    stage,      \* environment: what has become of each request
    inbox,      \* the packets on each client's connection
    resultChan, \* results on their way to the collector
    closed,     \* resultChan is closed
    collecting, \* the collector is running
    counted,    \* how many results of each user it has taken
    totals      \* what it has added up

userVars == <<upc, attempt, messages>>
envVars == <<stage, inbox>>
statVars == <<resultChan, closed, collecting, counted, totals>>
vars == <<mpc, started, userVars, envVars, statVars>>

User == 1..Concurrency
Request == 0..TotalNumber

(* The users form a ring. *)
Receiver(u, k) == IF k = 0 THEN u ELSE (u % Concurrency) + 1

Success(u) == messages[u].recv = TotalNumber

(* min starts above every duration. *)
NewStatistics ==
    [success |-> 0, failure |-> 0, sent |-> 0, recv |-> 0,
     latency |-> 0, min |-> MaxDuration + 1, max |-> 0]

Init ==
    /\ mpc = "start"
    /\ started = 0
    /\ upc = [u \in User |-> "off"]
    /\ attempt = [u \in User |-> 0]
    /\ messages = [u \in User |-> [sent |-> 0, recv |-> 0]]
    /\ stage = [u \in User |-> [k \in Request |-> "none"]]
    /\ inbox = [u \in User |-> <<>>]
    /\ resultChan = <<>>
    /\ closed = FALSE
    /\ collecting = TRUE
    /\ counted = [u \in User |-> 0]
    /\ totals = NewStatistics

-----------------------------------------------------------------------------
(* The packets: kind of the payload, whose request it is about, and to whom *)

FieldsOf(p) ==
    IF p.kind = "MessageBroadcast"
    THEN Marshal(p.kind, [n \in DOMAIN WireTypes[p.kind] |->
             CASE n = MessageBroadcast.sender_id -> p.from
               [] n = MessageBroadcast.target_user_id -> p.to
               [] n \in {MessageBroadcast.message_id, MessageBroadcast.content,
                         MessageBroadcast.timestamp} -> 1
               [] OTHER -> 0])
    ELSE Marshal(p.kind, [n \in DOMAIN WireTypes[p.kind] |->
             CASE n = ChatResponse.target_user_id -> p.to
               [] n \in {ChatResponse.base, ChatResponse.success,
                         ChatResponse.message_id, ChatResponse.timestamp} -> 1
               [] OTHER -> 0])

(* Bind and ReceiveMessages try the payload as a ChatResponse ...          *)
ReadsAsAck(p) == Unmarshal("ChatResponse", FieldsOf(p))[ChatResponse.success] # 0

(* ... and ReceiveMessages before that as a message of somebody else.      *)
ReadsAsMessage(u, p) ==
    LET bc == Unmarshal("MessageBroadcast", FieldsOf(p)) IN
    bc[MessageBroadcast.content] # 0 /\ bc[MessageBroadcast.sender_id] # u

(* Environment: a packet reaches a client if its first request has bound   *)
(* it and it will still read.                                              *)
Deliver(kind, u, to) ==
    inbox' = IF upc[to] \in {"binding", "send", "receive"}
             THEN [inbox EXCEPT ![to] = Append(@, [kind |-> kind, from |-> u, to |-> to])]
             ELSE inbox

(* The message to the receiver ... *)
Forward(u, k) ==
    /\ stage[u][k] = "sent"
    /\ stage' = [stage EXCEPT ![u][k] = "forwarded"]
    /\ Deliver("MessageBroadcast", u, Receiver(u, k))
    /\ UNCHANGED <<mpc, started, userVars, statVars>>

(* ... and then the answer to the sender.  A message that is lost is one   *)
(* for which its step is not taken.                                        *)
Acknowledge(u, k) ==
    /\ stage[u][k] \in {"sent", "forwarded"}
    /\ stage' = [stage EXCEPT ![u][k] = "acknowledged"]
    /\ Deliver("ChatResponse", u, u)
    /\ UNCHANGED <<mpc, started, userVars, statVars>>

-----------------------------------------------------------------------------
(* The goroutine of a user *)

OnlyUser == UNCHANGED <<mpc, started, statVars>>

Goto(u, label) == upc' = [upc EXCEPT ![u] = label]

(* (attempt is not read any more, and goes back to 0.) *)
NewGameChatClient(u) ==
    /\ upc[u] = "dial"
    /\ Goto(u, "bind")
    /\ attempt' = [attempt EXCEPT ![u] = 0]
    /\ UNCHANGED <<messages, envVars>> /\ OnlyUser

(* Mutant: tries until it succeeds. *)
TryForever(u) ==
    /\ upc[u] = "dial"
    /\ attempt' = [attempt EXCEPT ![u] = @ + 1]
    /\ Goto(u, "dial")
    /\ UNCHANGED <<messages, envVars>> /\ OnlyUser

(* The client is not connected: the goroutine tries again, a few times. *)
TryAgain(u) ==
    /\ upc[u] = "dial"
    /\ \/ /\ attempt[u] + 1 < DialAttempts
          /\ attempt' = [attempt EXCEPT ![u] = @ + 1]
          /\ Goto(u, "dial")
       \/ /\ attempt[u] + 1 = DialAttempts
          /\ attempt' = [attempt EXCEPT ![u] = 0]
          /\ Goto(u, "result")
    /\ UNCHANGED <<messages, envVars>> /\ OnlyUser

(* Bind up to its loop.  A failed write ends it. *)
SendBind(u) ==
    /\ upc[u] = "bind"
    /\ \/ Goto(u, "binding") /\ stage' = [stage EXCEPT ![u][0] = "sent"]
       \/ Goto(u, "result") /\ UNCHANGED stage
    /\ UNCHANGED <<attempt, messages, inbox>> /\ OnlyUser

ReadBind(u) ==
    /\ upc[u] = "binding" /\ inbox[u] # <<>>
    /\ Goto(u, IF ReadsAsAck(Head(inbox[u])) THEN "send" ELSE "binding")
    /\ inbox' = [inbox EXCEPT ![u] = Tail(@)]
    /\ UNCHANGED <<attempt, messages, stage>> /\ OnlyUser

(* Mutant: no deadline while RunTest waits for an answer. *)
ReadErrorOfBind(u) ==
    /\ upc[u] = "binding"
    /\ Goto(u, "result")
    /\ UNCHANGED <<attempt, messages, envVars>> /\ OnlyUser

(* The connection breaks, or the ten seconds are over. *)
ReadError(u) ==
    /\ upc[u] \in {"binding", "receive"}
    /\ Goto(u, "result")
    /\ UNCHANGED <<attempt, messages, envVars>> /\ OnlyUser

(* A round of RunTest: the next message is sent and counted, or the write  *)
(* fails.                                                                  *)
SendMessage(u) ==
    /\ upc[u] = "send"
    /\ \/ /\ stage' = [stage EXCEPT ![u][messages[u].sent + 1] = "sent"]
          /\ messages' = [messages EXCEPT ![u].sent = @ + 1]
          /\ Goto(u, "receive")
       \/ Goto(u, "result") /\ UNCHANGED <<stage, messages>>
    /\ UNCHANGED <<attempt, inbox>> /\ OnlyUser

(* ReceiveMessages(1): the first packet that counts ends the round. *)
ReceiveMessage(u) ==
    /\ upc[u] = "receive" /\ inbox[u] # <<>>
    /\ LET p == Head(inbox[u]) IN
       IF ReadsAsMessage(u, p) \/ ReadsAsAck(p)
       THEN /\ messages' = [messages EXCEPT ![u].recv = @ + 1]
            /\ Goto(u, IF messages[u].sent < TotalNumber THEN "send" ELSE "result")
       ELSE UNCHANGED <<upc, messages>>
    /\ inbox' = [inbox EXCEPT ![u] = Tail(@)]
    /\ UNCHANGED <<attempt, stage>> /\ OnlyUser

(* AddResult, with the duration of the session, which only a successful    *)
(* one is asked for.  The channel has room for ten results of every user.  *)
(* What the client has not read by now, it never will.                     *)
AddResult(u) ==
    /\ upc[u] = "result"
    /\ \E d \in IF Success(u) THEN 1..MaxDuration ELSE {1} :
           resultChan' = Append(resultChan, [user |-> u, duration |-> d])
    /\ inbox' = [inbox EXCEPT ![u] = <<>>]
    /\ Goto(u, "close")
    /\ UNCHANGED <<mpc, started, attempt, messages, stage, closed, collecting, counted, totals>>

(* The deferred calls: Close, then wg.Done. *)
Done(u) ==
    /\ upc[u] = "close"
    /\ Goto(u, "done")
    /\ UNCHANGED <<attempt, messages, envVars>> /\ OnlyUser

RunUser(u) ==
    \/ NewGameChatClient(u) \/ TryAgain(u)
    \/ SendBind(u) \/ ReadBind(u) \/ ReadError(u)
    \/ SendMessage(u) \/ ReceiveMessage(u)
    \/ AddResult(u) \/ Done(u)

-----------------------------------------------------------------------------
(* Statistics *)

(* Mutant: "else if" for the largest. *)
AddSuccessElse(u, d) ==
    [success |-> totals.success + messages[u].sent,
     failure |-> totals.failure,
     sent |-> totals.sent + messages[u].sent,
     recv |-> totals.recv + messages[u].recv,
     latency |-> totals.latency + d,
     min |-> IF d < totals.min THEN d ELSE totals.min,
     max |-> IF d > totals.max /\ d >= totals.min THEN d ELSE totals.max]

AddSuccess(u, d) ==
    [success |-> totals.success + messages[u].sent,
     failure |-> totals.failure,
     sent |-> totals.sent + messages[u].sent,
     recv |-> totals.recv + messages[u].recv,
     latency |-> totals.latency + d,
     min |-> IF d < totals.min THEN d ELSE totals.min,
     max |-> IF d > totals.max THEN d ELSE totals.max]

(* Mutant: no second look at a session that sent everything and failed. *)
AddFailureUnsent(u) ==
    [totals EXCEPT !.failure = @ + TotalNumber - messages[u].sent,
                   !.sent = @ + messages[u].sent,
                   !.recv = @ + messages[u].recv]

(* The requests that were not sent; or all, if all were sent. *)
AddFailure(u) ==
    [totals EXCEPT !.failure = @ + IF messages[u].sent = TotalNumber
                                   THEN TotalNumber
                                   ELSE TotalNumber - messages[u].sent,
                   !.sent = @ + messages[u].sent,
                   !.recv = @ + messages[u].recv]

Collect ==
    /\ collecting /\ resultChan # <<>>
    /\ LET r == Head(resultChan) IN
       /\ totals' = IF Success(r.user) THEN AddSuccess(r.user, r.duration)
                                       ELSE AddFailure(r.user)
       /\ counted' = [counted EXCEPT ![r.user] = @ + 1]
    /\ resultChan' = Tail(resultChan)
    /\ UNCHANGED <<mpc, started, userVars, envVars, closed, collecting>>

EndCollect ==
    /\ collecting /\ resultChan = <<>> /\ closed
    /\ collecting' = FALSE
    /\ UNCHANGED <<mpc, started, userVars, envVars, resultChan, closed, counted, totals>>

Collector == Collect \/ EndCollect

-----------------------------------------------------------------------------
(* Dispose *)

StartUser ==
    /\ mpc = "start"
    /\ started' = started + 1
    /\ upc' = [upc EXCEPT ![started + 1] = "dial"]
    /\ mpc' = IF started + 1 = Concurrency THEN "wait" ELSE "start"
    /\ UNCHANGED <<attempt, messages, envVars, statVars>>

WaitUsers ==
    /\ mpc = "wait"
    /\ \A u \in User : upc[u] = "done"
    /\ mpc' = "progress"
    /\ UNCHANGED <<started, userVars, envVars, statVars>>

(* The goroutine that shows the progress does nothing but wait: it takes   *)
(* the stop signal, and ends, in one step with main's sending it.          *)
StopProgress ==
    /\ mpc = "progress"
    /\ mpc' = "stop"
    /\ UNCHANGED <<started, userVars, envVars, statVars>>

(* stats.Stop: close the channel, and wait for the collector. *)
CloseResults ==
    /\ mpc = "stop"
    /\ closed' = TRUE
    /\ mpc' = "collect"
    /\ UNCHANGED <<started, userVars, envVars, resultChan, collecting, counted, totals>>

(* Mutant: the report does not wait for the collector. *)
PrintReportAtOnce ==
    /\ mpc = "collect"
    /\ mpc' = "done"
    /\ UNCHANGED <<started, userVars, envVars, statVars>>

PrintReport ==
    /\ mpc = "collect" /\ ~ collecting
    /\ mpc' = "done"
    /\ UNCHANGED <<started, userVars, envVars, statVars>>

Dispose == StartUser \/ WaitUsers \/ StopProgress \/ CloseResults \/ PrintReport

Next ==
    \/ Dispose
    \/ Collector
    \/ \E u \in User : RunUser(u)
    \/ \E u \in User, k \in Request : Forward(u, k) \/ Acknowledge(u, k)

Spec == Init /\ [][Next]_vars

(* The goroutines run, and every read ends at its deadline.  Nothing is    *)
(* assumed of the gateway and the chat service.                            *)
Fairness ==
    /\ WF_vars(Dispose)
    /\ WF_vars(Collector)
    /\ \A u \in User : WF_vars(RunUser(u))

FairSpec == Spec /\ Fairness

-----------------------------------------------------------------------------
(* Properties *)

Packets ==
    [kind : {"MessageBroadcast", "ChatResponse"}, from : User, to : User]

(* The type invariant; it includes the capacity of resultChan, which no    *)
(* AddResult ever waits for.                                               *)
TypeOK ==
    /\ mpc \in {"start", "wait", "progress", "stop", "collect", "done"}
    /\ started \in 0..Concurrency
    /\ upc \in [User -> {"off", "dial", "bind", "binding", "send", "receive",
                         "result", "close", "done"}]
    /\ attempt \in [User -> 0..(DialAttempts - 1)]
    /\ messages \in [User -> [sent : 0..TotalNumber, recv : 0..TotalNumber]]
    /\ stage \in [User -> [Request -> {"none", "sent", "forwarded", "acknowledged"}]]
    /\ inbox \in [User -> Seq(Packets)]
    /\ resultChan \in Seq([user : User, duration : 1..MaxDuration])
    /\ Len(resultChan) <= 10 * Concurrency
    /\ closed \in BOOLEAN
    /\ collecting \in BOOLEAN
    /\ counted \in [User -> Nat]
    /\ totals \in [success : Nat, failure : Nat, sent : Nat, recv : Nat,
                   latency : Nat, min : Nat, max : Nat]

(* The report is printed over the results of all users, each counted once, *)
(* and nobody is left who would send on the closed channel.                *)
ReportComplete ==
    /\ closed => \A u \in User : upc[u] = "done"
    /\ mpc = "done" => \A u \in User : counted[u] = 1

(* The report says that no request failed exactly when every session went  *)
(* through to its end; a user who fails at the last message does not go    *)
(* unnoticed, and no request is reported twice.                            *)
ReportHonest ==
    mpc = "done" =>
        /\ totals.failure = 0 <=> \A u \in User : Success(u)
        /\ totals.success = TotalNumber * Cardinality({u \in User : Success(u)})
        /\ totals.success + totals.failure <= Concurrency * TotalNumber
        /\ totals.sent = MapThenSumSet(LAMBDA u : messages[u].sent, User)
        /\ totals.recv <= totals.sent

(* The latencies of the report fit together: those of the sessions that    *)
(* succeeded add up to something between their number times the smallest   *)
(* and times the largest.                                                  *)
LatenciesFit ==
    totals.success > 0 =>
        /\ totals.success * totals.min <= totals.latency * TotalNumber
        /\ totals.latency * TotalNumber <= totals.success * totals.max

(* The tool ends, whatever the gateway and the chat service do: every read *)
(* has a deadline, and a user who fails still gives a result.              *)
ToolEnds == <>(mpc = "done")

(* stress_go/README.md:121: the test has passed, all requests were         *)
(* completed (statistics.go:173 prints it): then every request has been    *)
(* acknowledged.                                                           *)
PassedMeansAcknowledged ==
    mpc = "done" /\ totals.failure = 0 =>
        \A u \in User, k \in 1..TotalNumber : stage[u][k] = "acknowledged"
=============================================================================
