# Verification of fast-game-chat

TLA+ modules, TLC configurations and TLAPS proofs for the server side of
fast-game-chat: the WebSocket gateway (`src/game-gateway`), the chat service
(`src/game-chat-service`), what joins them (`src/pkg/mq`), the packets on the wire
(`src/game-gateway/pkg/protocol`) and the stress tool that plays the clients
(`src/scripts/stress_go`). The models are translated from the source; the documents
under `src/docs` are used only to state what is expected of it.

    tlc -workers 2 -config GatewaySafety.cfg MCGateway.tla     # check an instance
    tlapm GatewayProofs.tla                                    # check the proofs

## 1. The system

    client <--WebSocket--> gateway --"game:request:<game>"--> chat service --> PostgreSQL
                              ^                                   |
                              +---------- "broadcast" ------------+
                                (Redis pub/sub or an MQTT broker)

A client sends a binary packet with a protobuf `ChatRequest`. The read pump of
its session binds the session to the user the request names (once), and
publishes the payload on the topic of the game. A chat service takes it from the
topic, puts it into the channel `saveChan`, publishes a `MessageBroadcast` for
the receiver and then a `ChatResponse` for the sender, both on the topic
`broadcast`. One goroutine of every gateway takes each message of that topic,
looks up the session of its `TargetUserId`, and puts the message into the queue
`Session.Send`, from which the write pump of the session writes it to the
client. Fifty workers of the chat service meanwhile empty `saveChan` into the
database.

### Inventory

| Component | State | Operations | Interacts by | What is hard | What makes it correct |
|---|---|---|---|---|---|
| Session registry `session/manager.go` | the maps `sessions` and `userSessions`, the field `UserID` | `Add`, `Bind`, `Remove`, `GetByUserID` | calls from the read pumps and the consumer | two maps, no lock; two sessions of one user | no entry for a dead session; a live bound session is found |
| Gateway connections `server/server.go` | connection, read pump, write pump, `Session.Send` | `handleConnection`, `readPump`, `writePump` | registry, router, queue, socket | two goroutines per connection end each other only through `Conn.Close`; deadlines, pings | both pumps end, registry cleaned up; messages in order, once |
| Router `router/router.go` | none of its own | `RoutePacket`, `routeChatPacket`, `HandleBroadcast`, `routeToClient` | registry, MQ, `Session.Send` | lookup and enqueue are two steps; full queue | nothing misrouted; bound before published |
| Broadcast consumer `cmd/gateway/main.go` | one goroutine | the loop over the subscription | router | one slow client must not stop all | every message is dealt with |
| Request handling `service/chat.go`, `cmd/chat/main.go` | a goroutine per request, `saveChan`, 50 workers | `HandleRequest`, `dbWorker`, the consumer loop | MQ in and out, database | answer before the save; overload; crash | no double save, no answer for a rejected request |
| WebSocket entrance `transport/websocket.go` | handler, writer, `writeChan`, `done` | `handleConnection` | `HandleRequest`, socket | the end of two goroutines that wait for each other | both end; answers in order |
| Queue adapters `pkg/mq` | subscription, a channel of 100, a bridge goroutine | `Publish`, `Subscribe`, `Close` | Redis or MQTT client | reconnects, cancellation, QoS 1 | no message of a live subscription is lost or repeated |
| Packet codec `pkg/protocol`, C# SDK | sequence counter | `Encode`, `Decode`, `ReadPacket` | both ends of the WebSocket | lengths, byte order, fragments | what is decoded is what was encoded; a frame gives its own packet or an error |
| Gateway metrics `metrics/metrics.go` | eight counters | increments, a decrement, `PrintStats` | the pumps, a periodic report | an unsigned gauge next to two totals, added to and loaded one by one | the gauge never runs below zero; a report loses no connection |
| Stress tool `scripts/stress_go` | a client per user, a collector | `Bind`, `SendMessage`, `ReceiveMessages`, `Dispose`, `collect` | the gateway, a channel of results | answers to other requests, timeouts, a report over another goroutine's totals | it ends; every user is counted once; what it reports is what happened |
| The system as a whole | connections, topics, `userSessions` of every gateway | all of the above | two topics with plain subscriptions | several instances and gateways, games that share user IDs, messages sent again | a publication is delivered once per gateway and only where it is addressed |
| Hub, gRPC server, old WebSocket server, config, logger, demos, generated code | none that matters | | | | |

`PROJECT.json` lists every component with what is modelled of it, and under
`hazards` what in this code is hard to test, at its line, with the property that
would catch it going wrong.

## 2. The modules

| Module | Models | Kind |
|---|---|---|
| `SessionManager` | `session/manager.go` | the operations of the registry, as actions on its three variables |
| `MessageRouting` | what one gateway promises about the messages it routes | abstract specification |
| `Gateway` | one gateway process: pumps, router, consumer | extends `SessionManager`, implements `MessageRouting`; the core of the project |
| `GatewayMetrics` | `metrics/metrics.go` | extends `Gateway` with the connection counters and their report |
| `WriteBehind` | what the chat service promises about requests and the database | abstract specification |
| `ChatService` | one chat service process with crashes | implements `WriteBehind` |
| `WSTransport` | one connection to the WebSocket entrance | component |
| `RedisMQ` | one subscription through Redis | component |
| `RobustMQ` | one process with its MQTT client: publications and a subscription on one connection | component |
| `MessageQueue` | the queue of a process, one of the two above by configuration | composition |
| `MessageDelivery` | what the system promises to its clients | abstract specification |
| `ChatSystem` | clients, gateways, topics and instances of the chat service | composition; implements `MessageDelivery` |
| `WireFormat` | packets, their codec, and the fields of two kinds of payload | operators |
| `StressTool` | the stress tool and its collector | extends `WireFormat` |
| `MCGateway`, `MCConnections`, `MCChatSystem`, `MCStressTool` | symmetry and which part is explored, the connections of one of two servers, the functions of an instance, samples for the codec | model checking |
| `GatewayProofs`, `ChatServiceProofs`, `MessageQueueProofs`, `WSTransportProofs`, `ChatSystemProofs`, `StressToolProofs`, `WireFormatProofs` | theorems | proofs |
| `SortedQueues` | lemmas about queues of increasing numbers | proofs |

### SessionManager and Gateway

An operation on one of the concurrent maps is one step. `Remove` works on two
maps and is two actions, `RemoveUser` and `RemoveSession`, between which any
other goroutine may run. `Bind` also writes two places, the field `UserID` and
the map; both happen in the read pump of the session, the only goroutine that
reads the field, so nobody can see one without the other. A `Session` struct
lives on after it was removed, hence `userID` keeps its value.

The read pump is the program counter `rpc`: `read` (in `ReadPacket`), `handle`
(has a packet), `publish`, then `unbind`, `unlist`, `close` for its deferred
function. A packet is the user ID that its `Base` claims (`NoUser` for 0 and
below) or one of two values: `Unroutable`, for every outcome of `RoutePacket`
that changes nothing (other route, bad protobuf, no `Base`, no game), and
`Damaged`, for what `WSConn.ReadPacket` refuses. The write pump is `wpc`; its
`select` over `Send` and the ticker is the choice between `TakeSend` and
`PingError`. A ping that succeeds changes nothing and is left out. Nobody closes
`Session.Send`, so that branch of the code is dead.

A downstream message is named by the number it has in the order in which the
consumer receives them; `arrived[i]` is its target. That is enough for addresses,
order and repetition, and contents do not matter. `HandleBroadcast` is `Lookup`
followed by `Enqueue`, with everything else in between; the message that is
looked up is `taken`, and `csess` is the session found.

`MessageRouting` is the same gateway with every operation in one step: a session enters
for a user and leaves, a message is routed to the session that is entered for its
target when its turn comes, and from then on stands in the line of that session. It is
lost only if `SendCap` others stand before it, or its connection fails. The refinement
mapping (`RoutesAtOnce`) makes one line of what the write pump holds, what is in `Send`
and the message in the hands of the consumer; a session is `gone` after the first half
of `Remove`, and `failed` when its write pump leaves its loop. So `Lookup` is the step in
which a message is routed, `TakeSend` and an `Enqueue` that finds room change nothing,
and an `Enqueue` that finds the queue full takes the message out of the line again:
that a session is looked up and used in two steps, and removed in two, cannot be seen.

A connection is `open`, `broken` (the client or the network is gone; the process
may not know) or `closed` (by this process). Frames that are buffered can still
be read from a broken one, and the operating system may still accept a write.

### GatewayMetrics

Every addition is atomic and none is with another, so each is a step: `cpc[s]` says how
far the connection of `s` has been counted. `HandleConnection` adds the session to the
registry, two steps of `IncrementConnections` follow, and only then do the pumps of `s` run
(`Pumps`); when the read pump gets to its deferred function, two steps of
`DecrementConnections` come before the first half of `Remove`. `PrintStats` loads the three
counters in three steps (`ppc`), with everything else in between. Nothing but the report
reads the counters; `CountersOnlyWatch` proves that the gateway itself is unchanged.

The counters therefore disagree between two additions, and a report may print numbers that
do not add up. `ReportRight` says what is right all the same: the gauge never exceeds the
number of sessions, so that it never wraps around; the counters add up whenever no
connection is between its additions; and every connection that a report counts in its total
is among its active or ended ones, unless it was between its first two additions when the
gauge was loaded. The last part rests on the order: `DecrementConnections` counts a
connection as ended before it takes it off the gauge, and the report loads the gauge before
it loads the ended ones. The other way round a connection could be in neither (the mutant).
`report.starting` is the number that the last part needs; it is not printed.
`CounterAssumption` says that there are fewer connections in the life of a process than
numbers in a counter, 2^64 in the code and 3 in the run.

### ChatService and WriteBehind

A request is a message of the topic, handled by its own goroutine `gpc[r]`:
`parse` covers the protobuf and the push to `saveChan`; `forward` and `ack` are
the two publications, each of which may fail and is then only logged. `saved`
are the requests with a row. `lost` is a history variable: the accepted requests
that will never have one, because the insert failed or a crash emptied the
memory. A crash may happen at any time (one in the code: `main.go:60-63` goes on
without a database, and the first save panics); an insert that is under way then
may or may not have been committed. While the process is down, requests on the
topic are missed: Redis pub/sub keeps nothing.

`WriteBehind` says what that amounts to: a request is refused or accepted; only
an accepted one is answered; an accepted one is tried once and is then stored or
lost for good. The refinement mapping computes the status of a request from
where it is: in `saved`, in `lost`, in the channel or with a worker (accepted),
dropped (refused). A goroutine killed by a crash before its push maps to `new`: the
request was not heard of, and never will be. A crash is one `Settle` step of
several requests.

### WSTransport

The handler (`hpc`), the writer (`wpc`) and the two channels between them. Its
deferred function closes `writeChan` first and the connection second, and runs
after a return or after a panic (a request without `Base`; `net/http` recovers).
`HandleRequest` is its result here; what it does is in `ChatService`.

### RedisMQ and RobustMQ

A message is its number on the topic. `RedisMQ` follows it from the channel of
the Redis client (external: it may also be lost before) through the bridge
goroutine and `msgChan` to the loop in `main`. The bridge watches the context only in its
`select`; `BridgeSend` waits for room whether `Close` was called or not.

`RobustMQ` joins the two uses of one MQTT connection, because the client reads
it in order for both: `inbound` holds messages of the topic and the
acknowledgements of own publications, and while a callback waits for room in
`msgChan` nothing more is read. (The library reads up to a few packets ahead;
reading none is the stricter case for `PublishReturns`.) A loss of the connection
empties `inbound` and ends the subscription at the broker, since the options
leave clean sessions on; a call of `Publish` that waits is sent again or fails.
The consumer takes messages without waiting for any publication: the gateway's
loop makes none, and the chat service starts a goroutine for each request
(`cmd/chat/main.go:109`). `PublishReturns` depends on just that.

`MessageQueue` puts the two behind the interface of `pkg/mq/mq.go`: `kind` is the
configuration, read once by both `main` functions, and the part that was not chosen
stays as it started. `topic`, `msgChan` and `received` are the same in both.

### ChatSystem and MessageDelivery

The composition. Several gateways share the topic `broadcast`, several instances of
the chat service the topic of one game (`cmd/chat/main.go:100` names it); every
subscriber gets its own copy of each message or loses it. The components take
larger steps than in their own modules: a gateway handles a request, or a message
of the topic, in one, and an instance does in `Accept`, `Forward` and `Ack` what
`ChatService` shows in detail. What that leaves out is shown there: `Gateway` binds
before it publishes (`BoundBeforePublish`) and a message goes to the session it
was looked up for or is dropped (`NoMisrouting`), at the place in its queue that it would
have had if both were one step (`RoutesAtOnce`); `ChatService` covers crashes and the
database. The two halves of `Remove` are one step here, `Disconnect`.

A message may be on a topic more than once. With MQTT a message whose acknowledgement was
lost is sent again after the reconnect (`Reconnect` of `RobustMQ`), and the Redis client may
repeat a `PUBLISH` that failed on the way back; the topic may have the first one, and nothing in a message
tells a repeated one from a new one. A `Publish` that waits has not returned, so a resend
can only be of what its caller published last: of a request while the read pump is in
`routeChatPacket`, which is folded into `RouteChat`, and of a message or an answer while the
handler has not gone on (`Resend`). The resends of the whole system are numbered and
bounded by `MaxResends`; the number goes along for the properties only. Every publication of
a request gets a goroutine of its own in every instance, hence `Handlers`.

`MessageDelivery` is what a client can count on. A publication is told apart by its kind,
the handler, the request and the number of the resend. The abstract specification lets each be
delivered at most once through every gateway, to a client that gave the user ID it
is addressed to, and only for requests to a served game; each resend makes one publication
more and no other. It says with that what the code does
*not* do: a request that is sent again, or that two instances take, is answered twice, users of different
games with one ID receive each other's messages, and a request to a game that no
instance serves is accepted and never answered. Two documents claim otherwise of the instances
and of the games; `chat_system_claims` refutes them. `AnsweredOrLost` says when an
answer is certain.

### WireFormat and StressTool

`WireFormat` holds functions only. A packet is four fields, a frame a sequence of
bytes; `ReadStream` is `ReadPacket` of an `io.Reader`, `ReadFrame` that of a
WebSocket, and `CsReceive` what the C# receive loop makes of the first call of `ReceiveAsync`
for a frame, which returns no more of it than its buffer holds. A protobuf message is a function
from field numbers to numbers with a wire type for every field; `Marshal` and
`Unmarshal` stand for the library, and between them show what one kind of message
reads as when it is parsed as the other, on which both the gateway (`router.go:113`)
and the clients (`game_chat_client.go:93`, `:159`) rely.

`StressTool` models `Dispose` (`mpc`), the goroutine of each user (`upc`), the
collector and the channel between them. The gateway and the chat service are its
environment: `Forward` and `Acknowledge` deliver a message and an answer, request by
request, in that order or without the first, and need never happen. A packet in
an `inbox` has a kind, a sender and a target, and the client decides with `Unmarshal`
what it takes it for, as the code does. A duration is any number up to
`MaxDuration`, chosen when a session ends. A panic of a user's goroutine is left out.
`MCStressTool` puts one step before all this: it starts with a sample, a packet or the
fields of a `ChatResponse`, on which the properties of the codec are checked, and then
lets the tool start.

## 3. The runs

| Run | Instance | Question | Result |
|---|---|---|---|
| `gateway_safety` | 2 sessions, 2 users; queue of 1 and 2 messages, or counters of 3 values and the report | Is the registry consistent, does each message go to the right session, once, in order? Does the gateway implement `MessageRouting`? Are the connections counted right, and what can be said of a report? | holds |
| `connections` | gateway: 1 session, 1 user, queue of 1, 3 messages; or the entrance of the chat service: 5 requests, channel of 2; fair | Gateway: do both pumps end and is the registry cleaned up after every lost connection? Is the consumer ever held up? Is what is queued written? Entrance: do answers keep their order when some are dropped? Does the writer end after the handler, and the handler after a failed write? | holds |
| `gateway_reconnect` | 2 sessions, 1 user | Is a live bound user found? | violated |
| `chat` | 4 requests (1 private, 1 malformed), 2 workers, channel of 1, 1 crash, fair | Does the service implement `WriteBehind`? Double saves, answers to rejected requests, order of publication? Does every goroutine and every save end? | holds |
| `chat_acked_lost` | as `chat`, 2 private | Is an answered request one that has, or will have, a row? | violated |
| `ws_wait` | 2 requests, channel of 1, fair | Does the final wait of the handler end? | violated |
| `message_queue` | either queue; 5 messages, `msgChan` of 1; Redis: client channel of 2, `Close` at any time; MQTT: 2 publications, 2 losses of the connection; fair | Are messages received in order and once? What does a returned `Publish` mean, and does it return? Does only the network lose any? Does `Close` end the consumer's loop? | holds |
| `robust_lost` | 2 publications, 2 messages, 1 loss, fair | Is what is published on the topic received? | violated |
| `chat_system` | 2 gateways, 1 instance, 3 clients of 2 games and 2 user IDs, 3 requests, 1 resend, fair | Does the system implement `MessageDelivery`? Does a message come before its answer? When is a request answered? | holds |
| `chat_system_claims` | the same with 2 instances and no resend | Does one of two claims hold, that no two instances take the same request, and that no client gets anything of a game it does not play? | violated |
| `stress_tool` | 2 users with 2 requests each, 2 attempts to dial, durations of 2 values; packets with up to 4 payload bytes against limits of 3, 18 and 18 | Does the report count every user once, add up and wait for everything? Does the tool end? Does the codec give back what it was given, or an error? | holds |
| `stress_passed` | 1 user with 1 request | Does "the test has passed" mean that every request was acknowledged? | violated |

**Bounds.** `MaxBroadcasts`, `MaxCrashes`, `MaxRequests`, `MaxTopic`, `MaxLosses`, `MaxResends`
and `MaxDuration` bound counters that the code does not; `MaxPacketSize` and `ReadLimit`
stand for 16 MB each, `ReceiveBuffer` for 1 MB and `CounterRange` for 2^64; everything else is the size of a set. Two sessions of one
user are the least for the reconnect races (the proofs cover any number), and the
second user adds messages that could go astray.
A queue of one is full and empty within two steps, so that drops, waiting
messages and a message in the hands of a pump occur together (1024, 20000, 512
and 100 in the code); the proofs are for every capacity. Three downstream messages
fill a queue, the hands of the pump, and find the queue full. One session is
enough for `connections`: pumps of different sessions share only the registry,
whose part is proved for any number (`NoStaleEntry`), and the consumer. One
crash and restart suffice for a request that arrives before, during and after. In
`chat_system` one client writes to another at the other gateway, a third shares its
user ID and gateway with the first and plays a game that nobody serves, and one message is
sent again: the least in which doubled answers, displaced entries and unserved requests
occur together. The second handler of a request is there on account of the resend; that of
another instance takes the same steps, and with two instances and a resend the state
space is out of reach (the theorems hold for any number of both, and `chat_system_claims` has
two instances). Two
users of the stress tool are each other's receivers, so that foreign messages,
own ones and late answers meet in one inbox. The limits of `stress_tool` differ by 15,
so that a payload of three bytes is legal and its frame is not.

Two runs explore two things apart instead of multiplying them. `MCGateway` chooses at the start between executions with downstream messages, where
nothing is counted, and executions with counters and reports, where no message
arrives: by `CountersOnlyWatch` the counters cannot disturb the messages, and no message
touches a counter. `MCConnections` chooses between a gateway and the entrance of the chat
service, which are two programs.

**Deadlock** is not checked: in each instance all sessions may have been closed,
or all requests handled, and nothing is left to do.

**Fairness.** The Go scheduler runs what can run: weak fairness of each pump, of
the consumer, of each goroutine and worker. A read of a connection that is gone
fails, at once or at the 60 s deadline, after the finitely many frames that were
buffered: strong fairness of `ReadError`, since reading those frames disables it
in between. A gateway write ends within its deadline of 10 s. A
ping is only assumed to fail once this process has closed the connection. In
`WSTransport` a write to an open connection has no deadline, and nothing is
assumed of it. `Publish` and the database are assumed to return in the end; for
MQTT that is `PublishReturns` of `RobustMQ`, which assumes that a lost connection
is made again (`token.Wait` has no timeout) and breaks finitely often. In `RedisMQ` a `select`
that finds both channels ready does not prefer the messages for ever (Go chooses at random): strong fairness
of `BridgeStop`.
In `StressTool` every read ends at its deadline (`ReadError` is always possible, and the
environment delivers finitely many packets): weak fairness of each user suffices. In
`ChatSystem` the instances and the consumers run; a loss is an outcome of a step.
Nothing is assumed of clients, of arriving messages, or of a crash.

### What the violated runs show

* `gateway_reconnect` (`manager.go:60`). A user reconnects and is bound on the
  new session before the old one is removed; the removal deletes the entry of the
  user, which is the new session's. The new session never binds again, because
  its `UserID` is set. All answers to that user are dropped. `SoleSessionReachable`
  is what does hold, and is proved: without a second session of the same user,
  the session is found.
* `chat_acked_lost` (`chat.go:68`). The answer carries a `message_id` that
  `chat_message.proto:36` calls the ID of the row in the database. It is the clock
  of the service, and the row may never exist.
* `robust_lost` (`robustmq.go:37`). `docs/ARCHITECTURE.md:25` promises delivery at
  least once. After a reconnect nobody subscribes again: the process stays
  connected and receives nothing. What holds is in `message_queue`: what it does
  receive is in order and not repeated.
* `ws_wait` (`websocket.go:129`). The handler waits for the writer, which waits
  for the close of a channel that the handler closes after the wait. Unless
  a write fails, both stay for ever, and so does the connection.
* `stress_passed` (`game_chat_client.go:100`). The client binds by writing to itself.
  Its own broadcast, read as a `ChatResponse`, ends `Bind`, for both kinds have a
  nonzero number in field 2; the answer to the binding is then still to come and is
  counted for the first message. The gateway's answers carry no sequence number. The
  report says that all requests were completed (`statistics.go:173`) when one was
  never acknowledged. What holds is `ReportHonest`: the report agrees with what the
  clients counted.

* `chat_system_claims` (`cmd/chat/main.go:100`, `manager.go:23`). `docs/ARCHITECTURE.md:55` says
  that instances of the chat service share one subscription and consume nothing twice
  (`ConsumedOnce`); each has a plain subscription and handles every request.
  `README.md:13` and `docs/multi_game_architecture.md:949-951` say that games are isolated
  and a user ID in another game is another user (`GamesIsolated`); the registry of the gateway
  knows user IDs only. `OneClaimHolds` is the disjunction of the two, so that one state
  refutes both: a request that both instances took, the message of which was delivered
  to a client of another game.

One more divergence has no run of its own: `docs/GATEWAY_LOGIC.md:167-169` says that
a damaged header does not end the connection; in the code, and in `DecodeError` of
`Gateway`, it does (`server.go:106`).

### What no property catches

Five hazards of `PROJECT.json` have no property, each with its reason: a request to a game
that is not served is published to nobody (`router.go:82`); the two limits on the size of a packet do not fit each
other (`server.go:58`); the C# client takes a fragment for a packet (`GameNetwork.cs:122`); a write of the
WebSocket entrance has no deadline (`websocket.go:66`); the printed average of the stress
tool may lie below the minimum (`statistics.go:148`). In all five the code does what it does,
and nothing in the repository says what it should do.
`AnsweredOrLost` exempts requests of displaced clients and of games that are not served, and
in `RobustMQ` a publication that is sent again has a number of its own, so that `MQInOrder`
does not see it as a repetition.

## 4. The proofs

All proofs are for any sessions, users, requests, workers, gateways and instances, and
any values of the capacities and bounds, under the named assumptions of the modules:
the special values differ from the members of the sets (`NoSessionAssumption`,
`NoUserAssumption`, `PacketAssumption`, `RequestAssumption`, `SystemAssumption`),
the capacities and bounds are natural numbers, and `SendCap`, `ChanCap` and
the parameters of the stress tool are not 0. `ReportsRight` rests on `CounterAssumption`: finitely many
sessions, fewer than `CounterRange`. In `WireFormat`, `MaxPacketSize` is below
2^31 - 1, as 16 MB are (`WireAssumption`), so that every length that is tried, one beyond
the limit included, fits into the four bytes of the header; and an error is not a packet (`InvalidAssumption`).

`GatewayProofs` (`Spec => []Inv`):

* `TypeCorrect`: types, and the capacity of `Session.Send`.
* `RegistryConsistent` (`NoStaleEntry`) and `SoleSessionFound`
  (`SoleSessionReachable`). They are inductive together with `Registration`: a
  session is in `sessions` exactly while its read pump is between its start and
  the second half of the removal, and it is bound only after its start. Without it
  a removal could leave an entry of a session that is not in the map any more.
* `BindingPrecedesPublication` (`BoundBeforePublish`).
* `NothingMisrouted` (`NoMisrouting`). Needs `Addressing`: the same for the message
  between lookup and enqueue, and that a session that holds a message is bound,
  so that it is not bound again to another user.
* `DeliveredInOrder` (`OrderedAtMostOnce`), on top of that invariant, with `Order`:
  what was delivered, what the write pump holds and what is queued for a session
  is one increasing sequence, no message is with two sessions, and the message that the consumer has in hand is
  with none yet.
* `CountersOnlyWatch`: `MetricsSpec => Spec`. Each step with counters is a step of the
  gateway or none, so the theorems above hold for `MetricsSpec` too.
* `ReportsRight` (`ReportRight`). Inductive is `Counting`: each counter is the number of
  connections that are past its addition (`cpc`), where a connection is counted goes with
  where its read pump is (`Place`), and at each of the three loads what the report has
  loaded accounts for its total (`Loaded`): after the second one with the ended connections as they are
  then, which can only become more. `Place` gives that a connection
  is counted out only after it was counted, and that it is registered while it is on the gauge. `Wrap` shows that below `CounterRange` adding the
  largest number takes one off. Sizes are taken with `FiniteSetTheorems`.
* `Implementation` (`RoutesAtOnce`), from `Inv` alone, with lemmas on what stands in
  front, in the middle and behind in a line (`FrontLeaves`, `LastInLine`). `Registration` gives
  that `Bind` and the first half of `Remove` find their session registered, and
  `Writing` that a write pump holds a message exactly while it writes.

`ChatServiceProofs`:

* `TypeCorrect`, `NoDoubleSave` (`SavedOnce`), `OnlyAcceptedAnswered`
  (`AnswerMeansAccepted`), `PublicationOrder` (`ForwardedThenAcknowledged`). The
  invariant adds `Untouched` and `Kept`, which tie where a goroutine is to
  whether its request is somewhere in the pool, the database or the lost ones,
  and `Pending`: what it has still to publish is not downstream.
* `Implementation` (`KeepsPromise`): the initial states map to initial states, and
  every step to a step of `WriteBehind` or a stutter, from the same invariant.

`MessageQueueProofs`, first for each queue alone, then for the choice:

* `TypeCorrect` (`MQTypeOK`): types, and the capacities of the channels.
* `PublishedIsStored` (`ReturnedMeansStored`): whatever the connection does, a call
  of `Publish` returns without an error only when the broker has the message.
  Inductive together with `AckedMeansStored`, the same for an acknowledgement
  that is still on the connection.
* `ReceivedInOrder` (`MQInOrder`): for MQTT the pipeline from the consumer back to the
  connection is increasing and everything in it was published; a loss cuts its end off.
  For Redis likewise.

`WSTransportProofs`: `TypeCorrect`, and `AnsweredInOrder` (`AnswersInOrder`): the
pipeline from what was written back to `writeChan` is increasing, nothing in it answers
a request that was not read, and the request the handler is at is not in it yet.

`ChatSystemProofs`:

* `TypeCorrect`: with the types, that an entry of `userSessions` is an open connection to
  that gateway of a client that gave that user ID.
* `MessageBeforeAnswer` (`ForwardedFirst`) and `Implementation` (`ImplementsDelivery`).
  The invariant says of every publication that its handler is past it and that its number is
  used up (`Stage`), of every one on its way that it was published (`AllPublished`), that it is there once and was not delivered by
  that gateway (`Once`), and that no message is behind the answer of its handler (`InTurn`); `Entered`
  and `Received` give that a delivery follows a request. A resend takes a new number, which is what keeps
  its publication apart from all before.

`StressToolProofs`: `ReportIsComplete` (`ReportComplete`): the one result of a user is not made yet, in the
channel, or counted (`OneResult`), and main closes the channel after all users are done
and prints after the collector has ended (`MainOrder`).
`TypeCorrect` (`TypeOK`), `ReportIsHonest` (`ReportHonest`) and `ReportedLatenciesFit`
(`LatenciesFit`) need a second invariant, `ReportInv`: where a user is in its session
bounds what it has sent and received (`Rounds`), and the totals are at every moment
those of the users whose result has been counted (`Totals`). For that the sums of the
library are proved to be what they should be: `SumAdd` (one user more) and `SumSame` (the
same numbers) follow from `SumIs`, that a function which adds a user at a time, in
whatever order, gives the sum. The induction over the set of users takes the form of a
smallest counterexample (`SmallestSet`), for which the well-foundedness of the subsets of
a finite set can be cited without an operator for a parameter.

`WireFormatProofs`: `PacketComesBack`, for every route, flags, 32-bit sequence number and legal
payload of any length, and `DamagedFrameRefused`, for every point at which a
frame is cut; `StreamGoesOn`, for any bytes behind a frame. From these, `SamplesComeBack`
(`RoundTrip`), `SamplesOrErrors` (`FrameOrError`) and `SamplesReadAsBroadcast`
(`ResponseReadAsBroadcast`) hold for any limits, and the lemma under the last for a
`ChatResponse` with any numbers in its fields. `SamplesOnlyWatch` is `MCSpec => Spec`: what
`StressToolProofs` proves holds in the instance that the run checks.

`SortedQueues` has the lemmas the order proofs share: appending to, taking from and
cutting a queue of increasing numbers.

Only model-checked: the liveness properties, for fairness and `ENABLED` are out of the
prover's reach (`CleanedUp`, `ConsumerProgress`, `QueueDrains`, `EveryRequestHandled`,
`EverySaveEnds`, `WriterEnds`, `FailedWriteReleases`, `PublishReturns`,
`OnlyTheNetworkLoses`, `CloseEndsLoop`, `ToolEnds`, `AnsweredOrLost`). Every safety property
that a passing run checks, the three refinements included, is stated by a theorem.

## 5. What is not modelled

* Contents of messages, names, timestamps, logging and configuration: no control
  depends on them, beyond the fields in `WireFormat`.
* `HandleBackendMessage`, `Manager.Get` on the downstream path, the flags of a packet,
  `IsValid`, `SendResponse`, `RobustMQ.Close`, `GetSuccessRate`: nothing calls them.
* The counters of messages of the gateway, which only grow.
* The hub, the old WebSocket server and the gRPC stubs: they do nothing in the running
  program, or are not started. The demo scripts are one straight line each.
* The C# SDK beyond `CsReceive`: no program of the repository uses it.
* The libraries (WebSocket, Redis and MQTT clients, protobuf, the database driver), Redis,
  the broker and PostgreSQL: external, modelled from their use.
* Generated code, except the field numbers and types it holds.

All parts of the system that keep state and run are modelled. What could be added is a
composition in which `ChatSystem` takes the steps of `Gateway` and `ChatService` one by
one; its state space is out of reach of TLC at two of each, and the properties that
would need it are proved for the parts.
