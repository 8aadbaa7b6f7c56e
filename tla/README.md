# SPOE Forge: a verification model

SPOE Forge is an asyncio agent for HAProxy's Stream Processing Offload Engine: HAProxy
opens TCP (or TLS) connections to it, greets it, and sends NOTIFY frames whose messages
the agent's registered handlers turn into actions, returned in ACK frames. This directory
holds TLA+ models of it, TLC configurations that check them on small instances, and proofs
checked by TLAPS. File and line references are to the repository at the revision the
models were written from.

## 1. Inventory

| Component | State | Operations | Talks to |
| --- | --- | --- | --- |
| Connection lifecycle (`server/handler.py`) | configuration, semaphore, task group, NOTIFY tasks, the stream | handshake, frame loop, NOTIFY task, ACK salvage, error reports, close | transport, negotiation, codec, dispatch |
| Negotiation (`server/configuration.py`, `constants.py`) | frame size, capabilities, compatibility | `negotiate_server_compatibility` and its three checks | called once by the handshake |
| Frame codec (`spop/frame.py`, `encoders/`, `decoders/`) | none (the stream reader's buffer) | `Frame.decode`, `Frame.encode`, `construct` | called by the lifecycle and by the healthcheck client |
| Agent and dispatch (`spoe_forge.py`, `agent/`) | handler registry | `message`, `_notify_handler`, `handle_message` | awaited by NOTIFY tasks; runs sync handlers in the shared thread pool |
| Server (`spoe_forge.py`) | listening socket, open connections | `serve`, `run` | creates one lifecycle per connection |
| Healthcheck client (`cli.py`) | one connection | `healthcheck` | an agent, as HAProxy would |
| Logging (`log.py`) | logger configuration | `create_logger` | everyone |

What is hard about it:

* **Concurrency.** One coroutine reads frames and starts a task for each NOTIFY; they
  interleave wherever they wait, and asyncio's `TaskGroup` cancels and collects them.
* **Failure.** Four classes of exceptions reach `core_handler`, from the loop or from any
  task, several at once; each `except*` clause may itself send a frame and fail.
* **Ordering.** ACKs in completion order under pipelining, in NOTIFY order without; a
  disconnect sent by the loop while tasks are still alive.
* **The transport.** Writes that wait for HAProxy to read, half-closed TCP, TLS that cannot
  be half-closed, resets noticed late.
* **Limits.** The semaphore, and the frame size HAProxy chooses, which bounds HELLO, ACK and
  disconnect alike.
* **No timeouts.** Nothing on the server side gives up waiting.

What makes each component correct:

* *Lifecycle*: no slot is lost or returned twice, at most the agreed number of NOTIFYs run,
  each has at most one ACK and exactly one while the connection lives, nothing is dispatched
  once the group aborts, errors are reported last, and tear-down completes.
* *Negotiation*: refuses exactly the incompatible; nothing sent afterwards exceeds what either
  side announced.
* *Codec*: decoding never reads past a frame, encoding and decoding are inverse, integers keep
  their width; lengths bound what is sent.
* *Dispatch*: messages in order, actions in order, one failing handler costs its actions only.
* *Server*: connections are independent, except for the registry and the thread pool; shutdown.
* *Healthcheck*: true only if an agent answered with AGENT-HELLO in time.

`PROJECT.json` lists the hazards line by line, with the properties that watch them.

## 2. Modules

| Module | Models |
| --- | --- |
| `Negotiation` | `ServerConfiguration` as operators on a record `[size, caps, compatible]` |
| `FrameLengths` | encoded lengths of AGENT-HELLO, AGENT-DISCONNECT and ACK |
| `AckSalvage` | `_salvaged_ack` as a recursive function over the handler's actions |
| `ForgeHandler` | one connection: `core_handler`, its tasks, the transport and HAProxy |
| `SpopConnection` | abstract specification: what a connection promises HAProxy |
| `Dispatch` | `_notify_handler`, `handle_message` and the registry, over the event loop and its executor |
| `AgentServer` | `serve` and `run`: connections over one registry and one executor, and shutdown |
| `Healthcheck` | `cli.healthcheck` in HAProxy's place, and its exit status |
| `SpopTypes` | numbers, keys and values of the protocol |
| `FrameEncoder` | a frame's bytes, what has no wire form, the size limit |
| `FrameDecoder` | `Frame.decode`: a stream of bytes to a frame or an exception |
| `FrameCodec` | encoder and decoder side by side: the codec's properties and the reference definition of the salvage |
| `MCForgeHandler`, `MCAgentServer`, `MCHealthcheck`, `MCFrameCodec` | values of the constants for TLC, of the last the samples |
| `ForgeHandlerInvariant` | types, slots, dispatch order, ACKs, serial order |
| `ForgeHandlerReports` | greeting, frame sizes, salvaged ACKs, refusals and error reports |
| `ForgeHandlerPromise` | every NOTIFY answered; `ForgeHandler` implements `SpopConnection` |
| `DispatchProofs` | types, jobs and actions of `Dispatch` |
| `AgentServerProofs` | `AgentServer` implements `Dispatch`; shutdown |
| `HealthcheckProofs` | what a successful and a failed healthcheck mean |
| `AckSalvageProofs` | which actions a salvaged ACK keeps, and that it fits |
| `FrameCodecProofs` | what is encoded is decoded, nothing torn or damaged is mistaken, lengths are those of the bytes |

How they are composed:

* `ForgeHandler` EXTENDS `Negotiation` and `AckSalvage` (which EXTENDS `FrameLengths`) and
  instantiates `SpopConnection` under a refinement mapping (`Promise`).
* `AgentServer` EXTENDS `Dispatch`: each of its steps is one of `Dispatch` or leaves its
  variables alone, which is the refinement `ImplementsDispatch`.
* `Healthcheck` EXTENDS `ForgeHandler`: the client's actions take the place of HAProxy's, the
  agent's are used as they are.
* `FrameEncoder` and `FrameDecoder` EXTEND `SpopTypes` and meet in `FrameCodec`, which also
  holds them against `FrameLengths` and `AckSalvage`, so that the lengths `ForgeHandler` decides
  by are those of the bytes.
* `ForgeHandler` and `AgentServer` cut the program at the call of the agent's `_notify_handler`.
  `ForgeHandler` knows the whole call as one handler that returns, cancels itself or is cancelled;
  `AgentServer` opens it and reduces a connection to the group that owns its NOTIFYs. A coroutine
  of `Dispatch` that returns, ends with a `CancelledError` or waits forever is a handler that does
  so in `ForgeHandler`; there is no other outcome, because `handle_message` catches every
  `Exception`. This seam is argued here and not checked by a run.

### How the codec corresponds to the code

The decoders of the code pass a buffer and an offset; here they take the bytes from the offset
on and answer `Got(value, rest)` or `Fail(error)`. Encoders are split into what has a wire form
(`Encodes` and its parts: where the code raises `SpopEncodeError`) and the bytes. Integers have
their real encoding; the widths are constants, `SmallHalf` and `LargeHalf`: half the number of
values of the 32-bit and the 64-bit types, 2^31 and 2^63 in the code. Lengths, varints and lists
are recursive functions, as the code's loops. `IsFrame` is what the classes of `frame.py` can
hold, over the types of values, messages and actions (`Value`, `Message`, `Action`). Keys of the
protocol keep their length and lose their spelling. `Frame.decode` is modelled on a stream that ends behind
the bytes given; waiting for more is asyncio's `readexactly` and is not modelled.

`ForgeHandler` does not work on bytes: each received frame has a kind that says how
`Frame.decode` ends. `ForeignOnlyFromHello` and `NoTornItem` justify the kinds: a NOTIFY or a
disconnect is decoded or malformed, only a HELLO can raise anything else, and a frame cut short
is malformed unless the cut is in its length prefix.

### How ForgeHandler corresponds to the code

A coroutine runs without interruption between two awaits that really wait, so an action is
what one coroutine does from one wait to the next: a frame, a slot, a handler, the drain of
the write buffer, the tasks of the group. `pc` names where `core_handler` waits:

| `pc` | `core_handler` is |
| --- | --- |
| `handshake`, `hello_drain` | in `handle_handshake`: waiting for a frame, or for the AGENT-HELLO to drain |
| `acquire`, `read` | in `_read_frames`: waiting for a slot, or for a frame |
| `bye_drain` | waiting for the drain of the last frame the loop sends |
| `join` | in `TaskGroup.__aexit__`, waiting for the tasks |
| `except_toobig`, `toobig_drain`, `except_spoe`, `spoe_drain` | in the two clauses that send a disconnect |
| `unwind`, `closing`, `closed` | past the clauses; in `close_connection`; returned |
| `crashed` | an exception has left `core_handler` |

A NOTIFY's task goes `created` (scheduled), `running` (awaiting the agent's handlers),
`draining` (its ACK is written, the drain waits), `ended` (the coroutine is done) and
`reaped` (the group's done-callback has run, in a later iteration of the loop: the model keeps
the two apart because the read loop may run between them). `result` is how it ended, `cancel`
a cancellation requested and not yet delivered, `aborting` and `errors` the group's own state.
Cancelling a task that has not started never enters its `try`, so its slot is not released;
that only happens once the group aborts.

`send_frame` is `SendFrame(frame, size, r)` with its outcome `r`: skipped on a closing stream,
too big, failed on a reset, written, or written and waiting. Each caller says what follows each
outcome. Frames on `wire` carry their type, NOTIFY, code and length; contents are abstracted.
A NOTIFY's id is its position among HAProxy's frames. Received frames are abstracted to their
kind, which decides what `Frame.decode` does with them. The ids a NOTIFY carries are abstracted
to the bytes they take: the ACK carries them too, so `IdsLen` gives each NOTIFY's ACK a header of
its own and `_salvaged_ack` its budget (`EmptyAckLen(ids)`), and a NOTIFY of `UnencodableIds` has an
id decoded as a negative number, which no ACK can encode. A prefix of the 4-byte length followed
by the end of the stream is a clean end for the code, and so is `eof` with an empty inbox here;
`TRUNCATED` is a body cut short.

Environment: HAProxy sends, shuts down, resets and reads (`Peer*`); the transport notices a
reset, closes a TLS connection at the end of stream and completes a close. They model asyncio
as the code uses it and are marked external in the map.

### How Dispatch and AgentServer correspond to the code

A NOTIFY's coroutine is what `_notify_handler` does between two waits: `stage` says whether it
awaits an `async` or a `sync` handler, or has `returned` or been `cancelled`; `at` is the message
it is at. Messages without a handler are passed in the same step, because `handle_message`
returns `[]` without waiting; the registry is looked up then, so a registration made meanwhile
counts from the next message on. `outcome` (a history) says how each message's handler ended, and
`actions` which positions contributed to the reply.

A synchronous handler runs through `asyncio.to_thread`: a job in the executor's queue, taken by
one of `Workers` threads. Cancelling the coroutine cancels the future it waits for
(`LeaveThread`): a queued job is dropped when a worker gets to it, a running one goes on with
nobody waiting, a result not yet delivered is lost. An async handler gets the cancellation where
it waits and may catch it (`Stubborn`).

`AgentServer` adds who cancels: a connection whose group ends (`LeaveBody`), or shutdown. Shutdown
is asyncio's of Python 3.12, the project's floor. The first interrupt cancels `serve()`, whose
`serve_forever` closes the listener and waits in `wait_closed`; connections are served on
meanwhile. `wait_closed` counts transports (`attached`), not coroutines: a transport leaves the
server when its stream is lost (`Detach`), at any time, while the connection's coroutine may wait
for a slot or for its NOTIFYs and not know yet. So `serve()` may end (`ServeEnds`) with NOTIFYs
in flight, and `asyncio.run` then cancels every task there is, as the second interrupt makes it
do at once; it waits for them and then, for a limited time (`ExecutorTimeout`), for the executor.
An open connection may end at any time and for any reason; which one is `ForgeHandler`'s business.

### How Healthcheck corresponds to the code

`client` is where `healthcheck()` waits: for the connection and for the answer, each with a
timeout of five seconds, which may fire at any moment, also when what it waits for has just
arrived; then for the close, which has none. On a failure the function returns without closing
its writer, and it is the end of the process that closes the connection, with a reset if an
answer is still unread (`ClientExits`). `ExitStatus` is what `healthcheck_command` exits with.
`answer` is the type of the first frame.

## 3. Runs

| Run | Instance | Shows |
| --- | --- | --- |
| `codec` | frames of every type | encoder and decoder agree on every frame, whole, cut at any byte or with one byte replaced, and with the lengths the other modules use; the salvaged ACK is the preferred one of those that encode and fit |
| `pipelined` | plain TCP, every kind of HELLO and of frame, up to three NOTIFYs with short, long and unencodable ids over two slots, an end of stream or a reset at any point | slots, bound, ACKs and dispatch are accounted for in every interleaving; what is written first, what fits, who is refused; every salvaged ACK fits; every protocol error is reported, also to a HAProxy that has shut down its sending side |
| `adverse` | three NOTIFYs, with and without pipelining | `ForgeHandler` implements `SpopConnection`; the inductive invariant; no NOTIFY is left without its ACK; serial order without pipelining; no ACK behind an error report; with swallowed cancellations, stalled writes, TLS |
| `liveness` | two NOTIFYs, stalled writes, TLS | an aborting connection ends although handlers would run forever, unless one survives its cancellation; dispatched NOTIFYs are answered or the connection ends; a hang-up ends it |
| `shutdown` | two connections, one worker thread | dispatching keeps its promises under cancellation, registration and lost transports; one interrupt cancels no NOTIFY whose answer could still be written; threads hold up neither cancellation nor async handlers; dispatched NOTIFYs are done with; shutdown completes, and nothing is left behind but what it gave up waiting for |
| `healthcheck` | agents of five frame sizes | what the verdict means, and that client and agent both finish, with timeouts and broken connections at any point |

Runs expected to violate show where the code and a document disagree (`findings` in
`PROJECT.json` quote both):

| Run | Shows |
| --- | --- |
| `disconnect_too_big` | at a frame size of 256 a truncated error message still oversizes the disconnect |
| `reset_in_clause` | a reset met while an `except*` clause sends its disconnect leaves `core_handler` |
| `handler_cancelled` | a handler that ends with `CancelledError` of its own leaves its NOTIFY without an ACK |
| `ack_after_disconnect` | the disconnect is sent before the tasks are cancelled, and an ACK can follow it |
| `foreign_reply` | an element of a reply that is not an action ends the connection, not only its stream |
| `interrupt` | after one interrupt the server goes on for as long as HAProxy keeps a connection open |

Two more disagreements, both with design decision D4, have no run of their own.
`docs/design/pipelining.md:50-52` names a `SpopFrameTooBigError` from an oversized ACK in a task as
an error that tears down the connection; `handler.py:197` catches it and sends the salvaged ACK,
which fits whatever the ids of the NOTIFY are. `SalvageAlwaysFits` therefore holds, against that
line. And `pipelining.md:53` says that the first error wins, where a `SpopFrameTooBigError` and
another protocol error raised in the same iteration of the event loop reach different `except*`
clauses and are both reported: `errors` is a set, and the clauses follow one another.

Each passing property has a mutant: a plausible slip in one definition of the model
(`A plausible slip` in the modules) under which TLC finds the property violated.

### Bounds

* `MaxFrames` bounds the frames HAProxy sends. Four frames are a HELLO and three others, which
  with two slots is one NOTIFY more than the bound, so that the loop waits for a slot with every
  kind of event behind it; no property relates more than two NOTIFYs.
* Lengths are the code's real ones; sizes are chosen around them: 0, below the AGENT-HELLO, above
  it but below a disconnect, HAProxy's least 256, above the agent's own 4096. In `healthcheck` the
  sizes of the agent lie around the lengths of the client's HELLO and of the answer, and on both
  sides of what the client announces.
* Replies hold an encodable action, an unencodable one, one that is no action, and lists the salvage
  has to cut, one of them so that an action fits beside short ids only.
* `IdsLen` is 2 (two ids below 240) up to 20: `decode_metadata` decodes an id as an INT64, whose
  varint is one byte with four bits and at most nine with seven. `pipelined` uses both ends: the
  second frame's ids are long, the third's short and the fourth's unencodable. The other runs,
  whose properties do not tell lengths apart, use 2.
* `pipelined` runs without TLS, because there HAProxy can shut down its side and still read: the
  error of a torn frame, or of an end before the HELLO, then has to be reported. Over TLS the
  transport closes with HAProxy's end of stream and nothing can be written. `pipelined` leaves
  stalled writes and swallowed cancellations to `adverse` and `liveness`.
* `codec` has integers of 10 and 14 bits (`WidthsKept` holds for any width), which puts the ends of the integer types, their signs
  and the varint's steps at 240 and 2288 within TLC's numbers; the code differs only in the
  widths. Its messages have up to two arguments and its lists up to two items: decoders treat
  items one after the other, so that two show whether one ends where the next begins.
* `shutdown` has two connections with one NOTIFY each and one worker thread, so that either can
  keep the other from its thread. A payload is a stubborn async handler, or a synchronous one and
  then a name that may get its handler while the NOTIFY is handled.

Deadlock is not checked in any run but `codec`: HAProxy may simply fall silent, and a closed
connection, a stopped server and a client that has exited take no more steps. The liveness
properties say what must not get stuck.

### Fairness

asyncio's ready queue is first-in first-out, so weak fairness per coroutine is what it provides.

* `LoopSpec` of `ForgeHandler` assumes that the event loop runs what is ready (the connection's
  coroutine, each task, the transport's callbacks) and that a HAProxy that stays up reads what it
  is sent (`PeerFairness`; without it a stalled write waits forever, as in the code, which has no
  timeout). That every handler ends is an assumption about the agent's author: it is the
  antecedent `HandlerFairness` of the two properties that need it, since a connection at capacity
  does not read, and so does not notice HAProxy's end of stream, before a handler ends.
  `TeardownCompletes` does without it: cancelling must be enough where no handler swallows it.
* `LoopSpec` of `AgentServer` assumes the same of connections that are ending, of NOTIFYs, of idle
  workers and of the timeout; an open connection need not end. `SyncHandlersDontBlock` has as
  antecedent that async handlers end, and nothing about threads; `DispatchEnds` that all handlers
  end; `ShutdownCompletes` and `CancelLeavesThread` have none. The run `interrupt` grants that all
  handlers end and still finds its counterexample.
* `ClientSpec` of `Healthcheck` assumes the client's clocks only; what its properties say of the
  agent has `AgentFairness` as antecedent.

## 4. Proofs

Everything below is checked by TLAPS for every value of the constants: any number of frames,
connections and NOTIFYs, any set of HELLOs, replies, payloads and frame kinds, any concurrency
limit and pool size, any frames, integer widths and damaged bytes. The assumptions give the
constants their types and the limit and the pool a positive size: `HandlerAssumption`
(`ForgeHandler`), `DispatchAssumption` (`Dispatch`), `ServerAssumption` (`AgentServer`),
`HealthAssumption` (`Healthcheck`: the client's HELLO is among the HELLOs, and may be sent),
`WidthAssumption` (`SpopTypes`: the small integers are fewer than the large) and `CodecAssumption`
(`FrameCodec`: samples are frames with an integer, damage is bytes). Theorems with a hypothesis of
their own have it in the table.

| Theorem | Statement |
| --- | --- |
| `TypeCorrect` | `Spec => []TypeOK` |
| `ConnectionInvariant` | `Spec => []ConnectionInv` |
| `SlotsAddUp` | `Spec => []SlotAccounting`: free slots, the loop's and the tasks' make the limit |
| `FlightIsBounded` | `Spec => []InFlightBound` |
| `SerialOrder` | `Spec => []SerialWithoutPipelining` |
| `OneAckPerNotify` | `Spec => []AckAtMostOnce` |
| `NothingDispatchedWhileAborting` | `Spec => NoDispatchWhileAborting` |
| `GreetingComesFirst` | `Spec => []HelloFirst` |
| `EveryFrameFits` | `Spec => []FramesFit` |
| `RefusesOnlyIncompatible` | `Spec => []OnlyIncompatibleRefused`, if `OwnMaxFrameSize > 0` |
| `ReportIsLast` | `Spec => []NoAckAfterErrorReport` |
| `ErrorsAreReported` | `Spec => []ErrorsReported` |
| `NotifiesAreAcked` | `Spec => []EveryNotifyAcked`, if `NoSelfCancel` |
| `ImplementsPromise` | `Spec => KeepsPromise`, if `NoSelfCancel`: `ForgeHandler` implements `SpopConnection` |
| `DispatchTypeCorrect` | `DispatchSpec => []DispatchTypeOK` |
| `NoOverlap` | `DispatchSpec => []HandlersDontOverlap` |
| `RepliesInOrder` | `DispatchSpec => []ActionsInOrder` |
| `ServerDispatches` | `Spec => ImplementsDispatch`: `AgentServer` implements `Dispatch` |
| `ServerKeepsDispatch` | what is proved of `Dispatch` holds of the server |
| `Gentle` | `Spec => []AnswerableNotCancelled`: one interrupt cancels nothing that could still be answered |
| `CleanStop` | `Spec => []NothingLeftBehind` |
| `HealthyIsNegotiated` | `HealthSpec => []HealthyMeansNegotiated` |
| `FailureHasReason` | `HealthSpec => []UnhealthyHasReason` |
| `NoReplyTooBig` | `Spec => []SalvageAlwaysFits` |
| `SalvagedFits` | a salvaged ACK has actions that encode only, and fits every size that holds an empty one |
| `SalvagedIsPreferred` | at such a size it keeps the selection preferred to every other that encodes and fits |
| `FramesComeBack` | `Spec => []RoundTrip`: what is encoded decodes to the same frame, and no further |
| `WidthsKept` | `Spec => []IntWidths`: each integer type keeps its whole range |
| `NothingTorn` | `Spec => []NoTornItem`: a frame or a payload cut short is not taken for a shorter one |
| `SameLimit` | `Spec => []LimitShared`: encoder and decoder agree on what is too big |
| `MeansItself` | `Spec => []AcceptedMeansItself`: a damaged frame that is accepted is a frame in its own right |
| `ForeignFromHello` | `Spec => []ForeignOnlyFromHello`: only a HELLO raises what no clause treats |
| `SalvageGreedy` | `Spec => []SalvageIsGreedy`, if every size has a length prefix (`FrameLenEncodes`) |
| `SizesOfBytes` | `Spec => []SizesAsModelled`, if samples are `ComposedByAgent` |

In the last eight `Spec` is that of `FrameCodec`, whose samples are any frames: with `CodecAssumption`
as the only restriction of the first six of them, `Spec => []P` says that every frame the classes of
`frame.py` can hold has `P`.

`NoSelfCancel` (`HandlerMayCancel = FALSE`: no handler ends with a `CancelledError` of its own) is
needed: the run `handler_cancelled` shows what happens without it. `OwnMaxFrameSize > 0` excludes
an agent that announces no size and so refuses everyone. `FrameLenEncodes` of the size is needed
because under a larger size an ACK could be kept that is too long for its length prefix; a size
below 2^32, as HAProxy's UINT32 is, has one. `ComposedByAgent` says what `FrameLengths` takes for
granted of a HELLO and of a disconnect: three characters of version, no capability or one of ten
characters, a status of one byte, latin-1 text, and numbers below 4328786160 in the range of INT64.
The samples of `MCFrameCodec` meet both.

### Slots and ACKs (`ForgeHandlerInvariant`)

`TypeOK` is proved first and is inductive by itself. The bound on NOTIFYs in flight is not: it
holds because free slots, the loop's slot and the unfinished tasks always add up to the limit
(`SlotAccounting`), and that only while frames are read, since a task cancelled before it
started never enters its `try` and keeps its slot. Hence the three facts that make
`ConnectionInv` inductive:

* `AbortFacts`: the group aborts exactly when the loop has been left, and no task is cancelled
  before. So no slot is lost while anything can still be dispatched.
* `DispatchOrder`: frames wait in the order they were sent, and no NOTIFY at or behind a waiting
  frame has been dispatched. So a dispatched NOTIFY is a new one, and adds one to `Live`.
* `AckFacts`: an ACK on the stream belongs to a task past `running`, and no two have the same
  NOTIFY. So the next ACK, written by a task that runs, answers another one.

The proof follows what a step may touch. `Steady` covers the steps of the coroutine, the
transport and HAProxy that leave tasks and slots alone; `QuietMove` and `AckMove` the steps of
a task, without and with an ACK; `EndSlots` the release of a slot. The theorem then has one
step per action. `NoDispatchWhileAborting` is an action property and follows from `AbortFacts`,
because `ReadNotify` needs the loop.

### What is written (`ForgeHandlerReports`)

The lemma `Writes` says that a step leaves the stream as it is or appends one frame, and of which
kinds under which conditions. On it rest five invariants:

* `GreetingFacts`: nothing is written before the HELLO is received, and tasks exist only after an
  AGENT-HELLO that answered no healthcheck. An ACK needs a task; hence `HelloFirst`.
* `SizeFacts`: the size in force only shrinks, and only before the first frame; so a frame that
  fitted when it was written fits both announcements for good.
* `RoomFacts`: an AGENT-HELLO on the stream is no shorter than an empty ACK, with ids of whatever
  length `HandlerAssumption` allows. A task runs only
  behind one, which fits the size in force (`SizeFacts`), so the size holds an empty ACK and
  `SalvagedFits` applies: no NOTIFY fails because its reply is too big (`NoReplyTooBig`).
* `ReportFacts`: errors are reported past the group, when every task has ended (`GroupDone`), so
  that no ACK can follow, whatever handlers did with their cancellation.
* `ClauseFacts`: on a stream that stays open each clause that applied has reported, or raised, by
  the time `core_handler` is past it; this carries `ErrorsReported` from the clauses to the close.
  A stream that closes in order was open when the clauses ran unless HAProxy had ended it over TLS.

### The promise (`ForgeHandlerPromise`)

`AnswerFacts` ties a task's state to its result: a task that drains has written its ACK, one that
ended well has too unless the stream was closing, and none is cancelled before the group aborts.
`EveryNotifyAcked` follows with `AbortFacts`. For the refinement every step is classed by what it
does to `Phase`, `Unanswered` and `Acked`, and matched with a step or a stutter of
`SpopConnection`; the case that needs `AnswerFacts` is the reaping of a task, which may drop a
NOTIFY from `Unanswered` only if it is answered, the stream is lost or the connection is ending.

### The salvage (`AckSalvageProofs`)

A recursive function has its equation only where one that satisfies it exists, and the library's
theorem of that takes operators as parameters. `Recursion` takes functions instead, with a
measure that gets smaller, and is proved by a least counterexample; the codec uses it too. With
the equations of `Totals` and `KeptUpTo` known, `KeptFacts` gives the loop its invariant: what is
kept encodes, its bytes are `used`, and `used` is within the budget. `SalvagedIsPreferred` compares the loop's
selection with any other that is sendable, at the first position where they differ. If the loop
kept that position, it is preferred; it cannot have dropped it, since the other has the same
actions before it and so would have been over the budget too (`MaskedGrows`). `LoopPrefers` says
this of the loop's states, which `Follows` ties to the selection.

`SalvageGreedy` (`FrameCodecProofs`) carries this over to bytes. `PickedBytes` shows, action by
action, that a selection encodes exactly if each of its actions does and takes as many bytes as
the loop counts; `ShippableSendable` adds the header and the length prefix, so the selections
whose ACK `Frame.encode` would accept are the ones the loop's lengths call sendable. The ids are
the frame's own throughout, in its header as in the budget.

### The codec (`FrameCodecProofs`)

A decoder is a function from bytes to `Got(value, rest)` or `Fail(error)`, and two facts about
one compose:

* `Reads(D, V, k)`: its answer is malformed or a value of `V` with at least `k` bytes consumed,
  and more bytes behind change neither the value nor what is consumed.
* `Carries(D, bytes, v)`: `bytes`, followed by anything, decodes to `v` and leaves what follows.

There is a lemma of each kind for every decoder, from the varint to the frame. `ReadsThen` and
`CarriesThen` (`Chain`) put one decoder behind another, `ListFacts`, `ListCarries` and
`PairsFacts` repeat one; a list's item takes at least one byte (`k = 1`), so that the
repetition ends. Integers rest on `WrapFacts`: reducing modulo the width and reading the sign back is the
identity on the type's range. The lists of names in a HELLO rest on `NamesRoundTrip`, where a name
is stripped, not empty and without a comma. `FieldsType` and `BodyType` say that whatever is
decoded, of any bytes, is a frame; with `FrameCarries` that is `AcceptedMeansItself`, and
that only a HELLO's fields can raise another exception is `ForeignOnlyFromHello`. For `NoTornItem`,
`ListCut` shows that a list cut short decodes only if the cut is between two items: an item read
from the cut bytes is, by `Reads`, the item of the whole. `AlwaysFrame` is the invariant of `Spec`.

Lengths are counted beside the bytes. `ComposedVarintLen` shows that `_compose_varint` takes
`VarintLen` bytes for every number below 4328786160, each of its steps included; `BodyLen`,
`StrPairLen`, `IntPairLen` and `JoinShort` add up what a HELLO and a disconnect are made of.
`SizesOfBytes` is their sum: the lengths by which `ForgeHandler` decides are those of the bytes,
for an ACK with any ids (`MetadataLen`).

### Dispatch, server and healthcheck

* `JobInv` (`DispatchProofs`) adds to `HandlersDontOverlap` which jobs each stage allows and that
  a NOTIFY is in the queue exactly while its job is there, once. A job left by a cancelled NOTIFY
  can therefore never be taken for a live one's.
* `ProgressInv` (`DispatchProofs`): the actions collected so far are those of the positions below
  `at` whose outcome is `actions`, in order. At the end `at` is behind the last message.
* `ServerDispatches` matches each action of `AgentServer` with one of `Dispatch`, so the theorems
  about `Dispatch` carry over. `ServerInv` (`AgentServerProofs`) adds that a NOTIFY in flight
  belongs to a connection that is open or ending; that one with a pending cancellation, on a
  connection that goes on, means that tasks are being cancelled; that with a single interrupt they
  are only once no transport is left, which is `AnswerableNotCancelled`; and that once tasks and
  transports are gone they stay so, and with them the executor's supply (`CleanStop`).
* `CheckFacts` (`HealthcheckProofs`): the first frame on the stream does not change, an AGENT-HELLO
  there holds what was agreed with this client, and the answer is that frame's type. It uses the
  lemma `Writes` for the agent's steps.
* `ReasonFacts` (`HealthcheckProofs`): while the client waits on an unbroken connection for an
  agent whose size holds its HELLO, the agent has that HELLO still to read or has answered with
  the AGENT-HELLO, which never exceeds what the client announces. So a failure is then the
  timeout's or the connection's, which is `UnhealthyHasReason`.

Only model-checked, on the instances of section 3: liveness (`TeardownCompletes`,
`NotifyAnsweredOrOver`, `HangupEndsConnection`, `CancelLeavesThread`, `SyncHandlersDontBlock`,
`DispatchEnds`, `ShutdownCompletes`, `CheckAnswered`, `CheckEnds`), which is out of the prover's
reach. Every invariant and every action property of the passing runs is proved.

## 5. Not modelled

* Logging and argument parsing (`log.py`, the rest of `cli.py`): no state a property depends on.
* `AgentContext`: it only reads its arguments.
* How `readexactly` waits for bytes: `FrameDecoder` works on a stream that has ended,
  `ForgeHandler` on whole frames.
* Handlers that raise `SystemExit` or `KeyboardInterrupt`, or let a `StopIteration` out of a
  thread: not an `Exception` of the handler but a fault of the interpreter's own control flow.
* A function that is not a coroutine function but returns an awaitable: its value is no list and
  counts as `nothing`.
* A third interrupt, and the wait for threads at the exit of the interpreter, behind `run()`.
* What a connection does on its own within `AgentServer`, and what its NOTIFYs do within
  `ForgeHandler` (section 2 says how the two fit).
