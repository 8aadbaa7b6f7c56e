---------------------------- MODULE ForgeHandler ----------------------------
(***************************************************************************)
(* server/handler.py: one SPOP connection of the agent.                    *)
(*                                                                         *)
(* The connection's coroutine (core_handler) performs the handshake and    *)
(* then reads frames, starting one task for each NOTIFY inside an          *)
(* asyncio.TaskGroup.  A semaphore bounds the tasks.  Coroutines interleave*)
(* only where they wait, so an action below is what runs between two waits:*)
(* for a frame, for a slot, for the agent's handler, for the write buffer  *)
(* to drain, for the group's tasks.                                        *)
(*                                                                         *)
(* HAProxy, the transport (asyncio streams) and the agent's handlers are   *)
(* the environment.                                                        *)
(***************************************************************************)
EXTENDS Negotiation, AckSalvage, SequencesExt

CONSTANTS
    Hellos,              \* HAPROXY-HELLO payloads: [versions, size, caps, healthcheck]
    PeerFrames,          \* kinds of frames HAProxy may send (a subset of FrameKinds)
    Replies,             \* action lists the agent's handlers may produce
    ErrorTextLens,       \* lengths of the texts of decoding errors, which quote the frame
    OwnMaxFrameSize,     \* SpoeForge(max_frame_size=...)
    MaxConcurrentFrames, \* SpoeForge(max_concurrent_frames=...)
    IdsLen,              \* bytes of each NOTIFY's stream and frame id, in its ACK
    UnencodableIds,      \* NOTIFYs whose stream or frame id is decoded as a negative number
    HandlerMayCancel,    \* a handler may itself end with a CancelledError
    StubbornIds,         \* NOTIFYs with a handler that may catch its cancellation and go on
    PeerMayStall,        \* HAProxy may stop reading: writes above the high-water mark wait
    Tls,                 \* serve(ssl=...) was given a context
    MaxFrames            \* bound on the frames HAProxy sends

FrameKinds ==
    {"HAPROXY_HELLO", "NOTIFY", "HAPROXY_DISCONNECT",
     "OTHER",        \* decodes, and is none of the above
     "MALFORMED",    \* Frame.decode raises SpopDecodeError
     "OVERSIZED",    \* its length is above the size in force
     "MISTYPED"}     \* a HELLO value of a wrong type: AttributeError or TypeError

\* A NOTIFY is named by its position among the frames HAProxy sends.
Ids == 1 .. MaxFrames

\* An id is decoded as an INT64, which takes one to ten bytes on the wire.
ASSUME HandlerAssumption ==
    /\ OwnMaxFrameSize \in Int
    /\ MaxConcurrentFrames \in Nat \ {0}
    /\ MaxFrames \in Nat
    /\ \A hello \in Hellos : hello.size \in Int /\ hello.healthcheck \in BOOLEAN
    /\ PeerFrames \subseteq FrameKinds
    /\ ErrorTextLens \subseteq Nat
    /\ Replies \subseteq Seq([len : Nat, enc : {"ok", "bad", "alien"}])
    /\ IdsLen \in [Ids -> 2 .. 20]
    /\ {HandlerMayCancel, PeerMayStall, Tls} \subseteq BOOLEAN

VARIABLES
    hello,      \* what HAProxy announces in its HAPROXY-HELLO
    nSent,      \* number of frames HAProxy has sent
    inbox,      \* received frames not read yet, [kind, id]
    eof,        \* HAProxy has shut down its sending side
    peer,       \* "up", or "gone": the TCP connection was reset
    transport,  \* our side: "open", "closing", "lost", "reset" (lost with an error)
    paused,     \* the write buffer is above its high-water mark
    wire,       \* every frame written, in order: [type, id, code, len]
    pc,         \* where core_handler is
    config,     \* ServerConfiguration
    slots,      \* value of the semaphore
    task,       \* state of the task of each NOTIFY
    result,     \* how it ended
    cancel,     \* a cancellation of it is pending
    aborting,   \* the group has cancelled its tasks
    errors,     \* classes of the exceptions the group has collected
    escaped     \* classes of the exceptions raised inside the except* clauses

peerVars == <<hello, nSent, inbox, eof, peer>>
linkVars == <<transport, paused, wire>>
groupVars == <<aborting, errors, cancel>>
taskVars == <<task, result, slots>>
vars == <<peerVars, linkVars, pc, config, taskVars, groupVars, escaped>>

\* The task has been created and its coroutine has not finished.
Live == {i \in Ids : task[i] \in {"created", "running", "draining"}}

-----------------------------------------------------------------------------
(* Sending *)

AgentHelloFrame(size, caps) ==
    [type |-> "AGENT_HELLO", id |-> 0, code |-> "none", len |-> AgentHelloLen(size, caps)]

DisconnectFrame(code, textLen) ==
    [type |-> "AGENT_DISCONNECT", id |-> 0, code |-> code, len |-> DisconnectLen(textLen)]

AckFrame(id, actions) ==
    [type |-> "ACK", id |-> id, code |-> "none", len |-> AckLen(actions, IdsLen[id])]

\* Frame.encode's check against the size in force.
Fits(frame, size) == frame.len \in 1 .. size

\* send_frame(frame) up to its first wait, with the frame size in force.  r says
\* how that went:
\*   "skipped"  the stream is closing, it returns False;
\*   "TooBig"   encode raises SpopFrameTooBigError;
\*   "Conn"     the write finds the connection reset, drain raises;
\*   "sent"     written, drain returns at once;
\*   "drain"    written, and drain waits for HAProxy to read.
SendFrame(frame, size, r) ==
    \/ /\ r = "skipped"
       /\ transport # "open"
       /\ UNCHANGED linkVars
    \/ /\ r = "TooBig"
       /\ transport = "open"
       /\ ~Fits(frame, size)
       /\ UNCHANGED linkVars
    \/ /\ r = "Conn"
       /\ transport = "open" /\ Fits(frame, size)
       /\ peer = "gone" /\ ~paused
       /\ transport' = "reset"
       /\ UNCHANGED <<paused, wire>>
    \/ /\ r \in {"sent", "drain"}
       /\ transport = "open" /\ Fits(frame, size)
       /\ IF r = "drain" THEN PeerMayStall ELSE ~paused
       /\ paused' = (r = "drain")
       /\ wire' = Append(wire, frame)
       /\ UNCHANGED transport

SendOutcomes == {"skipped", "TooBig", "Conn", "sent", "drain"}

\* A plausible slip: a lost connection does not wake what waits for the drain.
DrainedByPeer(r) == r = "sent" /\ ~paused

\* The waiting drain() returns, or raises because the connection was lost.
Drained(r) ==
    \/ r = "sent" /\ ~paused
    \/ r = "Conn" /\ transport \in {"lost", "reset"}

-----------------------------------------------------------------------------
(* The task group *)

\* A plausible slip: the group is left without cancelling its tasks.
LeaveTasksRunning == aborting' = TRUE /\ UNCHANGED cancel

\* TaskGroup._abort: cancellation is requested of every task that is not done.
Abort ==
    /\ aborting' = TRUE
    /\ cancel' = [i \in Ids |-> cancel[i] \/ i \in Live]

\* The body of the group raises e: the group aborts and waits for its tasks.
RaiseInBody(e) ==
    /\ errors' = errors \union {e}
    /\ Abort
    /\ pc' = "join"

\* Sends a last frame of the body; CloseConnection follows unless that raises.
SendThenClose(frame, size) ==
    \E r \in SendOutcomes :
        /\ SendFrame(frame, size, r)
        /\ \/ r \in {"sent", "skipped"} /\ RaiseInBody("Close")
           \/ r \in {"TooBig", "Conn"} /\ RaiseInBody(r)
           \/ r = "drain" /\ pc' = "bye_drain" /\ UNCHANGED groupVars

FinishBye ==
    /\ pc = "bye_drain"
    /\ \E r \in {"sent", "Conn"} :
        /\ Drained(r)
        /\ RaiseInBody(IF r = "sent" THEN "Close" ELSE r)
    /\ UNCHANGED <<peerVars, linkVars, config, taskVars, escaped>>

\* Frame.decode returns a frame of this kind.
Decoded(kind) ==
    /\ transport # "reset"
    /\ inbox # <<>>
    /\ Head(inbox).kind = kind
    /\ inbox' = Tail(inbox)
    /\ UNCHANGED <<hello, nSent, eof, peer>>

\* What Frame.decode raises for the frames it cannot decode.
DecodeErrors ==
    [MALFORMED |-> "Malformed", TRUNCATED |-> "Spoe", OVERSIZED |-> "TooBig",
     MISTYPED |-> "Foreign"]

\* Frame.decode raises: it cannot decode the frame, or the reader holds the
\* exception of a lost connection (whatever is still buffered).
DecodeRaises ==
    /\ pc \in {"handshake", "read"}
    /\ \/ \E kind \in DOMAIN DecodeErrors : Decoded(kind) /\ RaiseInBody(DecodeErrors[kind])
       \/ transport = "reset" /\ RaiseInBody("Conn") /\ UNCHANGED peerVars
    /\ UNCHANGED <<linkVars, config, taskVars, escaped>>

\* The stream ends between frames.
AtEof == transport # "reset" /\ inbox = <<>> /\ eof

-----------------------------------------------------------------------------
(* Handshake *)

\* A plausible slip: the bound applies whatever was negotiated.
AlwaysPipelined(agreed) == MaxConcurrentFrames

\* core_handler: without the capability the connection is served serially.
ConcurrencyLimit(agreed) ==
    IF "pipelining" \in agreed.caps THEN MaxConcurrentFrames ELSE 1

\* core_handler enters _read_frames with a fresh semaphore.
StartReading(agreed) ==
    /\ pc' = "acquire"
    /\ slots' = ConcurrencyLimit(agreed)
    /\ UNCHANGED groupVars

\* handle_handshake after send_frame of the AGENT-HELLO: the frame loop
\* starts, unless the stream was closing or this was a healthcheck.
AfterHello(sent, agreed) ==
    \/ sent /\ ~hello.healthcheck /\ StartReading(agreed)
    \/ (~sent \/ hello.healthcheck) /\ RaiseInBody("Close") /\ UNCHANGED slots

\* A plausible slip: a healthcheck is closed before it is answered.
SilentOnHealthcheck(agreed) ==
    /\ hello.healthcheck /\ RaiseInBody("Close")
    /\ UNCHANGED <<linkVars, slots>>

\* Answers a compatible HAPROXY-HELLO, under the frame size just agreed.
SendAgentHello(agreed) ==
    \E r \in SendOutcomes :
        /\ SendFrame(AgentHelloFrame(agreed.size, agreed.caps), agreed.size, r)
        /\ \/ r = "sent" /\ AfterHello(TRUE, agreed)
           \/ r = "skipped" /\ AfterHello(FALSE, agreed)
           \/ r \in {"TooBig", "Conn"} /\ RaiseInBody(r) /\ UNCHANGED slots
           \/ r = "drain" /\ pc' = "hello_drain" /\ UNCHANGED <<groupVars, slots>>

\* "Handshake failed to find compatibility."
IncompatibleTextLen == 39

\* A plausible slip: the outcome of the negotiation is not looked at.
AcceptAnyHello ==
    /\ pc = "handshake"
    /\ Decoded("HAPROXY_HELLO")
    /\ config' = Negotiate(config, hello)
    /\ SendAgentHello(Negotiate(config, hello))
    /\ UNCHANGED <<task, result, escaped>>

\* handle_handshake on a HAPROXY-HELLO: negotiate, then answer or refuse.
ReceiveHello ==
    /\ pc = "handshake"
    /\ Decoded("HAPROXY_HELLO")
    /\ LET agreed == Negotiate(config, hello) IN
        /\ config' = agreed
        /\ \/ agreed.compatible /\ SendAgentHello(agreed)
           \/ /\ ~agreed.compatible
              /\ SendThenClose(DisconnectFrame("SERVER_INCOMPATIBLE", IncompatibleTextLen),
                               agreed.size)
              /\ UNCHANGED slots
    /\ UNCHANGED <<task, result, escaped>>

FinishHello ==
    /\ pc = "hello_drain"
    /\ \/ Drained("sent") /\ AfterHello(TRUE, config)
       \/ Drained("Conn") /\ RaiseInBody("Conn") /\ UNCHANGED slots
    /\ UNCHANGED <<peerVars, linkVars, config, task, result, escaped>>

\* The longest "Expected HAPROXY-HELLO, received ..." text.
UnexpectedFirstTextLen == 51

\* handle_handshake on any other frame.
RefuseFirstFrame ==
    /\ pc = "handshake"
    /\ \E kind \in {"NOTIFY", "HAPROXY_DISCONNECT", "OTHER"} : Decoded(kind)
    /\ SendThenClose(DisconnectFrame("INVALID_FRAME_RECEIVED", UnexpectedFirstTextLen), config.size)
    /\ UNCHANGED <<config, taskVars, escaped>>

\* Frame.decode raises SpopEOFError before any HELLO, which is a SpoeForgeError.
EofInHandshake ==
    /\ pc = "handshake" /\ AtEof
    /\ RaiseInBody("Spoe")
    /\ UNCHANGED <<peerVars, linkVars, config, taskVars, escaped>>

-----------------------------------------------------------------------------
(* _read_frames *)

\* A plausible slip: the next frame is read without waiting for a slot.
ReadWithoutWaiting ==
    /\ pc = "acquire"
    /\ slots' = slots - 1
    /\ pc' = "read"
    /\ UNCHANGED <<peerVars, linkVars, config, task, result, groupVars, escaped>>

\* A slot is taken before each read.
Acquire ==
    /\ pc = "acquire" /\ slots > 0
    /\ slots' = slots - 1
    /\ pc' = "read"
    /\ UNCHANGED <<peerVars, linkVars, config, task, result, groupVars, escaped>>

\* A NOTIFY is dispatched as a task of the group, which owns the slot from now on.
ReadNotify ==
    /\ pc = "read"
    /\ Decoded("NOTIFY")
    /\ task' = [task EXCEPT ![Head(inbox).id] = "created"]
    /\ pc' = "acquire"
    /\ UNCHANGED <<linkVars, config, slots, result, groupVars, escaped>>

\* "Disconnecting normally"
NormalTextLen == 22

\* A HAPROXY-DISCONNECT is answered in the loop, before the tasks are cancelled.
ReadDisconnect ==
    /\ pc = "read"
    /\ Decoded("HAPROXY_DISCONNECT")
    /\ SendThenClose(DisconnectFrame("NORMAL", NormalTextLen), config.size)
    /\ UNCHANGED <<config, taskVars, escaped>>

\* The longest "Expected NOTIFY or HAPROXY_DISCONNECT, received ..." text.
UnexpectedTextLen == 61

ReadUnexpected ==
    /\ pc = "read"
    /\ \E kind \in {"HAPROXY_HELLO", "OTHER"} : Decoded(kind)
    /\ SendThenClose(DisconnectFrame("INVALID_FRAME_RECEIVED", UnexpectedTextLen), config.size)
    /\ UNCHANGED <<config, taskVars, escaped>>

\* SpopEOFError is turned into CloseConnection.
ReadEof ==
    /\ pc = "read" /\ AtEof
    /\ RaiseInBody("Close")
    /\ UNCHANGED <<peerVars, linkVars, config, taskVars, escaped>>

-----------------------------------------------------------------------------
(* The tasks: _process_notify *)

\* A plausible slip: the slot is given back after the ACK instead of in a finally.
ReleaseOnSuccess(id, res) ==
    /\ task' = [task EXCEPT ![id] = "ended"]
    /\ result' = [result EXCEPT ![id] = res]
    /\ slots' = IF res = "ok" THEN slots + 1 ELSE slots

\* The coroutine finishes, whatever the reason: its finally releases the slot.
EndTask(id, res) ==
    /\ task' = [task EXCEPT ![id] = "ended"]
    /\ result' = [result EXCEPT ![id] = res]
    /\ slots' = slots + 1

StartTask(id) ==
    /\ task[id] = "created" /\ ~cancel[id]
    /\ task' = [task EXCEPT ![id] = "running"]
    /\ UNCHANGED <<peerVars, linkVars, pc, config, slots, result, groupVars, escaped>>

\* The cancellation reaches the task where it waits.  A coroutine that has not
\* started never enters its try, so it does not release its slot.
CancelTask(id) ==
    /\ id \in Live /\ cancel[id]
    /\ cancel' = [cancel EXCEPT ![id] = FALSE]
    /\ \/ /\ task[id] = "created"
          /\ task' = [task EXCEPT ![id] = "ended"]
          /\ result' = [result EXCEPT ![id] = "cancelled"]
          /\ UNCHANGED slots
       \/ /\ task[id] # "created"
          /\ EndTask(id, "cancelled")
       \/ /\ task[id] = "running" /\ id \in StubbornIds
          /\ UNCHANGED taskVars
    /\ UNCHANGED <<peerVars, linkVars, pc, config, aborting, errors, escaped>>

\* A plausible slip: the task sends an ACK and goes on trying.
SendAckAgain(id, frame) ==
    \E r \in SendOutcomes :
        /\ SendFrame(frame, config.size, r)
        /\ UNCHANGED taskVars

\* The task writes its ACK; waiting for the drain keeps the slot.
SendAck(id, frame) ==
    \E r \in SendOutcomes :
        /\ SendFrame(frame, config.size, r)
        /\ \/ r \in {"sent", "skipped"} /\ EndTask(id, "ok")
           \/ r \in {"TooBig", "Conn"} /\ EndTask(id, r)
           \/ /\ r = "drain"
              /\ task' = [task EXCEPT ![id] = "draining"]
              /\ UNCHANGED <<result, slots>>

\* A plausible slip: what cannot be sent whole is logged and not sent at all.
DropUnsendable(id, reply) ==
    IF AllEncode(reply) /\ Fits(AckFrame(id, reply), config.size)
    THEN SendAck(id, AckFrame(id, reply))
    ELSE EndTask(id, "ok") /\ UNCHANGED linkVars

\* A plausible slip: an ACK is sent only if there is an action to report.
SendActionsOnly(id, reply) ==
    IF reply = <<>>
    THEN EndTask(id, "ok") /\ UNCHANGED linkVars
    ELSE SendAck(id, AckFrame(id, Salvaged(reply, config.size, IdsLen[id])))

\* The first attempt sends every action; if encoding them fails the salvaged
\* ones are sent.  No wait separates the two.
SendReply(id, reply) ==
    IF AllEncode(reply) /\ Fits(AckFrame(id, reply), config.size)
    THEN SendAck(id, AckFrame(id, reply))
    ELSE SendAck(id, AckFrame(id, Salvaged(reply, config.size, IdsLen[id])))

\* The agent's handlers have produced a reply.  On an open stream encoding may
\* raise: the id of the NOTIFY in every ACK of it, the salvaged one included, or
\* an element the encoder and the salvage loop cannot treat as an action.
HandlerReturns(id) ==
    /\ task[id] = "running" /\ ~cancel[id]
    /\ \E reply \in Replies :
        \/ /\ transport = "open" /\ id \in UnencodableIds
           /\ EndTask(id, "Spoe")
           /\ UNCHANGED linkVars
        \/ /\ transport = "open" /\ id \notin UnencodableIds /\ SomeAlien(reply)
           /\ EndTask(id, "Foreign")
           /\ UNCHANGED linkVars
        \/ /\ transport # "open" \/ (id \notin UnencodableIds /\ ~SomeAlien(reply))
           /\ SendReply(id, reply)
    /\ UNCHANGED <<peerVars, pc, config, groupVars, escaped>>

\* A handler ends with a CancelledError of its own, which the registry's
\* "except Exception" does not catch: the task counts as cancelled.
HandlerCancels(id) ==
    /\ HandlerMayCancel
    /\ task[id] = "running" /\ ~cancel[id]
    /\ EndTask(id, "cancelled")
    /\ UNCHANGED <<peerVars, linkVars, pc, config, groupVars, escaped>>

FinishAck(id) ==
    /\ task[id] = "draining" /\ ~cancel[id]
    /\ \E r \in {"sent", "Conn"} :
        /\ Drained(r)
        /\ EndTask(id, IF r = "sent" THEN "ok" ELSE r)
    /\ UNCHANGED <<peerVars, linkVars, pc, config, groupVars, escaped>>

TaskErrors == {"TooBig", "Spoe", "Conn", "Foreign"}

\* The other subclasses of SpoeForgeError: "Malformed" is a decoding error, whose
\* text may quote the frame; the texts of the others ("Spoe") are fixed.
SpoeErrors == {"Spoe", "Malformed"}

\* A plausible slip: a failing task cancels the others but not the read loop.
ReapAndReadOn(id) ==
    /\ task[id] = "ended"
    /\ task' = [task EXCEPT ![id] = "reaped"]
    /\ errors' = errors \union ({result[id]} \cap TaskErrors)
    /\ IF result[id] \in TaskErrors THEN Abort ELSE UNCHANGED <<aborting, cancel>>
    /\ UNCHANGED <<peerVars, linkVars, pc, config, result, slots, escaped>>

\* TaskGroup._on_task_done, in a later iteration of the loop than the end of
\* the task: the first error aborts the group and interrupts the read loop.
ReapTask(id) ==
    /\ task[id] = "ended"
    /\ task' = [task EXCEPT ![id] = "reaped"]
    /\ errors' = errors \union ({result[id]} \cap TaskErrors)
    /\ IF result[id] \in TaskErrors /\ ~aborting
       THEN Abort /\ pc' = "join"
       ELSE UNCHANGED <<aborting, cancel, pc>>
    /\ UNCHANGED <<peerVars, linkVars, config, result, slots, escaped>>

-----------------------------------------------------------------------------
(* The end of core_handler: except* clauses and close_connection *)

\* A plausible slip: the group does not wait for its tasks.
DoNotWait == TRUE

\* TaskGroup.__aexit__ waits until every task is done and accounted for.
GroupDone == \A i \in Ids : task[i] \in {"none", "reaped"}

\* The clauses run in this order, each one if the group holds an exception of its class.
FirstClause ==
    IF "TooBig" \in errors THEN "except_toobig"
    ELSE IF errors \cap SpoeErrors # {} THEN "except_spoe" ELSE "unwind"

AfterTooBig == IF errors \cap SpoeErrors # {} THEN "except_spoe" ELSE "unwind"

LeaveGroup ==
    /\ pc = "join" /\ GroupDone
    /\ pc' = FirstClause
    /\ UNCHANGED <<peerVars, linkVars, config, taskVars, groupVars, escaped>>

\* send_disconnect_on_error inside a clause: what it raises leaves core_handler.
ReportError(code, textLen, waiting, next) ==
    \E r \in SendOutcomes :
        /\ SendFrame(DisconnectFrame(code, Truncated(textLen)), config.size, r)
        /\ escaped' = escaped \union ({r} \cap {"TooBig", "Conn"})
        /\ pc' = IF r = "drain" THEN waiting ELSE next

\* "Frame size 5000 exceeds maximum size 4096"
TooBigTextLen == 41

HandleTooBig ==
    /\ pc = "except_toobig"
    /\ ReportError("FRAME_TOO_BIG", TooBigTextLen, "toobig_drain", AfterTooBig)
    /\ UNCHANGED <<peerVars, config, taskVars, groupVars>>

\* "cannot encode negative number as varint: -9223372036854775808"
FixedTextLen == 61

\* Lengths of str(eg.exceptions[0]) for the exceptions in the clause's group.
SpoeTextLens ==
    {n \in ErrorTextLens : "Malformed" \in errors} \union {n \in {FixedTextLen} : "Spoe" \in errors}

\* A plausible slip: nothing is reported to a HAProxy that has ended its stream.
ReportUnlessEof ==
    /\ pc = "except_spoe"
    /\ IF eof
       THEN pc' = "unwind" /\ UNCHANGED <<linkVars, escaped>>
       ELSE \E textLen \in SpoeTextLens :
                ReportError("PROTOCOL_ERROR", textLen, "spoe_drain", "unwind")
    /\ UNCHANGED <<peerVars, config, taskVars, groupVars>>

HandleSpoe ==
    /\ pc = "except_spoe"
    /\ \E textLen \in SpoeTextLens :
        ReportError("PROTOCOL_ERROR", textLen, "spoe_drain", "unwind")
    /\ UNCHANGED <<peerVars, config, taskVars, groupVars>>

FinishReport ==
    /\ pc \in {"toobig_drain", "spoe_drain"}
    /\ \E r \in {"sent", "Conn"} :
        /\ Drained(r)
        /\ escaped' = escaped \union ({r} \cap {"Conn"})
    /\ pc' = IF pc = "toobig_drain" THEN AfterTooBig ELSE "unwind"
    /\ UNCHANGED <<peerVars, linkVars, config, taskVars, groupVars>>

\* Exceptions no clause handles, and those raised inside the clauses.
Unhandled == escaped \union (errors \cap {"Foreign"})

\* transport.close(): the transport reports the loss once its buffer is written.
CloseTransport == transport' = IF transport = "open" THEN "closing" ELSE transport

\* close_connection, reached only when nothing is raised.
CloseConnection ==
    /\ pc = "unwind" /\ Unhandled = {}
    /\ CloseTransport
    /\ pc' = "closing"
    /\ UNCHANGED <<peerVars, paused, wire, config, taskVars, groupVars, escaped>>

\* wait_closed returns, or raises the ConnectionError that core_handler ignores.
WaitClosed ==
    /\ pc = "closing" /\ transport \in {"lost", "reset"}
    /\ pc' = "closed"
    /\ UNCHANGED <<peerVars, linkVars, config, taskVars, groupVars, escaped>>

\* An exception leaves core_handler: close_connection is skipped, and asyncio's
\* connection callback logs the exception and closes the transport.
Escape ==
    /\ pc = "unwind" /\ Unhandled # {}
    /\ CloseTransport
    /\ pc' = "crashed"
    /\ UNCHANGED <<peerVars, paused, wire, config, taskVars, groupVars, escaped>>

-----------------------------------------------------------------------------
(* HAProxy and the transport *)

\* core_handler has returned; what HAProxy does afterwards is not followed.
Over == pc \in {"closed", "crashed"}

PeerSend ==
    /\ ~Over
    /\ peer = "up" /\ ~eof /\ nSent < MaxFrames
    /\ nSent' = nSent + 1
    /\ \E kind \in PeerFrames : inbox' = Append(inbox, [kind |-> kind, id |-> nSent + 1])
    /\ UNCHANGED <<hello, eof, peer, linkVars, pc, config, taskVars, groupVars, escaped>>

\* HAProxy shuts its side down, possibly in the middle of a frame.
PeerEof ==
    /\ ~Over
    /\ peer = "up" /\ ~eof
    /\ eof' = TRUE
    /\ inbox' \in {inbox, Append(inbox, [kind |-> "TRUNCATED", id |-> nSent + 1])}
    /\ UNCHANGED <<hello, nSent, peer, linkVars, pc, config, taskVars, groupVars, escaped>>

PeerReset ==
    /\ ~Over
    /\ peer = "up"
    /\ peer' = "gone"
    /\ UNCHANGED <<hello, nSent, inbox, eof, linkVars, pc, config, taskVars, groupVars, escaped>>

\* HAProxy reads: the write buffer falls below its low-water mark.
PeerReads ==
    /\ paused /\ peer = "up"
    /\ paused' = FALSE
    /\ UNCHANGED <<peerVars, transport, wire, pc, config, taskVars, groupVars, escaped>>

\* The event loop sees the reset: the reader gets the exception.
NoticeReset ==
    /\ peer = "gone" /\ transport \in {"open", "closing"}
    /\ transport' = "reset"
    /\ UNCHANGED <<peerVars, paused, wire, pc, config, taskVars, groupVars, escaped>>

\* A TLS connection cannot be half-open: asyncio closes it at the peer's EOF.
NoticeTlsEof ==
    /\ Tls /\ eof /\ transport = "open"
    /\ transport' = "closing"
    /\ UNCHANGED <<peerVars, paused, wire, pc, config, taskVars, groupVars, escaped>>

FinishClose ==
    /\ transport = "closing" /\ ~paused
    /\ transport' = "lost"
    /\ UNCHANGED <<peerVars, paused, wire, pc, config, taskVars, groupVars, escaped>>

-----------------------------------------------------------------------------
(* Specification *)

\* A connection to an agent of this frame size has just been accepted.
InitFor(ownSize) ==
    /\ hello \in Hellos
    /\ nSent = 0 /\ inbox = <<>>
    /\ eof = FALSE /\ peer = "up"
    /\ transport = "open" /\ paused = FALSE /\ wire = <<>>
    /\ pc = "handshake"
    /\ config = InitialConfig(ownSize)
    /\ slots = 0
    /\ task = [i \in Ids |-> "none"]
    /\ result = [i \in Ids |-> "none"]
    /\ cancel = [i \in Ids |-> FALSE]
    /\ aborting = FALSE
    /\ errors = {} /\ escaped = {}

Init == InitFor(OwnMaxFrameSize)

\* The coroutine core_handler.
ConnectionStep ==
    \/ ReceiveHello \/ RefuseFirstFrame \/ EofInHandshake \/ FinishHello
    \/ DecodeRaises
    \/ Acquire \/ ReadNotify \/ ReadDisconnect \/ ReadUnexpected \/ ReadEof \/ FinishBye
    \/ LeaveGroup
    \/ HandleTooBig \/ HandleSpoe \/ FinishReport
    \/ CloseConnection \/ WaitClosed \/ Escape

\* What the event loop runs of the task of one NOTIFY.
TaskStep(id) == StartTask(id) \/ CancelTask(id) \/ FinishAck(id) \/ ReapTask(id)

\* What the agent's handlers decide.
HandlerStep(id) == HandlerReturns(id) \/ HandlerCancels(id)

TransportStep == NoticeReset \/ NoticeTlsEof \/ FinishClose

PeerStep == PeerSend \/ PeerEof \/ PeerReset \/ PeerReads

Next ==
    \/ ConnectionStep
    \/ \E id \in Ids : TaskStep(id) \/ HandlerStep(id)
    \/ TransportStep
    \/ PeerStep

Spec == Init /\ [][Next]_vars

\* The event loop runs every ready callback, and the kernel reports a reset.
LoopFairness ==
    /\ WF_vars(ConnectionStep)
    /\ \A id \in Ids : WF_vars(TaskStep(id))
    /\ WF_vars(TransportStep)

\* A HAProxy that stays up reads what it is sent.
PeerFairness == WF_vars(PeerReads)

\* Every handler ends eventually.
HandlerFairness == \A id \in Ids : WF_vars(HandlerStep(id))

\* The event loop alone is fair: handlers may run forever.
LoopSpec == Spec /\ LoopFairness /\ PeerFairness

-----------------------------------------------------------------------------
(* Properties *)

Positions(type) == {i \in DOMAIN wire : wire[i].type = type}

\* The NOTIFYs whose ACK has been written.
Acked == {wire[i].id : i \in Positions("ACK")}

FrameTypes == {"AGENT_HELLO", "AGENT_DISCONNECT", "ACK"}
Codes == {"none", "NORMAL", "SERVER_INCOMPATIBLE", "INVALID_FRAME_RECEIVED",
          "FRAME_TOO_BIG", "PROTOCOL_ERROR"}

WireFrames == [type : FrameTypes, id : 0 .. MaxFrames, code : Codes, len : Nat]
ReceivedFrames == [kind : FrameKinds \union {"TRUNCATED"}, id : 1 .. (MaxFrames + 1)]

TaskStates == {"none", "created", "running", "draining", "ended", "reaped"}
Results == {"none", "ok", "cancelled"} \union TaskErrors

\* Where core_handler is while its group has not aborted, and afterwards.
BodyPcs == {"handshake", "hello_drain", "acquire", "read", "bye_drain"}
ExitPcs == {"join", "except_toobig", "toobig_drain", "except_spoe", "spoe_drain",
            "unwind", "closing", "closed", "crashed"}

\* Every variable has a value of its type.
TypeOK ==
    /\ hello \in Hellos
    /\ nSent \in 0 .. MaxFrames
    /\ inbox \in Seq(ReceivedFrames)
    /\ eof \in BOOLEAN /\ peer \in {"up", "gone"}
    /\ transport \in {"open", "closing", "lost", "reset"} /\ paused \in BOOLEAN
    /\ wire \in Seq(WireFrames)
    /\ pc \in BodyPcs \union ExitPcs
    /\ config \in Configurations
    /\ slots \in Nat
    /\ task \in [Ids -> TaskStates]
    /\ result \in [Ids -> Results]
    /\ cancel \in [Ids -> BOOLEAN]
    /\ aborting \in BOOLEAN
    /\ errors \subseteq TaskErrors \union SpoeErrors \union {"Close"}
    /\ escaped \subseteq {"TooBig", "Conn"}

\* While frames are read, every slot is either free, held by the read loop for
\* the frame it waits for, or held by exactly one unfinished task: no exit of
\* _process_notify leaks or returns a slot twice.
SlotAccounting ==
    /\ pc = "acquire" => slots + Cardinality(Live) = ConcurrencyLimit(config)
    /\ pc = "read" => slots + Cardinality(Live) + 1 = ConcurrencyLimit(config)

\* At no time, tear-down included, do more NOTIFYs run than the bound allows (D3).
InFlightBound == Cardinality(Live) <= ConcurrencyLimit(config)

\* Without pipelining the connection is serial: a NOTIFY is dispatched only
\* when every earlier one has its ACK, so ACKs come in the order of the NOTIFYs (D1, D2).
SerialWithoutPipelining ==
    "pipelining" \notin config.caps =>
        /\ \A i, j \in Ids : i < j /\ task[j] # "none" => i \notin Live
        /\ \A i, j \in Positions("ACK") : i < j => wire[i].id < wire[j].id

\* An ACK answers a NOTIFY that was dispatched, and no NOTIFY has two: the
\* salvaged ACK replaces the full one.
AckAtMostOnce ==
    /\ \A i \in Acked : task[i] \notin {"none", "created", "running"}
    /\ Cardinality(Positions("ACK")) = Cardinality(Acked)

\* The AGENT-HELLO opens the conversation: nothing but a refusal is written
\* without it, and a connection HAProxy opened as a healthcheck or that found
\* no compatibility carries no ACK.
HelloFirst ==
    /\ \A i \in Positions("AGENT_HELLO") : i = 1
    /\ \A i \in Positions("ACK") :
        /\ wire[1].type = "AGENT_HELLO"
        /\ ~hello.healthcheck /\ config.compatible

\* Only an incompatible HAProxy is refused as such: one that offers SPOP 2.x, x
\* of any number of digits, and a positive frame size is not.
OnlyIncompatibleRefused ==
    (\E i \in DOMAIN wire : wire[i].code = "SERVER_INCOMPATIBLE")
        => hello.size <= 0 \/ ToSet(hello.versions) \cap {<<2, x>> : x \in 0 .. 99} = {}

\* Every frame fits what this agent and, once it is known, HAProxy announced.
FramesFit ==
    \A i \in DOMAIN wire :
        /\ wire[i].len <= OwnMaxFrameSize
        /\ (1 \in Positions("AGENT_HELLO") => wire[i].len <= hello.size)

\* The disconnect that reports an error comes after the group has ended, so no
\* ACK follows it, whatever the handlers did with their cancellation.
NoAckAfterErrorReport ==
    \A i \in Positions("AGENT_DISCONNECT"), j \in Positions("ACK") :
        wire[i].code \in {"FRAME_TOO_BIG", "PROTOCOL_ERROR"} => j < i

\* No reply is too big for its own stream to be answered: the salvaged ACK fits
\* with whatever ids the NOTIFY has, so no task fails with SpopFrameTooBigError.
SalvageAlwaysFits == \A id \in Ids : result[id] # "TooBig"

\* While the connection is being served, a NOTIFY whose task ended without an
\* error has its ACK ("Agent must respond with ACK", frame.py), unless the
\* stream was lost.
EveryNotifyAcked ==
    pc \in {"acquire", "read"} /\ transport = "open" =>
        \A id \in Ids : task[id] \in {"ended", "reaped"} /\ result[id] \in {"ok", "cancelled"}
                            => id \in Acked

\* A protocol error, a frame torn by the end of the stream or a stream that ends
\* before any HELLO included, is reported to HAProxy before the connection is
\* closed in order.  Only a stream that was lost excuses: one that was reset, or
\* that HAProxy has ended over TLS.
ErrorsReported ==
    pc = "closing" /\ transport = "closing" /\ ~(Tls /\ eof) =>
        /\ "TooBig" \in errors => \E i \in DOMAIN wire : wire[i].code = "FRAME_TOO_BIG"
        /\ errors \cap SpoeErrors # {} => \E i \in DOMAIN wire : wire[i].code = "PROTOCOL_ERROR"

\* Once the group aborts, no NOTIFY is dispatched any more: the error of one
\* task stops the read loop even with frames waiting.
NoDispatchWhileAborting ==
    [][aborting => \A id \in Ids : task[id] = "none" => task'[id] = "none"]_vars

\* Tear-down completes once it starts, even if handlers would run forever:
\* cancelling is enough, as long as HAProxy reads or the connection is lost.
\* Only a handler that can catch its cancellation may hold it up.
TeardownCompletes ==
    aborting ~> Over \/ \E id \in StubbornIds : aborting /\ task[id] = "running"

\* If handlers end, a dispatched NOTIFY is answered or the connection comes to its end.
NotifyAnsweredOrOver ==
    HandlerFairness => \A id \in Ids : (task[id] = "created") ~> (id \in Acked \/ Over)

\* If handlers end, HAProxy's end of stream or reset ends the connection.
HangupEndsConnection == HandlerFairness => ((eof \/ peer = "gone") ~> Over)

-----------------------------------------------------------------------------
(* The inductive invariant *)

\* The group aborts exactly when its body is left, and cancels no task before.
AbortFacts ==
    /\ aborting <=> pc \in ExitPcs
    /\ \A i \in Ids : cancel[i] => aborting

\* Tasks start with the read loop.  Frames wait in the order they were sent, and
\* no NOTIFY at or behind a waiting frame has been dispatched.
DispatchOrder ==
    /\ pc \in {"handshake", "hello_drain"} => \A i \in Ids : task[i] = "none"
    /\ \A p \in DOMAIN inbox :
        /\ inbox[p].id <= nSent \/ (inbox[p].kind = "TRUNCATED" /\ eof)
        /\ \A q \in DOMAIN inbox : p < q => inbox[p].id < inbox[q].id
        /\ \A i \in Ids : i >= inbox[p].id => task[i] = "none"
    /\ \A i \in Ids : i > nSent => task[i] = "none"

\* An ACK was written by a task that can write no other.
AckFacts ==
    /\ \A i \in Positions("ACK") :
        wire[i].id \in Ids /\ task[wire[i].id] \notin {"none", "created", "running"}
    /\ \A i, j \in Positions("ACK") : i # j => wire[i].id # wire[j].id

\* What every step of a connection preserves: the slots add up because tasks
\* are cancelled only once the loop has been left and each NOTIFY is dispatched
\* once, in order.
ConnectionInv ==
    /\ AbortFacts
    /\ DispatchOrder
    /\ AckFacts
    /\ SlotAccounting
    /\ InFlightBound
    /\ SerialWithoutPipelining

-----------------------------------------------------------------------------
(* The promise a connection keeps *)

\* The life of the connection, as HAProxy can tell it.
Phase ==
    IF pc \in {"handshake", "hello_drain"} THEN "greeting"
    ELSE IF pc \in {"acquire", "read", "bye_drain"} THEN "serving"
    ELSE IF pc = "join" THEN "ending" ELSE "over"

\* Dispatched, not acknowledged, and its task not yet accounted for by the group.
Unanswered == {i \in Ids : task[i] \notin {"none", "reaped"} /\ i \notin Acked}

Promise == INSTANCE SpopConnection
    WITH phase <- Phase, lost <- transport # "open", pending <- Unanswered, answered <- Acked

\* The connection implements SpopConnection: in every interleaving of the read
\* loop, the tasks and the transport, no accepted NOTIFY goes without its ACK
\* unless the stream was lost or the connection is being ended.
KeepsPromise == Promise!Spec

-----------------------------------------------------------------------------
(* Statements of the documentation that the code does not keep *)

\* "[Error messages] must never be able to oversize the disconnect frame itself"
\* (server/constants.py): no clause of core_handler fails with SpopFrameTooBigError.
DisconnectNeverTooBig == "TooBig" \notin escaped

\* "treat the whole family as graceful" (core_handler): no ConnectionError
\* leaves core_handler.
ConnectionErrorsGraceful == "Conn" \notin escaped

\* "stop reading, cancel outstanding handler tasks, send AGENT-DISCONNECT"
\* (D5): no ACK follows the answer to a HAPROXY-DISCONNECT.
CancelBeforeDisconnect ==
    \A i \in Positions("AGENT_DISCONNECT"), j \in Positions("ACK") :
        wire[i].code = "NORMAL" => j < i

\* "Handler output that fails to encode [...] is contained to this stream"
\* (_process_notify): it fails no task, whose error would end the connection.
HandlerOutputContained == \A id \in Ids : result[id] # "Foreign"
=============================================================================
