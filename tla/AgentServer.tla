---------------------------- MODULE AgentServer ----------------------------
(***************************************************************************)
(* spoe_forge.py: the server.  run() drives serve() on an event loop of its*)
(* own; serve() accepts connections until it is cancelled.  Every          *)
(* connection has a coroutine (ForgeHandler) whose NOTIFYs are dispatched  *)
(* (Dispatch) over the one registry and the one executor.                  *)
(*                                                                         *)
(* Shutdown is asyncio's of Python 3.12, the oldest version the project    *)
(* runs on.  The first interrupt cancels serve(), which closes the listener*)
(* and waits until no transport is attached to it.  That is not yet the end*)
(* of the coroutines: one at capacity reads nothing, and learns of the loss*)
(* of its transport only when a slot is free.  When serve() has ended, or  *)
(* at a second interrupt, asyncio.run cancels every task, waits for them,  *)
(* and then, for a limited time, for the executor.                         *)
(***************************************************************************)
EXTENDS Dispatch, SequencesExt

CONSTANTS
    Connections,  \* connections HAProxy may open
    Owner         \* the connection of each NOTIFY

ASSUME ServerAssumption == Owner \in [Notifies -> Connections]

VARIABLES
    server,      \* "serving", "draining" (waits for connections), "cancelling",
                 \* "joining" (waits for the executor), "stopped"
    connection,  \* the coroutine of each: "none", "open", "ending" (waits for its
                 \* tasks), "over" (waits at most for its transport)
    attached,    \* connections whose transport the server counts
    interrupts,  \* number of interrupts so far
    gaveUp       \* the wait for the executor timed out

serverVars == <<server, connection, attached, interrupts, gaveUp>>
vars == <<dispatchVars, serverVars>>

Of(c) == {n \in Notifies : Owner[n] = c}

-----------------------------------------------------------------------------
(* Connections *)

\* start_server's callback runs _handler for a new connection.
Accept(c) ==
    /\ server = "serving" /\ connection[c] = "none"
    /\ connection' = [connection EXCEPT ![c] = "open"]
    /\ attached' = attached \union {c}
    /\ UNCHANGED <<dispatchVars, server, interrupts, gaveUp>>

\* A connection's read loop starts the task of a NOTIFY: of what the stream still
\* holds if the transport is gone.  serve() goes on with it while it waits.
Receive(n) ==
    /\ connection[Owner[n]] = "open" /\ server \in {"serving", "draining"}
    /\ Dispatch(n)
    /\ UNCHANGED serverVars

\* A plausible slip: the connection forgets its NOTIFYs, and their jobs with them.
ForgetNotifies(c) ==
    /\ connection[c] = "open"
    /\ connection' = [connection EXCEPT ![c] = "ending"]
    /\ stage' = [n \in Notifies |-> IF n \in Of(c) \cap InFlight THEN "cancelled" ELSE stage[n]]
    /\ UNCHANGED <<registryVars, at, outcome, actions, cancel, poolVars>>
    /\ UNCHANGED <<server, attached, interrupts, gaveUp>>

\* The body of core_handler is left, for any reason of its own or because its
\* coroutine is cancelled: the group cancels its tasks.
LeaveBody(c) ==
    /\ connection[c] = "open"
    /\ connection' = [connection EXCEPT ![c] = "ending"]
    /\ RequestCancel(Of(c))
    /\ UNCHANGED <<registryVars, notifyVars, poolVars, server, attached, interrupts, gaveUp>>

\* The group's tasks are done: core_handler closes the transport and ends with it.
LeaveGroup(c) ==
    /\ connection[c] = "ending" /\ Of(c) \cap InFlight = {}
    /\ connection' = [connection EXCEPT ![c] = "over"]
    /\ UNCHANGED <<dispatchVars, server, attached, interrupts, gaveUp>>

\* connection_lost: the transport leaves the server.  It is closed and has written
\* what it held, or the stream is lost, whatever the coroutine waits for.
Detach(c) ==
    /\ c \in attached
    /\ attached' = attached \ {c}
    /\ UNCHANGED <<dispatchVars, server, connection, interrupts, gaveUp>>

-----------------------------------------------------------------------------
(* serve() and run() *)

\* Server.wait_closed: no transport is left.
NoTransport == attached = {}

\* Every task but that of serve() has ended.
NoTask == InFlight = {} /\ \A c \in Connections : connection[c] \in {"none", "over"}

\* The first interrupt cancels the task of serve(): serve_forever closes the
\* listener and waits until no transport is left.
FirstInterrupt ==
    /\ server = "serving"
    /\ server' = "draining" /\ interrupts' = 1
    /\ UNCHANGED <<dispatchVars, connection, attached, gaveUp>>

\* asyncio.run cancels what tasks there are: the coroutines of connections
\* (LeaveBody) and NOTIFYs.
CancelTasks ==
    /\ server' = "cancelling"
    /\ RequestCancel(Notifies)
    /\ UNCHANGED <<registryVars, notifyVars, poolVars, connection, attached, gaveUp>>

\* A plausible slip: serve() closes the listener and does not wait.
ServeLeaves ==
    /\ server = "draining"
    /\ CancelTasks /\ UNCHANGED interrupts

\* serve() ends, and run_until_complete with it.
ServeEnds ==
    /\ server = "draining" /\ NoTransport
    /\ CancelTasks /\ UNCHANGED interrupts

\* The second interrupt is raised in run_until_complete.
SecondInterrupt ==
    /\ server = "draining"
    /\ CancelTasks /\ interrupts' = 2

\* All tasks have ended, that of serve(), which cannot leave its `async with`
\* before the transports are gone, with the others.
TasksEnd ==
    /\ server = "cancelling" /\ NoTask /\ NoTransport
    /\ server' = "joining"
    /\ UNCHANGED <<dispatchVars, connection, attached, interrupts, gaveUp>>

\* The executor has no job left: run() returns.
ExecutorIdle ==
    /\ server = "joining"
    /\ queue = <<>> /\ Running = {}
    /\ server' = "stopped"
    /\ UNCHANGED <<dispatchVars, connection, attached, interrupts, gaveUp>>

\* A plausible slip: the wait for the executor has no limit.
WaitForever ==
    /\ server = "joining" /\ Running = {}
    /\ server' = "stopped" /\ gaveUp' = TRUE
    /\ UNCHANGED <<dispatchVars, connection, attached, interrupts>>

\* Threads still run after the time asyncio.run allows them.
ExecutorTimeout ==
    /\ server = "joining"
    /\ server' = "stopped" /\ gaveUp' = TRUE
    /\ UNCHANGED <<dispatchVars, connection, attached, interrupts>>

-----------------------------------------------------------------------------
(* Specification *)

Init ==
    /\ DispatchInit
    /\ server = "serving" /\ interrupts = 0 /\ gaveUp = FALSE
    /\ connection = [c \in Connections |-> "none"] /\ attached = {}

\* What the event loop runs of one connection once it is ending.
ConnectionStep(c) ==
    \/ LeaveGroup(c)
    \/ connection[c] = "over" /\ Detach(c)
    \/ server = "cancelling" /\ LeaveBody(c)

ServerStep == ServeEnds \/ TasksEnd \/ ExecutorIdle \/ ExecutorTimeout

Next ==
    \/ \E entry \in Registrations : Register(entry[1], entry[2]) /\ UNCHANGED serverVars
    \/ \E c \in Connections : Accept(c) \/ LeaveBody(c) \/ LeaveGroup(c) \/ Detach(c)
    \/ \E n \in Notifies :
        \/ Receive(n)
        \/ (NotifyStep(n) \/ HandlerEnds(n)) /\ UNCHANGED serverVars
    \/ WorkerTakes /\ UNCHANGED serverVars
    \/ FirstInterrupt \/ SecondInterrupt \/ ServerStep

Spec == Init /\ [][Next]_vars

\* The event loop runs what is ready, HAProxy reads what is left for it, idle
\* workers take jobs, clocks go on.  Nothing is said of the handlers.
LoopFairness ==
    /\ \A c \in Connections : WF_vars(ConnectionStep(c))
    /\ \A n \in Notifies : WF_vars(NotifyStep(n) /\ UNCHANGED serverVars)
    /\ WF_vars(WorkerTakes /\ UNCHANGED serverVars)
    /\ WF_vars(ServerStep)

LoopSpec == Spec /\ LoopFairness

\* Async handlers end; all handlers end.
AsyncFairness == \A n \in Notifies : WF_vars(AsyncEnds(n) /\ UNCHANGED serverVars)
HandlerFairness == \A n \in Notifies : WF_vars(HandlerEnds(n) /\ UNCHANGED serverVars)

FairSpec == LoopSpec /\ HandlerFairness

-----------------------------------------------------------------------------
(* Properties *)

\* Whatever connections and shutdown do to NOTIFYs is what Dispatch allows.
ImplementsDispatch == DispatchSpec

\* Shutdown by a single interrupt costs no NOTIFY an answer that could be written:
\* one whose connection still goes on is cancelled only after the loss of its
\* transport, by asyncio.run when serve() has ended.
AnswerableNotCancelled ==
    interrupts < 2 =>
        \A n \in Notifies : cancel[n] /\ connection[Owner[n]] = "open" => Owner[n] \notin attached

\* Once run() has returned no coroutine is left and no job can start any more;
\* a handler still runs in its thread only if the wait for it was given up.
NothingLeftBehind ==
    server = "stopped" =>
        /\ NoTask /\ NoTransport
        /\ \A n \in Notifies : job[n] # "queued"
        /\ Running # {} => gaveUp

\* Cancelling reaches a NOTIFY that waits for a thread even if that never ends,
\* so that threads hold up neither tear-down nor shutdown.
CancelLeavesThread ==
    \A n \in Notifies : stage[n] = "sync" /\ cancel[n] ~> stage[n] = "cancelled"

\* Names that always have an async handler.
AlwaysAsync == {m \in Messages : Registered[m] = "async" /\ <<m, "sync">> \notin Registrations}

\* Where a NOTIFY may have such a name.
AsyncPositions == UNION {{k \in DOMAIN names : names[k] \in AlwaysAsync} : names \in Payloads}

\* Synchronous handlers cannot block the event loop ("so they can't block it",
\* registry.py): if async handlers end, the message of one is done with even if
\* every worker is busy with a synchronous handler that never ends.
SyncHandlersDontBlock ==
    AsyncFairness => \A n \in Notifies : \A k \in AsyncPositions :
        n \in InFlight /\ at[n] = k /\ messages[n][k] \in AlwaysAsync
            ~> ~(n \in InFlight /\ at[n] = k)

\* If all handlers end, every NOTIFY that is dispatched is done with: its jobs
\* get their turn, and the job a cancelled NOTIFY leaves behind, dropped or still
\* running, holds up no other NOTIFY for good.
DispatchEnds ==
    HandlerFairness => \A n \in Notifies : n \in InFlight ~> n \notin InFlight

\* The second interrupt stops the server, and so does the first one once every
\* connection is ending or has lost its transport, with synchronous handlers that
\* never end and async ones that never end unless cancelled.  Only one that catches
\* its cancellation can keep its NOTIFY, and with it the server, going.
ShutdownCompletes ==
    (server = "draining" /\ \A c \in attached : connection[c] # "open") \/ interrupts = 2
        ~> \/ server = "stopped"
           \/ \E n \in InFlight : ToSet(messages[n]) \cap Stubborn # {}

\* "Runs the AsyncIO event loop until interrupted."
InterruptStops == interrupts > 0 ~> server = "stopped"

=============================================================================
