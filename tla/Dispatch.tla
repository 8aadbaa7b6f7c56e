------------------------------ MODULE Dispatch ------------------------------
(***************************************************************************)
(* spoe_forge.py (_notify_handler) and agent/registry.py: the messages of a *)
(* NOTIFY are handled one after the other, each by the handler registered  *)
(* for its name.  An async handler runs on the event loop; a synchronous   *)
(* one is a job of the event loop's default executor, a pool of threads    *)
(* that all connections share, where it outlives its NOTIFY if that is     *)
(* cancelled.                                                              *)
(*                                                                         *)
(* The executor is asyncio's and the handlers are the agent author's.      *)
(***************************************************************************)
EXTENDS Integers, Sequences, FiniteSets, TLC

CONSTANTS
    Notifies,          \* NOTIFYs the server may receive
    Messages,          \* names of SPOE messages
    Payloads,          \* what a NOTIFY may carry: sequences of names, repeats allowed
    Registered,        \* the registry before the first connection
    Registrations,     \* <<name, kind>> an application may register while it serves
    Workers,           \* max_workers of the executor
    Stubborn           \* names whose async handler may catch its cancellation and go on

Kinds == {"async", "sync"}

ASSUME DispatchAssumption ==
    /\ Payloads \subseteq Seq(Messages)
    /\ Registered \in [Messages -> Kinds \union {"none"}]
    /\ Registrations \subseteq Messages \X Kinds
    /\ Workers \in Nat \ {0}
    /\ Stubborn \subseteq Messages

VARIABLES
    handlers,  \* AgentRegistry._handlers: the kind of each name's handler
    messages,  \* messages of each NOTIFY
    stage,     \* what its coroutine does: awaits an "async" or a "sync" handler, ...
    at,        \* position of the message being handled
    outcome,   \* how the handler of each position ended, a history
    actions,   \* the positions whose actions were collected, in order
    cancel,    \* a cancellation of the coroutine is pending
    job,       \* its job in the executor
    queue      \* the executor's queue

registryVars == <<handlers, messages>>
notifyVars == <<stage, at, outcome, actions>>
poolVars == <<job, queue>>
dispatchVars == <<registryVars, notifyVars, cancel, poolVars>>

\* What a handler may do: return a list of actions; return None or something
\* that is not a list; raise an Exception; end with a CancelledError of its own.
Outcomes == {"actions", "nothing", "raised", "cancelled"}

InFlight == {n \in Notifies : stage[n] \in Kinds}
Running == {n \in Notifies : job[n] = "running"}

-----------------------------------------------------------------------------
(* The registry *)

\* register: an existing handler is overwritten.
Register(name, kind) ==
    /\ handlers' = [handlers EXCEPT ![name] = kind]
    /\ UNCHANGED <<messages, notifyVars, cancel, poolVars>>

\* A plausible slip: a name without a handler is looked up all the same.
NextAny(names, k, next) == next = k

\* next is the first position from k on whose message has a handler, or the one
\* behind the last: handle_message returns [] at once for those without one.
NextHandled(names, k, next) ==
    /\ next \in k .. (Len(names) + 1)
    /\ \A i \in k .. (next - 1) : handlers[names[i]] = "none"
    /\ next <= Len(names) => handlers[names[next]] # "none"

\* A plausible slip: asyncio.to_thread is used for every handler.
AlwaysThreaded(name) == "sync"

\* handle_message looks at what the registered function is.
HowCalled(name) == handlers[name]

-----------------------------------------------------------------------------
(* The coroutine of one NOTIFY *)

\* _notify_handler goes on with position k of names, done being the outcomes so
\* far: up to the call of the next handler, or to its return.
GoOn(n, names, k, done) ==
    \E next \in 1 .. (Len(names) + 1) :
        /\ NextHandled(names, k, next)
        /\ at' = [at EXCEPT ![n] = next]
        /\ outcome' = [outcome EXCEPT ![n] =
                [i \in 1 .. Len(names) |-> IF i \in k .. (next - 1) THEN "skipped" ELSE done[i]]]
        /\ \/ /\ next > Len(names)
              /\ stage' = [stage EXCEPT ![n] = "returned"]
              /\ job' = [job EXCEPT ![n] = "none"]
              /\ UNCHANGED queue
           \/ /\ next <= Len(names) /\ HowCalled(names[next]) # "sync"
              /\ stage' = [stage EXCEPT ![n] = HowCalled(names[next])]
              /\ job' = [job EXCEPT ![n] = "none"]
              /\ UNCHANGED queue
           \/ /\ next <= Len(names) /\ HowCalled(names[next]) = "sync"
              /\ stage' = [stage EXCEPT ![n] = "sync"]
              /\ job' = [job EXCEPT ![n] = "queued"]
              /\ queue' = Append(queue, n)

\* The NOTIFY's task calls _notify_handler.
Dispatch(n) ==
    /\ stage[n] = "new"
    /\ \E names \in Payloads :
        /\ messages' = [messages EXCEPT ![n] = names]
        /\ GoOn(n, names, 1, [i \in 1 .. Len(names) |-> "none"])
    /\ UNCHANGED <<handlers, actions, cancel>>

\* A CancelledError is not an Exception: it leaves _notify_handler.
EndedByHandler(n, result) ==
    /\ result = "cancelled"
    /\ stage' = [stage EXCEPT ![n] = "cancelled"]
    /\ outcome' = [outcome EXCEPT ![n][at[n]] = result]
    /\ job' = [job EXCEPT ![n] = "none"]
    /\ UNCHANGED <<at, actions, queue>>

\* A plausible slip: the actions of a message replace those collected before.
LastActionsOnly(n, result) ==
    IF result = "actions" THEN <<at[n]>> ELSE actions[n]

\* actions.extend: only a list contributes.
Collected(n, result) ==
    IF result = "actions" THEN Append(actions[n], at[n]) ELSE actions[n]

\* A plausible slip: a handler that raised is called again.
RetryFailed(n, result) ==
    \/ EndedByHandler(n, result)
    \/ /\ result # "cancelled"
       /\ actions' = [actions EXCEPT ![n] = Collected(n, result)]
       /\ GoOn(n, messages[n], IF result = "raised" THEN at[n] ELSE at[n] + 1, outcome[n])

\* The handler at the current position has ended.
Handled(n, result) ==
    \/ EndedByHandler(n, result)
    \/ /\ result # "cancelled"
       /\ actions' = [actions EXCEPT ![n] = Collected(n, result)]
       /\ GoOn(n, messages[n], at[n] + 1, [outcome[n] EXCEPT ![at[n]] = result])

\* An async handler ends.
AsyncEnds(n) ==
    /\ stage[n] = "async" /\ ~cancel[n]
    /\ \E result \in Outcomes : Handled(n, result)
    /\ UNCHANGED <<registryVars, cancel>>

\* The event loop learns of the end of a job and resumes the coroutine.
Resume(n) ==
    /\ stage[n] = "sync" /\ ~cancel[n]
    /\ job[n] \in Outcomes
    /\ Handled(n, job[n])
    /\ UNCHANGED <<registryVars, cancel>>

-----------------------------------------------------------------------------
(* Cancellation *)

\* Cancellation is requested of the coroutines of these NOTIFYs.
RequestCancel(group) == cancel' = [n \in Notifies |-> cancel[n] \/ n \in group \cap InFlight]

\* A plausible slip: the job is shielded, and stays in the queue without its NOTIFY.
ShieldedJob(n) == IF job[n] \in {"queued", "running"} THEN job[n] ELSE "none"

\* Cancelling the future of a job: the executor drops it if no worker has taken
\* it, a running job goes on, a result not yet delivered is lost.
CancelledJob(n) ==
    CASE job[n] = "queued" -> "dropped"
      [] job[n] = "running" -> "running"
      [] OTHER -> "none"

\* A plausible slip: handle_message catches the cancellation like an Exception,
\* and the next message is handled while the thread still runs.
CancelAsFailure(n) ==
    /\ stage[n] = "sync"
    /\ actions' = actions
    /\ GoOn(n, messages[n], at[n] + 1, [outcome[n] EXCEPT ![at[n]] = "raised"])

\* A plausible slip: the wait for the thread is shielded from the cancellation.
ShieldedWait(n) ==
    /\ stage[n] = "sync"
    /\ UNCHANGED <<notifyVars, poolVars>>

\* The coroutine leaves to_thread, whatever its thread does.
LeaveThread(n) ==
    /\ stage[n] = "sync"
    /\ stage' = [stage EXCEPT ![n] = "cancelled"]
    /\ job' = [job EXCEPT ![n] = CancelledJob(n)]
    /\ UNCHANGED <<at, outcome, actions, queue>>

\* The pending cancellation is raised where the coroutine waits.  An async
\* handler may let it through or catch it and go on.
DeliverCancel(n) ==
    /\ n \in InFlight /\ cancel[n]
    /\ cancel' = [cancel EXCEPT ![n] = FALSE]
    /\ \/ LeaveThread(n)
       \/ /\ stage[n] = "async"
          /\ stage' = [stage EXCEPT ![n] = "cancelled"]
          /\ UNCHANGED <<at, outcome, actions, poolVars>>
       \/ /\ stage[n] = "async" /\ messages[n][at[n]] \in Stubborn
          /\ UNCHANGED <<notifyVars, poolVars>>
    /\ UNCHANGED registryVars

-----------------------------------------------------------------------------
(* The executor *)

\* An idle worker takes the oldest job; one cancelled in the queue is not run.
WorkerTakes ==
    /\ queue # <<>>
    /\ Cardinality(Running) < Workers
    /\ job' = [job EXCEPT ![Head(queue)] = IF @ = "queued" THEN "running" ELSE "none"]
    /\ queue' = Tail(queue)
    /\ UNCHANGED <<registryVars, notifyVars, cancel>>

\* A synchronous handler ends.  Nobody waits for the result of a cancelled one.
JobEnds(n) ==
    /\ job[n] = "running"
    /\ IF stage[n] = "sync"
       THEN \E result \in Outcomes : job' = [job EXCEPT ![n] = result]
       ELSE job' = [job EXCEPT ![n] = "none"]
    /\ UNCHANGED <<registryVars, notifyVars, cancel, queue>>

-----------------------------------------------------------------------------
(* Specification of dispatching alone: any NOTIFY may be cancelled any time. *)

DispatchInit ==
    /\ handlers = Registered
    /\ messages = [n \in Notifies |-> <<>>]
    /\ stage = [n \in Notifies |-> "new"]
    /\ at = [n \in Notifies |-> 1]
    /\ outcome = [n \in Notifies |-> <<>>]
    /\ actions = [n \in Notifies |-> <<>>]
    /\ cancel = [n \in Notifies |-> FALSE]
    /\ job = [n \in Notifies |-> "none"]
    /\ queue = <<>>

\* The event loop and the executor.
NotifyStep(n) == DeliverCancel(n) \/ Resume(n)

\* What the handlers decide.
HandlerEnds(n) == AsyncEnds(n) \/ JobEnds(n)

CancelAny ==
    /\ \E group \in SUBSET Notifies : RequestCancel(group)
    /\ UNCHANGED <<registryVars, notifyVars, poolVars>>

DispatchNext ==
    \/ \E entry \in Registrations : Register(entry[1], entry[2])
    \/ \E n \in Notifies : Dispatch(n) \/ NotifyStep(n) \/ HandlerEnds(n)
    \/ WorkerTakes
    \/ CancelAny

DispatchSpec == DispatchInit /\ [][DispatchNext]_dispatchVars

-----------------------------------------------------------------------------
(* Properties *)

JobStates == {"none", "queued", "running", "dropped"} \union Outcomes

\* Every variable has a value of its type.
DispatchTypeOK ==
    /\ handlers \in [Messages -> Kinds \union {"none"}]
    /\ messages \in [Notifies -> Seq(Messages)]
    /\ stage \in [Notifies -> Kinds \union {"new", "returned", "cancelled"}]
    /\ at \in [Notifies -> Nat \ {0}]
    /\ DOMAIN outcome = Notifies
    /\ \A n \in Notifies : outcome[n] \in [1 .. Len(messages[n]) -> Outcomes \union {"none", "skipped"}]
    /\ actions \in [Notifies -> Seq(Nat)]
    /\ cancel \in [Notifies -> BOOLEAN]
    /\ job \in [Notifies -> JobStates]
    /\ queue \in Seq(Notifies)

\* The reply to a NOTIFY has the actions of every message whose handler returned
\* some, once each and in the order of the messages, whatever became of the
\* other handlers, of other NOTIFYs and of the registry meanwhile.
ActionsInOrder ==
    \A n \in Notifies : stage[n] = "returned" =>
        /\ \A i, j \in DOMAIN actions[n] : i < j => actions[n][i] < actions[n][j]
        /\ \A k \in DOMAIN messages[n] :
            /\ outcome[n][k] \in {"actions", "nothing", "raised", "skipped"}
            /\ outcome[n][k] = "actions" <=> \E i \in DOMAIN actions[n] : actions[n][i] = k

\* The handlers of one NOTIFY never overlap: while it is being handled, its
\* only job is that of the current message, so that no late result of an
\* earlier one can be taken for it.  A cancelled NOTIFY leaves at most a
\* running job behind, none that could still start.
HandlersDontOverlap ==
    /\ \A n \in Notifies :
        /\ job[n] # "none" => stage[n] \in {"sync", "cancelled"}
        /\ stage[n] = "cancelled" => job[n] \in {"none", "running", "dropped"}
    /\ \A i, j \in DOMAIN queue : queue[i] = queue[j] => i = j
    /\ {queue[i] : i \in DOMAIN queue} = {n \in Notifies : job[n] \in {"queued", "dropped"}}

=============================================================================
