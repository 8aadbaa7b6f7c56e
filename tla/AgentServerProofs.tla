------------------------- MODULE AgentServerProofs -------------------------
(***************************************************************************)
(* Proofs about AgentServer, for any number of connections, NOTIFYs and    *)
(* workers: it implements Dispatch, and so keeps what Dispatch promises;   *)
(* one interrupt cancels no NOTIFY that could still be answered; and it    *)
(* leaves nothing behind.                                                  *)
(***************************************************************************)
EXTENDS AgentServer, DispatchProofs

-----------------------------------------------------------------------------
(* Every step of the server is one of Dispatch, or leaves it alone. *)

LEMMA StepDispatches == [Next]_vars => [DispatchNext]_dispatchVars
<1> SUFFICES ASSUME [Next]_vars PROVE [DispatchNext]_dispatchVars
  OBVIOUS
<1>1. ASSUME NEW c \in Connections, LeaveBody(c) PROVE CancelAny
  <2>1. Of(c) \in SUBSET Notifies
    BY DEF Of
  <2>. QED BY <1>1, <2>1 DEF LeaveBody, CancelAny
<1>2. ASSUME SecondInterrupt PROVE CancelAny
  BY <1>2 DEF SecondInterrupt, CancelTasks, CancelAny
<1>7. ASSUME ServeEnds PROVE CancelAny
  BY <1>7 DEF ServeEnds, CancelTasks, CancelAny
<1>3. ASSUME NEW c \in Connections, Accept(c) \/ LeaveGroup(c) \/ Detach(c)
      PROVE  UNCHANGED dispatchVars
  BY <1>3 DEF Accept, LeaveGroup, Detach
<1>4. ASSUME FirstInterrupt \/ TasksEnd \/ ExecutorIdle \/ ExecutorTimeout
      PROVE  UNCHANGED dispatchVars
  BY <1>4 DEF FirstInterrupt, TasksEnd, ExecutorIdle, ExecutorTimeout
<1>5. ASSUME NEW n \in Notifies, Receive(n) PROVE Dispatch(n)
  BY <1>5 DEF Receive
<1>6. UNCHANGED vars => UNCHANGED dispatchVars
  BY DEF vars
<1>. QED
  BY <1>1, <1>2, <1>3, <1>4, <1>5, <1>6, <1>7 DEF Next, ServerStep, DispatchNext

\* Connections and shutdown do to NOTIFYs only what Dispatch allows.
THEOREM ServerDispatches == Spec => ImplementsDispatch
<1>1. Init => DispatchInit
  BY DEF Init
<1>2. [Next]_vars => [DispatchNext]_dispatchVars
  BY StepDispatches
<1>. QED BY <1>1, <1>2, PTL DEF Spec, ImplementsDispatch, DispatchSpec

\* What is promised for dispatching alone holds on every connection of the server.
THEOREM ServerKeepsDispatch ==
    Spec => [](DispatchTypeOK /\ ActionsInOrder /\ HandlersDontOverlap)
  BY ServerDispatches, DispatchTypeCorrect, RepliesInOrder, NoOverlap, PTL DEF ImplementsDispatch

-----------------------------------------------------------------------------
(* Connections and shutdown *)

\* A NOTIFY is in flight, or its cancellation pending, only on a connection that
\* has been accepted and has not left its group; nobody cancels the NOTIFYs of
\* an open one before asyncio.run does.
ConnectionFacts(n) ==
    /\ n \in InFlight => connection[Owner[n]] \in {"open", "ending"}
    /\ cancel[n] => n \in InFlight
    /\ server \in {"serving", "draining"} /\ cancel[n] => connection[Owner[n]] = "ending"

\* A single interrupt lets asyncio.run cancel tasks only when no transport is left,
\* and then no connection comes any more.  Once every connection is over they
\* stay so, and with them the executor's supply.
ServerInv ==
    /\ server \in {"serving", "draining", "cancelling", "joining", "stopped"}
    /\ connection \in [Connections -> {"none", "open", "ending", "over"}]
    /\ \A n \in Notifies : ConnectionFacts(n)
    /\ interrupts < 2 /\ server \notin {"serving", "draining"} => NoTransport
    /\ server \in {"joining", "stopped"} => NoTask /\ NoTransport
    /\ server = "stopped" /\ ~gaveUp => queue = <<>> /\ Running = {}

LEMMA ServerInvImplies ==
    ServerInv /\ HandlersDontOverlap /\ DispatchTypeOK
        => AnswerableNotCancelled /\ NothingLeftBehind
<1> SUFFICES ASSUME ServerInv, HandlersDontOverlap, DispatchTypeOK
             PROVE  AnswerableNotCancelled /\ NothingLeftBehind
  OBVIOUS
<1>1. AnswerableNotCancelled
  BY DEF AnswerableNotCancelled, ServerInv, ConnectionFacts, NoTransport
<1>2. ASSUME InFlight = {}, NEW n \in Notifies PROVE job[n] # "queued"
  BY <1>2 DEF HandlersDontOverlap, InFlight, Kinds
<1>. QED BY <1>1, <1>2 DEF NothingLeftBehind, ServerInv, NoTask

LEMMA ServerInit == Init => ServerInv
  BY ServerAssumption
  DEF Init, DispatchInit, ServerInv, ConnectionFacts, InFlight, NoTransport, Kinds

\* Dispatching of its own accord: NOTIFYs only come to an end, and of the queue
\* only WorkerTakes and, with a NOTIFY in flight, Handled take notice.
LEMMA DispatchingKeeps ==
    ASSUME ServerInv, HandlersDontOverlap, DispatchTypeOK, UNCHANGED serverVars,
           \A n \in Notifies : n \in InFlight' => n \in InFlight,
           \A n \in Notifies : cancel'[n] => cancel[n] /\ n \in InFlight',
           \/ InFlight # {}
           \/ queue' = queue /\ Running' \subseteq Running
           \/ queue # <<>>
    PROVE  ServerInv'
<1>1. UNCHANGED <<server, connection, attached, interrupts, gaveUp>>
  BY DEF serverVars
<1>2. ASSUME NEW n \in Notifies PROVE ConnectionFacts(n)'
  BY <1>1, <1>2 DEF ServerInv, ConnectionFacts
<1>3. (NoTransport' <=> NoTransport) /\ (NoTask => NoTask')
  BY <1>1 DEF NoTransport, NoTask, InFlight
<1>4. ASSUME server = "stopped", ~gaveUp PROVE queue' = <<>> /\ Running' = {}
  BY <1>4 DEF ServerInv, NoTask
<1>. QED BY <1>1, <1>2, <1>3, <1>4 DEF ServerInv

\* The end of a handler concerns only its NOTIFY.
LEMMA HandledEnds ==
    ASSUME NEW n \in Notifies, NEW result, Handled(n, result), n \in InFlight
    PROVE  \A m \in Notifies : m \in InFlight' => m \in InFlight
<1>1. \E s : stage' = [stage EXCEPT ![n] = s]
  BY DEF Handled, EndedByHandler, GoOn
<1>2. \A m \in Notifies : m # n => stage'[m] = stage[m] \/ m \notin DOMAIN stage
  BY <1>1
<1>. QED BY <1>1, <1>2 DEF InFlight

\* Steps of the event loop, the handlers and the executor.
LEMMA DispatchingStep ==
    ASSUME ServerInv, HandlersDontOverlap, DispatchTypeOK, UNCHANGED serverVars,
           \/ \E entry \in Registrations : Register(entry[1], entry[2])
           \/ \E n \in Notifies : NotifyStep(n) \/ HandlerEnds(n)
           \/ WorkerTakes
    PROVE  ServerInv'
<1>1. \A n \in Notifies : cancel[n] => n \in InFlight
  BY DEF ServerInv, ConnectionFacts
<1>2. CASE UNCHANGED <<stage, cancel, poolVars>>
  BY <1>1, <1>2, DispatchingKeeps DEF InFlight, Running, poolVars
<1>3. ASSUME NEW n \in Notifies, NEW result, n \in InFlight, Handled(n, result),
             cancel' = cancel, ~cancel[n]
      PROVE  ServerInv'
  <2>1. \A m \in Notifies : m \in InFlight' => m \in InFlight
    BY <1>3, HandledEnds
  <2>2. ASSUME NEW m \in Notifies, cancel'[m] PROVE cancel[m] /\ m \in InFlight'
    <3>1. cancel[m] /\ m # n /\ m \in InFlight
      BY <1>1, <1>3, <2>2
    <3>2. \E s : stage' = [stage EXCEPT ![n] = s]
      BY <1>3 DEF Handled, EndedByHandler, GoOn
    <3>3. stage'[m] = stage[m]
      BY <3>1, <3>2 DEF DispatchTypeOK
    <3>. QED BY <3>1, <3>3 DEF InFlight
  <2>. QED BY <1>3, <2>1, <2>2, DispatchingKeeps
<1>4. ASSUME NEW n \in Notifies, AsyncEnds(n) \/ Resume(n) PROVE ServerInv'
  <2>1. PICK result : n \in InFlight /\ Handled(n, result) /\ cancel' = cancel /\ ~cancel[n]
    BY <1>4 DEF AsyncEnds, Resume, InFlight, Kinds
  <2>. QED BY <1>3, <2>1
<1>5. ASSUME NEW n \in Notifies, DeliverCancel(n) PROVE ServerInv'
  <2>1. /\ n \in InFlight /\ cancel' = [cancel EXCEPT ![n] = FALSE]
        /\ stage' = stage \/ stage' = [stage EXCEPT ![n] = "cancelled"]
        /\ DOMAIN stage = Notifies /\ DOMAIN cancel = Notifies
    BY <1>5 DEF DeliverCancel, LeaveThread, notifyVars, DispatchTypeOK
  <2>2. \A m \in Notifies : m \in InFlight' => m \in InFlight
    BY <2>1 DEF InFlight, Kinds
  <2>3. ASSUME NEW m \in Notifies, cancel'[m] PROVE cancel[m] /\ m \in InFlight'
    <3>1. m # n /\ cancel[m]
      BY <2>1, <2>3
    <3>. QED BY <1>1, <2>1, <3>1 DEF InFlight
  <2>. QED BY <2>1, <2>2, <2>3, DispatchingKeeps
<1>6. ASSUME NEW n \in Notifies, JobEnds(n) PROVE ServerInv'
  <2>1. /\ stage' = stage /\ cancel' = cancel /\ queue' = queue
        /\ \E value : value # "running" /\ job' = [job EXCEPT ![n] = value]
    BY <1>6 DEF JobEnds, notifyVars, Outcomes
  <2>2. Running' \subseteq Running
    BY <2>1 DEF Running, DispatchTypeOK
  <2>. QED BY <1>1, <2>1, <2>2, DispatchingKeeps DEF InFlight
<1>7. ASSUME WorkerTakes PROVE ServerInv'
  <2>1. stage' = stage /\ cancel' = cancel /\ queue # <<>>
    BY <1>7 DEF WorkerTakes, notifyVars
  <2>. QED BY <1>1, <2>1, DispatchingKeeps DEF InFlight
<1>. QED
  BY <1>2, <1>4, <1>5, <1>6, <1>7 DEF Register, NotifyStep, HandlerEnds, notifyVars

\* A step of the server that leaves NOTIFYs alone.
LEMMA ConnectionsMove ==
    ASSUME ServerInv, UNCHANGED dispatchVars,
           server' \in {"serving", "draining", "cancelling", "joining", "stopped"},
           connection' \in [Connections -> {"none", "open", "ending", "over"}],
           server' \in {"serving", "draining"} => server \in {"serving", "draining"},
           interrupts' < 2 /\ server' \notin {"serving", "draining"} => NoTransport',
           server' \in {"joining", "stopped"} => NoTask' /\ NoTransport',
           server' = "stopped" /\ ~gaveUp' => queue = <<>> /\ Running = {},
           \A n \in Notifies : n \in InFlight => connection'[Owner[n]] = connection[Owner[n]]
    PROVE  ServerInv'
<1>1. InFlight' = InFlight /\ cancel' = cancel /\ queue' = queue /\ Running' = Running
  BY DEF dispatchVars, notifyVars, poolVars, InFlight, Running
<1>2. ASSUME NEW n \in Notifies PROVE ConnectionFacts(n)'
  <2>1. ConnectionFacts(n)
    BY DEF ServerInv
  <2>. QED BY <1>1, <2>1 DEF ConnectionFacts
<1>. QED BY <1>1, <1>2 DEF ServerInv

\* asyncio.run cancels every task, when serve() has ended or is interrupted again.
LEMMA TasksCancelled ==
    ASSUME ServerInv, DispatchTypeOK, CancelTasks, interrupts' < 2 => NoTransport
    PROVE  ServerInv'
<1>1. /\ server' = "cancelling"
      /\ cancel' = [n \in Notifies |-> cancel[n] \/ n \in Notifies \cap InFlight]
      /\ UNCHANGED <<stage, job, queue, connection, attached, gaveUp>>
  BY DEF CancelTasks, RequestCancel, notifyVars, poolVars
<1>2. InFlight' = InFlight
  BY <1>1 DEF InFlight
<1>3. ASSUME NEW n \in Notifies PROVE ConnectionFacts(n)'
  BY <1>1, <1>2, <1>3 DEF ServerInv, ConnectionFacts
<1>. QED BY <1>1, <1>3 DEF ServerInv, NoTransport

LEMMA ServerInvStep ==
    DispatchTypeOK /\ HandlersDontOverlap /\ ServerInv /\ [Next]_vars => ServerInv'
<1> SUFFICES ASSUME DispatchTypeOK, HandlersDontOverlap, ServerInv, [Next]_vars
             PROVE  ServerInv'
  OBVIOUS
<1>. USE ServerAssumption
<1>1. CASE UNCHANGED vars
  BY <1>1 DEF vars, serverVars, dispatchVars, notifyVars, poolVars,
              ServerInv, ConnectionFacts, InFlight, Running, NoTask, NoTransport
<1>2. CASE UNCHANGED serverVars /\
            \/ \E entry \in Registrations : Register(entry[1], entry[2])
            \/ \E n \in Notifies : NotifyStep(n) \/ HandlerEnds(n)
            \/ WorkerTakes
  BY <1>2, DispatchingStep
<1>3. ASSUME NEW c \in Connections, Accept(c) PROVE ServerInv'
  <2>1. \A n \in Notifies : n \in InFlight => Owner[n] # c
    BY <1>3 DEF Accept, ServerInv, ConnectionFacts
  <2>. QED BY <1>3, <2>1, ConnectionsMove DEF Accept, ServerInv
<1>4. ASSUME NEW c \in Connections, LeaveGroup(c) PROVE ServerInv'
  <2>1. /\ connection[c] = "ending" /\ connection' = [connection EXCEPT ![c] = "over"]
        /\ UNCHANGED <<dispatchVars, server, attached, interrupts, gaveUp>>
    BY <1>4 DEF LeaveGroup
  <2>2. \A n \in Notifies : n \in InFlight => Owner[n] # c
    BY <1>4 DEF LeaveGroup, Of
  <2>3. server \notin {"joining", "stopped"} /\ (NoTransport' <=> NoTransport)
    BY <2>1 DEF ServerInv, NoTask, NoTransport
  <2>. QED BY <2>1, <2>2, <2>3, ConnectionsMove DEF ServerInv
<1>9. ASSUME NEW c \in Connections, Detach(c) PROVE ServerInv'
  <2>1. /\ UNCHANGED <<dispatchVars, server, connection, interrupts, gaveUp>>
        /\ ~NoTransport
    BY <1>9 DEF Detach, NoTransport
  <2>2. server \in {"serving", "draining"} \/ ~(interrupts < 2)
    BY <2>1 DEF ServerInv
  <2>3. server \notin {"joining", "stopped"}
    BY <2>1 DEF ServerInv
  <2>. QED BY <2>1, <2>2, <2>3, ConnectionsMove DEF ServerInv
<1>5. ASSUME FirstInterrupt \/ TasksEnd \/ ExecutorIdle \/ ExecutorTimeout PROVE ServerInv'
  <2>1. UNCHANGED <<dispatchVars, connection, attached>>
    BY <1>5 DEF FirstInterrupt, TasksEnd, ExecutorIdle, ExecutorTimeout
  <2>2. (NoTask' <=> NoTask) /\ (NoTransport' <=> NoTransport)
    BY <2>1 DEF NoTask, NoTransport, InFlight, dispatchVars, notifyVars
  <2>3. CASE FirstInterrupt
    BY <2>1, <2>3, ConnectionsMove DEF FirstInterrupt, ServerInv
  <2>4. CASE TasksEnd \/ ExecutorIdle \/ ExecutorTimeout
    BY <2>1, <2>2, <2>4, ConnectionsMove DEF TasksEnd, ExecutorIdle, ExecutorTimeout, ServerInv
  <2>. QED BY <1>5, <2>3, <2>4
<1>6. ASSUME NEW c \in Connections, LeaveBody(c) PROVE ServerInv'
  <2>1. /\ connection[c] = "open" /\ connection' = [connection EXCEPT ![c] = "ending"]
        /\ cancel' = [n \in Notifies |-> cancel[n] \/ n \in Of(c) \cap InFlight]
        /\ UNCHANGED <<stage, job, queue, server, attached, interrupts, gaveUp>>
    BY <1>6 DEF LeaveBody, RequestCancel, notifyVars, poolVars
  <2>2. InFlight' = InFlight /\ Running' = Running
    BY <2>1 DEF InFlight, Running
  <2>3. server \notin {"joining", "stopped"} /\ (NoTransport' <=> NoTransport)
    BY <2>1 DEF ServerInv, NoTask, NoTransport
  <2>4. ASSUME NEW n \in Notifies PROVE ConnectionFacts(n)'
    <3>1. ConnectionFacts(n) /\ connection \in [Connections -> {"none", "open", "ending", "over"}]
      BY DEF ServerInv
    <3>2. CASE Owner[n] = c
      BY <2>1, <2>2, <3>1, <3>2 DEF ConnectionFacts, Of
    <3>3. CASE Owner[n] # c
      BY <2>1, <2>2, <3>1, <3>3 DEF ConnectionFacts, Of
    <3>. QED BY <3>2, <3>3
  <2>. QED BY <2>1, <2>2, <2>3, <2>4 DEF ServerInv
<1>7. ASSUME SecondInterrupt \/ ServeEnds PROVE ServerInv'
  BY <1>7, TasksCancelled DEF SecondInterrupt, ServeEnds
<1>8. ASSUME NEW n \in Notifies, Receive(n) PROVE ServerInv'
  <2>1. /\ connection[Owner[n]] = "open" /\ server \in {"serving", "draining"}
        /\ UNCHANGED <<server, connection, attached, interrupts, gaveUp, cancel>>
        /\ stage[n] = "new"
    BY <1>8 DEF Receive, Dispatch, serverVars
  <2>2. \E s : stage' = [stage EXCEPT ![n] = s]
    BY <1>8 DEF Receive, Dispatch, GoOn
  <2>3. \A m \in Notifies \ {n} : m \in InFlight' <=> m \in InFlight
    BY <2>2 DEF InFlight, DispatchTypeOK
  <2>4. ~cancel[n]
    BY <2>1 DEF ServerInv, ConnectionFacts, InFlight, Kinds
  <2>5. ASSUME NEW m \in Notifies PROVE ConnectionFacts(m)'
    <3>1. CASE m = n
      BY <2>1, <2>4, <3>1 DEF ConnectionFacts
    <3>2. CASE m # n
      BY <2>1, <2>3, <3>2 DEF ServerInv, ConnectionFacts
    <3>. QED BY <3>1, <3>2
  <2>. QED BY <2>1, <2>5 DEF ServerInv, NoTransport
<1>. QED
  BY <1>1, <1>2, <1>3, <1>4, <1>5, <1>6, <1>7, <1>8, <1>9 DEF Next, ServerStep

LEMMA ServerInvariant == Spec => []ServerInv
<1>1. Init => ServerInv
  BY ServerInit
<1>2. DispatchTypeOK /\ HandlersDontOverlap /\ ServerInv /\ [Next]_vars => ServerInv'
  BY ServerInvStep
<1>. QED BY <1>1, <1>2, ServerKeepsDispatch, PTL DEF Spec

\* With a single interrupt, a NOTIFY of a connection that goes on is cancelled only
\* when its answer could not be written any more.
THEOREM Gentle == Spec => []AnswerableNotCancelled
<1>1. ServerInv /\ HandlersDontOverlap /\ DispatchTypeOK => AnswerableNotCancelled
  BY ServerInvImplies
<1>. QED BY <1>1, ServerInvariant, ServerKeepsDispatch, PTL

\* When run() has returned every NOTIFY has ended, nothing waits for a thread, and
\* no thread runs unless the wait for it was given up.
THEOREM CleanStop == Spec => []NothingLeftBehind
<1>1. ServerInv /\ HandlersDontOverlap /\ DispatchTypeOK => NothingLeftBehind
  BY ServerInvImplies
<1>. QED BY <1>1, ServerInvariant, ServerKeepsDispatch, PTL

=============================================================================
