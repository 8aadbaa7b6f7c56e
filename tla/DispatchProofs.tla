--------------------------- MODULE DispatchProofs ---------------------------
(***************************************************************************)
(* Proofs about Dispatch, for any handlers, messages and number of workers: *)
(* the types, HandlersDontOverlap and ActionsInOrder.                      *)
(*                                                                         *)
(* Every step of a NOTIFY is an instance of GoOn, or ends it, so that the  *)
(* lemmas about GoOn carry most of the proofs.                             *)
(***************************************************************************)
EXTENDS Dispatch, TLAPS

-----------------------------------------------------------------------------
(* Types *)

\* Going on keeps a NOTIFY well typed.
LEMMA GoOnType ==
    ASSUME DispatchTypeOK, NEW n \in Notifies, NEW names \in Seq(Messages), NEW k, NEW done,
           done \in [1 .. Len(names) -> Outcomes \union {"none", "skipped"}],
           messages' \in [Notifies -> Seq(Messages)],
           \A m \in Notifies \ {n} : messages'[m] = messages[m],
           messages'[n] = names,
           GoOn(n, names, k, done)
    PROVE  /\ stage' \in [Notifies -> Kinds \union {"new", "returned", "cancelled"}]
           /\ at' \in [Notifies -> Nat \ {0}]
           /\ DOMAIN outcome' = Notifies
           /\ \A m \in Notifies :
                outcome'[m] \in [1 .. Len(messages'[m]) -> Outcomes \union {"none", "skipped"}]
           /\ job' \in [Notifies -> JobStates]
           /\ queue' \in Seq(Notifies)
<1>1. PICK next \in 1 .. (Len(names) + 1) :
        /\ NextHandled(names, k, next)
        /\ at' = [at EXCEPT ![n] = next]
        /\ outcome' = [outcome EXCEPT ![n] =
                [i \in 1 .. Len(names) |-> IF i \in k .. (next - 1) THEN "skipped" ELSE done[i]]]
        /\ \/ /\ next > Len(names)
              /\ stage' = [stage EXCEPT ![n] = "returned"]
              /\ job' = [job EXCEPT ![n] = "none"]
              /\ UNCHANGED queue
           \/ /\ next <= Len(names) /\ HowCalled(names[next]) # "sync"
              /\ stage' = [stage EXCEPT ![n] = HowCalled(names[next])]
              /\ job' = [job EXCEPT ![n] = "none"]
              /\ UNCHANGED queue
           \/ /\ next <= Len(names) /\ HowCalled(names[next]) = "sync"
              /\ stage' = [stage EXCEPT ![n] = "sync"]
              /\ job' = [job EXCEPT ![n] = "queued"]
              /\ queue' = Append(queue, n)
  BY DEF GoOn
<1>2. next \in Nat \ {0} /\ Len(names) \in Nat
  OBVIOUS
<1>3. at' \in [Notifies -> Nat \ {0}]
  BY <1>1, <1>2 DEF DispatchTypeOK
<1>4. ASSUME next <= Len(names) PROVE HowCalled(names[next]) \in Kinds
  <2>1. names[next] \in Messages
    BY <1>2, <1>4
  <2>. QED BY <1>1, <1>4, <2>1 DEF NextHandled, HowCalled, DispatchTypeOK
<1>5. stage' \in [Notifies -> Kinds \union {"new", "returned", "cancelled"}]
  BY <1>1, <1>4 DEF DispatchTypeOK, Kinds
<1>6. job' \in [Notifies -> JobStates] /\ queue' \in Seq(Notifies)
  <2>1. \E value \in {"none", "queued"} : job' = [job EXCEPT ![n] = value]
    BY <1>1
  <2>2. job' \in [Notifies -> JobStates]
    BY <2>1 DEF DispatchTypeOK, JobStates
  <2>3. queue' = queue \/ queue' = Append(queue, n)
    BY <1>1
  <2>4. queue \in Seq(Notifies)
    BY DEF DispatchTypeOK
  <2>5. Append(queue, n) \in Seq(Notifies)
    BY <2>4
  <2>. QED BY <2>2, <2>3, <2>4, <2>5
<1>7. DOMAIN outcome' = Notifies
  BY <1>1 DEF DispatchTypeOK
<1>8. ASSUME NEW m \in Notifies
      PROVE  outcome'[m] \in [1 .. Len(messages'[m]) -> Outcomes \union {"none", "skipped"}]
  <2>1. CASE m = n
    BY <1>1, <2>1 DEF DispatchTypeOK
  <2>2. CASE m # n
    BY <1>1, <2>2 DEF DispatchTypeOK
  <2>. QED BY <2>1, <2>2
<1>. QED BY <1>3, <1>5, <1>6, <1>7, <1>8

\* The end of a handler keeps its NOTIFY well typed.
LEMMA HandledType ==
    ASSUME DispatchTypeOK, NEW n \in InFlight, NEW result \in Outcomes,
           Handled(n, result), UNCHANGED <<registryVars, cancel>>
    PROVE  DispatchTypeOK'
<1>1. n \in Notifies
  BY DEF InFlight
<1>2. CASE EndedByHandler(n, result)
  BY <1>1, <1>2 DEF EndedByHandler, DispatchTypeOK, registryVars, JobStates, Outcomes
<1>3. CASE /\ actions' = [actions EXCEPT ![n] = Collected(n, result)]
           /\ GoOn(n, messages[n], at[n] + 1, [outcome[n] EXCEPT ![at[n]] = result])
  <2>1. [outcome[n] EXCEPT ![at[n]] = result]
            \in [1 .. Len(messages[n]) -> Outcomes \union {"none", "skipped"}]
    BY <1>1 DEF DispatchTypeOK
  <2>2. actions' \in [Notifies -> Seq(Nat)]
    BY <1>1, <1>3 DEF DispatchTypeOK, Collected
  <2>3. /\ messages[n] \in Seq(Messages)
        /\ messages' \in [Notifies -> Seq(Messages)]
        /\ \A m \in Notifies \ {n} : messages'[m] = messages[m]
        /\ messages'[n] = messages[n]
    BY <1>1 DEF DispatchTypeOK, registryVars
  <2>4. /\ stage' \in [Notifies -> Kinds \union {"new", "returned", "cancelled"}]
        /\ at' \in [Notifies -> Nat \ {0}]
        /\ DOMAIN outcome' = Notifies
        /\ \A m \in Notifies :
             outcome'[m] \in [1 .. Len(messages'[m]) -> Outcomes \union {"none", "skipped"}]
        /\ job' \in [Notifies -> JobStates]
        /\ queue' \in Seq(Notifies)
    BY <1>1, <1>3, <2>1, <2>3, GoOnType
  <2>5. /\ handlers' \in [Messages -> Kinds \union {"none"}]
        /\ cancel' \in [Notifies -> BOOLEAN]
    BY DEF DispatchTypeOK, registryVars
  <2>. QED BY <2>2, <2>3, <2>4, <2>5 DEF DispatchTypeOK
<1>. QED BY <1>2, <1>3 DEF Handled

LEMMA DispatchTypeInit == DispatchInit => DispatchTypeOK
  BY DispatchAssumption DEF DispatchInit, DispatchTypeOK, JobStates, Outcomes, Kinds

LEMMA DispatchTypeStep == DispatchTypeOK /\ [DispatchNext]_dispatchVars => DispatchTypeOK'
<1> SUFFICES ASSUME DispatchTypeOK, [DispatchNext]_dispatchVars PROVE DispatchTypeOK'
  OBVIOUS
<1>1. ASSUME NEW entry \in Registrations, Register(entry[1], entry[2]) PROVE DispatchTypeOK'
  <2>1. entry[2] \in Kinds
    BY DispatchAssumption
  <2>. QED BY <1>1, <2>1 DEF Register, DispatchTypeOK, notifyVars, poolVars
<1>2. ASSUME NEW n \in Notifies, Dispatch(n) PROVE DispatchTypeOK'
  <2>1. PICK names \in Payloads :
            /\ messages' = [messages EXCEPT ![n] = names]
            /\ GoOn(n, names, 1, [i \in 1 .. Len(names) |-> "none"])
    BY <1>2 DEF Dispatch
  <2>2. names \in Seq(Messages)
    BY DispatchAssumption
  <2>3. [i \in 1 .. Len(names) |-> "none"]
            \in [1 .. Len(names) -> Outcomes \union {"none", "skipped"}]
    OBVIOUS
  <2>4. /\ messages' \in [Notifies -> Seq(Messages)]
        /\ \A m \in Notifies \ {n} : messages'[m] = messages[m]
        /\ messages'[n] = names
    BY <2>1, <2>2 DEF DispatchTypeOK
  <2>5. /\ stage' \in [Notifies -> Kinds \union {"new", "returned", "cancelled"}]
        /\ at' \in [Notifies -> Nat \ {0}]
        /\ DOMAIN outcome' = Notifies
        /\ \A m \in Notifies :
             outcome'[m] \in [1 .. Len(messages'[m]) -> Outcomes \union {"none", "skipped"}]
        /\ job' \in [Notifies -> JobStates]
        /\ queue' \in Seq(Notifies)
    BY <2>1, <2>2, <2>3, <2>4, GoOnType
  <2>6. UNCHANGED <<handlers, actions, cancel>>
    BY <1>2 DEF Dispatch
  <2>. QED BY <2>4, <2>5, <2>6 DEF DispatchTypeOK
<1>3. ASSUME NEW n \in Notifies, AsyncEnds(n) PROVE DispatchTypeOK'
  <2>1. n \in InFlight
    BY <1>3 DEF AsyncEnds, InFlight, Kinds
  <2>. QED BY <1>3, <2>1, HandledType DEF AsyncEnds
<1>4. ASSUME NEW n \in Notifies, Resume(n) PROVE DispatchTypeOK'
  <2>1. n \in InFlight
    BY <1>4 DEF Resume, InFlight, Kinds
  <2>. QED BY <1>4, <2>1, HandledType DEF Resume
<1>5. ASSUME NEW n \in Notifies, DeliverCancel(n) PROVE DispatchTypeOK'
  <2>1. CancelledJob(n) \in JobStates
    BY DEF CancelledJob, JobStates
  <2>2. /\ stage' = stage \/ stage' = [stage EXCEPT ![n] = "cancelled"]
        /\ job' = job \/ job' = [job EXCEPT ![n] = CancelledJob(n)]
        /\ cancel' = [cancel EXCEPT ![n] = FALSE]
        /\ UNCHANGED <<handlers, messages, at, outcome, actions, queue>>
    BY <1>5 DEF DeliverCancel, LeaveThread, registryVars, notifyVars, poolVars
  <2>3. stage' \in [Notifies -> Kinds \union {"new", "returned", "cancelled"}]
    BY <2>2 DEF DispatchTypeOK
  <2>4. job' \in [Notifies -> JobStates]
    <3>1. \E value \in JobStates : job' = job \/ job' = [job EXCEPT ![n] = value]
      BY <2>1, <2>2
    <3>. QED BY <3>1 DEF DispatchTypeOK
  <2>5. cancel' \in [Notifies -> BOOLEAN]
    BY <2>2 DEF DispatchTypeOK
  <2>. QED BY <2>2, <2>3, <2>4, <2>5 DEF DispatchTypeOK
<1>6. ASSUME NEW n \in Notifies, JobEnds(n) PROVE DispatchTypeOK'
  BY <1>6 DEF JobEnds, DispatchTypeOK, registryVars, notifyVars, JobStates
<1>7. ASSUME WorkerTakes PROVE DispatchTypeOK'
  BY <1>7 DEF WorkerTakes, DispatchTypeOK, registryVars, notifyVars, JobStates
<1>8. ASSUME CancelAny PROVE DispatchTypeOK'
  BY <1>8 DEF CancelAny, RequestCancel, DispatchTypeOK, registryVars, notifyVars, poolVars
<1>9. CASE UNCHANGED dispatchVars
  BY <1>9 DEF dispatchVars, DispatchTypeOK, registryVars, notifyVars, poolVars
<1>. QED
  BY <1>1, <1>2, <1>3, <1>4, <1>5, <1>6, <1>7, <1>8, <1>9 DEF DispatchNext, NotifyStep, HandlerEnds

\* Every variable keeps its type, whatever handlers do and applications register.
THEOREM DispatchTypeCorrect == DispatchSpec => []DispatchTypeOK
  BY DispatchTypeInit, DispatchTypeStep, PTL DEF DispatchSpec

-----------------------------------------------------------------------------
(* Jobs and the queue *)

QueueMembers == {queue[i] : i \in DOMAIN queue}
QueueDistinct == \A i, j \in DOMAIN queue : queue[i] = queue[j] => i = j

\* A job that joins the queue.
LEMMA QueueGrows ==
    ASSUME DispatchTypeOK, QueueDistinct, NEW n \in Notifies, n \notin QueueMembers,
           queue' = Append(queue, n)
    PROVE  QueueDistinct' /\ QueueMembers' = QueueMembers \union {n}
<1>1. queue \in Seq(Notifies)
  BY DEF DispatchTypeOK
<1>2. /\ Len(queue) \in Nat
      /\ DOMAIN queue = 1 .. Len(queue) /\ DOMAIN queue' = 1 .. (Len(queue) + 1)
      /\ \A i \in 1 .. Len(queue) : queue'[i] = queue[i]
      /\ queue'[Len(queue) + 1] = n
  BY <1>1
<1>3. QueueDistinct'
  BY <1>2 DEF QueueDistinct, QueueMembers
<1>4. QueueMembers' = QueueMembers \union {n}
  BY <1>2 DEF QueueMembers
<1>. QED BY <1>3, <1>4

\* The oldest job leaves the queue.
LEMMA QueueShrinks ==
    ASSUME DispatchTypeOK, QueueDistinct, queue # <<>>, queue' = Tail(queue)
    PROVE  /\ QueueDistinct' /\ QueueMembers' = QueueMembers \ {Head(queue)}
           /\ Head(queue) \in QueueMembers
<1>1. queue \in Seq(Notifies)
  BY DEF DispatchTypeOK
<1>2. /\ Len(queue) \in Nat \ {0} /\ Head(queue) = queue[1]
      /\ DOMAIN queue = 1 .. Len(queue) /\ DOMAIN queue' = 1 .. (Len(queue) - 1)
      /\ \A i \in 1 .. (Len(queue) - 1) : queue'[i] = queue[i + 1]
  BY <1>1
<1>3. QueueDistinct'
  BY <1>2 DEF QueueDistinct
<1>4. ASSUME NEW x \in QueueMembers, x # Head(queue) PROVE x \in QueueMembers'
  <2>1. PICK i \in 1 .. Len(queue) : x = queue[i]
    BY <1>2 DEF QueueMembers
  <2>2. i - 1 \in 1 .. (Len(queue) - 1) /\ queue'[i - 1] = x
    BY <1>2, <1>4, <2>1
  <2>. QED BY <1>2, <2>2 DEF QueueMembers
<1>5. ASSUME NEW x \in QueueMembers' PROVE x \in QueueMembers /\ x # Head(queue)
  <2>1. PICK i \in 1 .. (Len(queue) - 1) : x = queue'[i]
    BY <1>2 DEF QueueMembers
  <2>2. i + 1 \in DOMAIN queue /\ queue[i + 1] = x /\ 1 \in DOMAIN queue /\ i + 1 # 1
    BY <1>2, <2>1
  <2>. QED BY <1>2, <2>2 DEF QueueMembers, QueueDistinct
<1>6. Head(queue) \in QueueMembers
  BY <1>2 DEF QueueMembers
<1>. QED BY <1>3, <1>4, <1>5, <1>6

\* What the job of a NOTIFY says about the NOTIFY and about the queue.  One that
\* waits for a thread has a job whose result can still reach it.
JobFacts(n) ==
    /\ job[n] # "none" => stage[n] \in {"sync", "cancelled"}
    /\ stage[n] = "sync" => job[n] \in {"queued", "running"} \union Outcomes
    /\ stage[n] = "cancelled" => job[n] \in {"none", "running", "dropped"}
    /\ n \in QueueMembers <=> job[n] \in {"queued", "dropped"}

JobInv == QueueDistinct /\ \A n \in Notifies : JobFacts(n)

LEMMA JobInvImplies == DispatchTypeOK /\ JobInv => HandlersDontOverlap
<1> SUFFICES ASSUME DispatchTypeOK, JobInv PROVE HandlersDontOverlap
  OBVIOUS
<1>1. QueueMembers \subseteq Notifies
  BY DEF DispatchTypeOK, QueueMembers
<1>. QED BY <1>1 DEF HandlersDontOverlap, QueueDistinct, QueueMembers, JobFacts, JobInv

\* Nothing changes about other NOTIFYs.
LEMMA JobFactsKept ==
    ASSUME NEW m \in Notifies, JobFacts(m),
           job'[m] = job[m], stage'[m] = stage[m],
           m \in QueueMembers' <=> m \in QueueMembers
    PROVE  JobFacts(m)'
  BY DEF JobFacts

\* A NOTIFY without a job in the queue goes on.
LEMMA GoOnOverlap ==
    ASSUME DispatchTypeOK, QueueDistinct, \A m \in Notifies : JobFacts(m),
           NEW n \in Notifies, NEW names \in Seq(Messages), NEW k, NEW done,
           job[n] \in Outcomes \union {"none"}, GoOn(n, names, k, done)
    PROVE  QueueDistinct' /\ \A m \in Notifies : JobFacts(m)'
<1>1. /\ DOMAIN stage = Notifies /\ DOMAIN job = Notifies
      /\ n \notin QueueMembers
  BY DEF DispatchTypeOK, JobFacts, Outcomes
<1>2. CASE \E s : /\ s \notin {"sync", "cancelled"} /\ stage' = [stage EXCEPT ![n] = s]
                  /\ job' = [job EXCEPT ![n] = "none"] /\ UNCHANGED queue
  <2>1. QueueMembers' = QueueMembers /\ QueueDistinct'
    BY <1>2 DEF QueueMembers, QueueDistinct
  <2>2. JobFacts(n)'
    BY <1>1, <1>2, <2>1 DEF JobFacts
  <2>3. ASSUME NEW m \in Notifies \ {n} PROVE JobFacts(m)'
    BY <1>1, <1>2, <2>1, <2>3, JobFactsKept
  <2>. QED BY <2>1, <2>2, <2>3
<1>3. CASE /\ stage' = [stage EXCEPT ![n] = "sync"]
           /\ job' = [job EXCEPT ![n] = "queued"]
           /\ queue' = Append(queue, n)
  <2>1. QueueMembers' = QueueMembers \union {n} /\ QueueDistinct'
    BY <1>1, <1>3, QueueGrows
  <2>2. JobFacts(n)'
    BY <1>1, <1>3, <2>1 DEF JobFacts
  <2>3. ASSUME NEW m \in Notifies \ {n} PROVE JobFacts(m)'
    BY <1>1, <1>3, <2>1, <2>3, JobFactsKept
  <2>. QED BY <2>1, <2>2, <2>3
<1>4. PICK next \in 1 .. (Len(names) + 1) :
        \/ /\ stage' = [stage EXCEPT ![n] = "returned"]
           /\ job' = [job EXCEPT ![n] = "none"] /\ UNCHANGED queue
        \/ /\ next <= Len(names) /\ HowCalled(names[next]) # "sync"
           /\ stage' = [stage EXCEPT ![n] = HowCalled(names[next])]
           /\ job' = [job EXCEPT ![n] = "none"] /\ UNCHANGED queue
        \/ /\ stage' = [stage EXCEPT ![n] = "sync"]
           /\ job' = [job EXCEPT ![n] = "queued"]
           /\ queue' = Append(queue, n)
  BY DEF GoOn
<1>5. ASSUME next <= Len(names) PROVE HowCalled(names[next]) # "cancelled"
  <2>1. names[next] \in Messages
    BY <1>5
  <2>. QED BY <2>1 DEF HowCalled, DispatchTypeOK, Kinds
<1>. QED BY <1>2, <1>3, <1>4, <1>5

LEMMA JobInit == DispatchInit => JobInv
  BY DEF DispatchInit, JobInv, JobFacts, QueueDistinct, QueueMembers

\* The end of a handler whose job, if it has one, is done.
LEMMA HandledOverlap ==
    ASSUME DispatchTypeOK, QueueDistinct, \A m \in Notifies : JobFacts(m),
           NEW n \in Notifies, NEW result, job[n] \in Outcomes \union {"none"},
           Handled(n, result)
    PROVE  QueueDistinct' /\ \A m \in Notifies : JobFacts(m)'
<1>1. CASE EndedByHandler(n, result)
  <2>1. /\ DOMAIN stage = Notifies /\ DOMAIN job = Notifies
        /\ n \notin QueueMembers
    BY DEF DispatchTypeOK, JobFacts, Outcomes
  <2>2. QueueMembers' = QueueMembers /\ QueueDistinct'
    BY <1>1 DEF EndedByHandler, QueueMembers, QueueDistinct
  <2>3. JobFacts(n)'
    BY <1>1, <2>1, <2>2 DEF JobFacts, EndedByHandler
  <2>4. ASSUME NEW m \in Notifies \ {n} PROVE JobFacts(m)'
    BY <1>1, <2>1, <2>2, <2>4, JobFactsKept DEF EndedByHandler
  <2>. QED BY <2>2, <2>3, <2>4
<1>2. CASE GoOn(n, messages[n], at[n] + 1, [outcome[n] EXCEPT ![at[n]] = result])
  <2>1. messages[n] \in Seq(Messages)
    BY DEF DispatchTypeOK
  <2>. QED BY <1>2, <2>1, GoOnOverlap
<1>. QED BY <1>1, <1>2 DEF Handled

LEMMA JobStep == DispatchTypeOK /\ JobInv /\ [DispatchNext]_dispatchVars => JobInv'
<1> SUFFICES ASSUME DispatchTypeOK, JobInv, [DispatchNext]_dispatchVars
             PROVE  QueueDistinct' /\ \A m \in Notifies : JobFacts(m)'
  BY DEF JobInv
<1>1. QueueDistinct /\ \A m \in Notifies : JobFacts(m)
  BY DEF JobInv
<1>3. CASE UNCHANGED <<stage, poolVars>>
  BY <1>1, <1>3 DEF poolVars, QueueDistinct, QueueMembers, JobFacts
<1>4. ASSUME NEW n \in Notifies, Dispatch(n)
      PROVE  QueueDistinct' /\ \A m \in Notifies : JobFacts(m)'
  <2>1. PICK names \in Payloads : GoOn(n, names, 1, [i \in 1 .. Len(names) |-> "none"])
    BY <1>4 DEF Dispatch
  <2>2. job[n] = "none" /\ names \in Seq(Messages)
    BY <1>1, <1>4, DispatchAssumption DEF Dispatch, JobFacts
  <2>. QED BY <1>1, <2>1, <2>2, GoOnOverlap
<1>5. ASSUME NEW n \in Notifies, AsyncEnds(n)
      PROVE  QueueDistinct' /\ \A m \in Notifies : JobFacts(m)'
  <2>1. job[n] = "none"
    BY <1>1, <1>5 DEF AsyncEnds, JobFacts
  <2>. QED BY <1>1, <1>5, <2>1, HandledOverlap DEF AsyncEnds
<1>6. ASSUME NEW n \in Notifies, Resume(n)
      PROVE  QueueDistinct' /\ \A m \in Notifies : JobFacts(m)'
  BY <1>1, <1>6, HandledOverlap DEF Resume
<1>7. ASSUME NEW n \in Notifies, DeliverCancel(n)
      PROVE  QueueDistinct' /\ \A m \in Notifies : JobFacts(m)'
  <2>1. /\ DOMAIN stage = Notifies /\ DOMAIN job = Notifies
    BY DEF DispatchTypeOK
  <2>2. QueueMembers' = QueueMembers /\ QueueDistinct'
    BY <1>1, <1>7 DEF DeliverCancel, LeaveThread, QueueMembers, QueueDistinct, poolVars
  <2>3. ASSUME NEW m \in Notifies \ {n} PROVE JobFacts(m)'
    BY <1>1, <1>7, <2>1, <2>2, <2>3, JobFactsKept
       DEF DeliverCancel, LeaveThread, notifyVars, poolVars
  <2>4. CASE LeaveThread(n)
    <3>1. JobFacts(n)'
      BY <1>1, <2>1, <2>2, <2>4 DEF LeaveThread, CancelledJob, JobFacts, Outcomes
    <3>. QED BY <2>2, <2>3, <3>1
  <2>5. CASE stage[n] = "async" /\ UNCHANGED poolVars
             /\ (stage' = stage \/ stage' = [stage EXCEPT ![n] = "cancelled"])
    <3>1. JobFacts(n)'
      BY <1>1, <2>1, <2>2, <2>5 DEF JobFacts, poolVars
    <3>. QED BY <2>2, <2>3, <3>1
  <2>. QED BY <1>7, <2>4, <2>5 DEF DeliverCancel, notifyVars
<1>8. ASSUME NEW n \in Notifies, JobEnds(n)
      PROVE  QueueDistinct' /\ \A m \in Notifies : JobFacts(m)'
  <2>1. /\ DOMAIN job = Notifies /\ stage' = stage /\ queue' = queue
    BY <1>8 DEF JobEnds, DispatchTypeOK, notifyVars
  <2>2. QueueMembers' = QueueMembers /\ QueueDistinct'
    BY <1>1, <2>1 DEF QueueMembers, QueueDistinct
  <2>3. PICK value \in Outcomes \union {"none"} :
            /\ job' = [job EXCEPT ![n] = value]
            /\ job[n] = "running"
            /\ IF stage[n] = "sync" THEN value \in Outcomes ELSE value = "none"
    BY <1>8 DEF JobEnds
  <2>4. JobFacts(n)'
    BY <1>1, <2>1, <2>2, <2>3 DEF JobFacts, Outcomes
  <2>5. ASSUME NEW m \in Notifies \ {n} PROVE JobFacts(m)'
    BY <1>1, <2>1, <2>2, <2>3, <2>5, JobFactsKept
  <2>. QED BY <2>2, <2>4, <2>5
<1>9. ASSUME WorkerTakes
      PROVE  QueueDistinct' /\ \A m \in Notifies : JobFacts(m)'
  <2>1. /\ DOMAIN job = Notifies /\ stage' = stage
        /\ queue # <<>> /\ queue' = Tail(queue)
        /\ QueueMembers \subseteq Notifies
    BY <1>9 DEF WorkerTakes, DispatchTypeOK, notifyVars, QueueMembers
  <2>2. PICK n \in Notifies : n = Head(queue) /\ n \in QueueMembers
    BY <1>1, <2>1, QueueShrinks
  <2>3. /\ QueueDistinct' /\ QueueMembers' = QueueMembers \ {n}
        /\ job' = [job EXCEPT ![n] = IF @ = "queued" THEN "running" ELSE "none"]
    BY <1>1, <1>9, <2>1, <2>2, QueueShrinks DEF WorkerTakes
  <2>4. JobFacts(n)'
    BY <1>1, <2>1, <2>2, <2>3 DEF JobFacts, Outcomes
  <2>5. ASSUME NEW m \in Notifies \ {n} PROVE JobFacts(m)'
    BY <1>1, <2>1, <2>3, <2>5, JobFactsKept
  <2>. QED BY <2>3, <2>4, <2>5
<1>. QED
  BY <1>3, <1>4, <1>5, <1>6, <1>7, <1>8, <1>9
  DEF DispatchNext, NotifyStep, HandlerEnds, Register, CancelAny, dispatchVars, notifyVars

\* No two handlers of one NOTIFY run at a time, a late result reaches nobody, and
\* a cancelled NOTIFY leaves nothing behind that could still start.
THEOREM NoOverlap == DispatchSpec => []HandlersDontOverlap
<1>1. DispatchInit => JobInv
  BY JobInit
<1>2. DispatchTypeOK /\ JobInv /\ [DispatchNext]_dispatchVars => JobInv'
  BY JobStep
<1>3. DispatchTypeOK /\ JobInv => HandlersDontOverlap
  BY JobInvImplies
<1>. QED BY <1>1, <1>2, <1>3, DispatchTypeCorrect, PTL DEF DispatchSpec

-----------------------------------------------------------------------------
(* The actions of a NOTIFY *)

\* acts are, in order, the positions before k whose handler returned actions.
Faithful(acts, done, k) ==
    /\ \A i \in DOMAIN acts : acts[i] \in 1 .. (k - 1)
    /\ \A i, j \in DOMAIN acts : i < j => acts[i] < acts[j]
    /\ \A p \in 1 .. (k - 1) :
        /\ done[p] \in {"actions", "nothing", "raised", "skipped"}
        /\ done[p] = "actions" <=> \E i \in DOMAIN acts : acts[i] = p

\* Outcomes with those from k to next - 1 skipped, as GoOn has them.
Skipped(done, len, k, next) ==
    [i \in 1 .. len |-> IF i \in k .. (next - 1) THEN "skipped" ELSE done[i]]

\* Positions without a handler add nothing.
LEMMA FaithfulSkip ==
    ASSUME NEW acts, NEW done, NEW len \in Nat, NEW k \in 1 .. (len + 1), NEW next \in k .. (len + 1),
           Faithful(acts, done, k)
    PROVE  Faithful(acts, Skipped(done, len, k, next), next)
<1> DEFINE skipped == Skipped(done, len, k, next)
<1>1. \A i \in DOMAIN acts : acts[i] \in 1 .. (k - 1) /\ acts[i] \in 1 .. (next - 1)
  BY DEF Faithful
<1>2. ASSUME NEW p \in 1 .. (next - 1)
      PROVE  /\ skipped[p] \in {"actions", "nothing", "raised", "skipped"}
             /\ skipped[p] = "actions" <=> \E i \in DOMAIN acts : acts[i] = p
  <2>1. CASE p \in k .. (next - 1)
    <3>1. skipped[p] = "skipped"
      BY <2>1 DEF Skipped
    <3>2. \A i \in DOMAIN acts : acts[i] # p
      BY <1>1, <2>1
    <3>. QED BY <3>1, <3>2
  <2>2. CASE p \notin k .. (next - 1)
    <3>1. p \in 1 .. (k - 1) /\ skipped[p] = done[p]
      BY <2>2 DEF Skipped
    <3>. QED BY <3>1 DEF Faithful
  <2>. QED BY <2>1, <2>2
<1>. QED BY <1>1, <1>2 DEF Faithful

\* The handler at position k ends.
LEMMA FaithfulNext ==
    ASSUME NEW acts \in Seq(Nat), NEW done, NEW k \in Nat \ {0}, k \in DOMAIN done,
           Faithful(acts, done, k), NEW result \in {"actions", "nothing", "raised"}
    PROVE  Faithful(IF result = "actions" THEN Append(acts, k) ELSE acts,
                    [done EXCEPT ![k] = result], k + 1)
<1> DEFINE now == [done EXCEPT ![k] = result]
<1>1. now[k] = result /\ \A p \in 1 .. (k - 1) : now[p] = done[p] /\ p # k
  OBVIOUS
<1>2. CASE result = "actions"
  <2> DEFINE more == Append(acts, k)
  <2>1. /\ Len(acts) \in Nat /\ DOMAIN acts = 1 .. Len(acts)
        /\ DOMAIN more = 1 .. (Len(acts) + 1)
        /\ \A i \in 1 .. Len(acts) : more[i] = acts[i]
        /\ more[Len(acts) + 1] = k
    OBVIOUS
  <2> HIDE DEF more, now
  <2>2. \A i \in DOMAIN more : more[i] \in 1 .. k
    BY <2>1 DEF Faithful
  <2>3. \A i, j \in DOMAIN more : i < j => more[i] < more[j]
    BY <2>1 DEF Faithful
  <2>4. ASSUME NEW p \in 1 .. k
        PROVE  /\ now[p] \in {"actions", "nothing", "raised", "skipped"}
               /\ now[p] = "actions" <=> \E i \in DOMAIN more : more[i] = p
    <3>1. CASE p = k
      BY <1>1, <1>2, <2>1, <3>1
    <3>2. CASE p # k
      <4>1. p \in 1 .. (k - 1) /\ now[p] = done[p]
        BY <1>1, <3>2
      <4>2. (\E i \in DOMAIN more : more[i] = p) <=> (\E i \in DOMAIN acts : acts[i] = p)
        BY <2>1, <3>2
      <4>. QED BY <4>1, <4>2 DEF Faithful
    <3>. QED BY <3>1, <3>2
  <2>5. Faithful(more, now, k + 1)
    BY <2>2, <2>3, <2>4 DEF Faithful
  <2>. QED BY <1>2, <2>5 DEF more, now
<1>3. CASE result # "actions"
  <2> HIDE DEF now
  <2>1. ASSUME NEW p \in 1 .. k
        PROVE  /\ now[p] \in {"actions", "nothing", "raised", "skipped"}
               /\ now[p] = "actions" <=> \E i \in DOMAIN acts : acts[i] = p
    <3>1. CASE p = k
      BY <1>1, <1>3, <3>1 DEF Faithful
    <3>2. CASE p # k
      BY <1>1, <3>2 DEF Faithful
    <3>. QED BY <3>1, <3>2
  <2>2. \A i \in DOMAIN acts : acts[i] \in 1 .. k
    BY DEF Faithful
  <2>3. Faithful(acts, now, k + 1)
    BY <2>1, <2>2 DEF Faithful
  <2>. QED BY <1>3, <2>3 DEF now
<1>. QED BY <1>2, <1>3

\* How far a NOTIFY is, and what it has collected.
Progress(n) ==
    /\ stage[n] = "new" => actions[n] = <<>>
    /\ stage[n] \in Kinds => at[n] \in 1 .. Len(messages[n])
    /\ stage[n] = "returned" => at[n] = Len(messages[n]) + 1
    /\ stage[n] \in Kinds \union {"returned"} => Faithful(actions[n], outcome[n], at[n])

ProgressInv == \A n \in Notifies : Progress(n)

LEMMA ProgressImplies == DispatchTypeOK /\ ProgressInv => ActionsInOrder
<1> SUFFICES ASSUME DispatchTypeOK, ProgressInv, NEW n \in Notifies, stage[n] = "returned"
             PROVE  /\ \A i, j \in DOMAIN actions[n] : i < j => actions[n][i] < actions[n][j]
                    /\ \A k \in DOMAIN messages[n] :
                        /\ outcome[n][k] \in {"actions", "nothing", "raised", "skipped"}
                        /\ outcome[n][k] = "actions" <=>
                             \E i \in DOMAIN actions[n] : actions[n][i] = k
  BY DEF ActionsInOrder
<1>1. at[n] = Len(messages[n]) + 1 /\ Faithful(actions[n], outcome[n], at[n])
  BY DEF ProgressInv, Progress
<1>2. messages[n] \in Seq(Messages)
  BY DEF DispatchTypeOK
<1>3. DOMAIN messages[n] = 1 .. (at[n] - 1)
  BY <1>1, <1>2
<1>. QED BY <1>1, <1>3 DEF Faithful

\* Nothing changes about other NOTIFYs.
LEMMA ProgressKept ==
    ASSUME NEW m \in Notifies, Progress(m),
           stage'[m] = stage[m], at'[m] = at[m], messages'[m] = messages[m],
           outcome'[m] = outcome[m], actions'[m] = actions[m]
    PROVE  Progress(m)'
  BY DEF Progress

\* A NOTIFY goes on from a position before which everything has been collected.
LEMMA GoOnProgress ==
    ASSUME DispatchTypeOK, ProgressInv,
           NEW n \in Notifies, NEW names \in Seq(Messages),
           NEW k \in 1 .. (Len(names) + 1), NEW done,
           messages'[n] = names, Faithful(actions'[n], done, k),
           \A m \in Notifies \ {n} : messages'[m] = messages[m] /\ actions'[m] = actions[m],
           GoOn(n, names, k, done)
    PROVE  ProgressInv'
<1>1. PICK next \in 1 .. (Len(names) + 1) :
        /\ NextHandled(names, k, next)
        /\ at' = [at EXCEPT ![n] = next]
        /\ outcome' = [outcome EXCEPT ![n] =
                [i \in 1 .. Len(names) |-> IF i \in k .. (next - 1) THEN "skipped" ELSE done[i]]]
        /\ \/ next > Len(names) /\ stage' = [stage EXCEPT ![n] = "returned"]
           \/ next <= Len(names) /\ stage' = [stage EXCEPT ![n] = HowCalled(names[next])]
           \/ next <= Len(names) /\ stage' = [stage EXCEPT ![n] = "sync"]
  BY DEF GoOn
<1>2. /\ DOMAIN stage = Notifies /\ DOMAIN at = Notifies /\ DOMAIN outcome = Notifies
      /\ Len(names) \in Nat
  BY DEF DispatchTypeOK
<1>3. next \in k .. (Len(names) + 1)
  BY <1>1 DEF NextHandled
<1>4. Faithful(actions[n], outcome[n], at[n])'
  <2>1. Faithful(actions'[n], Skipped(done, Len(names), k, next), next)
    BY <1>2, <1>3, FaithfulSkip
  <2>2. at'[n] = next /\ outcome'[n] = Skipped(done, Len(names), k, next)
    BY <1>1, <1>2 DEF Skipped
  <2>3. Faithful(actions'[n], outcome'[n], at'[n])
    BY <2>1, <2>2
  <2>. QED BY <2>3 DEF Faithful
<1>5. at'[n] = next
  BY <1>1, <1>2
<1>6. ASSUME next > Len(names) PROVE Progress(n)'
  <2>1. stage'[n] = "returned" /\ next = Len(names) + 1
    BY <1>1, <1>2, <1>6
  <2>. QED BY <1>4, <1>5, <2>1 DEF Progress, Kinds
<1>7. ASSUME next <= Len(names) PROVE Progress(n)'
  <2>1. names[next] \in Messages
    BY <1>7
  <2>2. HowCalled(names[next]) \in Kinds
    BY <1>1, <1>7, <2>1 DEF NextHandled, HowCalled, DispatchTypeOK
  <2>3. next \in 1 .. Len(names) /\ ~(next > Len(names))
    BY <1>2, <1>7
  <2>4. \E kind \in Kinds : stage' = [stage EXCEPT ![n] = kind]
    BY <1>1, <2>2, <2>3 DEF Kinds
  <2>5. stage'[n] \in Kinds
    BY <1>2, <2>4
  <2>. QED BY <1>4, <1>5, <2>3, <2>5 DEF Progress, Kinds
<1>8. Progress(n)'
  BY <1>2, <1>6, <1>7
<1>9. ASSUME NEW m \in Notifies \ {n} PROVE Progress(m)'
  BY <1>1, <1>2, <1>9, ProgressKept DEF ProgressInv
<1>. QED BY <1>8, <1>9 DEF ProgressInv

\* The end of the handler at the current position.
LEMMA HandledProgress ==
    ASSUME DispatchTypeOK, ProgressInv, NEW n \in InFlight, NEW result \in Outcomes,
           Handled(n, result), UNCHANGED registryVars
    PROVE  ProgressInv'
<1>1. /\ n \in Notifies /\ stage[n] \in Kinds /\ messages' = messages
      /\ DOMAIN stage = Notifies /\ DOMAIN outcome = Notifies /\ DOMAIN actions = Notifies
  BY DEF InFlight, registryVars, DispatchTypeOK
<1>2. CASE EndedByHandler(n, result)
  <2>1. ASSUME NEW m \in Notifies \ {n} PROVE Progress(m)'
    BY <1>1, <1>2, <2>1, ProgressKept DEF EndedByHandler, ProgressInv
  <2>2. stage'[n] = "cancelled"
    BY <1>1, <1>2 DEF EndedByHandler
  <2>3. Progress(n)'
    BY <2>2 DEF Progress, Kinds
  <2>. QED BY <2>1, <2>3 DEF ProgressInv
<1>3. CASE /\ result # "cancelled"
           /\ actions' = [actions EXCEPT ![n] = Collected(n, result)]
           /\ GoOn(n, messages[n], at[n] + 1, [outcome[n] EXCEPT ![at[n]] = result])
  <2>1. /\ at[n] \in 1 .. Len(messages[n]) /\ Faithful(actions[n], outcome[n], at[n])
        /\ messages[n] \in Seq(Messages) /\ actions[n] \in Seq(Nat)
        /\ at[n] \in Nat \ {0} /\ at[n] \in DOMAIN outcome[n]
    BY <1>1 DEF ProgressInv, Progress, DispatchTypeOK
  <2>2. result \in {"actions", "nothing", "raised"}
    BY <1>3 DEF Outcomes
  <2>3. Faithful(IF result = "actions" THEN Append(actions[n], at[n]) ELSE actions[n],
                 [outcome[n] EXCEPT ![at[n]] = result], at[n] + 1)
    BY <2>1, <2>2, FaithfulNext
  <2>4. actions'[n] = IF result = "actions" THEN Append(actions[n], at[n]) ELSE actions[n]
    BY <1>1, <1>3 DEF Collected
  <2>5. \A m \in Notifies \ {n} : messages'[m] = messages[m] /\ actions'[m] = actions[m]
    BY <1>1, <1>3
  <2>6. at[n] + 1 \in 1 .. (Len(messages[n]) + 1)
    BY <2>1
  <2>7. messages'[n] = messages[n]
    BY <1>1
  <2>8. Faithful(actions'[n], [outcome[n] EXCEPT ![at[n]] = result], at[n] + 1)
    BY <2>3, <2>4
  <2>. QED BY <1>1, <1>3, <2>1, <2>5, <2>6, <2>7, <2>8, GoOnProgress
<1>. QED BY <1>2, <1>3 DEF Handled

LEMMA ProgressInit == DispatchInit => ProgressInv
  BY DEF DispatchInit, ProgressInv, Progress, Kinds

LEMMA ProgressStep == DispatchTypeOK /\ ProgressInv /\ [DispatchNext]_dispatchVars => ProgressInv'
<1> SUFFICES ASSUME DispatchTypeOK, ProgressInv, [DispatchNext]_dispatchVars PROVE ProgressInv'
  OBVIOUS
<1>1. CASE UNCHANGED <<messages, notifyVars>>
  BY <1>1 DEF notifyVars, ProgressInv, Progress
<1>2. ASSUME NEW n \in Notifies, Dispatch(n) PROVE ProgressInv'
  <2>1. PICK names \in Payloads :
            /\ messages' = [messages EXCEPT ![n] = names]
            /\ GoOn(n, names, 1, [i \in 1 .. Len(names) |-> "none"])
    BY <1>2 DEF Dispatch
  <2>2. /\ names \in Seq(Messages) /\ 1 \in 1 .. (Len(names) + 1)
    BY DispatchAssumption
  <2>3. actions' = actions /\ actions[n] = <<>>
    BY <1>2 DEF Dispatch, ProgressInv, Progress
  <2>4. Faithful(actions'[n], [i \in 1 .. Len(names) |-> "none"], 1)
    BY <2>3 DEF Faithful
  <2>5. /\ messages'[n] = names
        /\ \A m \in Notifies \ {n} : messages'[m] = messages[m] /\ actions'[m] = actions[m]
    BY <2>1, <2>3 DEF DispatchTypeOK
  <2>. QED BY <2>1, <2>2, <2>4, <2>5, GoOnProgress
<1>3. ASSUME NEW n \in Notifies, AsyncEnds(n) PROVE ProgressInv'
  <2>1. n \in InFlight
    BY <1>3 DEF AsyncEnds, InFlight, Kinds
  <2>. QED BY <1>3, <2>1, HandledProgress DEF AsyncEnds
<1>4. ASSUME NEW n \in Notifies, Resume(n) PROVE ProgressInv'
  <2>1. n \in InFlight
    BY <1>4 DEF Resume, InFlight, Kinds
  <2>. QED BY <1>4, <2>1, HandledProgress DEF Resume
<1>5. ASSUME NEW n \in Notifies, DeliverCancel(n) PROVE ProgressInv'
  <2>1. /\ stage' = stage \/ stage' = [stage EXCEPT ![n] = "cancelled"]
        /\ UNCHANGED <<messages, at, outcome, actions>>
        /\ DOMAIN stage = Notifies
    BY <1>5 DEF DeliverCancel, LeaveThread, registryVars, notifyVars, DispatchTypeOK
  <2>2. ASSUME NEW m \in Notifies PROVE Progress(m)'
    BY <2>1, <2>2 DEF ProgressInv, Progress, Kinds
  <2>. QED BY <2>2 DEF ProgressInv
<1>. QED
  BY <1>1, <1>2, <1>3, <1>4, <1>5
  DEF DispatchNext, NotifyStep, HandlerEnds, Register, CancelAny, WorkerTakes, JobEnds,
      dispatchVars, registryVars

\* The reply to a NOTIFY holds the actions of exactly the handlers that returned
\* some, each once and in the order of the messages.
THEOREM RepliesInOrder == DispatchSpec => []ActionsInOrder
<1>1. DispatchInit => ProgressInv
  BY ProgressInit
<1>2. DispatchTypeOK /\ ProgressInv /\ [DispatchNext]_dispatchVars => ProgressInv'
  BY ProgressStep
<1>3. DispatchTypeOK /\ ProgressInv => ActionsInOrder
  BY ProgressImplies
<1>. QED BY <1>1, <1>2, <1>3, DispatchTypeCorrect, PTL DEF DispatchSpec

=============================================================================
