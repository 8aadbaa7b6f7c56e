------------------------- MODULE ForgeHandlerPromise -------------------------
(***************************************************************************)
(* ForgeHandler implements SpopConnection: no NOTIFY of a live connection  *)
(* goes unanswered, for every value of the constants, as long as no        *)
(* handler ends with a CancelledError of its own (NoSelfCancel).           *)
(***************************************************************************)
EXTENDS ForgeHandlerReports

NoSelfCancel == HandlerMayCancel = FALSE

-----------------------------------------------------------------------------
(* How tasks end *)

\* A task that waits for its drain has written its ACK, one that ended well has
\* too unless the stream was closing, and none is cancelled before the group aborts.
AnswerFacts ==
    \A id \in Ids :
        /\ task[id] \in {"none", "created", "running", "draining"} <=> result[id] = "none"
        /\ task[id] = "draining" => id \in Acked
        /\ result[id] = "ok" => id \in Acked \/ transport # "open"
        /\ result[id] = "cancelled" => aborting

LEMMA AckedSame == WritesNoAck /\ TypeOK => Acked' = Acked
<1> SUFFICES ASSUME WritesNoAck, TypeOK PROVE Acked' = Acked
  OBVIOUS
<1>1. CASE wire' = wire
  BY <1>1 DEF Acked, Positions
<1>2. CASE WritesHello \/ WritesDisconnect
  <2>1. PICK frame : wire' = Append(wire, frame) /\ frame.type # "ACK"
    BY <1>2 DEF WritesHello, WritesDisconnect
  <2>2. /\ Positions("ACK")' = Positions("ACK")
        /\ \A i \in Positions("ACK") : wire'[i] = wire[i]
    BY <2>1, Appended DEF Positions
  <2>. QED BY <2>2 DEF Acked
<1>. QED BY <1>1, <1>2 DEF WritesNoAck

LEMMA AckedGrows ==
    ASSUME TypeOK, NEW id, NEW actions, wire' = Append(wire, AckFrame(id, actions))
    PROVE  Acked' = Acked \union {id}
<1> DEFINE frame == AckFrame(id, actions)
           last == Len(wire) + 1
<1>1. frame.type = "ACK" /\ frame.id = id
  BY DEF AckFrame
<1> HIDE DEF frame
<1>2. wire' = Append(wire, frame)
  BY DEF frame
<1>3. /\ last \in DOMAIN wire' /\ wire'[last] = frame
      /\ \A i \in DOMAIN wire : wire'[i] = wire[i] /\ i \in DOMAIN wire'
      /\ \A i \in DOMAIN wire' : i \in DOMAIN wire \/ i = last
  BY <1>2, Appended
<1> HIDE DEF last
<1>4. /\ Positions("ACK")' = Positions("ACK") \union {last}
      /\ \A i \in Positions("ACK") : wire'[i].id = wire[i].id
      /\ wire'[last].id = id
  BY <1>1, <1>3 DEF Positions
<1> DEFINE before == Positions("ACK")
           after == Positions("ACK")'
<1>5. Acked' = {wire'[i].id : i \in after} /\ Acked = {wire[i].id : i \in before}
  BY DEF Acked
<1>6. after = before \union {last}
  BY <1>4
<1> HIDE DEF before, after
<1>7. {wire'[i].id : i \in after} = {wire'[i].id : i \in before} \union {wire'[last].id}
  BY <1>6
<1>8. {wire'[i].id : i \in before} = {wire[i].id : i \in before}
  BY <1>4 DEF before
<1>. QED BY <1>4, <1>5, <1>7, <1>8

\* What a step of the task of one NOTIFY may do to it.
Starts(id) ==
    /\ task[id] = "created" /\ task' = [task EXCEPT ![id] = "running"]
    /\ UNCHANGED <<result, aborting, pc, transport>> /\ Acked' = Acked

\* Its ACK is written.
Answers(id) ==
    /\ task[id] = "running" /\ transport = "open"
    /\ \/ task' = [task EXCEPT ![id] = "draining"] /\ result' = result
       \/ task' = [task EXCEPT ![id] = "ended"] /\ result' = [result EXCEPT ![id] = "ok"]
    /\ UNCHANGED <<aborting, pc, transport>> /\ Acked' = Acked \union {id}

\* It ends, for a reason that leaves no NOTIFY unanswered on an open stream.
Ends(id) ==
    /\ id \in Live /\ task' = [task EXCEPT ![id] = "ended"]
    /\ \E res :
        /\ result' = [result EXCEPT ![id] = res]
        /\ \/ res \in TaskErrors
           \/ res = "ok" /\ (task[id] = "draining" \/ transport # "open")
           \/ res = "cancelled" /\ aborting
    /\ transport' = transport \/ transport' = "reset"
    /\ UNCHANGED <<aborting, pc>> /\ Acked' = Acked

IsReaped(id) ==
    /\ task[id] = "ended" /\ task' = [task EXCEPT ![id] = "reaped"]
    /\ UNCHANGED <<result, transport>> /\ Acked' = Acked
    /\ \/ UNCHANGED <<aborting, pc>> /\ (result[id] \notin TaskErrors \/ aborting)
       \/ ~aborting /\ aborting' /\ pc' = "join"

Survives == UNCHANGED <<task, result, aborting, pc, transport>> /\ Acked' = Acked

TaskMove(id) == Starts(id) \/ Answers(id) \/ Ends(id) \/ IsReaped(id) \/ Survives

LEMMA AckMoves ==
    ASSUME TypeOK, NEW id \in Ids, NEW actions, task[id] = "running",
           SendAck(id, AckFrame(id, actions)), UNCHANGED <<pc, aborting>>
    PROVE  Answers(id) \/ Ends(id)
<1> DEFINE frame == AckFrame(id, actions)
<1>1. PICK r \in SendOutcomes :
        /\ SendFrame(frame, config.size, r)
        /\ \/ r \in {"sent", "skipped"} /\ EndTask(id, "ok")
           \/ r \in {"TooBig", "Conn"} /\ EndTask(id, r)
           \/ /\ r = "drain"
              /\ task' = [task EXCEPT ![id] = "draining"]
              /\ UNCHANGED <<result, slots>>
  BY DEF SendAck
<1>2. CASE r \in {"skipped", "TooBig", "Conn"}
  <2>1. /\ wire' = wire
        /\ transport' = transport \/ transport' = "reset"
        /\ r = "skipped" => transport # "open"
    BY <1>1, <1>2 DEF SendFrame, linkVars
  <2>2. Acked' = Acked
    BY <2>1 DEF Acked, Positions
  <2>3. CASE r = "skipped" /\ EndTask(id, "ok")
    BY <2>1, <2>2, <2>3 DEF EndTask, Ends, Live
  <2>4. CASE r \in TaskErrors /\ EndTask(id, r)
    BY <2>1, <2>2, <2>4 DEF EndTask, Ends, Live
  <2>. QED BY <1>1, <1>2, <2>3, <2>4 DEF TaskErrors
<1>3. CASE r \in {"sent", "drain"}
  <2>1. wire' = Append(wire, frame) /\ transport = "open" /\ transport' = transport
    BY <1>1, <1>3 DEF SendFrame
  <2>2. Acked' = Acked \union {id}
    BY <2>1, AckedGrows
  <2>. QED BY <1>1, <1>3, <2>1, <2>2 DEF EndTask, Answers
<1>. QED BY <1>1, <1>2, <1>3 DEF SendOutcomes

LEMMA TaskMoves ==
    ASSUME TypeOK, ConnectionInv, NoSelfCancel, NEW id \in Ids, TaskStep(id) \/ HandlerStep(id)
    PROVE  TaskMove(id)
<1>1. wire' = wire => Acked' = Acked
  BY DEF Acked, Positions
<1>2. CASE StartTask(id)
  BY <1>1, <1>2 DEF StartTask, TaskMove, Starts, linkVars, groupVars
<1>3. CASE CancelTask(id)
  <2>1. aborting
    BY <1>3 DEF CancelTask, ConnectionInv, AbortFacts
  <2>. QED BY <1>1, <1>3, <2>1 DEF CancelTask, EndTask, TaskMove, Ends, Survives, linkVars, taskVars
<1>4. CASE FinishAck(id)
  <2>1. PICK r \in {"sent", "Conn"} : EndTask(id, IF r = "sent" THEN "ok" ELSE r)
    BY <1>4 DEF FinishAck
  <2>2. /\ task[id] = "draining" /\ id \in Live
        /\ UNCHANGED <<wire, transport, aborting, pc>>
    BY <1>4 DEF FinishAck, Live, linkVars, groupVars
  <2>. QED BY <1>1, <2>1, <2>2 DEF EndTask, TaskMove, Ends, TaskErrors
<1>5. CASE ReapTask(id)
  BY <1>1, <1>5 DEF ReapTask, Abort, TaskMove, IsReaped, linkVars
<1>6. CASE HandlerReturns(id)
  <2>1. task[id] = "running" /\ id \in Live /\ UNCHANGED <<pc, aborting>>
    BY <1>6 DEF HandlerReturns, groupVars, Live
  <2>2. CASE \E actions : SendAck(id, AckFrame(id, actions))
    BY <2>1, <2>2, AckMoves DEF TaskMove
  <2>3. CASE \E res \in TaskErrors : EndTask(id, res) /\ UNCHANGED linkVars
    BY <1>1, <2>1, <2>3 DEF EndTask, TaskMove, Ends, linkVars
  <2>. QED BY <1>6, <2>2, <2>3 DEF HandlerReturns, SendReply, TaskErrors
<1>7. ~HandlerCancels(id)
  BY DEF HandlerCancels, NoSelfCancel
<1>. QED BY <1>2, <1>3, <1>4, <1>5, <1>6, <1>7 DEF TaskStep, HandlerStep

\* A step of core_handler answers nothing and ends no task.
CoroutineMove ==
    /\ UNCHANGED result /\ Acked' = Acked
    /\ aborting => aborting'
    /\ transport = "open" \/ transport' # "open"

LEMMA CoroutineMoves == TypeOK /\ ConnectionInv /\ ConnectionStep => CoroutineMove
<1> SUFFICES ASSUME TypeOK, ConnectionInv, ConnectionStep PROVE CoroutineMove
  OBVIOUS
<1>0. Acked' = Acked
  BY ConnectionWrites, AckedSame
<1>1. CASE ReceiveHello \/ FinishHello
  <2>1. /\ result' = result
        /\ transport = "open" \/ transport' # "open"
        /\ pc \notin ExitPcs
    BY <1>1 DEF ReceiveHello, FinishHello, SendAgentHello, SendThenClose, SendFrame, linkVars,
                ExitPcs
  <2>. QED BY <1>0, <2>1 DEF CoroutineMove, ConnectionInv, AbortFacts
<1>2. CASE \/ RefuseFirstFrame \/ ReadDisconnect \/ ReadUnexpected \/ EofInHandshake
           \/ DecodeRaises \/ ReadEof \/ FinishBye \/ Acquire \/ ReadNotify
  <2>1. /\ result' = result
        /\ transport = "open" \/ transport' # "open"
        /\ pc \notin ExitPcs
    BY <1>2 DEF RefuseFirstFrame, ReadDisconnect, ReadUnexpected, EofInHandshake, DecodeRaises,
                ReadEof, FinishBye, Acquire, ReadNotify, SendThenClose, SendFrame, linkVars,
                taskVars, ExitPcs
  <2>. QED BY <1>0, <2>1 DEF CoroutineMove, ConnectionInv, AbortFacts
<1>3. CASE \/ LeaveGroup \/ HandleTooBig \/ HandleSpoe \/ FinishReport
           \/ CloseConnection \/ WaitClosed \/ Escape
  BY <1>0, <1>3 DEF CoroutineMove, LeaveGroup, HandleTooBig, HandleSpoe, FinishReport,
                    CloseConnection, WaitClosed, Escape, ReportError, SendFrame, CloseTransport,
                    linkVars, taskVars, groupVars
<1>. QED BY <1>1, <1>2, <1>3 DEF ConnectionStep

LEMMA EnvironmentMoves ==
    ASSUME TransportStep \/ PeerStep \/ UNCHANGED vars
    PROVE  /\ UNCHANGED <<task, result, aborting, pc>> /\ Acked' = Acked
           /\ transport = "open" \/ transport' # "open"
<1>1. /\ UNCHANGED <<wire, task, result, aborting, pc>>
      /\ transport = "open" \/ transport' # "open"
  BY DEF TransportStep, NoticeReset, NoticeTlsEof, FinishClose, PeerStep, PeerSend, PeerEof,
         PeerReset, PeerReads, linkVars, taskVars, groupVars, vars
<1>. QED BY <1>1 DEF Acked, Positions

\* The tasks are left alone by core_handler, except that it dispatches one.
LEMMA Dispatches ==
    ASSUME TypeOK, ConnectionInv, ConnectionStep
    PROVE  \/ task' = task
           \/ /\ pc = "read" /\ pc' = "acquire" /\ UNCHANGED transport
              /\ \E id \in Ids : /\ task[id] = "none" /\ id \notin Acked
                                 /\ task' = [task EXCEPT ![id] = "created"]
<1>1. CASE ReadNotify
  <2>1. /\ pc = "read" /\ pc' = "acquire" /\ UNCHANGED transport
        /\ inbox # <<>> /\ task' = [task EXCEPT ![Head(inbox).id] = "created"]
        /\ Head(inbox).kind = "NOTIFY"
    BY <1>1 DEF ReadNotify, Decoded, linkVars
  <2>2. inbox \in Seq(ReceivedFrames) /\ 1 \in DOMAIN inbox /\ Head(inbox) = inbox[1]
    BY <2>1 DEF TypeOK
  <2> DEFINE id == Head(inbox).id
  <2>3. id \in 1 .. (MaxFrames + 1) /\ id <= nSent
    <3>1. inbox[1] \in ReceivedFrames
      BY <2>2
    <3>. QED BY <2>1, <2>2, <3>1 DEF ReceivedFrames, ConnectionInv, DispatchOrder
  <2>4. id \in Ids
    BY <2>3, HandlerAssumption DEF TypeOK, Ids
  <2>5. task[id] = "none"
    <3>1. id >= inbox[1].id
      BY <2>2, <2>3, HandlerAssumption
    <3>. QED BY <2>2, <2>4, <3>1 DEF ConnectionInv, DispatchOrder
  <2>6. id \notin Acked
    BY <2>5 DEF ConnectionInv, AckFacts, Acked
  <2>. QED BY <2>1, <2>4, <2>5, <2>6
<1>2. CASE ~ReadNotify
  BY <1>2 DEF ConnectionStep, ReceiveHello, RefuseFirstFrame, EofInHandshake, FinishHello,
              DecodeRaises, Acquire, ReadDisconnect, ReadUnexpected, ReadEof, FinishBye, LeaveGroup,
              HandleTooBig, HandleSpoe, FinishReport, CloseConnection, WaitClosed, Escape, taskVars
<1>. QED BY <1>1, <1>2

LEMMA AnswerKept ==
    ASSUME NoSelfCancel, TypeOK, ConnectionInv, AnswerFacts, [Next]_vars
    PROVE  AnswerFacts'
<1>0. /\ task \in [Ids -> TaskStates] /\ result \in [Ids -> Results]
  BY DEF TypeOK
<1>1. CASE ConnectionStep
  <2>1. CoroutineMove
    BY <1>1, CoroutineMoves
  <2>2. CASE task' = task
    BY <2>1, <2>2 DEF CoroutineMove, AnswerFacts
  <2>3. CASE \E id \in Ids : task[id] = "none" /\ task' = [task EXCEPT ![id] = "created"]
    BY <1>0, <2>1, <2>3 DEF CoroutineMove, AnswerFacts
  <2>. QED BY <1>1, <2>2, <2>3, Dispatches
<1>2. CASE \E id \in Ids : TaskStep(id) \/ HandlerStep(id)
  <2>1. PICK id \in Ids : TaskMove(id)
    BY <1>2, TaskMoves
  <2>2. CASE Starts(id)
    BY <1>0, <2>2 DEF Starts, AnswerFacts
  <2>3. CASE Answers(id)
    BY <1>0, <2>3 DEF Answers, AnswerFacts
  <2>4. CASE Ends(id)
    <3>1. PICK res : /\ result' = [result EXCEPT ![id] = res]
                     /\ \/ res \in TaskErrors
                        \/ res = "ok" /\ (task[id] = "draining" \/ transport # "open")
                        \/ res = "cancelled" /\ aborting
      BY <2>4 DEF Ends
    <3>2. res # "none"
      BY <3>1 DEF TaskErrors
    <3>3. res \in {"ok", "cancelled"} => res \notin TaskErrors
      BY DEF TaskErrors
    <3>. QED BY <1>0, <2>4, <3>1, <3>2, <3>3 DEF Ends, AnswerFacts
  <2>5. CASE IsReaped(id)
    BY <1>0, <2>5 DEF IsReaped, AnswerFacts
  <2>6. CASE Survives
    BY <2>6 DEF Survives, AnswerFacts
  <2>. QED BY <2>1, <2>2, <2>3, <2>4, <2>5, <2>6 DEF TaskMove
<1>3. CASE TransportStep \/ PeerStep \/ UNCHANGED vars
  BY <1>3, EnvironmentMoves DEF AnswerFacts
<1>. QED BY <1>1, <1>2, <1>3 DEF Next

LEMMA AnswerInvariant == ASSUME NoSelfCancel PROVE Spec => []AnswerFacts
<1>1. Init => AnswerFacts
  BY DEF Init, InitFor, AnswerFacts
<1>2. TypeOK /\ ConnectionInv /\ AnswerFacts /\ [Next]_vars => AnswerFacts'
  BY AnswerKept
<1>. QED BY <1>1, <1>2, TypeCorrect, ConnectionInvariant, PTL DEF Spec

\* Agent must respond with ACK: while frames are read on an open stream, a NOTIFY
\* whose task ended without an error has its ACK, whatever its handlers returned.
THEOREM NotifiesAreAcked == ASSUME NoSelfCancel PROVE Spec => []EveryNotifyAcked
<1>1. ConnectionInv /\ AnswerFacts => EveryNotifyAcked
  BY DEF ConnectionInv, AbortFacts, AnswerFacts, EveryNotifyAcked, ExitPcs
<1>. QED BY <1>1, AnswerInvariant, ConnectionInvariant, PTL

-----------------------------------------------------------------------------
(* The implementation of SpopConnection *)

LostStays == transport = "open" \/ transport' # "open"

\* The steps of core_handler, as HAProxy can tell them apart.
PhaseMove ==
    \/ Phase' = Phase /\ LostStays
    \/ Phase = "greeting" /\ Phase' = "serving" /\ UNCHANGED transport
    \/ Phase \in {"greeting", "serving"} /\ Phase' = "ending" /\ LostStays
    \/ Phase = "ending" /\ Phase' = "over" /\ UNCHANGED transport /\ GroupDone

LEMMA PhaseMoves == TypeOK /\ ConnectionInv /\ ConnectionStep => PhaseMove
<1> SUFFICES ASSUME TypeOK, ConnectionInv, ConnectionStep PROVE PhaseMove
  OBVIOUS
<1>0. LostStays
  BY CoroutineMoves DEF CoroutineMove, LostStays
<1>1. CASE ReceiveHello \/ FinishHello
  <2>1. /\ pc \in {"handshake", "hello_drain"}
        /\ pc' \in {"acquire", "hello_drain", "bye_drain", "join"}
        /\ pc' \in {"acquire", "bye_drain"} => UNCHANGED transport
    BY <1>1 DEF ReceiveHello, FinishHello, SendAgentHello, SendThenClose, SendFrame, AfterHello,
                StartReading, RaiseInBody, linkVars
  <2>. QED BY <1>0, <2>1 DEF PhaseMove, Phase
<1>2. CASE RefuseFirstFrame \/ ReadDisconnect \/ ReadUnexpected
  <2>1. /\ pc \in {"handshake", "read"} /\ pc' \in {"bye_drain", "join"}
        /\ pc' = "bye_drain" => UNCHANGED transport
    BY <1>2 DEF RefuseFirstFrame, ReadDisconnect, ReadUnexpected, SendThenClose, SendFrame,
                RaiseInBody, linkVars
  <2>. QED BY <1>0, <2>1 DEF PhaseMove, Phase
<1>3. CASE EofInHandshake \/ DecodeRaises \/ ReadEof \/ FinishBye
  <2>1. pc \in BodyPcs /\ pc' = "join"
    BY <1>3 DEF EofInHandshake, DecodeRaises, ReadEof, FinishBye, RaiseInBody, BodyPcs
  <2>. QED BY <1>0, <2>1 DEF PhaseMove, Phase, BodyPcs
<1>4. CASE Acquire \/ ReadNotify
  BY <1>0, <1>4 DEF Acquire, ReadNotify, PhaseMove, Phase
<1>5. CASE LeaveGroup
  BY <1>5 DEF LeaveGroup, FirstClause, PhaseMove, Phase, linkVars
<1>6. CASE HandleTooBig \/ HandleSpoe \/ FinishReport \/ CloseConnection \/ WaitClosed \/ Escape
  <2>1. PastGroup /\ PastGroup'
    BY <1>6 DEF HandleTooBig, HandleSpoe, FinishReport, CloseConnection, WaitClosed, Escape,
                ReportError, AfterTooBig, PastGroup, ExitPcs
  <2>2. Phase = "over" /\ Phase' = "over"
    BY <2>1 DEF Phase, PastGroup, ExitPcs
  <2>. QED BY <1>0, <2>2 DEF PhaseMove
<1>. QED BY <1>1, <1>2, <1>3, <1>4, <1>5, <1>6 DEF ConnectionStep

\* Without a change to a task, or to what is answered, a step is one of the phase.
LEMMA PhaseImplements ==
    ASSUME TypeOK, PhaseMove, UNCHANGED task, Acked' = Acked
    PROVE  [Promise!Next]_Promise!vars
<1>1. Unanswered' = Unanswered
  BY DEF Unanswered
<1>2. CASE Phase' = Phase /\ LostStays
  <2>1. CASE (transport' # "open") = (transport # "open")
    BY <1>1, <1>2, <2>1 DEF Promise!vars
  <2>2. CASE transport' # "open"
    BY <1>1, <1>2, <2>2 DEF Promise!Next, Promise!LoseStream
  <2>. QED BY <1>2, <2>1, <2>2 DEF LostStays
<1>3. CASE Phase = "greeting" /\ Phase' = "serving" /\ UNCHANGED transport
  BY <1>1, <1>3 DEF Promise!Next, Promise!Greet
<1>4. CASE Phase \in {"greeting", "serving"} /\ Phase' = "ending" /\ LostStays
  <2>1. (transport' # "open") \in {transport # "open", TRUE}
    BY <1>4 DEF LostStays
  <2>. QED BY <1>1, <1>4, <2>1 DEF Promise!Next, Promise!Fail
<1>5. CASE Phase = "ending" /\ Phase' = "over" /\ UNCHANGED transport /\ GroupDone
  <2>1. Unanswered = {}
    BY <1>5 DEF GroupDone, Unanswered
  <2>. QED BY <1>1, <1>5, <2>1 DEF Promise!Next, Promise!Finish
<1>. QED BY <1>2, <1>3, <1>4, <1>5 DEF PhaseMove

\* A NOTIFY is accepted by its dispatch.
LEMMA DispatchImplements ==
    ASSUME TypeOK, NEW id \in Ids, pc = "read", pc' = "acquire", UNCHANGED transport,
           task[id] = "none", id \notin Acked, Acked' = Acked,
           task' = [task EXCEPT ![id] = "created"]
    PROVE  [Promise!Next]_Promise!vars
<1>1. Unanswered' = Unanswered \union {id} /\ id \notin Unanswered
  BY DEF Unanswered, TypeOK
<1>2. Phase = "serving" /\ Phase' = "serving"
  BY DEF Phase
<1>3. Promise!Accept(id)
  BY <1>1, <1>2 DEF Promise!Accept
<1>. QED BY <1>3 DEF Promise!Next

\* A task that is not accounted for exists between the handshake and the end of
\* the group only.
LEMMA TaskPhase ==
    ASSUME TypeOK, ConnectionInv, PastGroup => GroupDone,
           NEW id \in Ids, task[id] \notin {"none", "reaped"}
    PROVE  Phase \in {"serving", "ending"} /\ (aborting => Phase = "ending")
<1>1. ~PastGroup /\ pc \notin {"handshake", "hello_drain"}
  BY DEF GroupDone, ConnectionInv, DispatchOrder
<1>2. pc \in {"acquire", "read", "bye_drain", "join"}
  BY <1>1 DEF PastGroup, ExitPcs, BodyPcs, TypeOK
<1>3. aborting => pc = "join"
  BY <1>2 DEF ConnectionInv, AbortFacts, ExitPcs
<1>. QED BY <1>2, <1>3 DEF Phase

LEMMA TaskImplements ==
    ASSUME TypeOK, ConnectionInv, PastGroup => GroupDone, AnswerFacts,
           NEW id \in Ids, TaskMove(id)
    PROVE  [Promise!Next]_Promise!vars
<1>0. task \in [Ids -> TaskStates]
  BY DEF TypeOK
<1>1. CASE Survives
  <2>1. Phase' = Phase
    BY <1>1 DEF Survives, Phase
  <2>. QED BY <1>1, <2>1, PhaseImplements DEF Survives, PhaseMove, LostStays
<1>2. CASE Starts(id)
  <2>1. Unanswered' = Unanswered /\ Phase' = Phase
    BY <1>0, <1>2 DEF Starts, Unanswered, Phase
  <2>. QED BY <1>2, <2>1 DEF Starts, Promise!vars
<1>3. CASE Answers(id)
  <2>1. id \in Unanswered
    BY <1>3 DEF Answers, Unanswered, ConnectionInv, AckFacts, Acked
  <2>2. Unanswered' = Unanswered \ {id} /\ Acked' = Acked \union {id}
    BY <1>0, <1>3 DEF Answers, Unanswered
  <2>3. Phase' = Phase /\ Phase \in {"serving", "ending"}
    <3>1. pc' = pc /\ task[id] \notin {"none", "reaped"}
      BY <1>3 DEF Answers
    <3>. QED BY <3>1, TaskPhase DEF Phase
  <2>4. Promise!Answer(id)
    BY <1>3, <2>1, <2>2, <2>3 DEF Promise!Answer, Answers
  <2>. QED BY <2>4 DEF Promise!Next
<1>4. CASE Ends(id)
  <2>1. /\ Unanswered' = Unanswered /\ Acked' = Acked
        /\ Phase' = Phase
        /\ transport' = transport \/ transport' # "open"
    BY <1>0, <1>4 DEF Ends, Live, Unanswered, Phase
  <2>2. CASE transport' = transport
    BY <2>1, <2>2 DEF Promise!vars
  <2>3. CASE transport' # "open"
    BY <2>1, <2>3 DEF Promise!Next, Promise!LoseStream
  <2>. QED BY <2>1, <2>2, <2>3
<1>5. CASE IsReaped(id)
  <2>1. Unanswered' = Unanswered \ {id} /\ Acked' = Acked /\ transport' = transport
    BY <1>0, <1>5 DEF IsReaped, Unanswered
  <2>2. /\ Phase \in {"serving", "ending"}
        /\ aborting => Phase = "ending"
    BY <1>5, TaskPhase DEF IsReaped
  <2>3. CASE ~aborting /\ aborting' /\ pc' = "join"
    <3>1. Phase = "serving" /\ Phase' = "ending"
      BY <2>2, <2>3 DEF Phase, ConnectionInv, AbortFacts, ExitPcs
    <3>2. Unanswered' = Unanswered \/ \E i \in Unanswered : Unanswered' = Unanswered \ {i}
      BY <2>1
    <3>3. Promise!Fail
      BY <2>1, <3>1, <3>2 DEF Promise!Fail
    <3>. QED BY <3>3 DEF Promise!Next
  <2>4. CASE UNCHANGED <<aborting, pc>> /\ (result[id] \notin TaskErrors \/ aborting)
    <3>1. Phase' = Phase
      BY <2>4 DEF Phase
    <3>2. CASE id \notin Unanswered
      BY <2>1, <3>1, <3>2 DEF Promise!vars
    <3>3. CASE id \in Unanswered
      <4>1. Phase = "ending" \/ transport # "open"
        <5>1. result[id] \in Results /\ result[id] # "none"
          BY <1>5 DEF IsReaped, AnswerFacts, TypeOK
        <5>2. aborting \/ result[id] = "ok"
          BY <2>4, <5>1 DEF AnswerFacts, Results
        <5>. QED BY <2>2, <3>3, <5>2 DEF AnswerFacts, Unanswered
      <4>2. Promise!Abandon(id)
        BY <2>1, <3>1, <3>3, <4>1 DEF Promise!Abandon
      <4>. QED BY <4>2 DEF Promise!Next
    <3>. QED BY <3>2, <3>3
  <2>. QED BY <1>5, <2>3, <2>4 DEF IsReaped
<1>. QED BY <1>1, <1>2, <1>3, <1>4, <1>5 DEF TaskMove

LEMMA StepImplements ==
    ASSUME NoSelfCancel, TypeOK, ConnectionInv, ReportFacts, AnswerFacts, [Next]_vars
    PROVE  [Promise!Next]_Promise!vars
<1>1. CASE ConnectionStep
  <2>1. Acked' = Acked
    BY <1>1, CoroutineMoves DEF CoroutineMove
  <2>2. CASE task' = task
    BY <1>1, <2>1, <2>2, PhaseMoves, PhaseImplements
  <2>3. CASE task' # task
    BY <1>1, <2>1, <2>3, Dispatches, DispatchImplements
  <2>. QED BY <2>2, <2>3
<1>2. CASE \E id \in Ids : TaskStep(id) \/ HandlerStep(id)
  <2>1. PICK id \in Ids : TaskMove(id)
    BY <1>2, TaskMoves
  <2>. QED BY <2>1, TaskImplements DEF ReportFacts
<1>3. CASE TransportStep \/ PeerStep \/ UNCHANGED vars
  <2>1. UNCHANGED <<task, pc>> /\ Acked' = Acked /\ LostStays
    BY <1>3, EnvironmentMoves DEF LostStays
  <2>2. Phase' = Phase
    BY <2>1 DEF Phase
  <2>. QED BY <2>1, <2>2, PhaseImplements DEF PhaseMove
<1>. QED BY <1>1, <1>2, <1>3 DEF Next

\* A connection implements SpopConnection: it answers each NOTIFY it accepts at
\* most once, leaves one unanswered only when the stream is lost or the connection
\* is being ended, and owes nothing once it is over.
THEOREM ImplementsPromise == ASSUME NoSelfCancel PROVE Spec => KeepsPromise
<1>1. Init => Promise!Init
  <2> SUFFICES ASSUME Init PROVE Promise!Init
    OBVIOUS
  <2>1. Acked = {} /\ Unanswered = {}
    BY DEF Init, InitFor, Acked, Unanswered, Positions
  <2>2. Phase = "greeting" /\ transport = "open"
    BY DEF Init, InitFor, Phase
  <2>. QED BY <2>1, <2>2 DEF Promise!Init
<1>2. TypeOK /\ ConnectionInv /\ ReportFacts /\ AnswerFacts /\ [Next]_vars
        => [Promise!Next]_Promise!vars
  BY StepImplements
<1>. QED
  BY <1>1, <1>2, AnswerInvariant, ReportInvariant, ConnectionInvariant, TypeCorrect, PTL
  DEF Spec, KeepsPromise, Promise!Spec
=============================================================================
