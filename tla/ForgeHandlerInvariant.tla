------------------------ MODULE ForgeHandlerInvariant ------------------------
(***************************************************************************)
(* Theorems about ForgeHandler, for every value of its constants: its      *)
(* types, and its slots, dispatch order and ACKs, which ConnectionInv, an  *)
(* inductive invariant, is about.                                          *)
(*                                                                         *)
(* The lemmas follow what a step may touch.  A step of the coroutine       *)
(* leaves the tasks alone, except ReadNotify; a step of a task moves one   *)
(* NOTIFY from a state that is not "none" to another and leaves the inbox  *)
(* alone.                                                                  *)
(***************************************************************************)
EXTENDS ForgeHandler, FiniteSetTheorems, TLAPS

-----------------------------------------------------------------------------
(* Type correctness *)

ErrorClasses == TaskErrors \union SpoeErrors \union {"Close"}

\* A frame that send_frame writes keeps the link well typed: its length is a
\* number because the check of Fits admits it.
LEMMA SendFrameType ==
    ASSUME TypeOK,
           NEW type \in FrameTypes, NEW id \in 0 .. MaxFrames, NEW code \in Codes, NEW len,
           NEW size \in Int, NEW r,
           SendFrame([type |-> type, id |-> id, code |-> code, len |-> len], size, r)
    PROVE  /\ wire' \in Seq(WireFrames)
           /\ transport' \in {"open", "closing", "lost", "reset"}
           /\ paused' \in BOOLEAN
<1> DEFINE frame == [type |-> type, id |-> id, code |-> code, len |-> len]
<1>1. CASE UNCHANGED linkVars
  BY <1>1 DEF linkVars, TypeOK
<1>2. CASE transport' = "reset" /\ UNCHANGED <<paused, wire>>
  BY <1>2 DEF TypeOK
<1>3. CASE /\ Fits(frame, size)
           /\ paused' = (r = "drain")
           /\ wire' = Append(wire, frame)
           /\ UNCHANGED transport
  <2>1. len \in Nat
    BY <1>3 DEF Fits
  <2>2. frame \in WireFrames
    BY <2>1 DEF WireFrames
  <2>. QED BY <1>3, <2>2 DEF TypeOK
<1>. QED BY <1>1, <1>2, <1>3 DEF SendFrame

\* An exception in the body of the group keeps the group well typed.
LEMMA RaiseType ==
    ASSUME TypeOK, NEW e \in ErrorClasses, RaiseInBody(e)
    PROVE  /\ errors' \subseteq ErrorClasses
           /\ aborting' \in BOOLEAN
           /\ cancel' \in [Ids -> BOOLEAN]
           /\ pc' \in BodyPcs \union ExitPcs
  BY DEF RaiseInBody, Abort, TypeOK, ErrorClasses, ExitPcs

\* The agreed configuration is one, whatever the HELLO holds.
LEMMA NegotiateType ==
    ASSUME TypeOK
    PROVE  /\ Negotiate(config, hello) \in Configurations
           /\ hello.healthcheck \in BOOLEAN
<1> DEFINE versioned == CheckVersionCompatibility(config, hello.versions)
           sized == FindMaxFrameSize(versioned, hello.size)
<1>1. hello.size \in Int /\ hello.healthcheck \in BOOLEAN
  BY HandlerAssumption DEF TypeOK
<1>2. config \in Configurations
  BY DEF TypeOK
<1>3. versioned \in Configurations
  BY <1>2 DEF CheckVersionCompatibility, Configurations
<1>4. sized \in Configurations
  <2> HIDE DEF versioned
  <2>1. PICK agreed \in Int :
            sized = [versioned EXCEPT !.size = agreed, !.compatible = @ /\ agreed > 0]
    BY <1>1, <1>3 DEF FindMaxFrameSize, Configurations
  <2>. QED BY <1>3, <2>1 DEF Configurations
<1>5. FindCommonCapabilities(sized, hello.caps) \in Configurations
  <2> HIDE DEF sized
  <2>. QED BY <1>4 DEF FindCommonCapabilities, Configurations
<1>. QED BY <1>1, <1>5 DEF Negotiate

LEMMA LimitType == \A agreed : ConcurrencyLimit(agreed) \in Nat
  BY HandlerAssumption DEF ConcurrencyLimit

\* What a last frame of the body does to the types.
LEMMA SendThenCloseType ==
    ASSUME TypeOK, NEW code \in Codes, NEW n, NEW size \in Int,
           SendThenClose(DisconnectFrame(code, n), size)
    PROVE  /\ wire' \in Seq(WireFrames)
           /\ transport' \in {"open", "closing", "lost", "reset"}
           /\ paused' \in BOOLEAN
           /\ errors' \subseteq ErrorClasses
           /\ aborting' \in BOOLEAN
           /\ cancel' \in [Ids -> BOOLEAN]
           /\ pc' \in BodyPcs \union ExitPcs
<1>1. PICK r \in SendOutcomes :
        /\ SendFrame(DisconnectFrame(code, n), size, r)
        /\ \/ r \in {"sent", "skipped"} /\ RaiseInBody("Close")
           \/ r \in {"TooBig", "Conn"} /\ RaiseInBody(r)
           \/ r = "drain" /\ pc' = "bye_drain" /\ UNCHANGED groupVars
  BY DEF SendThenClose
<1>2. /\ wire' \in Seq(WireFrames)
      /\ transport' \in {"open", "closing", "lost", "reset"}
      /\ paused' \in BOOLEAN
  <2>1. "AGENT_DISCONNECT" \in FrameTypes /\ 0 \in 0 .. MaxFrames
    BY HandlerAssumption DEF FrameTypes
  <2>2. SendFrame([type |-> "AGENT_DISCONNECT", id |-> 0, code |-> code,
                   len |-> DisconnectLen(n)], size, r)
    BY <1>1 DEF DisconnectFrame
  <2>. QED BY <2>1, <2>2, SendFrameType
<1>3. CASE RaiseInBody("Close")
  BY <1>2, <1>3, RaiseType DEF ErrorClasses
<1>4. CASE r \in {"TooBig", "Conn"} /\ RaiseInBody(r)
  BY <1>2, <1>4, RaiseType DEF ErrorClasses, TaskErrors
<1>5. CASE pc' = "bye_drain" /\ UNCHANGED groupVars
  BY <1>2, <1>5 DEF groupVars, TypeOK, BodyPcs, ErrorClasses
<1>. QED BY <1>1, <1>3, <1>4, <1>5

\* The decoder leaves a well-typed inbox and touches nothing else of HAProxy's side.
LEMMA DecodedType ==
    ASSUME TypeOK, NEW kind, Decoded(kind)
    PROVE  /\ inbox' \in Seq(ReceivedFrames)
           /\ UNCHANGED <<hello, nSent, eof, peer>>
           /\ Head(inbox) \in ReceivedFrames
  BY DEF Decoded, TypeOK

\* A finished task keeps the task variables well typed.
LEMMA EndTaskType ==
    ASSUME TypeOK, NEW id \in Ids, NEW res \in Results, EndTask(id, res)
    PROVE  /\ task' \in [Ids -> TaskStates]
           /\ result' \in [Ids -> Results]
           /\ slots' \in Nat
  BY DEF TypeOK, EndTask, TaskStates

LEMMA SendAckType ==
    ASSUME TypeOK, NEW id \in Ids, NEW actions, SendAck(id, AckFrame(id, actions))
    PROVE  /\ wire' \in Seq(WireFrames)
           /\ transport' \in {"open", "closing", "lost", "reset"}
           /\ paused' \in BOOLEAN
           /\ task' \in [Ids -> TaskStates]
           /\ result' \in [Ids -> Results]
           /\ slots' \in Nat
<1>1. PICK r \in SendOutcomes :
        /\ SendFrame(AckFrame(id, actions), config.size, r)
        /\ \/ r \in {"sent", "skipped"} /\ EndTask(id, "ok")
           \/ r \in {"TooBig", "Conn"} /\ EndTask(id, r)
           \/ /\ r = "drain"
              /\ task' = [task EXCEPT ![id] = "draining"]
              /\ UNCHANGED <<result, slots>>
  BY DEF SendAck
<1>2. /\ wire' \in Seq(WireFrames)
      /\ transport' \in {"open", "closing", "lost", "reset"}
      /\ paused' \in BOOLEAN
  <2>1. config.size \in Int /\ id \in 0 .. MaxFrames
    BY HandlerAssumption DEF TypeOK, Configurations, Ids
  <2>. QED BY <1>1, <2>1, SendFrameType DEF AckFrame, FrameTypes, Codes
<1>3. CASE EndTask(id, "ok")
  BY <1>2, <1>3, EndTaskType DEF Results
<1>4. CASE r \in {"TooBig", "Conn"} /\ EndTask(id, r)
  BY <1>2, <1>4, EndTaskType DEF Results, TaskErrors
<1>5. CASE task' = [task EXCEPT ![id] = "draining"] /\ UNCHANGED <<result, slots>>
  BY <1>2, <1>5 DEF TypeOK, TaskStates
<1>. QED BY <1>1, <1>3, <1>4, <1>5

LEMMA AfterHelloType ==
    ASSUME TypeOK, NEW sent, NEW agreed, AfterHello(sent, agreed)
    PROVE  /\ errors' \subseteq ErrorClasses
           /\ aborting' \in BOOLEAN
           /\ cancel' \in [Ids -> BOOLEAN]
           /\ pc' \in BodyPcs \union ExitPcs
           /\ slots' \in Nat
<1>1. CASE StartReading(agreed)
  BY <1>1, LimitType DEF StartReading, groupVars, TypeOK, ErrorClasses, BodyPcs
<1>2. CASE RaiseInBody("Close") /\ UNCHANGED slots
  BY <1>2, RaiseType DEF ErrorClasses, TypeOK
<1>. QED BY <1>1, <1>2 DEF AfterHello

\* A disconnect sent from an except* clause.
LEMMA ReportErrorType ==
    ASSUME TypeOK, NEW code \in Codes, NEW n, NEW waiting \in ExitPcs, NEW next \in ExitPcs,
           ReportError(code, n, waiting, next)
    PROVE  /\ wire' \in Seq(WireFrames)
           /\ transport' \in {"open", "closing", "lost", "reset"}
           /\ paused' \in BOOLEAN
           /\ escaped' \subseteq {"TooBig", "Conn"}
           /\ pc' \in ExitPcs
<1>1. PICK r \in SendOutcomes :
        /\ SendFrame(DisconnectFrame(code, Truncated(n)), config.size, r)
        /\ escaped' = escaped \union ({r} \cap {"TooBig", "Conn"})
        /\ pc' = IF r = "drain" THEN waiting ELSE next
  BY DEF ReportError
<1>2. config.size \in Int /\ 0 \in 0 .. MaxFrames
  BY HandlerAssumption DEF TypeOK, Configurations
<1>3. /\ wire' \in Seq(WireFrames)
      /\ transport' \in {"open", "closing", "lost", "reset"}
      /\ paused' \in BOOLEAN
  BY <1>1, <1>2, SendFrameType DEF DisconnectFrame, FrameTypes
<1>. QED BY <1>1, <1>3 DEF TypeOK

LEMMA TypeInit == Init => TypeOK
<1> SUFFICES ASSUME Init PROVE TypeOK
  OBVIOUS
<1>1. config \in Configurations
  BY HandlerAssumption DEF Init, InitFor, InitialConfig, Configurations
<1>2. nSent \in 0 .. MaxFrames /\ slots \in Nat
  BY HandlerAssumption DEF Init, InitFor
<1>3. inbox \in Seq(ReceivedFrames) /\ wire \in Seq(WireFrames)
  BY DEF Init, InitFor
<1>4. /\ task \in [Ids -> TaskStates]
      /\ result \in [Ids -> Results]
      /\ cancel \in [Ids -> BOOLEAN]
  BY DEF Init, InitFor, TaskStates, Results
<1>. QED BY <1>1, <1>2, <1>3, <1>4 DEF Init, InitFor, TypeOK, BodyPcs

LEMMA TypeConnection == TypeOK /\ ConnectionStep => TypeOK'
<1> SUFFICES ASSUME TypeOK, ConnectionStep PROVE TypeOK'
  OBVIOUS
<1> USE DEF peerVars, linkVars, taskVars
<1>1. CASE ReceiveHello
  <2> DEFINE agreed == Negotiate(config, hello)
  <2>1. Decoded("HAPROXY_HELLO") /\ config' = agreed /\ UNCHANGED <<task, result, escaped>>
    BY <1>1 DEF ReceiveHello
  <2>2. agreed \in Configurations /\ agreed.size \in Int
    BY NegotiateType DEF Configurations
  <2> HIDE DEF agreed
  <2>3. CASE SendAgentHello(agreed)
    <3>1. PICK r \in SendOutcomes :
            /\ SendFrame(AgentHelloFrame(agreed.size, agreed.caps), agreed.size, r)
            /\ \/ r = "sent" /\ AfterHello(TRUE, agreed)
               \/ r = "skipped" /\ AfterHello(FALSE, agreed)
               \/ r \in {"TooBig", "Conn"} /\ RaiseInBody(r) /\ UNCHANGED slots
               \/ r = "drain" /\ pc' = "hello_drain" /\ UNCHANGED <<groupVars, slots>>
      BY <2>3 DEF SendAgentHello
    <3>2. /\ wire' \in Seq(WireFrames)
          /\ transport' \in {"open", "closing", "lost", "reset"}
          /\ paused' \in BOOLEAN
      <4>1. 0 \in 0 .. MaxFrames
        BY HandlerAssumption
      <4>. QED BY <3>1, <2>2, <4>1, SendFrameType DEF AgentHelloFrame, FrameTypes, Codes
    <3>3. /\ errors' \subseteq ErrorClasses
          /\ aborting' \in BOOLEAN
          /\ cancel' \in [Ids -> BOOLEAN]
          /\ pc' \in BodyPcs \union ExitPcs
          /\ slots' \in Nat
      <4>1. CASE r \in {"TooBig", "Conn"} /\ RaiseInBody(r) /\ UNCHANGED slots
        BY <4>1, RaiseType DEF ErrorClasses, TaskErrors, TypeOK
      <4>2. CASE pc' = "hello_drain" /\ UNCHANGED <<groupVars, slots>>
        BY <4>2 DEF groupVars, TypeOK, BodyPcs, ErrorClasses
      <4>3. CASE AfterHello(TRUE, agreed) \/ AfterHello(FALSE, agreed)
        BY <4>3, AfterHelloType
      <4>. QED BY <3>1, <4>1, <4>2, <4>3
    <3>. QED BY <2>1, <2>2, <3>2, <3>3, DecodedType DEF TypeOK, ErrorClasses
  <2>4. CASE SendThenClose(DisconnectFrame("SERVER_INCOMPATIBLE", IncompatibleTextLen),
                           agreed.size) /\ UNCHANGED slots
    <3>1. "SERVER_INCOMPATIBLE" \in Codes
      BY DEF Codes
    <3>. QED BY <2>1, <2>2, <2>4, <3>1, SendThenCloseType, DecodedType DEF TypeOK, ErrorClasses
  <2>. QED BY <1>1, <2>3, <2>4 DEF ReceiveHello, agreed
<1>2. CASE RefuseFirstFrame \/ ReadDisconnect \/ ReadUnexpected
  <2>1. ASSUME NEW kind, NEW code \in Codes, NEW n,
               Decoded(kind),
               SendThenClose(DisconnectFrame(code, n), config.size),
               UNCHANGED <<config, taskVars, escaped>>
        PROVE  TypeOK'
    <3>1. config.size \in Int
      BY DEF TypeOK, Configurations
    <3>. QED BY <2>1, <3>1, SendThenCloseType, DecodedType DEF TypeOK, ErrorClasses
  <2>2. "INVALID_FRAME_RECEIVED" \in Codes /\ "NORMAL" \in Codes
    BY DEF Codes
  <2>3. CASE RefuseFirstFrame
    <3>1. PICK kind : Decoded(kind)
      BY <2>3 DEF RefuseFirstFrame
    <3>. QED BY <2>1, <2>2, <2>3, <3>1, Zenon DEF RefuseFirstFrame
  <2>4. CASE ReadDisconnect
    BY <2>1, <2>2, <2>4, Zenon DEF ReadDisconnect
  <2>5. CASE ReadUnexpected
    <3>1. PICK kind : Decoded(kind)
      BY <2>5 DEF ReadUnexpected
    <3>. QED BY <2>1, <2>2, <2>5, <3>1, Zenon DEF ReadUnexpected
  <2>. QED BY <1>2, <2>3, <2>4, <2>5
<1>3. CASE EofInHandshake \/ ReadEof \/ FinishBye
  <2>1. PICK e \in ErrorClasses :
          RaiseInBody(e) /\ UNCHANGED <<peerVars, linkVars, config, taskVars, escaped>>
    BY <1>3 DEF EofInHandshake, ReadEof, FinishBye, ErrorClasses, TaskErrors
  <2>. QED BY <2>1, RaiseType DEF TypeOK, ErrorClasses
<1>4. CASE FinishHello
  <2>1. UNCHANGED <<peerVars, linkVars, config, task, result, escaped>>
    BY <1>4 DEF FinishHello
  <2>2. CASE AfterHello(TRUE, config)
    BY <2>1, <2>2, AfterHelloType DEF TypeOK, ErrorClasses
  <2>3. CASE RaiseInBody("Conn") /\ UNCHANGED slots
    BY <2>1, <2>3, RaiseType DEF TypeOK, ErrorClasses, TaskErrors
  <2>. QED BY <1>4, <2>2, <2>3 DEF FinishHello
<1>5. CASE DecodeRaises
  <2>1. UNCHANGED <<linkVars, config, taskVars, escaped>>
    BY <1>5 DEF DecodeRaises
  <2>2. CASE \E kind \in DOMAIN DecodeErrors : Decoded(kind) /\ RaiseInBody(DecodeErrors[kind])
    <3>1. PICK kind \in DOMAIN DecodeErrors : Decoded(kind) /\ RaiseInBody(DecodeErrors[kind])
      BY <2>2
    <3>2. DecodeErrors[kind] \in ErrorClasses
      BY DEF DecodeErrors, ErrorClasses, TaskErrors, SpoeErrors
    <3>. QED BY <2>1, <3>1, <3>2, RaiseType, DecodedType DEF TypeOK, ErrorClasses
  <2>3. CASE RaiseInBody("Conn") /\ UNCHANGED peerVars
    BY <2>1, <2>3, RaiseType DEF TypeOK, ErrorClasses, TaskErrors
  <2>. QED BY <1>5, <2>2, <2>3 DEF DecodeRaises
<1>6. CASE Acquire
  BY <1>6 DEF Acquire, TypeOK, groupVars, BodyPcs
<1>7. CASE ReadNotify
  BY <1>7, DecodedType DEF ReadNotify, TypeOK, groupVars, BodyPcs, TaskStates
<1>8. CASE LeaveGroup
  BY <1>8 DEF LeaveGroup, FirstClause, TypeOK, groupVars, ExitPcs
<1>9. CASE HandleTooBig \/ HandleSpoe
  <2>1. ASSUME NEW code \in Codes, NEW n, NEW waiting \in ExitPcs, NEW next \in ExitPcs,
               ReportError(code, n, waiting, next),
               UNCHANGED <<peerVars, config, taskVars, groupVars>>
        PROVE  TypeOK'
    BY <2>1, ReportErrorType DEF TypeOK, groupVars
  <2>2. CASE HandleTooBig
    <3>1. AfterTooBig \in ExitPcs /\ "toobig_drain" \in ExitPcs /\ "FRAME_TOO_BIG" \in Codes
      BY DEF AfterTooBig, ExitPcs, Codes
    <3>. QED BY <2>1, <2>2, <3>1, Zenon DEF HandleTooBig
  <2>3. CASE HandleSpoe
    <3>1. "unwind" \in ExitPcs /\ "spoe_drain" \in ExitPcs /\ "PROTOCOL_ERROR" \in Codes
      BY DEF ExitPcs, Codes
    <3>. QED BY <2>1, <2>3, <3>1, Zenon DEF HandleSpoe
  <2>. QED BY <1>9, <2>2, <2>3
<1>10. CASE FinishReport
  BY <1>10 DEF FinishReport, AfterTooBig, TypeOK, groupVars, ExitPcs
<1>11. CASE CloseConnection \/ WaitClosed \/ Escape
  BY <1>11 DEF CloseConnection, WaitClosed, Escape, CloseTransport, TypeOK, groupVars, ExitPcs
<1>. QED
  BY <1>1, <1>2, <1>3, <1>4, <1>5, <1>6, <1>7, <1>8, <1>9, <1>10, <1>11 DEF ConnectionStep

LEMMA TypeTasks == ASSUME TypeOK, NEW id \in Ids, TaskStep(id) \/ HandlerStep(id) PROVE TypeOK'
<1> USE DEF peerVars, linkVars, taskVars, groupVars
<1>1. CASE StartTask(id)
  BY <1>1 DEF StartTask, TypeOK, TaskStates
<1>2. CASE CancelTask(id)
  <2>1. CASE EndTask(id, "cancelled")
    BY <1>2, <2>1, EndTaskType DEF CancelTask, TypeOK, Results
  <2>2. CASE ~EndTask(id, "cancelled")
    BY <1>2, <2>2 DEF CancelTask, TypeOK, Results, TaskStates
  <2>. QED BY <2>1, <2>2
<1>3. CASE FinishAck(id)
  <2>1. PICK res \in Results :
          EndTask(id, res) /\ UNCHANGED <<peerVars, linkVars, pc, config, groupVars, escaped>>
    BY <1>3 DEF FinishAck, Results, TaskErrors
  <2>. QED BY <2>1, EndTaskType DEF TypeOK
<1>4. CASE ReapTask(id)
  <2>1. errors' \subseteq ErrorClasses
    BY <1>4 DEF ReapTask, TypeOK, ErrorClasses
  <2>2. CASE Abort /\ pc' = "join"
    BY <1>4, <2>1, <2>2 DEF ReapTask, Abort, TypeOK, ErrorClasses, ExitPcs, TaskStates
  <2>3. CASE UNCHANGED <<aborting, cancel, pc>>
    BY <1>4, <2>1, <2>3 DEF ReapTask, TypeOK, ErrorClasses, TaskStates
  <2>. QED BY <1>4, <2>2, <2>3 DEF ReapTask
<1>5. CASE HandlerReturns(id)
  <2>1. UNCHANGED <<peerVars, pc, config, groupVars, escaped>>
    BY <1>5 DEF HandlerReturns
  <2>2. CASE \E actions : SendAck(id, AckFrame(id, actions))
    BY <2>1, <2>2, SendAckType DEF TypeOK
  <2>3. CASE \E res \in Results : EndTask(id, res) /\ UNCHANGED linkVars
    BY <2>1, <2>3, EndTaskType DEF TypeOK
  <2>. QED BY <1>5, <2>2, <2>3 DEF HandlerReturns, SendReply, Results, TaskErrors
<1>6. CASE HandlerCancels(id)
  BY <1>6, EndTaskType DEF HandlerCancels, TypeOK, Results
<1>. QED BY <1>1, <1>2, <1>3, <1>4, <1>5, <1>6 DEF TaskStep, HandlerStep

LEMMA TypeEnvironment == TypeOK /\ (TransportStep \/ PeerStep) => TypeOK'
<1> SUFFICES ASSUME TypeOK, TransportStep \/ PeerStep PROVE TypeOK'
  OBVIOUS
<1> USE DEF peerVars, linkVars, taskVars, groupVars
<1>1. CASE PeerSend
  <2>1. PICK kind \in PeerFrames : inbox' = Append(inbox, [kind |-> kind, id |-> nSent + 1])
    BY <1>1 DEF PeerSend
  <2>2. [kind |-> kind, id |-> nSent + 1] \in ReceivedFrames
    BY <1>1, HandlerAssumption DEF PeerSend, TypeOK, ReceivedFrames
  <2>3. inbox' \in Seq(ReceivedFrames)
    BY <2>1, <2>2 DEF TypeOK
  <2>4. nSent' \in 0 .. MaxFrames
    BY <1>1, HandlerAssumption DEF PeerSend, TypeOK
  <2>. QED BY <1>1, <2>3, <2>4 DEF PeerSend, TypeOK
<1>2. CASE PeerEof
  <2> DEFINE cut == [kind |-> "TRUNCATED", id |-> nSent + 1]
  <2>1. cut \in ReceivedFrames
    BY HandlerAssumption DEF TypeOK, ReceivedFrames
  <2>2. inbox' = inbox \/ inbox' = Append(inbox, cut)
    BY <1>2 DEF PeerEof
  <2> HIDE DEF cut
  <2>3. inbox' \in Seq(ReceivedFrames)
    BY <2>1, <2>2 DEF TypeOK
  <2>. QED BY <1>2, <2>3 DEF PeerEof, TypeOK
<1>3. CASE PeerReset \/ PeerReads \/ TransportStep
  BY <1>3 DEF PeerReset, PeerReads, TransportStep, NoticeReset, NoticeTlsEof, FinishClose, TypeOK
<1>. QED BY <1>1, <1>2, <1>3 DEF PeerStep

\* Every variable keeps its type: whatever HAProxy sends and however the tasks
\* interleave, core_handler is in no state the code has no name for, and the
\* semaphore never goes below zero.
THEOREM TypeCorrect == Spec => []TypeOK
<1>1. TypeOK /\ [Next]_vars => TypeOK'
  <2>1. TypeOK /\ UNCHANGED vars => TypeOK'
    BY DEF vars, peerVars, linkVars, taskVars, groupVars, TypeOK
  <2>. QED BY <2>1, TypeConnection, TypeTasks, TypeEnvironment DEF Next
<1>. QED BY <1>1, TypeInit, PTL DEF Spec

-----------------------------------------------------------------------------
(* Counting the live tasks *)

LEMMA LiveFinite == IsFiniteSet(Live) /\ Cardinality(Live) \in Nat
<1>1. IsFiniteSet(Ids)
  BY FS_Interval, HandlerAssumption DEF Ids
<1>2. Live \in SUBSET Ids
  BY DEF Live
<1>. QED BY <1>1, <1>2, FS_Subset, FS_CardinalityType

LEMMA LimitPositive == \A agreed : ConcurrencyLimit(agreed) \in Nat \ {0}
  BY HandlerAssumption DEF ConcurrencyLimit

\* A NOTIFY that is dispatched adds one live task.
LEMMA LiveGrows ==
    ASSUME TypeOK, NEW id \in Ids, task[id] = "none",
           task' = [task EXCEPT ![id] = "created"]
    PROVE  Cardinality(Live)' = Cardinality(Live) + 1
<1>1. Live' = Live \cup {id} /\ id \notin Live
  BY DEF Live, TypeOK
<1>. QED BY <1>1, LiveFinite, FS_AddElement

\* A live task that ends leaves one fewer.
LEMMA LiveShrinks ==
    ASSUME TypeOK, NEW id \in Live, task' = [task EXCEPT ![id] = "ended"]
    PROVE  Cardinality(Live)' = Cardinality(Live) - 1
<1>1. Live' = Live \ {id} /\ id \in Live
  BY DEF Live, TypeOK
<1>. QED BY <1>1, LiveFinite, FS_RemoveElement

\* Nothing else dispatches.
LEMMA LiveBounded ==
    ASSUME Live' \subseteq Live
    PROVE  Cardinality(Live)' <= Cardinality(Live)
<1>1. Live' \in SUBSET Live
  OBVIOUS
<1>. QED BY <1>1, LiveFinite, FS_Subset

-----------------------------------------------------------------------------
(* Steps that leave the tasks alone *)

\* The ACKs on the wire are the same, at the same places.
SameAcks ==
    /\ Positions("ACK")' = Positions("ACK")
    /\ \A i \in Positions("ACK") : wire'[i].id = wire[i].id

\* Sending any frame but an ACK.
LEMMA QuietSend ==
    ASSUME TypeOK, NEW frame, NEW size, NEW r, SendFrame(frame, size, r),
           frame.type # "ACK"
    PROVE  SameAcks
<1>1. CASE wire' = wire
  BY <1>1 DEF SameAcks, Positions
<1>2. CASE wire' = Append(wire, frame)
  <2>1. wire \in Seq(WireFrames)
    BY DEF TypeOK
  <2>2. /\ Len(wire') = Len(wire) + 1 /\ Len(wire) \in Nat
        /\ \A i \in 1 .. Len(wire) : wire'[i] = wire[i]
        /\ wire'[Len(wire) + 1] = frame
        /\ DOMAIN wire = 1 .. Len(wire) /\ DOMAIN wire' = 1 .. Len(wire) + 1
    BY <1>2, <2>1
  <2>. QED BY <2>2 DEF SameAcks, Positions
<1>. QED BY <1>1, <1>2 DEF SendFrame, linkVars

\* The order of dispatch survives a step that at most consumes a frame.
LEMMA OrderKept ==
    ASSUME TypeOK, DispatchOrder,
           UNCHANGED <<task, nSent, eof>>,
           \/ inbox' = inbox
           \/ inbox # <<>> /\ inbox' = Tail(inbox),
           pc' \in {"handshake", "hello_drain"} => pc \in {"handshake", "hello_drain"}
    PROVE  DispatchOrder'
<1>1. CASE inbox' = inbox
  BY <1>1 DEF DispatchOrder
<1>2. CASE inbox # <<>> /\ inbox' = Tail(inbox)
  <2>1. inbox \in Seq(ReceivedFrames)
    BY DEF TypeOK
  <2>2. \A p \in DOMAIN inbox' : p \in Nat /\ p + 1 \in DOMAIN inbox /\ inbox'[p] = inbox[p + 1]
    BY <1>2, <2>1
  <2>3. ASSUME NEW p \in DOMAIN inbox'
        PROVE  /\ inbox'[p].id <= nSent \/ (inbox'[p].kind = "TRUNCATED" /\ eof)
               /\ \A q \in DOMAIN inbox' : p < q => inbox'[p].id < inbox'[q].id
               /\ \A i \in Ids : i >= inbox'[p].id => task[i] = "none"
    <3>1. p + 1 \in DOMAIN inbox /\ inbox'[p] = inbox[p + 1]
      BY <2>2
    <3>2. ASSUME NEW q \in DOMAIN inbox', p < q PROVE inbox'[p].id < inbox'[q].id
      <4>1. q + 1 \in DOMAIN inbox /\ inbox'[q] = inbox[q + 1] /\ p + 1 < q + 1
        BY <2>2, <3>2
      <4>. QED BY <3>1, <4>1 DEF DispatchOrder
    <3>. QED BY <3>1, <3>2 DEF DispatchOrder
  <2>. QED BY <2>3 DEF DispatchOrder
<1>. QED BY <1>1, <1>2

\* What the tasks have written survives a step that leaves them and their ACKs
\* alone, even if the configuration is negotiated before any task exists.
LEMMA TasksKept ==
    ASSUME TypeOK, ConnectionInv, UNCHANGED task, SameAcks,
           config' = config \/ \A i \in Ids : task[i] = "none"
    PROVE  AckFacts' /\ InFlightBound' /\ SerialWithoutPipelining'
<1>1. Live' = Live
  BY DEF Live
<1>2. AckFacts'
  BY DEF ConnectionInv, AckFacts, SameAcks
<1>3. CASE config' = config
  <2>1. InFlightBound'
    BY <1>1, <1>3 DEF ConnectionInv, InFlightBound, ConcurrencyLimit
  <2>2. SerialWithoutPipelining'
    BY <1>1, <1>3 DEF ConnectionInv, SerialWithoutPipelining, SameAcks
  <2>. QED BY <1>2, <2>1, <2>2
<1>4. CASE \A i \in Ids : task[i] = "none"
  <2>1. Live = {} /\ Positions("ACK") = {}
    BY <1>4 DEF Live, ConnectionInv, AckFacts
  <2>2. Cardinality(Live)' = 0 /\ ConcurrencyLimit(config)' \in Nat
    BY <1>1, <2>1, FS_EmptySet, LimitPositive
  <2>3. InFlightBound'
    BY <2>2 DEF InFlightBound
  <2>4. SerialWithoutPipelining'
    BY <1>1, <1>4, <2>1 DEF SerialWithoutPipelining, SameAcks
  <2>. QED BY <1>2, <2>3, <2>4
<1>. QED BY <1>3, <1>4

-----------------------------------------------------------------------------
(* Steps of a task *)

\* The order of dispatch and the bound survive a step that moves one
\* dispatched task on.
LEMMA MoveKept ==
    ASSUME TypeOK, ConnectionInv, NEW id \in Ids, NEW s \in TaskStates \ {"none"},
           task[id] # "none", task' = [task EXCEPT ![id] = s],
           UNCHANGED <<nSent, eof, inbox, config>>,
           s \in {"created", "running", "draining"} => id \in Live,
           pc' = pc \/ pc' = "join"
    PROVE  /\ DispatchOrder'
           /\ InFlightBound'
           /\ Live' \subseteq Live
           /\ \A i \in Ids : task'[i] = "none" <=> task[i] = "none"
<1>1. \A i \in Ids : task'[i] = "none" <=> task[i] = "none"
  BY DEF TypeOK
<1>2. Live' \subseteq Live
  BY DEF TypeOK, Live
<1>3. DispatchOrder'
  BY <1>1 DEF ConnectionInv, DispatchOrder
<1>4. InFlightBound'
  <2>1. Cardinality(Live)' <= Cardinality(Live)
    BY <1>2, LiveBounded
  <2>2. Cardinality(Live)' \in Nat /\ Cardinality(Live) \in Nat
    <3>1. Live' \in SUBSET Live
      BY <1>2
    <3>. QED BY <3>1, LiveFinite, FS_Subset, FS_CardinalityType
  <2>3. ConcurrencyLimit(config)' = ConcurrencyLimit(config) /\ ConcurrencyLimit(config) \in Nat
    BY LimitPositive DEF ConcurrencyLimit
  <2>. QED BY <2>1, <2>2, <2>3 DEF ConnectionInv, InFlightBound
<1>. QED BY <1>1, <1>2, <1>3, <1>4

\* A task moves on without writing.
LEMMA QuietMove ==
    ASSUME TypeOK, ConnectionInv, NEW id \in Ids, NEW s \in TaskStates \ {"none"},
           task[id] # "none", task' = [task EXCEPT ![id] = s],
           UNCHANGED <<nSent, eof, inbox, config>>,
           s \in {"created", "running", "draining"} => id \in Live,
           pc' = pc \/ pc' = "join",
           wire' = wire,
           s = "running" => task[id] \in {"created", "running"},
           s # "created"
    PROVE  DispatchOrder' /\ InFlightBound' /\ AckFacts' /\ SerialWithoutPipelining'
<1>1. /\ DispatchOrder' /\ InFlightBound'
      /\ Live' \subseteq Live
      /\ \A i \in Ids : task'[i] = "none" <=> task[i] = "none"
  BY MoveKept
<1>2. Positions("ACK")' = Positions("ACK")
  BY DEF Positions
<1>3. AckFacts'
  BY <1>2 DEF ConnectionInv, AckFacts, TypeOK
<1>4. SerialWithoutPipelining'
  BY <1>1, <1>2 DEF ConnectionInv, SerialWithoutPipelining
<1>. QED BY <1>1, <1>3, <1>4

\* A running task moves on and writes its ACK: it has written none before, and
\* in a serial connection every ACK so far answers an earlier NOTIFY.
LEMMA AckMove ==
    ASSUME TypeOK, ConnectionInv, NEW id \in Ids, NEW s \in {"draining", "ended"},
           task[id] = "running", task' = [task EXCEPT ![id] = s],
           UNCHANGED <<nSent, eof, inbox, config, pc>>,
           NEW actions, wire' = Append(wire, AckFrame(id, actions))
    PROVE  DispatchOrder' /\ InFlightBound' /\ AckFacts' /\ SerialWithoutPipelining'
<1>0. id \in Live /\ s \in TaskStates \ {"none"}
  BY DEF Live, TaskStates
<1>1. /\ DispatchOrder' /\ InFlightBound'
      /\ Live' \subseteq Live
      /\ \A i \in Ids : task'[i] = "none" <=> task[i] = "none"
  BY <1>0, MoveKept
<1> DEFINE last == Len(wire) + 1
<1>2. /\ Positions("ACK")' = Positions("ACK") \cup {last}
      /\ \A i \in Positions("ACK") : wire'[i] = wire[i] /\ i < last /\ i \in Nat
      /\ wire'[last].id = id /\ last \in Nat
  <2> DEFINE frame == AckFrame(id, actions)
  <2>1. frame.type = "ACK" /\ frame.id = id
    BY DEF AckFrame
  <2>2. wire \in Seq(WireFrames) /\ wire' = Append(wire, frame)
    BY DEF TypeOK
  <2> HIDE DEF frame
  <2>3. /\ Len(wire') = Len(wire) + 1 /\ Len(wire) \in Nat
        /\ \A i \in 1 .. Len(wire) : wire'[i] = wire[i]
        /\ wire'[last] = frame
        /\ DOMAIN wire = 1 .. Len(wire) /\ DOMAIN wire' = 1 .. last
    BY <2>2
  <2>. QED BY <2>1, <2>3 DEF Positions
<1> HIDE DEF last
<1>3. \A i \in Positions("ACK") : wire[i].id \in Ids /\ wire[i].id # id /\ task[wire[i].id] # "none"
  BY DEF ConnectionInv, AckFacts
<1>4. AckFacts'
  <2>1. ASSUME NEW i \in Positions("ACK")'
        PROVE  wire'[i].id \in Ids /\ task'[wire'[i].id] \notin {"none", "created", "running"}
    <3>1. CASE i = last
      <4>1. task'[id] = s
        BY DEF TypeOK
      <4>2. wire'[i].id = id
        BY <1>2, <3>1
      <4>. QED BY <4>1, <4>2
    <3>2. CASE i \in Positions("ACK")
      BY <1>2, <1>3, <3>2 DEF ConnectionInv, AckFacts, TypeOK
    <3>. QED BY <1>2, <3>1, <3>2
  <2>2. ASSUME NEW i \in Positions("ACK")', NEW j \in Positions("ACK")', i # j
        PROVE  wire'[i].id # wire'[j].id
    <3>1. CASE i = last \/ j = last
      BY <1>2, <1>3, <2>2, <3>1
    <3>2. CASE i # last /\ j # last
      <4>1. i \in Positions("ACK") /\ j \in Positions("ACK")
        BY <1>2, <3>2
      <4>. QED BY <1>2, <2>2, <4>1 DEF ConnectionInv, AckFacts
    <3>. QED BY <3>1, <3>2
  <2>. QED BY <2>1, <2>2 DEF AckFacts
<1>5. SerialWithoutPipelining'
  <2>1. SUFFICES ASSUME "pipelining" \notin config.caps
                 PROVE  /\ \A i, j \in Ids : i < j /\ task'[j] # "none" => i \notin Live'
                        /\ \A i, j \in Positions("ACK")' : i < j => wire'[i].id < wire'[j].id
    BY DEF SerialWithoutPipelining
  <2>2. \A i, j \in Ids : i < j /\ task'[j] # "none" => i \notin Live'
    BY <1>1, <2>1 DEF ConnectionInv, SerialWithoutPipelining
  <2>3. \A i \in Positions("ACK") : wire[i].id < id
    BY <1>0, <1>3, <2>1 DEF ConnectionInv, SerialWithoutPipelining, Ids
  <2>4. ASSUME NEW i \in Positions("ACK")', NEW j \in Positions("ACK")', i < j
        PROVE  wire'[i].id < wire'[j].id
    <3>1. CASE j = last
      <4>1. i \in Positions("ACK")
        BY <1>2, <2>4, <3>1
      <4>2. wire'[i].id = wire[i].id /\ wire'[j].id = id
        BY <1>2, <3>1, <4>1
      <4>. QED BY <2>3, <4>1, <4>2
    <3>2. CASE j \in Positions("ACK")
      <4>1. i \in Positions("ACK")
        BY <1>2, <2>4, <3>2
      <4>. QED BY <1>2, <2>1, <2>4, <3>2, <4>1 DEF ConnectionInv, SerialWithoutPipelining
    <3>. QED BY <1>2, <3>1, <3>2
  <2>. QED BY <2>2, <2>4
<1>. QED BY <1>1, <1>4, <1>5

\* A coroutine that finishes gives its slot back.
LEMMA EndSlots ==
    ASSUME TypeOK, SlotAccounting, NEW id \in Live, NEW res, EndTask(id, res),
           UNCHANGED <<pc, config>>
    PROVE  SlotAccounting'
<1>1. Cardinality(Live)' = Cardinality(Live) - 1 /\ Cardinality(Live) \in Nat
  BY LiveShrinks, LiveFinite DEF EndTask
<1>2. slots' = slots + 1 /\ slots \in Nat
  BY DEF EndTask, TypeOK
<1>3. ConcurrencyLimit(config)' = ConcurrencyLimit(config)
  BY DEF ConcurrencyLimit
<1>. QED BY <1>1, <1>2, <1>3 DEF SlotAccounting

\* A coroutine finishes without writing.
LEMMA EndKept ==
    ASSUME TypeOK, ConnectionInv, NEW id \in Live, NEW res, EndTask(id, res),
           UNCHANGED <<peerVars, wire, pc, config, aborting>>,
           cancel' = cancel \/ cancel' = [cancel EXCEPT ![id] = FALSE]
    PROVE  ConnectionInv'
<1>1. id \in Ids /\ task[id] # "none" /\ "ended" \in TaskStates \ {"none"}
  BY DEF Live, TaskStates
<1>2. DispatchOrder' /\ InFlightBound' /\ AckFacts' /\ SerialWithoutPipelining'
  BY <1>1, QuietMove DEF EndTask, peerVars
<1>3. SlotAccounting'
  BY EndSlots DEF ConnectionInv
<1>4. AbortFacts'
  BY DEF ConnectionInv, AbortFacts, TypeOK
<1>. QED BY <1>2, <1>3, <1>4 DEF ConnectionInv

\* A running task sends its ACK, whole or salvaged, whatever comes of it.
LEMMA AckKept ==
    ASSUME TypeOK, ConnectionInv, NEW id \in Ids, task[id] = "running", NEW actions,
           SendAck(id, AckFrame(id, actions)),
           UNCHANGED <<peerVars, pc, config, groupVars>>
    PROVE  ConnectionInv'
<1> DEFINE frame == AckFrame(id, actions)
<1>0. id \in Live
  BY DEF Live
<1>1. PICK r \in SendOutcomes :
        /\ SendFrame(frame, config.size, r)
        /\ \/ r \in {"sent", "skipped"} /\ EndTask(id, "ok")
           \/ r \in {"TooBig", "Conn"} /\ EndTask(id, r)
           \/ /\ r = "drain"
              /\ task' = [task EXCEPT ![id] = "draining"]
              /\ UNCHANGED <<result, slots>>
  BY DEF SendAck
<1>2. AbortFacts'
  BY DEF ConnectionInv, AbortFacts, groupVars
<1>3. CASE r \in {"skipped", "TooBig", "Conn"}
  <2>1. wire' = wire
    BY <1>1, <1>3 DEF SendFrame, linkVars
  <2>2. PICK res : EndTask(id, res)
    BY <1>1, <1>3
  <2>. QED BY <1>0, <2>1, <2>2, EndKept DEF groupVars
<1>4. CASE r = "sent"
  <2>1. wire' = Append(wire, frame) /\ EndTask(id, "ok")
    BY <1>1, <1>4 DEF SendFrame
  <2>2. DispatchOrder' /\ InFlightBound' /\ AckFacts' /\ SerialWithoutPipelining'
    BY <2>1, AckMove DEF EndTask, peerVars
  <2>3. SlotAccounting'
    BY <1>0, <2>1, EndSlots DEF ConnectionInv
  <2>. QED BY <1>2, <2>2, <2>3 DEF ConnectionInv
<1>5. CASE r = "drain"
  <2>1. /\ wire' = Append(wire, frame)
        /\ task' = [task EXCEPT ![id] = "draining"]
        /\ slots' = slots
    BY <1>1, <1>5 DEF SendFrame
  <2>2. DispatchOrder' /\ InFlightBound' /\ AckFacts' /\ SerialWithoutPipelining'
    BY <2>1, AckMove DEF peerVars
  <2>3. Live' = Live
    BY <1>0, <2>1 DEF Live, TypeOK
  <2>4. SlotAccounting'
    BY <2>1, <2>3 DEF ConnectionInv, SlotAccounting, ConcurrencyLimit
  <2>. QED BY <1>2, <2>2, <2>4 DEF ConnectionInv
<1>. QED BY <1>1, <1>3, <1>4, <1>5 DEF SendOutcomes

LEMMA InvTasks ==
    ASSUME TypeOK, ConnectionInv, NEW id \in Ids, TaskStep(id) \/ HandlerStep(id)
    PROVE  ConnectionInv'
<1>1. CASE StartTask(id)
  <2>1. /\ task[id] = "created" /\ task' = [task EXCEPT ![id] = "running"]
        /\ UNCHANGED <<peerVars, wire, pc, config, slots, groupVars>>
    BY <1>1 DEF StartTask, linkVars
  <2>2. id \in Live /\ "running" \in TaskStates \ {"none"}
    BY <2>1 DEF Live, TaskStates
  <2>3. DispatchOrder' /\ InFlightBound' /\ AckFacts' /\ SerialWithoutPipelining'
    BY <2>1, <2>2, QuietMove DEF peerVars
  <2>4. Live' = Live
    BY <2>1 DEF Live, TypeOK
  <2>5. SlotAccounting' /\ AbortFacts'
    BY <2>1, <2>4 DEF ConnectionInv, SlotAccounting, ConcurrencyLimit, AbortFacts, groupVars
  <2>. QED BY <2>3, <2>5 DEF ConnectionInv
<1>2. CASE CancelTask(id)
  <2>1. /\ id \in Live /\ cancel[id] /\ cancel' = [cancel EXCEPT ![id] = FALSE]
        /\ UNCHANGED <<peerVars, wire, pc, config, aborting>>
    BY <1>2 DEF CancelTask, linkVars
  <2>2. pc \in ExitPcs
    BY <2>1 DEF ConnectionInv, AbortFacts
  <2>3. SlotAccounting'
    BY <2>1, <2>2 DEF SlotAccounting, ExitPcs
  <2>4. AbortFacts'
    BY <2>1 DEF ConnectionInv, AbortFacts, TypeOK
  <2>5. CASE EndTask(id, "cancelled")
    BY <2>1, <2>5, EndKept
  <2>6. CASE task[id] = "created" /\ task' = [task EXCEPT ![id] = "ended"]
    <3>1. "ended" \in TaskStates \ {"none"}
      BY DEF TaskStates
    <3>2. DispatchOrder' /\ InFlightBound' /\ AckFacts' /\ SerialWithoutPipelining'
      BY <2>1, <2>6, <3>1, QuietMove DEF peerVars
    <3>. QED BY <2>3, <2>4, <3>2 DEF ConnectionInv
  <2>7. CASE task' = task
    <3>1. SameAcks
      BY <2>1 DEF SameAcks, Positions
    <3>2. AckFacts' /\ InFlightBound' /\ SerialWithoutPipelining'
      BY <2>1, <2>7, <3>1, TasksKept
    <3>3. DispatchOrder'
      BY <2>1, <2>7, OrderKept DEF peerVars, ConnectionInv
    <3>. QED BY <2>3, <2>4, <3>2, <3>3 DEF ConnectionInv
  <2>. QED BY <1>2, <2>5, <2>6, <2>7 DEF CancelTask, taskVars
<1>3. CASE FinishAck(id)
  <2>1. PICK res :
          EndTask(id, res) /\ UNCHANGED <<peerVars, linkVars, pc, config, groupVars>>
    BY <1>3 DEF FinishAck
  <2>2. id \in Live
    BY <1>3 DEF FinishAck, Live
  <2>. QED BY <2>1, <2>2, EndKept DEF linkVars, groupVars
<1>4. CASE ReapTask(id)
  <2>1. /\ task[id] = "ended" /\ task' = [task EXCEPT ![id] = "reaped"]
        /\ UNCHANGED <<peerVars, wire, config, slots>>
        /\ \/ UNCHANGED <<aborting, cancel, pc>>
           \/ Abort /\ pc' = "join"
    BY <1>4 DEF ReapTask, linkVars
  <2>2. "reaped" \in TaskStates \ {"none"}
    BY DEF TaskStates
  <2>3. DispatchOrder' /\ InFlightBound' /\ AckFacts' /\ SerialWithoutPipelining'
    BY <2>1, <2>2, QuietMove DEF peerVars
  <2>4. Live' = Live
    BY <2>1 DEF Live, TypeOK
  <2>5. SlotAccounting'
    BY <2>1, <2>4 DEF ConnectionInv, SlotAccounting, ConcurrencyLimit
  <2>6. AbortFacts'
    BY <2>1 DEF ConnectionInv, AbortFacts, Abort, ExitPcs
  <2>. QED BY <2>3, <2>5, <2>6 DEF ConnectionInv
<1>5. CASE HandlerReturns(id)
  <2>1. task[id] = "running" /\ UNCHANGED <<peerVars, pc, config, groupVars>>
    BY <1>5 DEF HandlerReturns
  <2>2. CASE \E actions : SendAck(id, AckFrame(id, actions))
    BY <2>1, <2>2, AckKept
  <2>3. CASE \E res : EndTask(id, res) /\ UNCHANGED linkVars
    <3>1. id \in Live
      BY <2>1 DEF Live
    <3>. QED BY <2>1, <2>3, <3>1, EndKept DEF linkVars, groupVars
  <2>. QED BY <1>5, <2>2, <2>3 DEF HandlerReturns, SendReply
<1>6. CASE HandlerCancels(id)
  <2>1. id \in Live
    BY <1>6 DEF HandlerCancels, Live
  <2>. QED BY <1>6, <2>1, EndKept DEF HandlerCancels, linkVars, groupVars
<1>. QED BY <1>1, <1>2, <1>3, <1>4, <1>5, <1>6 DEF TaskStep, HandlerStep

-----------------------------------------------------------------------------
(* Steps of core_handler *)

\* A step that dispatches nothing and writes no ACK: what remains to be shown.
LEMMA Steady ==
    ASSUME TypeOK, ConnectionInv, UNCHANGED <<task, nSent, eof>>, SameAcks,
           \/ inbox' = inbox
           \/ inbox # <<>> /\ inbox' = Tail(inbox),
           config' = config \/ \A i \in Ids : task[i] = "none",
           pc' \in {"handshake", "hello_drain"} => pc \in {"handshake", "hello_drain"},
           AbortFacts', SlotAccounting'
    PROVE  ConnectionInv'
<1>1. DispatchOrder'
  BY OrderKept DEF ConnectionInv
<1>. QED BY <1>1, TasksKept DEF ConnectionInv

LEMMA DecodedFacts ==
    ASSUME NEW kind, Decoded(kind)
    PROVE  inbox # <<>> /\ inbox' = Tail(inbox) /\ UNCHANGED <<nSent, eof>>
  BY DEF Decoded

\* Nothing is asked of the slots once the body of the group is left.
LEMMA RaiseFacts ==
    ASSUME NEW e, RaiseInBody(e)
    PROVE  AbortFacts' /\ SlotAccounting' /\ pc' = "join"
  BY DEF RaiseInBody, Abort, AbortFacts, SlotAccounting, ExitPcs

LEMMA SendThenCloseFacts ==
    ASSUME TypeOK, ConnectionInv, pc \in BodyPcs, NEW code, NEW n, NEW size,
           SendThenClose(DisconnectFrame(code, n), size)
    PROVE  AbortFacts' /\ SlotAccounting' /\ pc' \in {"join", "bye_drain"} /\ SameAcks
<1>1. PICK r \in SendOutcomes :
        /\ SendFrame(DisconnectFrame(code, n), size, r)
        /\ \/ \E e : RaiseInBody(e)
           \/ pc' = "bye_drain" /\ UNCHANGED groupVars
  BY DEF SendThenClose
<1>2. SameAcks
  <2>1. DisconnectFrame(code, n).type # "ACK"
    BY DEF DisconnectFrame
  <2>. QED BY <1>1, <2>1, QuietSend
<1>3. CASE pc' = "bye_drain" /\ UNCHANGED groupVars
  <2>1. AbortFacts'
    BY <1>3 DEF ConnectionInv, AbortFacts, groupVars, BodyPcs, ExitPcs
  <2>. QED BY <1>2, <1>3, <2>1 DEF SlotAccounting
<1>. QED BY <1>1, <1>2, <1>3, RaiseFacts

\* The frame loop starts with every slot free, for the configuration agreed on.
LEMMA AfterHelloFacts ==
    ASSUME TypeOK, ConnectionInv, pc \in {"handshake", "hello_drain"}, UNCHANGED task,
           NEW sent, AfterHello(sent, config')
    PROVE  AbortFacts' /\ SlotAccounting' /\ pc' \in {"join", "acquire"}
<1>1. CASE StartReading(config')
  <2>1. Live' = {}
    BY DEF Live, ConnectionInv, DispatchOrder
  <2>2. Cardinality(Live)' = 0
    BY <2>1, FS_EmptySet
  <2>3. slots' = ConcurrencyLimit(config') /\ ConcurrencyLimit(config') \in Nat
    BY <1>1, LimitPositive DEF StartReading
  <2>4. SlotAccounting'
    <3>1. ConcurrencyLimit(config)' = ConcurrencyLimit(config')
      BY DEF ConcurrencyLimit
    <3>. QED BY <1>1, <2>2, <2>3, <3>1 DEF StartReading, SlotAccounting
  <2>5. AbortFacts'
    BY <1>1 DEF StartReading, ConnectionInv, AbortFacts, groupVars, ExitPcs
  <2>. QED BY <1>1, <2>4, <2>5 DEF StartReading
<1>. QED BY <1>1, RaiseFacts DEF AfterHello

LEMMA InvHandshake ==
    ASSUME TypeOK, ConnectionInv, ReceiveHello \/ FinishHello
    PROVE  ConnectionInv'
<1>1. pc \in {"handshake", "hello_drain"} /\ UNCHANGED <<task, nSent, eof>>
  BY DecodedFacts DEF ReceiveHello, FinishHello, peerVars
<1>2. \A i \in Ids : task[i] = "none"
  BY <1>1 DEF ConnectionInv, DispatchOrder
<1>3. CASE ReceiveHello
  <2>1. /\ pc = "handshake" /\ Decoded("HAPROXY_HELLO")
        /\ config' = Negotiate(config, hello)
    BY <1>3 DEF ReceiveHello
  <2>2. ASSUME AbortFacts', SlotAccounting', SameAcks PROVE ConnectionInv'
    BY <1>1, <1>2, <2>1, <2>2, DecodedFacts, Steady
  <2>3. CASE SendAgentHello(config')
    <3>1. PICK r \in SendOutcomes :
            /\ SendFrame(AgentHelloFrame(config'.size, config'.caps), config'.size, r)
            /\ \/ \E sent : AfterHello(sent, config')
               \/ \E e : RaiseInBody(e)
               \/ pc' = "hello_drain" /\ UNCHANGED groupVars
      BY <2>3 DEF SendAgentHello
    <3>2. SameAcks
      <4>1. AgentHelloFrame(config'.size, config'.caps).type # "ACK"
        BY DEF AgentHelloFrame
      <4>. QED BY <3>1, <4>1, QuietSend
    <3>3. AbortFacts' /\ SlotAccounting'
      <4>1. CASE pc' = "hello_drain" /\ UNCHANGED groupVars
        BY <2>1, <4>1 DEF ConnectionInv, AbortFacts, SlotAccounting, groupVars, ExitPcs
      <4>. QED BY <1>1, <3>1, <4>1, AfterHelloFacts, RaiseFacts
    <3>. QED BY <2>2, <3>2, <3>3
  <2>4. CASE \E code, n, size : SendThenClose(DisconnectFrame(code, n), size)
    <3>1. pc \in BodyPcs
      BY <2>1 DEF BodyPcs
    <3>. QED BY <2>2, <2>4, <3>1, SendThenCloseFacts
  <2>. QED BY <1>3, <2>1, <2>3, <2>4 DEF ReceiveHello
<1>4. CASE FinishHello
  <2>1. UNCHANGED <<peerVars, linkVars, config, task>> /\ pc = "hello_drain"
    BY <1>4 DEF FinishHello
  <2>2. SameAcks
    BY <2>1 DEF SameAcks, Positions, linkVars
  <2>3. AbortFacts' /\ SlotAccounting' /\ pc' \in {"join", "acquire"}
    <3>1. (\E sent : AfterHello(sent, config')) \/ RaiseInBody("Conn")
      BY <1>4, <2>1 DEF FinishHello
    <3>. QED BY <1>1, <3>1, AfterHelloFacts, RaiseFacts
  <2>. QED BY <2>1, <2>2, <2>3, Steady DEF peerVars
<1>. QED BY <1>3, <1>4

\* A slot is taken before the read.
LEMMA InvAcquire == TypeOK /\ ConnectionInv /\ Acquire => ConnectionInv'
<1> SUFFICES ASSUME TypeOK, ConnectionInv, Acquire PROVE ConnectionInv'
  OBVIOUS
<1>1. /\ pc = "acquire" /\ pc' = "read" /\ slots' = slots - 1
      /\ UNCHANGED <<peerVars, wire, config, task, groupVars>>
  BY DEF Acquire, linkVars
<1>2. SameAcks
  BY <1>1 DEF SameAcks, Positions
<1>3. AbortFacts'
  BY <1>1 DEF ConnectionInv, AbortFacts, groupVars, ExitPcs
<1>4. SlotAccounting'
  <2>1. slots \in Nat /\ Cardinality(Live) \in Nat /\ ConcurrencyLimit(config) \in Nat
    BY LiveFinite, LimitPositive DEF TypeOK
  <2>2. Cardinality(Live)' = Cardinality(Live) /\ ConcurrencyLimit(config)' = ConcurrencyLimit(config)
    BY <1>1 DEF Live, ConcurrencyLimit
  <2>. QED BY <1>1, <2>1, <2>2 DEF ConnectionInv, SlotAccounting
<1>. QED BY <1>1, <1>2, <1>3, <1>4, Steady DEF peerVars

\* The frame a NOTIFY is read from has not been dispatched, nor has any behind it;
\* the slot the loop held for it passes to its task.
LEMMA InvReadNotify == TypeOK /\ ConnectionInv /\ ReadNotify => ConnectionInv'
<1> SUFFICES ASSUME TypeOK, ConnectionInv, ReadNotify PROVE ConnectionInv'
  OBVIOUS
<1> DEFINE id == Head(inbox).id
<1>1. /\ pc = "read" /\ pc' = "acquire"
      /\ inbox # <<>> /\ Head(inbox).kind = "NOTIFY" /\ inbox' = Tail(inbox)
      /\ task' = [task EXCEPT ![id] = "created"]
      /\ UNCHANGED <<nSent, eof, wire, config, slots, groupVars>>
  BY DEF ReadNotify, Decoded, linkVars
<1>2. inbox \in Seq(ReceivedFrames) /\ 1 \in DOMAIN inbox /\ Head(inbox) = inbox[1]
  BY <1>1 DEF TypeOK
<1>3. id \in Ids /\ id <= nSent /\ id \in Nat /\ nSent \in Nat
  <2>1. id <= nSent /\ inbox[1] \in ReceivedFrames
    BY <1>1, <1>2 DEF ConnectionInv, DispatchOrder
  <2>2. id \in 1 .. (MaxFrames + 1)
    BY <1>2, <2>1 DEF ReceivedFrames
  <2>. QED BY <2>1, <2>2, HandlerAssumption DEF TypeOK, Ids
<1>4. \A i \in Ids : i >= id => task[i] = "none"
  BY <1>2 DEF ConnectionInv, DispatchOrder
<1> HIDE DEF id
<1>5. /\ task[id] = "none" /\ task'[id] = "created"
      /\ \A i \in Ids : i # id => task'[i] = task[i]
  <2>1. id >= id
    BY <1>3
  <2>. QED BY <1>1, <1>3, <1>4, <2>1 DEF TypeOK
<1>6. DispatchOrder'
  <2>1. \A p \in DOMAIN inbox' : p \in Nat /\ p + 1 \in DOMAIN inbox /\ inbox'[p] = inbox[p + 1]
    BY <1>1, <1>2
  <2>2. ASSUME NEW p \in DOMAIN inbox'
        PROVE  /\ inbox'[p].id <= nSent \/ (inbox'[p].kind = "TRUNCATED" /\ eof)
               /\ \A q \in DOMAIN inbox' : p < q => inbox'[p].id < inbox'[q].id
               /\ \A i \in Ids : i >= inbox'[p].id => task'[i] = "none"
    <3>1. p + 1 \in DOMAIN inbox /\ inbox'[p] = inbox[p + 1] /\ 1 < p + 1
      <4>1. DOMAIN inbox' = 1 .. (Len(inbox) - 1)
        BY <1>1, <1>2
      <4>. QED BY <2>1, <4>1, <1>2
    <3>2. id < inbox'[p].id /\ inbox'[p].id \in Nat
      <4>1. id = inbox[1].id
        BY <1>2 DEF id
      <4>2. inbox[1].id < inbox[p + 1].id
        BY <1>2, <3>1 DEF ConnectionInv, DispatchOrder
      <4>3. inbox[p + 1] \in ReceivedFrames
        BY <1>2, <3>1
      <4>. QED BY <3>1, <4>1, <4>2, <4>3 DEF ReceivedFrames
    <3>3. ASSUME NEW q \in DOMAIN inbox', p < q PROVE inbox'[p].id < inbox'[q].id
      <4>1. q + 1 \in DOMAIN inbox /\ inbox'[q] = inbox[q + 1] /\ p + 1 < q + 1
        BY <2>1, <3>3
      <4>. QED BY <3>1, <4>1 DEF ConnectionInv, DispatchOrder
    <3>4. ASSUME NEW i \in Ids, i >= inbox'[p].id PROVE task'[i] = "none"
      <4>1. i # id /\ i >= inbox[p + 1].id
        BY <1>3, <3>1, <3>2, <3>4 DEF Ids
      <4>. QED BY <1>5, <3>1, <4>1 DEF ConnectionInv, DispatchOrder
    <3>. QED BY <3>1, <3>3, <3>4 DEF ConnectionInv, DispatchOrder
  <2>3. \A i \in Ids : i > nSent => task'[i] = "none"
    BY <1>3, <1>5 DEF ConnectionInv, DispatchOrder, Ids
  <2>. QED BY <1>1, <2>2, <2>3 DEF DispatchOrder
<1>7. AckFacts'
  <2>1. Positions("ACK")' = Positions("ACK") /\ wire' = wire
    BY <1>1 DEF Positions
  <2>. QED BY <1>5, <2>1 DEF ConnectionInv, AckFacts
<1>8. /\ Cardinality(Live)' = Cardinality(Live) + 1
      /\ slots + Cardinality(Live) + 1 = ConcurrencyLimit(config)
      /\ Cardinality(Live) \in Nat /\ slots \in Nat
      /\ ConcurrencyLimit(config)' = ConcurrencyLimit(config)
  <2>1. Cardinality(Live)' = Cardinality(Live) + 1
    BY <1>1, <1>3, <1>5, LiveGrows
  <2>. QED BY <1>1, <2>1, LiveFinite DEF ConnectionInv, SlotAccounting, TypeOK, ConcurrencyLimit
<1>9. SlotAccounting' /\ InFlightBound'
  BY <1>1, <1>8 DEF SlotAccounting, InFlightBound
<1>10. SerialWithoutPipelining'
  <2> SUFFICES ASSUME "pipelining" \notin config.caps
               PROVE  /\ \A i, j \in Ids : i < j /\ task'[j] # "none" => i \notin Live'
                      /\ \A i, j \in Positions("ACK")' : i < j => wire'[i].id < wire'[j].id
    BY <1>1 DEF SerialWithoutPipelining
  <2>1. Live = {}
    <3>1. ConcurrencyLimit(config) = 1
      BY DEF ConcurrencyLimit
    <3>2. Cardinality(Live) = 0
      BY <1>8, <3>1
    <3>. QED BY <3>2, LiveFinite, FS_EmptySet
  <2>2. Live' \subseteq {id}
    BY <1>5, <2>1 DEF Live
  <2>3. ASSUME NEW i \in Ids, NEW j \in Ids, i < j, task'[j] # "none" PROVE i \notin Live'
    <3>1. CASE i = id
      <4>1. j # id /\ j >= id
        BY <1>3, <2>3, <3>1 DEF Ids
      <4>. QED BY <1>4, <1>5, <2>3, <4>1
    <3>. QED BY <2>2, <3>1
  <2>4. Positions("ACK")' = Positions("ACK") /\ wire' = wire
    BY <1>1 DEF Positions
  <2>. QED BY <2>3, <2>4 DEF ConnectionInv, SerialWithoutPipelining
<1>11. AbortFacts'
  BY <1>1 DEF ConnectionInv, AbortFacts, groupVars, ExitPcs
<1>. QED BY <1>6, <1>7, <1>9, <1>10, <1>11 DEF ConnectionInv

\* The other steps of core_handler leave the loop or are past it.
LEMMA InvConnection == TypeOK /\ ConnectionInv /\ ConnectionStep => ConnectionInv'
<1> SUFFICES ASSUME TypeOK, ConnectionInv, ConnectionStep PROVE ConnectionInv'
  OBVIOUS
<1>1. CASE RefuseFirstFrame \/ ReadDisconnect \/ ReadUnexpected
  <2>1. /\ pc \in BodyPcs
        /\ UNCHANGED <<config, task>>
        /\ \E kind : Decoded(kind)
        /\ \E code, n, size : SendThenClose(DisconnectFrame(code, n), size)
    BY <1>1 DEF RefuseFirstFrame, ReadDisconnect, ReadUnexpected, taskVars, BodyPcs
  <2>. QED BY <2>1, DecodedFacts, SendThenCloseFacts, Steady
<1>2. CASE DecodeRaises \/ EofInHandshake \/ ReadEof \/ FinishBye
  <2>1. /\ UNCHANGED <<wire, config, task>>
        /\ (\E kind : Decoded(kind)) \/ UNCHANGED peerVars
        /\ \E e : RaiseInBody(e)
    BY <1>2 DEF DecodeRaises, EofInHandshake, ReadEof, FinishBye, linkVars, taskVars
  <2>2. SameAcks
    BY <2>1 DEF SameAcks, Positions
  <2>3. AbortFacts' /\ SlotAccounting' /\ pc' = "join"
    BY <2>1, RaiseFacts
  <2>4. CASE \E kind : Decoded(kind)
    BY <2>1, <2>2, <2>3, <2>4, DecodedFacts, Steady
  <2>5. CASE UNCHANGED peerVars
    BY <2>1, <2>2, <2>3, <2>5, Steady DEF peerVars
  <2>. QED BY <2>1, <2>4, <2>5
<1>3. CASE \/ LeaveGroup \/ HandleTooBig \/ HandleSpoe \/ FinishReport
           \/ CloseConnection \/ WaitClosed \/ Escape
  <2>1. /\ pc \in ExitPcs /\ pc' \in ExitPcs
        /\ UNCHANGED <<peerVars, config, taskVars, groupVars>>
    BY <1>3 DEF LeaveGroup, HandleTooBig, HandleSpoe, FinishReport, CloseConnection, WaitClosed,
                Escape, FirstClause, AfterTooBig, ReportError, ExitPcs
  <2>2. SameAcks
    <3>1. CASE wire' = wire
      BY <3>1 DEF SameAcks, Positions
    <3>2. CASE HandleTooBig \/ HandleSpoe
      <4>1. PICK code, n, r : SendFrame(DisconnectFrame(code, Truncated(n)), config.size, r)
        BY <3>2 DEF HandleTooBig, HandleSpoe, ReportError
      <4>2. DisconnectFrame(code, Truncated(n)).type # "ACK"
        BY DEF DisconnectFrame
      <4>. QED BY <4>1, <4>2, QuietSend
    <3>. QED BY <1>3, <3>1, <3>2
              DEF LeaveGroup, FinishReport, CloseConnection, WaitClosed, Escape, linkVars
  <2>3. AbortFacts' /\ SlotAccounting'
    BY <2>1 DEF ConnectionInv, AbortFacts, SlotAccounting, groupVars, ExitPcs
  <2>4. pc' \notin {"handshake", "hello_drain"}
    BY <2>1 DEF ExitPcs
  <2>. QED BY <2>1, <2>2, <2>3, <2>4, Steady DEF peerVars, taskVars
<1>. QED BY <1>1, <1>2, <1>3, InvHandshake, InvAcquire, InvReadNotify DEF ConnectionStep

-----------------------------------------------------------------------------
(* HAProxy and the transport *)

\* A frame that arrives has the largest id so far.
LEMMA ArrivalKeepsOrder ==
    ASSUME TypeOK, DispatchOrder, ~eof, NEW kind,
           inbox' = Append(inbox, [kind |-> kind, id |-> nSent + 1]),
           \/ nSent' = nSent + 1 /\ eof' = eof
           \/ nSent' = nSent /\ eof' /\ kind = "TRUNCATED",
           UNCHANGED <<task, pc>>
    PROVE  DispatchOrder'
<1> DEFINE frame == [kind |-> kind, id |-> nSent + 1]
           last == Len(inbox) + 1
<1>1. /\ inbox \in Seq(ReceivedFrames) /\ nSent \in Nat
      /\ frame.kind = kind /\ frame.id = nSent + 1
  BY HandlerAssumption DEF TypeOK
<1> HIDE DEF frame
<1>2. inbox' = Append(inbox, frame)
  BY DEF frame
<1>3. /\ Len(inbox) \in Nat /\ DOMAIN inbox = 1 .. Len(inbox) /\ DOMAIN inbox' = 1 .. last
      /\ inbox'[last] = frame
      /\ \A p \in DOMAIN inbox : inbox'[p] = inbox[p] /\ p < last
  BY <1>1, <1>2
<1>4. \A p \in DOMAIN inbox : inbox[p].id <= nSent /\ inbox[p].id \in Nat
  <2>1. \A p \in DOMAIN inbox : inbox[p] \in ReceivedFrames
    BY <1>1
  <2>. QED BY <2>1 DEF DispatchOrder, ReceivedFrames
<1>5. \A i \in Ids : i > nSent => task[i] = "none"
  BY DEF DispatchOrder
<1>6. ASSUME NEW p \in DOMAIN inbox'
      PROVE  /\ inbox'[p].id <= nSent' \/ (inbox'[p].kind = "TRUNCATED" /\ eof')
             /\ \A q \in DOMAIN inbox' : p < q => inbox'[p].id < inbox'[q].id
             /\ \A i \in Ids : i >= inbox'[p].id => task[i] = "none"
  <2>1. CASE p = last
    <3>1. inbox'[p].id = nSent + 1 /\ inbox'[p].kind = kind
      BY <1>1, <1>3, <2>1
    <3>2. \A q \in DOMAIN inbox' : ~(p < q)
      BY <1>3, <2>1
    <3>3. \A i \in Ids : i >= nSent + 1 => i > nSent
      BY <1>1 DEF Ids
    <3>. QED BY <1>1, <1>5, <3>1, <3>2, <3>3
  <2>2. CASE p \in DOMAIN inbox
    <3>1. inbox'[p] = inbox[p] /\ inbox[p].id <= nSent /\ inbox[p].id \in Nat
      BY <1>3, <1>4, <2>2
    <3>2. ASSUME NEW q \in DOMAIN inbox', p < q PROVE inbox'[p].id < inbox'[q].id
      <4>1. CASE q = last
        BY <1>1, <1>3, <3>1, <4>1
      <4>2. CASE q \in DOMAIN inbox
        BY <1>3, <2>2, <3>2, <4>2 DEF DispatchOrder
      <4>. QED BY <1>3, <4>1, <4>2
    <3>. QED BY <1>1, <2>2, <3>1, <3>2 DEF DispatchOrder
  <2>. QED BY <1>3, <2>1, <2>2
<1>7. \A i \in Ids : i > nSent' => task[i] = "none"
  BY <1>1, <1>5 DEF Ids
<1>. QED BY <1>6, <1>7 DEF DispatchOrder

LEMMA InvEnvironment ==
    TypeOK /\ ConnectionInv /\ (TransportStep \/ PeerStep) => ConnectionInv'
<1> SUFFICES ASSUME TypeOK, ConnectionInv, TransportStep \/ PeerStep PROVE ConnectionInv'
  OBVIOUS
<1>1. UNCHANGED <<wire, pc, config, task, slots, groupVars>>
  BY DEF TransportStep, NoticeReset, NoticeTlsEof, FinishClose,
         PeerStep, PeerSend, PeerEof, PeerReset, PeerReads, linkVars, taskVars
<1>2. AckFacts' /\ InFlightBound' /\ SerialWithoutPipelining'
  <2>1. SameAcks
    BY <1>1 DEF SameAcks, Positions
  <2>. QED BY <1>1, <2>1, TasksKept
<1>3. SlotAccounting' /\ AbortFacts'
  <2>1. Live' = Live
    BY <1>1 DEF Live
  <2>. QED BY <1>1, <2>1 DEF ConnectionInv, SlotAccounting, ConcurrencyLimit, AbortFacts, groupVars
<1>4. DispatchOrder'
  <2>1. CASE UNCHANGED <<inbox, nSent, eof>>
    BY <1>1, <2>1, OrderKept DEF ConnectionInv
  <2>2. CASE PeerSend
    <3>1. PICK kind : inbox' = Append(inbox, [kind |-> kind, id |-> nSent + 1])
      BY <2>2 DEF PeerSend
    <3>. QED BY <1>1, <2>2, <3>1, ArrivalKeepsOrder DEF PeerSend, ConnectionInv
  <2>3. CASE PeerEof
    <3>1. CASE inbox' = inbox
      BY <1>1, <2>3, <3>1 DEF PeerEof, ConnectionInv, DispatchOrder
    <3>2. CASE inbox' = Append(inbox, [kind |-> "TRUNCATED", id |-> nSent + 1])
      BY <1>1, <2>3, <3>2, ArrivalKeepsOrder DEF PeerEof, ConnectionInv
    <3>. QED BY <2>3, <3>1, <3>2 DEF PeerEof
  <2>. QED
    BY <2>1, <2>2, <2>3 DEF TransportStep, NoticeReset, NoticeTlsEof, FinishClose,
                            PeerStep, PeerReset, PeerReads, peerVars
<1>. QED BY <1>2, <1>3, <1>4 DEF ConnectionInv

-----------------------------------------------------------------------------
(* Theorems *)

LEMMA InvInit == Init => ConnectionInv
<1> SUFFICES ASSUME Init PROVE ConnectionInv
  OBVIOUS
<1>1. Live = {} /\ Positions("ACK") = {} /\ inbox = <<>>
  BY DEF Init, InitFor, Live, Positions
<1>2. Cardinality(Live) = 0 /\ ConcurrencyLimit(config) \in Nat
  BY <1>1, FS_EmptySet, LimitPositive
<1>3. AbortFacts /\ SlotAccounting
  BY DEF Init, InitFor, AbortFacts, SlotAccounting, ExitPcs
<1>4. DispatchOrder
  BY <1>1 DEF Init, InitFor, DispatchOrder
<1>5. AckFacts /\ InFlightBound /\ SerialWithoutPipelining
  BY <1>1, <1>2 DEF AckFacts, InFlightBound, SerialWithoutPipelining
<1>. QED BY <1>3, <1>4, <1>5 DEF ConnectionInv

\* ConnectionInv is inductive, given the types.
THEOREM ConnectionInvariant == Spec => []ConnectionInv
<1>1. TypeOK /\ ConnectionInv /\ [Next]_vars => ConnectionInv'
  <2>1. ASSUME TypeOK, ConnectionInv, UNCHANGED vars PROVE ConnectionInv'
    <3>1. UNCHANGED <<nSent, inbox, eof, wire, pc, config, slots, task, aborting, cancel>>
      BY <2>1 DEF vars, peerVars, linkVars, taskVars, groupVars
    <3>2. SameAcks /\ Live' = Live
      BY <3>1 DEF SameAcks, Positions, Live
    <3>3. AbortFacts' /\ SlotAccounting'
      BY <2>1, <3>1, <3>2
         DEF ConnectionInv, AbortFacts, SlotAccounting, ConcurrencyLimit
    <3>. QED BY <2>1, <3>1, <3>2, <3>3, Steady
  <2>. QED BY <2>1, InvConnection, InvTasks, InvEnvironment DEF Next
<1>. QED BY <1>1, InvInit, TypeCorrect, PTL DEF Spec

\* Every slot is free, held by the read loop or held by exactly one unfinished
\* task, as long as frames are read.
THEOREM SlotsAddUp == Spec => []SlotAccounting
<1>1. ConnectionInv => SlotAccounting
  BY DEF ConnectionInv
<1>. QED BY <1>1, ConnectionInvariant, PTL

\* Never more NOTIFYs in flight than the connection may have.
THEOREM FlightIsBounded == Spec => []InFlightBound
<1>1. ConnectionInv => InFlightBound
  BY DEF ConnectionInv
<1>. QED BY <1>1, ConnectionInvariant, PTL

\* Without pipelining NOTIFYs are served, and acknowledged, one after the other.
THEOREM SerialOrder == Spec => []SerialWithoutPipelining
<1>1. ConnectionInv => SerialWithoutPipelining
  BY DEF ConnectionInv
<1>. QED BY <1>1, ConnectionInvariant, PTL

\* The ACKs on the wire answer NOTIFYs that were dispatched, each at most once.
THEOREM OneAckPerNotify == Spec => []AckAtMostOnce
<1>1. TypeOK /\ AckFacts => AckAtMostOnce
  <2> SUFFICES ASSUME TypeOK, AckFacts PROVE AckAtMostOnce
    OBVIOUS
  <2> DEFINE answer == [i \in Positions("ACK") |-> wire[i].id]
  <2>1. IsFiniteSet(Positions("ACK"))
    <3>1. Len(wire) \in Nat /\ Positions("ACK") \in SUBSET (1 .. Len(wire))
      BY DEF TypeOK, Positions
    <3>2. IsFiniteSet(1 .. Len(wire))
      BY <3>1, FS_Interval
    <3>. QED BY <3>1, <3>2, FS_Subset
  <2>2. answer \in Bijection(Positions("ACK"), Acked)
    BY DEF AckFacts, Acked, Bijection, Injection, Surjection, IsInjective
  <2>3. Cardinality(Acked) = Cardinality(Positions("ACK"))
    BY <2>1, <2>2, FS_Bijection DEF ExistsBijection
  <2>4. \A i \in Acked : task[i] \notin {"none", "created", "running"}
    BY DEF Acked, AckFacts
  <2>. QED BY <2>3, <2>4 DEF AckAtMostOnce
<1>2. ConnectionInv => AckFacts
  BY DEF ConnectionInv
<1>. QED BY <1>1, <1>2, TypeCorrect, ConnectionInvariant, PTL

\* A group that aborts has left the read loop for good: nothing is dispatched.
THEOREM NothingDispatchedWhileAborting == Spec => NoDispatchWhileAborting
<1>1. TypeOK /\ AbortFacts /\ [Next]_vars
        => [aborting => \A id \in Ids : task[id] = "none" => task'[id] = "none"]_vars
  <2> SUFFICES ASSUME TypeOK, AbortFacts, aborting, [Next]_vars,
                      NEW id \in Ids, task[id] = "none"
               PROVE  task'[id] = "none"
    OBVIOUS
  <2>1. pc \in ExitPcs
    BY DEF AbortFacts
  <2>2. CASE UNCHANGED task
    BY <2>2
  <2>3. CASE ConnectionStep
    <3>1. UNCHANGED task
      BY <2>1, <2>3
         DEF ConnectionStep, ReceiveHello, RefuseFirstFrame, EofInHandshake, FinishHello,
             DecodeRaises, Acquire, ReadNotify, ReadDisconnect, ReadUnexpected, ReadEof, FinishBye,
             LeaveGroup, HandleTooBig, HandleSpoe, FinishReport, CloseConnection, WaitClosed,
             Escape, taskVars, ExitPcs
    <3>. QED BY <3>1
  <2>4. CASE \E i \in Ids : TaskStep(i) \/ HandlerStep(i)
    <3>1. PICK i \in Ids : TaskStep(i) \/ HandlerStep(i)
      BY <2>4
    <3>2. task[i] # "none"
      BY <3>1 DEF TaskStep, HandlerStep, StartTask, CancelTask, FinishAck, ReapTask,
                  HandlerReturns, HandlerCancels, Live
    <3>3. task' = task \/ \E s : task' = [task EXCEPT ![i] = s]
      BY <3>1 DEF TaskStep, HandlerStep, StartTask, CancelTask, FinishAck, ReapTask,
                  HandlerReturns, HandlerCancels, SendReply, SendAck, EndTask, taskVars
    <3>. QED BY <3>2, <3>3 DEF TypeOK
  <2>5. CASE TransportStep \/ PeerStep
    BY <2>5 DEF TransportStep, NoticeReset, NoticeTlsEof, FinishClose,
                PeerStep, PeerSend, PeerEof, PeerReset, PeerReads, taskVars
  <2>. QED BY <2>2, <2>3, <2>4, <2>5 DEF Next, vars, taskVars
<1>2. ConnectionInv => AbortFacts
  BY DEF ConnectionInv
<1>. QED BY <1>1, <1>2, TypeCorrect, ConnectionInvariant, PTL DEF Spec, NoDispatchWhileAborting
=============================================================================
