------------------------- MODULE ForgeHandlerReports -------------------------
(***************************************************************************)
(* What ForgeHandler writes, when, and how large: theorems about the       *)
(* greeting, the limits, the refusal and the reports of errors, for every  *)
(* value of the constants.                                                 *)
(*                                                                         *)
(* Every step leaves the stream as it is or writes one frame (Writes).     *)
(***************************************************************************)
EXTENDS ForgeHandlerInvariant, AckSalvageProofs

-----------------------------------------------------------------------------
(* The invariants *)

Greeted == 1 \in Positions("AGENT_HELLO") /\ config.compatible

\* Nothing is written before the HELLO is received.  The read loop and its tasks
\* exist only after an AGENT-HELLO that was not the answer to a healthcheck.
GreetingFacts ==
    /\ pc = "handshake" => wire = <<>>
    /\ \A i \in Positions("AGENT_HELLO") : i = 1
    /\ pc = "hello_drain" => Greeted
    /\ pc \in {"acquire", "read"} \/ (\E id \in Ids : task[id] # "none")
        => Greeted /\ ~hello.healthcheck

\* The size in force only shrinks, and only before the first frame is written.
SizeFacts ==
    /\ config.size <= OwnMaxFrameSize
    /\ pc = "handshake" => config.size = OwnMaxFrameSize
    /\ 1 \in Positions("AGENT_HELLO") => config.size <= hello.size
    /\ \A i \in DOMAIN wire : wire[i].len <= config.size

ErrorCodes == {"FRAME_TOO_BIG", "PROTOCOL_ERROR"}

\* core_handler has left its task group.
PastGroup == pc \in ExitPcs \ {"join"}

Reported(code) == \E i \in DOMAIN wire : wire[i].code = code

\* Errors are reported past the group, when no task is left to write an ACK.
ReportFacts ==
    /\ PastGroup => GroupDone
    /\ \A code \in ErrorCodes : Reported(code) => PastGroup
    /\ NoAckAfterErrorReport

\* A clause that core_handler is past at pcs has had an open stream to report on.
Due(pcs) ==
    \/ transport = "open" /\ escaped = {} /\ pc \in pcs
    \/ transport = "closing" /\ ~(Tls /\ eof) /\ pc = "closing"

\* On a stream that stays open each clause writes its report or raises; the stream
\* closes before that only at the end of a TLS stream.
ClauseFacts ==
    /\ transport = "closing" /\ pc \notin {"closing", "closed", "crashed"} => Tls /\ eof
    /\ pc = "toobig_drain" => Reported("FRAME_TOO_BIG")
    /\ pc = "spoe_drain" => Reported("PROTOCOL_ERROR")
    /\ Due({"except_spoe", "spoe_drain", "unwind"}) /\ "TooBig" \in errors
        => Reported("FRAME_TOO_BIG")
    /\ Due({"unwind"}) /\ errors \cap SpoeErrors # {} => Reported("PROTOCOL_ERROR")
-----------------------------------------------------------------------------
(* What a step writes *)

\* The AGENT-HELLO, under the size it announces.
WritesHello ==
    /\ pc = "handshake"
    /\ config' = Negotiate(config, hello) /\ config'.compatible
    /\ \E frame :
        /\ frame.type = "AGENT_HELLO" /\ frame.code = "none" /\ Fits(frame, config'.size)
        /\ \A id \in Ids : frame.len >= EmptyAckLen(IdsLen[id])
        /\ wire' = Append(wire, frame)

\* A disconnect: the refusal, a farewell of the loop, or the report of a clause.
WritesDisconnect ==
    \E frame :
        /\ frame.type = "AGENT_DISCONNECT" /\ Fits(frame, config'.size)
        /\ wire' = Append(wire, frame)
        /\ \/ /\ frame.code = "SERVER_INCOMPATIBLE"
              /\ pc = "handshake" /\ ~Negotiate(config, hello).compatible
              /\ pc' \in {"join", "bye_drain"}
           \/ /\ frame.code \in {"NORMAL", "INVALID_FRAME_RECEIVED"}
              /\ pc \in {"handshake", "read"} /\ pc' \in {"join", "bye_drain"}
           \/ pc = "except_toobig" /\ frame.code = "FRAME_TOO_BIG"
           \/ pc = "except_spoe" /\ frame.code = "PROTOCOL_ERROR"

\* The ACK of a running task.
WritesAck ==
    /\ \E id \in Ids : task[id] = "running"
    /\ \E frame :
        /\ frame.type = "ACK" /\ frame.code = "none" /\ Fits(frame, config.size)
        /\ wire' = Append(wire, frame)
    /\ UNCHANGED <<pc, config>>

WritesNoAck == wire' = wire \/ WritesHello \/ WritesDisconnect

WritesAtMostOne == WritesNoAck \/ WritesAck

\* A size that holds the AGENT-HELLO holds an ACK without actions, however long
\* the ids of its NOTIFY are on the wire.
LEMMA AgentHelloHoldsAck ==
    \A size, caps : \A id \in Ids : AgentHelloLen(size, caps) >= EmptyAckLen(IdsLen[id])
<1> SUFFICES ASSUME NEW size, NEW caps, NEW id \in Ids
             PROVE  AgentHelloLen(size, caps) >= EmptyAckLen(IdsLen[id])
  OBVIOUS
<1> DEFINE names == IF "pipelining" \in caps THEN 10 ELSE 0
<1>1. names \in Nat
  OBVIOUS
<1> HIDE DEF names
<1>2. \A n \in Nat : StringLen(n) \in Nat /\ StringLen(n) >= n
  BY VarintLenType DEF StringLen
<1>3. ZeroIds \in Nat /\ VarintLen(size) \in Nat
  BY VarintLenType DEF ZeroIds
<1>4. IdsLen[id] \in 2 .. 20
  BY HandlerAssumption
<1>5. HeaderLen(ZeroIds) = 5 + ZeroIds /\ EmptyAckLen(IdsLen[id]) = 5 + IdsLen[id]
  BY <1>3, <1>4 DEF EmptyAckLen, HeaderLen
<1>6. AgentHelloLen(size, caps) =
        HeaderLen(ZeroIds) + (StringLen(7) + 1 + StringLen(3))
        + (StringLen(14) + 1 + VarintLen(size)) + (StringLen(12) + 1 + StringLen(names))
  BY DEF AgentHelloLen, names
<1>7. /\ StringLen(7) \in Nat /\ StringLen(3) \in Nat /\ StringLen(names) \in Nat
      /\ StringLen(14) \in Nat /\ StringLen(14) >= 14
      /\ StringLen(12) \in Nat /\ StringLen(12) >= 12
  BY <1>1, <1>2
<1>. QED BY <1>3, <1>4, <1>5, <1>6, <1>7

LEMMA SendWrites ==
    ASSUME NEW frame, NEW size, NEW r, SendFrame(frame, size, r)
    PROVE  \/ wire' = wire
           \/ /\ wire' = Append(wire, frame) /\ Fits(frame, size)
              /\ r \in {"sent", "drain"} /\ transport = "open" /\ UNCHANGED transport
  BY DEF SendFrame, linkVars

LEMMA ByeWrites ==
    ASSUME NEW code, NEW n, NEW size, SendThenClose(DisconnectFrame(code, n), size)
    PROVE  /\ pc' \in {"join", "bye_drain"}
           /\ \/ wire' = wire
              \/ \E frame : /\ frame.type = "AGENT_DISCONNECT" /\ frame.code = code
                            /\ Fits(frame, size) /\ wire' = Append(wire, frame)
<1> DEFINE frame == DisconnectFrame(code, n)
<1>1. frame.type = "AGENT_DISCONNECT" /\ frame.code = code
  BY DEF DisconnectFrame
<1> HIDE DEF frame
<1>2. PICK r \in SendOutcomes :
        /\ SendFrame(frame, size, r)
        /\ \/ \E e : RaiseInBody(e)
           \/ pc' = "bye_drain"
  BY DEF SendThenClose, frame
<1>. QED BY <1>1, <1>2, SendWrites DEF RaiseInBody

LEMMA ConnectionWrites == ConnectionStep => WritesNoAck
<1> SUFFICES ASSUME ConnectionStep PROVE WritesNoAck
  OBVIOUS
<1>1. CASE ReceiveHello
  <2> DEFINE agreed == Negotiate(config, hello)
  <2>1. pc = "handshake" /\ config' = agreed
    BY <1>1 DEF ReceiveHello
  <2>2. CASE agreed.compatible /\ SendAgentHello(agreed)
    <3> DEFINE frame == AgentHelloFrame(agreed.size, agreed.caps)
    <3>1. /\ frame.type = "AGENT_HELLO" /\ frame.code = "none"
          /\ \A id \in Ids : frame.len >= EmptyAckLen(IdsLen[id])
      BY AgentHelloHoldsAck DEF AgentHelloFrame
    <3>2. PICK r : SendFrame(frame, agreed.size, r)
      BY <2>2 DEF SendAgentHello
    <3> HIDE DEF frame
    <3>3. wire' = wire \/ (wire' = Append(wire, frame) /\ Fits(frame, agreed.size))
      BY <3>2, SendWrites
    <3>. QED BY <2>1, <2>2, <3>1, <3>3 DEF WritesNoAck, WritesHello
  <2>3. CASE /\ ~agreed.compatible
             /\ SendThenClose(DisconnectFrame("SERVER_INCOMPATIBLE", IncompatibleTextLen),
                              agreed.size)
    BY <2>1, <2>3, ByeWrites DEF WritesNoAck, WritesDisconnect
  <2>. QED BY <1>1, <2>2, <2>3 DEF ReceiveHello
<1>2. CASE RefuseFirstFrame \/ ReadDisconnect \/ ReadUnexpected
  <2>1. /\ pc \in {"handshake", "read"} /\ config' = config
        /\ \E code \in {"NORMAL", "INVALID_FRAME_RECEIVED"} : \E n :
              SendThenClose(DisconnectFrame(code, n), config.size)
    BY <1>2 DEF RefuseFirstFrame, ReadDisconnect, ReadUnexpected
  <2>. QED BY <2>1, ByeWrites DEF WritesNoAck, WritesDisconnect
<1>3. CASE HandleTooBig \/ HandleSpoe
  <2>1. PICK code, n, r :
          /\ SendFrame(DisconnectFrame(code, n), config.size, r)
          /\ \/ pc = "except_toobig" /\ code = "FRAME_TOO_BIG"
             \/ pc = "except_spoe" /\ code = "PROTOCOL_ERROR"
    BY <1>3 DEF HandleTooBig, HandleSpoe, ReportError
  <2> DEFINE frame == DisconnectFrame(code, n)
  <2>2. frame.type = "AGENT_DISCONNECT" /\ frame.code = code /\ config' = config
    BY <1>3 DEF DisconnectFrame, HandleTooBig, HandleSpoe
  <2> HIDE DEF frame
  <2>3. wire' = wire \/ (wire' = Append(wire, frame) /\ Fits(frame, config.size))
    BY <2>1, SendWrites DEF frame
  <2>. QED BY <2>1, <2>2, <2>3 DEF WritesNoAck, WritesDisconnect
<1>4. CASE \/ EofInHandshake \/ FinishHello \/ DecodeRaises \/ Acquire \/ ReadNotify \/ ReadEof
           \/ FinishBye \/ LeaveGroup \/ FinishReport \/ CloseConnection \/ WaitClosed \/ Escape
  BY <1>4 DEF WritesNoAck, EofInHandshake, FinishHello, DecodeRaises, Acquire, ReadNotify,
              ReadEof, FinishBye, LeaveGroup, FinishReport, CloseConnection, WaitClosed, Escape,
              linkVars
<1>. QED BY <1>1, <1>2, <1>3, <1>4 DEF ConnectionStep

\* A step writes nothing, or one frame that fits the size in force.
LEMMA Writes == [Next]_vars => WritesAtMostOne
<1> SUFFICES ASSUME [Next]_vars PROVE WritesAtMostOne
  OBVIOUS
<1>1. CASE \E id \in Ids : TaskStep(id) \/ HandlerStep(id)
  <2>1. PICK id \in Ids : TaskStep(id) \/ HandlerStep(id)
    BY <1>1
  <2>2. CASE HandlerReturns(id)
    <3>1. task[id] = "running" /\ UNCHANGED <<pc, config>>
      BY <2>2 DEF HandlerReturns
    <3>2. CASE UNCHANGED linkVars
      BY <3>2 DEF WritesAtMostOne, WritesNoAck, linkVars
    <3>3. CASE \E actions : SendAck(id, AckFrame(id, actions))
      <4>1. PICK actions, r : SendFrame(AckFrame(id, actions), config.size, r)
        BY <3>3 DEF SendAck
      <4> DEFINE frame == AckFrame(id, actions)
      <4>2. frame.type = "ACK" /\ frame.code = "none"
        BY DEF AckFrame
      <4> HIDE DEF frame
      <4>3. wire' = wire \/ (wire' = Append(wire, frame) /\ Fits(frame, config.size))
        BY <4>1, SendWrites DEF frame
      <4>. QED BY <3>1, <4>2, <4>3 DEF WritesAtMostOne, WritesNoAck, WritesAck
    <3>. QED BY <2>2, <3>2, <3>3 DEF HandlerReturns, SendReply
  <2>3. CASE TaskStep(id) \/ HandlerCancels(id)
    BY <2>3 DEF WritesAtMostOne, WritesNoAck, TaskStep, StartTask, CancelTask, FinishAck, ReapTask,
                HandlerCancels, linkVars
  <2>. QED BY <2>1, <2>2, <2>3 DEF HandlerStep
<1>2. CASE TransportStep \/ PeerStep \/ UNCHANGED vars
  BY <1>2 DEF WritesAtMostOne, WritesNoAck, TransportStep, NoticeReset, NoticeTlsEof, FinishClose,
              PeerStep,
              PeerSend, PeerEof, PeerReset, PeerReads, linkVars, vars
<1>. QED BY <1>1, <1>2, ConnectionWrites DEF Next, WritesAtMostOne

\* What one more frame changes.
LEMMA Appended ==
    ASSUME TypeOK, NEW frame, wire' = Append(wire, frame)
    PROVE  /\ Len(wire) \in Nat /\ DOMAIN wire = 1 .. Len(wire)
           /\ DOMAIN wire' = 1 .. (Len(wire) + 1)
           /\ wire'[Len(wire) + 1] = frame
           /\ \A i \in DOMAIN wire : wire'[i] = wire[i]
<1>1. wire \in Seq(WireFrames)
  BY DEF TypeOK
<1>. QED BY <1>1

LEMMA HelloFixed == [Next]_vars => hello' = hello
  BY DEF Next, ConnectionStep, ReceiveHello, RefuseFirstFrame, EofInHandshake, FinishHello,
         DecodeRaises, Acquire, ReadNotify, ReadDisconnect, ReadUnexpected, ReadEof, FinishBye,
         LeaveGroup, HandleTooBig, HandleSpoe, FinishReport, CloseConnection, WaitClosed, Escape,
         Decoded, TaskStep, StartTask, CancelTask, FinishAck, ReapTask, HandlerStep, HandlerReturns,
         HandlerCancels, TransportStep, NoticeReset, NoticeTlsEof, FinishClose,
         PeerStep, PeerSend, PeerEof, PeerReset, PeerReads, peerVars, vars

-----------------------------------------------------------------------------
(* The greeting *)

\* How a step may move core_handler up to the read loop, and what comes with it.
GreetingMove ==
    /\ pc' = "handshake" => pc = "handshake" /\ config' = config /\ wire' = wire
    /\ pc' = "hello_drain" => (pc = "hello_drain" /\ config' = config) \/ WritesHello
    /\ pc' \in {"acquire", "read"} =>
        \/ pc \in {"acquire", "read"} /\ config' = config
        \/ pc = "hello_drain" /\ config' = config /\ ~hello.healthcheck
        \/ WritesHello /\ ~hello.healthcheck
    /\ \A id \in Ids : task'[id] # "none" => task[id] # "none" \/ pc = "read"
    /\ config' = config \/ (pc = "handshake" /\ config' = Negotiate(config, hello))

LEMMA GreetingConnection == ASSUME ConnectionStep PROVE GreetingMove
<1>1. CASE ReceiveHello
  <2> DEFINE agreed == Negotiate(config, hello)
  <2>1. pc = "handshake" /\ config' = agreed /\ task' = task
    BY <1>1 DEF ReceiveHello
  <2>2. CASE agreed.compatible /\ SendAgentHello(agreed)
    <3> DEFINE frame == AgentHelloFrame(agreed.size, agreed.caps)
    <3>1. /\ frame.type = "AGENT_HELLO" /\ frame.code = "none"
          /\ \A id \in Ids : frame.len >= EmptyAckLen(IdsLen[id])
      BY AgentHelloHoldsAck DEF AgentHelloFrame
    <3>2. PICK r \in SendOutcomes :
            /\ SendFrame(frame, agreed.size, r)
            /\ \/ r = "sent" /\ AfterHello(TRUE, agreed)
               \/ r = "skipped" /\ AfterHello(FALSE, agreed)
               \/ r \in {"TooBig", "Conn"} /\ pc' = "join"
               \/ r = "drain" /\ pc' = "hello_drain"
      BY <2>2 DEF SendAgentHello, RaiseInBody
    <3> HIDE DEF frame
    <3>3. r \in {"sent", "drain"} => wire' = Append(wire, frame) /\ Fits(frame, agreed.size)
      BY <3>2 DEF SendFrame
    <3>4. r \in {"sent", "drain"} => WritesHello
      BY <2>1, <2>2, <3>1, <3>3 DEF WritesHello
    <3>5. AfterHello(TRUE, agreed) => pc' = "join" \/ (pc' = "acquire" /\ ~hello.healthcheck)
      BY DEF AfterHello, StartReading, RaiseInBody
    <3>6. AfterHello(FALSE, agreed) => pc' = "join"
      BY DEF AfterHello, StartReading, RaiseInBody
    <3>. QED BY <2>1, <3>2, <3>4, <3>5, <3>6 DEF GreetingMove
  <2>3. CASE /\ ~agreed.compatible
             /\ SendThenClose(DisconnectFrame("SERVER_INCOMPATIBLE", IncompatibleTextLen),
                              agreed.size)
    BY <2>1, <2>3, ByeWrites DEF GreetingMove
  <2>. QED BY <1>1, <2>2, <2>3 DEF ReceiveHello
<1>2. CASE FinishHello
  <2>1. /\ pc = "hello_drain" /\ UNCHANGED <<config, task>>
        /\ AfterHello(TRUE, config) \/ pc' = "join"
    BY <1>2 DEF FinishHello, RaiseInBody
  <2>2. AfterHello(TRUE, config) => pc' = "join" \/ (pc' = "acquire" /\ ~hello.healthcheck)
    BY DEF AfterHello, StartReading, RaiseInBody
  <2>. QED BY <2>1, <2>2 DEF GreetingMove
<1>3. CASE RefuseFirstFrame \/ ReadDisconnect \/ ReadUnexpected
  <2>1. /\ UNCHANGED <<config, task>>
        /\ \E code, n, size : SendThenClose(DisconnectFrame(code, n), size)
    BY <1>3 DEF RefuseFirstFrame, ReadDisconnect, ReadUnexpected, taskVars
  <2>. QED BY <2>1, ByeWrites DEF GreetingMove
<1>4. CASE EofInHandshake \/ DecodeRaises \/ ReadEof \/ FinishBye
  BY <1>4 DEF GreetingMove, EofInHandshake, DecodeRaises, ReadEof, FinishBye, RaiseInBody, taskVars
<1>5. CASE Acquire
  BY <1>5 DEF GreetingMove, Acquire
<1>6. CASE ReadNotify
  BY <1>6 DEF GreetingMove, ReadNotify
<1>7. CASE \/ LeaveGroup \/ HandleTooBig \/ HandleSpoe \/ FinishReport
           \/ CloseConnection \/ WaitClosed \/ Escape
  <2>1. pc' \in ExitPcs /\ UNCHANGED <<config, task>>
    BY <1>7 DEF LeaveGroup, HandleTooBig, HandleSpoe, FinishReport, CloseConnection, WaitClosed,
                Escape, FirstClause, AfterTooBig, ReportError, ExitPcs, taskVars
  <2>. QED BY <2>1 DEF GreetingMove, ExitPcs
<1>. QED BY <1>1, <1>2, <1>3, <1>4, <1>5, <1>6, <1>7 DEF ConnectionStep

LEMMA GreetingMoves == TypeOK /\ ConnectionInv /\ [Next]_vars => GreetingMove
<1> SUFFICES ASSUME TypeOK, ConnectionInv, [Next]_vars PROVE GreetingMove
  OBVIOUS
<1>1. CASE \E id \in Ids : TaskStep(id) \/ HandlerStep(id)
  <2>1. PICK id \in Ids : TaskStep(id) \/ HandlerStep(id)
    BY <1>1
  <2>2. /\ task[id] # "none"
        /\ config' = config
        /\ pc' = pc \/ pc' = "join"
        /\ task' = task \/ \E s : task' = [task EXCEPT ![id] = s]
    BY <2>1 DEF TaskStep, HandlerStep, StartTask, CancelTask, FinishAck, ReapTask, HandlerReturns,
                HandlerCancels, SendReply, SendAck, EndTask, Abort, Live, taskVars
  <2>3. pc \notin {"handshake", "hello_drain"}
    BY <2>2 DEF ConnectionInv, DispatchOrder
  <2>. QED BY <2>2, <2>3 DEF GreetingMove, TypeOK
<1>2. CASE TransportStep \/ PeerStep \/ UNCHANGED vars
  BY <1>2 DEF GreetingMove, TransportStep, NoticeReset, NoticeTlsEof, FinishClose, PeerStep,
              PeerSend, PeerEof, PeerReset, PeerReads, linkVars, taskVars, vars
<1>. QED BY <1>1, <1>2, GreetingConnection DEF Next

LEMMA GreetingKept ==
    TypeOK /\ ConnectionInv /\ GreetingFacts /\ [Next]_vars => GreetingFacts'
<1> SUFFICES ASSUME TypeOK, ConnectionInv, GreetingFacts, [Next]_vars PROVE GreetingFacts'
  OBVIOUS
<1>0. GreetingMove /\ WritesAtMostOne /\ hello' = hello
  BY GreetingMoves, Writes, HelloFixed
<1>1. (pc = "handshake" => wire = <<>>)'
  BY <1>0 DEF GreetingMove, GreetingFacts
<1>2. pc # "handshake" => ~WritesHello /\ config' = config
  BY <1>0 DEF WritesHello, GreetingMove
<1>3. WritesHello => Greeted'
  <2> SUFFICES ASSUME WritesHello PROVE Greeted'
    OBVIOUS
  <2>1. PICK frame : frame.type = "AGENT_HELLO" /\ wire' = Append(wire, frame)
    BY DEF WritesHello
  <2>2. Len(wire) = 0
    BY DEF WritesHello, GreetingFacts
  <2>. QED BY <2>1, <2>2, Appended DEF WritesHello, Greeted, Positions
<1>4. 1 \in Positions("AGENT_HELLO") => 1 \in Positions("AGENT_HELLO")'
  <2>1. CASE wire' = wire
    BY <2>1 DEF Positions
  <2>2. CASE \E frame : wire' = Append(wire, frame)
    BY <2>2, Appended DEF Positions
  <2>. QED
    BY <1>0, <2>1, <2>2
    DEF WritesAtMostOne, WritesNoAck, WritesHello, WritesDisconnect, WritesAck
<1>5. Greeted /\ pc # "handshake" => Greeted'
  BY <1>2, <1>4 DEF Greeted
<1>6. (\A i \in Positions("AGENT_HELLO") : i = 1)'
  <2>1. CASE wire' = wire
    BY <2>1 DEF GreetingFacts, Positions
  <2>2. CASE WritesHello
    <3>1. PICK frame : wire' = Append(wire, frame)
      BY <2>2 DEF WritesHello
    <3>2. Len(wire) = 0
      BY <2>2 DEF WritesHello, GreetingFacts
    <3>. QED BY <3>1, <3>2, Appended DEF Positions
  <2>3. CASE WritesDisconnect \/ WritesAck
    <3>1. PICK frame : wire' = Append(wire, frame) /\ frame.type # "AGENT_HELLO"
      BY <2>3 DEF WritesDisconnect, WritesAck
    <3>. QED BY <3>1, Appended DEF GreetingFacts, Positions
  <2>. QED BY <1>0, <2>1, <2>2, <2>3 DEF WritesAtMostOne, WritesNoAck
<1>7. (pc = "hello_drain" => Greeted)'
  BY <1>0, <1>3, <1>5 DEF GreetingMove, GreetingFacts
<1>8. (pc \in {"acquire", "read"} => Greeted /\ ~hello.healthcheck)'
  BY <1>0, <1>3, <1>5 DEF GreetingMove, GreetingFacts
<1>9. ((\E id \in Ids : task[id] # "none") => Greeted /\ ~hello.healthcheck)'
  <2> SUFFICES ASSUME NEW id \in Ids, task'[id] # "none" PROVE Greeted' /\ ~hello'.healthcheck
    OBVIOUS
  <2>1. task[id] # "none" \/ pc = "read"
    BY <1>0 DEF GreetingMove
  <2>2. pc # "handshake"
    BY <2>1 DEF ConnectionInv, DispatchOrder
  <2>3. Greeted /\ ~hello.healthcheck
    BY <2>1 DEF GreetingFacts
  <2>. QED BY <1>0, <1>5, <2>2, <2>3
<1>. QED BY <1>1, <1>6, <1>7, <1>8, <1>9 DEF GreetingFacts

LEMMA GreetingInvariant == Spec => []GreetingFacts
<1>1. Init => GreetingFacts
  BY DEF Init, InitFor, GreetingFacts, Positions
<1>. QED BY <1>1, GreetingKept, TypeCorrect, ConnectionInvariant, PTL DEF Spec

\* Nothing but a refusal is written without the AGENT-HELLO, and a healthcheck or
\* an incompatible HAProxy gets no ACK.
THEOREM GreetingComesFirst == Spec => []HelloFirst
<1>1. ConnectionInv /\ GreetingFacts => HelloFirst
  <2> SUFFICES ASSUME ConnectionInv, GreetingFacts PROVE HelloFirst
    OBVIOUS
  <2>1. ASSUME NEW i \in Positions("ACK")
        PROVE  wire[1].type = "AGENT_HELLO" /\ ~hello.healthcheck /\ config.compatible
    <3>1. \E id \in Ids : task[id] # "none"
      BY <2>1 DEF ConnectionInv, AckFacts
    <3>. QED BY <3>1 DEF GreetingFacts, Greeted, Positions
  <2>. QED BY <2>1 DEF HelloFirst, GreetingFacts
<1>. QED BY <1>1, GreetingInvariant, ConnectionInvariant, PTL

-----------------------------------------------------------------------------
(* Sizes, and the refusal *)

\* The size agreed on exceeds neither side's.
LEMMA NegotiatedSize ==
    ASSUME TypeOK
    PROVE  /\ Negotiate(config, hello).size \in Int
           /\ Negotiate(config, hello).size <= config.size
           /\ Negotiate(config, hello).size <= hello.size
<1> DEFINE versioned == CheckVersionCompatibility(config, hello.versions)
           agreed == IF hello.size < versioned.size THEN hello.size ELSE versioned.size
<1>1. hello.size \in Int /\ config.size \in Int
  BY HandlerAssumption DEF TypeOK, Configurations
<1>2. versioned \in Configurations /\ versioned.size = config.size
  BY DEF TypeOK, CheckVersionCompatibility, Configurations
<1> HIDE DEF versioned
<1>3. FindMaxFrameSize(versioned, hello.size) =
        [versioned EXCEPT !.size = agreed, !.compatible = @ /\ agreed > 0]
  BY DEF FindMaxFrameSize
<1>4. Negotiate(config, hello) =
        FindCommonCapabilities(FindMaxFrameSize(versioned, hello.size), hello.caps)
  BY DEF Negotiate, versioned
<1>5. Negotiate(config, hello).size = agreed
  BY <1>2, <1>3, <1>4 DEF FindCommonCapabilities, Configurations
<1>. QED BY <1>1, <1>2, <1>5

LEMMA SizeKept ==
    TypeOK /\ GreetingFacts /\ SizeFacts /\ GreetingMove /\ WritesAtMostOne /\ hello' = hello
        => SizeFacts'
<1> SUFFICES ASSUME TypeOK, GreetingFacts, SizeFacts, GreetingMove, WritesAtMostOne, hello' = hello
             PROVE  SizeFacts'
  OBVIOUS
<1>1. /\ config.size \in Int /\ hello.size \in Int /\ config'.size \in Int
      /\ config'.size <= config.size
      /\ config' = config \/ (pc = "handshake" /\ config'.size <= hello.size)
  BY NegotiatedSize, HandlerAssumption DEF TypeOK, Configurations, GreetingMove
<1>2. (config.size <= OwnMaxFrameSize)'
  BY <1>1, HandlerAssumption DEF SizeFacts
<1>3. (pc = "handshake" => config.size = OwnMaxFrameSize)'
  BY DEF GreetingMove, SizeFacts
<1>4. CASE wire' = wire
  <2>1. Positions("AGENT_HELLO")' = Positions("AGENT_HELLO")
    BY <1>4 DEF Positions
  <2>2. pc = "handshake" => DOMAIN wire' = {} /\ Positions("AGENT_HELLO") = {}
    BY <1>4 DEF GreetingFacts, Positions
  <2>3. CASE config' = config
    BY <1>2, <1>3, <1>4, <2>1, <2>3 DEF SizeFacts
  <2>4. CASE pc = "handshake"
    BY <1>2, <1>3, <2>1, <2>2, <2>4 DEF SizeFacts
  <2>. QED BY <1>1, <2>3, <2>4
<1>5. CASE WritesHello \/ WritesDisconnect \/ WritesAck
  <2>1. PICK frame : /\ wire' = Append(wire, frame) /\ Fits(frame, config'.size)
                     /\ frame.type = "AGENT_HELLO" => WritesHello
    BY <1>5 DEF WritesHello, WritesDisconnect, WritesAck
  <2>2. frame.len <= config'.size
    BY <1>1, <2>1 DEF Fits
  <2>3. CASE pc = "handshake"
    <3>1. Len(wire) = 0
      BY <2>3 DEF GreetingFacts
    <3>2. DOMAIN wire' = {1} /\ wire'[1] = frame
      BY <2>1, <3>1, Appended
    <3>3. 1 \in Positions("AGENT_HELLO")' => config'.size <= hello.size
      <4>1. WritesHello => config'.size <= hello.size
        BY NegotiatedSize DEF WritesHello
      <4>. QED BY <2>1, <3>2, <4>1 DEF Positions
    <3>. QED BY <1>2, <1>3, <2>2, <3>2, <3>3 DEF SizeFacts
  <2>4. CASE pc # "handshake"
    <3>1. config' = config /\ frame.type # "AGENT_HELLO"
      BY <1>1, <2>1, <2>4 DEF WritesHello
    <3>2. /\ \A i \in DOMAIN wire : wire'[i] = wire[i]
          /\ \A i \in DOMAIN wire' : i \in DOMAIN wire \/ wire'[i] = frame
      BY <2>1, Appended
    <3>3. 1 \in Positions("AGENT_HELLO")' => 1 \in Positions("AGENT_HELLO")
      BY <3>1, <3>2 DEF Positions
    <3>4. \A i \in DOMAIN wire' : wire'[i].len <= config'.size
      BY <2>2, <3>1, <3>2 DEF SizeFacts
    <3>. QED BY <1>2, <1>3, <3>1, <3>3, <3>4 DEF SizeFacts
  <2>. QED BY <2>3, <2>4
<1>. QED BY <1>4, <1>5 DEF WritesAtMostOne, WritesNoAck

\* Every frame fits the agent's own limit and, once it is known, HAProxy's.
THEOREM EveryFrameFits == Spec => []FramesFit
<1>1. Init => SizeFacts
  BY HandlerAssumption DEF Init, InitFor, InitialConfig, SizeFacts, Positions
<1>2. TypeOK /\ ConnectionInv /\ GreetingFacts /\ SizeFacts /\ [Next]_vars => SizeFacts'
  BY SizeKept, GreetingMoves, Writes, HelloFixed
<1>3. TypeOK /\ SizeFacts => FramesFit
  <2> SUFFICES ASSUME TypeOK, SizeFacts, NEW i \in DOMAIN wire
               PROVE  /\ wire[i].len <= OwnMaxFrameSize
                      /\ 1 \in Positions("AGENT_HELLO") => wire[i].len <= hello.size
    BY DEF FramesFit
  <2>1. wire[i] \in WireFrames
    BY DEF TypeOK
  <2>2. wire[i].len \in Int /\ config.size \in Int /\ hello.size \in Int
    BY <2>1, HandlerAssumption DEF WireFrames, TypeOK, Configurations
  <2>. QED BY <2>2, HandlerAssumption DEF SizeFacts
<1>. QED BY <1>1, <1>2, <1>3, GreetingInvariant, ConnectionInvariant, TypeCorrect, PTL DEF Spec

\* The AGENT-HELLO is no shorter than an ACK without actions, whatever ids that
\* has, so where it has been sent the salvaged ACK fits.
RoomFacts ==
    \A i \in Positions("AGENT_HELLO") : \A id \in Ids : wire[i].len >= EmptyAckLen(IdsLen[id])

LEMMA RoomKept == TypeOK /\ RoomFacts /\ WritesAtMostOne => RoomFacts'
<1> SUFFICES ASSUME TypeOK, RoomFacts, WritesAtMostOne PROVE RoomFacts'
  OBVIOUS
<1>1. CASE wire' = wire
  BY <1>1 DEF RoomFacts, Positions
<1>2. CASE WritesHello \/ WritesDisconnect \/ WritesAck
  <2>1. PICK frame : /\ wire' = Append(wire, frame)
                     /\ frame.type = "AGENT_HELLO" =>
                            \A id \in Ids : frame.len >= EmptyAckLen(IdsLen[id])
    BY <1>2 DEF WritesHello, WritesDisconnect, WritesAck
  <2>2. /\ \A i \in DOMAIN wire : wire'[i] = wire[i]
        /\ \A i \in DOMAIN wire' : i \in DOMAIN wire \/ wire'[i] = frame
    BY <2>1, Appended
  <2>. QED BY <2>1, <2>2 DEF RoomFacts, Positions
<1>. QED BY <1>1, <1>2 DEF WritesAtMostOne, WritesNoAck

\* A step that ends a task with "TooBig" would have sent a salvaged ACK too big
\* for the size in force.
LEMMA TooBigEnds ==
    ASSUME TypeOK, [Next]_vars, NEW id \in Ids, result'[id] = "TooBig", result[id] # "TooBig"
    PROVE  /\ task[id] = "running"
           /\ \E reply \in Replies :
                ~Fits(AckFrame(id, Salvaged(reply, config.size, IdsLen[id])), config.size)
<1>1. PICK i \in Ids : TaskStep(i) \/ HandlerStep(i)
  <2>1. ConnectionStep \/ TransportStep \/ PeerStep \/ UNCHANGED vars => result' = result
    BY DEF ConnectionStep, ReceiveHello, RefuseFirstFrame, EofInHandshake, FinishHello,
           DecodeRaises, Acquire, ReadNotify, ReadDisconnect, ReadUnexpected, ReadEof, FinishBye,
           LeaveGroup, HandleTooBig, HandleSpoe, FinishReport, CloseConnection, WaitClosed, Escape,
           TransportStep, NoticeReset, NoticeTlsEof, FinishClose,
           PeerStep, PeerSend, PeerEof, PeerReset, PeerReads, taskVars, vars
  <2>. QED BY <2>1 DEF Next
<1>2. ASSUME NEW res, EndTask(i, res) PROVE i = id /\ res = "TooBig"
  BY <1>2 DEF EndTask, TypeOK
<1>3. CASE TaskStep(i) \/ HandlerCancels(i)
  BY <1>2, <1>3 DEF TaskStep, StartTask, CancelTask, FinishAck, ReapTask, HandlerCancels,
                    taskVars, TypeOK
<1>4. CASE HandlerReturns(i)
  <2>1. PICK reply \in Replies :
          \/ EndTask(i, "Spoe") \/ EndTask(i, "Foreign") \/ SendReply(i, reply)
    BY <1>4 DEF HandlerReturns
  <2>2. SendReply(i, reply)
    BY <1>2, <2>1
  <2>3. task[i] = "running"
    BY <1>4 DEF HandlerReturns
  <2>4. ASSUME NEW actions, SendAck(i, AckFrame(i, actions))
        PROVE  i = id /\ ~Fits(AckFrame(i, actions), config.size)
    <3>1. PICK r \in SendOutcomes :
            /\ SendFrame(AckFrame(i, actions), config.size, r)
            /\ \/ r \in {"sent", "skipped"} /\ EndTask(i, "ok")
               \/ r \in {"TooBig", "Conn"} /\ EndTask(i, r)
               \/ r = "drain" /\ UNCHANGED result
      BY <2>4 DEF SendAck
    <3>2. r = "TooBig" /\ i = id
      BY <1>2, <3>1
    <3>. QED BY <3>1, <3>2 DEF SendFrame
  <2>. QED BY <2>2, <2>3, <2>4 DEF SendReply
<1>. QED BY <1>1, <1>3, <1>4 DEF HandlerStep

\* No NOTIFY fails because its reply is too big: where a task runs, the size in
\* force holds an empty ACK, and so the salvaged one.
THEOREM NoReplyTooBig == Spec => []SalvageAlwaysFits
<1>1. Init => RoomFacts /\ SizeFacts /\ SalvageAlwaysFits
  BY HandlerAssumption
  DEF Init, InitFor, InitialConfig, RoomFacts, SizeFacts, Positions, SalvageAlwaysFits
<1>2. /\ TypeOK /\ ConnectionInv /\ GreetingFacts /\ SizeFacts /\ RoomFacts /\ [Next]_vars
        => SizeFacts' /\ RoomFacts'
  BY SizeKept, RoomKept, GreetingMoves, Writes, HelloFixed
<1>3. /\ TypeOK /\ GreetingFacts /\ SizeFacts /\ RoomFacts /\ SalvageAlwaysFits /\ [Next]_vars
        => SalvageAlwaysFits'
  <2> SUFFICES ASSUME TypeOK, GreetingFacts, SizeFacts, RoomFacts, SalvageAlwaysFits, [Next]_vars,
                      NEW id \in Ids, result'[id] = "TooBig"
               PROVE  FALSE
    BY DEF SalvageAlwaysFits
  <2> DEFINE ids == IdsLen[id]
  <2>1. task[id] = "running" /\ \E reply \in Replies :
          ~Fits(AckFrame(id, Salvaged(reply, config.size, ids)), config.size)
    BY TooBigEnds DEF SalvageAlwaysFits
  <2>2. PICK reply \in Replies :
          ~Fits(AckFrame(id, Salvaged(reply, config.size, ids)), config.size)
    BY <2>1
  <2>3. 1 \in Positions("AGENT_HELLO")
    BY <2>1 DEF GreetingFacts, Greeted
  <2>4. config.size \in Int /\ wire[1] \in WireFrames /\ wire[1].len \in Int
    <3>1. wire \in Seq(WireFrames) /\ 1 \in DOMAIN wire
      BY <2>3 DEF TypeOK, Positions
    <3>2. wire[1] \in WireFrames
      BY <3>1
    <3>. QED BY <3>2 DEF TypeOK, Configurations, WireFrames
  <2>5. ids \in Nat /\ EmptyAckLen(ids) \in Nat \ {0}
    <3>1. ids \in 2 .. 20
      BY HandlerAssumption
    <3>. QED BY <3>1, EmptyAckLenType
  <2>10. wire[1].len >= EmptyAckLen(ids) /\ wire[1].len <= config.size
    BY <2>3 DEF RoomFacts, SizeFacts, Positions
  <2> HIDE DEF ids
  <2>6. EmptyAckLen(ids) <= config.size
    BY <2>4, <2>5, <2>10
  <2> DEFINE A == [len : Nat, enc : {"ok", "bad", "alien"}]
             kept == Salvaged(reply, config.size, ids)
  <2>7. reply \in Seq(A) /\ \A a \in A : a.len \in Nat
    BY HandlerAssumption
  <2>8. kept \in Seq(A) /\ AckLen(kept, ids) <= config.size
    <3> HIDE DEF A
    <3>. QED BY <2>4, <2>5, <2>6, <2>7, SalvagedFits
  <2>9. AckLen(kept, ids) \in Nat \ {0}
    <3> HIDE DEF A, kept
    <3>1. ActionsLen(kept) \in Nat
      BY <2>7, <2>8, ActionsLenType
    <3>. QED BY <2>5, <3>1 DEF AckLen
  <2>. QED BY <2>2, <2>4, <2>8, <2>9 DEF Fits, AckFrame, ids
<1>. QED
  BY <1>1, <1>2, <1>3, GreetingInvariant, ConnectionInvariant, TypeCorrect, PTL DEF Spec

\* A version 2.x and a positive size on both sides are all that it takes.
LEMMA CompatibleHello ==
    ASSUME TypeOK, config.size > 0, hello.size > 0,
           NEW x \in 0 .. 99, <<2, x>> \in ToSet(hello.versions)
    PROVE  Negotiate(config, hello).compatible
<1> DEFINE versioned == CheckVersionCompatibility(config, hello.versions)
           agreed == IF hello.size < versioned.size THEN hello.size ELSE versioned.size
<1>1. hello.size \in Int /\ config.size \in Int
  BY HandlerAssumption DEF TypeOK, Configurations
<1>2. PICK i \in DOMAIN hello.versions : hello.versions[i] = <<2, x>>
  BY DEF ToSet
<1>3. Parses(<<2, x>>) /\ VersionLeq(SpoeVersion, <<2, x>>) /\ <<2, x>>[1] = SpoeVersion[1]
  BY DEF Parses, VersionLeq, SpoeVersion
<1>4. versioned \in Configurations /\ versioned.size = config.size /\ versioned.compatible
  BY <1>2, <1>3 DEF TypeOK, CheckVersionCompatibility, Configurations
<1> HIDE DEF versioned
<1>5. FindMaxFrameSize(versioned, hello.size) =
        [versioned EXCEPT !.size = agreed, !.compatible = @ /\ agreed > 0]
  BY DEF FindMaxFrameSize
<1>6. agreed > 0
  BY <1>1, <1>4
<1>7. Negotiate(config, hello) =
        FindCommonCapabilities(FindMaxFrameSize(versioned, hello.size), hello.caps)
  BY DEF Negotiate, versioned
<1>. QED BY <1>4, <1>5, <1>6, <1>7 DEF FindCommonCapabilities, Configurations

\* An agent that has a frame size of its own refuses only HAProxys that offer no
\* SPOP 2.x, or no frame size.
THEOREM RefusesOnlyIncompatible ==
    ASSUME OwnMaxFrameSize > 0 PROVE Spec => []OnlyIncompatibleRefused
<1>1. Init => OnlyIncompatibleRefused
  BY DEF Init, InitFor, OnlyIncompatibleRefused
<1>2. TypeOK /\ SizeFacts /\ OnlyIncompatibleRefused /\ WritesAtMostOne /\ hello' = hello
        => OnlyIncompatibleRefused'
  <2> SUFFICES ASSUME TypeOK, SizeFacts, OnlyIncompatibleRefused, WritesAtMostOne, hello' = hello,
                      NEW i \in DOMAIN wire', wire'[i].code = "SERVER_INCOMPATIBLE"
               PROVE  hello.size <= 0 \/ ToSet(hello.versions) \cap {<<2, x>> : x \in 0 .. 99} = {}
    BY DEF OnlyIncompatibleRefused
  <2>1. CASE i \in DOMAIN wire /\ wire'[i] = wire[i]
    BY <2>1 DEF OnlyIncompatibleRefused
  <2>2. CASE pc = "handshake" /\ ~Negotiate(config, hello).compatible
    <3>1. config.size > 0 /\ hello.size \in Int
      BY <2>2, HandlerAssumption DEF SizeFacts, TypeOK
    <3>2. \A x \in 0 .. 99 : hello.size > 0 => <<2, x>> \notin ToSet(hello.versions)
      BY <2>2, <3>1, CompatibleHello
    <3>3. ~(hello.size > 0) => hello.size <= 0
      BY <3>1
    <3> DEFINE newer(x) == <<2, x>>
    <3>4. \A x \in 0 .. 99 : hello.size > 0 => newer(x) \notin ToSet(hello.versions)
      BY <3>2
    <3> HIDE DEF newer
    <3>5. hello.size > 0 => ToSet(hello.versions) \cap {newer(x) : x \in 0 .. 99} = {}
      BY <3>4
    <3>. QED BY <3>3, <3>5 DEF newer
  <2>3. CASE wire' = wire
    BY <2>1, <2>3
  <2>4. CASE WritesHello \/ WritesDisconnect \/ WritesAck
    <3>1. PICK frame :
            /\ wire' = Append(wire, frame)
            /\ frame.code = "SERVER_INCOMPATIBLE"
                => pc = "handshake" /\ ~Negotiate(config, hello).compatible
      BY <2>4 DEF WritesHello, WritesDisconnect, WritesAck
    <3>2. (i \in DOMAIN wire /\ wire'[i] = wire[i]) \/ wire'[i] = frame
      BY <3>1, Appended
    <3>. QED BY <2>1, <2>2, <3>1, <3>2
  <2>. QED BY <2>3, <2>4 DEF WritesAtMostOne, WritesNoAck
<1>3. Init => SizeFacts
  BY HandlerAssumption DEF Init, InitFor, InitialConfig, SizeFacts, Positions
<1>4. TypeOK /\ ConnectionInv /\ GreetingFacts /\ SizeFacts /\ [Next]_vars => SizeFacts'
  BY SizeKept, GreetingMoves, Writes, HelloFixed
<1>. QED
  BY <1>1, <1>2, <1>3, <1>4, Writes, HelloFixed, GreetingInvariant, ConnectionInvariant,
     TypeCorrect, PTL DEF Spec

-----------------------------------------------------------------------------
(* Reports of errors *)

LEMMA ReportsStay ==
    ASSUME TypeOK, WritesAtMostOne, NEW code, Reported(code) PROVE Reported(code)'
<1>1. CASE wire' = wire
  BY <1>1 DEF Reported
<1>2. CASE \E frame : wire' = Append(wire, frame)
  BY <1>2, Appended DEF Reported
<1>. QED BY <1>1, <1>2 DEF WritesAtMostOne, WritesNoAck, WritesHello, WritesDisconnect, WritesAck

\* core_handler leaves its group once, when every task is done, and no task or
\* error comes after that.
ExitMove ==
    /\ PastGroup => PastGroup' /\ UNCHANGED <<task, errors>>
    /\ PastGroup' => PastGroup \/ LeaveGroup

LEMMA ExitMoves ==
    TypeOK /\ ConnectionInv /\ (PastGroup => GroupDone) /\ [Next]_vars => ExitMove
<1> SUFFICES ASSUME TypeOK, ConnectionInv, PastGroup => GroupDone, [Next]_vars PROVE ExitMove
  OBVIOUS
<1>1. CASE ReceiveHello \/ FinishHello
  <2>1. pc \in {"handshake", "hello_drain"}
    BY <1>1 DEF ReceiveHello, FinishHello
  <2>2. pc' \in {"acquire", "hello_drain", "bye_drain", "join"}
    BY <1>1 DEF ReceiveHello, FinishHello, SendAgentHello, SendThenClose, AfterHello, StartReading,
                RaiseInBody
  <2>. QED BY <2>1, <2>2 DEF ExitMove, PastGroup, ExitPcs
<1>2. CASE \/ RefuseFirstFrame \/ ReadDisconnect \/ ReadUnexpected \/ EofInHandshake
           \/ DecodeRaises \/ ReadEof \/ FinishBye
  <2>1. pc \in BodyPcs /\ pc' \in {"bye_drain", "join"}
    BY <1>2 DEF RefuseFirstFrame, ReadDisconnect, ReadUnexpected, EofInHandshake, DecodeRaises,
                ReadEof, FinishBye, SendThenClose, RaiseInBody, BodyPcs
  <2>. QED BY <2>1 DEF ExitMove, PastGroup, ExitPcs, BodyPcs
<1>3. CASE Acquire \/ ReadNotify
  BY <1>3 DEF Acquire, ReadNotify, ExitMove, PastGroup, ExitPcs
<1>4. CASE LeaveGroup
  BY <1>4 DEF LeaveGroup, ExitMove, PastGroup, ExitPcs
<1>5. CASE HandleTooBig \/ HandleSpoe \/ FinishReport \/ CloseConnection \/ WaitClosed \/ Escape
  <2>1. PastGroup /\ PastGroup' /\ UNCHANGED <<task, errors>>
    BY <1>5 DEF HandleTooBig, HandleSpoe, FinishReport, CloseConnection, WaitClosed, Escape,
                ReportError, AfterTooBig, PastGroup, ExitPcs, taskVars, groupVars
  <2>. QED BY <2>1 DEF ExitMove
<1>6. CASE \E id \in Ids : TaskStep(id) \/ HandlerStep(id)
  <2>1. PICK id \in Ids : TaskStep(id) \/ HandlerStep(id)
    BY <1>6
  <2>2. task[id] \notin {"none", "reaped"} /\ (pc' = pc \/ pc' = "join")
    BY <2>1 DEF TaskStep, HandlerStep, StartTask, CancelTask, FinishAck, ReapTask, HandlerReturns,
                HandlerCancels, Live
  <2>3. ~PastGroup
    BY <2>2 DEF GroupDone
  <2>. QED BY <2>2, <2>3 DEF ExitMove, PastGroup
<1>7. CASE TransportStep \/ PeerStep \/ UNCHANGED vars
  BY <1>7 DEF ExitMove, PastGroup, TransportStep, NoticeReset, NoticeTlsEof, FinishClose, PeerStep,
              PeerSend, PeerEof, PeerReset, PeerReads, taskVars, groupVars, vars
<1>. QED BY <1>1, <1>2, <1>3, <1>4, <1>5, <1>6, <1>7 DEF Next, ConnectionStep

LEMMA ReportKept == TypeOK /\ ReportFacts /\ ExitMove /\ WritesAtMostOne => ReportFacts'
<1> SUFFICES ASSUME TypeOK, ReportFacts, ExitMove, WritesAtMostOne PROVE ReportFacts'
  OBVIOUS
<1>1. (PastGroup => GroupDone)'
  BY DEF ExitMove, LeaveGroup, ReportFacts, GroupDone, taskVars
<1>2. CASE wire' = wire
  <2>1. NoAckAfterErrorReport'
    BY <1>2 DEF ReportFacts, NoAckAfterErrorReport, Positions
  <2>2. (\A code \in ErrorCodes : Reported(code) => PastGroup)'
    BY <1>2 DEF ReportFacts, Reported, ExitMove
  <2>. QED BY <1>1, <2>1, <2>2 DEF ReportFacts
<1>3. CASE WritesHello \/ WritesDisconnect \/ WritesAck
  <2>1. PICK frame :
          /\ wire' = Append(wire, frame)
          /\ frame.code \in ErrorCodes => PastGroup
          /\ frame.type = "ACK" => ~PastGroup
    BY <1>3 DEF WritesHello, WritesDisconnect, WritesAck, ErrorCodes, PastGroup, ExitPcs,
                ReportFacts, GroupDone
  <2> DEFINE last == Len(wire) + 1
  <2>2. /\ last \in Nat /\ last \in DOMAIN wire' /\ wire'[last] = frame
        /\ \A i \in DOMAIN wire : wire'[i] = wire[i] /\ i < last
        /\ \A i \in DOMAIN wire' : i \in DOMAIN wire \/ i = last
    BY <2>1, Appended
  <2> HIDE DEF last
  <2>3. (\A code \in ErrorCodes : Reported(code) => PastGroup)'
    <3>1. ASSUME NEW i \in DOMAIN wire', wire'[i].code \in ErrorCodes PROVE PastGroup
      BY <2>1, <2>2, <3>1 DEF ReportFacts, Reported
    <3>. QED BY <3>1 DEF Reported, ExitMove
  <2>4. NoAckAfterErrorReport'
    <3> SUFFICES ASSUME NEW i \in DOMAIN wire', NEW j \in DOMAIN wire',
                        wire'[i].type = "AGENT_DISCONNECT", wire'[j].type = "ACK",
                        wire'[i].code \in ErrorCodes
                 PROVE  j < i
      BY DEF NoAckAfterErrorReport, Positions, ErrorCodes
    <3>1. CASE i \in DOMAIN wire
      <4>1. PastGroup
        BY <2>2, <3>1 DEF ReportFacts, Reported
      <4>2. j \in DOMAIN wire
        BY <2>1, <2>2, <4>1
      <4>. QED BY <2>2, <3>1, <4>2 DEF ReportFacts, NoAckAfterErrorReport, Positions, ErrorCodes
    <3>2. CASE i = last
      <4>1. j # last
        BY <2>1, <2>2, <3>2
      <4>. QED BY <2>2, <3>2, <4>1
    <3>. QED BY <2>2, <3>1, <3>2
  <2>. QED BY <1>1, <2>3, <2>4 DEF ReportFacts
<1>. QED BY <1>2, <1>3 DEF WritesAtMostOne, WritesNoAck

LEMMA ReportInvariant == Spec => []ReportFacts
<1>1. Init => ReportFacts
  BY DEF Init, InitFor, ReportFacts, PastGroup, ExitPcs, Reported, NoAckAfterErrorReport, Positions
<1>2. TypeOK /\ ConnectionInv /\ ReportFacts /\ [Next]_vars => ReportFacts'
  BY ReportKept, ExitMoves, Writes DEF ReportFacts
<1>. QED BY <1>1, <1>2, TypeCorrect, ConnectionInvariant, PTL DEF Spec

\* No ACK follows the report of an error, whatever handlers do with their
\* cancellation and however many errors there are.
THEOREM ReportIsLast == Spec => []NoAckAfterErrorReport
<1>1. ReportFacts => NoAckAfterErrorReport
  BY DEF ReportFacts
<1>. QED BY <1>1, ReportInvariant, PTL

-----------------------------------------------------------------------------
(* Every error is reported *)

\* The stream takes a disconnect of a clause, or the clause raises, or the stream
\* is not open.
LEMMA ClauseReports ==
    ASSUME TypeOK, NEW code, NEW n, NEW waiting, NEW next, ReportError(code, n, waiting, next)
    PROVE  /\ pc' \in {waiting, next}
           /\ escaped \subseteq escaped'
           /\ transport' = transport \/ transport' = "reset"
           /\ transport' = "open" /\ escaped' = {} => Reported(code)'
           /\ pc' = waiting /\ waiting # next => Reported(code)'
<1> DEFINE frame == DisconnectFrame(code, Truncated(n))
<1>1. frame.code = code
  BY DEF DisconnectFrame
<1> HIDE DEF frame
<1>2. PICK r \in SendOutcomes :
        /\ SendFrame(frame, config.size, r)
        /\ escaped' = escaped \union ({r} \cap {"TooBig", "Conn"})
        /\ pc' = IF r = "drain" THEN waiting ELSE next
  BY DEF ReportError, frame
<1>3. r \in {"sent", "drain"} => Reported(code)'
  <2> SUFFICES ASSUME r \in {"sent", "drain"} PROVE Reported(code)'
    OBVIOUS
  <2>1. wire' = Append(wire, frame)
    BY <1>2 DEF SendFrame
  <2>. QED BY <1>1, <2>1, Appended DEF Reported
<1>4. transport' = "open" /\ escaped' = {} => r \in {"sent", "drain"}
  BY <1>2 DEF SendFrame, SendOutcomes, linkVars
<1>5. transport' = transport \/ transport' = "reset"
  BY <1>2 DEF SendFrame, linkVars
<1>. QED BY <1>2, <1>3, <1>4, <1>5

LEMMA ClauseKept ==
    ASSUME TypeOK, PastGroup => GroupDone, ClauseFacts, [Next]_vars, WritesAtMostOne
    PROVE  ClauseFacts'
<1>0. \A code \in ErrorCodes : Reported(code) => Reported(code)'
  BY ReportsStay
<1>1. CASE LeaveGroup
  BY <1>1 DEF LeaveGroup, FirstClause, Due, ClauseFacts, Reported,
              linkVars, groupVars, peerVars
<1>2. CASE HandleTooBig
  <2>1. /\ pc = "except_toobig" /\ UNCHANGED <<errors, eof>>
        /\ pc' \in {"toobig_drain", AfterTooBig}
        /\ AfterTooBig \in {"except_spoe", "unwind"}
        /\ transport' = transport \/ transport' = "reset"
        /\ transport' = "open" /\ escaped' = {} => Reported("FRAME_TOO_BIG")'
        /\ pc' = "toobig_drain" => Reported("FRAME_TOO_BIG")'
    BY <1>2, ClauseReports DEF HandleTooBig, AfterTooBig, peerVars, groupVars
  <2>2. pc' = "unwind" => errors \cap SpoeErrors = {}
    BY <2>1 DEF AfterTooBig
  <2>. QED BY <2>1, <2>2 DEF Due, ClauseFacts
<1>3. CASE HandleSpoe
  <2>1. /\ pc = "except_spoe" /\ UNCHANGED <<errors, eof>>
        /\ pc' \in {"spoe_drain", "unwind"}
        /\ escaped \subseteq escaped'
        /\ transport' = transport \/ transport' = "reset"
        /\ transport' = "open" /\ escaped' = {} => Reported("PROTOCOL_ERROR")'
        /\ pc' = "spoe_drain" => Reported("PROTOCOL_ERROR")'
    BY <1>3, ClauseReports DEF HandleSpoe, peerVars, groupVars
  <2>2. transport' = "open" /\ escaped' = {} => transport = "open" /\ escaped = {}
    BY <2>1
  <2>. QED BY <1>0, <2>1, <2>2 DEF Due, ClauseFacts, ErrorCodes
<1>4. CASE FinishReport
  <2>1. /\ pc \in {"toobig_drain", "spoe_drain"}
        /\ pc' = IF pc = "toobig_drain" THEN AfterTooBig ELSE "unwind"
        /\ escaped \subseteq escaped'
        /\ UNCHANGED <<transport, wire, errors, eof>>
    BY <1>4 DEF FinishReport, peerVars, linkVars, groupVars
  <2>2. pc' \in {"except_spoe", "unwind"}
    BY <2>1 DEF AfterTooBig
  <2>3. pc = "toobig_drain" /\ pc' = "unwind" => errors \cap SpoeErrors = {}
    BY <2>1 DEF AfterTooBig
  <2>4. \A code : Reported(code)' <=> Reported(code)
    BY <2>1 DEF Reported
  <2>5. escaped' = {} => escaped = {}
    BY <2>1
  <2>. QED BY <2>1, <2>2, <2>3, <2>4, <2>5 DEF Due, ClauseFacts
<1>5. CASE CloseConnection
  <2>1. /\ pc = "unwind" /\ pc' = "closing" /\ escaped = {}
        /\ UNCHANGED <<wire, errors, eof>>
        /\ transport' = IF transport = "open" THEN "closing" ELSE transport
    BY <1>5 DEF CloseConnection, CloseTransport, Unhandled, peerVars, groupVars
  <2>2. \A code : Reported(code)' <=> Reported(code)
    BY <2>1 DEF Reported
  <2>. QED BY <2>1, <2>2 DEF Due, ClauseFacts
<1>6. CASE WaitClosed \/ Escape
  BY <1>6 DEF WaitClosed, Escape, Due, ClauseFacts
<1>7. CASE TransportStep \/ PeerStep \/ UNCHANGED vars
  <2>1. /\ UNCHANGED <<wire, pc, errors, escaped>>
        /\ Tls /\ eof => eof'
        /\ transport' = "open" => transport = "open"
        /\ transport' = "closing" => transport = "closing" \/ (Tls /\ eof)
    BY <1>7 DEF TransportStep, NoticeReset, NoticeTlsEof, FinishClose, PeerStep, PeerSend, PeerEof,
                PeerReset, PeerReads, peerVars, linkVars, groupVars, vars
  <2>2. \A code : Reported(code)' <=> Reported(code)
    BY <2>1 DEF Reported
  <2>. QED BY <2>1, <2>2 DEF Due, ClauseFacts
<1>8. ASSUME pc \notin {"closing", "closed", "crashed"}, pc' \in BodyPcs \union {"join"},
             transport' = transport \/ transport' = "reset", eof' = eof
      PROVE  ClauseFacts'
  BY <1>8 DEF Due, ClauseFacts, BodyPcs
<1>9. CASE ReceiveHello \/ FinishHello
  <2>1. /\ pc \in {"handshake", "hello_drain"} /\ eof' = eof
        /\ pc' \in {"acquire", "hello_drain", "bye_drain", "join"}
        /\ transport' = transport \/ transport' = "reset"
    BY <1>9 DEF ReceiveHello, FinishHello, SendAgentHello, SendThenClose, SendFrame, AfterHello,
                StartReading, RaiseInBody, Decoded, peerVars, linkVars
  <2>. QED BY <1>8, <2>1 DEF BodyPcs
<1>10. CASE \/ RefuseFirstFrame \/ ReadDisconnect \/ ReadUnexpected \/ EofInHandshake
            \/ DecodeRaises \/ ReadEof \/ FinishBye
  <2>1. /\ pc \in BodyPcs /\ eof' = eof
        /\ pc' \in {"bye_drain", "join"}
        /\ transport' = transport \/ transport' = "reset"
    BY <1>10 DEF RefuseFirstFrame, ReadDisconnect, ReadUnexpected, EofInHandshake, DecodeRaises,
                 ReadEof, FinishBye, SendThenClose, SendFrame, RaiseInBody, Decoded, BodyPcs,
                 peerVars, linkVars
  <2>. QED BY <1>8, <2>1 DEF BodyPcs
<1>11. CASE Acquire \/ ReadNotify
  <2>1. pc \in BodyPcs /\ pc' \in BodyPcs /\ UNCHANGED <<eof, transport>>
    BY <1>11 DEF Acquire, ReadNotify, Decoded, BodyPcs, peerVars, linkVars
  <2>. QED BY <1>8, <2>1 DEF BodyPcs
<1>12. CASE \E id \in Ids : TaskStep(id) \/ HandlerStep(id)
  <2>1. PICK id \in Ids : TaskStep(id) \/ HandlerStep(id)
    BY <1>12
  <2>2. /\ eof' = eof /\ (pc' = pc \/ pc' = "join")
        /\ transport' = transport \/ transport' = "reset"
        /\ task[id] \notin {"none", "reaped"}
    BY <2>1 DEF TaskStep, HandlerStep, StartTask, CancelTask, FinishAck, ReapTask, HandlerReturns,
                HandlerCancels, SendReply, SendAck, SendFrame, Live, peerVars, linkVars
  <2>3. ~PastGroup /\ pc \in BodyPcs \union ExitPcs
    BY <2>2 DEF GroupDone, TypeOK
  <2>. QED BY <1>8, <2>2, <2>3 DEF PastGroup, ExitPcs
<1>. QED
  BY <1>1, <1>2, <1>3, <1>4, <1>5, <1>6, <1>7, <1>9, <1>10, <1>11, <1>12 DEF Next, ConnectionStep

\* A protocol error is reported before an orderly close, unless the stream is lost.
THEOREM ErrorsAreReported == Spec => []ErrorsReported
<1>1. Init => ClauseFacts
  BY DEF Init, InitFor, ClauseFacts, Due
<1>2. TypeOK /\ ReportFacts /\ ClauseFacts /\ [Next]_vars => ClauseFacts'
  BY ClauseKept, Writes DEF ReportFacts
<1>3. ClauseFacts => ErrorsReported
  BY DEF ClauseFacts, Due, ErrorsReported, Reported
<1>. QED BY <1>1, <1>2, <1>3, ReportInvariant, TypeCorrect, PTL DEF Spec
=============================================================================
