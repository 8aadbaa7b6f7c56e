-------------------------- MODULE HealthcheckProofs --------------------------
(***************************************************************************)
(* A healthcheck succeeds only after a completed handshake, for every      *)
(* frame size of the agent.                                                *)
(***************************************************************************)
EXTENDS Healthcheck, ForgeHandlerReports

\* The answer is the first frame on the stream, which does not change any more,
\* and an AGENT-HELLO there holds the configuration agreed with this client.
CheckFacts ==
    /\ hello = HealthcheckHello
    /\ client = "connecting" => nSent = 0
    /\ pc = "handshake" => wire = <<>>
    /\ 1 \in Positions("AGENT_HELLO") => config.compatible /\ config.size <= DefaultFrameSize
    /\ answer # "none" => wire # <<>> /\ answer = wire[1].type
    /\ client \in {"connecting", "waiting"} => answer = "none"
    /\ verdict = "healthy" => answer = "AGENT_HELLO"

LEMMA HealthInitFacts == HealthInit => TypeOK /\ CheckFacts
<1> SUFFICES ASSUME HealthInit PROVE TypeOK /\ CheckFacts
  OBVIOUS
<1>1. PICK ownSize \in AgentSizes : InitFor(ownSize)
  BY DEF HealthInit
<1>2. TypeOK
  <2>1. config \in Configurations
    BY <1>1, HealthAssumption DEF InitFor, InitialConfig, Configurations
  <2>2. nSent \in 0 .. MaxFrames /\ slots \in Nat
    BY <1>1, HandlerAssumption DEF InitFor
  <2>3. inbox \in Seq(ReceivedFrames) /\ wire \in Seq(WireFrames)
    BY <1>1 DEF InitFor
  <2>4. /\ task \in [Ids -> TaskStates]
        /\ result \in [Ids -> Results]
        /\ cancel \in [Ids -> BOOLEAN]
    BY <1>1 DEF InitFor, TaskStates, Results
  <2>. QED BY <1>1, <2>1, <2>2, <2>3, <2>4 DEF InitFor, TypeOK, BodyPcs
<1>3. CheckFacts
  BY <1>1 DEF HealthInit, InitFor, CheckFacts, Positions
<1>. QED BY <1>2, <1>3

LEMMA HealthType ==
    ASSUME TypeOK, CheckFacts, [HealthNext]_healthVars PROVE TypeOK'
<1>1. CASE AgentStep
  BY <1>1, TypeConnection, TypeEnvironment DEF AgentStep
<1>2. CASE Connect
  <2>1. HealthcheckKind \in FrameKinds /\ 1 \in 1 .. (MaxFrames + 1) /\ 1 \in 0 .. MaxFrames
    BY HandlerAssumption, HealthAssumption DEF HealthcheckKind, FrameKinds
  <2>2. [kind |-> HealthcheckKind, id |-> 1] \in ReceivedFrames
    BY <2>1 DEF ReceivedFrames
  <2>3. inbox' \in Seq(ReceivedFrames) /\ nSent' \in 0 .. MaxFrames
    BY <1>2, <2>1, <2>2 DEF Connect
  <2>. QED BY <1>2, <2>3 DEF Connect, TypeOK, agentVars, linkVars, taskVars, groupVars
<1>3. CASE \/ ConnectFails \/ ReceiveAnswer \/ AnswerTimesOut \/ ReceiveFails \/ FinishClosing
           \/ ClientExits \/ Break \/ UNCHANGED healthVars
  <2>1. /\ UNCHANGED <<hello, nSent, inbox, transport, paused, wire, pc, config, task, result,
                       slots, aborting, errors, cancel, escaped>>
        /\ eof' \in {eof, TRUE} /\ peer' \in {peer, "gone"}
    BY <1>3 DEF ConnectFails, ReceiveAnswer, AnswerTimesOut, ReceiveFails, FinishClosing,
                ClientExits, Break, agentVars, peerVars, linkVars, taskVars, groupVars, healthVars, vars
  <2>. QED BY <2>1 DEF TypeOK
<1>. QED BY <1>1, <1>2, <1>3 DEF HealthNext, ClientStep

LEMMA AgentKeepsFacts ==
    ASSUME TypeOK, CheckFacts, AgentStep, UNCHANGED clientVars PROVE CheckFacts'
<1>1. [Next]_vars
  BY DEF AgentStep, Next
<1>2. hello' = hello
  BY <1>1, HelloFixed
<1>3. nSent' = nSent
  BY DEF AgentStep, ConnectionStep, ReceiveHello, RefuseFirstFrame, EofInHandshake, FinishHello,
         DecodeRaises, Acquire, ReadNotify, ReadDisconnect, ReadUnexpected, ReadEof, FinishBye,
         LeaveGroup, HandleTooBig, HandleSpoe, FinishReport, CloseConnection, WaitClosed, Escape,
         Decoded, TransportStep, NoticeReset, NoticeTlsEof, FinishClose, peerVars
<1>4. UNCHANGED <<pc, config, wire>> \/ (GreetingMove /\ WritesNoAck)
  BY GreetingConnection, ConnectionWrites
  DEF AgentStep, TransportStep, NoticeReset, NoticeTlsEof, FinishClose
<1>5. CASE wire' = wire /\ config' = config
  <2>1. Positions("AGENT_HELLO")' = Positions("AGENT_HELLO")
    BY <1>5 DEF Positions
  <2>. QED BY <1>2, <1>3, <1>4, <1>5, <2>1 DEF CheckFacts, clientVars, GreetingMove
<1>6. CASE \E frame : wire' = Append(wire, frame) /\ GreetingMove /\ WritesNoAck
  <2>1. PICK frame :
          /\ wire' = Append(wire, frame)
          /\ frame.type = "AGENT_HELLO" => WritesHello
    BY <1>6 DEF WritesNoAck, WritesHello, WritesDisconnect
  <2>2. /\ wire' # <<>> /\ pc' # "handshake"
        /\ wire # <<>> => wire'[1] = wire[1] /\ 1 \in DOMAIN wire
        /\ wire = <<>> => wire'[1] = frame
    <3>1. wire # <<>> => 1 \in DOMAIN wire
      BY DEF TypeOK
    <3>2. wire # wire'
      BY <2>1, Appended
    <3>. QED BY <1>6, <2>1, <3>1, <3>2, Appended DEF GreetingMove
  <2>3. ASSUME 1 \in Positions("AGENT_HELLO")'
        PROVE  config'.compatible /\ config'.size <= DefaultFrameSize
    <3>1. CASE WritesHello
      BY <3>1, NegotiatedSize DEF WritesHello, CheckFacts, HealthcheckHello
    <3>2. CASE ~WritesHello
      <4>1. wire # <<>>
        BY <2>1, <2>2, <2>3, <3>2 DEF Positions
      <4>2. 1 \in Positions("AGENT_HELLO") /\ pc # "handshake"
        BY <2>2, <2>3, <4>1 DEF Positions, CheckFacts
      <4>3. config' = config
        BY <1>6, <4>2 DEF GreetingMove
      <4>. QED BY <4>2, <4>3 DEF CheckFacts
    <3>. QED BY <3>1, <3>2
  <2>. QED BY <1>2, <1>3, <2>2, <2>3 DEF CheckFacts, clientVars
<1>7. GreetingMove /\ wire' = wire /\ config' # config => 1 \notin Positions("AGENT_HELLO")'
  BY DEF GreetingMove, CheckFacts, Positions
<1>8. CASE wire' = wire /\ config' # config /\ GreetingMove
  <2>1. pc = "handshake" /\ pc' # "handshake" /\ wire = <<>> /\ answer = "none"
    BY <1>8 DEF GreetingMove, CheckFacts
  <2>. QED BY <1>2, <1>3, <1>7, <1>8, <2>1 DEF CheckFacts, clientVars
<1>. QED BY <1>4, <1>5, <1>6, <1>8 DEF WritesNoAck, WritesHello, WritesDisconnect

LEMMA ClientKeepsFacts ==
    ASSUME TypeOK, CheckFacts, ClientStep \/ Break \/ UNCHANGED healthVars PROVE CheckFacts'
<1>1. UNCHANGED <<hello, pc, wire, config>>
  BY DEF ClientStep, Connect, ConnectFails, ReceiveAnswer, AnswerTimesOut, ReceiveFails,
         FinishClosing, ClientExits, Break, agentVars, peerVars, linkVars, healthVars, vars
<1>2. Positions("AGENT_HELLO")' = Positions("AGENT_HELLO")
  BY <1>1 DEF Positions
<1>3. CASE ReceiveAnswer
  <2>1. wire # <<>> /\ answer' = wire[1].type /\ client' = "closing" /\ verdict' = verdict
    BY <1>3 DEF ReceiveAnswer, TypeOK
  <2>2. verdict # "healthy"
    BY <1>3 DEF ReceiveAnswer, CheckFacts
  <2>. QED BY <1>1, <1>2, <2>1, <2>2 DEF CheckFacts
<1>4. CASE FinishClosing
  BY <1>1, <1>2, <1>4 DEF FinishClosing, Fail, Judge, CheckFacts
<1>5. CASE \/ Connect \/ ConnectFails \/ AnswerTimesOut \/ ReceiveFails \/ ClientExits \/ Break
           \/ UNCHANGED healthVars
  <2>1. /\ answer' = answer /\ (verdict' = verdict \/ verdict' = "unhealthy")
        /\ client' \in {"waiting", "done", "exited"} \/ client' = client
        /\ client' = "waiting" => client \in {"connecting", "waiting"}
        /\ client' = "connecting" => client = "connecting" /\ nSent' = nSent
    BY <1>5 DEF Connect, ConnectFails, AnswerTimesOut, ReceiveFails, ClientExits, Break, Fail,
                agentVars, peerVars, clientVars, healthVars, vars
  <2>. QED BY <1>1, <1>2, <2>1 DEF CheckFacts
<1>. QED BY <1>3, <1>4, <1>5 DEF ClientStep

LEMMA CheckInvariant == HealthSpec => [](TypeOK /\ CheckFacts)
<1>1. TypeOK /\ CheckFacts /\ [HealthNext]_healthVars => (TypeOK /\ CheckFacts)'
  BY HealthType, AgentKeepsFacts, ClientKeepsFacts DEF HealthNext
<1>. QED BY <1>1, HealthInitFacts, PTL DEF HealthSpec

\* A check that succeeds has found an agent that completed the handshake with it.
THEOREM HealthyIsNegotiated == HealthSpec => []HealthyMeansNegotiated
<1>1. TypeOK /\ CheckFacts => HealthyMeansNegotiated
  <2> SUFFICES ASSUME TypeOK, CheckFacts, verdict = "healthy"
               PROVE  /\ wire # <<>> /\ Head(wire).type = "AGENT_HELLO"
                      /\ config.compatible /\ config.size <= DefaultFrameSize
    BY DEF HealthyMeansNegotiated, ExitStatus
  <2>1. wire # <<>> /\ wire[1].type = "AGENT_HELLO"
    BY DEF CheckFacts
  <2>2. 1 \in DOMAIN wire /\ Head(wire) = wire[1]
    BY <2>1 DEF TypeOK
  <2>3. 1 \in Positions("AGENT_HELLO")
    BY <2>1, <2>2 DEF Positions
  <2>. QED BY <2>1, <2>2, <2>3 DEF CheckFacts
<1>. QED BY <1>1, CheckInvariant, PTL

-----------------------------------------------------------------------------
(* Why a check fails *)

\* The agent's limit holds the client's HELLO.
Accepted == HealthcheckHelloLen <= config.size

ClientHello == [kind |-> "HAPROXY_HELLO", id |-> 1]

\* While the client waits on an unbroken connection for an agent that accepts its
\* HELLO, the agent has still to read it or has answered with the AGENT-HELLO.
ReasonFacts ==
    /\ client = "connecting" => inbox = <<>>
    /\ client = "connecting" /\ peer = "up" => pc = "handshake" /\ transport = "open" /\ ~eof
    /\ client = "waiting" /\ peer = "up" => ~eof
    /\ client = "waiting" /\ peer = "up" /\ Accepted =>
        \/ pc = "handshake" /\ transport = "open" /\ inbox = <<ClientHello>>
        \/ wire # <<>> /\ wire[1].type = "AGENT_HELLO"
    /\ client = "closing" /\ Accepted => answer = "AGENT_HELLO"
    /\ verdict = "unhealthy" /\ Accepted => failure \in {"timeout", "connection"}

LEMMA HelloLens ==
    /\ HealthcheckHelloLen \in 80 .. DefaultFrameSize
    /\ \A size, caps : AgentHelloLen(size, caps) \in 1 .. 80
<1>1. ASSUME NEW n \in 0 .. 239 PROVE StringLen(n) = 1 + n
  BY VarintLenShort DEF StringLen
<1>2. HeaderLen(ZeroIds) = 7
  <2>1. ZeroIds = 2
    BY VarintLenShort DEF ZeroIds
  <2>. QED BY <2>1 DEF HeaderLen
<1>3. VarintLen(DefaultFrameSize) \in 1 .. 5
  BY VarintLenType
<1>4. HealthcheckHelloLen \in 80 .. DefaultFrameSize
  <2>1. /\ StringLen(18) = 19 /\ StringLen(3) = 4 /\ StringLen(14) = 15
        /\ StringLen(12) = 13 /\ StringLen(10) = 11 /\ StringLen(11) = 12
    BY <1>1
  <2>2. HealthcheckHelloLen = 7 + (19 + 1 + 4) + (15 + 1 + VarintLen(DefaultFrameSize))
                              + (13 + 1 + 11) + (12 + 1)
    BY <1>2, <2>1 DEF HealthcheckHelloLen
  <2>3. HealthcheckHelloLen = 85 + VarintLen(DefaultFrameSize)
    BY <1>3, <2>2
  <2>. QED BY <1>3, <2>3 DEF DefaultFrameSize
<1>5. ASSUME NEW size, NEW caps PROVE AgentHelloLen(size, caps) \in 1 .. 80
  <2> DEFINE names == IF "pipelining" \in caps THEN 10 ELSE 0
  <2>1. StringLen(names) \in 1 .. 11
    BY <1>1
  <2> HIDE DEF names
  <2>2. AgentHelloLen(size, caps) =
        HeaderLen(ZeroIds) + (StringLen(7) + 1 + StringLen(3)) + (StringLen(14) + 1 + VarintLen(size))
        + (StringLen(12) + 1 + StringLen(names))
    BY DEF AgentHelloLen, names
  <2>3. VarintLen(size) \in 1 .. 5
    BY VarintLenType
  <2>4. StringLen(7) = 8 /\ StringLen(3) = 4 /\ StringLen(14) = 15 /\ StringLen(12) = 13
    BY <1>1
  <2>. QED BY <1>2, <2>1, <2>2, <2>3, <2>4
<1>. QED BY <1>4, <1>5

\* The negotiation with the client does not shrink the limit below its HELLO.
LEMMA AcceptedForGood ==
    ASSUME TypeOK, CheckFacts, config' = config \/ config' = Negotiate(config, hello)
    PROVE  Accepted' <=> Accepted
<1> DEFINE versioned == CheckVersionCompatibility(config, hello.versions)
           agreed == IF hello.size < versioned.size THEN hello.size ELSE versioned.size
<1>1. hello.size = DefaultFrameSize /\ DefaultFrameSize \in Int /\ config.size \in Int
  BY DEF CheckFacts, HealthcheckHello, TypeOK, Configurations, DefaultFrameSize
<1>2. versioned \in Configurations /\ versioned.size = config.size
  BY DEF TypeOK, CheckVersionCompatibility, Configurations
<1> HIDE DEF versioned
<1>3. FindMaxFrameSize(versioned, hello.size) =
        [versioned EXCEPT !.size = agreed, !.compatible = @ /\ agreed > 0]
  BY DEF FindMaxFrameSize
<1>4. Negotiate(config, hello) =
        FindCommonCapabilities(FindMaxFrameSize(versioned, hello.size), hello.caps)
  BY DEF Negotiate, versioned
<1>5. Negotiate(config, hello).size = agreed
  BY <1>2, <1>3, <1>4 DEF FindCommonCapabilities, Configurations
<1>. QED BY <1>1, <1>2, <1>5, HelloLens DEF Accepted

\* The agent answers the HELLO of the client with the AGENT-HELLO.
LEMMA HelloAnswered ==
    ASSUME TypeOK, CheckFacts, Accepted, peer = "up", transport = "open", wire = <<>>, ReceiveHello
    PROVE  wire' # <<>> /\ wire'[1].type = "AGENT_HELLO"
<1> DEFINE agreed == Negotiate(config, hello)
           frame == AgentHelloFrame(agreed.size, agreed.caps)
<1>1. config.size \in Int /\ config.size > 0 /\ hello.size > 0 /\ <<2, 0>> \in ToSet(hello.versions)
  <2>1. config.size \in Int /\ config.size > 0
    <3>1. config.size \in Int
      BY DEF TypeOK, Configurations
    <3>2. HealthcheckHelloLen \in Nat /\ HealthcheckHelloLen >= 80
      BY HelloLens DEF DefaultFrameSize
    <3>. QED BY <3>1, <3>2 DEF Accepted
  <2>2. hello = HealthcheckHello
    BY DEF CheckFacts
  <2>. QED BY <2>1, <2>2 DEF HealthcheckHello, DefaultFrameSize, ToSet
<1>2. agreed.compatible
  BY <1>1, CompatibleHello
<1>3. SendAgentHello(agreed)
  BY <1>2 DEF ReceiveHello
<1>4. config' = agreed
  BY DEF ReceiveHello
<1>5. Accepted' /\ agreed.size \in Int
  BY <1>4, AcceptedForGood, NegotiatedSize
<1>6. Fits(frame, agreed.size) /\ frame.type = "AGENT_HELLO"
  <2>1. HealthcheckHelloLen \in Nat /\ HealthcheckHelloLen >= 80 /\ HealthcheckHelloLen <= agreed.size
    BY <1>4, <1>5, HelloLens DEF Accepted, DefaultFrameSize
  <2>2. frame.len \in 1 .. 80 /\ frame.type = "AGENT_HELLO"
    BY HelloLens DEF AgentHelloFrame
  <2> DEFINE m == agreed.size
             n == HealthcheckHelloLen
  <2>3. m \in Int /\ n \in Nat /\ n >= 80 /\ n <= m
    BY <1>5, <2>1
  <2> HIDE DEF frame, m, n
  <2>4. 1 .. 80 \subseteq 1 .. m
    BY <2>3
  <2>. QED BY <2>2, <2>4 DEF Fits, m
<1>7. PICK r \in SendOutcomes : SendFrame(frame, agreed.size, r)
  BY <1>3 DEF SendAgentHello
<1> HIDE DEF frame, agreed
<1>8. wire' = Append(wire, frame)
  BY <1>6, <1>7 DEF SendFrame, SendOutcomes
<1>. QED BY <1>6, <1>8

LEMMA AgentKeepsReason ==
    ASSUME TypeOK, CheckFacts, ReasonFacts, AgentStep, UNCHANGED clientVars PROVE ReasonFacts'
<1>1. config' = config \/ config' = Negotiate(config, hello)
  BY GreetingConnection
  DEF AgentStep, GreetingMove, TransportStep, NoticeReset, NoticeTlsEof, FinishClose
<1>2. Accepted' <=> Accepted
  BY <1>1, AcceptedForGood
<1>3. UNCHANGED <<eof, peer>> /\ (inbox = <<>> => inbox' = <<>>)
  BY DEF AgentStep, ConnectionStep, ReceiveHello, RefuseFirstFrame, EofInHandshake, FinishHello,
         DecodeRaises, Acquire, ReadNotify, ReadDisconnect, ReadUnexpected, ReadEof, FinishBye,
         LeaveGroup, HandleTooBig, HandleSpoe, FinishReport, CloseConnection, WaitClosed, Escape,
         Decoded, TransportStep, NoticeReset, NoticeTlsEof, FinishClose, peerVars
<1>4. wire # <<>> => wire' # <<>> /\ wire'[1] = wire[1]
  <2>1. wire' = wire \/ \E frame : wire' = Append(wire, frame)
    BY ConnectionWrites
    DEF AgentStep, WritesNoAck, WritesHello, WritesDisconnect,
        TransportStep, NoticeReset, NoticeTlsEof, FinishClose
  <2>2. wire # <<>> => 1 \in DOMAIN wire
    BY DEF TypeOK
  <2>3. ASSUME NEW frame, wire' = Append(wire, frame), wire # <<>>
        PROVE  wire' # <<>> /\ wire'[1] = wire[1]
    BY <2>2, <2>3, Appended
  <2>. QED BY <2>1, <2>3
\* An agent that waits for the first frame on an unbroken connection takes it,
\* or does not move.
<1>5. ASSUME pc = "handshake", transport = "open", peer = "up", ~eof
      PROVE  inbox # <<>> /\ (Head(inbox).kind = "HAPROXY_HELLO" => ReceiveHello)
  BY <1>5
  DEF AgentStep, ConnectionStep, RefuseFirstFrame, EofInHandshake, FinishHello,
      DecodeRaises, Acquire, ReadNotify, ReadDisconnect, ReadUnexpected, ReadEof, FinishBye,
      LeaveGroup, HandleTooBig, HandleSpoe, FinishReport, CloseConnection, WaitClosed, Escape,
      ReceiveHello, Decoded, DecodeErrors, AtEof, TransportStep, NoticeReset, NoticeTlsEof, FinishClose
<1>6. ASSUME client = "waiting", peer = "up", Accepted
      PROVE  wire' # <<>> /\ wire'[1].type = "AGENT_HELLO"
  <2>1. CASE pc = "handshake" /\ transport = "open" /\ inbox = <<ClientHello>>
    <3>1. ~eof /\ wire = <<>>
      BY <1>6, <2>1 DEF ReasonFacts, CheckFacts
    <3>2. ReceiveHello
      <4>1. Head(inbox).kind = "HAPROXY_HELLO"
        BY <2>1 DEF ClientHello
      <4>. QED BY <1>5, <1>6, <2>1, <3>1, <4>1
    <3>. QED BY <1>6, <2>1, <3>1, <3>2, HelloAnswered
  <2>2. CASE wire # <<>> /\ wire[1].type = "AGENT_HELLO"
    BY <1>4, <2>2
  <2>. QED BY <1>6, <2>1, <2>2 DEF ReasonFacts
<1>7. client = "connecting" => peer # "up"
  BY <1>5 DEF ReasonFacts
<1>. QED BY <1>2, <1>3, <1>6, <1>7 DEF ReasonFacts, clientVars

LEMMA ClientKeepsReason ==
    ASSUME TypeOK, CheckFacts, ReasonFacts, ClientStep \/ Break \/ UNCHANGED healthVars
    PROVE  ReasonFacts'
<1>1. UNCHANGED <<pc, wire, config, transport>> /\ peer' \in {peer, "gone"}
  BY DEF ClientStep, Connect, ConnectFails, ReceiveAnswer, AnswerTimesOut, ReceiveFails,
         FinishClosing, ClientExits, Break, agentVars, linkVars, peerVars, healthVars, vars
<1>2. Accepted' <=> Accepted
  BY <1>1 DEF Accepted
<1>3. CASE Connect
  <2>1. Accepted => HealthcheckKind = "HAPROXY_HELLO"
    BY HelloLens DEF Accepted, HealthcheckKind, TypeOK, Configurations, DefaultFrameSize
  <2>. QED BY <1>1, <1>2, <1>3, <2>1 DEF Connect, ClientHello, ReasonFacts
<1>4. CASE ReceiveAnswer
  <2>1. wire # <<>> /\ pc # "handshake" /\ answer' = wire[1].type
    BY <1>4 DEF ReceiveAnswer, CheckFacts, TypeOK
  <2>. QED BY <1>1, <1>2, <1>4, <2>1 DEF ReceiveAnswer, ReasonFacts
<1>5. CASE ReceiveFails
  <2>1. peer = "up" /\ transport \in {"lost", "reset"} /\ wire = <<>> => ~Accepted
    BY <1>5 DEF ReceiveFails, ReasonFacts
  <2>. QED BY <1>1, <1>2, <1>5, <2>1 DEF ReceiveFails, Fail, ReasonFacts
<1>6. CASE FinishClosing
  <2>1. Accepted => answer = "AGENT_HELLO"
    BY <1>6 DEF FinishClosing, ReasonFacts
  <2>. QED BY <1>1, <1>2, <1>6, <2>1 DEF FinishClosing, Fail, Judge, ReasonFacts
<1>7. CASE ConnectFails \/ AnswerTimesOut \/ ClientExits
  BY <1>1, <1>2, <1>7 DEF ConnectFails, AnswerTimesOut, ClientExits, Fail, ReasonFacts, peerVars
<1>8. CASE Break \/ UNCHANGED healthVars
  BY <1>1, <1>2, <1>8
  DEF Break, clientVars, ReasonFacts, healthVars, vars, peerVars
<1>. QED BY <1>3, <1>4, <1>5, <1>6, <1>7, <1>8 DEF ClientStep

\* A check of an agent that can take its HELLO fails only for a timeout or a broken
\* connection: the agent answers, and never closes the stream before it has.
THEOREM FailureHasReason == HealthSpec => []UnhealthyHasReason
<1>1. HealthInit => ReasonFacts
  BY DEF HealthInit, InitFor, ReasonFacts
<1>2. TypeOK /\ CheckFacts /\ ReasonFacts /\ [HealthNext]_healthVars => ReasonFacts'
  BY AgentKeepsReason, ClientKeepsReason DEF HealthNext
<1>3. TypeOK /\ ReasonFacts => UnhealthyHasReason
  <2> SUFFICES ASSUME TypeOK, ReasonFacts, HealthcheckKind = "HAPROXY_HELLO"
               PROVE  Accepted
    BY DEF UnhealthyHasReason, ReasonFacts
  <2>1. config.size \in Int /\ HealthcheckHelloLen \in Int
    BY HelloLens DEF TypeOK, Configurations, DefaultFrameSize
  <2>2. ~(HealthcheckHelloLen > config.size)
    BY DEF HealthcheckKind
  <2>. QED BY <2>1, <2>2 DEF Accepted
<1>. QED BY <1>1, <1>2, <1>3, CheckInvariant, PTL DEF HealthSpec
=============================================================================
