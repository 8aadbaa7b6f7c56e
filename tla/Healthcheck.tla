---------------------------- MODULE Healthcheck ----------------------------
(***************************************************************************)
(* cli.py: the healthcheck client, in the place of HAProxy, against one    *)
(* connection of the agent (ForgeHandler).  It connects, sends a           *)
(* HAPROXY-HELLO with the healthcheck flag, waits for one frame and closes.*)
(* Connecting and waiting have timeouts, which race the agent; the rest    *)
(* has none.  A check that fails does not close its connection: the        *)
(* process that ends does.                                                 *)
(***************************************************************************)
EXTENDS ForgeHandler

CONSTANT AgentSizes  \* max_frame_size of the agents that may be checked

VARIABLES
    client,   \* "connecting", "waiting", "closing", "done" (healthcheck returned), "exited"
    answer,   \* type of the frame received
    verdict,  \* "none", "healthy" (True), "unhealthy" (False)
    failure   \* what was caught: "none", "timeout", "connection" (OSError), "eof"

clientVars == <<client, answer, verdict, failure>>
agentVars == <<transport, paused, wire, pc, config, taskVars, groupVars, escaped>>
healthVars == <<vars, clientVars>>

\* DEFAULT_FRAME_SIZE
DefaultFrameSize == 1024 * 4

\* A plausible slip: a version that is not "major.minor".
HelloWithoutMinor ==
    [versions |-> << <<2>> >>, size |-> DefaultFrameSize, caps |-> {"pipelining"},
     healthcheck |-> TRUE]

\* The frame the client constructs.
HealthcheckHello ==
    [versions |-> << <<2, 0>> >>, size |-> DefaultFrameSize, caps |-> {"pipelining"},
     healthcheck |-> TRUE]

ASSUME HealthAssumption ==
    /\ HealthcheckHello \in Hellos
    /\ MaxFrames > 0
    /\ AgentSizes \subseteq Int

\* Its length: "supported-versions", "max-frame-size", "capabilities", "healthcheck".
HealthcheckHelloLen ==
    HeaderLen(ZeroIds)
    + (StringLen(18) + 1 + StringLen(3))
    + (StringLen(14) + 1 + VarintLen(DefaultFrameSize))
    + (StringLen(12) + 1 + StringLen(10))
    + (StringLen(11) + 1)

\* How the agent's Frame.decode will take it.
HealthcheckKind == IF HealthcheckHelloLen > config.size THEN "OVERSIZED" ELSE "HAPROXY_HELLO"

\* The exception is caught and the check fails; the writer is left open.
Fail(reason) ==
    /\ client' = "done"
    /\ verdict' = "unhealthy"
    /\ failure' = reason
    /\ UNCHANGED answer

-----------------------------------------------------------------------------
(* The client *)

\* The connection is up: the HELLO is written, and is small enough not to wait.
Connect ==
    /\ client = "connecting" /\ peer = "up"
    /\ client' = "waiting"
    /\ nSent' = 1
    /\ inbox' = <<[kind |-> HealthcheckKind, id |-> 1]>>
    /\ UNCHANGED <<agentVars, hello, eof, peer, answer, verdict, failure>>

\* open_connection fails or takes five seconds: the agent sees, if anything, a
\* connection that closes at once.
ConnectFails ==
    /\ client = "connecting"
    /\ \E reason \in {"timeout", "connection"} : Fail(reason)
    /\ eof' = TRUE
    /\ UNCHANGED <<agentVars, hello, nSent, inbox, peer>>

\* Frame.decode returns the agent's first frame, and the client closes.
ReceiveAnswer ==
    /\ client = "waiting" /\ peer = "up"
    /\ wire # <<>>
    /\ client' = "closing"
    /\ answer' = Head(wire).type
    /\ eof' = TRUE
    /\ UNCHANGED <<agentVars, hello, nSent, inbox, peer, verdict, failure>>

\* A plausible slip: only a part of the answer is waited for with a timeout.
TimeoutWhileReading ==
    /\ client = "waiting" /\ wire # <<>>
    /\ Fail("timeout")
    /\ UNCHANGED <<agentVars, peerVars>>

\* Five seconds have passed, whatever arrives at the same moment.
AnswerTimesOut ==
    /\ client = "waiting"
    /\ Fail("timeout")
    /\ UNCHANGED <<agentVars, peerVars>>

\* Frame.decode raises: the connection broke, or the agent closed it silently.
ReceiveFails ==
    /\ client = "waiting"
    /\ \/ peer = "gone" /\ Fail("connection")
       \/ peer = "up" /\ transport \in {"lost", "reset"} /\ wire = <<>> /\ Fail("eof")
    /\ UNCHANGED <<agentVars, peerVars>>

\* A plausible slip: any answer is taken for a healthy agent.
AnyAnswer(type) == "healthy"

\* Only an AGENT-HELLO says that the handshake worked.
Judge(type) == IF type = "AGENT_HELLO" THEN "healthy" ELSE "unhealthy"

\* wait_closed returns, or raises what broke the connection meanwhile.
FinishClosing ==
    /\ client = "closing"
    /\ \/ /\ client' = "done"
          /\ verdict' = Judge(answer)
          /\ UNCHANGED <<answer, failure>>
       \/ peer = "gone" /\ Fail("connection")
    /\ UNCHANGED <<agentVars, peerVars>>

\* The process ends.  The kernel closes a connection that was left open, with a
\* reset if an answer has not been read.
ClientExits ==
    /\ client = "done"
    /\ client' = "exited"
    /\ \/ eof' = TRUE /\ UNCHANGED peer
       \/ ~eof /\ wire # <<>> /\ peer' = "gone" /\ UNCHANGED eof
    /\ UNCHANGED <<agentVars, hello, nSent, inbox, answer, verdict, failure>>

\* healthcheck_command: what the process tells its caller, a container's
\* HEALTHCHECK for one.
ExitStatus == IF verdict = "healthy" THEN 0 ELSE 1

ClientStep ==
    \/ Connect \/ ConnectFails \/ ReceiveAnswer \/ AnswerTimesOut \/ ReceiveFails
    \/ FinishClosing \/ ClientExits

-----------------------------------------------------------------------------
(* Specification *)

\* The network breaks.
Break ==
    /\ ~Over /\ peer = "up"
    /\ peer' = "gone"
    /\ UNCHANGED <<agentVars, hello, nSent, inbox, eof, clientVars>>

\* No NOTIFY is ever sent, so no task of the agent ever runs.
AgentStep == ConnectionStep \/ TransportStep

HealthInit ==
    /\ \E ownSize \in AgentSizes : InitFor(ownSize)
    /\ hello = HealthcheckHello
    /\ client = "connecting" /\ answer = "none" /\ verdict = "none" /\ failure = "none"

HealthNext ==
    \/ ClientStep
    \/ Break
    \/ AgentStep /\ UNCHANGED clientVars

HealthSpec == HealthInit /\ [][HealthNext]_healthVars

\* The client's clocks go on; of the agent nothing is assumed.
ClientSpec == HealthSpec /\ WF_healthVars(ClientStep)

\* The agent's event loop runs.
AgentFairness ==
    /\ WF_healthVars(ConnectionStep /\ UNCHANGED clientVars)
    /\ WF_healthVars(TransportStep /\ UNCHANGED clientVars)

-----------------------------------------------------------------------------
(* Properties *)

\* The check succeeds only with an agent that has completed the handshake: it
\* found the client compatible, and its first frame was the AGENT-HELLO.
HealthyMeansNegotiated ==
    client = "exited" /\ ExitStatus = 0 =>
        /\ wire # <<>> /\ Head(wire).type = "AGENT_HELLO"
        /\ config.compatible /\ config.size <= DefaultFrameSize

\* An agent that can take a HELLO is never reported as failing for anything but
\* a timeout or a broken connection, however the two ends close.
UnhealthyHasReason ==
    verdict = "unhealthy" /\ HealthcheckKind = "HAPROXY_HELLO" =>
        failure \in {"timeout", "connection"}

\* An agent whose event loop runs answers the HELLO of a check, also if the
\* client has given up meanwhile, unless the network breaks.
CheckAnswered ==
    AgentFairness => (nSent = 1 /\ HealthcheckKind = "HAPROXY_HELLO" ~> wire # <<>> \/ peer = "gone")

\* Whatever the agent does, hanging included, the client's process ends; and if
\* the agent's event loop runs, its side of the connection ends too, even if the
\* client gave up before the answer or never sent its HELLO.
CheckEnds == <>(client = "exited") /\ (AgentFairness => <>Over)

=============================================================================
