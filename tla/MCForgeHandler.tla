--------------------------- MODULE MCForgeHandler ---------------------------
(***************************************************************************)
(* Values of ForgeHandler's constants for TLC.                             *)
(***************************************************************************)
EXTENDS ForgeHandler

Hello(versions, size, caps, healthcheck) ==
    [versions |-> versions, size |-> size, caps |-> caps, healthcheck |-> healthcheck]

Pipelining == {"pipelining"}

\* A HAProxy of today: SPOP 2.0, pipelining, 256 bytes (the least the protocol allows).
MCPipelined == {Hello(<< <<2, 0>> >>, 256, Pipelining, FALSE)}
MCSerial == {Hello(<< <<2, 0>> >>, 4096, {"fragmentation"}, FALSE)}
MCEither == MCPipelined \union MCSerial

\* Sizes that are refused, hold no AGENT-HELLO, hold it but not every disconnect,
\* are HAProxy's least, or are above the agent's own.
MCSizes == {0, 40, 68, 256, 5000}

\* Every outcome of the negotiation: versions missing, the agent's, of another
\* major; and a malformed one between an older and a newer, with and without
\* pipelining.
MCAnyHello ==
    {Hello(vs, size, Pipelining, hc) :
        vs \in { << >>, << <<2, 0>> >>, << <<3, 0>> >> }, size \in MCSizes, hc \in BOOLEAN}
    \union
    {Hello(<< <<1, 5>>, <<2>>, <<2, 10>> >>, 256, caps, hc) :
        caps \in {{}, Pipelining}, hc \in BOOLEAN}

Ok(n)  == [len |-> n, enc |-> "ok"]
Bad    == [len |-> 0, enc |-> "bad"]
Alien  == [len |-> 0, enc |-> "alien"]

\* NOTIFYs whose ids are zeros, or take all the bytes two INT64 may take.
MCShortIds == [i \in Ids |-> 2]
MCLongIds == [i \in Ids |-> IF i = 2 THEN 20 ELSE 2]

\* Replies that fit, that do not encode in part, that have to be salvaged, with
\* an action that fits beside short ids only, and that hold something that is
\* not an action.
MCReplies ==
    { << >>, <<Bad, Ok(10)>>, <<Ok(61), Ok(200), Ok(30)>>, <<Ok(240), Ok(10)>>, <<Ok(10), Alien>> }
MCAlienReply == { <<Ok(10), Alien>> }
MCShortReplies == { <<Ok(10)>>, <<Bad>> }
MCEmptyReply == { << >> }
=============================================================================
