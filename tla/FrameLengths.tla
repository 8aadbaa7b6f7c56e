---------------------------- MODULE FrameLengths ----------------------------
(***************************************************************************)
(* How many bytes the frames the agent sends occupy, which is what         *)
(* Frame.encode compares with the negotiated maximum.  The 4-byte length   *)
(* prefix is not counted, as in the code.                                  *)
(***************************************************************************)
EXTENDS Integers, FiniteSets

\* _compose_varint: one byte below 240, then seven more bits for each byte
\* (exact below 4328786160, far above every length and size compared here).
VarintLen(n) == 1 + Cardinality({t \in {240, 2288, 264432, 33818864} : n >= t})

\* encode_metadata after the type byte: 4 flag bytes, then stream id and frame id
\* in so many bytes.
HeaderLen(ids) == 1 + 4 + ids

\* The ids of a frame outside any stream: two zeros.
ZeroIds == VarintLen(0) + VarintLen(0)

\* encode_string of n characters.
StringLen(n) == VarintLen(n) + n

\* AgentHello.encode_payload: "version" -> "2.0", "max-frame-size" -> integer,
\* "capabilities" -> comma-separated names; every value has a type byte.
AgentHelloLen(size, caps) ==
    LET names == IF "pipelining" \in caps THEN 10 ELSE 0 IN
    HeaderLen(ZeroIds)
    + (StringLen(7) + 1 + StringLen(3))
    + (StringLen(14) + 1 + VarintLen(size))
    + (StringLen(12) + 1 + StringLen(names))

\* Disconnect.encode_payload: "status-code" -> integer, "message" -> n characters.
DisconnectLen(n) ==
    HeaderLen(ZeroIds) + (StringLen(11) + 2) + (StringLen(7) + 1 + StringLen(n))

\* An ACK without actions: the header, with the ids of the NOTIFY it answers.
EmptyAckLen(ids) == HeaderLen(ids)

\* DISCONNECT_MESSAGE_MAX_LENGTH
DisconnectMessageMaxLength == 256

\* message[:DISCONNECT_MESSAGE_MAX_LENGTH] in send_disconnect_on_error
Truncated(n) == IF n > DisconnectMessageMaxLength THEN DisconnectMessageMaxLength ELSE n
=============================================================================
