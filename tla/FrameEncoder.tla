---------------------------- MODULE FrameEncoder ----------------------------
(***************************************************************************)
(* spop/encoders and Frame.encode: the bytes of a frame.                   *)
(*                                                                         *)
(* A frame is a record [type, meta, payload]; meta is [fin, abort, stream, *)
(* frame].  Whether a part has a wire form (EncodeVar and the others raise *)
(* SpopEncodeError where it has none) is a predicate of its own, and the   *)
(* operators that compose bytes are used where it holds.                   *)
(***************************************************************************)
EXTENDS SpopTypes

\* _compose_varint, the bytes after the first: seven bits each, the last below 128.
Groups[n \in Nat] == IF n < 128 THEN <<n>> ELSE <<128 + (n % 128)>> \o Groups[(n - 128) \div 128]

\* A plausible slip: 240 still taken for a single byte.
ComposeVarintLate(n) == IF n <= 240 THEN <<n>> ELSE <<240 + (n % 16)>> \o Groups[(n - 240) \div 16]

ComposeVarint(n) == IF n < 240 THEN <<n>> ELSE <<240 + (n % 16)>> \o Groups[(n - 240) \div 16]

ComposeBinary(bytes) == ComposeVarint(Len(bytes)) \o bytes

\* encode_string: latin-1.
StringEncodes(s) == \A i \in DOMAIN s : s[i] < 256
EncodeString(s) == ComposeBinary(s)

TypeData(type, flag) == <<16 * flag + type>>

\* encode_dt_int32, encode_dt_uint32, encode_dt_int64, encode_dt_uint64: two's complement.
EncodeInt(type, n) == TypeData(type, 0) \o ComposeVarint(n % (2 * Half(type)))

\* auto_encode_dt_var: every integer travels as INT64.
VarEncodes(value) ==
    /\ Kind(value) = "int" => InRange(DataType.INT64, Data(value))
    /\ Kind(value) = "str" => StringEncodes(Data(value))

EncodeVar(value) ==
    CASE Kind(value) = "null"  -> TypeData(DataType.NULL, 0)
      [] Kind(value) = "bool"  -> TypeData(DataType.BOOL, IF Data(value) THEN 1 ELSE 0)
      [] Kind(value) = "int"   -> EncodeInt(DataType.INT64, Data(value))
      [] Kind(value) = "ipv4"  -> TypeData(DataType.IPV4, 0) \o Data(value)
      [] Kind(value) = "ipv6"  -> TypeData(DataType.IPV6, 0) \o Data(value)
      [] Kind(value) = "bytes" -> TypeData(DataType.BINARY, 0) \o ComposeBinary(Data(value))
      [] Kind(value) = "str"   -> TypeData(DataType.STRING, 0) \o EncodeString(Data(value))

\* Parts one after the other.
Join(parts) ==
    LET joined[left \in Seq(Bytes)] ==
            IF left = <<>> THEN <<>> ELSE Head(left) \o joined[Tail(left)]
    IN  joined[parts]

PairEncodes(pair) == StringEncodes(pair[1]) /\ VarEncodes(pair[2])
ComposeKvPair(pair) == EncodeString(pair[1]) \o EncodeVar(pair[2])
EncodeKvList(pairs) == Join([i \in DOMAIN pairs |-> ComposeKvPair(pairs[i])])

\* encode_message_list: [name, args], with the number of arguments in one byte.
MessageEncodes(message) ==
    /\ StringEncodes(message.name)
    /\ Len(message.args) <= 255
    /\ \A i \in DOMAIN message.args : PairEncodes(message.args[i])
EncodeMessage(message) ==
    EncodeString(message.name) \o <<Len(message.args)>> \o EncodeKvList(message.args)

\* _compose_action: [type, scope, name, value]; UNSET_VAR carries no value (None).
ActionEncodes(action) == StringEncodes(action.name) /\ VarEncodes(action.value)
ComposeAction(action) ==
    <<ActionType[action.type], ActionNBArgs[action.type], action.scope>>
    \o EncodeString(action.name)
    \o (IF action.type = "SET_VAR" THEN EncodeVar(action.value) ELSE <<>>)

\* encode_metadata: ids are plain varints, which have no negative numbers.
MetadataEncodes(meta) == meta.stream >= 0 /\ meta.frame >= 0
EncodeMetadata(meta) ==
    <<0, 0, 0, (IF meta.fin THEN 1 ELSE 0) + (IF meta.abort THEN 2 ELSE 0)>>
    \o ComposeVarint(meta.stream) \o ComposeVarint(meta.frame)

\* The dictionaries encode_payload builds for HELLO and DISCONNECT frames.
Pairs(type, payload) ==
    CASE type = "HAPROXY_HELLO" ->
           << <<Key.SupportedVersions, StrValue(ToSpopList(payload.versions))>>,
              <<Key.MaxFrameSize, payload.size>>,
              <<Key.Capabilities, StrValue(ToSpopList(payload.caps))>>,
              <<Key.Healthcheck, payload.healthcheck>> >>
           \o (IF payload.engine = None THEN <<>> ELSE << <<Key.EngineId, payload.engine>> >>)
      [] type = "AGENT_HELLO" ->
           << <<Key.Version, payload.version>>,
              <<Key.MaxFrameSize, payload.size>>,
              <<Key.Capabilities, StrValue(ToSpopList(payload.caps))>> >>
      [] type \in Disconnects ->
           << <<Key.StatusCode, payload.status>>, <<Key.Message, payload.message>> >>

PayloadEncodes(type, payload) ==
    CASE type = "NOTIFY" -> \A i \in DOMAIN payload : MessageEncodes(payload[i])
      [] type = "ACK"    -> \A i \in DOMAIN payload : ActionEncodes(payload[i])
      [] OTHER         -> \A i \in DOMAIN Pairs(type, payload) : PairEncodes(Pairs(type, payload)[i])

EncodePayload(type, payload) ==
    CASE type = "NOTIFY" -> Join([i \in DOMAIN payload |-> EncodeMessage(payload[i])])
      [] type = "ACK"    -> Join([i \in DOMAIN payload |-> ComposeAction(payload[i])])
      [] OTHER         -> EncodeKvList(Pairs(type, payload))

Body(frame) ==
    <<FrameType[frame.type]>> \o EncodeMetadata(frame.meta) \o EncodePayload(frame.type, frame.payload)

\* encode_frame_len: four bytes, the most significant first; struct.pack has none for more.
FrameLenEncodes(n) == ((n \div 256) \div 256) \div 256 < 256
EncodeFrameLen(n) ==
    <<((n \div 256) \div 256) \div 256, ((n \div 256) \div 256) % 256, (n \div 256) % 256, n % 256>>

Encodes(frame) ==
    /\ MetadataEncodes(frame.meta) /\ PayloadEncodes(frame.type, frame.payload)
    /\ FrameLenEncodes(Len(Body(frame)))

\* A plausible slip: the length prefix is counted as part of the frame.
FitsWithPrefix(body, max) == Len(body) + 4 <= max

\* Frame.encode's check: the length prefix does not count.
FitsFrame(body, max) == Len(body) <= max

\* Frame.encode of a frame that encodes and fits.
EncodeFrame(frame) == EncodeFrameLen(Len(Body(frame))) \o Body(frame)
=============================================================================
