---------------------------- MODULE FrameDecoder ----------------------------
(***************************************************************************)
(* spop/decoders and Frame.decode: what a byte stream means.               *)
(*                                                                         *)
(* The code passes a buffer and an offset; a decoder here takes the bytes  *)
(* from the offset on.  It answers Got(value, rest), with what is left of  *)
(* them, or Fail(error): the exception it raises.  "foreign" stands for    *)
(* the exceptions that are not a SpoeForgeError.                           *)
(***************************************************************************)
EXTENDS SpopTypes

Got(value, rest) == [ok |-> TRUE, value |-> value, rest |-> rest]
Fail(error) == [ok |-> FALSE, error |-> error]
Malformed == Fail("SpopDecodeError")

\* What follows a decoder that may have failed, and a value given its kind.
Then(result, More(_, _)) == IF result.ok THEN More(result.value, result.rest) ELSE result
As(kind, result) == Then(result, LAMBDA value, rest : Got(<<kind, value>>, rest))

\* A plausible slip: a slice that ends behind the buffer is taken as it is.
TakeShort(bytes, n) ==
    Got(SubSeq(bytes, 1, Min({n, Len(bytes)})), SubSeq(bytes, n + 1, Len(bytes)))

\* The bounds check and the slice of decode_ipv4, decode_ipv6, decode_binary
\* and decode_metadata.
Take(bytes, n) ==
    IF Len(bytes) < n THEN Malformed
    ELSE Got(SubSeq(bytes, 1, n), SubSeq(bytes, n + 1, Len(bytes)))

\* The loop of _parse_varint: the bytes up to the first below 128 add up, seven bits each.
ParseGroups[bytes \in Bytes] ==
    IF bytes = <<>> THEN Malformed
    ELSE IF Head(bytes) < 128 THEN Got(Head(bytes), Tail(bytes))
    ELSE Then(ParseGroups[Tail(bytes)], LAMBDA n, rest : Got(Head(bytes) + 128 * n, rest))

ParseVarint(bytes) ==
    IF bytes = <<>> THEN Malformed
    ELSE IF Head(bytes) < 240 THEN Got(Head(bytes), Tail(bytes))
    ELSE Then(ParseGroups[Tail(bytes)], LAMBDA n, rest : Got(Head(bytes) + 16 * n, rest))

\* A plausible slip: the greatest positive number counts as negative.
WrapEarly(type, n) ==
    LET low == n % (2 * Half(type)) IN
    IF IsSigned(type) /\ low >= Greatest(type) THEN low - 2 * Half(type) ELSE low

\* ctypes.c_int32(n).value and its siblings.
Wrap(type, n) ==
    LET low == n % (2 * Half(type)) IN
    IF low > Greatest(type) THEN low - 2 * Half(type) ELSE low

\* decode_int32, decode_uint32, decode_int64, decode_uint64
DecodeInt(type, bytes) == Then(ParseVarint(bytes), LAMBDA n, rest : Got(Wrap(type, n), rest))

DecodeBinary(bytes) == Then(ParseVarint(bytes), LAMBDA n, rest : Take(rest, n))

\* latin-1: a byte is its code point.
DecodeString(bytes) == DecodeBinary(bytes)

\* auto_decode_var: the type in the low half of the first byte; a boolean's
\* value in the high half (DataFlag.BOOL_TRUE is 1 there).
DecodeVar(bytes) ==
    LET type == Head(bytes) % 16
        flag == Head(bytes) \div 16
        data == Tail(bytes)
    IN  IF bytes = <<>> THEN Malformed ELSE
        CASE type = DataType.NULL    -> Got(None, data)
          [] type = DataType.BOOL    -> Got(BoolValue(flag = 1), data)
          [] type \in IntTypes       -> As("int", DecodeInt(type, data))
          [] type = DataType.IPV4    -> As("ipv4", Take(data, 4))
          [] type = DataType.IPV6    -> As("ipv6", Take(data, 16))
          [] type = DataType.STRING  -> As("str", DecodeString(data))
          [] type = DataType.BINARY  -> As("bytes", DecodeBinary(data))
          [] OTHER                   -> Malformed

\* _parse_kv_pair
DecodePair(bytes) ==
    Then(DecodeString(bytes), LAMBDA key, rest :
        Then(DecodeVar(rest), LAMBDA value, left : Got(<<key, value>>, left)))

\* while offset < end: items until nothing is left.
DecodeList(bytes, Item) ==
    LET list[left \in Bytes] ==
            IF left = <<>> THEN Got(<<>>, <<>>)
            ELSE Then(Item[left], LAMBDA item, rest :
                    Then(list[rest], LAMBDA items, end : Got(<<item>> \o items, end)))
    IN  list[bytes]

\* n pairs, as the byte in front of them says.
DecodePairs(n, bytes) ==
    LET pairs[k \in Nat] ==
            [left \in Bytes |->
                IF k = 0 THEN Got(<<>>, left)
                ELSE Then(DecodePair(left), LAMBDA pair, rest :
                        Then(pairs[k - 1][rest], LAMBDA others, end : Got(<<pair>> \o others, end)))]
    IN  pairs[n][bytes]

\* One message of decode_list_of_messages: a repeated argument is an error.
DecodeMessage(bytes) ==
    Then(DecodeString(bytes), LAMBDA name, rest :
        IF rest = <<>> THEN Malformed
        ELSE Then(DecodePairs(Head(rest), Tail(rest)), LAMBDA args, left :
                IF HasDuplicates(args) THEN Malformed
                ELSE Got([name |-> name, args |-> args], left)))

\* One action of decode_list_of_actions.
DecodeAction(bytes) ==
    LET types == {t \in DOMAIN ActionType : ActionType[t] = bytes[1]}
        type  == CHOOSE t \in types : TRUE
        action(name, value) == [type |-> type, scope |-> bytes[3], name |-> name, value |-> value]
        args  == SubSeq(bytes, 4, Len(bytes))
    IN  IF \/ Len(bytes) < 3
           \/ types = {}
           \/ bytes[3] \notin ActionScope
           \/ bytes[2] # ActionNBArgs[type]
        THEN Malformed
        ELSE IF type = "SET_VAR"
        THEN Then(DecodePair(args), LAMBDA pair, rest : Got(action(pair[1], pair[2]), rest))
        ELSE Then(DecodeString(args), LAMBDA name, rest : Got(action(name, None), rest))

\* decode_metadata: only the last of the four flag bytes counts.
DecodeMetadata(bytes) ==
    Then(Take(bytes, 4), LAMBDA flags, ids :
        Then(DecodeInt(DataType.INT64, ids), LAMBDA stream, rest :
            Then(DecodeInt(DataType.INT64, rest), LAMBDA frame, left :
                Got([fin |-> flags[4] % 2 = 1, abort |-> (flags[4] \div 2) % 2 = 1,
                     stream |-> stream, frame |-> frame], left))))

\* The dictionary of decode_kv_list: the last of equal keys counts.
Positions(pairs, key) == {i \in DOMAIN pairs : pairs[i][1] = key}
Has(pairs, key) == Positions(pairs, key) # {}
Get(pairs, key, default) ==
    IF Has(pairs, key) THEN pairs[Max(Positions(pairs, key))][2] ELSE default
ListOf(pairs, key) == FromSpopList(Data(Get(pairs, key, None)))

\* The keys decode_payload subscripts, in its order.
Required(type) ==
    CASE type = "HAPROXY_HELLO" -> <<Key.SupportedVersions, Key.MaxFrameSize, Key.Capabilities>>
      [] type = "AGENT_HELLO"   -> <<Key.Version, Key.MaxFrameSize, Key.Capabilities>>
      [] type \in Disconnects   -> <<Key.StatusCode, Key.Message>>

\* The keys whose value goes through from_spop_list.
Listed == {Key.SupportedVersions, Key.Capabilities}

Fields(type, pairs) ==
    CASE type = "HAPROXY_HELLO" ->
           [versions |-> ListOf(pairs, Key.SupportedVersions),
            size |-> Get(pairs, Key.MaxFrameSize, None),
            caps |-> ListOf(pairs, Key.Capabilities),
            engine |-> Get(pairs, Key.EngineId, None),
            healthcheck |-> Get(pairs, Key.Healthcheck, BoolValue(FALSE))]
      [] type = "AGENT_HELLO" ->
           [version |-> Get(pairs, Key.Version, None),
            size |-> Get(pairs, Key.MaxFrameSize, None),
            caps |-> ListOf(pairs, Key.Capabilities)]
      [] type \in Disconnects ->
           [status |-> Get(pairs, Key.StatusCode, None),
            message |-> Get(pairs, Key.Message, None)]

\* A plausible slip: the KeyError of a missing key is not caught.
MissingKeyEscapes(type, pairs) ==
    IF \A i \in DOMAIN Required(type) : LET key == Required(type)[i] IN
        Has(pairs, key) /\ (key \in Listed => Kind(Get(pairs, key, None)) = "str")
    THEN Got(Fields(type, pairs), <<>>)
    ELSE Fail("foreign")

\* decode_payload of a HELLO or DISCONNECT, and the handling of its KeyError: the
\* first key that is missing, or is to be split and is no string, decides.
DecodeFields(type, pairs) ==
    LET keys == Required(type)
        bad  == {i \in DOMAIN keys :
                    \/ ~Has(pairs, keys[i])
                    \/ keys[i] \in Listed /\ Kind(Get(pairs, keys[i], None)) # "str"}
    IN  IF bad = {} THEN Got(Fields(type, pairs), <<>>)
        ELSE IF Has(pairs, keys[Min(bad)]) THEN Fail("foreign")
        ELSE Malformed

DecodePayload(type, bytes) ==
    CASE type = "NOTIFY" -> DecodeList(bytes, [left \in Bytes |-> DecodeMessage(left)])
      [] type = "ACK"    -> DecodeList(bytes, [left \in Bytes |-> DecodeAction(left)])
      [] type = "UNSET"  -> Malformed
      [] OTHER           -> Then(DecodeList(bytes, [left \in Bytes |-> DecodePair(left)]),
                                 LAMBDA pairs, end : DecodeFields(type, pairs))

\* Frame.decode, once the frame is in the buffer.  Every payload decoder goes on until
\* nothing is left, so the check that the offset is the frame's length always holds.
DecodeBody(bytes) ==
    LET types == {t \in DOMAIN FrameType : FrameType[t] = Head(bytes)}
        type  == CHOOSE t \in types : TRUE
    IN  IF bytes = <<>> \/ types = {} THEN Malformed
        ELSE Then(DecodeMetadata(Tail(bytes)), LAMBDA meta, rest :
                Then(DecodePayload(type, rest), LAMBDA payload, end :
                    Got([type |-> type, meta |-> meta, payload |-> payload], end)))

\* decode_frame_len
DecodeFrameLen(bytes) == 256 * (256 * (256 * bytes[1] + bytes[2]) + bytes[3]) + bytes[4]

\* Frame.decode on a stream that ends behind these bytes.
DecodeFrame(stream, max) ==
    IF Len(stream) < 4 THEN Fail("SpopEOFError")
    ELSE LET size == DecodeFrameLen(SubSeq(stream, 1, 4)) IN
         IF size > max THEN Fail("SpopFrameTooBigError")
         ELSE Then(Take(SubSeq(stream, 5, Len(stream)), size), LAMBDA body, next :
                  Then(DecodeBody(body), LAMBDA frame, end : Got(frame, next)))
=============================================================================
