---------------------------- MODULE MCFrameCodec ----------------------------
(***************************************************************************)
(* Samples of FrameCodec: frames of every type with values of every kind,  *)
(* numbers around the ends of the integer types, and replies to salvage.   *)
(***************************************************************************)
EXTENDS FrameCodec, SequencesExt

CONSTANTS
    MessageLens,   \* lengths of disconnect messages
    Sizes,         \* values of max-frame-size
    SalvageSizes   \* negotiated sizes under which replies are salvaged

-----------------------------------------------------------------------------
\* Frames

Text(length) == StrValue(KeyOf(length))
Ints == {0, 239, 240, -1, Least(DataType.INT64), Greatest(DataType.INT64), Greatest(DataType.INT64) + 1}

Values ==
    {None, BoolValue(TRUE), BoolValue(FALSE), <<"ipv4", <<10, 0, 0, 1>>>>,
     <<"ipv6", [i \in 1 .. 16 |-> i]>>, <<"bytes", <<>>>>, <<"bytes", <<0, 200>>>>,
     StrValue(<<>>), StrValue(<<97, 255>>), StrValue(<<256>>)}
    \union {IntValue(n) : n \in Ints}

Metas ==
    {[fin |-> TRUE, abort |-> FALSE, stream |-> 0, frame |-> 0],
     [fin |-> TRUE, abort |-> TRUE, stream |-> 240, frame |-> 1],
     [fin |-> FALSE, abort |-> FALSE, stream |-> Greatest(DataType.INT64), frame |-> 239],
     [fin |-> TRUE, abort |-> FALSE, stream |-> -1, frame |-> 1]}

HaproxyHellos ==
    [versions : {<<>>, <<KeyOf(3)>>, <<KeyOf(3), KeyOf(3)>>}, size : {IntValue(240), None},
     caps : {<<>>, <<KeyOf(10)>>, <<KeyOf(10), KeyOf(5)>>}, engine : {None, Text(4)},
     healthcheck : {BoolValue(TRUE), BoolValue(FALSE)}]
AgentHellos ==
    [version : {Text(3)}, size : {IntValue(n) : n \in Sizes}, caps : {<<>>, <<KeyOf(10)>>}]
DisconnectPayloads ==
    [status : {IntValue(0), IntValue(99)}, message : {Text(n) : n \in MessageLens}]

Args == {<<>>} \union {<< <<KeyOf(1), v>> >> : v \in Values}
               \union {<< <<KeyOf(1), v>>, <<KeyOf(2), None>> >> : v \in {None, IntValue(240)}}
Messages == [name : {<<>>, KeyOf(2)}, args : Args]
FewMessages == {m \in Messages : m.args = <<>> \/ m.args[1][2] \in {IntValue(240), StrValue(<<>>)}}

Actions == [type : {"SET_VAR"}, scope : {0, 4}, name : {KeyOf(2)}, value : Values]
           \union [type : {"UNSET_VAR"}, scope : {0, 4}, name : {<<>>, <<300>>}, value : {None}]
FewActions == {a \in Actions : a.scope = 4 /\ a.value \in {None, IntValue(240)}}

Lists(all, few) == {<<x>> : x \in all} \union BoundedSeq(few, 2)

Frames(types, metas, payloads) == [type : types, meta : metas, payload : payloads]

\* Replies to be salvaged: actions of 6, 7 and 13 bytes, and one with no wire form.
SalvageActions ==
    {[type |-> "UNSET_VAR", scope |-> 1, name |-> KeyOf(2), value |-> None],
     [type |-> "SET_VAR", scope |-> 1, name |-> KeyOf(2), value |-> BoolValue(TRUE)],
     [type |-> "SET_VAR", scope |-> 2, name |-> KeyOf(2), value |-> Text(5)],
     [type |-> "SET_VAR", scope |-> 1, name |-> KeyOf(1), value |-> StrValue(<<256>>)]}

\* Numbers around the ends of the integer types and the steps of a varint.
Ends == {SmallHalf, 2 * SmallHalf, LargeHalf, 2 * LargeHalf}
Numbers == UNION {(n - 2) .. (n + 2) : n \in {0, 240, 2288} \union Ends \union {-n : n \in Ends}}

MCSamples ==
    (Frames({"HAPROXY_HELLO"}, {Constructed}, HaproxyHellos) \X {0})
    \union (Frames({"AGENT_HELLO"}, {Constructed}, AgentHellos) \X {0})
    \union (Frames(Disconnects, {Constructed}, DisconnectPayloads) \X {0})
    \union (Frames({"NOTIFY"}, Metas, Lists(Messages, FewMessages)) \X {0})
    \union (Frames({"ACK"}, Metas, Lists(Actions, FewActions)) \X {0})
    \union ({EmptyAck} \X Numbers)
    \union (Frames({"ACK"}, Metas, BoundedSeq(SalvageActions, 3)) \X SalvageSizes)
=============================================================================
