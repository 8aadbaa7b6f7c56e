----------------------------- MODULE SpopTypes -----------------------------
(***************************************************************************)
(* spop/constants.py and spop/spop_types.py: the numbers of the protocol   *)
(* and the values its frames carry.                                        *)
(*                                                                         *)
(* A byte is a number below 256 and bytes are a sequence of them.  A value *)
(* is a pair <<kind, data>>; Python has one type of integers, so the four  *)
(* integer types of the wire are all "int".  A string is the sequence of   *)
(* its code points.  Keys of the protocol are compared by their length     *)
(* only, which differs between the keys of any one frame.                  *)
(***************************************************************************)
EXTENDS Integers, Sequences, FiniteSetsExt

CONSTANTS
    SmallHalf,    \* half the numbers of INT32 and UINT32: 2^31
    LargeHalf     \* half the numbers of INT64, UINT64 and of ids: 2^63

ASSUME WidthAssumption ==
    SmallHalf \in Nat /\ LargeHalf \in Nat /\ 0 < SmallHalf /\ SmallHalf < LargeHalf

Byte == 0 .. 255
Bytes == Seq(Byte)

DataType == [NULL |-> 0, BOOL |-> 1, INT32 |-> 2, UINT32 |-> 3, INT64 |-> 4, UINT64 |-> 5,
             IPV4 |-> 6, IPV6 |-> 7, STRING |-> 8, BINARY |-> 9]

FrameType == [UNSET |-> 0, HAPROXY_HELLO |-> 1, HAPROXY_DISCONNECT |-> 2, NOTIFY |-> 3,
              AGENT_HELLO |-> 101, AGENT_DISCONNECT |-> 102, ACK |-> 103]

Disconnects == {"HAPROXY_DISCONNECT", "AGENT_DISCONNECT"}

ActionType == [SET_VAR |-> 1, UNSET_VAR |-> 2]
ActionNBArgs == [SET_VAR |-> 3, UNSET_VAR |-> 2]
ActionScope == 0 .. 4

\* The keys of HELLO and DISCONNECT frames.
KeyOf(length) == [i \in 1 .. length |-> 107]
Key == [SupportedVersions |-> KeyOf(18), MaxFrameSize |-> KeyOf(14), Capabilities |-> KeyOf(12),
        Healthcheck |-> KeyOf(11), EngineId |-> KeyOf(9), Version |-> KeyOf(7),
        StatusCode |-> KeyOf(11), Message |-> KeyOf(7)]

None == <<"null", <<>>>>
IntValue(n) == <<"int", n>>
BoolValue(b) == <<"bool", b>>
StrValue(s) == <<"str", s>>
Kind(value) == value[1]
Data(value) == value[2]

\* Width and sign of the integer types.
IntTypes == {DataType.INT32, DataType.UINT32, DataType.INT64, DataType.UINT64}
Half(type) == IF type \in {DataType.INT32, DataType.UINT32} THEN SmallHalf ELSE LargeHalf
IsSigned(type) == type \in {DataType.INT32, DataType.INT64}

\* INT32_MIN .. INT32_MAX, 0 .. UINT32_MAX and so on.
Least(type) == IF IsSigned(type) THEN -Half(type) ELSE 0
Greatest(type) == IF IsSigned(type) THEN Half(type) - 1 ELSE 2 * Half(type) - 1
InRange(type, n) == Least(type) <= n /\ n <= Greatest(type)

Comma == 44

\* What str.strip strips, as far as latin-1 has it.
Spaces == (9 .. 13) \union (28 .. 32) \union {133, 160}

\* str.strip
Strip(s) ==
    LET solid == {i \in DOMAIN s : s[i] \notin Spaces} IN
    IF solid = {} THEN <<>> ELSE SubSeq(s, Min(solid), Max(solid))

\* Frame.to_spop_list: the stripped items with commas between them.
ToSpopList(items) ==
    LET joined[left \in Seq(Seq(Nat))] ==
            IF left = <<>> THEN <<>>
            ELSE IF Tail(left) = <<>> THEN Strip(Head(left))
            ELSE Strip(Head(left)) \o <<Comma>> \o joined[Tail(left)]
    IN  joined[items]

\* The first comma, or the end of the string; the piece before it and what follows.
FirstCut(s) == Min({i \in DOMAIN s : s[i] = Comma} \union {Len(s) + 1})
Piece(s) == SubSeq(s, 1, FirstCut(s) - 1)
Others(s) == SubSeq(s, FirstCut(s) + 1, Len(s))

\* A plausible slip: the pieces are not stripped.
SplitOnly(s) ==
    LET pieces[left \in Seq(Nat)] ==
            IF left = <<>> THEN <<>>
            ELSE (IF Piece(left) = <<>> THEN <<>> ELSE <<Piece(left)>>) \o pieces[Others(left)]
    IN  pieces[s]

\* Frame.from_spop_list: the stripped pieces between commas, empty ones left out.
FromSpopList(s) ==
    LET pieces[left \in Seq(Nat)] ==
            IF left = <<>> THEN <<>>
            ELSE (IF Strip(Piece(left)) = <<>> THEN <<>> ELSE <<Strip(Piece(left))>>)
                 \o pieces[Others(left)]
    IN  pieces[s]

\* SpoaDataType
Value ==
    {None} \union ({"bool"} \X BOOLEAN) \union ({"int"} \X Int) \union ({"str"} \X Seq(Nat))
    \union ({"bytes"} \X Bytes) \union ({"ipv4"} \X [1 .. 4 -> Byte])
    \union ({"ipv6"} \X [1 .. 16 -> Byte])

\* A dictionary is the sequence of its pairs <<key, value>>, Messages one of records.
Pair == Seq(Nat) \X Value
HasDuplicates(pairs) == \E i, j \in DOMAIN pairs : i # j /\ pairs[i][1] = pairs[j][1]
Dict == {pairs \in Seq(Pair) : ~HasDuplicates(pairs)}
Message == [name : Seq(Nat), args : Dict]

\* SetVarAction and UnsetVarAction, the latter with the value None.
Action ==
    {action \in [type : DOMAIN ActionType, scope : ActionScope, name : Seq(Nat), value : Value] :
        action.type = "UNSET_VAR" => action.value = None}

\* MetaData with its Flags; ids are numbers decode_metadata can give.
Id == {n \in Int : InRange(DataType.INT64, n)}
MetaData == [fin : BOOLEAN, abort : BOOLEAN, stream : Id, frame : Id]

\* The lists of names from_spop_list returns.
Name == {s \in Seq(Nat) : s # <<>> /\ Strip(s) = s /\ \A i \in DOMAIN s : s[i] # Comma}

\* The payloads the classes of frames hold.
Payload(type) ==
    CASE type = "NOTIFY" -> Seq(Message)
      [] type = "ACK"    -> Seq(Action)
      [] type = "HAPROXY_HELLO" ->
           [versions : Seq(Name), size : Value, caps : Seq(Name), engine : Value, healthcheck : Value]
      [] type = "AGENT_HELLO"   -> [version : Value, size : Value, caps : Seq(Name)]
      [] type \in Disconnects   -> [status : Value, message : Value]

IsFrame(frame) ==
    /\ frame.type \in DOMAIN FrameType \ {"UNSET"}
    /\ frame \in [type : {frame.type}, meta : MetaData, payload : Payload(frame.type)]
=============================================================================
