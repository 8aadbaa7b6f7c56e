----------------------------- MODULE FrameCodec -----------------------------
(***************************************************************************)
(* The encoder and the decoder side by side: what holds of a frame, and of *)
(* the number of an integer or the size an ACK is salvaged for, whichever  *)
(* of Samples they are.  Frames are looked at whole, cut short at every    *)
(* byte and with every byte replaced by each of Noise; the salvage loop is *)
(* held against a reference definition over the bytes of ACKs.             *)
(***************************************************************************)
EXTENDS FrameEncoder, FrameDecoder, AckSalvage

CONSTANTS
    Samples,       \* pairs of a frame and a number
    Noise          \* bytes a damaged frame may carry

ASSUME CodecAssumption ==
    /\ \A sample \in Samples : sample = <<sample[1], sample[2]>> /\ IsFrame(sample[1]) /\ sample[2] \in Int
    /\ Noise \subseteq Byte

VARIABLES frame, number

\* The metadata Frame.construct gives a frame outside any stream.
Constructed == [fin |-> TRUE, abort |-> FALSE, stream |-> 0, frame |-> 0]
EmptyAck == [type |-> "ACK", meta |-> Constructed, payload |-> <<>>]

\* The bytes its stream id and frame id take.
IdBytes(meta) == Len(ComposeVarint(meta.stream)) + Len(ComposeVarint(meta.frame))

Init == \E sample \in Samples : frame = sample[1] /\ number = sample[2]

Next == UNCHANGED <<frame, number>>

Spec == Init /\ [][Next]_<<frame, number>>

-----------------------------------------------------------------------------
\* Properties

Behind == <<0, 0>>

\* What one side encodes the other decodes, and not a byte of the next frame with it.
RoundTrip ==
    Encodes(frame) =>
        DecodeFrame(EncodeFrame(frame) \o Behind, Len(Body(frame))) = Got(frame, Behind)

\* Each integer type keeps its whole range on the wire, the ends included.
IntWidths ==
    \A type \in IntTypes :
        InRange(type, number) =>
            DecodeVar(EncodeInt(type, number) \o Behind) = Got(IntValue(number), Behind)

\* Where an item of the frame's payload ends.
Items(f) == IF f.type \in {"NOTIFY", "ACK"} THEN f.payload ELSE Pairs(f.type, f.payload)
ItemBytes(f, item) ==
    CASE f.type = "NOTIFY" -> EncodeMessage(item)
      [] f.type = "ACK"    -> ComposeAction(item)
      [] OTHER             -> ComposeKvPair(item)
Boundaries(f) ==
    {Len(<<FrameType[f.type]>> \o EncodeMetadata(f.meta)
         \o Join([i \in 1 .. k |-> ItemBytes(f, Items(f)[i])])) : k \in 0 .. Len(Items(f))}

\* A frame cut short by the end of the stream is never taken for a frame, and a
\* payload that ends inside an item is never taken for a shorter one.
NoTornItem ==
    Encodes(frame) =>
        /\ \A n \in 0 .. (Len(EncodeFrame(frame)) - 1) :
               DecodeFrame(SubSeq(EncodeFrame(frame), 1, n), Len(Body(frame)))
               = IF n < 4 THEN Fail("SpopEOFError") ELSE Malformed
        /\ \A n \in 0 .. (Len(Body(frame)) - 1) :
               DecodeBody(SubSeq(Body(frame), 1, n)).ok => n \in Boundaries(frame)

\* Both sides of a connection draw the line of the negotiated size at the same
\* length: what the sender lets pass is never too big for the receiver.
LimitShared ==
    Encodes(frame) =>
        \A max \in (Len(Body(frame)) - 5) .. (Len(Body(frame)) + 5) :
            FitsFrame(Body(frame), max) <=> DecodeFrame(EncodeFrame(frame), max).ok

\* The lengths that decide in ForgeHandler are those of the bytes: of an empty ACK
\* with any ids, and of the HELLO and the disconnects of the agent.
SizesAsModelled ==
    /\ frame.type = "ACK" /\ frame.payload = <<>> /\ MetadataEncodes(frame.meta) =>
        Len(Body(frame)) = EmptyAckLen(IdBytes(frame.meta))
    /\ frame.meta = Constructed =>
        CASE frame.type = "AGENT_HELLO" ->
               Len(Body(frame)) = AgentHelloLen(Data(frame.payload.size),
                                                IF frame.payload.caps = <<>> THEN {} ELSE {"pipelining"})
          [] frame.type = "AGENT_DISCONNECT" ->
               Len(Body(frame)) = DisconnectLen(Len(Data(frame.payload.message)))
          [] OTHER -> TRUE

\* The frame's bytes with one of them replaced.
Damaged(i, byte) == [Body(frame) EXCEPT ![i] = byte]
Damageable == number = 0 /\ Encodes(frame) /\ Len(Body(frame)) < 100

\* Whatever is accepted means what it decodes to: encoded again, it decodes to
\* the same frame (lists are normalised once, integers keep their value).
AcceptedMeansItself ==
    Damageable => \A i \in DOMAIN Body(frame), byte \in Noise :
        LET result == DecodeBody(Damaged(i, byte)) IN
        result.ok /\ Encodes(result.value) => DecodeBody(Body(result.value)) = Got(result.value, <<>>)

\* An exception that is not a SpoeForgeError, which no clause of core_handler
\* treats, comes only from a HELLO: a NOTIFY or DISCONNECT can only be malformed.
ForeignOnlyFromHello ==
    Damageable => \A i \in DOMAIN Body(frame), byte \in Noise :
        DecodeBody(Damaged(i, byte)) = Fail("foreign")
        => Damaged(i, byte)[1] \in {FrameType.HAPROXY_HELLO, FrameType.AGENT_HELLO}

\* The ACK with the actions of frame at the positions K, in their order.
AckOf(K) ==
    LET picked[k \in 0 .. Len(frame.payload)] ==
            IF k = 0 THEN <<>>
            ELSE IF k \in K THEN Append(picked[k - 1], frame.payload[k]) ELSE picked[k - 1]
    IN  [frame EXCEPT !.payload = picked[Len(frame.payload)]]

\* The selections that could be sent as they are, by their bytes.
Shippable ==
    {K \in SUBSET DOMAIN frame.payload : Encodes(AckOf(K)) /\ FitsFrame(Body(AckOf(K)), number)}

\* K is preferred to L: it holds the first position where they differ.
Preferred(K, L) == \E i \in K \ L : \A j \in 1 .. (i - 1) : j \in K <=> j \in L

\* What the salvage loop sees of an action.
Tried(action) ==
    [enc |-> IF ActionEncodes(action) THEN "ok" ELSE "bad", action |-> action,
     len |-> IF ActionEncodes(action) THEN Len(ComposeAction(action)) ELSE 0]

\* The salvaged ACK, with whatever ids its NOTIFY has, holds the preferred
\* selection among all whose bytes fit the negotiated size: an earlier action is
\* never given up for later ones, and nothing that still fits is dropped ("every
\* action that encodes and fits", _process_notify).
SalvageIsGreedy ==
    LET ids   == IdBytes(frame.meta)
        tried == [i \in DOMAIN frame.payload |-> Tried(frame.payload[i])]
        kept  == Salvaged(tried, number, ids)
    IN
    frame.type = "ACK" /\ MetadataEncodes(frame.meta) /\ number >= EmptyAckLen(ids) =>
        \E K \in Shippable :
            /\ \A L \in Shippable \ {K} : Preferred(K, L)
            /\ AckOf(K).payload = [i \in DOMAIN kept |-> kept[i].action]

=============================================================================
