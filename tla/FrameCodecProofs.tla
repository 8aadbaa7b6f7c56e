-------------------------- MODULE FrameCodecProofs --------------------------
EXTENDS FrameCodec, AckSalvageProofs, SequenceTheorems

-----------------------------------------------------------------------------
(* Sequences *)

\* A sequence with an element in front.
LEMMA ConsFacts ==
    ASSUME NEW S, NEW a \in S, NEW s \in Seq(S)
    PROVE  /\ <<a>> \o s \in Seq(S) /\ <<a>> \o s # <<>>
           /\ Len(<<a>> \o s) = Len(s) + 1
           /\ Head(<<a>> \o s) = a /\ Tail(<<a>> \o s) = s
<1>1. <<a>> \in Seq(S) /\ Len(<<a>>) = 1 /\ <<a>>[1] = a
  OBVIOUS
<1> DEFINE t == <<a>> \o s
<1>2. /\ t \in Seq(S) /\ Len(t) = 1 + Len(s) /\ Len(s) \in Nat
      /\ \A i \in 1 .. (1 + Len(s)) : t[i] = IF i <= 1 THEN <<a>>[i] ELSE s[i - 1]
  BY <1>1, ConcatProperties
<1> HIDE DEF t
<1>3. t # <<>> /\ Head(t) = a
  BY <1>1, <1>2
<1>4. Tail(t) \in Seq(S) /\ Len(Tail(t)) = Len(s) /\ \A i \in 1 .. Len(s) : Tail(t)[i] = t[i + 1]
  BY <1>2, <1>3, HeadTailProperties
<1>5. \A i \in 1 .. Len(s) : Tail(t)[i] = s[i]
  BY <1>2, <1>4
<1>6. Tail(t) = s
  BY <1>4, <1>5, SeqEqual
<1>. QED BY <1>2, <1>3, <1>6 DEF t

\* A nonempty sequence is its head in front of its tail.
LEMMA HeadTail ==
    ASSUME NEW S, NEW s \in Seq(S), s # <<>>
    PROVE  Head(s) \in S /\ Tail(s) \in Seq(S) /\ s = <<Head(s)>> \o Tail(s) /\ Len(Tail(s)) = Len(s) - 1
<1>1. Head(s) \in S /\ Tail(s) \in Seq(S) /\ Len(Tail(s)) = Len(s) - 1
      /\ \A i \in 1 .. Len(Tail(s)) : Tail(s)[i] = s[i + 1]
  BY HeadTailProperties
<1>2. Len(s) \in Nat /\ Len(s) # 0 /\ Head(s) = s[1]
  OBVIOUS
<1> DEFINE t == <<Head(s)>> \o Tail(s)
<1>3. /\ t \in Seq(S) /\ Len(t) = Len(s)
      /\ \A i \in 1 .. Len(s) : t[i] = IF i <= 1 THEN <<Head(s)>>[i] ELSE Tail(s)[i - 1]
  <2>1. <<Head(s)>> \in Seq(S) /\ Len(<<Head(s)>>) = 1
    BY <1>1
  <2>. QED BY <1>1, <1>2, <2>1, ConcatProperties
<1> HIDE DEF t
<1>4. \A i \in 1 .. Len(s) : t[i] = s[i]
  BY <1>1, <1>2, <1>3
<1>5. t = s
  BY <1>3, <1>4, SeqEqual
<1>. QED BY <1>1, <1>5 DEF t

\* More behind a nonempty sequence changes neither its head nor the start of its tail.
LEMMA HeadTailConcat ==
    ASSUME NEW S, NEW s \in Seq(S), NEW t \in Seq(S), s # <<>>
    PROVE  s \o t # <<>> /\ Head(s \o t) = Head(s) /\ Tail(s \o t) = Tail(s) \o t
<1> DEFINE a == Head(s)
           u == Tail(s)
<1>1. a \in S /\ u \in Seq(S) /\ s = <<a>> \o u
  BY HeadTail
<1> HIDE DEF a, u
<1>2. <<a>> \in Seq(S) /\ u \o t \in Seq(S)
  BY <1>1, ConcatProperties
<1>3. s \o t = <<a>> \o (u \o t)
  BY <1>1, <1>2, ConcatAssociative
<1>4. <<a>> \o (u \o t) # <<>> /\ Head(<<a>> \o (u \o t)) = a /\ Tail(<<a>> \o (u \o t)) = u \o t
  BY <1>1, <1>2, ConsFacts
<1>. QED BY <1>3, <1>4 DEF a, u

\* A sequence cut in two.
LEMMA CutFacts ==
    ASSUME NEW S, NEW s \in Seq(S), NEW n \in 0 .. Len(s)
    PROVE  /\ SubSeq(s, 1, n) \in Seq(S) /\ Len(SubSeq(s, 1, n)) = n
           /\ SubSeq(s, n + 1, Len(s)) \in Seq(S) /\ Len(SubSeq(s, n + 1, Len(s))) = Len(s) - n
           /\ s = SubSeq(s, 1, n) \o SubSeq(s, n + 1, Len(s))
<1>1. Len(s) \in Nat /\ n \in Nat /\ n <= Len(s) /\ \A i \in 1 .. Len(s) : s[i] \in S
  OBVIOUS
<1>2. SubSeq(s, 1, n) \in Seq(S) /\ Len(SubSeq(s, 1, n)) = n
  BY <1>1, SubSeqProperties
<1>3. SubSeq(s, n + 1, Len(s)) \in Seq(S) /\ Len(SubSeq(s, n + 1, Len(s))) = Len(s) - n
  BY <1>1, SubSeqProperties
<1>4. SubSeq(s, 1, n) \o SubSeq(s, n + 1, Len(s)) = SubSeq(s, 1, Len(s))
  <2>1. 1 \in 1 .. Len(s) + 1 /\ n \in 1 - 1 .. Len(s) /\ Len(s) \in n .. Len(s)
    BY <1>1
  <2>. QED BY <2>1, ConcatAdjacentSubSeq
<1>5. SubSeq(s, 1, Len(s)) = s
  BY SubSeqFull
<1>. QED BY <1>2, <1>3, <1>4, <1>5

\* The two parts of a concatenation are found again.
LEMMA UncutFacts ==
    ASSUME NEW S, NEW s \in Seq(S), NEW t \in Seq(S)
    PROVE  SubSeq(s \o t, 1, Len(s)) = s /\ SubSeq(s \o t, Len(s) + 1, Len(s \o t)) = t
<1> DEFINE u == s \o t
<1>1. /\ u \in Seq(S) /\ Len(u) = Len(s) + Len(t) /\ Len(s) \in Nat /\ Len(t) \in Nat
      /\ \A i \in 1 .. Len(s) + Len(t) : u[i] = IF i <= Len(s) THEN s[i] ELSE t[i - Len(s)]
  BY ConcatProperties
<1> HIDE DEF u
<1>2. Len(s) \in 0 .. Len(u) /\ \A i \in 1 .. Len(u) : u[i] \in S
  BY <1>1
<1>3. SubSeq(u, 1, Len(s)) = s
  <2>1. /\ SubSeq(u, 1, Len(s)) \in Seq(S) /\ Len(SubSeq(u, 1, Len(s))) = Len(s)
        /\ \A i \in 1 .. Len(s) - 1 + 1 : SubSeq(u, 1, Len(s))[i] = u[1 + i - 1]
    BY <1>1, <1>2, SubSeqProperties
  <2>2. \A i \in 1 .. Len(s) : SubSeq(u, 1, Len(s))[i] = s[i]
    BY <1>1, <2>1
  <2>. QED BY <2>1, <2>2, SeqEqual
<1>4. SubSeq(u, Len(s) + 1, Len(u)) = t
  <2>1. /\ SubSeq(u, Len(s) + 1, Len(u)) \in Seq(S)
        /\ Len(SubSeq(u, Len(s) + 1, Len(u))) = Len(t)
        /\ \A i \in 1 .. Len(t) : SubSeq(u, Len(s) + 1, Len(u))[i] = u[Len(s) + i]
    <3> DEFINE v == SubSeq(u, Len(s) + 1, Len(u))
    <3>1. /\ v \in Seq(S)
          /\ Len(v) = IF Len(s) + 1 <= Len(u) THEN Len(u) - (Len(s) + 1) + 1 ELSE 0
          /\ \A i \in 1 .. Len(u) - (Len(s) + 1) + 1 : v[i] = u[Len(s) + 1 + i - 1]
      <4>1. Len(s) + 1 \in Int /\ Len(u) \in Int /\ \A i \in (Len(s) + 1) .. Len(u) : u[i] \in S
        BY <1>1, <1>2
      <4>. QED BY <4>1, SubSeqProperties
    <3> HIDE DEF v
    <3>2. Len(u) - (Len(s) + 1) + 1 = Len(t) /\ \A i \in 1 .. Len(t) : Len(s) + 1 + i - 1 = Len(s) + i
      BY <1>1
    <3>. QED BY <1>1, <3>1, <3>2 DEF v
  <2>2. \A i \in 1 .. Len(t) : SubSeq(u, Len(s) + 1, Len(u))[i] = t[i]
    <3> SUFFICES ASSUME NEW i \in 1 .. Len(t) PROVE u[Len(s) + i] = t[i]
      BY <2>1
    <3>1. Len(s) + i \in 1 .. Len(s) + Len(t) /\ ~(Len(s) + i <= Len(s)) /\ Len(s) + i - Len(s) = i
      BY <1>1
    <3>. QED BY <1>1, <3>1
  <2>. QED BY <2>1, <2>2, SeqEqual
<1>. QED BY <1>3, <1>4 DEF u

\* Induction on the length of a sequence.
LEMMA LengthInduction ==
    ASSUME NEW S, NEW T,
           \A s \in Seq(S) : (\A t \in Seq(S) : Len(t) < Len(s) => t \in T) => s \in T
    PROVE  Seq(S) \subseteq T
<1> DEFINE Bad == Seq(S) \ T
           Lens == {Len(s) : s \in Bad}
<1> SUFFICES ASSUME Bad # {} PROVE FALSE
  OBVIOUS
<1>0. \A t \in Seq(S) : Len(t) \in Nat
  BY LenProperties
<1>1. Lens \subseteq Nat /\ Lens # {}
  BY ONLY <1>0, Bad # {}
<1>2. PICK m \in Lens : \A k \in Lens : m <= k
  <2> HIDE DEF Lens
  <2>. QED BY <1>1, LeastElement
<1>3. PICK s \in Bad : m = Len(s)
  OBVIOUS
<1>4. \A t \in Seq(S) : Len(t) < Len(s) => t \in T
  <2> SUFFICES ASSUME NEW t \in Seq(S), Len(t) < Len(s), t \notin T PROVE FALSE
    OBVIOUS
  <2>1. Len(t) \in Lens /\ Len(t) \in Nat /\ Len(s) \in Nat
    <3>1. t \in Bad /\ s \in Seq(S)
      BY <1>3
    <3> HIDE DEF Bad
    <3>2. Len(t) \in Lens
      BY <3>1
    <3>. QED BY <1>0, <3>1, <3>2
  <2>2. Len(s) <= Len(t)
    <3> HIDE DEF Lens, Bad
    <3>. QED BY <1>2, <1>3, <2>1
  <2>. QED BY <2>1, <2>2
<1>. QED BY <1>3, <1>4

LEMMA ByteFacts == Byte \subseteq Nat /\ \A n \in Nat : n < 256 => n \in Byte
BY DEF Byte

LEMMA BytesFacts ==
    \A bytes \in Bytes :
        /\ Len(bytes) \in Nat
        /\ bytes # <<>> => /\ Head(bytes) \in Byte /\ Head(bytes) \in Nat /\ Tail(bytes) \in Bytes
                           /\ bytes = <<Head(bytes)>> \o Tail(bytes) /\ 0 < Len(bytes)
                           /\ Len(Tail(bytes)) = Len(bytes) - 1 /\ Len(Tail(bytes)) \in Nat
<1> SUFFICES ASSUME NEW bytes \in Bytes
             PROVE  /\ Len(bytes) \in Nat
                    /\ bytes # <<>> => /\ Head(bytes) \in Byte /\ Head(bytes) \in Nat
                                       /\ Tail(bytes) \in Bytes
                                       /\ bytes = <<Head(bytes)>> \o Tail(bytes) /\ 0 < Len(bytes)
                                       /\ Len(Tail(bytes)) = Len(bytes) - 1 /\ Len(Tail(bytes)) \in Nat
  OBVIOUS
<1>1. Len(bytes) \in Nat
  BY DEF Bytes
<1>2. CASE bytes # <<>>
  <2>1. /\ Head(bytes) \in Byte /\ Tail(bytes) \in Bytes /\ bytes = <<Head(bytes)>> \o Tail(bytes)
        /\ Len(Tail(bytes)) = Len(bytes) - 1
    BY <1>2, HeadTail DEF Bytes
  <2>2. Len(Tail(bytes)) \in Nat
    BY <2>1 DEF Bytes
  <2>3. Head(bytes) \in Nat
    BY <2>1, ByteFacts
  <2>4. 0 < Len(bytes)
    BY <1>1, <2>1, <2>2
  <2>. QED BY <1>1, <2>1, <2>2, <2>3, <2>4
<1>. QED BY <1>1, <1>2

LEMMA BytesConcat ==
    \A s, t \in Bytes :
        /\ s \o t \in Bytes /\ Len(s \o t) = Len(s) + Len(t)
        /\ s \o <<>> = s /\ <<>> \o s = s
        /\ s # <<>> => s \o t # <<>> /\ Head(s \o t) = Head(s) /\ Tail(s \o t) = Tail(s) \o t
BY ConcatProperties, ConcatEmptySeq, HeadTailConcat DEF Bytes

LEMMA BytesAssociate == \A s, t, u \in Bytes : (s \o t) \o u = s \o (t \o u)
BY ConcatAssociative DEF Bytes

LEMMA BytesCons ==
    /\ <<>> \in Bytes /\ Len(<<>>) = 0
    /\ \A a \in Byte :
           /\ <<a>> \in Bytes /\ <<a>> # <<>> /\ Len(<<a>>) = 1
           /\ \A s \in Bytes : /\ <<a>> \o s \in Bytes /\ <<a>> \o s # <<>> /\ Len(<<a>> \o s) = Len(s) + 1
                               /\ Head(<<a>> \o s) = a /\ Tail(<<a>> \o s) = s
BY ConsFacts DEF Bytes

-----------------------------------------------------------------------------
(* What a decoder reads *)

\* On these bytes, decoder D either rejects or reads at least k of them, gives a value of
\* V, and does the same whatever follows.
ReadsAt(D, bytes, V, k) ==
    \/ D[bytes] = Malformed
    \/ \E v \in V, rest \in Bytes :
           /\ D[bytes] = Got(v, rest) /\ Len(rest) + k <= Len(bytes)
           /\ \A more \in Bytes : D[bytes \o more] = Got(v, rest \o more)

Reads(D, V, k) == \A bytes \in Bytes : ReadsAt(D, bytes, V, k)

LEMMA GotFacts ==
    /\ \A v, r : Got(v, r).ok /\ Got(v, r).value = v /\ Got(v, r).rest = r /\ Got(v, r) # Malformed
    /\ ~Malformed.ok
BY DEF Got, Malformed, Fail

\* One decoder after another: the second is chosen by the first one's value.
Composed(D, first, second) ==
    \A bytes \in Bytes :
        D[bytes] = IF first[bytes].ok THEN second[first[bytes].value][first[bytes].rest] ELSE first[bytes]
AllRead(second, U, V, k) == \A u \in U : Reads(second[u], V, k)

LEMMA ReadsThen ==
    ASSUME NEW D, NEW first, NEW second, NEW U, NEW V, NEW j \in Nat, NEW k \in Nat,
           Reads(first, U, j), AllRead(second, U, V, k), Composed(D, first, second)
    PROVE  Reads(D, V, j + k)
<1> USE DEF Composed, AllRead
<1> SUFFICES ASSUME NEW bytes \in Bytes PROVE ReadsAt(D, bytes, V, j + k)
  BY DEF Reads
<1>1. ReadsAt(first, bytes, U, j)
  BY DEF Reads
<1>2. CASE first[bytes] = Malformed
  BY <1>2, GotFacts DEF ReadsAt
<1>3. CASE first[bytes] # Malformed
  <2>1. PICK u \in U, mid \in Bytes :
            /\ first[bytes] = Got(u, mid) /\ Len(mid) + j <= Len(bytes)
            /\ \A more \in Bytes : first[bytes \o more] = Got(u, mid \o more)
    BY <1>1, <1>3 DEF ReadsAt
  <2>2. ReadsAt(second[u], mid, V, k)
    BY DEF Reads
  <2>3. D[bytes] = second[u][mid]
    BY <2>1, GotFacts
  <2>4. ASSUME NEW more \in Bytes PROVE D[bytes \o more] = second[u][mid \o more]
    <3>1. bytes \o more \in Bytes /\ first[bytes \o more] = Got(u, mid \o more)
      BY <2>1, BytesConcat
    <3>. QED BY <3>1, GotFacts
  <2>5. \A more \in Bytes : D[bytes \o more] = second[u][mid \o more]
    BY <2>4
  <2>6. CASE second[u][mid] = Malformed
    BY <2>3, <2>6 DEF ReadsAt
  <2>7. CASE second[u][mid] # Malformed
    <3>1. PICK v \in V, rest \in Bytes :
              /\ second[u][mid] = Got(v, rest) /\ Len(rest) + k <= Len(mid)
              /\ \A more \in Bytes : second[u][mid \o more] = Got(v, rest \o more)
      BY <2>2, <2>7 DEF ReadsAt
    <3>2. Len(rest) \in Nat /\ Len(mid) \in Nat /\ Len(bytes) \in Nat
      BY DEF Bytes
    <3>3. Len(rest) + (j + k) <= Len(bytes)
      BY <2>1, <3>1, <3>2
    <3>. QED BY <2>3, <2>5, <3>1, <3>3 DEF ReadsAt
  <2>. QED BY <2>6, <2>7
<1>. QED BY <1>2, <1>3

\* A decoder that reads at least k bytes reads at least j of them, for a smaller j.
LEMMA ReadsLess ==
    ASSUME NEW D, NEW U, NEW V, U \subseteq V, NEW j \in Nat, NEW k \in Nat, j <= k, Reads(D, U, k)
    PROVE  Reads(D, V, j)
<1> SUFFICES ASSUME NEW bytes \in Bytes, D[bytes] # Malformed
             PROVE  \E v \in V, rest \in Bytes :
                        /\ D[bytes] = Got(v, rest) /\ Len(rest) + j <= Len(bytes)
                        /\ \A more \in Bytes : D[bytes \o more] = Got(v, rest \o more)
  BY DEF Reads, ReadsAt
<1>1. PICK v \in U, rest \in Bytes :
          /\ D[bytes] = Got(v, rest) /\ Len(rest) + k <= Len(bytes)
          /\ \A more \in Bytes : D[bytes \o more] = Got(v, rest \o more)
  BY DEF Reads, ReadsAt
<1>2. Len(rest) + j <= Len(bytes)
  BY <1>1, BytesFacts
<1>. QED BY <1>1, <1>2

\* A decoder followed by one that need not read anything.
LEMMA ReadsFirst ==
    ASSUME NEW D, NEW first, NEW second, NEW U, NEW V, NEW j \in Nat,
           Reads(first, U, j), \A u \in U : Reads(second[u], V, 0),
           \A bytes \in Bytes :
               D[bytes] = IF first[bytes].ok THEN second[first[bytes].value][first[bytes].rest]
                          ELSE first[bytes]
    PROVE  Reads(D, V, j)
<1>1. Composed(D, first, second) /\ AllRead(second, U, V, 0)
  BY DEF Composed, AllRead
<1>2. Reads(D, V, j + 0)
  BY <1>1, ReadsThen
<1>3. j + 0 = j
  OBVIOUS
<1>. QED BY <1>2, <1>3

\* A decoder that reads nothing.
LEMMA ReadsGot ==
    ASSUME NEW V, NEW v \in V PROVE Reads([bytes \in Bytes |-> Got(v, bytes)], V, 0)
<1> DEFINE D == [bytes \in Bytes |-> Got(v, bytes)]
<1> SUFFICES ASSUME NEW bytes \in Bytes PROVE ReadsAt(D, bytes, V, 0)
  BY DEF Reads
<1>1. D[bytes] = Got(v, bytes) /\ \A more \in Bytes : D[bytes \o more] = Got(v, bytes \o more)
  BY BytesConcat
<1>2. Len(bytes) + 0 <= Len(bytes)
  BY BytesFacts
<1>. QED BY <1>1, <1>2 DEF ReadsAt

\* A decoder that always rejects.
LEMMA ReadsNothing ==
    ASSUME NEW V, NEW k PROVE Reads([bytes \in Bytes |-> Malformed], V, k)
BY DEF Reads, ReadsAt

\* A decoder whose value is converted.
LEMMA ReadsMap ==
    ASSUME NEW D, NEW first, NEW f, NEW U, NEW V, NEW k \in Nat, Reads(first, U, k),
           \A u \in U : f[u] \in V,
           \A bytes \in Bytes :
               D[bytes] = IF first[bytes].ok THEN Got(f[first[bytes].value], first[bytes].rest)
                          ELSE first[bytes]
    PROVE  Reads(D, V, k)
<1> DEFINE second == [u \in U |-> [bytes \in Bytes |-> Got(f[u], bytes)]]
<1>1. \A u \in U : Reads(second[u], V, 0)
  BY ReadsGot
<1> SUFFICES ASSUME NEW bytes \in Bytes PROVE ReadsAt(D, bytes, V, k)
  BY DEF Reads
<1>2. CASE first[bytes] = Malformed
  BY <1>2, GotFacts DEF ReadsAt
<1>3. CASE first[bytes] # Malformed
  <2>1. PICK u \in U, rest \in Bytes :
            /\ first[bytes] = Got(u, rest) /\ Len(rest) + k <= Len(bytes)
            /\ \A more \in Bytes : first[bytes \o more] = Got(u, rest \o more)
    BY <1>3 DEF Reads, ReadsAt
  <2>2. D[bytes] = Got(f[u], rest)
    BY <2>1, GotFacts
  <2>3. ASSUME NEW more \in Bytes PROVE D[bytes \o more] = Got(f[u], rest \o more)
    <3>1. bytes \o more \in Bytes /\ first[bytes \o more] = Got(u, rest \o more)
      BY <2>1, BytesConcat
    <3>. QED BY <3>1, GotFacts
  <2>. QED BY <2>1, <2>2, <2>3 DEF ReadsAt
<1>. QED BY <1>2, <1>3

\* Whatever follows them, these bytes are read as v, all of them and nothing else.
Carries(D, bytes, v) == bytes \in Bytes /\ \A more \in Bytes : D[bytes \o more] = Got(v, more)

LEMMA CarriesExactly ==
    ASSUME NEW D, NEW V, NEW k \in Nat, Reads(D, V, k), NEW bytes \in Bytes, NEW v,
           D[bytes] = Got(v, <<>>)
    PROVE  Carries(D, bytes, v)
<1>1. PICK u \in V, rest \in Bytes :
          /\ D[bytes] = Got(u, rest)
          /\ \A more \in Bytes : D[bytes \o more] = Got(u, rest \o more)
  BY GotFacts DEF Reads, ReadsAt
<1>2. u = v /\ rest = <<>>
  BY <1>1, GotFacts
<1>. QED BY <1>1, <1>2, BytesConcat DEF Carries

LEMMA CarriesThen ==
    ASSUME NEW D, NEW first, NEW second, NEW a, NEW b, NEW u, NEW v,
           Carries(first, a, u), Carries(second[u], b, v),
           \A bytes \in Bytes :
               D[bytes] = IF first[bytes].ok THEN second[first[bytes].value][first[bytes].rest]
                          ELSE first[bytes]
    PROVE  Carries(D, a \o b, v)
<1>1. a \in Bytes /\ b \in Bytes /\ a \o b \in Bytes
  BY BytesConcat DEF Carries
<1> SUFFICES ASSUME NEW more \in Bytes PROVE D[(a \o b) \o more] = Got(v, more)
  BY <1>1 DEF Carries
<1>2. (a \o b) \o more = a \o (b \o more) /\ b \o more \in Bytes /\ a \o (b \o more) \in Bytes
  <2>1. (a \o b) \o more = a \o (b \o more)
    BY <1>1, BytesAssociate
  <2>2. b \o more \in Bytes
    BY <1>1, BytesConcat
  <2>. QED BY <1>1, <2>1, <2>2, BytesConcat
<1>3. first[a \o (b \o more)] = Got(u, b \o more) /\ second[u][b \o more] = Got(v, more)
  BY <1>2 DEF Carries
<1>. QED BY <1>2, <1>3, GotFacts

LEMMA CarriesMap ==
    ASSUME NEW D, NEW first, NEW f, NEW a, NEW u, Carries(first, a, u),
           \A bytes \in Bytes :
               D[bytes] = IF first[bytes].ok THEN Got(f[first[bytes].value], first[bytes].rest)
                          ELSE first[bytes]
    PROVE  Carries(D, a, f[u])
<1> SUFFICES ASSUME NEW more \in Bytes PROVE D[a \o more] = Got(f[u], more)
  BY DEF Carries
<1>1. a \o more \in Bytes /\ first[a \o more] = Got(u, more)
  BY BytesConcat DEF Carries
<1>. QED BY <1>1, GotFacts

\* A decoder never takes the start of bytes that carry a value for a value.
LEMMA CarriesWhole ==
    ASSUME NEW D, NEW V, NEW k \in Nat, Reads(D, V, k), NEW start \in Bytes, NEW end \in Bytes,
           NEW v, D[start \o end] = Got(v, <<>>), D[start] # Malformed
    PROVE  end = <<>>
<1>1. PICK u \in V, rest \in Bytes :
          \A more \in Bytes : D[start \o more] = Got(u, rest \o more)
  BY DEF Reads, ReadsAt
<1>2. rest \o end = <<>>
  <2>1. Got(v, <<>>) = Got(u, rest \o end)
    BY <1>1
  <2>2. Got(v, <<>>).rest = <<>> /\ Got(u, rest \o end).rest = rest \o end
    BY GotFacts
  <2>. QED BY <2>1, <2>2
<1>3. Len(rest \o end) = Len(rest) + Len(end) /\ Len(rest) \in Nat /\ Len(end) \in Nat
  BY BytesConcat, BytesFacts
<1>4. Len(end) = 0
  BY <1>2, <1>3, BytesCons
<1>. QED BY <1>4, BytesFacts

\* A single byte.
ByteReader == [bytes \in Bytes |-> IF bytes = <<>> THEN Malformed ELSE Got(Head(bytes), Tail(bytes))]

LEMMA ByteReads == Reads(ByteReader, Byte, 1)
<1> SUFFICES ASSUME NEW bytes \in Bytes PROVE ReadsAt(ByteReader, bytes, Byte, 1)
  BY DEF Reads
<1>1. CASE bytes = <<>>
  BY <1>1 DEF ReadsAt, ByteReader
<1>2. CASE bytes # <<>>
  <2>1. /\ Head(bytes) \in Byte /\ Tail(bytes) \in Bytes /\ Len(bytes) \in Nat
        /\ Len(Tail(bytes)) \in Nat /\ Len(Tail(bytes)) = Len(bytes) - 1
    BY <1>2, BytesFacts
  <2>2. ByteReader[bytes] = Got(Head(bytes), Tail(bytes))
    BY <1>2 DEF ByteReader
  <2>3. \A more \in Bytes : ByteReader[bytes \o more] = Got(Head(bytes), Tail(bytes) \o more)
    BY <1>2, BytesConcat DEF ByteReader
  <2>4. Len(Tail(bytes)) + 1 <= Len(bytes)
    BY <2>1
  <2>. QED BY <2>1, <2>2, <2>3, <2>4 DEF ReadsAt
<1>. QED BY <1>1, <1>2

LEMMA ByteCarries == \A a \in Byte : Carries(ByteReader, <<a>>, a)
BY BytesCons DEF Carries, ByteReader

-----------------------------------------------------------------------------
(* Varints *)

\* The results of decoders for values of V.
Results(V) == {Malformed} \union {Got(v, rest) : v \in V, rest \in Bytes}

LEMMA GroupsFacts ==
    /\ Groups \in [Nat -> Bytes]
    /\ \A n \in Nat :
           Groups[n] = IF n < 128 THEN <<n>> ELSE <<128 + (n % 128)>> \o Groups[(n - 128) \div 128]
<1> DEFINE stop == 0 .. 127
           out == [n \in Nat |-> IF n < 128 THEN <<n>> ELSE <<>>]
           next == [n \in Nat |-> IF n < 128 THEN n ELSE (n - 128) \div 128]
           step == [p \in Nat \X Bytes |-> <<128 + (p[1] % 128)>> \o p[2]]
           measure == [n \in Nat |-> n]
           F(f) == [n \in Nat |-> IF n < 128 THEN <<n>>
                                   ELSE <<128 + (n % 128)>> \o f[(n - 128) \div 128]]
<1>1. \A n \in Nat : n >= 128 => (n - 128) \div 128 \in Nat /\ (n - 128) \div 128 < n
  OBVIOUS
<1>2. \A n \in Nat : 128 + (n % 128) \in Byte
  BY DEF Byte
<1>3. \A n \in 0 .. 127 : n \in Byte
  BY DEF Byte
<1>4. /\ measure \in [Nat -> Nat] /\ out \in [Nat -> Bytes] /\ next \in [Nat -> Nat]
      /\ step \in [Nat \X Bytes -> Bytes]
      /\ \A n \in Nat : n \notin stop => measure[next[n]] < measure[n]
  <2>1. out \in [Nat -> Bytes]
    BY <1>3 DEF Bytes
  <2>2. next \in [Nat -> Nat]
    BY <1>1
  <2>3. step \in [Nat \X Bytes -> Bytes]
    <3> SUFFICES ASSUME NEW p \in Nat \X Bytes PROVE <<128 + (p[1] % 128)>> \o p[2] \in Bytes
      OBVIOUS
    <3>1. 128 + (p[1] % 128) \in Byte /\ p[2] \in Bytes
      BY <1>2
    <3>. QED BY <3>1, ConsFacts DEF Bytes
  <2>4. \A n \in Nat : n \notin stop => measure[next[n]] < measure[n]
    BY <1>1
  <2>. QED BY <2>1, <2>2, <2>3, <2>4
<1>5. PICK g \in [Nat -> Bytes] : Solves(g, Nat, stop, out, next, step)
  <2> HIDE DEF measure, stop, out, next, step
  <2>. QED BY <1>4, Recursion
<1>6. ASSUME NEW n \in Nat
      PROVE  g[n] = IF n < 128 THEN <<n>> ELSE <<128 + (n % 128)>> \o g[(n - 128) \div 128]
  <2>1. g[n] = IF n \in stop THEN out[n] ELSE step[<<n, g[next[n]]>>]
    <3> HIDE DEF stop, out, next, step
    <3>. QED BY <1>5, Zenon DEF Solves
  <2>2. CASE n < 128
    BY <2>1, <2>2
  <2>3. CASE ~(n < 128)
    <3>1. n \notin stop /\ next[n] = (n - 128) \div 128 /\ (n - 128) \div 128 \in Nat
      BY <1>1, <2>3
    <3>2. g[next[n]] \in Bytes
      BY <3>1
    <3>3. step[<<n, g[next[n]]>>] = <<128 + (n % 128)>> \o g[next[n]]
      BY <3>2
    <3>. QED BY <2>1, <2>3, <3>1, <3>3
  <2>. QED BY <2>2, <2>3
<1>7. g = F(g)
  BY <1>6
<1>8. Groups = F(Groups)
  <2>1. Groups = CHOOSE f : f = F(f)
    BY DEF Groups
  <2> HIDE DEF F
  <2>. QED BY <1>7, <2>1
<1>9. ASSUME NEW n \in Nat
      PROVE  Groups[n] = IF n < 128 THEN <<n>> ELSE <<128 + (n % 128)>> \o Groups[(n - 128) \div 128]
  <2>1. ASSUME NEW f, f = F(f)
        PROVE  f[n] = IF n < 128 THEN <<n>> ELSE <<128 + (n % 128)>> \o f[(n - 128) \div 128]
    <3>1. F(f)[n] = IF n < 128 THEN <<n>> ELSE <<128 + (n % 128)>> \o f[(n - 128) \div 128]
      OBVIOUS
    <3> HIDE DEF F
    <3>. QED BY <2>1, <3>1
  <2> HIDE DEF F
  <2>. QED BY <1>8, <2>1
<1> DEFINE Bad == {n \in Nat : Groups[n] \notin Bytes}
<1>10. Bad = {}
  <2> SUFFICES ASSUME Bad # {} PROVE FALSE
    OBVIOUS
  <2>1. PICK n \in Bad : \A m \in Bad : n <= m
    <3>1. Bad \subseteq Nat
      OBVIOUS
    <3> HIDE DEF Bad
    <3>. QED BY <3>1, LeastElement
  <2>2. n \in Nat /\ Groups[n] \notin Bytes
    OBVIOUS
  <2>3. CASE n < 128
    <3>1. n \in Byte /\ Groups[n] = <<n>>
      <4>1. n \in 0 .. 127
        BY <2>2, <2>3
      <4> HIDE DEF Bad, F
      <4>. QED BY <1>3, <1>9, <2>2, <2>3, <4>1
    <3>2. <<n>> \in Bytes
      BY <3>1 DEF Bytes
    <3>. QED BY <2>2, <3>1, <3>2
  <2>4. CASE ~(n < 128)
    <3>1. (n - 128) \div 128 \in Nat /\ (n - 128) \div 128 < n
      BY <1>1, <2>2, <2>4
    <3>2. (n - 128) \div 128 \notin Bad
      <4> HIDE DEF Bad
      <4>. QED BY <2>1, <2>2, <3>1
    <3>3. Groups[(n - 128) \div 128] \in Bytes /\ 128 + (n % 128) \in Byte
      BY <1>2, <2>2, <3>1, <3>2
    <3>4. Groups[n] = <<128 + (n % 128)>> \o Groups[(n - 128) \div 128]
      BY <1>9, <2>2, <2>4
    <3>. QED BY <2>2, <3>3, <3>4, ConsFacts DEF Bytes
  <2>. QED BY <2>3, <2>4
<1>11. Groups \in [Nat -> Bytes]
  <2>1. Groups = [n \in Nat |-> Groups[n]]
    <3>1. \A f : f = F(f) => f = [n \in Nat |-> f[n]]
      OBVIOUS
    <3> HIDE DEF F
    <3>. QED BY <1>8, <3>1
  <2>. QED BY <1>10, <2>1
<1>. QED BY <1>9, <1>11

LEMMA ParseGroupsFacts ==
       \A bytes \in Bytes :
           ParseGroups[bytes] =
               IF bytes = <<>> THEN Malformed
               ELSE IF Head(bytes) < 128 THEN Got(Head(bytes), Tail(bytes))
               ELSE IF ParseGroups[Tail(bytes)].ok
               THEN Got(Head(bytes) + 128 * ParseGroups[Tail(bytes)].value, ParseGroups[Tail(bytes)].rest)
               ELSE ParseGroups[Tail(bytes)]
<1> DEFINE V == Results(Nat)
           Next1(bytes, result) == IF result.ok THEN Got(Head(bytes) + 128 * result.value, result.rest) ELSE result
           stop == {bytes \in Bytes : bytes = <<>> \/ Head(bytes) < 128}
           out == [bytes \in Bytes |->
                     IF bytes = <<>> \/ ~(Head(bytes) < 128) THEN Malformed ELSE Got(Head(bytes), Tail(bytes))]
           next == [bytes \in Bytes |-> IF bytes = <<>> THEN <<>> ELSE Tail(bytes)]
           step == [p \in Bytes \X V |-> IF p[1] = <<>> THEN Malformed ELSE Next1(p[1], p[2])]
           measure == [bytes \in Bytes |-> Len(bytes)]
           F(f) == [bytes \in Bytes |->
                     IF bytes = <<>> THEN Malformed
                     ELSE IF Head(bytes) < 128 THEN Got(Head(bytes), Tail(bytes))
                     ELSE Next1(bytes, f[Tail(bytes)])]
<1>1. \A bytes \in Bytes : bytes # <<>> =>
          /\ Head(bytes) \in Nat /\ Tail(bytes) \in Bytes
          /\ Len(bytes) \in Nat /\ Len(Tail(bytes)) = Len(bytes) - 1 /\ Len(Tail(bytes)) \in Nat
  BY BytesFacts
<1>2. /\ measure \in [Bytes -> Nat] /\ out \in [Bytes -> V] /\ next \in [Bytes -> Bytes]
      /\ step \in [Bytes \X V -> V]
      /\ \A bytes \in Bytes : bytes \notin stop => measure[next[bytes]] < measure[bytes]
  <2>1. measure \in [Bytes -> Nat]
    BY DEF Bytes
  <2>2. out \in [Bytes -> V]
    BY <1>1 DEF Results
  <2>3. next \in [Bytes -> Bytes]
    BY <1>1 DEF Bytes
  <2>4. step \in [Bytes \X V -> V]
    <3> SUFFICES ASSUME NEW bytes \in Bytes, NEW result \in V, bytes # <<>>
                 PROVE  Next1(bytes, result) \in V
      BY DEF Results
    <3>1. CASE result = Malformed
      BY <3>1, GotFacts
    <3>2. CASE result # Malformed
      <4>1. PICK n \in Nat, rest \in Bytes : result = Got(n, rest)
        BY <3>2 DEF Results
      <4>2. Next1(bytes, result) = Got(Head(bytes) + 128 * n, rest)
        BY <4>1, GotFacts
      <4>3. Head(bytes) + 128 * n \in Nat
        BY <1>1
      <4> HIDE DEF Next1
      <4>. QED BY <4>2, <4>3 DEF Results
    <3>. QED BY <3>1, <3>2
  <2>5. \A bytes \in Bytes : bytes \notin stop => measure[next[bytes]] < measure[bytes]
    BY <1>1
  <2>. QED BY <2>1, <2>2, <2>3, <2>4, <2>5
<1>3. PICK g \in [Bytes -> V] : Solves(g, Bytes, stop, out, next, step)
  <2> HIDE DEF measure, stop, out, next, step, V
  <2>. QED BY <1>2, Recursion
<1>4. ASSUME NEW bytes \in Bytes
      PROVE  g[bytes] = IF bytes = <<>> THEN Malformed
                        ELSE IF Head(bytes) < 128 THEN Got(Head(bytes), Tail(bytes))
                        ELSE Next1(bytes, g[Tail(bytes)])
  <2>1. g[bytes] = IF bytes \in stop THEN out[bytes] ELSE step[<<bytes, g[next[bytes]]>>]
    BY <1>3 DEF Solves
  <2>2. CASE bytes \in stop
    BY <2>1, <2>2
  <2>3. CASE bytes \notin stop
    <3>1. bytes # <<>> /\ ~(Head(bytes) < 128) /\ next[bytes] = Tail(bytes) /\ Tail(bytes) \in Bytes
      BY <1>1, <2>3
    <3>2. g[Tail(bytes)] \in V
      BY <3>1
    <3>3. step[<<bytes, g[Tail(bytes)]>>] = Next1(bytes, g[Tail(bytes)])
      <4> HIDE DEF Next1, V
      <4>. QED BY <3>1, <3>2
    <3>. QED BY <2>1, <2>3, <3>1, <3>3
  <2>. QED BY <2>2, <2>3
<1>5. g = F(g)
  <2> HIDE DEF Next1
  <2>. QED BY <1>4
<1>6. ParseGroups = F(ParseGroups)
  <2>1. \A f : F(f) = [bytes \in Bytes |->
                     IF bytes = <<>> THEN Malformed
                     ELSE IF Head(bytes) < 128 THEN Got(Head(bytes), Tail(bytes))
                     ELSE Then(f[Tail(bytes)], LAMBDA n, rest : Got(Head(bytes) + 128 * n, rest))]
    BY DEF Then
  <2> HIDE DEF F
  <2>. QED BY <1>5, <2>1 DEF ParseGroups
<1>7. ASSUME NEW f, f = F(f), NEW bytes \in Bytes
      PROVE  f[bytes] = IF bytes = <<>> THEN Malformed
                        ELSE IF Head(bytes) < 128 THEN Got(Head(bytes), Tail(bytes))
                        ELSE Next1(bytes, f[Tail(bytes)])
  <2> HIDE DEF Next1
  <2>. QED BY <1>7
<1>8. ASSUME NEW bytes \in Bytes
      PROVE  ParseGroups[bytes] = IF bytes = <<>> THEN Malformed
                        ELSE IF Head(bytes) < 128 THEN Got(Head(bytes), Tail(bytes))
                        ELSE Next1(bytes, ParseGroups[Tail(bytes)])
  <2> HIDE DEF Next1, F
  <2>. QED BY <1>6, <1>7
<1>. QED BY <1>8

\* The loop of _parse_varint reads at least a byte, and never beyond its last.
LEMMA ParseGroupsReads == Reads(ParseGroups, Nat, 1)
<1> DEFINE T == {bytes \in Bytes : ReadsAt(ParseGroups, bytes, Nat, 1)}
           P == ParseGroups
<1>1. ASSUME NEW bytes \in Bytes, \A t \in Bytes : Len(t) < Len(bytes) => t \in T
      PROVE  ReadsAt(P, bytes, Nat, 1)
  <2>1. CASE bytes = <<>>
    BY <2>1, ParseGroupsFacts DEF ReadsAt
  <2>2. CASE bytes # <<>>
    <3> DEFINE a == Head(bytes)
               left == Tail(bytes)
    <3>1. /\ a \in Nat /\ left \in Bytes
          /\ Len(left) = Len(bytes) - 1 /\ Len(bytes) \in Nat /\ Len(left) \in Nat
      BY <2>2, BytesFacts
    <3>2. \A more \in Bytes : /\ bytes \o more \in Bytes /\ bytes \o more # <<>>
                              /\ Head(bytes \o more) = a /\ Tail(bytes \o more) = left \o more
                              /\ left \o more \in Bytes
      BY <2>2, <3>1, BytesConcat
    <3> HIDE DEF a, left
    <3>3. CASE a < 128
      <4>1. P[bytes] = Got(a, left)
        BY <2>2, <3>3, ParseGroupsFacts DEF a, left
      <4>2. \A more \in Bytes : P[bytes \o more] = Got(a, left \o more)
        BY <3>2, <3>3, ParseGroupsFacts
      <4>3. Len(left) + 1 <= Len(bytes)
        BY <3>1
      <4>. QED BY <3>1, <4>1, <4>2, <4>3 DEF ReadsAt
    <3>4. CASE ~(a < 128)
      <4>1. P[bytes] = IF P[left].ok THEN Got(a + 128 * P[left].value, P[left].rest) ELSE P[left]
        BY <2>2, <3>4, ParseGroupsFacts DEF a, left
      <4>2. \A more \in Bytes :
               P[bytes \o more] = IF P[left \o more].ok
                                  THEN Got(a + 128 * P[left \o more].value, P[left \o more].rest)
                                  ELSE P[left \o more]
        BY <3>2, <3>4, ParseGroupsFacts
      <4>3. ReadsAt(P, left, Nat, 1)
        BY <1>1, <3>1
      <4>4. CASE P[left] = Malformed
        BY <4>1, <4>4, GotFacts DEF ReadsAt
      <4>5. CASE P[left] # Malformed
        <5>1. PICK n \in Nat, rest \in Bytes :
                  /\ P[left] = Got(n, rest) /\ Len(rest) + 1 <= Len(left)
                  /\ \A more \in Bytes : P[left \o more] = Got(n, rest \o more)
          BY <4>3, <4>5 DEF ReadsAt
        <5>2. P[bytes] = Got(a + 128 * n, rest)
          BY <4>1, <5>1, GotFacts
        <5>3. \A more \in Bytes : P[bytes \o more] = Got(a + 128 * n, rest \o more)
          BY <4>2, <5>1, GotFacts
        <5>4. a + 128 * n \in Nat /\ Len(rest) \in Nat
          BY <3>1, BytesFacts
        <5>5. Len(rest) + 1 <= Len(bytes)
          BY <3>1, <5>1, <5>4
        <5>. QED BY <5>2, <5>3, <5>4, <5>5 DEF ReadsAt
      <4>. QED BY <4>4, <4>5
    <3>. QED BY <3>3, <3>4
  <2>. QED BY <2>1, <2>2
<1>2. Bytes \subseteq T
  <2>1. \A s \in Bytes : (\A t \in Bytes : Len(t) < Len(s) => t \in T) => s \in T
    BY <1>1
  <2> HIDE DEF T
  <2>. QED BY <2>1, LengthInduction DEF Bytes
<1>. QED BY <1>2 DEF Reads

\* What _compose_varint writes behind the first byte is what _parse_varint reads there.
LEMMA GroupsRoundTrip == \A n \in Nat : ParseGroups[Groups[n]] = Got(n, <<>>)
<1> DEFINE Bad == {n \in Nat : ParseGroups[Groups[n]] # Got(n, <<>>)}
<1> SUFFICES ASSUME Bad # {} PROVE FALSE
  OBVIOUS
<1>1. PICK n \in Bad : \A m \in Bad : n <= m
  <2>1. Bad \subseteq Nat
    OBVIOUS
  <2> HIDE DEF Bad
  <2>. QED BY <2>1, LeastElement
<1>2. n \in Nat /\ ParseGroups[Groups[n]] # Got(n, <<>>)
  OBVIOUS
<1>3. CASE n < 128
  <2>1. Groups[n] = <<n>> /\ n \in Byte
    <3>1. Groups[n] = <<n>>
      BY <1>2, <1>3, GroupsFacts
    <3>2. n < 256
      BY <1>2, <1>3
    <3>. QED BY <1>2, <3>1, <3>2, ByteFacts
  <2>2. <<n>> \in Bytes /\ <<n>> # <<>> /\ Head(<<n>>) = n /\ Tail(<<n>>) = <<>>
    BY <2>1, BytesCons
  <2>3. ParseGroups[<<n>>] = Got(n, <<>>)
    BY <1>3, <2>2, ParseGroupsFacts
  <2>. QED BY <1>2, <2>1, <2>3
<1>4. CASE ~(n < 128)
  <2> DEFINE low == 128 + (n % 128)
             high == (n - 128) \div 128
  <2>1. low \in Nat /\ low < 256 /\ ~(low < 128) /\ high \in Nat /\ high < n /\ low + 128 * high = n
    BY <1>2, <1>4
  <2>2. Groups[n] = <<low>> \o Groups[high] /\ Groups[high] \in Bytes /\ low \in Byte
    BY <1>2, <1>4, <2>1, GroupsFacts, ByteFacts
  <2> HIDE DEF low, high
  <2>3. ParseGroups[Groups[high]] = Got(high, <<>>)
    <3>1. high \notin Bad
      <4> HIDE DEF Bad
      <4>. QED BY <1>1, <1>2, <2>1
    <3>. QED BY <2>1, <3>1
  <2> DEFINE bytes == <<low>> \o Groups[high]
  <2>4. bytes \in Bytes /\ bytes # <<>> /\ Head(bytes) = low /\ Tail(bytes) = Groups[high]
    BY <2>2, BytesCons
  <2> HIDE DEF bytes
  <2>5. ParseGroups[bytes] = Got(low + 128 * high, <<>>)
    <3>1. ParseGroups[bytes] = IF ParseGroups[Tail(bytes)].ok
              THEN Got(Head(bytes) + 128 * ParseGroups[Tail(bytes)].value, ParseGroups[Tail(bytes)].rest)
              ELSE ParseGroups[Tail(bytes)]
      BY <2>1, <2>4, ParseGroupsFacts
    <3>2. ParseGroups[Tail(bytes)] = Got(high, <<>>)
      BY <2>3, <2>4
    <3> DEFINE result == ParseGroups[Tail(bytes)]
    <3>3. result.ok /\ result.value = high /\ result.rest = <<>>
      BY <3>2, GotFacts
    <3> HIDE DEF result
    <3>. QED BY <2>4, <3>1, <3>3 DEF result
  <2>. QED BY <1>2, <2>1, <2>2, <2>5 DEF bytes
<1>. QED BY <1>3, <1>4

VarintReader == [bytes \in Bytes |-> ParseVarint(bytes)]

LEMMA VarintReads == Reads(VarintReader, Nat, 1)
<1> DEFINE f(a) == [n \in Nat |-> a + 16 * n]
           second == [a \in Byte |-> [bytes \in Bytes |->
                        IF a < 240 THEN Got(a, bytes)
                        ELSE Then(ParseGroups[bytes], LAMBDA n, rest : Got(a + 16 * n, rest))]]
<1>1. ASSUME NEW a \in Byte PROVE Reads(second[a], Nat, 0)
  <2>1. a \in Nat
    BY ByteFacts
  <2>2. CASE a < 240
    <3>1. second[a] = [bytes \in Bytes |-> Got(a, bytes)]
      BY <2>2
    <3>. QED BY <2>1, <3>1, ReadsGot
  <2>3. CASE ~(a < 240)
    <3>1. \A n \in Nat : a + 16 * n \in Nat
      BY <2>1
    <3>2. \A bytes \in Bytes :
             second[a][bytes] = IF ParseGroups[bytes].ok
                                THEN Got(a + 16 * ParseGroups[bytes].value, ParseGroups[bytes].rest)
                                ELSE ParseGroups[bytes]
      BY <2>3 DEF Then
    <3> HIDE DEF second
    <3>3. \A bytes \in Bytes : ParseGroups[bytes].ok => ParseGroups[bytes].value \in Nat
      BY ParseGroupsReads, GotFacts DEF Reads, ReadsAt
    <3>4. \A bytes \in Bytes :
             second[a][bytes] = IF ParseGroups[bytes].ok
                                THEN Got(f(a)[ParseGroups[bytes].value], ParseGroups[bytes].rest)
                                ELSE ParseGroups[bytes]
      BY <3>2, <3>3
    <3>5. \A n \in Nat : f(a)[n] \in Nat
      BY <3>1
    <3> HIDE DEF f
    <3>6. Reads(second[a], Nat, 1)
      BY <3>4, <3>5, ParseGroupsReads, ReadsMap
    <3>. QED BY <3>6, ReadsLess
  <2>. QED BY <2>2, <2>3
<1>2. \A bytes \in Bytes :
         VarintReader[bytes] = IF ByteReader[bytes].ok THEN second[ByteReader[bytes].value][ByteReader[bytes].rest]
                               ELSE ByteReader[bytes]
  <2> SUFFICES ASSUME NEW bytes \in Bytes
               PROVE  ParseVarint(bytes)
                      = IF ByteReader[bytes].ok THEN second[ByteReader[bytes].value][ByteReader[bytes].rest]
                        ELSE ByteReader[bytes]
    BY DEF VarintReader
  <2>1. CASE bytes = <<>>
    BY <2>1, GotFacts DEF ByteReader, ParseVarint
  <2>2. CASE bytes # <<>>
    <3>1. Head(bytes) \in Byte /\ Tail(bytes) \in Bytes
      BY <2>2, BytesFacts
    <3>2. ParseVarint(bytes) = second[Head(bytes)][Tail(bytes)]
      BY <2>2, <3>1 DEF ParseVarint
    <3>3. ByteReader[bytes] = Got(Head(bytes), Tail(bytes))
      BY <2>2 DEF ByteReader
    <3> HIDE DEF second
    <3>. QED BY <3>2, <3>3, GotFacts
  <2>. QED BY <2>1, <2>2
<1> HIDE DEF second
<1>. QED BY <1>1, <1>2, ByteReads, ReadsFirst

\* A number written as a varint is read again, and it takes at least a byte.
LEMMA VarintCarries ==
    \A n \in Nat : Carries(VarintReader, ComposeVarint(n), n) /\ ComposeVarint(n) # <<>>
<1> SUFFICES ASSUME NEW n \in Nat
             PROVE  /\ ComposeVarint(n) \in Bytes /\ ComposeVarint(n) # <<>>
                    /\ ParseVarint(ComposeVarint(n)) = Got(n, <<>>)
  BY VarintReads, CarriesExactly DEF VarintReader
<1>1. CASE n < 240
  <2>1. ComposeVarint(n) = <<n>> /\ n \in Byte
    <3>1. n < 256
      BY <1>1
    <3>. QED BY <1>1, <3>1, ByteFacts DEF ComposeVarint
  <2>2. <<n>> \in Bytes /\ <<n>> # <<>> /\ Head(<<n>>) = n /\ Tail(<<n>>) = <<>>
    BY <2>1, BytesCons
  <2>. QED BY <1>1, <2>1, <2>2 DEF ParseVarint
<1>2. CASE ~(n < 240)
  <2> DEFINE low == 240 + (n % 16)
             high == (n - 240) \div 16
             bytes == <<low>> \o Groups[high]
  <2>1. low \in Nat /\ low < 256 /\ ~(low < 240) /\ high \in Nat /\ low + 16 * high = n
    BY <1>2
  <2>2. ComposeVarint(n) = bytes
    BY <1>2 DEF ComposeVarint
  <2> HIDE DEF low, high
  <2>3. Groups[high] \in Bytes /\ low \in Byte
    BY <2>1, GroupsFacts, ByteFacts
  <2>4. bytes \in Bytes /\ bytes # <<>> /\ Head(bytes) = low /\ Tail(bytes) = Groups[high]
    BY <2>3, BytesCons
  <2> HIDE DEF bytes
  <2>5. ParseGroups[Tail(bytes)] = Got(high, <<>>)
    <3>1. ParseGroups[Groups[high]] = Got(high, <<>>)
      BY <2>1, GroupsRoundTrip
    <3>. QED BY <2>4, <3>1
  <2> DEFINE result == ParseGroups[Tail(bytes)]
  <2>6. result.ok /\ result.value = high /\ result.rest = <<>>
    BY <2>5, GotFacts
  <2>7. ParseVarint(bytes) = IF result.ok THEN Got(low + 16 * result.value, result.rest) ELSE result
    BY <2>1, <2>4 DEF ParseVarint, Then
  <2>. QED BY <2>1, <2>2, <2>4, <2>6, <2>7
<1>. QED BY <1>1, <1>2

-----------------------------------------------------------------------------
(* Integers *)

LEMMA ModFacts ==
    \A d \in Nat, n \in Int :
        /\ 0 <= n /\ n < d => n % d = n
        /\ n < 0 /\ 0 <= n + d => n % d = n + d
        /\ 0 < d => n % d \in Nat /\ n % d < d
OBVIOUS

LEMMA HalfFacts == \A type \in IntTypes : Half(type) \in Nat /\ 0 < Half(type) /\ 2 * Half(type) \in Nat
BY WidthAssumption DEF Half

\* Two's complement covers exactly the numbers of a type, each once.
LEMMA WrapFacts ==
    \A type \in IntTypes :
        /\ \A n \in Nat : Wrap(type, n) \in Int /\ InRange(type, Wrap(type, n))
        /\ \A n \in Int : InRange(type, n) =>
               n % (2 * Half(type)) \in Nat /\ Wrap(type, n % (2 * Half(type))) = n
<1> SUFFICES ASSUME NEW type \in IntTypes
             PROVE  /\ \A n \in Nat : Wrap(type, n) \in Int /\ InRange(type, Wrap(type, n))
                    /\ \A n \in Int : InRange(type, n) =>
                           n % (2 * Half(type)) \in Nat /\ Wrap(type, n % (2 * Half(type))) = n
  OBVIOUS
<1> DEFINE h == Half(type)
           d == 2 * h
<1>1. h \in Nat /\ 0 < h /\ d \in Nat /\ 0 < d /\ h < d
  BY HalfFacts
<1>2. \/ Least(type) = -h /\ Greatest(type) = h - 1
      \/ Least(type) = 0 /\ Greatest(type) = d - 1
  BY DEF Least, Greatest
<1>3. d = 2 * h
  OBVIOUS
<1>4. ASSUME NEW n \in Nat PROVE Wrap(type, n) \in Int /\ InRange(type, Wrap(type, n))
  <2> DEFINE low == n % d
  <2>1. low \in Nat /\ low < d
    BY <1>1, ModFacts
  <2>2. Wrap(type, n) = IF low > Greatest(type) THEN low - d ELSE low
    BY DEF Wrap
  <2> HIDE DEF low, d, h
  <2>. QED BY <1>1, <1>2, <1>3, <2>1, <2>2 DEF InRange
<1>5. ASSUME NEW n \in Int, InRange(type, n) PROVE n % d \in Nat /\ Wrap(type, n % d) = n
  <2> DEFINE low == n % d
  <2>1. low \in Nat /\ low < d
    BY <1>1, ModFacts
  <2>2. low = IF n < 0 THEN n + d ELSE n
    <3> HIDE DEF d, h
    <3>1. Least(type) <= n /\ n <= Greatest(type)
      BY <1>5 DEF InRange
    <3>2. CASE n < 0
      <4>1. 0 <= n + d
        BY <1>1, <1>2, <1>3, <3>1, <3>2
      <4>. QED BY <1>1, <3>2, <4>1, ModFacts
    <3>3. CASE ~(n < 0)
      <4>1. 0 <= n /\ n < d
        BY <1>1, <1>2, <1>3, <3>1, <3>3
      <4>. QED BY <1>1, <3>3, <4>1, ModFacts
    <3>. QED BY <3>2, <3>3
  <2>3. low % d = low
    BY <1>1, <2>1, ModFacts
  <2>4. Wrap(type, low) = IF low > Greatest(type) THEN low - d ELSE low
    BY <2>3 DEF Wrap
  <2> HIDE DEF low, d, h
  <2>5. Wrap(type, low) = n
    BY <1>1, <1>2, <1>3, <1>5, <2>2, <2>4 DEF InRange
  <2>. QED BY <2>1, <2>5 DEF low
<1>. QED BY <1>4, <1>5

InType(type) == {n \in Int : InRange(type, n)}
IntReader(type) == [bytes \in Bytes |-> DecodeInt(type, bytes)]
Encoded(type, n) == ComposeVarint(n % (2 * Half(type)))

\* decode_int32 and its siblings: the unwrapping of a varint.
LEMMA IntReads ==
    \A type \in IntTypes :
        /\ Reads(IntReader(type), InType(type), 1)
        /\ \A n \in InType(type) : Carries(IntReader(type), Encoded(type, n), n)
<1> SUFFICES ASSUME NEW type \in IntTypes
             PROVE  /\ Reads(IntReader(type), InType(type), 1)
                    /\ \A n \in InType(type) : Carries(IntReader(type), Encoded(type, n), n)
  OBVIOUS
<1> DEFINE f == [n \in Nat |-> Wrap(type, n)]
           D == IntReader(type)
<1>1. \A n \in Nat : f[n] \in InType(type)
  BY WrapFacts DEF InType
<1>2. ASSUME NEW bytes \in Bytes
      PROVE  D[bytes] = IF VarintReader[bytes].ok
                        THEN Got(f[VarintReader[bytes].value], VarintReader[bytes].rest)
                        ELSE VarintReader[bytes]
  <2>1. D[bytes] = IF VarintReader[bytes].ok
                   THEN Got(Wrap(type, VarintReader[bytes].value), VarintReader[bytes].rest)
                   ELSE VarintReader[bytes]
    BY DEF IntReader, DecodeInt, Then, VarintReader
  <2>2. VarintReader[bytes].ok => VarintReader[bytes].value \in Nat
    BY VarintReads, GotFacts DEF Reads, ReadsAt
  <2>. QED BY <2>1, <2>2
<1>3. \A n \in Nat : f[n] = Wrap(type, n)
  OBVIOUS
<1> HIDE DEF f, D
<1>4. Reads(D, InType(type), 1)
  BY <1>1, <1>2, VarintReads, ReadsMap
<1>5. ASSUME NEW n \in InType(type) PROVE Carries(D, Encoded(type, n), n)
  <2> DEFINE m == n % (2 * Half(type))
  <2>1. m \in Nat /\ Wrap(type, m) = n
    BY WrapFacts DEF InType
  <2> HIDE DEF m
  <2>2. Carries(VarintReader, ComposeVarint(m), m)
    BY <2>1, VarintCarries
  <2>3. Carries(D, ComposeVarint(m), f[m])
    BY <1>2, <2>2, CarriesMap
  <2>. QED BY <1>3, <2>1, <2>3 DEF Encoded, m
<1>. QED BY <1>4, <1>5 DEF D

-----------------------------------------------------------------------------
(* Slices and strings *)

TakeReader(n) == [bytes \in Bytes |-> Take(bytes, n)]
BytesOf(n) == {s \in Bytes : Len(s) = n}

LEMMA BytesCut ==
    \A bytes \in Bytes, n \in Nat : n <= Len(bytes) =>
        /\ SubSeq(bytes, 1, n) \in BytesOf(n)
        /\ SubSeq(bytes, n + 1, Len(bytes)) \in Bytes
        /\ Len(SubSeq(bytes, n + 1, Len(bytes))) = Len(bytes) - n
        /\ bytes = SubSeq(bytes, 1, n) \o SubSeq(bytes, n + 1, Len(bytes))
<1> SUFFICES ASSUME NEW bytes \in Bytes, NEW n \in Nat, n <= Len(bytes)
             PROVE  /\ SubSeq(bytes, 1, n) \in BytesOf(n)
                    /\ SubSeq(bytes, n + 1, Len(bytes)) \in Bytes
                    /\ Len(SubSeq(bytes, n + 1, Len(bytes))) = Len(bytes) - n
                    /\ bytes = SubSeq(bytes, 1, n) \o SubSeq(bytes, n + 1, Len(bytes))
  OBVIOUS
<1>1. n \in 0 .. Len(bytes) /\ bytes \in Seq(Byte)
  BY BytesFacts DEF Bytes
<1> DEFINE a == SubSeq(bytes, 1, n)
           b == SubSeq(bytes, n + 1, Len(bytes))
<1>2. a \in Seq(Byte) /\ Len(a) = n
  BY <1>1, CutFacts
<1>3. b \in Seq(Byte) /\ Len(b) = Len(bytes) - n
  BY <1>1, CutFacts
<1>4. bytes = a \o b
  BY <1>1, CutFacts, Zenon
<1> HIDE DEF a, b
<1>5. a \in BytesOf(n) /\ b \in Bytes /\ Len(b) = Len(bytes) - n /\ bytes = a \o b
  BY <1>2, <1>3, <1>4 DEF Bytes, BytesOf
<1>. QED BY <1>5 DEF a, b

LEMMA BytesUncut ==
    \A s, t \in Bytes : SubSeq(s \o t, 1, Len(s)) = s /\ SubSeq(s \o t, Len(s) + 1, Len(s \o t)) = t
BY UncutFacts DEF Bytes

LEMMA TakeExactly == \A s, more \in Bytes : Take(s \o more, Len(s)) = Got(s, more)
<1> SUFFICES ASSUME NEW s \in Bytes, NEW more \in Bytes PROVE Take(s \o more, Len(s)) = Got(s, more)
  OBVIOUS
<1>1. SubSeq(s \o more, 1, Len(s)) = s /\ SubSeq(s \o more, Len(s) + 1, Len(s \o more)) = more
  BY UncutFacts DEF Bytes
<1>2. ~(Len(s \o more) < Len(s))
  BY BytesConcat, BytesFacts
<1>. QED BY <1>1, <1>2 DEF Take

\* A slice of n bytes, with its bounds check.
LEMMA TakeReads ==
    /\ \A n \in Nat : Reads(TakeReader(n), BytesOf(n), n)
    /\ \A s \in Bytes : Carries(TakeReader(Len(s)), s, s)
<1>1. ASSUME NEW n \in Nat, NEW bytes \in Bytes
      PROVE  ReadsAt(TakeReader(n), bytes, BytesOf(n), n)
  <2>1. CASE Len(bytes) < n
    BY <2>1 DEF TakeReader, Take, ReadsAt
  <2>2. CASE ~(Len(bytes) < n)
    <3> DEFINE s == SubSeq(bytes, 1, n)
               rest == SubSeq(bytes, n + 1, Len(bytes))
    <3>1. n <= Len(bytes) /\ Len(bytes) \in Nat
      BY <2>2, BytesFacts
    <3>2. s \in Bytes /\ Len(s) = n /\ rest \in Bytes /\ bytes = s \o rest
      BY <3>1, BytesCut DEF BytesOf
    <3> HIDE DEF s, rest
    <3>3. Len(rest) + n <= Len(bytes)
      <4>1. Len(bytes) = Len(s) + Len(rest) /\ Len(rest) \in Nat
        BY <3>2, BytesConcat, BytesFacts
      <4>. QED BY <3>2, <4>1
    <3>4. ASSUME NEW more \in Bytes PROVE TakeReader(n)[bytes \o more] = Got(s, rest \o more)
      <4>1. bytes \o more \in Bytes /\ rest \o more \in Bytes
        BY <3>2, BytesConcat
      <4>2. bytes \o more = s \o (rest \o more)
        BY <3>2, BytesAssociate
      <4>3. Take(s \o (rest \o more), n) = Got(s, rest \o more)
        BY <3>2, <4>1, TakeExactly
      <4>. QED BY <4>1, <4>2, <4>3 DEF TakeReader
    <3>5. TakeReader(n)[bytes] = Got(s, rest)
      BY <3>2, TakeExactly DEF TakeReader
    <3>. QED BY <3>2, <3>3, <3>4, <3>5 DEF ReadsAt, BytesOf
  <2>. QED BY <2>1, <2>2
<1>2. ASSUME NEW s \in Bytes PROVE Carries(TakeReader(Len(s)), s, s)
  BY TakeExactly, BytesConcat DEF TakeReader, Carries
<1>. QED BY <1>1, <1>2 DEF Reads

BinaryReader == [bytes \in Bytes |-> DecodeBinary(bytes)]

\* decode_binary and decode_string: a length and as many bytes.
LEMMA BinaryReads ==
    /\ Reads(BinaryReader, Bytes, 1)
    /\ \A s \in Bytes : Carries(BinaryReader, ComposeBinary(s), s)
<1> DEFINE second == [n \in Nat |-> TakeReader(n)]
<1>1. ASSUME NEW bytes \in Bytes
      PROVE  BinaryReader[bytes] = IF VarintReader[bytes].ok
                                   THEN second[VarintReader[bytes].value][VarintReader[bytes].rest]
                                   ELSE VarintReader[bytes]
  <2>1. BinaryReader[bytes] = IF VarintReader[bytes].ok
                              THEN Take(VarintReader[bytes].rest, VarintReader[bytes].value)
                              ELSE VarintReader[bytes]
    BY DEF BinaryReader, DecodeBinary, Then, VarintReader
  <2>2. VarintReader[bytes].ok => VarintReader[bytes].value \in Nat /\ VarintReader[bytes].rest \in Bytes
    BY VarintReads, GotFacts DEF Reads, ReadsAt
  <2>3. \A n \in Nat, rest \in Bytes : second[n][rest] = Take(rest, n)
    BY DEF TakeReader
  <2> HIDE DEF second
  <2>. QED BY <2>1, <2>2, <2>3
<1>2. \A n \in Nat : second[n] = TakeReader(n)
  OBVIOUS
<1> HIDE DEF second
<1>3. ASSUME NEW n \in Nat PROVE Reads(second[n], Bytes, 0)
  <2>1. Reads(TakeReader(n), BytesOf(n), n) /\ BytesOf(n) \subseteq Bytes /\ 0 <= n
    BY TakeReads DEF BytesOf
  <2>. QED BY <1>2, <2>1, ReadsLess
<1>4. Reads(BinaryReader, Bytes, 1)
  BY <1>1, <1>3, VarintReads, ReadsFirst
<1>5. ASSUME NEW s \in Bytes PROVE Carries(BinaryReader, ComposeBinary(s), s)
  <2>1. Carries(VarintReader, ComposeVarint(Len(s)), Len(s))
    BY BytesFacts, VarintCarries
  <2>2. Carries(second[Len(s)], s, s)
    BY <1>2, TakeReads, BytesFacts
  <2>. QED BY <1>1, <2>1, <2>2, CarriesThen DEF ComposeBinary
<1>. QED BY <1>4, <1>5

-----------------------------------------------------------------------------
(* Typed values *)

\* The bytes of a value that takes at least one of them are not empty.
LEMMA CarriesSome ==
    ASSUME NEW D, NEW V, NEW bytes, NEW v, Reads(D, V, 1), Carries(D, bytes, v)
    PROVE  bytes # <<>>
<1>1. bytes \in Bytes /\ D[bytes \o <<>>] = Got(v, <<>>) /\ bytes \o <<>> = bytes
  BY BytesCons, BytesConcat DEF Carries
<1>2. PICK u \in V, rest \in Bytes : Len(rest) + 1 <= Len(bytes)
  BY <1>1, GotFacts DEF Reads, ReadsAt
<1>. QED BY <1>2, BytesFacts, BytesCons

\* Decoder D behind a first byte it has looked at.
After(b, D) == [bytes \in Bytes |-> D[<<b>> \o bytes]]

LEMMA ReadsByte ==
    ASSUME NEW D, NEW V, NEW k \in Nat, D[<<>>] = Malformed, \A b \in Byte : Reads(After(b, D), V, k)
    PROVE  Reads(D, V, k + 1)
<1> DEFINE second == [b \in Byte |-> After(b, D)]
<1>1. ASSUME NEW bytes \in Bytes
      PROVE  D[bytes] = IF ByteReader[bytes].ok THEN second[ByteReader[bytes].value][ByteReader[bytes].rest]
                        ELSE ByteReader[bytes]
  <2>1. CASE bytes = <<>>
    BY <2>1, GotFacts DEF ByteReader
  <2>2. CASE bytes # <<>>
    <3>1. /\ Head(bytes) \in Byte /\ Tail(bytes) \in Bytes /\ bytes = <<Head(bytes)>> \o Tail(bytes)
      BY <2>2, BytesFacts
    <3>2. second[Head(bytes)][Tail(bytes)] = D[<<Head(bytes)>> \o Tail(bytes)]
      BY <3>1 DEF After
    <3>3. ByteReader[bytes] = Got(Head(bytes), Tail(bytes))
      BY <2>2 DEF ByteReader
    <3> DEFINE result == ByteReader[bytes]
    <3>4. result.ok /\ result.value = Head(bytes) /\ result.rest = Tail(bytes)
      <4>1. LET got == Got(Head(bytes), Tail(bytes)) IN
            got.ok /\ got.value = Head(bytes) /\ got.rest = Tail(bytes)
        BY GotFacts
      <4>. QED BY <3>3, <4>1
    <3> HIDE DEF second, result
    <3>. QED BY <3>1, <3>2, <3>4 DEF result
  <2>. QED BY <2>1, <2>2
<1>2. AllRead(second, Byte, V, k)
  BY DEF AllRead
<1> HIDE DEF second
<1>3. Composed(D, ByteReader, second)
  BY <1>1 DEF Composed
<1>4. Reads(D, V, 1 + k)
  BY <1>2, <1>3, ByteReads, ReadsThen
<1>5. 1 + k = k + 1
  OBVIOUS
<1>. QED BY <1>4, <1>5

LEMMA CarriesByte ==
    ASSUME NEW D, NEW b \in Byte, NEW bytes, NEW v, Carries(After(b, D), bytes, v)
    PROVE  Carries(D, <<b>> \o bytes, v)
<1>1. bytes \in Bytes /\ <<b>> \in Bytes /\ <<b>> \o bytes \in Bytes
  BY BytesCons DEF Carries
<1> SUFFICES ASSUME NEW more \in Bytes PROVE D[(<<b>> \o bytes) \o more] = Got(v, more)
  BY <1>1 DEF Carries
<1>2. bytes \o more \in Bytes
  BY <1>1, BytesConcat
<1>3. (<<b>> \o bytes) \o more = <<b>> \o (bytes \o more)
  BY <1>1, BytesAssociate
<1>4. After(b, D)[bytes \o more] = Got(v, more)
  BY DEF Carries
<1>. QED BY <1>2, <1>3, <1>4 DEF After

LEMMA CarriesNothing ==
    ASSUME NEW D, NEW v, \A bytes \in Bytes : D[bytes] = Got(v, bytes) PROVE Carries(D, <<>>, v)
BY BytesCons, BytesConcat DEF Carries

\* Strings of bytes are the latin-1 strings.
LEMMA StringFacts ==
    /\ \A s \in Bytes : s \in Seq(Nat) /\ StringEncodes(s)
    /\ \A s \in Seq(Nat) : StringEncodes(s) => s \in Bytes
<1>1. ASSUME NEW s \in Bytes PROVE s \in Seq(Nat) /\ StringEncodes(s)
  <2>1. s \in Seq(Byte)
    BY DEF Bytes
  <2>2. \A i \in DOMAIN s : s[i] \in Byte
    BY <2>1
  <2>3. \A i \in DOMAIN s : s[i] \in Nat /\ s[i] < 256
    BY <2>2 DEF Byte
  <2>4. s \in Seq(Nat)
    BY <2>1, <2>3, SeqDef
  <2>. QED BY <2>3, <2>4 DEF StringEncodes
<1>2. ASSUME NEW s \in Seq(Nat), StringEncodes(s) PROVE s \in Bytes
  <2>1. \A i \in DOMAIN s : s[i] \in Byte
    BY <1>2, ByteFacts DEF StringEncodes
  <2>2. s \in Seq(Byte)
    BY <2>1, SeqDef
  <2>. QED BY <2>2 DEF Bytes
<1>. QED BY <1>1, <1>2

VarReader == [bytes \in Bytes |-> DecodeVar(bytes)]

LEMMA VarGuards ==
    ASSUME NEW bytes, bytes # <<>>, NEW type, type = Head(bytes) % 16
    PROVE  /\ type = 0 => DecodeVar(bytes) = Got(None, Tail(bytes))
           /\ type = 1 => DecodeVar(bytes) = Got(BoolValue(Head(bytes) \div 16 = 1), Tail(bytes))
           /\ type \in IntTypes => DecodeVar(bytes) = As("int", DecodeInt(type, Tail(bytes)))
           /\ type = 6 => DecodeVar(bytes) = As("ipv4", Take(Tail(bytes), 4))
           /\ type = 7 => DecodeVar(bytes) = As("ipv6", Take(Tail(bytes), 16))
           /\ type = 8 => DecodeVar(bytes) = As("str", DecodeBinary(Tail(bytes)))
           /\ type = 9 => DecodeVar(bytes) = As("bytes", DecodeBinary(Tail(bytes)))
           /\ type \in Nat \ (0 .. 9) => DecodeVar(bytes) = Malformed
<1>1. CASE type = 0
  BY <1>1 DEF DecodeVar, DataType, IntTypes
<1>2. CASE type = 1
  BY <1>2 DEF DecodeVar, DataType, IntTypes
<1>3. CASE type \in IntTypes
  <2>1. type \in {2, 3, 4, 5}
    BY <1>3 DEF DataType, IntTypes
  <2>. QED BY <1>3, <2>1 DEF DecodeVar, DataType
<1>4. CASE type = 6
  BY <1>4 DEF DecodeVar, DataType, IntTypes
<1>5. CASE type = 7
  BY <1>5 DEF DecodeVar, DataType, IntTypes
<1>6. CASE type = 8
  BY <1>6 DEF DecodeVar, DataType, IntTypes, DecodeString
<1>7. CASE type = 9
  BY <1>7 DEF DecodeVar, DataType, IntTypes
<1>8. CASE type \in Nat \ (0 .. 9)
  BY <1>8 DEF DecodeVar, DataType, IntTypes
<1>. QED BY <1>1, <1>2, <1>3, <1>4, <1>5, <1>6, <1>7, <1>8

\* What auto_decode_var does behind each type byte.
LEMMA VarCases ==
    ASSUME NEW b \in Byte, NEW data \in Bytes
    PROVE  LET result == After(b, VarReader)[data] IN
           /\ b % 16 = 0 => result = Got(None, data)
           /\ b % 16 = 1 => result = Got(BoolValue(b \div 16 = 1), data)
           /\ b % 16 \in IntTypes => result = As("int", DecodeInt(b % 16, data))
           /\ b % 16 = 6 => result = As("ipv4", Take(data, 4))
           /\ b % 16 = 7 => result = As("ipv6", Take(data, 16))
           /\ b % 16 = 8 => result = As("str", DecodeBinary(data))
           /\ b % 16 = 9 => result = As("bytes", DecodeBinary(data))
           /\ b % 16 \in Nat \ (0 .. 9) => result = Malformed
<1> DEFINE bytes == <<b>> \o data
<1>1. bytes \in Bytes /\ bytes # <<>> /\ Head(bytes) = b /\ Tail(bytes) = data
  BY BytesCons
<1>2. After(b, VarReader)[data] = DecodeVar(bytes)
  BY <1>1 DEF After, VarReader
<1> HIDE DEF bytes
<1>. QED BY <1>1, <1>2, VarGuards

LEMMA AsFacts ==
    ASSUME NEW kind
    PROVE  /\ As(kind, Malformed) = Malformed
           /\ \A v, rest : As(kind, Got(v, rest)) = Got(<<kind, v>>, rest)
BY DEF As, Then, Got, Malformed, Fail

LEMMA AsReads ==
    ASSUME NEW D, NEW first, NEW U, NEW V, NEW k \in Nat, NEW kind, Reads(first, U, k),
           \A u \in U : <<kind, u>> \in V,
           \A bytes \in Bytes : D[bytes] = As(kind, first[bytes])
    PROVE  Reads(D, V, k)
<1> SUFFICES ASSUME NEW bytes \in Bytes PROVE ReadsAt(D, bytes, V, k)
  BY DEF Reads
<1>1. CASE first[bytes] = Malformed
  BY <1>1, AsFacts DEF ReadsAt
<1>2. CASE first[bytes] # Malformed
  <2>1. PICK u \in U, rest \in Bytes :
            /\ first[bytes] = Got(u, rest) /\ Len(rest) + k <= Len(bytes)
            /\ \A more \in Bytes : first[bytes \o more] = Got(u, rest \o more)
    BY <1>2 DEF Reads, ReadsAt
  <2>2. D[bytes] = Got(<<kind, u>>, rest)
    <3>1. D[bytes] = As(kind, Got(u, rest))
      BY <2>1
    <3>. QED BY <3>1, AsFacts
  <2>3. ASSUME NEW more \in Bytes PROVE D[bytes \o more] = Got(<<kind, u>>, rest \o more)
    <3>1. bytes \o more \in Bytes /\ first[bytes \o more] = Got(u, rest \o more)
      BY <2>1, BytesConcat
    <3>. QED BY <3>1, AsFacts
  <2>. QED BY <2>1, <2>2, <2>3 DEF ReadsAt
<1>. QED BY <1>1, <1>2

LEMMA AsCarries ==
    ASSUME NEW D, NEW first, NEW e, NEW u, NEW kind, Carries(first, e, u),
           \A bytes \in Bytes : D[bytes] = As(kind, first[bytes])
    PROVE  Carries(D, e, <<kind, u>>)
<1> SUFFICES ASSUME NEW more \in Bytes PROVE D[e \o more] = Got(<<kind, u>>, more)
  BY DEF Carries
<1>1. e \o more \in Bytes /\ first[e \o more] = Got(u, more)
  BY BytesConcat DEF Carries
<1>. QED BY <1>1, AsFacts

\* The bytes of an address.
LEMMA AddressFacts == \A n \in Nat : BytesOf(n) = [1 .. n -> Byte]
<1> SUFFICES ASSUME NEW n \in Nat PROVE BytesOf(n) = [1 .. n -> Byte]
  OBVIOUS
<1>1. ASSUME NEW s \in BytesOf(n) PROVE s \in [1 .. n -> Byte]
  BY SeqDef, LenProperties DEF Bytes, BytesOf
<1>2. ASSUME NEW s \in [1 .. n -> Byte] PROVE s \in BytesOf(n)
  <2>1. s \in Seq(Byte)
    BY SeqDef
  <2>2. Len(s) = n
    BY <2>1, LenProperties
  <2>. QED BY <2>1, <2>2 DEF Bytes, BytesOf
<1>. QED BY <1>1, <1>2

LEMMA ValueFacts ==
    /\ None \in Value
    /\ \A b \in BOOLEAN : BoolValue(b) \in Value
    /\ \A n \in Int : <<"int", n>> \in Value
    /\ \A s \in Seq(Nat) : <<"str", s>> \in Value
    /\ \A s \in Bytes : <<"bytes", s>> \in Value
    /\ \A s \in BytesOf(4) : <<"ipv4", s>> \in Value
    /\ \A s \in BytesOf(16) : <<"ipv6", s>> \in Value
BY AddressFacts DEF Value, BoolValue

LEMMA ValueCases ==
    ASSUME NEW value \in Value
    PROVE  \/ value = None
           \/ \E b \in BOOLEAN : value = <<"bool", b>>
           \/ \E n \in Int : value = <<"int", n>>
           \/ \E s \in Seq(Nat) : value = <<"str", s>>
           \/ \E s \in Bytes : value = <<"bytes", s>>
           \/ \E s \in BytesOf(4) : value = <<"ipv4", s>>
           \/ \E s \in BytesOf(16) : value = <<"ipv6", s>>
<1>1. \A kind, S : value \in {kind} \X S => \E x \in S : value = <<kind, x>>
  OBVIOUS
<1>2. BytesOf(4) = [1 .. 4 -> Byte] /\ BytesOf(16) = [1 .. 16 -> Byte]
  BY AddressFacts
<1>3. \/ value = None \/ value \in {"bool"} \X BOOLEAN \/ value \in {"int"} \X Int
      \/ value \in {"str"} \X Seq(Nat) \/ value \in {"bytes"} \X Bytes
      \/ value \in {"ipv4"} \X BytesOf(4) \/ value \in {"ipv6"} \X BytesOf(16)
  BY <1>2 DEF Value
<1>. QED BY <1>1, <1>3

\* auto_decode_var reads at least the type byte, whatever the bytes are.
LEMMA VarReads == Reads(VarReader, Value, 1)
<1>1. VarReader[<<>>] = Malformed
  BY BytesCons DEF VarReader, DecodeVar
<1>2. ASSUME NEW b \in Byte PROVE Reads(After(b, VarReader), Value, 0)
  <2> DEFINE D == After(b, VarReader)
             type == b % 16
  <2>1. type \in 0 .. 15
    BY ByteFacts
  <2>2. IntTypes = {2, 3, 4, 5}
    BY DEF IntTypes, DataType
  <2>3. D = [data \in Bytes |-> D[data]]
    BY DEF After
  <2>4. \A data \in Bytes :
           /\ type = 0 => D[data] = Got(None, data)
           /\ type = 1 => D[data] = Got(BoolValue(b \div 16 = 1), data)
           /\ type \in IntTypes => D[data] = As("int", DecodeInt(type, data))
           /\ type = 6 => D[data] = As("ipv4", Take(data, 4))
           /\ type = 7 => D[data] = As("ipv6", Take(data, 16))
           /\ type = 8 => D[data] = As("str", DecodeBinary(data))
           /\ type = 9 => D[data] = As("bytes", DecodeBinary(data))
           /\ type \in Nat \ (0 .. 9) => D[data] = Malformed
    BY VarCases
  <2> HIDE DEF D, type
  <2>5. CASE type = 0
    <3>1. D = [data \in Bytes |-> Got(None, data)]
      BY <2>3, <2>4, <2>5
    <3>. QED BY <3>1, ReadsGot, ValueFacts DEF D
  <2>6. CASE type = 1
    <3> DEFINE v == BoolValue(b \div 16 = 1)
    <3>1. v \in Value
      BY ValueFacts
    <3>2. D = [data \in Bytes |-> Got(v, data)]
      BY <2>3, <2>4, <2>6
    <3> HIDE DEF v
    <3>. QED BY <3>1, <3>2, ReadsGot DEF D
  <2>7. CASE type \in IntTypes
    <3>1. \A data \in Bytes : D[data] = As("int", IntReader(type)[data])
      BY <2>4, <2>7 DEF IntReader
    <3>2. \A n \in InType(type) : <<"int", n>> \in Value
      BY ValueFacts DEF InType
    <3>3. Reads(D, Value, 1)
      BY <2>7, <3>1, <3>2, IntReads, AsReads
    <3>. QED BY <3>3, ReadsLess DEF D
  <2>8. CASE type = 6
    <3>1. \A data \in Bytes : D[data] = As("ipv4", TakeReader(4)[data])
      BY <2>4, <2>8 DEF TakeReader
    <3>2. Reads(TakeReader(4), BytesOf(4), 4)
      BY TakeReads
    <3>3. Reads(D, Value, 4)
      BY <3>1, <3>2, ValueFacts, AsReads
    <3>. QED BY <3>3, ReadsLess DEF D
  <2>9. CASE type = 7
    <3>1. \A data \in Bytes : D[data] = As("ipv6", TakeReader(16)[data])
      BY <2>4, <2>9 DEF TakeReader
    <3>2. Reads(TakeReader(16), BytesOf(16), 16)
      BY TakeReads
    <3>3. Reads(D, Value, 16)
      BY <3>1, <3>2, ValueFacts, AsReads
    <3>. QED BY <3>3, ReadsLess DEF D
  <2>10. CASE type = 8
    <3>1. \A data \in Bytes : D[data] = As("str", BinaryReader[data])
      BY <2>4, <2>10 DEF BinaryReader
    <3>2. \A s \in Bytes : <<"str", s>> \in Value
      BY StringFacts, ValueFacts
    <3>3. Reads(D, Value, 1)
      BY <3>1, <3>2, BinaryReads, AsReads
    <3>. QED BY <3>3, ReadsLess DEF D
  <2>11. CASE type = 9
    <3>1. \A data \in Bytes : D[data] = As("bytes", BinaryReader[data])
      BY <2>4, <2>11 DEF BinaryReader
    <3>2. Reads(D, Value, 1)
      BY <3>1, BinaryReads, ValueFacts, AsReads
    <3>. QED BY <3>2, ReadsLess DEF D
  <2>12. CASE type \in Nat \ (0 .. 9)
    <3>1. \A data \in Bytes : D[data] = Malformed
      BY <2>4, <2>12
    <3>. QED BY <3>1 DEF Reads, ReadsAt, D
  <2>. QED BY <2>1, <2>2, <2>5, <2>6, <2>7, <2>8, <2>9, <2>10, <2>11, <2>12
<1>3. Reads(VarReader, Value, 0 + 1)
  BY <1>1, <1>2, ReadsByte
<1>4. 0 + 1 = 1
  OBVIOUS
<1>. QED BY <1>3, <1>4

\* Any integer type's number is read from its type byte and varint.
LEMMA TypedIntCarries ==
    \A type \in IntTypes : \A n \in InType(type) : Carries(VarReader, EncodeInt(type, n), <<"int", n>>)
<1> SUFFICES ASSUME NEW type \in IntTypes, NEW n \in InType(type)
             PROVE  Carries(VarReader, EncodeInt(type, n), <<"int", n>>)
  OBVIOUS
<1>1. type \in {2, 3, 4, 5}
  BY DEF IntTypes, DataType
<1>2. type \in Byte /\ type % 16 = type
  BY <1>1, ByteFacts
<1>3. EncodeInt(type, n) = <<type>> \o Encoded(type, n)
  BY <1>1 DEF EncodeInt, Encoded, TypeData
<1> DEFINE D == After(type, VarReader)
<1>4. \A data \in Bytes : D[data] = As("int", IntReader(type)[data])
  BY <1>2, VarCases DEF IntReader
<1>5. Carries(IntReader(type), Encoded(type, n), n)
  BY IntReads
<1> HIDE DEF D
<1>6. Carries(D, Encoded(type, n), <<"int", n>>)
  BY <1>4, <1>5, AsCarries
<1>. QED BY <1>2, <1>3, <1>6, CarriesByte DEF D

\* A value that encodes is read again, with its kind.
LEMMA VarCarries ==
    \A value \in Value : VarEncodes(value) => Carries(VarReader, EncodeVar(value), value)
<1> SUFFICES ASSUME NEW value \in Value, VarEncodes(value)
             PROVE  Carries(VarReader, EncodeVar(value), value)
  OBVIOUS
<1>1. \A b \in {0, 1, 6, 7, 8, 9, 17} : b \in Byte /\ b % 16 = (IF b = 17 THEN 1 ELSE b)
  BY ByteFacts
<1>2. ASSUME NEW b \in Byte PROVE <<b>> \o <<>> = <<b>>
  BY BytesCons, BytesConcat
<1>3. CASE value = None
  <2>1. EncodeVar(value) = <<0>>
    BY <1>3 DEF EncodeVar, None, Kind, TypeData, DataType
  <2>2. \A data \in Bytes : After(0, VarReader)[data] = Got(None, data)
    BY <1>1, VarCases
  <2>3. Carries(After(0, VarReader), <<>>, None)
    BY <2>2, CarriesNothing
  <2>4. Carries(VarReader, <<0>> \o <<>>, None)
    BY <1>1, <2>3, CarriesByte
  <2>. QED BY <1>1, <1>2, <1>3, <2>1, <2>4
<1>4. ASSUME NEW v \in BOOLEAN, value = <<"bool", v>> PROVE Carries(VarReader, EncodeVar(value), value)
  <2> DEFINE b == IF v THEN 17 ELSE 1
  <2>1. EncodeVar(value) = <<b>>
    BY <1>4 DEF EncodeVar, Kind, Data, TypeData, DataType
  <2>2. b \in Byte /\ b % 16 = 1 /\ (b \div 16 = 1) = v
    BY <1>1
  <2> HIDE DEF b
  <2>3. \A data \in Bytes : After(b, VarReader)[data] = Got(BoolValue(v), data)
    BY <2>2, VarCases
  <2>4. Carries(After(b, VarReader), <<>>, BoolValue(v))
    BY <2>3, CarriesNothing
  <2>5. Carries(VarReader, <<b>> \o <<>>, BoolValue(v))
    BY <2>2, <2>4, CarriesByte
  <2>6. BoolValue(v) = value
    BY <1>4 DEF BoolValue
  <2>. QED BY <1>2, <2>1, <2>2, <2>5, <2>6
<1>5. ASSUME NEW n \in Int, value = <<"int", n>> PROVE Carries(VarReader, EncodeVar(value), value)
  <2>1. EncodeVar(value) = EncodeInt(DataType.INT64, n)
    BY <1>5 DEF EncodeVar, Kind, Data
  <2>2. n \in InType(DataType.INT64)
    BY <1>5 DEF VarEncodes, Kind, Data, InType
  <2>3. DataType.INT64 \in IntTypes
    BY DEF IntTypes
  <2>. QED BY <1>5, <2>1, <2>2, <2>3, TypedIntCarries
<1>6. ASSUME NEW s \in Seq(Nat), value = <<"str", s>> PROVE Carries(VarReader, EncodeVar(value), value)
  <2>1. EncodeVar(value) = <<8>> \o ComposeBinary(s)
    BY <1>6 DEF EncodeVar, EncodeString, Kind, Data, TypeData, DataType
  <2>2. s \in Bytes
    BY <1>6, StringFacts DEF VarEncodes, Kind, Data
  <2>3. \A data \in Bytes : After(8, VarReader)[data] = As("str", BinaryReader[data])
    BY <1>1, VarCases DEF BinaryReader
  <2>4. Carries(After(8, VarReader), ComposeBinary(s), <<"str", s>>)
    BY <2>2, <2>3, BinaryReads, AsCarries
  <2>. QED BY <1>1, <1>6, <2>1, <2>4, CarriesByte
<1>7. ASSUME NEW s \in Bytes, value = <<"bytes", s>> PROVE Carries(VarReader, EncodeVar(value), value)
  <2>1. EncodeVar(value) = <<9>> \o ComposeBinary(s)
    BY <1>7 DEF EncodeVar, Kind, Data, TypeData, DataType
  <2>3. \A data \in Bytes : After(9, VarReader)[data] = As("bytes", BinaryReader[data])
    BY <1>1, VarCases DEF BinaryReader
  <2>4. Carries(After(9, VarReader), ComposeBinary(s), <<"bytes", s>>)
    BY <2>3, BinaryReads, AsCarries
  <2>. QED BY <1>1, <1>7, <2>1, <2>4, CarriesByte
<1>8. ASSUME NEW s \in BytesOf(4), value = <<"ipv4", s>> PROVE Carries(VarReader, EncodeVar(value), value)
  <2>1. EncodeVar(value) = <<6>> \o s
    BY <1>8 DEF EncodeVar, Kind, Data, TypeData, DataType
  <2>2. s \in Bytes /\ Len(s) = 4
    BY DEF BytesOf
  <2>3. \A data \in Bytes : After(6, VarReader)[data] = As("ipv4", TakeReader(4)[data])
    BY <1>1, VarCases DEF TakeReader
  <2>4. Carries(TakeReader(4), s, s)
    BY <2>2, TakeReads
  <2>5. Carries(After(6, VarReader), s, <<"ipv4", s>>)
    BY <2>3, <2>4, AsCarries
  <2>. QED BY <1>1, <1>8, <2>1, <2>5, CarriesByte
<1>9. ASSUME NEW s \in BytesOf(16), value = <<"ipv6", s>> PROVE Carries(VarReader, EncodeVar(value), value)
  <2>1. EncodeVar(value) = <<7>> \o s
    BY <1>9 DEF EncodeVar, Kind, Data, TypeData, DataType
  <2>2. s \in Bytes /\ Len(s) = 16
    BY DEF BytesOf
  <2>3. \A data \in Bytes : After(7, VarReader)[data] = As("ipv6", TakeReader(16)[data])
    BY <1>1, VarCases DEF TakeReader
  <2>4. Carries(TakeReader(16), s, s)
    BY <2>2, TakeReads
  <2>5. Carries(After(7, VarReader), s, <<"ipv6", s>>)
    BY <2>3, <2>4, AsCarries
  <2>. QED BY <1>1, <1>9, <2>1, <2>5, CarriesByte
<1>. QED BY <1>3, <1>4, <1>5, <1>6, <1>7, <1>8, <1>9, ValueCases

-----------------------------------------------------------------------------
(* Pairs, and parts one after the other *)

PairReader == [left \in Bytes |-> DecodePair(left)]

\* _parse_kv_pair: a string and a typed value.
LEMMA PairReads ==
    /\ Reads(PairReader, Pair, 1)
    /\ \A pair \in Pair : PairEncodes(pair) => Carries(PairReader, ComposeKvPair(pair), pair)
<1> DEFINE second == [key \in Bytes |-> [rest \in Bytes |-> As(key, VarReader[rest])]]
<1>1. ASSUME NEW bytes \in Bytes
      PROVE  PairReader[bytes] = IF BinaryReader[bytes].ok
                                 THEN second[BinaryReader[bytes].value][BinaryReader[bytes].rest]
                                 ELSE BinaryReader[bytes]
  <2>1. PairReader[bytes] = Then(BinaryReader[bytes], LAMBDA key, rest : As(key, DecodeVar(rest)))
    BY DEF PairReader, DecodePair, DecodeString, BinaryReader, As
  <2>2. PairReader[bytes] = IF BinaryReader[bytes].ok
                            THEN As(BinaryReader[bytes].value, DecodeVar(BinaryReader[bytes].rest))
                            ELSE BinaryReader[bytes]
    BY <2>1 DEF Then
  <2>3. BinaryReader[bytes].ok => BinaryReader[bytes].value \in Bytes /\ BinaryReader[bytes].rest \in Bytes
    BY BinaryReads, GotFacts DEF Reads, ReadsAt
  <2>4. \A key \in Bytes, rest \in Bytes : second[key][rest] = As(key, DecodeVar(rest))
    BY DEF VarReader
  <2> HIDE DEF second
  <2>. QED BY <2>2, <2>3, <2>4
<1>2. \A key \in Bytes : \A rest \in Bytes : second[key][rest] = As(key, VarReader[rest])
  OBVIOUS
<1> HIDE DEF second
<1>3. ASSUME NEW key \in Bytes PROVE Reads(second[key], Pair, 0)
  <2>1. \A value \in Value : <<key, value>> \in Pair
    BY StringFacts DEF Pair
  <2>2. Reads(second[key], Pair, 1)
    BY <1>2, <2>1, VarReads, AsReads
  <2>. QED BY <2>2, ReadsLess
<1>4. Reads(PairReader, Pair, 1)
  BY <1>1, <1>3, BinaryReads, ReadsFirst
<1>5. ASSUME NEW pair \in Pair, PairEncodes(pair) PROVE Carries(PairReader, ComposeKvPair(pair), pair)
  <2> DEFINE key == pair[1]
             value == pair[2]
  <2>1. pair = <<key, value>> /\ key \in Seq(Nat) /\ value \in Value /\ key \in Bytes
    BY <1>5, StringFacts DEF Pair, PairEncodes
  <2>2. Carries(BinaryReader, ComposeBinary(key), key)
    BY <2>1, BinaryReads
  <2>3. Carries(VarReader, EncodeVar(value), value)
    BY <1>5, <2>1, VarCarries DEF PairEncodes
  <2>4. ComposeKvPair(pair) = ComposeBinary(key) \o EncodeVar(value)
    BY DEF ComposeKvPair, EncodeString
  <2> HIDE DEF key, value
  <2>5. Carries(second[key], EncodeVar(value), <<key, value>>)
    BY <1>2, <2>1, <2>3, AsCarries
  <2>6. Carries(PairReader, ComposeBinary(key) \o EncodeVar(value), <<key, value>>)
    BY <1>1, <2>2, <2>5, CarriesThen
  <2>. QED BY <2>1, <2>4, <2>6
<1>. QED BY <1>4, <1>5

\* Join is the recursion it is written as.
LEMMA JoinFacts ==
    /\ Join(<<>>) = <<>>
    /\ \A parts \in Seq(Bytes) :
           /\ Join(parts) \in Bytes
           /\ parts # <<>> => Join(parts) = Head(parts) \o Join(Tail(parts))
<1> DEFINE S == Seq(Bytes)
           stop == {<<>>}
           out == [parts \in S |-> <<>>]
           next == [parts \in S |-> IF parts = <<>> THEN <<>> ELSE Tail(parts)]
           step == [p \in S \X Bytes |-> IF p[1] = <<>> THEN <<>> ELSE Head(p[1]) \o p[2]]
           measure == [parts \in S |-> Len(parts)]
           F(f) == [left \in S |-> IF left = <<>> THEN <<>> ELSE Head(left) \o f[Tail(left)]]
           joined == CHOOSE f : f = F(f)
<1>1. ASSUME NEW parts \in S, parts # <<>>
      PROVE  /\ Head(parts) \in Bytes /\ Tail(parts) \in S
             /\ Len(Tail(parts)) = Len(parts) - 1 /\ Len(parts) \in Nat
  BY <1>1, HeadTail
<1>2. /\ measure \in [S -> Nat] /\ out \in [S -> Bytes] /\ next \in [S -> S]
      /\ step \in [S \X Bytes -> Bytes]
      /\ \A parts \in S : parts \notin stop => measure[next[parts]] < measure[parts]
  <2>1. measure \in [S -> Nat] /\ out \in [S -> Bytes]
    BY BytesCons
  <2>2. next \in [S -> S]
    BY <1>1
  <2>3. step \in [S \X Bytes -> Bytes]
    BY <1>1, BytesCons, BytesConcat
  <2>4. \A parts \in S : parts \notin stop => measure[next[parts]] < measure[parts]
    BY <1>1
  <2>. QED BY <2>1, <2>2, <2>3, <2>4
<1>3. PICK g \in [S -> Bytes] : Solves(g, S, stop, out, next, step)
  <2> HIDE DEF S, measure, stop, out, next, step
  <2>. QED BY <1>2, Recursion
<1>4. ASSUME NEW parts \in S
      PROVE  g[parts] = IF parts = <<>> THEN <<>> ELSE Head(parts) \o g[Tail(parts)]
  <2>1. g[parts] = IF parts \in stop THEN out[parts] ELSE step[<<parts, g[next[parts]]>>]
    BY <1>3 DEF Solves
  <2>2. CASE parts = <<>>
    BY <2>1, <2>2
  <2>3. CASE parts # <<>>
    <3>1. parts \notin stop /\ next[parts] = Tail(parts) /\ Tail(parts) \in S
      BY <1>1, <2>3
    <3>2. g[Tail(parts)] \in Bytes
      BY <3>1
    <3>3. step[<<parts, g[Tail(parts)]>>] = Head(parts) \o g[Tail(parts)]
      BY <2>3, <3>2
    <3>. QED BY <2>1, <2>3, <3>1, <3>3
  <2>. QED BY <2>2, <2>3
<1>5. g = F(g)
  BY <1>4
<1>6. joined = F(joined)
  BY <1>5
<1>7. \A parts : Join(parts) = joined[parts]
  BY DEF Join
<1>8. \A f : f = F(f) =>
        \A parts \in S : f[parts] = IF parts = <<>> THEN <<>> ELSE Head(parts) \o f[Tail(parts)]
  OBVIOUS
<1>9. \A parts \in S : Join(parts) = IF parts = <<>> THEN <<>> ELSE Head(parts) \o Join(Tail(parts))
  <2> HIDE DEF F, joined, S
  <2>. QED BY <1>6, <1>7, <1>8
<1> HIDE DEF F, joined, stop, out, next, step, measure
<1>10. ASSUME NEW s \in Seq(Bytes), \A t \in Seq(Bytes) : Len(t) < Len(s) => Join(t) \in Bytes
       PROVE  Join(s) \in Bytes
  <2>1. CASE s = <<>>
    BY <1>9, <2>1, BytesCons
  <2>2. CASE s # <<>>
    <3>1. Head(s) \in Bytes /\ Tail(s) \in Seq(Bytes) /\ Len(Tail(s)) < Len(s)
      BY <1>1, <2>2
    <3>2. Join(Tail(s)) \in Bytes
      BY <1>10, <3>1
    <3>3. Join(s) = Head(s) \o Join(Tail(s))
      BY <1>9, <2>2
    <3>. QED BY <3>1, <3>2, <3>3, BytesConcat
  <2>. QED BY <2>1, <2>2
<1>11. Seq(Bytes) \subseteq {s \in Seq(Bytes) : Join(s) \in Bytes}
  <2> DEFINE T == {s \in Seq(Bytes) : Join(s) \in Bytes}
  <2>1. \A s \in Seq(Bytes) : (\A t \in Seq(Bytes) : Len(t) < Len(s) => t \in T) => s \in T
    BY <1>10
  <2> HIDE DEF T
  <2>2. Seq(Bytes) \subseteq T
    BY <2>1, LengthInduction
  <2>. QED BY <2>2 DEF T
<1>12. Join(<<>>) = <<>>
  <2>1. <<>> \in Seq(Bytes)
    OBVIOUS
  <2>. QED BY <1>9, <2>1
<1>. QED BY <1>9, <1>11, <1>12

-----------------------------------------------------------------------------
(* Lists of items *)

\* One item, then a list of them.
OneMore(Item, list) ==
    [left \in Bytes |->
        Then(Item[left], LAMBDA item, rest :
            Then(list[rest], LAMBDA items, end : Got(<<item>> \o items, end)))]

LEMMA OneMoreFacts ==
    ASSUME NEW Item, NEW list, NEW left \in Bytes
    PROVE  OneMore(Item, list)[left] =
               IF ~Item[left].ok THEN Item[left]
               ELSE IF ~list[Item[left].rest].ok THEN list[Item[left].rest]
               ELSE Got(<<Item[left].value>> \o list[Item[left].rest].value, list[Item[left].rest].rest)
BY DEF OneMore, Then

LEMMA OneMoreReads ==
    ASSUME NEW Item, NEW list, NEW V, Reads(Item, V, 1), Reads(list, Seq(V), 0)
    PROVE  Reads(OneMore(Item, list), Seq(V), 0)
<1> DEFINE D == OneMore(Item, list)
           f(item) == [items \in Seq(V) |-> <<item>> \o items]
           second == [item \in V |-> [rest \in Bytes |->
                        IF list[rest].ok THEN Got(f(item)[list[rest].value], list[rest].rest) ELSE list[rest]]]
<1>1. ASSUME NEW item \in V PROVE Reads(second[item], Seq(V), 0)
  <2>1. \A items \in Seq(V) : f(item)[items] \in Seq(V)
    BY ConsFacts
  <2>2. \A rest \in Bytes :
           second[item][rest] = IF list[rest].ok THEN Got(f(item)[list[rest].value], list[rest].rest)
                                ELSE list[rest]
    OBVIOUS
  <2> HIDE DEF f, second
  <2>. QED BY <2>1, <2>2, ReadsMap
<1>2. \A rest \in Bytes : list[rest].ok => list[rest].value \in Seq(V)
  BY GotFacts DEF Reads, ReadsAt
<1>3. \A left \in Bytes : Item[left].ok => Item[left].value \in V /\ Item[left].rest \in Bytes
  BY GotFacts DEF Reads, ReadsAt
<1>4. ASSUME NEW item \in V, NEW rest \in Bytes
      PROVE  second[item][rest] = IF list[rest].ok THEN Got(<<item>> \o list[rest].value, list[rest].rest)
                                  ELSE list[rest]
  BY <1>2
<1> HIDE DEF second
<1>5. ASSUME NEW left \in Bytes
      PROVE  D[left] = IF Item[left].ok THEN second[Item[left].value][Item[left].rest] ELSE Item[left]
  <2>1. D[left] =
               IF ~Item[left].ok THEN Item[left]
               ELSE IF ~list[Item[left].rest].ok THEN list[Item[left].rest]
               ELSE Got(<<Item[left].value>> \o list[Item[left].rest].value, list[Item[left].rest].rest)
    BY OneMoreFacts
  <2> HIDE DEF D
  <2>. QED BY <1>3, <1>4, <2>1
<1> HIDE DEF D
<1>6. Reads(D, Seq(V), 1)
  BY <1>1, <1>5, ReadsFirst
<1>. QED BY <1>6, ReadsLess DEF D

LEMMA OneMoreCarries ==
    ASSUME NEW Item, NEW list, NEW a, NEW b, NEW item, NEW items,
           Carries(Item, a, item), Carries(list, b, items)
    PROVE  Carries(OneMore(Item, list), a \o b, <<item>> \o items)
<1>1. a \in Bytes /\ b \in Bytes /\ a \o b \in Bytes
  BY BytesConcat DEF Carries
<1> SUFFICES ASSUME NEW more \in Bytes
             PROVE  OneMore(Item, list)[(a \o b) \o more] = Got(<<item>> \o items, more)
  BY <1>1 DEF Carries
<1>2. b \o more \in Bytes /\ (a \o b) \o more \in Bytes
  BY <1>1, BytesConcat
<1>3. (a \o b) \o more = a \o (b \o more)
  BY <1>1, BytesAssociate
<1>4. Item[(a \o b) \o more] = Got(item, b \o more)
  BY <1>2, <1>3 DEF Carries
<1>5. list[b \o more] = Got(items, more)
  BY DEF Carries
<1> DEFINE bytes == (a \o b) \o more
           first == Item[bytes]
           second == list[b \o more]
<1>6. first.ok /\ first.value = item /\ first.rest = b \o more
  BY <1>4 DEF Got
<1>7. second.ok /\ second.value = items /\ second.rest = more
  BY <1>5 DEF Got
<1>8. OneMore(Item, list)[bytes] =
               IF ~first.ok THEN first
               ELSE IF ~list[first.rest].ok THEN list[first.rest]
               ELSE Got(<<first.value>> \o list[first.rest].value, list[first.rest].rest)
  BY <1>2, OneMoreFacts
<1>. QED BY <1>6, <1>7, <1>8

\* The parts are the bytes of the items, one by one.
Coded(D, parts, items) ==
    Len(parts) = Len(items) /\ \A i \in 1 .. Len(items) : Carries(D, parts[i], items[i])

LEMMA CodedFacts ==
    ASSUME NEW D, NEW V, NEW parts \in Seq(Bytes), NEW items \in Seq(V), Coded(D, parts, items)
    PROVE  IF parts = <<>> THEN items = <<>>
           ELSE /\ items # <<>> /\ Carries(D, Head(parts), Head(items))
                /\ Tail(parts) \in Seq(Bytes) /\ Tail(items) \in Seq(V)
                /\ Coded(D, Tail(parts), Tail(items))
                /\ parts = <<Head(parts)>> \o Tail(parts) /\ items = <<Head(items)>> \o Tail(items)
                /\ Head(parts) \in Bytes /\ Head(items) \in V
                /\ Len(Tail(items)) = Len(items) - 1 /\ Len(Tail(parts)) = Len(parts) - 1
                /\ Len(items) \in Nat /\ Len(parts) \in Nat
<1>1. Len(parts) = Len(items) /\ Len(items) \in Nat
  BY LenProperties DEF Coded
<1>2. CASE parts = <<>>
  BY <1>1, <1>2, EmptySeq
<1>3. CASE parts # <<>>
  <2>1. items # <<>> /\ 1 \in 1 .. Len(items) /\ Head(parts) = parts[1] /\ Head(items) = items[1]
    BY <1>1, <1>3, EmptySeq, HeadTailProperties
  <2>2. /\ Tail(parts) \in Seq(Bytes) /\ parts = <<Head(parts)>> \o Tail(parts)
        /\ Head(parts) \in Bytes /\ Len(Tail(parts)) = Len(parts) - 1
    BY <1>3, HeadTail
  <2>3. /\ Tail(items) \in Seq(V) /\ items = <<Head(items)>> \o Tail(items)
        /\ Head(items) \in V /\ Len(Tail(items)) = Len(items) - 1
    BY <2>1, HeadTail
  <2>4. Carries(D, Head(parts), Head(items))
    BY <2>1 DEF Coded
  <2>5. ASSUME NEW i \in 1 .. Len(Tail(items)) PROVE Carries(D, Tail(parts)[i], Tail(items)[i])
    <3>1. i + 1 \in 1 .. Len(items) /\ i \in 1 .. Len(Tail(parts))
      BY <1>1, <2>2, <2>3
    <3>2. Tail(parts)[i] = parts[i + 1] /\ Tail(items)[i] = items[i + 1]
      BY <1>3, <2>1, <2>5, <3>1, HeadTailProperties
    <3>. QED BY <3>1, <3>2 DEF Coded
  <2>. QED BY <1>1, <1>3, <2>1, <2>2, <2>3, <2>4, <2>5 DEF Coded
<1>. QED BY <1>2, <1>3

LEMMA ResultsFacts ==
    ASSUME NEW V
    PROVE  /\ Malformed \in Results(V)
           /\ \A v \in V, rest \in Bytes : Got(v, rest) \in Results(V)
           /\ \A result \in Results(V) :
                  result = Malformed \/ \E v \in V, rest \in Bytes : result = Got(v, rest)
BY DEF Results

LEMMA OneMoreType ==
    ASSUME NEW Item, NEW list, NEW V, Reads(Item, V, 1), NEW left \in Bytes,
           Item[left].ok => list[Item[left].rest] \in Results(Seq(V))
    PROVE  OneMore(Item, list)[left] \in Results(Seq(V))
<1> DEFINE first == Item[left]
           second == list[first.rest]
<1>1. OneMore(Item, list)[left] = IF ~first.ok THEN first
                                  ELSE IF ~second.ok THEN second
                                  ELSE Got(<<first.value>> \o second.value, second.rest)
  BY OneMoreFacts
<1>2. CASE first = Malformed
  BY <1>1, <1>2, GotFacts DEF Results
<1>3. CASE first # Malformed
  <2>1. PICK v \in V, rest \in Bytes : first = Got(v, rest)
    BY <1>3 DEF Reads, ReadsAt
  <2>2. first.ok /\ first.value = v
    BY <2>1 DEF Got
  <2>3. second \in Results(Seq(V))
    BY <2>2
  <2> HIDE DEF first, second
  <2>4. CASE second = Malformed
    BY <1>1, <2>2, <2>4, GotFacts DEF Results
  <2>5. CASE second # Malformed
    <3>1. PICK vs \in Seq(V), end \in Bytes : second = Got(vs, end)
      BY <2>3, <2>5 DEF Results
    <3>2. second.ok /\ second.value = vs /\ second.rest = end
      BY <3>1 DEF Got
    <3>3. OneMore(Item, list)[left] = Got(<<v>> \o vs, end)
      BY <1>1, <2>2, <3>2
    <3>4. <<v>> \o vs \in Seq(V)
      BY ConsFacts
    <3>. QED BY <3>3, <3>4, ResultsFacts
  <2>. QED BY <2>4, <2>5
<1>. QED BY <1>2, <1>3

PairsReader(n) == [left \in Bytes |-> DecodePairs(n, left)]

\* Counted pairs are none, or one and then the others.
LEMMA PairsFacts ==
    /\ PairsReader(0) = [left \in Bytes |-> Got(<<>>, left)]
    /\ \A n \in Nat \ {0} : PairsReader(n) = OneMore(PairReader, PairsReader(n - 1))
<1> DEFINE V == [Bytes -> Results(Seq(Pair))]
           none == [left \in Bytes |-> Got(<<>>, left)]
           stop == {0}
           out == [n \in Nat |-> none]
           next == [n \in Nat |-> IF n = 0 THEN 0 ELSE n - 1]
           step == [p \in Nat \X V |-> OneMore(PairReader, p[2])]
           measure == [n \in Nat |-> n]
           Row(f, k) ==
               [left \in Bytes |->
                   IF k = 0 THEN Got(<<>>, left)
                   ELSE Then(DecodePair(left), LAMBDA pair, rest :
                           Then(f[k - 1][rest], LAMBDA others, end : Got(<<pair>> \o others, end)))]
           F(f) == [k \in Nat |-> Row(f, k)]
           pairs == CHOOSE f : f = F(f)
<1>1. none \in V
  <2>1. ASSUME NEW left \in Bytes PROVE Got(<<>>, left) \in Results(Seq(Pair))
    <3>1. <<>> \in Seq(Pair)
      OBVIOUS
    <3>. QED BY <3>1, ResultsFacts
  <2>. QED BY <2>1
<1>2. \A f \in V : OneMore(PairReader, f) \in V
  <2> SUFFICES ASSUME NEW f \in V PROVE OneMore(PairReader, f) \in V
    OBVIOUS
  <2>1. \A left \in Bytes : PairReader[left].ok => PairReader[left].rest \in Bytes
    BY PairReads, GotFacts DEF Reads, ReadsAt
  <2>2. \A left \in Bytes : OneMore(PairReader, f)[left] \in Results(Seq(Pair))
    BY <2>1, PairReads, OneMoreType
  <2>3. OneMore(PairReader, f) = [left \in Bytes |-> OneMore(PairReader, f)[left]]
    BY DEF OneMore
  <2>. QED BY <2>2, <2>3
<1>3. /\ measure \in [Nat -> Nat] /\ out \in [Nat -> V] /\ next \in [Nat -> Nat]
      /\ step \in [Nat \X V -> V]
      /\ \A n \in Nat : n \notin stop => measure[next[n]] < measure[n]
  <2>1. measure \in [Nat -> Nat] /\ next \in [Nat -> Nat]
        /\ \A n \in Nat : n \notin stop => measure[next[n]] < measure[n]
    OBVIOUS
  <2> HIDE DEF V, none
  <2>2. out \in [Nat -> V]
    BY <1>1
  <2>3. step \in [Nat \X V -> V]
    BY <1>2
  <2>. QED BY <2>1, <2>2, <2>3
<1>4. PICK g \in [Nat -> V] : Solves(g, Nat, stop, out, next, step)
  <2> HIDE DEF V, measure, stop, out, next, step
  <2>. QED BY <1>3, Recursion
<1>5. ASSUME NEW n \in Nat
      PROVE  g[n] = IF n = 0 THEN none ELSE OneMore(PairReader, g[n - 1])
  <2> HIDE DEF V, none
  <2>1. g[n] = IF n \in stop THEN out[n] ELSE step[<<n, g[next[n]]>>]
    BY <1>4 DEF Solves
  <2>2. CASE n = 0
    BY <2>1, <2>2
  <2>3. CASE n # 0
    <3>1. n \notin stop /\ next[n] = n - 1 /\ n - 1 \in Nat
      BY <2>3
    <3>2. step[<<n, g[n - 1]>>] = OneMore(PairReader, g[n - 1])
      BY <3>1
    <3>. QED BY <2>1, <2>3, <3>1, <3>2
  <2>. QED BY <2>2, <2>3
<1>11. ASSUME NEW f, NEW k PROVE Row(f, k) = IF k = 0 THEN none ELSE OneMore(PairReader, f[k - 1])
  <2>1. CASE k = 0
    BY <2>1
  <2>2. CASE k # 0
    BY <2>2 DEF OneMore, Then, PairReader
  <2>. QED BY <2>1, <2>2
<1>6. g = F(g)
  <2> HIDE DEF V, none, Row
  <2>. QED BY <1>5, <1>11
<1>7. pairs = F(pairs)
  <2> HIDE DEF F
  <2>. QED BY <1>6
<1>8. \A n, left : DecodePairs(n, left) = pairs[n][left]
  BY DEF DecodePairs
<1>9. ASSUME NEW n \in Nat PROVE pairs[n] = IF n = 0 THEN none ELSE OneMore(PairReader, pairs[n - 1])
  <2>1. \A f : f = F(f) => f[n] = Row(f, n)
    <3> HIDE DEF Row
    <3>. QED OBVIOUS
  <2> HIDE DEF F, pairs, Row, none
  <2>. QED BY <1>7, <1>11, <2>1
<1> HIDE DEF F, Row, pairs
<1>10. ASSUME NEW n \in Nat PROVE PairsReader(n) = pairs[n]
  <2>1. pairs[n] = [left \in Bytes |-> pairs[n][left]]
    BY <1>9 DEF OneMore
  <2>. QED BY <1>8, <2>1 DEF PairsReader
<1>12. PairsReader(0) = none
  BY <1>9, <1>10
<1>13. ASSUME NEW n \in Nat \ {0} PROVE PairsReader(n) = OneMore(PairReader, PairsReader(n - 1))
  <2>1. n \in Nat /\ n - 1 \in Nat /\ n # 0
    OBVIOUS
  <2>. QED BY <1>9, <1>10, <2>1
<1>. QED BY <1>12, <1>13

\* Counted pairs: what they read, and that encoded ones are read again.
LEMMA PairsReads == \A n \in Nat : Reads(PairsReader(n), Seq(Pair), 0)
<1> DEFINE T == {n \in Nat : Reads(PairsReader(n), Seq(Pair), 0)}
<1> SUFFICES ASSUME NEW n \in Nat PROVE n \in T
  OBVIOUS
<1>1. 0 \in T
  <2>1. <<>> \in Seq(Pair)
    OBVIOUS
  <2>. QED BY <2>1, PairsFacts, ReadsGot
<1>2. ASSUME NEW k \in 1 .. n, k - 1 \in T PROVE k \in T
  BY <1>2, PairsFacts, PairReads, OneMoreReads
<1>3. 0 .. n \subseteq T
  <2> HIDE DEF T
  <2>. QED BY <1>1, <1>2, PrefixInduction
<1>. QED BY <1>3

LEMMA PairsCarry ==
    ASSUME NEW parts \in Seq(Bytes), NEW items \in Seq(Pair), Coded(PairReader, parts, items)
    PROVE  Carries(PairsReader(Len(items)), Join(parts), items)
<1> DEFINE Good(p) == \A vs \in Seq(Pair) : Coded(PairReader, p, vs) =>
                          Carries(PairsReader(Len(vs)), Join(p), vs)
           T == {p \in Seq(Bytes) : Good(p)}
<1>1. ASSUME NEW p \in Seq(Bytes), \A t \in Seq(Bytes) : Len(t) < Len(p) => t \in T,
             NEW vs \in Seq(Pair), Coded(PairReader, p, vs)
      PROVE  Carries(PairsReader(Len(vs)), Join(p), vs)
  <2>1. CASE p = <<>>
    <3>1. vs = <<>>
      BY <1>1, <2>1, CodedFacts
    <3>4. Len(vs) = 0 /\ Join(p) = <<>>
      BY <2>1, <3>1, JoinFacts
    <3>2. \A bytes \in Bytes : PairsReader(0)[bytes] = Got(<<>>, bytes)
      BY PairsFacts
    <3>3. Carries(PairsReader(0), <<>>, <<>>)
      BY <3>2, CarriesNothing
    <3>. QED BY <3>1, <3>3, <3>4
  <2>2. CASE p # <<>>
    <3>1. /\ vs # <<>> /\ Carries(PairReader, Head(p), Head(vs))
          /\ Tail(p) \in Seq(Bytes) /\ Tail(vs) \in Seq(Pair)
          /\ Coded(PairReader, Tail(p), Tail(vs))
          /\ vs = <<Head(vs)>> \o Tail(vs)
          /\ Len(Tail(vs)) = Len(vs) - 1 /\ Len(Tail(p)) = Len(p) - 1
          /\ Len(vs) \in Nat /\ Len(p) \in Nat
      BY <1>1, <2>2, CodedFacts
    <3>2. Len(Tail(p)) < Len(p) /\ Len(vs) \in Nat \ {0}
      BY <3>1, EmptySeq
    <3>3. Carries(PairsReader(Len(vs) - 1), Join(Tail(p)), Tail(vs))
      BY <1>1, <3>1, <3>2
    <3>4. Carries(OneMore(PairReader, PairsReader(Len(vs) - 1)), Head(p) \o Join(Tail(p)),
                  <<Head(vs)>> \o Tail(vs))
      BY <3>1, <3>3, OneMoreCarries
    <3>5. Join(p) = Head(p) \o Join(Tail(p)) /\ PairsReader(Len(vs)) = OneMore(PairReader, PairsReader(Len(vs) - 1))
      BY <2>2, <3>2, JoinFacts, PairsFacts
    <3>. QED BY <3>1, <3>4, <3>5
  <2>. QED BY <2>1, <2>2
<1>2. Seq(Bytes) \subseteq T
  <2>1. \A s \in Seq(Bytes) : (\A t \in Seq(Bytes) : Len(t) < Len(s) => t \in T) => s \in T
    BY <1>1
  <2> HIDE DEF T
  <2>. QED BY <2>1, LengthInduction
<1>. QED BY <1>2

ListReader(Item) == [left \in Bytes |-> DecodeList(left, Item)]

\* A list is empty, or one item and then a list.
LEMMA ListFacts ==
    ASSUME NEW Item, NEW V, Reads(Item, V, 1)
    PROVE  \A left \in Bytes :
               /\ DecodeList(left, Item) \in Results(Seq(V))
               /\ DecodeList(left, Item) = IF left = <<>> THEN Got(<<>>, <<>>)
                                           ELSE OneMore(Item, ListReader(Item))[left]
<1> DEFINE W == Results(Seq(V))
           none == Got(<<>>, <<>>)
           stop == {left \in Bytes : left = <<>> \/ ~Item[left].ok}
           out == [left \in Bytes |-> IF left = <<>> THEN none ELSE Malformed]
           next == [left \in Bytes |-> IF Item[left].ok THEN Item[left].rest ELSE <<>>]
           constant(r) == [rest \in Bytes |-> r]
           step == [p \in Bytes \X W |-> OneMore(Item, constant(p[2]))[p[1]]]
           measure == [left \in Bytes |-> Len(left)]
           Row(f, left) ==
               IF left = <<>> THEN Got(<<>>, <<>>)
               ELSE Then(Item[left], LAMBDA item, rest :
                       Then(f[rest], LAMBDA items, end : Got(<<item>> \o items, end)))
           F(f) == [left \in Bytes |-> Row(f, left)]
           list == CHOOSE f : f = F(f)
<1>1. \A left \in Bytes :
         /\ Item[left].ok => /\ Item[left].rest \in Bytes /\ Len(Item[left].rest) \in Nat
                             /\ Len(Item[left].rest) < Len(left) /\ Len(left) \in Nat
         /\ ~Item[left].ok => Item[left] = Malformed
  <2> SUFFICES ASSUME NEW left \in Bytes
               PROVE  /\ Item[left].ok => /\ Item[left].rest \in Bytes /\ Len(Item[left].rest) \in Nat
                                          /\ Len(Item[left].rest) < Len(left) /\ Len(left) \in Nat
                      /\ ~Item[left].ok => Item[left] = Malformed
    OBVIOUS
  <2>1. CASE Item[left] = Malformed
    BY <2>1, GotFacts
  <2>2. CASE Item[left] # Malformed
    <3>1. PICK v \in V, rest \in Bytes : Item[left] = Got(v, rest) /\ Len(rest) + 1 <= Len(left)
      BY <2>2 DEF Reads, ReadsAt
    <3>2. Item[left].ok /\ Item[left].rest = rest
      BY <3>1 DEF Got
    <3>. QED BY <3>1, <3>2, BytesFacts
  <2>. QED BY <2>1, <2>2
<1>2. /\ measure \in [Bytes -> Nat] /\ next \in [Bytes -> Bytes]
      /\ \A left \in Bytes : left \notin stop => measure[next[left]] < measure[left]
  <2>1. <<>> \in Bytes
    BY BytesCons
  <2>. QED BY <1>1, <2>1, BytesFacts
<1>3. none \in W /\ Malformed \in W
  <2>1. <<>> \in Seq(V) /\ <<>> \in Bytes
    BY BytesCons
  <2>. QED BY <2>1, ResultsFacts
<1>4. out \in [Bytes -> W]
  <2> HIDE DEF none, W
  <2>. QED BY <1>3
<1>5. step \in [Bytes \X W -> W]
  <2> SUFFICES ASSUME NEW left \in Bytes, NEW r \in W PROVE OneMore(Item, constant(r))[left] \in W
    <3> HIDE DEF constant, W
    <3>. QED OBVIOUS
  <2>1. Item[left].ok => constant(r)[Item[left].rest] \in W
    <3> HIDE DEF W
    <3>. QED BY <1>1
  <2> HIDE DEF constant
  <2>. QED BY <2>1, OneMoreType
<1>6. PICK g \in [Bytes -> W] : Solves(g, Bytes, stop, out, next, step)
  <2> HIDE DEF W, measure, stop, out, next, step
  <2>. QED BY <1>2, <1>4, <1>5, Recursion
<1>7. ASSUME NEW f, NEW left \in Bytes
      PROVE  Row(f, left) = IF left = <<>> THEN none ELSE OneMore(Item, f)[left]
  BY DEF OneMore
<1>8. ASSUME NEW left \in Bytes PROVE g[left] = Row(g, left)
  <2> HIDE DEF Row, W, none
  <2>1. g[left] = IF left \in stop THEN out[left] ELSE step[<<left, g[next[left]]>>]
    BY <1>6 DEF Solves
  <2>2. CASE left = <<>>
    BY <1>7, <2>1, <2>2
  <2>3. CASE left # <<>> /\ ~Item[left].ok
    <3>1. g[left] = Malformed
      BY <2>1, <2>3
    <3>2. OneMore(Item, g)[left] = Malformed
      BY <1>1, <2>3, OneMoreFacts
    <3>. QED BY <1>7, <2>3, <3>1, <3>2
  <2>4. CASE left # <<>> /\ Item[left].ok
    <3> DEFINE rest == Item[left].rest
    <3>1. left \notin stop /\ next[left] = rest /\ rest \in Bytes
      BY <1>1, <2>4
    <3>2. g[rest] \in W
      BY <3>1
    <3>3. g[left] = OneMore(Item, constant(g[rest]))[left]
      <4> HIDE DEF rest, stop, next, out, constant
      <4>. QED BY <2>1, <3>1, <3>2
    <3>4. constant(g[rest])[rest] = g[rest]
      BY <3>1
    <3>5. OneMore(Item, constant(g[rest]))[left] = OneMore(Item, g)[left]
      <4> DEFINE first == Item[left]
                 c == constant(g[rest])
      <4>1. OneMore(Item, c)[left] = IF ~first.ok THEN first ELSE IF ~c[rest].ok THEN c[rest]
                                     ELSE Got(<<first.value>> \o c[rest].value, c[rest].rest)
        BY OneMoreFacts
      <4>2. OneMore(Item, g)[left] = IF ~first.ok THEN first ELSE IF ~g[rest].ok THEN g[rest]
                                     ELSE Got(<<first.value>> \o g[rest].value, g[rest].rest)
        BY OneMoreFacts
      <4> HIDE DEF c, rest, first
      <4>. QED BY <3>4, <4>1, <4>2 DEF c
    <3>. QED BY <1>7, <2>4, <3>3, <3>5
  <2>. QED BY <2>2, <2>3, <2>4
<1>9. g = F(g)
  <2> HIDE DEF Row, W
  <2>. QED BY <1>8
<1>10. list = F(list)
  <2> HIDE DEF F
  <2>. QED BY <1>9
<1>11. \A left : DecodeList(left, Item) = list[left]
  BY DEF DecodeList
<1>12. ASSUME NEW left \in Bytes PROVE list[left] = IF left = <<>> THEN none ELSE OneMore(Item, list)[left]
  <2>1. \A f : f = F(f) => f[left] = Row(f, left)
    <3> HIDE DEF Row
    <3>. QED OBVIOUS
  <2> HIDE DEF F, list, Row, none
  <2>. QED BY <1>7, <1>10, <2>1
<1> HIDE DEF F, Row, list
<1>13. ListReader(Item) = list
  <2>1. list = [left \in Bytes |-> list[left]]
    <3>1. \A f : f = F(f) => f = [left \in Bytes |-> f[left]]
      <4> HIDE DEF Row
      <4>. QED BY DEF F
    <3>. QED BY <1>10, <3>1
  <2>. QED BY <1>11, <2>1 DEF ListReader
<1> DEFINE T == {left \in Bytes : list[left] \in W}
<1>14. ASSUME NEW s \in Bytes, \A t \in Bytes : Len(t) < Len(s) => t \in T PROVE list[s] \in W
  <2>1. CASE s = <<>>
    <3> HIDE DEF W, none
    <3>. QED BY <1>3, <1>12, <2>1
  <2>2. CASE s # <<>>
    <3>1. Item[s].ok => list[Item[s].rest] \in W
      <4> HIDE DEF W
      <4>. QED BY <1>1, <1>14
    <3>2. OneMore(Item, list)[s] \in W
      BY <3>1, OneMoreType
    <3> HIDE DEF W
    <3>. QED BY <1>12, <2>2, <3>2
  <2>. QED BY <2>1, <2>2
<1>15. Bytes \subseteq T
  <2>1. \A s \in Bytes : (\A t \in Bytes : Len(t) < Len(s) => t \in T) => s \in T
    <3> HIDE DEF W
    <3>. QED BY <1>14
  <2> HIDE DEF T
  <2>. QED BY <2>1, LengthInduction DEF Bytes
<1>. QED BY <1>11, <1>12, <1>13, <1>15

\* A list of encoded items is read again, to the last of its bytes.
LEMMA ListCarries ==
    ASSUME NEW Item, NEW V, Reads(Item, V, 1), NEW parts \in Seq(Bytes), NEW items \in Seq(V),
           Coded(Item, parts, items)
    PROVE  DecodeList(Join(parts), Item) = Got(items, <<>>)
<1> DEFINE Good(p) == \A vs \in Seq(V) : Coded(Item, p, vs) => DecodeList(Join(p), Item) = Got(vs, <<>>)
           T == {p \in Seq(Bytes) : Good(p)}
<1>1. ASSUME NEW p \in Seq(Bytes), \A t \in Seq(Bytes) : Len(t) < Len(p) => t \in T,
             NEW vs \in Seq(V), Coded(Item, p, vs)
      PROVE  DecodeList(Join(p), Item) = Got(vs, <<>>)
  <2>1. CASE p = <<>>
    <3>1. vs = <<>> /\ Join(p) = <<>> /\ <<>> \in Bytes
      BY <1>1, <2>1, CodedFacts, JoinFacts, BytesCons
    <3>2. DecodeList(<<>>, Item) = Got(<<>>, <<>>)
      BY <3>1, ListFacts
    <3>. QED BY <3>1, <3>2
  <2>2. CASE p # <<>>
    <3>1. /\ Carries(Item, Head(p), Head(vs)) /\ Tail(p) \in Seq(Bytes) /\ Tail(vs) \in Seq(V)
          /\ Coded(Item, Tail(p), Tail(vs)) /\ vs = <<Head(vs)>> \o Tail(vs) /\ Head(vs) \in V
          /\ Len(Tail(p)) = Len(p) - 1 /\ Len(p) \in Nat /\ Head(p) \in Bytes
      BY <1>1, <2>2, CodedFacts
    <3> DEFINE tail == Join(Tail(p))
               list == ListReader(Item)
    <3>2. Len(Tail(p)) < Len(p)
      BY <3>1
    <3>3. DecodeList(tail, Item) = Got(Tail(vs), <<>>)
      BY <1>1, <3>1, <3>2
    <3>4. Join(p) = Head(p) \o tail /\ tail \in Bytes /\ Join(p) \in Bytes
      BY <2>2, <3>1, JoinFacts
    <3>5. Join(p) # <<>>
      <4>1. Head(p) # <<>>
        BY <3>1, CarriesSome
      <4>. QED BY <3>1, <3>4, <4>1, BytesConcat
    <3>6. list[tail] = Got(Tail(vs), <<>>)
      BY <3>3, <3>4 DEF ListReader
    <3>7. Item[Join(p)] = Got(Head(vs), tail)
      BY <3>1, <3>4 DEF Carries
    <3>8. DecodeList(Join(p), Item) = OneMore(Item, list)[Join(p)]
      BY <3>4, <3>5, ListFacts
    <3> DEFINE bytes == Join(p)
               first == Item[bytes]
               second == list[tail]
    <3> HIDE DEF list, tail, bytes
    <3>9. first.ok /\ first.value = Head(vs) /\ first.rest = tail
      BY <3>7 DEF Got, bytes
    <3>10. second.ok /\ second.value = Tail(vs) /\ second.rest = <<>>
      BY <3>6 DEF Got
    <3>11. OneMore(Item, list)[bytes] = IF ~first.ok THEN first ELSE IF ~list[first.rest].ok THEN list[first.rest]
                                        ELSE Got(<<first.value>> \o list[first.rest].value, list[first.rest].rest)
      BY <3>4, OneMoreFacts DEF bytes
    <3> HIDE DEF first
    <3>12. OneMore(Item, list)[bytes] = Got(<<Head(vs)>> \o Tail(vs), <<>>)
      BY <3>9, <3>10, <3>11
    <3>. QED BY <3>1, <3>8, <3>12 DEF bytes
  <2>. QED BY <2>1, <2>2
<1>2. Seq(Bytes) \subseteq T
  <2>1. \A s \in Seq(Bytes) : (\A t \in Seq(Bytes) : Len(t) < Len(s) => t \in T) => s \in T
    BY <1>1
  <2> HIDE DEF T
  <2>. QED BY <2>1, LengthInduction
<1>. QED BY <1>2

\* Two ways to cut the same bytes.
Between(a, b, c, d) == \E m \in Bytes : c = a \o m /\ b = m \o d

LEMMA SplitFacts ==
    \A a, b, c, d \in Bytes : a \o b = c \o d /\ Len(a) <= Len(c) => Between(a, b, c, d)
<1> SUFFICES ASSUME NEW a \in Bytes, NEW b \in Bytes, NEW c \in Bytes, NEW d \in Bytes,
                    a \o b = c \o d, Len(a) <= Len(c)
             PROVE  Between(a, b, c, d)
  OBVIOUS
<1> DEFINE c1 == SubSeq(c, 1, Len(a))
           m == SubSeq(c, Len(a) + 1, Len(c))
<1>1. c1 \in Bytes /\ Len(c1) = Len(a) /\ m \in Bytes /\ c = c1 \o m
  BY BytesFacts, BytesCut DEF BytesOf
<1> HIDE DEF c1, m
<1>2. a \o b = c1 \o (m \o d) /\ m \o d \in Bytes
  <2>1. (c1 \o m) \o d = c1 \o (m \o d)
    <3> DEFINE Glued(x, y, z) == (x \o y) \o z = x \o (y \o z)
    <3>1. \A x, y, z \in Bytes : Glued(x, y, z)
      BY BytesAssociate
    <3>2. c1 \in Bytes /\ m \in Bytes /\ d \in Bytes
      BY <1>1
    <3> HIDE DEF Glued
    <3>3. Glued(c1, m, d)
      BY ONLY <3>1, <3>2, Zenon
    <3>. QED BY ONLY <3>3 DEF Glued
  <2>2. m \o d \in Bytes
    BY <1>1, BytesConcat
  <2>. QED BY <1>1, <2>1, <2>2
<1> DEFINE s == a \o b
           t == c1 \o (m \o d)
<1>3. SubSeq(s, 1, Len(a)) = a /\ SubSeq(s, Len(a) + 1, Len(s)) = b
  BY BytesUncut
<1>4. SubSeq(t, 1, Len(c1)) = c1 /\ SubSeq(t, Len(c1) + 1, Len(t)) = m \o d
  BY <1>1, <1>2, BytesUncut
<1>5. s = t
  BY <1>2
<1> HIDE DEF s, t
<1>. QED BY <1>1, <1>3, <1>4, <1>5 DEF Between

LEMMA StartOfParts ==
    ASSUME NEW parts \in Seq(Bytes), parts # <<>>, NEW k \in 0 .. Len(Tail(parts))
    PROVE  /\ SubSeq(parts, 1, k + 1) \in Seq(Bytes) /\ SubSeq(parts, 1, k + 1) # <<>>
           /\ Head(SubSeq(parts, 1, k + 1)) = Head(parts)
           /\ Tail(SubSeq(parts, 1, k + 1)) = SubSeq(Tail(parts), 1, k)
           /\ k + 1 \in 0 .. Len(parts)
<1> DEFINE s == SubSeq(parts, 1, k + 1)
           t == SubSeq(Tail(parts), 1, k)
<1>1. /\ Len(parts) \in Nat /\ Tail(parts) \in Seq(Bytes) /\ Len(Tail(parts)) = Len(parts) - 1
      /\ \A i \in 1 .. Len(Tail(parts)) : Tail(parts)[i] = parts[i + 1]
      /\ Head(parts) = parts[1]
  BY HeadTailProperties
<1>2. k \in Nat /\ k + 1 \in 0 .. Len(parts) /\ k + 1 \in Int /\ 1 <= k + 1 + 1
  BY <1>1
<1>3. /\ s \in Seq(Bytes) /\ Len(s) = k + 1 /\ \A i \in 1 .. (k + 1) : s[i] = parts[i]
  BY <1>1, <1>2, SubSeqProperties
<1>4. /\ t \in Seq(Bytes) /\ Len(t) = k /\ \A i \in 1 .. k : t[i] = Tail(parts)[i]
  BY <1>1, <1>2, SubSeqProperties
<1> HIDE DEF s, t
<1>5. s # <<>> /\ Head(s) = s[1] /\ Tail(s) \in Seq(Bytes) /\ Len(Tail(s)) = k
      /\ \A i \in 1 .. k : Tail(s)[i] = s[i + 1]
  <2>1. s # <<>>
    BY <1>2, <1>3, EmptySeq
  <2>. QED BY <1>2, <1>3, <2>1, HeadTailProperties
<1>6. \A i \in 1 .. k : Tail(s)[i] = t[i]
  BY <1>1, <1>2, <1>3, <1>4, <1>5
<1>7. Tail(s) = t
  BY <1>4, <1>5, <1>6, SeqEqual
<1>8. Head(s) = Head(parts)
  BY <1>1, <1>2, <1>3, <1>5
<1>. QED BY <1>2, <1>3, <1>5, <1>7, <1>8 DEF s, t

\* The start of a list that reads as a list ends with an item.
LEMMA ListCut ==
    ASSUME NEW Item, NEW V, Reads(Item, V, 1), NEW parts \in Seq(Bytes), NEW items \in Seq(V),
           Coded(Item, parts, items), NEW start \in Bytes, NEW end \in Bytes,
           start \o end = Join(parts), DecodeList(start, Item).ok
    PROVE  \E k \in 0 .. Len(parts) : start = Join(SubSeq(parts, 1, k))
<1> DEFINE Ends(p, s) == \E k \in 0 .. Len(p) : s = Join(SubSeq(p, 1, k))
           Good(p) == \A vs \in Seq(V), s, e \in Bytes :
                          Coded(Item, p, vs) /\ s \o e = Join(p) /\ DecodeList(s, Item).ok => Ends(p, s)
           T == {p \in Seq(Bytes) : Good(p)}
<1>1. ASSUME NEW p \in Seq(Bytes), \A t \in Seq(Bytes) : Len(t) < Len(p) => t \in T,
             NEW vs \in Seq(V), NEW s \in Bytes, NEW e \in Bytes,
             Coded(Item, p, vs), s \o e = Join(p), DecodeList(s, Item).ok
      PROVE  Ends(p, s)
  <2>1. CASE s = <<>>
    <3>1. 0 \in 0 .. Len(p) /\ SubSeq(p, 1, 0) = <<>> /\ Join(<<>>) = <<>>
      BY LenProperties, JoinFacts, SubSeqEmpty
    <3>2. s = Join(SubSeq(p, 1, 0))
      BY <2>1, <3>1
    <3>. QED BY <3>1, <3>2
  <2>2. CASE s # <<>>
    <3>1. p # <<>>
      <4> SUFFICES ASSUME p = <<>> PROVE FALSE
        OBVIOUS
      <4>1. s \o e = <<>>
        BY <1>1, JoinFacts
      <4>. QED BY <2>2, <4>1, BytesConcat
    <3>2. /\ Carries(Item, Head(p), Head(vs)) /\ Tail(p) \in Seq(Bytes) /\ Tail(vs) \in Seq(V)
          /\ Coded(Item, Tail(p), Tail(vs))
          /\ Len(Tail(p)) = Len(p) - 1 /\ Len(p) \in Nat /\ Head(p) \in Bytes
      BY <1>1, <3>1, CodedFacts
    <3> DEFINE head == Head(p)
               tail == Join(Tail(p))
               list == ListReader(Item)
               first == Item[s]
    <3>3. Join(p) = head \o tail /\ tail \in Bytes /\ head \in Bytes
      BY <3>1, <3>2, JoinFacts
    <3>4. OneMore(Item, list)[s] = IF ~first.ok THEN first ELSE IF ~list[first.rest].ok THEN list[first.rest]
                                   ELSE Got(<<first.value>> \o list[first.rest].value, list[first.rest].rest)
      BY OneMoreFacts
    <3>5. OneMore(Item, list)[s].ok
      BY <1>1, <2>2, ListFacts
    <3>6. first.ok /\ list[first.rest].ok
      BY <3>4, <3>5
    <3> HIDE DEF head, tail, list
    <3>7. Len(s) \in Nat /\ Len(head) \in Nat
      BY <3>3, BytesFacts
    <3>8. CASE Len(s) <= Len(head)
      <4>1. PICK m \in Bytes : head = s \o m /\ e = m \o tail
        <5>1. Between(s, e, head, tail)
          BY <1>1, <3>3, <3>8, SplitFacts
        <5>. QED BY <5>1 DEF Between
      <4>2. Item[head] = Got(Head(vs), <<>>)
        BY <3>2, <3>3, BytesConcat, BytesCons DEF Carries, head
      <4>3. m = <<>>
        <5>1. Item[s] # Malformed
          BY <3>6, GotFacts
        <5>. QED BY <4>1, <4>2, <5>1, CarriesWhole
      <4>4. s = head
        BY <4>1, <4>3, BytesConcat
      <4>5. 0 \in 0 .. Len(Tail(p)) /\ SubSeq(Tail(p), 1, 0) = <<>> /\ Join(<<>>) = <<>>
        BY <3>2, LenProperties, JoinFacts, SubSeqEmpty
      <4>6. /\ SubSeq(p, 1, 1) \in Seq(Bytes) /\ SubSeq(p, 1, 1) # <<>> /\ Head(SubSeq(p, 1, 1)) = head
            /\ Tail(SubSeq(p, 1, 1)) = <<>> /\ 1 \in 0 .. Len(p)
        <5>1. 0 + 1 = 1
          OBVIOUS
        <5>. QED BY <3>1, <4>5, <5>1, StartOfParts DEF head
      <4>7. Join(SubSeq(p, 1, 1)) = head \o <<>>
        BY <4>5, <4>6, JoinFacts
      <4>8. s = Join(SubSeq(p, 1, 1))
        BY <3>3, <4>4, <4>7, BytesConcat
      <4>. QED BY <4>6, <4>8
    <3>9. CASE ~(Len(s) <= Len(head))
      <4>1. PICK m \in Bytes : s = head \o m /\ tail = m \o e
        <5>1. head \o tail = s \o e /\ Len(head) <= Len(s)
          BY <1>1, <3>3, <3>7, <3>9
        <5>2. Between(head, tail, s, e)
          BY <3>3, <5>1, SplitFacts
        <5>. QED BY <5>2 DEF Between
      <4>2. first = Got(Head(vs), m)
        BY <3>2, <4>1 DEF Carries, head
      <4>3. first.rest = m
        BY <4>2 DEF Got
      <4>4. DecodeList(m, Item).ok
        BY <3>6, <4>3 DEF list, ListReader
      <4>5. Len(Tail(p)) < Len(p)
        BY <3>2
      <4>6. Good(Tail(p))
        BY <1>1, <3>2, <4>5
      <4>7. Ends(Tail(p), m)
        BY <3>2, <4>1, <4>4, <4>6 DEF tail
      <4>8. PICK k \in 0 .. Len(Tail(p)) : m = Join(SubSeq(Tail(p), 1, k))
        BY <4>7
      <4>9. /\ SubSeq(p, 1, k + 1) \in Seq(Bytes) /\ SubSeq(p, 1, k + 1) # <<>>
            /\ Head(SubSeq(p, 1, k + 1)) = head
            /\ Tail(SubSeq(p, 1, k + 1)) = SubSeq(Tail(p), 1, k) /\ k + 1 \in 0 .. Len(p)
        BY <3>1, StartOfParts DEF head
      <4>10. Join(SubSeq(p, 1, k + 1)) = head \o m
        BY <4>8, <4>9, JoinFacts
      <4>. QED BY <4>1, <4>9, <4>10
    <3>. QED BY <3>8, <3>9
  <2>. QED BY <2>1, <2>2
<1>2. Seq(Bytes) \subseteq T
  <2>1. \A s \in Seq(Bytes) : (\A t \in Seq(Bytes) : Len(t) < Len(s) => t \in T) => s \in T
    <3> HIDE DEF Ends
    <3>. QED BY <1>1
  <2> HIDE DEF T
  <2>. QED BY <2>1, LengthInduction
<1>. QED BY <1>2

-----------------------------------------------------------------------------
(* Messages, actions and metadata *)

\* One decoder, then the one its value selects.
Chain(first, second) ==
    [bytes \in Bytes |->
        IF first[bytes].ok THEN second[first[bytes].value][first[bytes].rest] ELSE first[bytes]]

LEMMA ChainReads ==
    ASSUME NEW first, NEW second, NEW U, NEW V, NEW j \in Nat, NEW k \in Nat,
           Reads(first, U, j), \A u \in U : Reads(second[u], V, k)
    PROVE  Reads(Chain(first, second), V, j)
<1> DEFINE D == Chain(first, second)
<1>1. \A bytes \in Bytes :
          D[bytes] = IF first[bytes].ok THEN second[first[bytes].value][first[bytes].rest] ELSE first[bytes]
  BY DEF Chain
<1> HIDE DEF D
<1>2. \A u \in U : Reads(second[u], V, 0)
  BY ReadsLess
<1>. QED BY <1>1, <1>2, ReadsFirst DEF D

LEMMA ChainCarries ==
    ASSUME NEW first, NEW second, NEW a, NEW b, NEW u, NEW v,
           Carries(first, a, u), Carries(second[u], b, v)
    PROVE  Carries(Chain(first, second), a \o b, v)
<1> DEFINE D == Chain(first, second)
<1>1. \A bytes \in Bytes :
          D[bytes] = IF first[bytes].ok THEN second[first[bytes].value][first[bytes].rest] ELSE first[bytes]
  BY DEF Chain
<1> HIDE DEF D
<1>. QED BY <1>1, CarriesThen DEF D

\* Parts that carry the items one by one.
LEMMA CodedParts ==
    ASSUME NEW D, NEW V, NEW items \in Seq(V), NEW parts, parts = [i \in DOMAIN items |-> parts[i]],
           \A i \in DOMAIN items : Carries(D, parts[i], items[i])
    PROVE  parts \in Seq(Bytes) /\ Coded(D, parts, items)
<1>1. DOMAIN items = 1 .. Len(items) /\ Len(items) \in Nat
  BY LenProperties
<1>2. \A i \in 1 .. Len(items) : parts[i] \in Bytes
  BY <1>1 DEF Carries
<1>3. parts \in [1 .. Len(items) -> Bytes]
  BY <1>1, <1>2
<1>4. parts \in Seq(Bytes)
  BY <1>1, <1>3, SeqDef
<1>5. Len(parts) = Len(items)
  BY <1>1, <1>3, <1>4, LenProperties
<1>. QED BY <1>1, <1>4, <1>5 DEF Coded

LEMMA KvListCarries ==
    ASSUME NEW pairs \in Seq(Pair), \A i \in DOMAIN pairs : PairEncodes(pairs[i])
    PROVE  /\ Carries(PairsReader(Len(pairs)), EncodeKvList(pairs), pairs)
           /\ DecodeList(EncodeKvList(pairs), PairReader) = Got(pairs, <<>>)
           /\ EncodeKvList(pairs) \in Bytes
<1> DEFINE parts == [i \in DOMAIN pairs |-> ComposeKvPair(pairs[i])]
<1>1. \A i \in DOMAIN pairs : pairs[i] \in Pair
  OBVIOUS
<1>2. \A i \in DOMAIN pairs : Carries(PairReader, parts[i], pairs[i])
  BY <1>1, PairReads
<1>3. parts = [i \in DOMAIN pairs |-> parts[i]] /\ EncodeKvList(pairs) = Join(parts)
  BY DEF EncodeKvList
<1> HIDE DEF parts
<1>4. parts \in Seq(Bytes) /\ Coded(PairReader, parts, pairs)
  BY <1>2, <1>3, CodedParts
<1>5. Carries(PairsReader(Len(pairs)), Join(parts), pairs)
  BY <1>4, PairsCarry
<1>6. DecodeList(Join(parts), PairReader) = Got(pairs, <<>>)
  BY <1>4, PairReads, ListCarries
<1>. QED BY <1>3, <1>4, <1>5, <1>6, JoinFacts

MessageReader == [left \in Bytes |-> DecodeMessage(left)]

\* One message: what is read is a message without repeated arguments, and an encoded one
\* is read again.
LEMMA MessageReads ==
    /\ Reads(MessageReader, Message, 1)
    /\ \A message \in Message : MessageEncodes(message) =>
           Carries(MessageReader, EncodeMessage(message), message)
<1> DEFINE M(name, args) == [name |-> name, args |-> args]
           last(name) == [args \in Seq(Pair) |->
                             [left \in Bytes |-> IF HasDuplicates(args) THEN Malformed
                                                 ELSE Got(M(name, args), left)]]
           counted(name) == [n \in Byte |-> Chain(PairsReader(n), last(name))]
           named == [name \in Bytes |-> Chain(ByteReader, counted(name))]
           D == Chain(BinaryReader, named)
<1>1. ASSUME NEW name \in Bytes, NEW args \in Seq(Pair) PROVE Reads(last(name)[args], Message, 0)
  <2>1. CASE HasDuplicates(args)
    <3>1. last(name)[args] = [left \in Bytes |-> Malformed]
      BY <2>1
    <3>. QED BY <3>1, ReadsNothing
  <2>2. CASE ~HasDuplicates(args)
    <3>1. last(name)[args] = [left \in Bytes |-> Got(M(name, args), left)]
      BY <2>2
    <3>2. args \in Dict /\ name \in Seq(Nat)
      BY <2>2, StringFacts DEF Dict
    <3>3. M(name, args) \in Message
      BY <3>2 DEF Message
    <3> HIDE DEF M
    <3>. QED BY <3>1, <3>3, ReadsGot
  <2>. QED BY <2>1, <2>2
<1>2. ASSUME NEW name \in Bytes, NEW n \in Byte PROVE Reads(counted(name)[n], Message, 0)
  <2>1. n \in Nat /\ counted(name)[n] = Chain(PairsReader(n), last(name))
    BY ByteFacts
  <2>2. \A args \in Seq(Pair) : Reads(last(name)[args], Message, 0)
    BY <1>1
  <2> HIDE DEF last, counted
  <2>3. Reads(PairsReader(n), Seq(Pair), 0)
    BY <2>1, PairsReads
  <2>4. Reads(Chain(PairsReader(n), last(name)), Message, 0)
    BY <2>2, <2>3, ChainReads
  <2>. QED BY <2>1, <2>4
<1>3. ASSUME NEW name \in Bytes PROVE Reads(named[name], Message, 0)
  <2>1. named[name] = Chain(ByteReader, counted(name))
    OBVIOUS
  <2>2. \A n \in Byte : Reads(counted(name)[n], Message, 0)
    BY <1>2
  <2> HIDE DEF counted, named
  <2>3. Reads(Chain(ByteReader, counted(name)), Message, 1)
    BY <2>2, ByteReads, ChainReads
  <2>. QED BY <2>1, <2>3, ReadsLess
<1>4. Reads(D, Message, 1)
  <2> HIDE DEF named
  <2>. QED BY <1>3, BinaryReads, ChainReads
<1>5. ASSUME NEW name \in Bytes, NEW rest \in Bytes
      PROVE  named[name][rest] =
                 IF rest = <<>> THEN Malformed
                 ELSE Then(DecodePairs(Head(rest), Tail(rest)), LAMBDA args, left :
                         IF HasDuplicates(args) THEN Malformed
                         ELSE Got([name |-> name, args |-> args], left))
  <2>1. named[name][rest] = IF ByteReader[rest].ok THEN counted(name)[ByteReader[rest].value][ByteReader[rest].rest]
                            ELSE ByteReader[rest]
    <3> HIDE DEF counted
    <3>. QED BY DEF Chain
  <2>2. CASE rest = <<>>
    <3>1. ByteReader[rest] = Malformed
      BY <2>2 DEF ByteReader
    <3> HIDE DEF named, counted
    <3>. QED BY <2>1, <2>2, <3>1, GotFacts
  <2>3. CASE rest # <<>>
    <3> DEFINE n == Head(rest)
               tail == Tail(rest)
               pairs == DecodePairs(n, tail)
    <3>1. n \in Byte /\ tail \in Bytes /\ n \in Nat
      BY <2>3, BytesFacts
    <3>2. ByteReader[rest] = Got(n, tail)
      BY <2>3 DEF ByteReader
    <3>3. ByteReader[rest].ok /\ ByteReader[rest].value = n /\ ByteReader[rest].rest = tail
      <4> HIDE DEF n, tail
      <4>. QED BY <3>2 DEF Got
    <3>4. named[name][rest] = counted(name)[n][tail]
      <4> HIDE DEF n, tail, named, counted
      <4>. QED BY <2>1, <3>3
    <3> HIDE DEF n, tail
    <3>5. counted(name)[n][tail] = IF PairsReader(n)[tail].ok
              THEN last(name)[PairsReader(n)[tail].value][PairsReader(n)[tail].rest]
              ELSE PairsReader(n)[tail]
      <4> HIDE DEF last
      <4>. QED BY <3>1 DEF Chain
    <3>6. PairsReader(n)[tail] = pairs
      BY <3>1 DEF PairsReader
    <3>7. PairsReader(n)[tail].ok => PairsReader(n)[tail].value \in Seq(Pair) /\ PairsReader(n)[tail].rest \in Bytes
      BY <3>1, PairsReads, GotFacts DEF Reads, ReadsAt
    <3> HIDE DEF pairs
    <3>8. pairs.ok => last(name)[pairs.value][pairs.rest] =
              IF HasDuplicates(pairs.value) THEN Malformed ELSE Got(M(name, pairs.value), pairs.rest)
      <4> HIDE DEF M
      <4>. QED BY <3>6, <3>7
    <3>9. named[name][rest] = Then(pairs, LAMBDA args, left :
                         IF HasDuplicates(args) THEN Malformed
                         ELSE Got([name |-> name, args |-> args], left))
      <4> HIDE DEF named, counted, last
      <4>. QED BY <3>4, <3>5, <3>6, <3>8 DEF Then
    <3>. QED BY <2>3, <3>9 DEF pairs, n, tail
  <2>. QED BY <2>2, <2>3
<1>6. ASSUME NEW bytes \in Bytes PROVE MessageReader[bytes] = D[bytes]
  <2> HIDE DEF named
  <2>1. D[bytes] = IF BinaryReader[bytes].ok THEN named[BinaryReader[bytes].value][BinaryReader[bytes].rest]
                   ELSE BinaryReader[bytes]
    BY DEF Chain
  <2>2. BinaryReader[bytes].ok => BinaryReader[bytes].value \in Bytes /\ BinaryReader[bytes].rest \in Bytes
    BY BinaryReads, GotFacts DEF Reads, ReadsAt
  <2>3. MessageReader[bytes] = DecodeMessage(bytes) /\ BinaryReader[bytes] = DecodeString(bytes)
    BY DEF MessageReader, BinaryReader, DecodeString
  <2> HIDE DEF D
  <2>4. CASE BinaryReader[bytes].ok
    BY <1>5, <2>1, <2>2, <2>3, <2>4 DEF DecodeMessage, Then
  <2>5. CASE ~BinaryReader[bytes].ok
    BY <2>1, <2>3, <2>5 DEF DecodeMessage, Then
  <2>. QED BY <2>4, <2>5
<1>7. MessageReader = D
  <2>1. D = [bytes \in Bytes |-> D[bytes]] /\ MessageReader = [bytes \in Bytes |-> MessageReader[bytes]]
    <3> HIDE DEF named
    <3>. QED BY DEF Chain, MessageReader
  <2> HIDE DEF D
  <2>. QED BY <1>6, <2>1
<1>8. ASSUME NEW message \in Message, MessageEncodes(message)
      PROVE  Carries(D, EncodeMessage(message), message)
  <2> DEFINE name == message.name
             args == message.args
             n == Len(args)
             body == EncodeKvList(args)
  <2>1. /\ message = M(name, args) /\ name \in Seq(Nat) /\ args \in Seq(Pair) /\ ~HasDuplicates(args)
    BY DEF Message, Dict
  <2>2. name \in Bytes /\ n \in Byte
    <3>1. n \in Nat /\ n < 256
      BY <1>8, <2>1 DEF MessageEncodes
    <3>2. name \in Bytes
      BY <1>8, <2>1, StringFacts DEF MessageEncodes
    <3>. QED BY <3>1, <3>2, ByteFacts
  <2>3. Carries(PairsReader(n), body, args) /\ body \in Bytes
    BY <1>8, <2>1, KvListCarries DEF MessageEncodes
  <2>4. EncodeMessage(message) = (ComposeBinary(name) \o <<n>>) \o body
    BY DEF EncodeMessage, EncodeString
  <2>5. Carries(BinaryReader, ComposeBinary(name), name) /\ Carries(ByteReader, <<n>>, n)
    BY <2>2, BinaryReads, ByteCarries
  <2> HIDE DEF name, args, body, n, M
  <2>6. Carries(last(name)[args], <<>>, M(name, args))
    <3>1. \A left \in Bytes : last(name)[args][left] = Got(M(name, args), left)
      BY <2>1
    <3> HIDE DEF last
    <3>. QED BY <3>1, CarriesNothing
  <2>7. Carries(counted(name)[n], body, M(name, args))
    <3>1. counted(name)[n] = Chain(PairsReader(n), last(name))
      BY <2>2
    <3> HIDE DEF last, counted
    <3>2. Carries(Chain(PairsReader(n), last(name)), body \o <<>>, M(name, args))
      BY <2>3, <2>6, ChainCarries
    <3>. QED BY <2>3, <3>1, <3>2, BytesConcat, BytesCons
  <2>8. Carries(named[name], <<n>> \o body, M(name, args))
    <3>1. named[name] = Chain(ByteReader, counted(name))
      BY <2>2
    <3> HIDE DEF counted, named
    <3>. QED BY <2>5, <2>7, <3>1, ChainCarries
  <2> HIDE DEF named
  <2>9. Carries(D, ComposeBinary(name) \o (<<n>> \o body), M(name, args))
    BY <2>5, <2>8, ChainCarries
  <2>10. (ComposeBinary(name) \o <<n>>) \o body = ComposeBinary(name) \o (<<n>> \o body)
    BY <2>3, <2>5, BytesAssociate DEF Carries
  <2>. QED BY <2>1, <2>4, <2>9, <2>10
<1> HIDE DEF D
<1>. QED BY <1>4, <1>7, <1>8

-----------------------------------------------------------------------------
(* Actions *)

LEMMA ChooseOnly == ASSUME NEW S, NEW a, S = {a} PROVE (CHOOSE t \in S : TRUE) = a
OBVIOUS

\* The types of actions by their numbers.
LEMMA ActionTypes ==
    ASSUME NEW n
    PROVE  /\ n = 1 => {t \in DOMAIN ActionType : ActionType[t] = n} = {"SET_VAR"}
           /\ n = 2 => {t \in DOMAIN ActionType : ActionType[t] = n} = {"UNSET_VAR"}
           /\ n \notin {1, 2} => {t \in DOMAIN ActionType : ActionType[t] = n} = {}
BY DEF ActionType

ActionReader == [left \in Bytes |-> DecodeAction(left)]
ActionOf(type, scope, name, value) == [type |-> type, scope |-> scope, name |-> name, value |-> value]

\* What follows the type, the number of arguments and the scope.
SetReader(scope) ==
    [left \in Bytes |->
        Then(DecodePair(left), LAMBDA pair, rest : Got(ActionOf("SET_VAR", scope, pair[1], pair[2]), rest))]
UnsetReader(scope) ==
    [left \in Bytes |->
        Then(DecodeString(left), LAMBDA name, rest : Got(ActionOf("UNSET_VAR", scope, name, None), rest))]
NothingReader == [left \in Bytes |-> Malformed]
ArgsReader(head) ==
    IF head[1] = 1 /\ head[2] = 3 /\ head[3] \in ActionScope THEN SetReader(head[3])
    ELSE IF head[1] = 2 /\ head[2] = 2 /\ head[3] \in ActionScope THEN UnsetReader(head[3])
    ELSE NothingReader

LEMMA HeadAndArgs ==
    ASSUME NEW bytes, NEW head, NEW rest, ~(Len(bytes) < 3), rest = SubSeq(bytes, 4, Len(bytes)),
           rest \in Bytes, bytes[1] = head[1], bytes[2] = head[2], bytes[3] = head[3]
    PROVE  DecodeAction(bytes) = ArgsReader(head)[rest]
<1> DEFINE types == {t \in DOMAIN ActionType : ActionType[t] = bytes[1]}
           type == CHOOSE t \in types : TRUE
           scope == bytes[3]
           bad == \/ types = {}
                  \/ scope \notin ActionScope
                  \/ bytes[2] # ActionNBArgs[type]
<1>1. DecodeAction(bytes) =
          IF bad THEN Malformed
          ELSE IF type = "SET_VAR"
          THEN Then(DecodePair(rest), LAMBDA pair, left : Got(ActionOf(type, scope, pair[1], pair[2]), left))
          ELSE Then(DecodeString(rest), LAMBDA name, left : Got(ActionOf(type, scope, name, None), left))
  BY DEF DecodeAction, ActionOf
<1>2. CASE bytes[1] = 1
  <2>1. types = {"SET_VAR"}
    BY <1>2, ActionTypes
  <2>2. type = "SET_VAR"
    <3> HIDE DEF types
    <3>. QED BY <2>1, ChooseOnly
  <2> HIDE DEF type
  <2>3. bad <=> ~(scope \in ActionScope /\ bytes[2] = 3)
    BY <2>1, <2>2 DEF ActionNBArgs
  <2> HIDE DEF bad
  <2>4. CASE bad
    <3>1. ArgsReader(head) = NothingReader
      BY <1>2, <2>3, <2>4 DEF ArgsReader
    <3>. QED BY <1>1, <2>4, <3>1 DEF NothingReader
  <2>5. CASE ~bad
    <3>1. ArgsReader(head) = SetReader(scope)
      BY <1>2, <2>3, <2>5 DEF ArgsReader
    <3>. QED BY <1>1, <2>2, <2>5, <3>1 DEF SetReader, Then
  <2>. QED BY <2>4, <2>5
<1>3. CASE bytes[1] = 2
  <2>1. types = {"UNSET_VAR"}
    BY <1>3, ActionTypes
  <2>2. type = "UNSET_VAR"
    <3> HIDE DEF types
    <3>. QED BY <2>1, ChooseOnly
  <2> HIDE DEF type
  <2>3. bad <=> ~(scope \in ActionScope /\ bytes[2] = 2)
    BY <2>1, <2>2 DEF ActionNBArgs
  <2> HIDE DEF bad
  <2>4. CASE bad
    <3>1. ArgsReader(head) = NothingReader
      BY <1>3, <2>3, <2>4 DEF ArgsReader
    <3>. QED BY <1>1, <2>4, <3>1 DEF NothingReader
  <2>5. CASE ~bad
    <3>1. ArgsReader(head) = UnsetReader(scope)
      BY <1>3, <2>3, <2>5 DEF ArgsReader
    <3>. QED BY <1>1, <2>2, <2>5, <3>1 DEF UnsetReader, Then
  <2>. QED BY <2>4, <2>5
<1>4. CASE bytes[1] \notin {1, 2}
  <2>1. bad
    BY <1>4, ActionTypes
  <2>2. ArgsReader(head) = NothingReader
    BY <1>4 DEF ArgsReader
  <2> HIDE DEF bad
  <2>. QED BY <1>1, <2>1, <2>2 DEF NothingReader
<1>. QED BY <1>2, <1>3, <1>4

LEMMA ActionFacts ==
    /\ \A scope \in ActionScope, name \in Seq(Nat), value \in Value :
           /\ ActionOf("SET_VAR", scope, name, value) \in Action
           /\ ActionOf("UNSET_VAR", scope, name, None) \in Action
    /\ \A action \in Action :
           /\ action.scope \in ActionScope /\ action.name \in Seq(Nat) /\ action.value \in Value
           /\ \/ action = ActionOf("SET_VAR", action.scope, action.name, action.value)
              \/ action = ActionOf("UNSET_VAR", action.scope, action.name, None)
<1>1. None \in Value
  BY ValueFacts
<1>2. DOMAIN ActionType = {"SET_VAR", "UNSET_VAR"}
  BY DEF ActionType
<1>3. ASSUME NEW scope \in ActionScope, NEW name \in Seq(Nat), NEW value \in Value
      PROVE  /\ ActionOf("SET_VAR", scope, name, value) \in Action
             /\ ActionOf("UNSET_VAR", scope, name, None) \in Action
  BY <1>1, <1>2 DEF Action, ActionOf
<1>4. ASSUME NEW action \in Action
      PROVE  /\ action.scope \in ActionScope /\ action.name \in Seq(Nat) /\ action.value \in Value
             /\ \/ action = ActionOf("SET_VAR", action.scope, action.name, action.value)
                \/ action = ActionOf("UNSET_VAR", action.scope, action.name, None)
  <2>1. action \in [type : {"SET_VAR", "UNSET_VAR"}, scope : ActionScope, name : Seq(Nat), value : Value]
        /\ (action.type = "UNSET_VAR" => action.value = None)
    BY <1>2 DEF Action
  <2>. QED BY <2>1 DEF ActionOf
<1>. QED BY <1>3, <1>4

LEMMA ArgsReads ==
    \A scope \in ActionScope :
        /\ Reads(SetReader(scope), Action, 1)
        /\ Reads(UnsetReader(scope), Action, 1)
        /\ \A pair \in Pair : \A bytes : Carries(PairReader, bytes, pair) =>
               Carries(SetReader(scope), bytes, ActionOf("SET_VAR", scope, pair[1], pair[2]))
        /\ \A name \in Bytes : \A bytes : Carries(BinaryReader, bytes, name) =>
               Carries(UnsetReader(scope), bytes, ActionOf("UNSET_VAR", scope, name, None))
<1> SUFFICES ASSUME NEW scope \in ActionScope
             PROVE  /\ Reads(SetReader(scope), Action, 1)
                    /\ Reads(UnsetReader(scope), Action, 1)
                    /\ \A pair \in Pair : \A bytes : Carries(PairReader, bytes, pair) =>
                           Carries(SetReader(scope), bytes, ActionOf("SET_VAR", scope, pair[1], pair[2]))
                    /\ \A name \in Bytes : \A bytes : Carries(BinaryReader, bytes, name) =>
                           Carries(UnsetReader(scope), bytes, ActionOf("UNSET_VAR", scope, name, None))
  OBVIOUS
<1> DEFINE f == [pair \in Pair |-> ActionOf("SET_VAR", scope, pair[1], pair[2])]
           g == [name \in Bytes |-> ActionOf("UNSET_VAR", scope, name, None)]
<1>1. \A pair \in Pair : f[pair] \in Action /\ f[pair] = ActionOf("SET_VAR", scope, pair[1], pair[2])
  <2> SUFFICES ASSUME NEW pair \in Pair PROVE ActionOf("SET_VAR", scope, pair[1], pair[2]) \in Action
    OBVIOUS
  <2>1. pair[1] \in Seq(Nat) /\ pair[2] \in Value
    BY DEF Pair
  <2>. QED BY <2>1, ActionFacts
<1>2. \A name \in Bytes : g[name] \in Action /\ g[name] = ActionOf("UNSET_VAR", scope, name, None)
  BY ActionFacts, StringFacts, ValueFacts
<1>3. ASSUME NEW bytes \in Bytes
      PROVE  SetReader(scope)[bytes] = IF PairReader[bytes].ok
                 THEN Got(f[PairReader[bytes].value], PairReader[bytes].rest) ELSE PairReader[bytes]
  <2>1. PairReader[bytes].ok => PairReader[bytes].value \in Pair
    BY PairReads, GotFacts DEF Reads, ReadsAt
  <2>2. SetReader(scope)[bytes] = IF PairReader[bytes].ok
            THEN Got(ActionOf("SET_VAR", scope, PairReader[bytes].value[1], PairReader[bytes].value[2]),
                     PairReader[bytes].rest)
            ELSE PairReader[bytes]
    BY DEF SetReader, Then, PairReader
  <2> HIDE DEF f
  <2>. QED BY <1>1, <2>1, <2>2
<1>4. ASSUME NEW bytes \in Bytes
      PROVE  UnsetReader(scope)[bytes] = IF BinaryReader[bytes].ok
                 THEN Got(g[BinaryReader[bytes].value], BinaryReader[bytes].rest) ELSE BinaryReader[bytes]
  <2>1. BinaryReader[bytes].ok => BinaryReader[bytes].value \in Bytes
    BY BinaryReads, GotFacts DEF Reads, ReadsAt
  <2>2. UnsetReader(scope)[bytes] = IF BinaryReader[bytes].ok
            THEN Got(ActionOf("UNSET_VAR", scope, BinaryReader[bytes].value, None), BinaryReader[bytes].rest)
            ELSE BinaryReader[bytes]
    BY DEF UnsetReader, Then, BinaryReader, DecodeString
  <2> HIDE DEF g
  <2>. QED BY <1>2, <2>1, <2>2
<1> HIDE DEF f, g
<1>5. Reads(SetReader(scope), Action, 1)
  BY <1>1, <1>3, PairReads, ReadsMap
<1>6. Reads(UnsetReader(scope), Action, 1)
  BY <1>2, <1>4, BinaryReads, ReadsMap
<1>7. ASSUME NEW pair \in Pair, NEW bytes, Carries(PairReader, bytes, pair)
      PROVE  Carries(SetReader(scope), bytes, ActionOf("SET_VAR", scope, pair[1], pair[2]))
  <2>1. Carries(SetReader(scope), bytes, f[pair])
    BY <1>3, <1>7, CarriesMap
  <2>. QED BY <1>1, <2>1
<1>8. ASSUME NEW name \in Bytes, NEW bytes, Carries(BinaryReader, bytes, name)
      PROVE  Carries(UnsetReader(scope), bytes, ActionOf("UNSET_VAR", scope, name, None))
  <2>1. Carries(UnsetReader(scope), bytes, g[name])
    BY <1>4, <1>8, CarriesMap
  <2>. QED BY <1>2, <2>1
<1>. QED BY <1>5, <1>6, <1>7, <1>8

\* Three bytes and what follows them.
LEMMA HeadOfThree ==
    \A bytes \in Bytes : ~(Len(bytes) < 3) =>
        LET head == SubSeq(bytes, 1, 3)
            rest == SubSeq(bytes, 4, Len(bytes))
        IN  /\ head \in BytesOf(3) /\ rest \in Bytes /\ TakeReader(3)[bytes] = Got(head, rest)
            /\ head[1] = bytes[1] /\ head[2] = bytes[2] /\ head[3] = bytes[3]
<1> SUFFICES ASSUME NEW bytes \in Bytes, ~(Len(bytes) < 3)
             PROVE  LET head == SubSeq(bytes, 1, 3)
                        rest == SubSeq(bytes, 4, Len(bytes))
                    IN  /\ head \in BytesOf(3) /\ rest \in Bytes /\ TakeReader(3)[bytes] = Got(head, rest)
                        /\ head[1] = bytes[1] /\ head[2] = bytes[2] /\ head[3] = bytes[3]
  OBVIOUS
<1>1. Len(bytes) \in Nat /\ 3 <= Len(bytes) /\ 3 + 1 = 4
  BY BytesFacts
<1>2. SubSeq(bytes, 1, 3) \in BytesOf(3) /\ SubSeq(bytes, 4, Len(bytes)) \in Bytes
  BY <1>1, BytesCut
<1>3. TakeReader(3)[bytes] = Got(SubSeq(bytes, 1, 3), SubSeq(bytes, 4, Len(bytes)))
  BY <1>1 DEF TakeReader, Take
<1>4. \A i \in 1 .. 3 : SubSeq(bytes, 1, 3)[i] = bytes[i]
  <2>1. bytes \in Seq(Byte) /\ \A i \in 1 .. 3 : bytes[i] \in Byte
    BY <1>1 DEF Bytes
  <2>2. \A i \in 1 .. (3 - 1 + 1) : SubSeq(bytes, 1, 3)[i] = bytes[1 + i - 1]
    BY <1>1, <2>1, SubSeqProperties
  <2>. QED BY <2>2
<1>. QED BY <1>2, <1>3, <1>4

\* One action: what is read is an action, and an encoded one is read again.
LEMMA ActionReads ==
    /\ Reads(ActionReader, Action, 1)
    /\ \A action \in Action : ActionEncodes(action) =>
           Carries(ActionReader, ComposeAction(action), action)
<1> DEFINE second == [head \in BytesOf(3) |-> ArgsReader(head)]
           D == Chain(TakeReader(3), second)
<1>1. ASSUME NEW bytes \in Bytes PROVE ActionReader[bytes] = D[bytes]
  <2> HIDE DEF second
  <2>1. D[bytes] = IF TakeReader(3)[bytes].ok
                   THEN second[TakeReader(3)[bytes].value][TakeReader(3)[bytes].rest] ELSE TakeReader(3)[bytes]
    BY DEF Chain
  <2> HIDE DEF D
  <2>2. ActionReader[bytes] = DecodeAction(bytes)
    BY DEF ActionReader
  <2>3. CASE Len(bytes) < 3
    <3>1. TakeReader(3)[bytes] = Malformed /\ DecodeAction(bytes) = Malformed
      BY <2>3 DEF TakeReader, Take, DecodeAction
    <3>. QED BY <2>1, <2>2, <3>1, GotFacts
  <2>4. CASE ~(Len(bytes) < 3)
    <3> DEFINE head == SubSeq(bytes, 1, 3)
               rest == SubSeq(bytes, 4, Len(bytes))
               result == TakeReader(3)[bytes]
    <3>1. /\ head \in BytesOf(3) /\ rest \in Bytes /\ result = Got(head, rest)
          /\ bytes[1] = head[1] /\ bytes[2] = head[2] /\ bytes[3] = head[3]
      BY <2>4, HeadOfThree
    <3>2. rest = SubSeq(bytes, 4, Len(bytes))
      OBVIOUS
    <3> HIDE DEF head, rest
    <3>3. DecodeAction(bytes) = ArgsReader(head)[rest]
      BY <2>4, <3>1, <3>2, HeadAndArgs
    <3>4. result.ok /\ result.value = head /\ result.rest = rest
      BY <3>1 DEF Got
    <3>5. second[head] = ArgsReader(head)
      BY <3>1 DEF second
    <3>. QED BY <2>1, <2>2, <3>3, <3>4, <3>5
  <2>. QED BY <2>3, <2>4
<1>2. ActionReader = D
  <2>1. D = [bytes \in Bytes |-> D[bytes]] /\ ActionReader = [bytes \in Bytes |-> ActionReader[bytes]]
    <3> HIDE DEF second
    <3>. QED BY DEF Chain, ActionReader
  <2> HIDE DEF D
  <2>. QED BY <1>1, <2>1
<1>3. ASSUME NEW head \in BytesOf(3) PROVE Reads(second[head], Action, 0)
  <2>1. second[head] = ArgsReader(head)
    OBVIOUS
  <2>2. \/ head[3] \in ActionScope /\ ArgsReader(head) \in {SetReader(head[3]), UnsetReader(head[3])}
        \/ ArgsReader(head) = NothingReader
    BY DEF ArgsReader
  <2>3. Reads(NothingReader, Action, 0)
    BY ReadsNothing DEF NothingReader
  <2>4. \A scope \in ActionScope : Reads(SetReader(scope), Action, 0) /\ Reads(UnsetReader(scope), Action, 0)
    BY ArgsReads, ReadsLess
  <2>. QED BY <2>1, <2>2, <2>3, <2>4
<1>4. Reads(D, Action, 1)
  <2> HIDE DEF second
  <2>1. Reads(D, Action, 3)
    BY <1>3, TakeReads, ChainReads
  <2> HIDE DEF D
  <2>. QED BY <2>1, ReadsLess
<1>5. ASSUME NEW action \in Action, ActionEncodes(action)
      PROVE  Carries(D, ComposeAction(action), action)
  <2> DEFINE scope == action.scope
             name == action.name
             value == action.value
             head == <<ActionType[action.type], ActionNBArgs[action.type], scope>>
  <2>1. /\ scope \in ActionScope /\ name \in Seq(Nat) /\ value \in Value
        /\ \/ action = ActionOf("SET_VAR", scope, name, value)
           \/ action = ActionOf("UNSET_VAR", scope, name, None)
    BY ActionFacts
  <2>2. name \in Bytes /\ VarEncodes(value)
    BY <1>5, <2>1, StringFacts DEF ActionEncodes
  <2>3. action.type \in {"SET_VAR", "UNSET_VAR"}
    BY <2>1 DEF ActionOf
  <2>4. /\ head[1] = ActionType[action.type] /\ head[2] = ActionNBArgs[action.type] /\ head[3] = scope
        /\ Len(head) = 3
    OBVIOUS
  <2>5. head \in Bytes
    <3>1. ActionType["SET_VAR"] = 1 /\ ActionType["UNSET_VAR"] = 2
          /\ ActionNBArgs["SET_VAR"] = 3 /\ ActionNBArgs["UNSET_VAR"] = 2
      BY DEF ActionType, ActionNBArgs
    <3>2. 1 \in Byte /\ 2 \in Byte /\ 3 \in Byte /\ scope \in Byte
      BY <2>1 DEF ActionScope, Byte
    <3> HIDE DEF scope
    <3>3. ActionType[action.type] \in Byte /\ ActionNBArgs[action.type] \in Byte /\ scope \in Byte
      BY <2>3, <3>1, <3>2
    <3>. QED BY <3>3 DEF Bytes
  <2>6. Carries(TakeReader(3), head, head) /\ head \in BytesOf(3)
    BY <2>4, <2>5, TakeReads DEF BytesOf
  <2>7. Carries(BinaryReader, ComposeBinary(name), name) /\ ComposeBinary(name) \in Bytes
    BY <2>2, BinaryReads DEF Carries
  <2>8. \A args : Carries(second[head], args, action) => Carries(D, head \o args, action)
    <3> HIDE DEF head, second
    <3>. QED BY <2>6, ChainCarries
  <2>9. CASE action = ActionOf("SET_VAR", scope, name, value)
    <3>1. action.type = "SET_VAR"
      BY <2>9 DEF ActionOf
    <3> DEFINE pair == <<name, value>>
               args == ComposeKvPair(pair)
    <3>2. pair \in Pair /\ PairEncodes(pair) /\ pair[1] = name /\ pair[2] = value
      BY <2>1, <2>2, StringFacts DEF Pair, PairEncodes
    <3>3. ArgsReader(head) = SetReader(scope)
      BY <2>1, <2>4, <3>1 DEF ArgsReader, ActionType, ActionNBArgs
    <3>4. second[head] = SetReader(scope)
      <4> HIDE DEF head
      <4>. QED BY <2>6, <3>3
    <3>5. ComposeAction(action) = (head \o EncodeString(name)) \o EncodeVar(value)
      BY <3>1 DEF ComposeAction
    <3>6. args = EncodeString(name) \o EncodeVar(value)
      BY <3>2 DEF ComposeKvPair
    <3>7. EncodeVar(value) \in Bytes
      BY <2>1, <2>2, VarCarries DEF Carries
    <3> HIDE DEF head, second, D
    <3>8. ComposeAction(action) = head \o args
      <4> DEFINE a == EncodeString(name)
                 b == EncodeVar(value)
      <4>1. a \in Bytes /\ b \in Bytes /\ ComposeAction(action) = (head \o a) \o b /\ args = a \o b
        BY <2>7, <3>5, <3>6, <3>7 DEF EncodeString
      <4> HIDE DEF a, b, args
      <4>. QED BY <2>5, <4>1, BytesAssociate
    <3> HIDE DEF pair, args, scope, name, value
    <3>9. Carries(PairReader, args, pair)
      BY <3>2, PairReads DEF args
    <3>10. Carries(SetReader(scope), args, action)
      BY <2>1, <2>9, <3>2, <3>9, ArgsReads
    <3>. QED BY <2>8, <3>4, <3>8, <3>10
  <2>10. CASE action = ActionOf("UNSET_VAR", scope, name, None)
    <3>1. action.type = "UNSET_VAR" /\ action.type # "SET_VAR"
      BY <2>10 DEF ActionOf
    <3> DEFINE args == ComposeBinary(name)
    <3>2. ArgsReader(head) = UnsetReader(scope)
      BY <2>1, <2>4, <3>1 DEF ArgsReader, ActionType, ActionNBArgs
    <3>3. second[head] = UnsetReader(scope)
      <4> HIDE DEF head
      <4>. QED BY <2>6, <3>2
    <3>4. ComposeAction(action) = (head \o EncodeString(name)) \o <<>>
      BY <3>1 DEF ComposeAction
    <3> HIDE DEF head, second, D
    <3>5. ComposeAction(action) = head \o args
      <4>1. head \o args \in Bytes
        BY <2>5, <2>7, BytesConcat
      <4>. QED BY <3>4, <4>1, BytesConcat DEF EncodeString
    <3> HIDE DEF args, scope, name, value
    <3>6. Carries(UnsetReader(scope), args, action)
      BY <2>1, <2>2, <2>7, <2>10, ArgsReads DEF args
    <3>. QED BY <2>8, <3>3, <3>5, <3>6
  <2>. QED BY <2>1, <2>9, <2>10
<1> HIDE DEF D
<1>. QED BY <1>2, <1>4, <1>5

-----------------------------------------------------------------------------
(* Metadata *)

Long == DataType.INT64
MetaOf(flags, stream, frame_) ==
    [fin |-> flags[4] % 2 = 1, abort |-> (flags[4] \div 2) % 2 = 1, stream |-> stream, frame |-> frame_]
FrameIdReader(flags, stream) ==
    [rest \in Bytes |->
        Then(DecodeInt(Long, rest), LAMBDA id, left : Got(MetaOf(flags, stream, id), left))]
StreamIdReader(flags) == Chain(IntReader(Long), [stream \in Id |-> FrameIdReader(flags, stream)])
MetaReader == [left \in Bytes |-> DecodeMetadata(left)]

LEMMA IdFacts ==
    /\ Long \in IntTypes /\ Id = InType(Long)
    /\ \A n \in Id : 0 <= n => Encoded(Long, n) = ComposeVarint(n)
<1>1. Long \in IntTypes /\ Id = InType(Long) /\ Half(Long) = LargeHalf /\ Greatest(Long) = LargeHalf - 1
  BY DEF Long, IntTypes, Id, InType, Half, DataType, Greatest, IsSigned
<1>2. ASSUME NEW n \in Id, 0 <= n PROVE n % (2 * Half(Long)) = n
  <2>1. n \in Int /\ n <= LargeHalf - 1 /\ LargeHalf \in Nat
    BY <1>1, WidthAssumption DEF InType, InRange
  <2> DEFINE d == 2 * LargeHalf
  <2>2. n < d /\ d \in Nat
    BY <2>1, <1>2
  <2> HIDE DEF d
  <2>3. n % d = n
    BY <1>2, <2>1, <2>2, ModFacts
  <2>. QED BY <1>1, <2>3 DEF d
<1>. QED BY <1>1, <1>2 DEF Encoded

LEMMA FrameIdReads ==
    \A flags \in BytesOf(4), stream \in Id :
        /\ Reads(FrameIdReader(flags, stream), MetaData, 1)
        /\ \A id \in Id : \A bytes : Carries(IntReader(Long), bytes, id) =>
               Carries(FrameIdReader(flags, stream), bytes, MetaOf(flags, stream, id))
<1> SUFFICES ASSUME NEW flags \in BytesOf(4), NEW stream \in Id
             PROVE  /\ Reads(FrameIdReader(flags, stream), MetaData, 1)
                    /\ \A id \in Id : \A bytes : Carries(IntReader(Long), bytes, id) =>
                           Carries(FrameIdReader(flags, stream), bytes, MetaOf(flags, stream, id))
  OBVIOUS
<1> DEFINE f == [id \in Id |-> MetaOf(flags, stream, id)]
<1>1. \A id \in Id : f[id] \in MetaData /\ f[id] = MetaOf(flags, stream, id)
  BY DEF MetaData, MetaOf
<1>2. Reads(IntReader(Long), Id, 1)
  BY IdFacts, IntReads
<1>3. ASSUME NEW bytes \in Bytes
      PROVE  FrameIdReader(flags, stream)[bytes] = IF IntReader(Long)[bytes].ok
                 THEN Got(f[IntReader(Long)[bytes].value], IntReader(Long)[bytes].rest) ELSE IntReader(Long)[bytes]
  <2>1. IntReader(Long)[bytes].ok => IntReader(Long)[bytes].value \in Id
    BY <1>2, GotFacts DEF Reads, ReadsAt
  <2>2. FrameIdReader(flags, stream)[bytes] = IF IntReader(Long)[bytes].ok
            THEN Got(MetaOf(flags, stream, IntReader(Long)[bytes].value), IntReader(Long)[bytes].rest)
            ELSE IntReader(Long)[bytes]
    BY DEF FrameIdReader, Then, IntReader
  <2> HIDE DEF f
  <2>. QED BY <1>1, <2>1, <2>2
<1> HIDE DEF f
<1>4. Reads(FrameIdReader(flags, stream), MetaData, 1)
  BY <1>1, <1>2, <1>3, ReadsMap
<1>5. ASSUME NEW id \in Id, NEW bytes, Carries(IntReader(Long), bytes, id)
      PROVE  Carries(FrameIdReader(flags, stream), bytes, MetaOf(flags, stream, id))
  <2>1. Carries(FrameIdReader(flags, stream), bytes, f[id])
    BY <1>3, <1>5, CarriesMap
  <2>. QED BY <1>1, <2>1
<1>. QED BY <1>4, <1>5

LEMMA StreamIdReads ==
    \A flags \in BytesOf(4) :
        /\ Reads(StreamIdReader(flags), MetaData, 1)
        /\ \A stream, id \in Id : \A a, b :
               Carries(IntReader(Long), a, stream) /\ Carries(IntReader(Long), b, id) =>
                   Carries(StreamIdReader(flags), a \o b, MetaOf(flags, stream, id))
<1> SUFFICES ASSUME NEW flags \in BytesOf(4)
             PROVE  /\ Reads(StreamIdReader(flags), MetaData, 1)
                    /\ \A stream, id \in Id : \A a, b :
                           Carries(IntReader(Long), a, stream) /\ Carries(IntReader(Long), b, id) =>
                               Carries(StreamIdReader(flags), a \o b, MetaOf(flags, stream, id))
  OBVIOUS
<1> DEFINE second == [stream \in Id |-> FrameIdReader(flags, stream)]
<1>1. \A stream \in Id : second[stream] = FrameIdReader(flags, stream)
  OBVIOUS
<1>2. StreamIdReader(flags) = Chain(IntReader(Long), second)
  BY DEF StreamIdReader
<1> HIDE DEF second
<1>3. Reads(IntReader(Long), Id, 1)
  BY IdFacts, IntReads
<1>4. \A stream \in Id : Reads(second[stream], MetaData, 1)
  BY <1>1, FrameIdReads
<1>5. Reads(Chain(IntReader(Long), second), MetaData, 1)
  BY <1>3, <1>4, ChainReads
<1>6. ASSUME NEW stream \in Id, NEW id \in Id, NEW a, NEW b,
             Carries(IntReader(Long), a, stream), Carries(IntReader(Long), b, id)
      PROVE  Carries(StreamIdReader(flags), a \o b, MetaOf(flags, stream, id))
  <2>1. Carries(second[stream], b, MetaOf(flags, stream, id))
    BY <1>1, <1>6, FrameIdReads
  <2>. QED BY <1>2, <1>6, <2>1, ChainCarries
<1>. QED BY <1>2, <1>5, <1>6

\* decode_metadata: four flag bytes and two ids.
LEMMA MetaReads ==
    /\ Reads(MetaReader, MetaData, 1)
    /\ \A meta \in MetaData : MetadataEncodes(meta) => Carries(MetaReader, EncodeMetadata(meta), meta)
<1> DEFINE second == [flags \in BytesOf(4) |-> StreamIdReader(flags)]
           D == Chain(TakeReader(4), second)
<1>1. ASSUME NEW bytes \in Bytes PROVE MetaReader[bytes] = D[bytes]
  <2> DEFINE result == TakeReader(4)[bytes]
             flags == result.value
             ids == result.rest
  <2>1. D[bytes] = IF result.ok THEN second[flags][ids] ELSE result
    <3> HIDE DEF second
    <3>. QED BY DEF Chain
  <2>2. MetaReader[bytes] = IF result.ok
            THEN Then(DecodeInt(Long, ids), LAMBDA stream, rest :
                     Then(DecodeInt(Long, rest), LAMBDA id, left : Got(MetaOf(flags, stream, id), left)))
            ELSE result
    BY DEF MetaReader, DecodeMetadata, Then, TakeReader, MetaOf, Long
  <2> HIDE DEF D
  <2>3. CASE ~result.ok
    BY <2>1, <2>2, <2>3
  <2>4. CASE result.ok
    <3>1. flags \in BytesOf(4) /\ ids \in Bytes
      <4>1. \E v \in BytesOf(4), rest \in Bytes : result = Got(v, rest)
        BY <2>4, GotFacts, TakeReads DEF Reads, ReadsAt
      <4>. QED BY <4>1 DEF Got
    <3> DEFINE first == IntReader(Long)[ids]
    <3>2. second[flags] = StreamIdReader(flags)
      <4> HIDE DEF flags, ids, result
      <4>. QED BY <3>1
    <3>3. D[bytes] = StreamIdReader(flags)[ids]
      <4> HIDE DEF second, flags, ids, result
      <4>. QED BY <2>1, <2>4, <3>2
    <3> HIDE DEF second, flags, ids, result
    <3>4. D[bytes] = IF first.ok THEN [stream \in Id |-> FrameIdReader(flags, stream)][first.value][first.rest] ELSE first
      <4>1. StreamIdReader(flags)[ids] = IF first.ok THEN [stream \in Id |-> FrameIdReader(flags, stream)][first.value][first.rest] ELSE first
        BY <3>1 DEF StreamIdReader, Chain
      <4>. QED BY <3>3, <4>1
    <3>5. first.ok => first.value \in Id /\ first.rest \in Bytes
      <4>1. first.ok => \E v \in Id, rest \in Bytes : first = Got(v, rest)
        BY <3>1, GotFacts, IntReads, IdFacts DEF Reads, ReadsAt
      <4> HIDE DEF first
      <4>. QED BY <4>1 DEF Got
    <3>6. first.ok => D[bytes] = Then(DecodeInt(Long, first.rest), LAMBDA id, left : Got(MetaOf(flags, first.value, id), left))
      <4> HIDE DEF first
      <4>. QED BY <3>4, <3>5 DEF FrameIdReader
    <3>7. MetaReader[bytes] = IF first.ok
              THEN Then(DecodeInt(Long, first.rest), LAMBDA id, left : Got(MetaOf(flags, first.value, id), left))
              ELSE first
      BY <2>2, <2>4, <3>1 DEF Then, IntReader
    <3> HIDE DEF first
    <3>. QED BY <3>4, <3>6, <3>7
  <2>. QED BY <2>3, <2>4
<1>2. MetaReader = D
  <2>1. D = [bytes \in Bytes |-> D[bytes]] /\ MetaReader = [bytes \in Bytes |-> MetaReader[bytes]]
    <3> HIDE DEF second
    <3>. QED BY DEF Chain, MetaReader
  <2> HIDE DEF D
  <2>. QED BY <1>1, <2>1
<1>3. \A flags \in BytesOf(4) : second[flags] = StreamIdReader(flags)
  OBVIOUS
<1>4. \A flags \in BytesOf(4) : Reads(second[flags], MetaData, 1)
  BY <1>3, StreamIdReads
<1> HIDE DEF second
<1>5. Reads(D, MetaData, 1)
  <2>1. Reads(D, MetaData, 4)
    BY <1>4, TakeReads, ChainReads
  <2> HIDE DEF D
  <2>. QED BY <2>1, ReadsLess
<1>6. ASSUME NEW meta \in MetaData, MetadataEncodes(meta) PROVE Carries(D, EncodeMetadata(meta), meta)
  <2> DEFINE low == (IF meta.fin THEN 1 ELSE 0) + (IF meta.abort THEN 2 ELSE 0)
             flags == <<0, 0, 0, low>>
             a == ComposeVarint(meta.stream)
             b == ComposeVarint(meta.frame)
  <2>1. /\ meta.fin \in BOOLEAN /\ meta.abort \in BOOLEAN /\ meta.stream \in Id /\ meta.frame \in Id
        /\ meta = [fin |-> meta.fin, abort |-> meta.abort, stream |-> meta.stream, frame |-> meta.frame]
    BY DEF MetaData
  <2>2. low \in 0 .. 3 /\ (low % 2 = 1 <=> meta.fin) /\ ((low \div 2) % 2 = 1 <=> meta.abort)
    <3>1. CASE meta.fin /\ meta.abort
      BY <3>1
    <3>2. CASE meta.fin /\ ~meta.abort
      BY <3>2
    <3>3. CASE ~meta.fin /\ meta.abort
      BY <3>3
    <3>4. CASE ~meta.fin /\ ~meta.abort
      BY <3>4
    <3>. QED BY <3>1, <3>2, <3>3, <3>4
  <2> HIDE DEF low
  <2>3. flags \in BytesOf(4) /\ flags \in Bytes /\ Len(flags) = 4 /\ flags[4] = low
    <3>1. low \in Byte /\ 0 \in Byte
      BY <2>2 DEF Byte
    <3>. QED BY <3>1 DEF Bytes, BytesOf
  <2> HIDE DEF flags
  <2>4. MetaOf(flags, meta.stream, meta.frame) = meta
    <3>1. (low % 2 = 1) = meta.fin /\ ((low \div 2) % 2 = 1) = meta.abort
      BY <2>1, <2>2
    <3> DEFINE x == (low % 2 = 1)
               y == ((low \div 2) % 2 = 1)
    <3>2. MetaOf(flags, meta.stream, meta.frame) = [fin |-> x, abort |-> y, stream |-> meta.stream, frame |-> meta.frame]
      BY <2>3 DEF MetaOf
    <3> HIDE DEF x, y
    <3>. QED BY <2>1, <3>1, <3>2 DEF x, y
  <2>5. Carries(IntReader(Long), a, meta.stream) /\ Carries(IntReader(Long), b, meta.frame)
    <3>1. 0 <= meta.stream /\ 0 <= meta.frame
      BY <1>6, <2>1 DEF MetadataEncodes, Id
    <3>. QED BY <2>1, <3>1, IdFacts, IntReads
  <2>6. EncodeMetadata(meta) = (flags \o a) \o b
    BY DEF EncodeMetadata, flags, low
  <2> HIDE DEF a, b
  <2>7. Carries(StreamIdReader(flags), a \o b, meta)
    BY <2>1, <2>3, <2>4, <2>5, StreamIdReads
  <2>8. Carries(TakeReader(4), flags, flags)
    BY <2>3, TakeReads
  <2>9. Carries(D, flags \o (a \o b), meta)
    BY <1>3, <2>3, <2>7, <2>8, ChainCarries
  <2>10. (flags \o a) \o b = flags \o (a \o b)
    BY <2>3, <2>5, BytesAssociate DEF Carries
  <2>. QED BY <2>6, <2>9, <2>10
<1> HIDE DEF D
<1>. QED BY <1>2, <1>5, <1>6

-----------------------------------------------------------------------------
(* Lists of names in a string *)

Text == Seq(Nat)

LEMMA LeastGreatest ==
    ASSUME NEW n \in Nat, NEW T, T \subseteq 1 .. n, T # {}
    PROVE  /\ Min(T) \in T /\ \A x \in T : Min(T) <= x
           /\ Max(T) \in T /\ \A x \in T : x <= Max(T)
<1>0. T \subseteq Nat /\ \A x \in T : x \in Nat /\ n - x \in Nat
  <2>1. \A x \in 1 .. n : x \in Nat /\ n - x \in Nat
    OBVIOUS
  <2>. QED BY <2>1
<1>1. \E x \in T : \A y \in T : x <= y
  BY <1>0, LeastElement
<1>2. Min(T) \in T /\ \A x \in T : Min(T) <= x
  BY <1>1 DEF Min
<1> DEFINE U == {n - x : x \in T}
<1>3. U \subseteq Nat /\ U # {}
  BY <1>0
<1>4. PICK u \in U : \A v \in U : u <= v
  <2> HIDE DEF U
  <2>. QED BY <1>3, LeastElement
<1>5. PICK x \in T : u = n - x
  BY <1>4
<1>6. ASSUME NEW y \in T PROVE x >= y
  <2>1. n - y \in U
    OBVIOUS
  <2>2. n - x <= n - y
    <3> HIDE DEF U
    <3>. QED BY <1>4, <1>5, <2>1
  <2>3. x \in Nat /\ y \in Nat
    BY <1>0
  <2>. QED BY <2>2, <2>3
<1>7. \E z \in T : \A y \in T : z >= y
  BY <1>6
<1>8. Max(T) \in T /\ \A y \in T : Max(T) >= y
  BY <1>7 DEF Max
<1>9. Max(T) \in Nat /\ \A y \in T : y \in Nat
  BY <1>0, <1>8
<1>10. \A y \in T : y <= Max(T)
  BY <1>8, <1>9
<1>. QED BY <1>2, <1>8, <1>10

\* What str.strip leaves: a part of the string that it leaves as it is.
LEMMA StripFacts ==
    ASSUME NEW s \in Text
    PROVE  /\ Strip(s) \in Text /\ Strip(Strip(s)) = Strip(s)
           /\ \A i \in DOMAIN Strip(s) : \E j \in DOMAIN s : Strip(s)[i] = s[j]
<1> DEFINE Solid(x) == {i \in DOMAIN x : x[i] \notin Spaces}
           a == Min(Solid(s))
           b == Max(Solid(s))
           t == SubSeq(s, a, b)
<1>1. \A x : Strip(x) = IF Solid(x) = {} THEN <<>> ELSE SubSeq(x, Min(Solid(x)), Max(Solid(x)))
  BY DEF Strip
<1>2. Len(s) \in Nat /\ DOMAIN s = 1 .. Len(s) /\ \A i \in 1 .. Len(s) : s[i] \in Nat
  BY DEF Text
<1>3. CASE Solid(s) = {}
  <2>1. Solid(<<>>) = {} /\ <<>> \in Text /\ DOMAIN <<>> = {}
    BY DEF Text
  <2> HIDE DEF Solid
  <2>2. Strip(s) = <<>> /\ Strip(<<>>) = <<>>
    BY <1>1, <1>3, <2>1
  <2>. QED BY <2>1, <2>2
<1>4. CASE Solid(s) # {}
  <2>1. Solid(s) \subseteq 1 .. Len(s)
    BY <1>2
  <2>2. /\ a \in Solid(s) /\ b \in Solid(s) /\ a <= b
    <3> HIDE DEF Solid
    <3>. QED BY <1>2, <1>4, <2>1, LeastGreatest
  <2>3. a \in 1 .. Len(s) /\ b \in 1 .. Len(s) /\ s[a] \notin Spaces /\ s[b] \notin Spaces
    <3> DEFINE A == a
               B == b
    <3>1. A \in Solid(s) /\ B \in Solid(s)
      BY <2>2
    <3> HIDE DEF A, B
    <3>2. A \in DOMAIN s /\ B \in DOMAIN s /\ s[A] \notin Spaces /\ s[B] \notin Spaces
      BY <3>1
    <3>. QED BY <1>2, <3>2 DEF A, B
  <2>4. Strip(s) = t
    <3> HIDE DEF Solid
    <3>. QED BY <1>1, <1>4
  <2> HIDE DEF a, b
  <2> DEFINE m == b - a + 1
  <2>5. m \in Nat /\ 1 <= m /\ a + m - 1 = b
    BY <2>2, <2>3, <1>2
  <2>6. t \in Text /\ Len(t) = m /\ \A i \in 1 .. m : t[i] = s[a + i - 1]
    <3>1. a \in Int /\ b \in Int /\ a <= b + 1 /\ \A i \in a .. b : s[i] \in Nat
      BY <1>2, <2>2, <2>3
    <3>2. /\ t \in Seq(Nat) /\ Len(t) = IF a <= b THEN b - a + 1 ELSE 0
          /\ \A i \in 1 .. b - a + 1 : t[i] = s[a + i - 1]
      BY <3>1, SubSeqProperties
    <3>. QED BY <2>2, <3>2 DEF Text
  <2>7. DOMAIN t = 1 .. m
    BY <2>6 DEF Text
  <2>8. \A i \in 1 .. m : a + i - 1 \in 1 .. Len(s)
    BY <1>2, <2>3, <2>5
  <2> HIDE DEF t
  <2>9. t[1] \notin Spaces /\ t[m] \notin Spaces
    <3> HIDE DEF m
    <3>1. 1 \in 1 .. m /\ m \in 1 .. m /\ a + 1 - 1 = a
      BY <2>3, <2>5
    <3>. QED BY <2>3, <2>5, <2>6, <3>1
  <2>10. Solid(t) \subseteq 1 .. m /\ 1 \in Solid(t) /\ m \in Solid(t)
    <3> HIDE DEF m
    <3>. QED BY <2>5, <2>7, <2>9
  <2>11. Min(Solid(t)) = 1 /\ Max(Solid(t)) = m
    <3> DEFINE S == Solid(t)
    <3>1. S \subseteq 1 .. m /\ 1 \in S /\ m \in S
      BY <2>10
    <3> HIDE DEF S, m
    <3>2. Min(S) \in S /\ Max(S) \in S /\ Min(S) <= 1 /\ m <= Max(S)
      BY <2>5, <3>1, LeastGreatest
    <3>3. Min(S) \in 1 .. m /\ Max(S) \in 1 .. m
      BY <3>1, <3>2
    <3>4. Min(S) = 1 /\ Max(S) = m
      BY <2>5, <3>2, <3>3
    <3>. QED BY <3>4 DEF S
  <2>12. Strip(t) = SubSeq(t, 1, m)
    <3>1. Solid(t) # {}
      BY <2>10
    <3> HIDE DEF Solid
    <3>. QED BY <1>1, <2>11, <3>1
  <2>13. SubSeq(t, 1, m) = t
    BY <2>6, SubSeqFull DEF Text
  <2>14. \A i \in DOMAIN t : \E j \in DOMAIN s : t[i] = s[j]
    BY <1>2, <2>6, <2>7, <2>8
  <2>. QED BY <2>4, <2>6, <2>12, <2>13, <2>14
<1>. QED BY <1>3, <1>4

\* The first piece of a string has no comma, and less is left behind it.
LEMMA PieceFacts ==
    ASSUME NEW s \in Text
    PROVE  /\ FirstCut(s) \in 1 .. (Len(s) + 1)
           /\ Piece(s) \in Text /\ \A i \in DOMAIN Piece(s) : Piece(s)[i] # Comma
           /\ Others(s) \in Text /\ (s # <<>> => Len(Others(s)) < Len(s))
<1> DEFINE T == {i \in DOMAIN s : s[i] = Comma} \union {Len(s) + 1}
           c == FirstCut(s)
<1>1. Len(s) \in Nat /\ DOMAIN s = 1 .. Len(s) /\ \A i \in 1 .. Len(s) : s[i] \in Nat
  BY DEF Text
<1>2. T \subseteq 1 .. (Len(s) + 1) /\ T # {} /\ Len(s) + 1 \in Nat
  BY <1>1
<1>3. c = Min(T)
  BY DEF FirstCut
<1>4. c \in T /\ \A x \in T : c <= x
  <2> HIDE DEF T, c
  <2>. QED BY <1>2, <1>3, LeastGreatest
<1>5. c \in 1 .. (Len(s) + 1)
  <2> HIDE DEF T, c
  <2>. QED BY <1>2, <1>4
<1>6. \A i \in DOMAIN s : i < c => s[i] # Comma
  <2> HIDE DEF c
  <2>1. \A i \in DOMAIN s : s[i] = Comma => i \in T
    OBVIOUS
  <2>2. \A i \in DOMAIN s : s[i] = Comma => c <= i
    <3> HIDE DEF T
    <3>. QED BY <1>4, <2>1
  <2>. QED BY <1>1, <1>5, <2>2
<1> HIDE DEF T
<1>7. Piece(s) = SubSeq(s, 1, c - 1) /\ Others(s) = SubSeq(s, c + 1, Len(s))
  BY DEF Piece, Others
<1> HIDE DEF c
<1>8. c \in Nat /\ 1 <= c /\ c <= Len(s) + 1
  BY <1>1, <1>5
<1> DEFINE p == SubSeq(s, 1, c - 1)
<1>9. p \in Seq(Nat) /\ Len(p) = c - 1 /\ \A i \in 1 .. (c - 1) : p[i] = s[i]
  <2> DEFINE n == c - 1
  <2>1. n \in Nat /\ 1 \in Int /\ n \in Int /\ 1 <= n + 1 /\ n <= Len(s)
    BY <1>1, <1>8
  <2> HIDE DEF n
  <2>2. \A i \in 1 .. n : s[i] \in Nat
    BY <1>1, <2>1
  <2>3. /\ SubSeq(s, 1, n) \in Seq(Nat) /\ Len(SubSeq(s, 1, n)) = IF 1 <= n THEN n - 1 + 1 ELSE 0
        /\ \A i \in 1 .. n - 1 + 1 : SubSeq(s, 1, n)[i] = s[1 + i - 1]
    BY <2>1, <2>2, SubSeqProperties
  <2>4. n - 1 + 1 = n /\ (~(1 <= n) => n = 0) /\ \A i \in 1 .. n : 1 + i - 1 = i
    BY <2>1
  <2>5. SubSeq(s, 1, n) \in Seq(Nat) /\ Len(SubSeq(s, 1, n)) = n /\ \A i \in 1 .. n : SubSeq(s, 1, n)[i] = s[i]
    BY <2>3, <2>4
  <2>. QED BY <2>5 DEF n
<1>10. \A i \in DOMAIN p : p[i] # Comma
  <2>1. DOMAIN p = 1 .. (c - 1)
    <3> HIDE DEF p
    <3>. QED BY <1>9
  <2>2. \A i \in 1 .. (c - 1) : i \in DOMAIN s /\ i < c
    BY <1>1, <1>8
  <2> HIDE DEF p
  <2>. QED BY <1>6, <1>9, <2>1, <2>2
<1> DEFINE o == SubSeq(s, c + 1, Len(s))
<1>11. o \in Seq(Nat) /\ Len(o) = IF c + 1 <= Len(s) THEN Len(s) - (c + 1) + 1 ELSE 0
  <2>1. c + 1 \in Int /\ Len(s) \in Int /\ \A i \in (c + 1) .. Len(s) : s[i] \in Nat
    BY <1>1, <1>8
  <2>2. c + 1 <= Len(s) + 1 => o \in Seq(Nat) /\ Len(o) = IF c + 1 <= Len(s) THEN Len(s) - (c + 1) + 1 ELSE 0
    BY <2>1, SubSeqProperties
  <2>3. CASE c + 1 <= Len(s) + 1
    BY <2>2, <2>3
  <2>4. CASE ~(c + 1 <= Len(s) + 1)
    <3>1. c + 1 > Len(s) /\ ~(c + 1 <= Len(s))
      BY <1>1, <1>8, <2>4
    <3>2. o = <<>>
      BY <2>1, <3>1, SubSeqEmpty
    <3>3. <<>> \in Seq(Nat) /\ Len(<<>>) = 0
      OBVIOUS
    <3> HIDE DEF o
    <3>. QED BY <3>1, <3>2, <3>3
  <2>. QED BY <2>3, <2>4
<1>12. s # <<>> => Len(o) < Len(s)
  <2> HIDE DEF o
  <2>1. s # <<>> => Len(s) # 0
    BY EmptySeq DEF Text
  <2> DEFINE n == Len(s)
             m == Len(o)
  <2>2. n \in Nat /\ c \in Nat /\ 1 <= c /\ m = IF c + 1 <= n THEN n - (c + 1) + 1 ELSE 0
    BY <1>1, <1>8, <1>11
  <2>3. s # <<>> => n # 0
    BY <2>1
  <2> HIDE DEF n, m
  <2>4. n # 0 => m < n
    BY <2>2
  <2>. QED BY <2>3, <2>4 DEF n, m
<1>13. Piece(s) = p /\ Others(s) = o /\ p \in Text /\ o \in Text
  BY <1>7, <1>9, <1>11 DEF Text
<1> HIDE DEF p, o
<1>. QED BY <1>5, <1>10, <1>12, <1>13 DEF c

Kept(s) == IF Strip(Piece(s)) = <<>> THEN <<>> ELSE <<Strip(Piece(s))>>

\* A piece of a string, stripped, is a name unless nothing is left of it.
LEMMA PieceKept == \A s \in Text : Kept(s) \in Seq(Name)
<1> SUFFICES ASSUME NEW s \in Text PROVE Kept(s) \in Seq(Name)
  OBVIOUS
<1> DEFINE p == Piece(s)
           t == Strip(p)
<1>1. p \in Text /\ \A i \in DOMAIN p : p[i] # Comma
  BY PieceFacts
<1> HIDE DEF p
<1>2. t \in Text /\ Strip(t) = t /\ \A i \in DOMAIN t : \E j \in DOMAIN p : t[i] = p[j]
  BY <1>1, StripFacts
<1> HIDE DEF t
<1>3. \A i \in DOMAIN t : t[i] # Comma
  BY <1>1, <1>2
<1>4. t # <<>> => t \in Name
  BY <1>2, <1>3 DEF Name, Text
<1>5. Kept(s) = IF t = <<>> THEN <<>> ELSE <<t>>
  BY DEF Kept, t, p
<1>. QED BY <1>4, <1>5

\* from_spop_list: the first piece, then the list of the others.
LEMMA FromFacts ==
    /\ FromSpopList(<<>>) = <<>>
    /\ \A s \in Text : s # <<>> => FromSpopList(s) = Kept(s) \o FromSpopList(Others(s))
    /\ \A s \in Text : FromSpopList(s) \in Seq(Name)
<1> DEFINE S == Text
           V == Seq(Name)
           stop == {<<>>}
           out == [s \in S |-> <<>>]
           next == [s \in S |-> IF s = <<>> THEN <<>> ELSE Others(s)]
           step == [p \in S \X V |-> Kept(p[1]) \o p[2]]
           measure == [s \in S |-> Len(s)]
           F(f) == [left \in S |-> IF left = <<>> THEN <<>>
                                   ELSE (IF Strip(Piece(left)) = <<>> THEN <<>> ELSE <<Strip(Piece(left))>>)
                                        \o f[Others(left)]]
           pieces == CHOOSE f : f = F(f)
<1>1. ASSUME NEW s \in S, s # <<>>
      PROVE  Others(s) \in S /\ Len(Others(s)) < Len(s) /\ Len(s) \in Nat
  BY <1>1, PieceFacts DEF Text
<1>2. /\ measure \in [S -> Nat] /\ out \in [S -> V] /\ next \in [S -> S] /\ step \in [S \X V -> V]
      /\ \A s \in S : s \notin stop => measure[next[s]] < measure[s]
  <2>1. measure \in [S -> Nat] /\ out \in [S -> V]
    BY DEF Text
  <2>2. next \in [S -> S]
    BY <1>1 DEF Text
  <2>3. step \in [S \X V -> V]
    <3> SUFFICES ASSUME NEW s \in S, NEW v \in V PROVE Kept(s) \o v \in V
      OBVIOUS
    <3>. QED BY PieceKept, ConcatProperties
  <2>4. \A s \in S : s \notin stop => measure[next[s]] < measure[s]
    BY <1>1
  <2>. QED BY <2>1, <2>2, <2>3, <2>4
<1>3. PICK g \in [S -> V] : Solves(g, S, stop, out, next, step)
  <2> HIDE DEF S, V, measure, stop, out, next, step
  <2>. QED BY <1>2, Recursion
<1>4. ASSUME NEW s \in S PROVE g[s] = IF s = <<>> THEN <<>> ELSE Kept(s) \o g[Others(s)]
  <2>1. g[s] = IF s \in stop THEN out[s] ELSE step[<<s, g[next[s]]>>]
    BY <1>3 DEF Solves
  <2>2. CASE s = <<>>
    BY <2>1, <2>2
  <2>3. CASE s # <<>>
    <3>1. s \notin stop /\ next[s] = Others(s) /\ Others(s) \in S
      BY <1>1, <2>3
    <3>2. g[Others(s)] \in V
      BY <3>1
    <3>3. step[<<s, g[Others(s)]>>] = Kept(s) \o g[Others(s)]
      <4> HIDE DEF S, V
      <4>. QED BY <2>3, <3>2
    <3>. QED BY <2>1, <2>3, <3>1, <3>3
  <2>. QED BY <2>2, <2>3
<1>5. \A f : F(f) = [left \in S |-> IF left = <<>> THEN <<>> ELSE Kept(left) \o f[Others(left)]]
  BY DEF Kept
<1> HIDE DEF F
<1>6. g = F(g)
  BY <1>4, <1>5
<1>7. pieces = F(pieces)
  BY <1>6
<1>8. \A s : FromSpopList(s) = pieces[s]
  BY DEF FromSpopList, F, Text
<1>9. \A s \in S : FromSpopList(s) = IF s = <<>> THEN <<>> ELSE Kept(s) \o FromSpopList(Others(s))
  <2>1. \A f : f = F(f) => \A s \in S : f[s] = IF s = <<>> THEN <<>> ELSE Kept(s) \o f[Others(s)]
    BY <1>5
  <2> HIDE DEF pieces, S
  <2>. QED BY <1>7, <1>8, <2>1
<1>0. <<>> \in V /\ S = Text
  OBVIOUS
<1> HIDE DEF pieces, stop, out, next, step, measure, V
<1>10. ASSUME NEW s \in Text, \A t \in Text : Len(t) < Len(s) => FromSpopList(t) \in V
       PROVE  FromSpopList(s) \in V
  <2>1. CASE s = <<>>
    BY <1>0, <1>9, <2>1
  <2>2. CASE s # <<>>
    <3>1. Others(s) \in Text /\ Len(Others(s)) < Len(s)
      BY <1>1, <2>2
    <3>2. FromSpopList(Others(s)) \in V /\ Kept(s) \in V
      BY <1>10, <3>1, PieceKept DEF V
    <3>3. FromSpopList(s) = Kept(s) \o FromSpopList(Others(s))
      BY <1>9, <2>2
    <3>. QED BY <3>2, <3>3, ConcatProperties DEF V
  <2>. QED BY <2>1, <2>2
<1>11. \A s \in Text : FromSpopList(s) \in V
  <2> DEFINE T == {s \in Text : FromSpopList(s) \in V}
  <2>1. \A s \in Text : (\A t \in Text : Len(t) < Len(s) => t \in T) => s \in T
    BY <1>10
  <2> HIDE DEF T
  <2>2. Text \subseteq T
    BY <2>1, LengthInduction DEF Text
  <2>. QED BY <2>2 DEF T
<1>12. <<>> \in Text
  BY DEF Text
<1>. QED BY <1>9, <1>11, <1>12 DEF V

\* to_spop_list: the first name and, behind a comma, the others.
LEMMA ToFacts ==
    /\ ToSpopList(<<>>) = <<>>
    /\ \A names \in Seq(Text) :
           /\ ToSpopList(names) \in Text
           /\ names # <<>> =>
                  ToSpopList(names) = IF Tail(names) = <<>> THEN Strip(Head(names))
                                      ELSE Strip(Head(names)) \o <<Comma>> \o ToSpopList(Tail(names))
<1> DEFINE S == Seq(Text)
           stop == {<<>>}
           out == [s \in S |-> <<>>]
           next == [s \in S |-> IF s = <<>> THEN <<>> ELSE Tail(s)]
           Row(s, t) == IF s = <<>> THEN <<>> ELSE IF Tail(s) = <<>> THEN Strip(Head(s))
                                                   ELSE Strip(Head(s)) \o <<Comma>> \o t
           step == [p \in S \X Text |-> Row(p[1], p[2])]
           measure == [s \in S |-> Len(s)]
           F(f) == [left \in S |-> IF left = <<>> THEN <<>>
                                   ELSE IF Tail(left) = <<>> THEN Strip(Head(left))
                                   ELSE Strip(Head(left)) \o <<Comma>> \o f[Tail(left)]]
           joined == CHOOSE f : f = F(f)
<1>1. ASSUME NEW s \in S, s # <<>>
      PROVE  /\ Head(s) \in Text /\ Tail(s) \in S
             /\ Len(Tail(s)) = Len(s) - 1 /\ Len(s) \in Nat
  BY <1>1, HeadTail
<1>2. ASSUME NEW s \in S, NEW t \in Text PROVE Row(s, t) \in Text
  <2>1. <<Comma>> \in Seq(Nat) /\ <<>> \in Seq(Nat)
    BY DEF Comma
  <2>2. s # <<>> => Strip(Head(s)) \in Seq(Nat)
    BY <1>1, StripFacts DEF Text
  <2>3. s # <<>> => Strip(Head(s)) \o <<Comma>> \in Seq(Nat)
    BY <2>1, <2>2, ConcatProperties
  <2>4. s # <<>> => (Strip(Head(s)) \o <<Comma>>) \o t \in Seq(Nat)
    BY <2>3, ConcatProperties DEF Text
  <2>. QED BY <2>1, <2>2, <2>4 DEF Text
<1>3. /\ measure \in [S -> Nat] /\ out \in [S -> Text] /\ next \in [S -> S] /\ step \in [S \X Text -> Text]
      /\ \A s \in S : s \notin stop => measure[next[s]] < measure[s]
  <2>1. measure \in [S -> Nat] /\ out \in [S -> Text]
    BY DEF Text
  <2>2. next \in [S -> S]
    BY <1>1
  <2>3. step \in [S \X Text -> Text]
    <3> HIDE DEF Row, S
    <3>. QED BY <1>2
  <2>4. \A s \in S : s \notin stop => measure[next[s]] < measure[s]
    BY <1>1
  <2>. QED BY <2>1, <2>2, <2>3, <2>4
<1>4. PICK g \in [S -> Text] : Solves(g, S, stop, out, next, step)
  <2> HIDE DEF S, measure, stop, out, next, step
  <2>. QED BY <1>3, Recursion
<1>5. ASSUME NEW s \in S PROVE g[s] = Row(s, g[Tail(s)])
  <2>1. g[s] = IF s \in stop THEN out[s] ELSE step[<<s, g[next[s]]>>]
    BY <1>4 DEF Solves
  <2>2. CASE s = <<>>
    BY <2>1, <2>2
  <2>3. CASE s # <<>>
    <3>1. s \notin stop /\ next[s] = Tail(s) /\ Tail(s) \in S
      BY <1>1, <2>3
    <3>2. g[Tail(s)] \in Text
      BY <3>1
    <3>3. step[<<s, g[Tail(s)]>>] = Row(s, g[Tail(s)])
      <4> HIDE DEF S, Row
      <4>. QED BY <3>2
    <3> HIDE DEF Row
    <3>. QED BY <2>1, <3>1, <3>3
  <2>. QED BY <2>2, <2>3
<1>6. \A f : F(f) = [left \in S |-> Row(left, f[Tail(left)])]
  OBVIOUS
<1>7. \A names : ToSpopList(names) = joined[names]
  BY DEF ToSpopList, Text
<1> HIDE DEF F, Row
<1>8. g = F(g)
  BY <1>5, <1>6
<1>9. joined = F(joined)
  BY <1>8
<1>10. \A s \in S : ToSpopList(s) = Row(s, ToSpopList(Tail(s)))
  <2>1. \A f : f = F(f) => \A s \in S : f[s] = Row(s, f[Tail(s)])
    BY <1>6
  <2> HIDE DEF joined, S
  <2>. QED BY <1>7, <1>9, <2>1
<1> HIDE DEF joined, stop, out, next, step, measure
<1>11. ASSUME NEW s \in S, \A t \in S : Len(t) < Len(s) => ToSpopList(t) \in Text
       PROVE  ToSpopList(s) \in Text
  <2>1. CASE s = <<>>
    <3>1. ToSpopList(s) = <<>>
      BY <1>10, <2>1 DEF Row
    <3>2. <<>> \in Text
      BY DEF Text
    <3>. QED BY <3>1, <3>2
  <2>2. CASE s # <<>>
    <3>1. Tail(s) \in S /\ Len(Tail(s)) < Len(s)
      BY <1>1, <2>2
    <3>2. ToSpopList(Tail(s)) \in Text
      BY <1>11, <3>1
    <3>. QED BY <1>2, <1>10, <3>2
  <2>. QED BY <2>1, <2>2
<1>12. \A s \in S : ToSpopList(s) \in Text
  <2> DEFINE T == {s \in S : ToSpopList(s) \in Text}
  <2>1. \A s \in S : (\A t \in S : Len(t) < Len(s) => t \in T) => s \in T
    BY <1>11
  <2> HIDE DEF T
  <2>2. S \subseteq T
    BY <2>1, LengthInduction
  <2>. QED BY <2>2 DEF T
<1>13. <<>> \in S
  OBVIOUS
<1>. QED BY <1>10, <1>12, <1>13 DEF Row

\* The first piece of a name, alone or with a comma and more behind it, is the name.
LEMMA PieceAlone ==
    ASSUME NEW s \in Text, \A i \in DOMAIN s : s[i] # Comma
    PROVE  Piece(s) = s /\ Others(s) = <<>>
<1>1. Len(s) \in Nat /\ DOMAIN s = 1 .. Len(s) /\ s \in Seq(Nat)
  BY DEF Text
<1>2. {i \in DOMAIN s : s[i] = Comma} \union {Len(s) + 1} = {Len(s) + 1}
  OBVIOUS
<1>3. FirstCut(s) = Len(s) + 1
  <2>1. Len(s) + 1 \in Nat /\ {Len(s) + 1} \subseteq 1 .. (Len(s) + 1)
    BY <1>1
  <2>2. Min({Len(s) + 1}) \in {Len(s) + 1}
    BY <2>1, LeastGreatest
  <2>. QED BY <1>2, <2>2 DEF FirstCut
<1>4. Piece(s) = SubSeq(s, 1, Len(s))
  <2>1. Len(s) + 1 - 1 = Len(s)
    BY <1>1
  <2>. QED BY <1>3, <2>1 DEF Piece
<1>5. Others(s) = <<>>
  <2>1. Len(s) + 1 + 1 \in Int /\ Len(s) \in Int /\ Len(s) + 1 + 1 > Len(s)
    BY <1>1
  <2>2. Others(s) = SubSeq(s, Len(s) + 1 + 1, Len(s))
    BY <1>3 DEF Others
  <2>. QED BY <2>1, <2>2, SubSeqEmpty
<1>. QED BY <1>1, <1>4, <1>5, SubSeqFull

LEMMA PieceBefore ==
    ASSUME NEW n \in Text, \A i \in DOMAIN n : n[i] # Comma, NEW rest \in Text
    PROVE  LET s == n \o <<Comma>> \o rest IN Piece(s) = n /\ Others(s) = rest /\ s \in Text /\ s # <<>>
<1> DEFINE k == Len(n)
           front == n \o <<Comma>>
           s == front \o rest
<1>1. k \in Nat /\ DOMAIN n = 1 .. k /\ n \in Seq(Nat) /\ rest \in Seq(Nat) /\ Len(rest) \in Nat
      /\ <<Comma>> \in Seq(Nat) /\ Len(<<Comma>>) = 1 /\ <<Comma>>[1] = Comma
  BY DEF Text, Comma
<1>2. /\ front \in Seq(Nat) /\ Len(front) = k + 1
      /\ \A i \in 1 .. (k + 1) : front[i] = IF i <= k THEN n[i] ELSE <<Comma>>[i - k]
  BY <1>1, ConcatProperties
<1> HIDE DEF front
<1> HIDE DEF k
<1>3. /\ s \in Seq(Nat) /\ Len(s) = k + 1 + Len(rest)
      /\ \A i \in 1 .. (k + 1 + Len(rest)) : s[i] = IF i <= k + 1 THEN front[i] ELSE rest[i - (k + 1)]
  <2>1. /\ s \in Seq(Nat) /\ Len(s) = Len(front) + Len(rest)
        /\ \A i \in 1 .. (Len(front) + Len(rest)) :
               s[i] = IF i <= Len(front) THEN front[i] ELSE rest[i - Len(front)]
    BY <1>1, <1>2, ConcatProperties
  <2> HIDE DEF s
  <2>. QED BY <1>2, <2>1
<1>4. s[k + 1] = Comma /\ \A i \in 1 .. k : s[i] # Comma
  <2>1. k + 1 \in 1 .. (k + 1) /\ k + 1 \in 1 .. (k + 1 + Len(rest)) /\ ~(k + 1 <= k) /\ k + 1 - k = 1
    BY <1>1
  <2>2. front[k + 1] = Comma
    BY <1>1, <1>2, <2>1
  <2>3. s[k + 1] = Comma
    <3> HIDE DEF s
    <3>. QED BY <1>3, <2>1, <2>2
  <2>4. ASSUME NEW i \in 1 .. k PROVE s[i] # Comma
    <3>1. i \in 1 .. (k + 1) /\ i \in 1 .. (k + 1 + Len(rest)) /\ i <= k /\ i <= k + 1
      BY <1>1
    <3> HIDE DEF s
    <3>2. s[i] = n[i]
      BY <1>2, <1>3, <3>1
    <3>. QED BY <1>1, <3>2
  <2>. QED BY <2>3, <2>4
<1> DEFINE T == {i \in DOMAIN s : s[i] = Comma} \union {Len(s) + 1}
<1>5. FirstCut(s) = k + 1
  <2>1. T \subseteq 1 .. (Len(s) + 1) /\ k + 1 \in T /\ Len(s) + 1 \in Nat /\ DOMAIN s = 1 .. Len(s)
    <3> HIDE DEF s
    <3>1. DOMAIN s = 1 .. Len(s) /\ Len(s) \in Nat
      BY <1>3
    <3>2. k + 1 \in 1 .. Len(s)
      BY <1>1, <1>3
    <3>. QED BY <1>4, <3>1, <3>2
  <2>2. \A i \in T : k + 1 <= i
    <3> SUFFICES ASSUME NEW i \in T PROVE k + 1 <= i
      OBVIOUS
    <3> HIDE DEF s
    <3>1. i \in Nat /\ 1 <= i
      <4> HIDE DEF T
      <4>. QED BY <2>1
    <3>2. i = Len(s) + 1 \/ s[i] = Comma
      OBVIOUS
    <3>3. s[i] = Comma => ~(i <= k)
      BY <1>1, <1>4, <3>1
    <3>. QED BY <1>1, <1>3, <3>1, <3>2, <3>3
  <2>3. FirstCut(s) = Min(T)
    BY DEF FirstCut
  <2> HIDE DEF T, s
  <2>4. Min(T) \in T /\ \A x \in T : Min(T) <= x
    BY <2>1, LeastGreatest
  <2>5. Min(T) <= k + 1 /\ k + 1 <= Min(T) /\ Min(T) \in Nat
    <3> DEFINE m == Min(T)
    <3>1. m \in 1 .. (Len(s) + 1) /\ m <= k + 1 /\ k + 1 <= m
      BY <2>1, <2>2, <2>4
    <3> HIDE DEF m
    <3>2. m \in Nat
      BY <2>1, <3>1
    <3>. QED BY <3>1, <3>2 DEF m
  <2>. QED BY <1>1, <2>3, <2>5
<1>6. Piece(s) = n
  <2>1. s = n \o (<<Comma>> \o rest) /\ <<Comma>> \o rest \in Seq(Nat)
    BY <1>1, ConcatAssociative, ConcatProperties DEF front
  <2> DEFINE t == n \o (<<Comma>> \o rest)
  <2>2. SubSeq(t, 1, Len(n)) = n
    <3>1. \A u \in Seq(Nat) : SubSeq(n \o u, 1, Len(n)) = n
      BY <1>1, UncutFacts
    <3>. QED BY <2>1, <3>1
  <2>3. s = t
    BY <2>1
  <2> HIDE DEF s, t
  <2>4. k + 1 - 1 = k
    BY <1>1
  <2>. QED BY <1>5, <2>2, <2>3, <2>4 DEF Piece, k
<1>7. Others(s) = rest
  <2>1. SubSeq(front \o rest, Len(front) + 1, Len(front \o rest)) = rest
    BY <1>1, <1>2, UncutFacts
  <2>. QED BY <1>2, <1>5, <2>1 DEF Others
<1>8. s # <<>>
  <2> HIDE DEF s
  <2>1. Len(s) # 0
    BY <1>1, <1>3
  <2>. QED BY <2>1, EmptySeq
<1>. QED BY <1>3, <1>6, <1>7, <1>8 DEF Text, front

\* A list of names put into a string is found in it again.
LEMMA NamesRoundTrip == \A names \in Seq(Name) : FromSpopList(ToSpopList(names)) = names
<1> DEFINE Good(names) == FromSpopList(ToSpopList(names)) = names
<1>1. ASSUME NEW names \in Seq(Name), \A t \in Seq(Name) : Len(t) < Len(names) => Good(t)
      PROVE  Good(names)
  <2>0. \A t \in Seq(Name) : t \in Seq(Text)
    <3>1. \A n \in Name : n \in Text
      BY DEF Name, Text
    <3> SUFFICES ASSUME NEW t \in Seq(Name) PROVE t \in Seq(Text)
      OBVIOUS
    <3>2. \A i \in 1 .. Len(t) : t[i] \in Text
      BY <3>1
    <3>3. Len(t) \in Nat /\ t \in [1 .. Len(t) -> Text]
      BY <3>2, LenProperties
    <3>. QED BY <3>3, SeqDef
  <2>1. CASE names = <<>>
    BY <2>1, ToFacts, FromFacts
  <2>2. CASE names # <<>>
    <3> DEFINE n == Head(names)
               tail == Tail(names)
    <3>1. n \in Name /\ tail \in Seq(Name) /\ names = <<n>> \o tail /\ Len(tail) = Len(names) - 1
          /\ Len(names) \in Nat
      BY <2>2, HeadTail
    <3>2. n \in Text /\ n # <<>> /\ Strip(n) = n /\ \A i \in DOMAIN n : n[i] # Comma
      BY <3>1 DEF Name, Text
    <3>3. Good(tail)
      <4> HIDE DEF Good, tail
      <4>1. Len(tail) < Len(names)
        BY <3>1
      <4>. QED BY <1>1, <3>1, <4>1
    <3>4. ToSpopList(names) = IF tail = <<>> THEN Strip(n) ELSE Strip(n) \o <<Comma>> \o ToSpopList(tail)
      BY <2>0, <2>2, ToFacts
    <3>5. ToSpopList(tail) \in Text
      BY <2>0, <3>1, ToFacts
    <3> HIDE DEF n, tail
    <3>6. CASE tail = <<>>
      <4>1. ToSpopList(names) = n /\ names = <<n>>
        BY <3>1, <3>2, <3>4, <3>6
      <4>2. Piece(n) = n /\ Others(n) = <<>>
        BY <3>2, PieceAlone
      <4>3. FromSpopList(n) = Kept(n) \o <<>> /\ Kept(n) = <<n>>
        BY <3>2, <4>2, FromFacts DEF Kept
      <4>. QED BY <4>1, <4>3
    <3>7. CASE tail # <<>>
      <4> DEFINE rest == ToSpopList(tail)
                 s == n \o <<Comma>> \o rest
      <4>1. ToSpopList(names) = s
        BY <3>2, <3>4, <3>7
      <4>2. Piece(s) = n /\ Others(s) = rest /\ s \in Text /\ s # <<>>
        <5> HIDE DEF rest
        <5>1. rest \in Text
          BY <3>5 DEF rest
        <5>. QED BY <3>2, <5>1, PieceBefore
      <4> HIDE DEF s
      <4>3. FromSpopList(s) = Kept(s) \o FromSpopList(rest) /\ Kept(s) = <<n>>
        BY <3>2, <4>2, FromFacts DEF Kept
      <4>. QED BY <3>1, <3>3, <4>1, <4>3
    <3>. QED BY <3>6, <3>7
  <2>. QED BY <2>1, <2>2
<1> DEFINE T == {names \in Seq(Name) : Good(names)}
<1>2. \A s \in Seq(Name) : (\A t \in Seq(Name) : Len(t) < Len(s) => t \in T) => s \in T
  BY <1>1
<1>3. Seq(Name) \subseteq T
  <2> HIDE DEF T
  <2>. QED BY <1>2, LengthInduction
<1>. QED BY <1>3

-----------------------------------------------------------------------------
(* HELLO and DISCONNECT payloads *)

Hellos == {"HAPROXY_HELLO", "AGENT_HELLO"}

LEMMA KeyFacts ==
    /\ \A n \in Nat : KeyOf(n) \in Text /\ Len(KeyOf(n)) = n
    /\ \A m, n \in Nat : KeyOf(m) = KeyOf(n) => m = n
    /\ Key.SupportedVersions = KeyOf(18) /\ Key.MaxFrameSize = KeyOf(14) /\ Key.Capabilities = KeyOf(12)
    /\ Key.Healthcheck = KeyOf(11) /\ Key.EngineId = KeyOf(9) /\ Key.Version = KeyOf(7)
    /\ Key.StatusCode = KeyOf(11) /\ Key.Message = KeyOf(7)
<1>1. ASSUME NEW n \in Nat PROVE KeyOf(n) \in Text /\ Len(KeyOf(n)) = n
  <2>1. KeyOf(n) \in [1 .. n -> Nat]
    BY DEF KeyOf
  <2>2. KeyOf(n) \in Seq(Nat)
    BY <2>1, SeqDef
  <2>. QED BY <2>1, <2>2, LenProperties DEF Text
<1>2. \A m, n \in Nat : KeyOf(m) = KeyOf(n) => m = n
  BY <1>1
<1>3. /\ Key.SupportedVersions = KeyOf(18) /\ Key.MaxFrameSize = KeyOf(14) /\ Key.Capabilities = KeyOf(12)
      /\ Key.Healthcheck = KeyOf(11) /\ Key.EngineId = KeyOf(9) /\ Key.Version = KeyOf(7)
      /\ Key.StatusCode = KeyOf(11) /\ Key.Message = KeyOf(7)
  BY DEF Key
<1>. QED BY <1>1, <1>2, <1>3

LEMMA PositionsFacts ==
    ASSUME NEW pairs \in Seq(Pair), NEW key
    PROVE  /\ Positions(pairs, key) \subseteq 1 .. Len(pairs) /\ Len(pairs) \in Nat
           /\ Has(pairs, key) => Max(Positions(pairs, key)) \in Positions(pairs, key)
<1>1. Positions(pairs, key) \subseteq 1 .. Len(pairs) /\ Len(pairs) \in Nat
  BY LenProperties DEF Positions
<1> DEFINE T == Positions(pairs, key)
<1>2. CASE T # {}
  <2> HIDE DEF T
  <2>1. T \subseteq 1 .. Len(pairs) /\ Len(pairs) \in Nat
    BY <1>1 DEF T
  <2>2. Max(T) \in T
    BY <1>2, <2>1, LeastGreatest
  <2>. QED BY <1>1, <2>2 DEF T
<1>. QED BY <1>1, <1>2 DEF Has

\* The value of a key: the only one, the last one, or the default.
LEMMA GetFacts ==
    ASSUME NEW pairs \in Seq(Pair), NEW key
    PROVE  /\ \A i \in 1 .. Len(pairs) :
                  pairs[i][1] = key /\ (\A j \in 1 .. Len(pairs) : pairs[j][1] = key => j = i) =>
                      Has(pairs, key) /\ \A d : Get(pairs, key, d) = pairs[i][2]
           /\ (\A i \in 1 .. Len(pairs) : pairs[i][1] # key) =>
                  ~Has(pairs, key) /\ \A d : Get(pairs, key, d) = d
           /\ \A d \in Value : Get(pairs, key, d) \in Value
<1>0. DOMAIN pairs = 1 .. Len(pairs)
  BY LenProperties
<1>1. ASSUME NEW i \in 1 .. Len(pairs), pairs[i][1] = key,
             \A j \in 1 .. Len(pairs) : pairs[j][1] = key => j = i
      PROVE  Has(pairs, key) /\ \A d : Get(pairs, key, d) = pairs[i][2]
  <2>1. Positions(pairs, key) = {i}
    BY <1>0, <1>1 DEF Positions
  <2>2. Has(pairs, key)
    BY <2>1 DEF Has
  <2>3. Max(Positions(pairs, key)) = i
    BY <2>1, <2>2, PositionsFacts
  <2>. QED BY <2>2, <2>3 DEF Get
<1>2. ASSUME \A i \in 1 .. Len(pairs) : pairs[i][1] # key
      PROVE  ~Has(pairs, key) /\ \A d : Get(pairs, key, d) = d
  <2>1. ~Has(pairs, key)
    BY <1>0, <1>2 DEF Positions, Has
  <2>. QED BY <2>1 DEF Get
<1>3. ASSUME NEW d \in Value PROVE Get(pairs, key, d) \in Value
  <2>1. CASE Has(pairs, key)
    <3> DEFINE i == Max(Positions(pairs, key))
    <3>1. i \in 1 .. Len(pairs)
      BY <2>1, PositionsFacts
    <3> HIDE DEF i
    <3>2. pairs[i] \in Pair
      BY <3>1
    <3>3. pairs[i][2] \in Value
      BY <3>2 DEF Pair
    <3>. QED BY <2>1, <3>3 DEF Get, i
  <2>2. CASE ~Has(pairs, key)
    BY <2>2 DEF Get
  <2>. QED BY <2>1, <2>2
<1>. QED BY <1>1, <1>2, <1>3

LEMMA ListOfFacts ==
    ASSUME NEW pairs \in Seq(Pair), NEW key, Kind(Get(pairs, key, None)) = "str"
    PROVE  ListOf(pairs, key) \in Seq(Name)
<1> DEFINE value == Get(pairs, key, None)
<1>1. value \in Value /\ Kind(value) = "str"
  BY GetFacts, ValueFacts
<1> HIDE DEF value
<1>2. value # None /\ (\A b \in BOOLEAN : value # <<"bool", b>>) /\ (\A n \in Int : value # <<"int", n>>)
      /\ (\A s \in Bytes : value # <<"bytes", s>>)
      /\ (\A s \in BytesOf(4) : value # <<"ipv4", s>>) /\ (\A s \in BytesOf(16) : value # <<"ipv6", s>>)
  BY <1>1 DEF Kind, None
<1>3. PICK s \in Seq(Nat) : value = <<"str", s>>
  BY <1>1, <1>2, ValueCases
<1>4. Data(value) = s
  BY <1>3 DEF Data
<1>5. FromSpopList(s) \in Seq(Name)
  BY FromFacts DEF Text
<1>. QED BY <1>4, <1>5 DEF ListOf, value

\* The keys that have to be there, and those that have to be strings.
LEMMA RequiredFacts ==
    /\ Required("HAPROXY_HELLO") = <<Key.SupportedVersions, Key.MaxFrameSize, Key.Capabilities>>
    /\ Required("AGENT_HELLO") = <<Key.Version, Key.MaxFrameSize, Key.Capabilities>>
    /\ \A type \in Disconnects : Required(type) = <<Key.StatusCode, Key.Message>>
    /\ Listed = {Key.SupportedVersions, Key.Capabilities}
    /\ Key.StatusCode \notin Listed /\ Key.Message \notin Listed /\ Key.Version \notin Listed
    /\ Key.MaxFrameSize \notin Listed
<1>1. /\ Required("HAPROXY_HELLO") = <<Key.SupportedVersions, Key.MaxFrameSize, Key.Capabilities>>
      /\ Required("AGENT_HELLO") = <<Key.Version, Key.MaxFrameSize, Key.Capabilities>>
  BY DEF Required, Disconnects
<1>2. \A type \in Disconnects : Required(type) = <<Key.StatusCode, Key.Message>>
  BY DEF Required, Disconnects
<1>3. Listed = {KeyOf(18), KeyOf(12)}
  BY KeyFacts DEF Listed
<1>4. KeyOf(11) \notin Listed /\ KeyOf(7) \notin Listed /\ KeyOf(14) \notin Listed
  <2>1. \A n \in {7, 11, 14} : KeyOf(n) # KeyOf(18) /\ KeyOf(n) # KeyOf(12)
    BY KeyFacts
  <2>. QED BY <1>3, <2>1
<1>. QED BY <1>1, <1>2, <1>4, KeyFacts DEF Listed

\* What makes a dictionary of a HELLO or DISCONNECT acceptable.
Wrong(pairs, key) ==
    \/ ~Has(pairs, key)
    \/ key \in Listed /\ Kind(Get(pairs, key, None)) # "str"

LEMMA DecodeFieldsFacts ==
    ASSUME NEW type \in Hellos \union Disconnects, NEW pairs
    PROVE  /\ (\A i \in DOMAIN Required(type) : ~Wrong(pairs, Required(type)[i]))
                  => DecodeFields(type, pairs) = Got(Fields(type, pairs), <<>>)
           /\ (\E i \in DOMAIN Required(type) : Wrong(pairs, Required(type)[i]))
                  => \E i \in DOMAIN Required(type) :
                         /\ Wrong(pairs, Required(type)[i])
                         /\ DecodeFields(type, pairs) =
                                IF Has(pairs, Required(type)[i]) THEN Fail("foreign") ELSE Malformed
<1> DEFINE keys == Required(type)
           bad == {i \in DOMAIN keys : Wrong(pairs, keys[i])}
<1>1. DecodeFields(type, pairs) =
          IF bad = {} THEN Got(Fields(type, pairs), <<>>)
          ELSE IF Has(pairs, keys[Min(bad)]) THEN Fail("foreign") ELSE Malformed
  BY DEF DecodeFields, Wrong
<1>2. DOMAIN keys \subseteq 1 .. 3
  BY RequiredFacts DEF Hellos
<1>3. CASE bad = {}
  <2>1. \A i \in DOMAIN keys : ~Wrong(pairs, keys[i])
    BY <1>3
  <2> HIDE DEF bad
  <2>. QED BY <1>1, <1>3, <2>1
<1>4. CASE bad # {}
  <2>1. bad \subseteq 1 .. 3
    BY <1>2
  <2> DEFINE i == Min(bad)
  <2>2. i \in bad
    <3> HIDE DEF bad
    <3>. QED BY <1>4, <2>1, LeastGreatest
  <2> HIDE DEF i
  <2>3. i \in DOMAIN keys /\ Wrong(pairs, keys[i])
    BY <2>2
  <2>4. DecodeFields(type, pairs) = IF Has(pairs, keys[i]) THEN Fail("foreign") ELSE Malformed
    <3> HIDE DEF bad
    <3>. QED BY <1>1, <1>4 DEF i
  <2>. QED BY <2>3, <2>4
<1>. QED BY <1>3, <1>4

\* What a dictionary is taken for: a payload of its type, or an error, which is
\* foreign only where a value is split.
LEMMA FieldsType ==
    ASSUME NEW type \in Hellos \union Disconnects, NEW pairs \in Seq(Pair)
    PROVE  \/ DecodeFields(type, pairs) = Malformed
           \/ DecodeFields(type, pairs) = Fail("foreign") /\ type \in Hellos
           \/ \E v \in Payload(type) : DecodeFields(type, pairs) = Got(v, <<>>)
<1> DEFINE keys == Required(type)
<1>1. CASE \E i \in DOMAIN keys : Wrong(pairs, keys[i])
  <2>1. PICK i \in DOMAIN keys :
            /\ Wrong(pairs, keys[i])
            /\ DecodeFields(type, pairs) = IF Has(pairs, keys[i]) THEN Fail("foreign") ELSE Malformed
    BY <1>1, DecodeFieldsFacts
  <2>2. type \in Disconnects => keys[i] \notin Listed
    BY RequiredFacts
  <2>. QED BY <2>1, <2>2 DEF Wrong
<1>2. CASE ~(\E i \in DOMAIN keys : Wrong(pairs, keys[i]))
  <2>1. DecodeFields(type, pairs) = Got(Fields(type, pairs), <<>>)
    BY <1>2, DecodeFieldsFacts
  <2>2. \A key : Get(pairs, key, None) \in Value /\ Get(pairs, key, BoolValue(FALSE)) \in Value
    BY GetFacts, ValueFacts
  <2>3. ASSUME NEW i \in DOMAIN keys, keys[i] \in Listed PROVE ListOf(pairs, keys[i]) \in Seq(Name)
    BY <1>2, <2>3, ListOfFacts DEF Wrong
  <2>4. Fields(type, pairs) \in Payload(type)
    <3>1. CASE type = "HAPROXY_HELLO"
      <4>1. ListOf(pairs, Key.SupportedVersions) \in Seq(Name) /\ ListOf(pairs, Key.Capabilities) \in Seq(Name)
        <5>1. 1 \in DOMAIN keys /\ 3 \in DOMAIN keys /\ keys[1] = Key.SupportedVersions /\ keys[3] = Key.Capabilities
          BY <3>1, RequiredFacts
        <5>. QED BY <2>3, <5>1, RequiredFacts
      <4>. QED BY <2>2, <3>1, <4>1 DEF Fields, Payload, Disconnects
    <3>2. CASE type = "AGENT_HELLO"
      <4>1. ListOf(pairs, Key.Capabilities) \in Seq(Name)
        <5>1. 3 \in DOMAIN keys /\ keys[3] = Key.Capabilities
          BY <3>2, RequiredFacts
        <5>. QED BY <2>3, <5>1, RequiredFacts
      <4>. QED BY <2>2, <3>2, <4>1 DEF Fields, Payload, Disconnects
    <3>3. CASE type \in Disconnects
      BY <2>2, <3>3 DEF Fields, Payload, Disconnects
    <3>. QED BY <3>1, <3>2, <3>3 DEF Hellos
  <2>. QED BY <2>1, <2>4
<1>. QED BY <1>1, <1>2

\* Pairs whose keys are told apart by their lengths.
Keyed(pairs, lens) ==
    /\ pairs \in Seq(Pair)
    /\ \A i \in 1 .. Len(pairs) : lens[i] \in Nat /\ pairs[i][1] = KeyOf(lens[i])
    /\ \A i, j \in 1 .. Len(pairs) : lens[i] = lens[j] => i = j

LEMMA OnlyKeys ==
    \A pairs, lens : Keyed(pairs, lens) =>
        /\ \A i \in 1 .. Len(pairs) :
               Has(pairs, KeyOf(lens[i])) /\ \A d : Get(pairs, KeyOf(lens[i]), d) = pairs[i][2]
        /\ \A n \in Nat : (\A i \in 1 .. Len(pairs) : lens[i] # n) => \A d : Get(pairs, KeyOf(n), d) = d
<1> SUFFICES ASSUME NEW pairs, NEW lens, Keyed(pairs, lens)
             PROVE  /\ \A i \in 1 .. Len(pairs) :
                           Has(pairs, KeyOf(lens[i])) /\ \A d : Get(pairs, KeyOf(lens[i]), d) = pairs[i][2]
                    /\ \A n \in Nat : (\A i \in 1 .. Len(pairs) : lens[i] # n) =>
                           \A d : Get(pairs, KeyOf(n), d) = d
  OBVIOUS
<1>0. /\ pairs \in Seq(Pair)
      /\ \A i \in 1 .. Len(pairs) : lens[i] \in Nat /\ pairs[i][1] = KeyOf(lens[i])
      /\ \A i, j \in 1 .. Len(pairs) : lens[i] = lens[j] => i = j
  BY DEF Keyed
<1>1. ASSUME NEW i \in 1 .. Len(pairs)
      PROVE  Has(pairs, KeyOf(lens[i])) /\ \A d : Get(pairs, KeyOf(lens[i]), d) = pairs[i][2]
  <2> DEFINE key == KeyOf(lens[i])
  <2>1. ASSUME NEW j \in 1 .. Len(pairs), pairs[j][1] = key PROVE j = i
    <3>1. KeyOf(lens[j]) = KeyOf(lens[i]) /\ lens[i] \in Nat /\ lens[j] \in Nat
      BY <1>0, <2>1
    <3>2. lens[i] = lens[j]
      BY <3>1, KeyFacts
    <3>. QED BY <1>0, <3>2
  <2>2. pairs[i][1] = key
    BY <1>0
  <2> HIDE DEF key
  <2>3. \A k \in 1 .. Len(pairs) :
            pairs[k][1] = key /\ (\A j \in 1 .. Len(pairs) : pairs[j][1] = key => j = k) =>
                Has(pairs, key) /\ \A d : Get(pairs, key, d) = pairs[k][2]
    BY <1>0, GetFacts
  <2>4. Has(pairs, key) /\ \A d : Get(pairs, key, d) = pairs[i][2]
    BY <2>1, <2>2, <2>3
  <2>. QED BY <2>4 DEF key
<1>2. ASSUME NEW n \in Nat, \A i \in 1 .. Len(pairs) : lens[i] # n
      PROVE  \A d : Get(pairs, KeyOf(n), d) = d
  <2>1. \A i \in 1 .. Len(pairs) : pairs[i][1] # KeyOf(n)
    BY <1>0, <1>2, KeyFacts
  <2>. QED BY <1>0, <2>1, GetFacts
<1>. QED BY <1>1, <1>2

LEMMA StrFacts == \A s : Kind(StrValue(s)) = "str" /\ Data(StrValue(s)) = s
BY DEF Kind, Data, StrValue

\* A list of names as the value of a key.
LEMMA NamesFacts ==
    \A names \in Seq(Name) :
        /\ StrValue(ToSpopList(names)) \in Value
        /\ \A pairs, key : Get(pairs, key, None) = StrValue(ToSpopList(names)) =>
               Kind(Get(pairs, key, None)) = "str" /\ ListOf(pairs, key) = names
<1> SUFFICES ASSUME NEW names \in Seq(Name)
             PROVE  /\ StrValue(ToSpopList(names)) \in Value
                    /\ \A pairs, key : Get(pairs, key, None) = StrValue(ToSpopList(names)) =>
                           Kind(Get(pairs, key, None)) = "str" /\ ListOf(pairs, key) = names
  OBVIOUS
<1>1. names \in Seq(Text)
  <2>1. \A n \in Name : n \in Text
    BY DEF Name, Text
  <2>2. \A i \in 1 .. Len(names) : names[i] \in Text
    BY <2>1
  <2>3. Len(names) \in Nat /\ names \in [1 .. Len(names) -> Text]
    BY <2>2, LenProperties
  <2>. QED BY <2>3, SeqDef
<1>2. ToSpopList(names) \in Seq(Nat)
  BY <1>1, ToFacts DEF Text
<1>3. StrValue(ToSpopList(names)) \in Value
  BY <1>2, ValueFacts DEF StrValue
<1>. QED BY <1>3, StrFacts, NamesRoundTrip DEF ListOf

LEMMA KeyPair == \A n \in Nat, value \in Value :
    /\ <<KeyOf(n), value>> \in Pair /\ <<KeyOf(n), value>>[1] = KeyOf(n) /\ <<KeyOf(n), value>>[2] = value
BY KeyFacts DEF Pair, Text

LEMMA AgentHelloFields ==
    ASSUME NEW payload \in Payload("AGENT_HELLO")
    PROVE  /\ Pairs("AGENT_HELLO", payload) \in Seq(Pair)
           /\ DecodeFields("AGENT_HELLO", Pairs("AGENT_HELLO", payload)) = Got(payload, <<>>)
<1> DEFINE a == <<KeyOf(7), payload.version>>
           b == <<KeyOf(14), payload.size>>
           c == <<KeyOf(12), StrValue(ToSpopList(payload.caps))>>
           pairs == <<a, b, c>>
           lens == <<7, 14, 12>>
<1>1. /\ payload.version \in Value /\ payload.size \in Value /\ payload.caps \in Seq(Name)
      /\ payload = [version |-> payload.version, size |-> payload.size, caps |-> payload.caps]
  BY DEF Payload, Disconnects
<1>2. Pairs("AGENT_HELLO", payload) = pairs
  BY KeyFacts DEF Pairs, Disconnects
<1>3. StrValue(ToSpopList(payload.caps)) \in Value
  BY <1>1, NamesFacts
<1>4. /\ a \in Pair /\ b \in Pair /\ c \in Pair
      /\ a[1] = KeyOf(7) /\ b[1] = KeyOf(14) /\ c[1] = KeyOf(12)
      /\ a[2] = payload.version /\ b[2] = payload.size /\ c[2] = StrValue(ToSpopList(payload.caps))
  BY <1>1, <1>3, KeyPair
<1> HIDE DEF a, b, c
<1>5. pairs \in Seq(Pair) /\ Len(pairs) = 3 /\ pairs[1] = a /\ pairs[2] = b /\ pairs[3] = c
  BY <1>4
<1> HIDE DEF pairs
<1>6. /\ Keyed(pairs, lens)
      /\ lens[1] = 7 /\ lens[2] = 14 /\ lens[3] = 12 /\ 1 \in 1 .. Len(pairs) /\ 2 \in 1 .. Len(pairs) /\ 3 \in 1 .. Len(pairs)
  BY <1>4, <1>5 DEF Keyed
<1> HIDE DEF lens
<1>7. /\ Has(pairs, KeyOf(7)) /\ Get(pairs, KeyOf(7), None) = payload.version
      /\ Has(pairs, KeyOf(14)) /\ Get(pairs, KeyOf(14), None) = payload.size
      /\ Has(pairs, KeyOf(12)) /\ Get(pairs, KeyOf(12), None) = StrValue(ToSpopList(payload.caps))
  <2>1. \A i \in 1 .. Len(pairs) :
            Has(pairs, KeyOf(lens[i])) /\ Get(pairs, KeyOf(lens[i]), None) = pairs[i][2]
    BY <1>6, OnlyKeys
  <2>. QED BY <1>4, <1>5, <1>6, <2>1
<1>8. Kind(Get(pairs, KeyOf(12), None)) = "str" /\ ListOf(pairs, KeyOf(12)) = payload.caps
  BY <1>1, <1>7, NamesFacts
<1>9. \A i \in DOMAIN Required("AGENT_HELLO") : ~Wrong(pairs, Required("AGENT_HELLO")[i])
  <2>1. Required("AGENT_HELLO") = <<KeyOf(7), KeyOf(14), KeyOf(12)>> /\ KeyOf(7) \notin Listed /\ KeyOf(14) \notin Listed
    BY RequiredFacts, KeyFacts
  <2>2. ~Wrong(pairs, KeyOf(7)) /\ ~Wrong(pairs, KeyOf(14)) /\ ~Wrong(pairs, KeyOf(12))
    BY <1>7, <1>8, <2>1 DEF Wrong
  <2>. QED BY <2>1, <2>2
<1>10. Fields("AGENT_HELLO", pairs) = payload
  BY <1>1, <1>7, <1>8, KeyFacts DEF Fields, Disconnects
<1>11. DecodeFields("AGENT_HELLO", pairs) = Got(payload, <<>>)
  BY <1>9, <1>10, DecodeFieldsFacts DEF Hellos
<1>. QED BY <1>2, <1>5, <1>11

LEMMA DisconnectFields ==
    ASSUME NEW type \in Disconnects, NEW payload \in Payload(type)
    PROVE  /\ Pairs(type, payload) \in Seq(Pair)
           /\ DecodeFields(type, Pairs(type, payload)) = Got(payload, <<>>)
<1> DEFINE a == <<KeyOf(11), payload.status>>
           b == <<KeyOf(7), payload.message>>
           pairs == <<a, b>>
           lens == <<11, 7>>
<1>1. /\ payload.status \in Value /\ payload.message \in Value
      /\ payload = [status |-> payload.status, message |-> payload.message]
  BY DEF Payload, Disconnects
<1>2. Pairs(type, payload) = pairs
  BY KeyFacts DEF Pairs, Disconnects
<1>4. /\ a \in Pair /\ b \in Pair /\ a[1] = KeyOf(11) /\ b[1] = KeyOf(7)
      /\ a[2] = payload.status /\ b[2] = payload.message
  BY <1>1, KeyPair
<1> HIDE DEF a, b
<1>5. pairs \in Seq(Pair) /\ Len(pairs) = 2 /\ pairs[1] = a /\ pairs[2] = b
  BY <1>4
<1> HIDE DEF pairs
<1>6. /\ Keyed(pairs, lens)
      /\ lens[1] = 11 /\ lens[2] = 7 /\ 1 \in 1 .. Len(pairs) /\ 2 \in 1 .. Len(pairs)
  BY <1>4, <1>5 DEF Keyed
<1> HIDE DEF lens
<1>7. /\ Has(pairs, KeyOf(11)) /\ Get(pairs, KeyOf(11), None) = payload.status
      /\ Has(pairs, KeyOf(7)) /\ Get(pairs, KeyOf(7), None) = payload.message
  <2>1. \A i \in 1 .. Len(pairs) :
            Has(pairs, KeyOf(lens[i])) /\ Get(pairs, KeyOf(lens[i]), None) = pairs[i][2]
    BY <1>6, OnlyKeys
  <2>. QED BY <1>4, <1>5, <1>6, <2>1
<1>9. \A i \in DOMAIN Required(type) : ~Wrong(pairs, Required(type)[i])
  <2>1. Required(type) = <<KeyOf(11), KeyOf(7)>> /\ KeyOf(7) \notin Listed /\ KeyOf(11) \notin Listed
    BY RequiredFacts, KeyFacts
  <2>2. ~Wrong(pairs, KeyOf(7)) /\ ~Wrong(pairs, KeyOf(11))
    BY <1>7, <2>1 DEF Wrong
  <2>. QED BY <2>1, <2>2
<1>10. Fields(type, pairs) = payload
  BY <1>1, <1>7, KeyFacts DEF Fields, Disconnects
<1>11. DecodeFields(type, pairs) = Got(payload, <<>>)
  BY <1>9, <1>10, DecodeFieldsFacts
<1>. QED BY <1>2, <1>5, <1>11

LEMMA HaproxyHelloFields ==
    ASSUME NEW payload \in Payload("HAPROXY_HELLO")
    PROVE  /\ Pairs("HAPROXY_HELLO", payload) \in Seq(Pair)
           /\ DecodeFields("HAPROXY_HELLO", Pairs("HAPROXY_HELLO", payload)) = Got(payload, <<>>)
<1> DEFINE a == <<KeyOf(18), StrValue(ToSpopList(payload.versions))>>
           b == <<KeyOf(14), payload.size>>
           c == <<KeyOf(12), StrValue(ToSpopList(payload.caps))>>
           h == <<KeyOf(11), payload.healthcheck>>
           e == <<KeyOf(9), payload.engine>>
           front == <<a, b, c, h>>
           back == IF payload.engine = None THEN <<>> ELSE <<e>>
           pairs == front \o back
           lens == <<18, 14, 12, 11, 9>>
<1>1. /\ payload.versions \in Seq(Name) /\ payload.size \in Value /\ payload.caps \in Seq(Name)
      /\ payload.engine \in Value /\ payload.healthcheck \in Value
      /\ payload = [versions |-> payload.versions, size |-> payload.size, caps |-> payload.caps,
                    engine |-> payload.engine, healthcheck |-> payload.healthcheck]
  BY DEF Payload, Disconnects
<1>2. Pairs("HAPROXY_HELLO", payload) = pairs
  BY KeyFacts DEF Pairs, Disconnects
<1>3. StrValue(ToSpopList(payload.caps)) \in Value /\ StrValue(ToSpopList(payload.versions)) \in Value
  BY <1>1, NamesFacts
<1>4. /\ a \in Pair /\ b \in Pair /\ c \in Pair /\ h \in Pair /\ e \in Pair
      /\ a[1] = KeyOf(18) /\ b[1] = KeyOf(14) /\ c[1] = KeyOf(12) /\ h[1] = KeyOf(11) /\ e[1] = KeyOf(9)
      /\ a[2] = StrValue(ToSpopList(payload.versions)) /\ b[2] = payload.size
      /\ c[2] = StrValue(ToSpopList(payload.caps)) /\ h[2] = payload.healthcheck /\ e[2] = payload.engine
  BY <1>1, <1>3, KeyPair
<1> HIDE DEF a, b, c, h, e
<1>5. /\ front \in Seq(Pair) /\ Len(front) = 4 /\ back \in Seq(Pair)
      /\ front[1] = a /\ front[2] = b /\ front[3] = c /\ front[4] = h
      /\ payload.engine = None => Len(back) = 0
      /\ payload.engine # None => Len(back) = 1 /\ back[1] = e
  BY <1>4
<1> HIDE DEF front, back
<1>6. /\ pairs \in Seq(Pair)
      /\ pairs[1] = a /\ pairs[2] = b /\ pairs[3] = c /\ pairs[4] = h
      /\ payload.engine = None => Len(pairs) = 4
      /\ payload.engine # None => Len(pairs) = 5 /\ pairs[5] = e
  <2>1. /\ pairs \in Seq(Pair) /\ Len(pairs) = Len(front) + Len(back)
        /\ \A i \in 1 .. Len(front) + Len(back) :
               pairs[i] = IF i <= Len(front) THEN front[i] ELSE back[i - Len(front)]
    BY <1>5, ConcatProperties
  <2> HIDE DEF pairs
  <2>. QED BY <1>5, <2>1
<1> HIDE DEF pairs
<1>7. /\ Keyed(pairs, lens)
      /\ lens[1] = 18 /\ lens[2] = 14 /\ lens[3] = 12 /\ lens[4] = 11 /\ lens[5] = 9
      /\ 1 \in 1 .. Len(pairs) /\ 2 \in 1 .. Len(pairs) /\ 3 \in 1 .. Len(pairs) /\ 4 \in 1 .. Len(pairs)
  <2>1. /\ lens[1] = 18 /\ lens[2] = 14 /\ lens[3] = 12 /\ lens[4] = 11 /\ lens[5] = 9
        /\ \A i, j \in 1 .. 5 : lens[i] = lens[j] => i = j
    OBVIOUS
  <2>2. Len(pairs) = 4 \/ Len(pairs) = 5
    BY <1>6
  <2>3. ASSUME NEW i \in 1 .. Len(pairs) PROVE lens[i] \in Nat /\ pairs[i][1] = KeyOf(lens[i])
    <3> HIDE DEF lens
    <3>1. CASE payload.engine = None
      <4>0. Len(pairs) = 4
        BY <1>6, <3>1
      <4>1. i = 1 \/ i = 2 \/ i = 3 \/ i = 4
        BY <4>0
      <4>. QED BY <1>4, <1>6, <2>1, <4>1
    <3>2. CASE payload.engine # None
      <4>0. Len(pairs) = 5
        BY <1>6, <3>2
      <4>1. i = 1 \/ i = 2 \/ i = 3 \/ i = 4 \/ i = 5
        BY <4>0
      <4>2. pairs[5] = e
        BY <1>6, <3>2
      <4>. QED BY <1>4, <1>6, <2>1, <4>1, <4>2
    <3>. QED BY <3>1, <3>2
  <2>4. \A i \in 1 .. Len(pairs) : i \in 1 .. 5
    BY <2>2
  <2>5. Keyed(pairs, lens)
    <3> HIDE DEF lens
    <3>. QED BY <1>6, <2>1, <2>3, <2>4 DEF Keyed
  <2>6. 1 \in 1 .. Len(pairs) /\ 2 \in 1 .. Len(pairs) /\ 3 \in 1 .. Len(pairs) /\ 4 \in 1 .. Len(pairs)
    BY <2>2
  <2>. QED BY <2>1, <2>5, <2>6
<1> HIDE DEF lens
<1>8. \A i \in 1 .. Len(pairs) :
          /\ Has(pairs, KeyOf(lens[i])) /\ Get(pairs, KeyOf(lens[i]), None) = pairs[i][2]
          /\ Get(pairs, KeyOf(lens[i]), BoolValue(FALSE)) = pairs[i][2]
  <2>1. Keyed(pairs, lens)
    BY <1>7
  <2>2. \A i \in 1 .. Len(pairs) :
            Has(pairs, KeyOf(lens[i])) /\ \A d : Get(pairs, KeyOf(lens[i]), d) = pairs[i][2]
    BY <2>1, OnlyKeys
  <2>. QED BY <2>2
<1>9. /\ Has(pairs, KeyOf(18)) /\ Get(pairs, KeyOf(18), None) = StrValue(ToSpopList(payload.versions))
      /\ Has(pairs, KeyOf(14)) /\ Get(pairs, KeyOf(14), None) = payload.size
      /\ Has(pairs, KeyOf(12)) /\ Get(pairs, KeyOf(12), None) = StrValue(ToSpopList(payload.caps))
      /\ Get(pairs, KeyOf(11), BoolValue(FALSE)) = payload.healthcheck
  BY <1>4, <1>6, <1>7, <1>8
<1>10. Get(pairs, KeyOf(9), None) = payload.engine
  <2>1. CASE payload.engine = None
    <3>1. Len(pairs) = 4 /\ \A i \in 1 .. 4 : lens[i] # 9
      BY <1>6, <2>1 DEF lens
    <3>2. \A i \in 1 .. Len(pairs) : lens[i] # 9
      BY <3>1
    <3>3. Keyed(pairs, lens)
      BY <1>7
    <3>4. \A n \in Nat : (\A i \in 1 .. Len(pairs) : lens[i] # n) => Get(pairs, KeyOf(n), None) = None
      BY <3>3, OnlyKeys
    <3>5. Get(pairs, KeyOf(9), None) = None
      BY <3>2, <3>4
    <3>. QED BY <2>1, <3>5
  <2>2. CASE payload.engine # None
    <3>1. 5 \in 1 .. Len(pairs)
      BY <1>6, <2>2
    <3>. QED BY <1>4, <1>6, <1>7, <1>8, <2>2, <3>1
  <2>. QED BY <2>1, <2>2
<1>11. /\ Kind(Get(pairs, KeyOf(12), None)) = "str" /\ ListOf(pairs, KeyOf(12)) = payload.caps
       /\ Kind(Get(pairs, KeyOf(18), None)) = "str" /\ ListOf(pairs, KeyOf(18)) = payload.versions
  BY <1>1, <1>9, NamesFacts
<1>12. \A i \in DOMAIN Required("HAPROXY_HELLO") : ~Wrong(pairs, Required("HAPROXY_HELLO")[i])
  <2>1. Required("HAPROXY_HELLO") = <<KeyOf(18), KeyOf(14), KeyOf(12)>> /\ KeyOf(14) \notin Listed
    BY RequiredFacts, KeyFacts
  <2>2. ~Wrong(pairs, KeyOf(18)) /\ ~Wrong(pairs, KeyOf(14)) /\ ~Wrong(pairs, KeyOf(12))
    BY <1>9, <1>11, <2>1 DEF Wrong
  <2>. QED BY <2>1, <2>2
<1>13. Fields("HAPROXY_HELLO", pairs) = payload
  BY <1>1, <1>9, <1>10, <1>11, KeyFacts DEF Fields, Disconnects
<1>14. DecodeFields("HAPROXY_HELLO", pairs) = Got(payload, <<>>)
  BY <1>12, <1>13, DecodeFieldsFacts DEF Hellos
<1>. QED BY <1>2, <1>6, <1>14

-----------------------------------------------------------------------------
(* Payloads *)

Types == DOMAIN FrameType \ {"UNSET"}

LEMMA TypesFacts ==
    /\ Types = {"NOTIFY", "ACK"} \union Hellos \union Disconnects
    /\ \A type \in Hellos \union Disconnects :
           type # "NOTIFY" /\ type # "ACK" /\ type # "UNSET" /\ type \in Types
BY DEF Types, FrameType, Hellos, Disconnects

\* A list is read to its end.
LEMMA ListWhole ==
    ASSUME NEW Item, NEW V, Reads(Item, V, 1)
    PROVE  \A left \in Bytes :
               \/ DecodeList(left, Item) = Malformed
               \/ \E items \in Seq(V) : DecodeList(left, Item) = Got(items, <<>>)
<1> DEFINE Whole(s) == DecodeList(s, Item).ok => DecodeList(s, Item).rest = <<>>
           T == {s \in Bytes : Whole(s)}
<1>1. ASSUME NEW s \in Seq(Byte), \A t \in Seq(Byte) : Len(t) < Len(s) => t \in T PROVE Whole(s)
  <2>0. s \in Bytes
    BY DEF Bytes
  <2>1. CASE s = <<>>
    <3>1. DecodeList(s, Item) = Got(<<>>, <<>>)
      BY <2>0, <2>1, ListFacts
    <3>. QED BY <3>1, GotFacts
  <2>2. CASE s # <<>>
    <3> DEFINE list == ListReader(Item)
               first == Item[s]
               result == OneMore(Item, list)[s]
    <3>1. DecodeList(s, Item) = result
      BY <2>0, <2>2, ListFacts
    <3>2. result = IF ~first.ok THEN first ELSE IF ~list[first.rest].ok THEN list[first.rest]
                   ELSE Got(<<first.value>> \o list[first.rest].value, list[first.rest].rest)
      BY <2>0, OneMoreFacts
    <3> HIDE DEF result
    <3>3. CASE first.ok /\ list[first.rest].ok
      <4>1. PICK v \in V, rest \in Bytes : first = Got(v, rest) /\ Len(rest) + 1 <= Len(s)
        BY <2>0, <3>3, GotFacts DEF Reads, ReadsAt
      <4>2. first.rest = rest
        BY <4>1, GotFacts
      <4>3. list[rest] = DecodeList(rest, Item)
        BY DEF ListReader
      <4> HIDE DEF list, first
      <4>4. Len(rest) < Len(s)
        BY <2>0, <4>1, BytesFacts
      <4>5. rest \in T
        BY <1>1, <4>4 DEF Bytes
      <4>6. list[rest].rest = <<>>
        BY <3>3, <4>2, <4>3, <4>5
      <4>7. result = Got(<<first.value>> \o list[rest].value, <<>>)
        BY <3>2, <3>3, <4>2, <4>6
      <4>. QED BY <3>1, <4>7, GotFacts
    <3>4. CASE ~(first.ok /\ list[first.rest].ok)
      <4> HIDE DEF list, first
      <4>1. ~result.ok
        BY <3>2, <3>4
      <4>. QED BY <3>1, <4>1
    <3>. QED BY <3>3, <3>4
  <2>. QED BY <2>1, <2>2
<1>2. Bytes \subseteq T
  <2> HIDE DEF Whole
  <2>1. \A s \in Seq(Byte) : (\A t \in Seq(Byte) : Len(t) < Len(s) => t \in T) => s \in T
    BY <1>1 DEF Bytes
  <2> HIDE DEF T
  <2>. QED BY <2>1, LengthInduction DEF Bytes
<1>3. SUFFICES ASSUME NEW left \in Bytes, DecodeList(left, Item) # Malformed
               PROVE  \E items \in Seq(V) : DecodeList(left, Item) = Got(items, <<>>)
  OBVIOUS
<1>4. DecodeList(left, Item) \in Results(Seq(V))
  BY ListFacts
<1>5. PICK items \in Seq(V), rest \in Bytes : DecodeList(left, Item) = Got(items, rest)
  BY <1>3, <1>4, ResultsFacts
<1>6. rest = <<>>
  <2>1. Whole(left)
    BY <1>2
  <2>. QED BY <1>5, <2>1, GotFacts
<1>. QED BY <1>5, <1>6

\* Which list a payload is.
LEMMA PayloadFacts ==
    /\ \A bytes : DecodePayload("NOTIFY", bytes) = DecodeList(bytes, MessageReader)
    /\ \A bytes : DecodePayload("ACK", bytes) = DecodeList(bytes, ActionReader)
    /\ \A bytes : DecodePayload("UNSET", bytes) = Malformed
    /\ \A type \in Hellos \union Disconnects : \A bytes :
           LET list == DecodeList(bytes, PairReader) IN
           /\ list.ok => DecodePayload(type, bytes) = DecodeFields(type, list.value)
           /\ ~list.ok => DecodePayload(type, bytes) = list
<1>1. \A bytes : DecodePayload("NOTIFY", bytes) = DecodeList(bytes, MessageReader)
  BY DEF DecodePayload, MessageReader
<1>2. \A bytes : DecodePayload("ACK", bytes) = DecodeList(bytes, ActionReader)
  BY DEF DecodePayload, ActionReader
<1>3. \A bytes : DecodePayload("UNSET", bytes) = Malformed
  BY DEF DecodePayload
<1>4. ASSUME NEW type \in Hellos \union Disconnects, NEW bytes
      PROVE  /\ DecodeList(bytes, PairReader).ok =>
                    DecodePayload(type, bytes) = DecodeFields(type, DecodeList(bytes, PairReader).value)
             /\ ~DecodeList(bytes, PairReader).ok => DecodePayload(type, bytes) = DecodeList(bytes, PairReader)
  <2>1. type # "NOTIFY" /\ type # "ACK" /\ type # "UNSET"
    BY TypesFacts
  <2>2. DecodePayload(type, bytes) =
            Then(DecodeList(bytes, PairReader), LAMBDA pairs, end : DecodeFields(type, pairs))
    BY <2>1 DEF DecodePayload, PairReader
  <2>. QED BY <2>2 DEF Then
<1>. QED BY <1>1, <1>2, <1>3, <1>4

\* What a payload is taken for.
LEMMA PayloadType ==
    ASSUME NEW type \in Types, NEW bytes \in Bytes
    PROVE  \/ DecodePayload(type, bytes) = Malformed
           \/ DecodePayload(type, bytes) = Fail("foreign") /\ type \in Hellos
           \/ \E v \in Payload(type) : DecodePayload(type, bytes) = Got(v, <<>>)
<1>1. CASE type = "NOTIFY"
  <2>1. Payload(type) = Seq(Message)
    BY <1>1 DEF Payload, Disconnects
  <2>. QED BY <1>1, <2>1, PayloadFacts, MessageReads, ListWhole
<1>2. CASE type = "ACK"
  <2>1. Payload(type) = Seq(Action)
    BY <1>2 DEF Payload, Disconnects
  <2>. QED BY <1>2, <2>1, PayloadFacts, ActionReads, ListWhole
<1>3. CASE type \in Hellos \union Disconnects
  <2> DEFINE list == DecodeList(bytes, PairReader)
  <2>1. list = Malformed \/ \E pairs \in Seq(Pair) : list = Got(pairs, <<>>)
    BY PairReads, ListWhole
  <2>2. /\ list.ok => DecodePayload(type, bytes) = DecodeFields(type, list.value)
        /\ ~list.ok => DecodePayload(type, bytes) = list
    BY <1>3, PayloadFacts
  <2> HIDE DEF list
  <2>3. CASE list = Malformed
    BY <2>2, <2>3, GotFacts
  <2>4. CASE list # Malformed
    <3>1. PICK pairs \in Seq(Pair) : list = Got(pairs, <<>>)
      BY <2>1, <2>4
    <3>2. DecodePayload(type, bytes) = DecodeFields(type, pairs)
      BY <2>2, <3>1, GotFacts
    <3>. QED BY <1>3, <3>2, FieldsType
  <2>. QED BY <2>3, <2>4
<1>. QED BY <1>1, <1>2, <1>3, TypesFacts

\* An encoded payload is decoded to itself.
LEMMA PayloadCarries ==
    ASSUME NEW type \in Types, NEW payload \in Payload(type), PayloadEncodes(type, payload)
    PROVE  /\ EncodePayload(type, payload) \in Bytes
           /\ DecodePayload(type, EncodePayload(type, payload)) = Got(payload, <<>>)
<1>1. CASE type = "NOTIFY"
  <2> DEFINE parts == [i \in DOMAIN payload |-> EncodeMessage(payload[i])]
  <2>1. payload \in Seq(Message) /\ \A i \in DOMAIN payload : MessageEncodes(payload[i])
    BY <1>1 DEF Payload, PayloadEncodes, Disconnects
  <2>2. \A i \in DOMAIN payload : payload[i] \in Message
    BY <2>1
  <2>3. \A i \in DOMAIN payload : Carries(MessageReader, parts[i], payload[i])
    BY <2>1, <2>2, MessageReads
  <2>4. parts = [i \in DOMAIN payload |-> parts[i]] /\ EncodePayload(type, payload) = Join(parts)
    BY <1>1 DEF EncodePayload
  <2> HIDE DEF parts
  <2>5. parts \in Seq(Bytes) /\ Coded(MessageReader, parts, payload)
    BY <2>1, <2>3, <2>4, CodedParts
  <2>6. DecodeList(Join(parts), MessageReader) = Got(payload, <<>>)
    BY <2>1, <2>5, MessageReads, ListCarries
  <2>. QED BY <1>1, <2>4, <2>5, <2>6, JoinFacts, PayloadFacts
<1>2. CASE type = "ACK"
  <2> DEFINE parts == [i \in DOMAIN payload |-> ComposeAction(payload[i])]
  <2>1. payload \in Seq(Action) /\ \A i \in DOMAIN payload : ActionEncodes(payload[i])
    BY <1>2 DEF Payload, PayloadEncodes, Disconnects
  <2>2. \A i \in DOMAIN payload : payload[i] \in Action
    BY <2>1
  <2>3. \A i \in DOMAIN payload : Carries(ActionReader, parts[i], payload[i])
    BY <2>1, <2>2, ActionReads
  <2>4. parts = [i \in DOMAIN payload |-> parts[i]] /\ EncodePayload(type, payload) = Join(parts)
    BY <1>2 DEF EncodePayload
  <2> HIDE DEF parts
  <2>5. parts \in Seq(Bytes) /\ Coded(ActionReader, parts, payload)
    BY <2>1, <2>3, <2>4, CodedParts
  <2>6. DecodeList(Join(parts), ActionReader) = Got(payload, <<>>)
    BY <2>1, <2>5, ActionReads, ListCarries
  <2>. QED BY <1>2, <2>4, <2>5, <2>6, JoinFacts, PayloadFacts
<1>3. CASE type \in Hellos \union Disconnects
  <2> DEFINE pairs == Pairs(type, payload)
  <2>1. pairs \in Seq(Pair) /\ DecodeFields(type, pairs) = Got(payload, <<>>)
    BY <1>3, HaproxyHelloFields, AgentHelloFields, DisconnectFields DEF Hellos
  <2>2. type # "NOTIFY" /\ type # "ACK"
    BY <1>3, TypesFacts
  <2>3. EncodePayload(type, payload) = EncodeKvList(pairs)
    BY <2>2 DEF EncodePayload
  <2>4. \A i \in DOMAIN pairs : PairEncodes(pairs[i])
    BY <2>2 DEF PayloadEncodes
  <2> HIDE DEF pairs
  <2>5. DecodeList(EncodeKvList(pairs), PairReader) = Got(pairs, <<>>) /\ EncodeKvList(pairs) \in Bytes
    BY <2>1, <2>4, KvListCarries
  <2>6. DecodePayload(type, EncodeKvList(pairs)) = DecodeFields(type, pairs)
    BY <1>3, <2>5, GotFacts, PayloadFacts
  <2>. QED BY <2>1, <2>3, <2>5, <2>6
<1>. QED BY <1>1, <1>2, <1>3, TypesFacts

-----------------------------------------------------------------------------
(* Frames *)

FrameOf(type, meta, payload) == [type |-> type, meta |-> meta, payload |-> payload]

LEMMA TypeCodes ==
    \A t \in DOMAIN FrameType :
        FrameType[t] \in Byte /\ {u \in DOMAIN FrameType : FrameType[u] = FrameType[t]} = {t}
<1>1. \A t \in DOMAIN FrameType : FrameType[t] \in Byte
  BY DEF FrameType, Byte
<1>2. \A t, u \in DOMAIN FrameType : FrameType[t] = FrameType[u] => t = u
  BY DEF FrameType
<1>. QED BY <1>1, <1>2

\* What follows the type byte of a frame.
Following(type, bytes) ==
    LET meta    == DecodeMetadata(bytes)
        payload == DecodePayload(type, meta.rest)
    IN  IF ~meta.ok THEN meta
        ELSE IF ~payload.ok THEN payload
        ELSE Got(FrameOf(type, meta.value, payload.value), payload.rest)

LEMMA BodyFacts ==
    /\ DecodeBody(<<>>) = Malformed
    /\ \A t \in DOMAIN FrameType : \A bytes :
           bytes # <<>> /\ Head(bytes) = FrameType[t] => DecodeBody(bytes) = Following(t, Tail(bytes))
    /\ \A bytes : (\A t \in DOMAIN FrameType : Head(bytes) # FrameType[t]) => DecodeBody(bytes) = Malformed
<1>1. DecodeBody(<<>>) = Malformed
  BY DEF DecodeBody
<1>2. ASSUME NEW t \in DOMAIN FrameType, NEW bytes, bytes # <<>>, Head(bytes) = FrameType[t]
      PROVE  DecodeBody(bytes) = Following(t, Tail(bytes))
  <2> DEFINE types == {u \in DOMAIN FrameType : FrameType[u] = Head(bytes)}
             type == CHOOSE u \in types : TRUE
  <2>1. types = {t}
    BY <1>2, TypeCodes
  <2>2. type = t
    <3> HIDE DEF types
    <3>. QED BY <2>1, ChooseOnly
  <2>3. DecodeBody(bytes) =
            IF bytes = <<>> \/ types = {} THEN Malformed
            ELSE Then(DecodeMetadata(Tail(bytes)), LAMBDA meta, rest :
                    Then(DecodePayload(type, rest), LAMBDA payload, end :
                        Got(FrameOf(type, meta, payload), end)))
    BY DEF DecodeBody, FrameOf
  <2>4. types # {}
    BY <2>1
  <2> HIDE DEF types, type
  <2>5. DecodeBody(bytes) =
            Then(DecodeMetadata(Tail(bytes)), LAMBDA meta, rest :
                Then(DecodePayload(type, rest), LAMBDA payload, end :
                    Got(FrameOf(type, meta, payload), end)))
    BY <1>2, <2>3, <2>4
  <2>6. DecodeBody(bytes) = Following(type, Tail(bytes))
    BY <2>5 DEF Following, Then
  <2>. QED BY <2>2, <2>6
<1>3. ASSUME NEW bytes, \A t \in DOMAIN FrameType : Head(bytes) # FrameType[t]
      PROVE  DecodeBody(bytes) = Malformed
  <2>1. {u \in DOMAIN FrameType : FrameType[u] = Head(bytes)} = {}
    BY <1>3
  <2>. QED BY <2>1 DEF DecodeBody
<1>. QED BY <1>1, <1>2, <1>3

\* What a body is taken for: a frame, or an error, which is foreign only behind
\* the type of a HELLO.
LEMMA FollowingType ==
    ASSUME NEW type \in Types, NEW bytes \in Bytes
    PROVE  \/ Following(type, bytes) = Malformed
           \/ Following(type, bytes) = Fail("foreign") /\ type \in Hellos
           \/ \E meta \in MetaData, v \in Payload(type) :
                  Following(type, bytes) = Got(FrameOf(type, meta, v), <<>>)
<1> DEFINE meta == DecodeMetadata(bytes)
           payload == DecodePayload(type, meta.rest)
           result == Following(type, bytes)
<1>1. result = IF ~meta.ok THEN meta
               ELSE IF ~payload.ok THEN payload
               ELSE Got(FrameOf(type, meta.value, payload.value), payload.rest)
  BY DEF Following
<1>2. meta = Malformed \/ \E m \in MetaData, rest \in Bytes : meta = Got(m, rest)
  <2>1. meta = MetaReader[bytes]
    BY DEF MetaReader
  <2> HIDE DEF meta
  <2>. QED BY <2>1, MetaReads DEF Reads, ReadsAt
<1> HIDE DEF meta, result
<1>3. CASE meta = Malformed
  <2> HIDE DEF payload
  <2>1. result = Malformed
    BY <1>1, <1>3, GotFacts
  <2>. QED BY <2>1 DEF result
<1>4. CASE meta # Malformed
  <2>1. PICK m \in MetaData, rest \in Bytes : meta = Got(m, rest)
    BY <1>2, <1>4
  <2>2. payload = DecodePayload(type, rest)
    BY <2>1, GotFacts
  <2>3. \/ payload = Malformed
        \/ payload = Fail("foreign") /\ type \in Hellos
        \/ \E v \in Payload(type) : payload = Got(v, <<>>)
    BY <2>2, PayloadType
  <2> HIDE DEF payload
  <2>4. CASE ~payload.ok
    <3>1. result = payload
      BY <1>1, <2>1, <2>4, GotFacts
    <3>2. ~ \E v \in Payload(type) : payload = Got(v, <<>>)
      BY <2>4, GotFacts
    <3>. QED BY <2>3, <3>1, <3>2 DEF result
  <2>5. CASE payload.ok
    <3>1. ~Malformed.ok /\ ~Fail("foreign").ok
      BY DEF Malformed, Fail
    <3>2. PICK v \in Payload(type) : payload = Got(v, <<>>)
      BY <2>3, <2>5, <3>1
    <3>3. result = Got(FrameOf(type, meta.value, payload.value), payload.rest)
      BY <1>1, <2>1, <2>5, GotFacts
    <3>4. meta.value = m /\ payload.value = v /\ payload.rest = <<>>
      BY <2>1, <3>2, GotFacts
    <3>5. result = Got(FrameOf(type, m, v), <<>>)
      BY <3>3, <3>4
    <3>. QED BY <3>5 DEF result
  <2>. QED BY <2>4, <2>5
<1>. QED BY <1>3, <1>4

LEMMA FrameFacts ==
    /\ \A type \in Types, meta \in MetaData : \A payload \in Payload(type) :
           LET frame_ == FrameOf(type, meta, payload) IN
           /\ IsFrame(frame_)
           /\ frame_.type = type /\ frame_.meta = meta /\ frame_.payload = payload
    /\ \A f : IsFrame(f) =>
           /\ f.type \in Types /\ f.meta \in MetaData /\ f.payload \in Payload(f.type)
           /\ f = FrameOf(f.type, f.meta, f.payload)
<1>1. ASSUME NEW type \in Types, NEW meta \in MetaData, NEW payload \in Payload(type)
      PROVE  LET frame_ == FrameOf(type, meta, payload) IN
             /\ IsFrame(frame_)
             /\ frame_.type = type /\ frame_.meta = meta /\ frame_.payload = payload
  BY DEF FrameOf, IsFrame, Types
<1>2. ASSUME NEW f, IsFrame(f)
      PROVE  /\ f.type \in Types /\ f.meta \in MetaData /\ f.payload \in Payload(f.type)
             /\ f = FrameOf(f.type, f.meta, f.payload)
  BY <1>2 DEF FrameOf, IsFrame, Types
<1>. QED BY <1>1, <1>2

LEMMA BodyType ==
    ASSUME NEW bytes \in Bytes
    PROVE  \/ DecodeBody(bytes) = Malformed
           \/ DecodeBody(bytes) = Fail("foreign") /\ bytes # <<>> /\ \E t \in Hellos : Head(bytes) = FrameType[t]
           \/ \E f : IsFrame(f) /\ DecodeBody(bytes) = Got(f, <<>>)
<1>1. CASE bytes = <<>> \/ \A t \in DOMAIN FrameType : Head(bytes) # FrameType[t]
  BY <1>1, BodyFacts
<1>2. CASE ~(bytes = <<>> \/ \A t \in DOMAIN FrameType : Head(bytes) # FrameType[t])
  <2>1. PICK t \in DOMAIN FrameType : bytes # <<>> /\ Head(bytes) = FrameType[t]
    BY <1>2
  <2>2. DecodeBody(bytes) = Following(t, Tail(bytes)) /\ Tail(bytes) \in Bytes
    BY <2>1, BodyFacts, BytesFacts
  <2>3. CASE t = "UNSET"
    <3> DEFINE meta == DecodeMetadata(Tail(bytes))
               payload == DecodePayload(t, meta.rest)
    <3>1. payload = Malformed
      BY <2>3, PayloadFacts
    <3>2. meta.ok \/ meta = Malformed
      <4>1. meta = MetaReader[Tail(bytes)]
        BY <2>2 DEF MetaReader
      <4> HIDE DEF meta
      <4>2. MetaReader[Tail(bytes)] = Malformed \/ \E m, rest : MetaReader[Tail(bytes)] = Got(m, rest)
        BY <2>2, MetaReads DEF Reads, ReadsAt
      <4>. QED BY <4>1, <4>2, GotFacts
    <3>3. Following(t, Tail(bytes)) =
              IF ~meta.ok THEN meta ELSE IF ~payload.ok THEN payload
              ELSE Got(FrameOf(t, meta.value, payload.value), payload.rest)
      BY DEF Following
    <3> HIDE DEF meta, payload
    <3>4. Following(t, Tail(bytes)) = Malformed
      BY <3>1, <3>2, <3>3, GotFacts
    <3>. QED BY <2>2, <3>4
  <2>4. CASE t # "UNSET"
    <3>1. t \in Types
      BY <2>4 DEF Types
    <3>2. \/ Following(t, Tail(bytes)) = Malformed
          \/ Following(t, Tail(bytes)) = Fail("foreign") /\ t \in Hellos
          \/ \E meta \in MetaData, v \in Payload(t) :
                 Following(t, Tail(bytes)) = Got(FrameOf(t, meta, v), <<>>)
      BY <2>2, <3>1, FollowingType
    <3>3. \A meta \in MetaData, v \in Payload(t) : IsFrame(FrameOf(t, meta, v))
      BY <3>1, FrameFacts
    <3>. QED BY <2>1, <2>2, <3>2, <3>3
  <2>. QED BY <2>3, <2>4
<1>. QED BY <1>1, <1>2

\* The encoded body is decoded to its frame.
LEMMA BodyCarries ==
    \A f : IsFrame(f) /\ MetadataEncodes(f.meta) /\ PayloadEncodes(f.type, f.payload) =>
        /\ Body(f) \in Bytes /\ Body(f) # <<>>
        /\ EncodeMetadata(f.meta) \in Bytes /\ EncodePayload(f.type, f.payload) \in Bytes
        /\ DecodeBody(Body(f)) = Got(f, <<>>)
<1> SUFFICES ASSUME NEW f, IsFrame(f), MetadataEncodes(f.meta), PayloadEncodes(f.type, f.payload)
             PROVE  /\ Body(f) \in Bytes /\ Body(f) # <<>>
                    /\ EncodeMetadata(f.meta) \in Bytes /\ EncodePayload(f.type, f.payload) \in Bytes
                    /\ DecodeBody(Body(f)) = Got(f, <<>>)
  OBVIOUS
<1> DEFINE type == f.type
           meta == f.meta
           payload == f.payload
           a == FrameType[type]
           m == EncodeMetadata(meta)
           p == EncodePayload(type, payload)
<1>1. /\ type \in Types /\ type \in DOMAIN FrameType /\ meta \in MetaData /\ payload \in Payload(type)
      /\ f = FrameOf(type, meta, payload)
  BY FrameFacts DEF Types
<1>2. a \in Byte /\ Carries(MetaReader, m, meta) /\ p \in Bytes /\ DecodePayload(type, p) = Got(payload, <<>>)
  BY <1>1, TypeCodes, MetaReads, PayloadCarries
<1>3. m \in Bytes /\ DecodeMetadata(m \o p) = Got(meta, p)
  <2> HIDE DEF m, p
  <2>1. m \in Bytes /\ m \o p \in Bytes /\ MetaReader[m \o p] = Got(meta, p)
    BY <1>2, BytesConcat DEF Carries
  <2>. QED BY <2>1 DEF MetaReader
<1>4. Body(f) = (<<a>> \o m) \o p
  BY DEF Body
<1> HIDE DEF a, m, p
<1>5. /\ m \in Bytes /\ p \in Bytes /\ <<a>> \in Bytes
      /\ m \o p \in Bytes /\ <<a>> \o (m \o p) \in Bytes /\ <<a>> \o (m \o p) # <<>>
      /\ Head(<<a>> \o (m \o p)) = a /\ Tail(<<a>> \o (m \o p)) = m \o p
  <2>1. a \in Byte /\ m \in Bytes /\ p \in Bytes
    BY <1>2, <1>3
  <2>2. m \o p \in Bytes
    BY <2>1, BytesConcat
  <2>. QED BY <2>1, <2>2, BytesCons
<1>6. Body(f) \in Bytes /\ Body(f) # <<>> /\ Head(Body(f)) = a /\ Tail(Body(f)) = m \o p
  <2>1. Body(f) = <<a>> \o (m \o p)
    BY <1>4, <1>5, BytesAssociate
  <2>. QED BY <1>5, <2>1
<1>7. DecodeBody(Body(f)) = Following(type, m \o p)
  <2>1. Head(Body(f)) = FrameType[type]
    BY <1>6 DEF a
  <2>. QED BY <1>1, <1>6, <2>1, BodyFacts
<1>8. Following(type, m \o p) = Got(FrameOf(type, meta, payload), <<>>)
  <2>1. DecodeMetadata(m \o p).ok /\ DecodeMetadata(m \o p).value = meta /\ DecodeMetadata(m \o p).rest = p
    BY <1>3, GotFacts
  <2>2. DecodePayload(type, p).ok /\ DecodePayload(type, p).value = payload /\ DecodePayload(type, p).rest = <<>>
    BY <1>2, GotFacts
  <2> HIDE DEF type, meta, payload
  <2>. QED BY <2>1, <2>2 DEF Following
<1>. QED BY <1>1, <1>2, <1>3, <1>6, <1>7, <1>8 DEF m, p

\* The four bytes of a length are read as the length.
LEMMA LengthFacts ==
    \A n \in Nat : FrameLenEncodes(n) =>
        EncodeFrameLen(n) \in BytesOf(4) /\ DecodeFrameLen(EncodeFrameLen(n)) = n
<1> SUFFICES ASSUME NEW n \in Nat, FrameLenEncodes(n)
             PROVE  EncodeFrameLen(n) \in BytesOf(4) /\ DecodeFrameLen(EncodeFrameLen(n)) = n
  OBVIOUS
<1> DEFINE a == n \div 256
           b == a \div 256
           c == b \div 256
<1>1. \A k \in Nat : /\ k \div 256 \in Nat /\ k % 256 \in Nat /\ k % 256 < 256
                     /\ k = 256 * (k \div 256) + (k % 256)
  OBVIOUS
<1>2. /\ a \in Nat /\ n % 256 \in Nat /\ n % 256 < 256 /\ n = 256 * a + (n % 256)
  BY <1>1
<1> HIDE DEF a
<1>3. /\ b \in Nat /\ a % 256 \in Nat /\ a % 256 < 256 /\ a = 256 * b + (a % 256)
  BY <1>1, <1>2
<1> HIDE DEF b
<1>4. /\ c \in Nat /\ b % 256 \in Nat /\ b % 256 < 256 /\ b = 256 * c + (b % 256)
  BY <1>1, <1>3
<1> HIDE DEF c
<1>5. c < 256
  BY DEF FrameLenEncodes, a, b, c
<1>6. EncodeFrameLen(n) = <<c, b % 256, a % 256, n % 256>>
  BY DEF EncodeFrameLen, a, b, c
<1> DEFINE w == b % 256
           y == a % 256
           z == n % 256
<1>7. c \in Byte /\ w \in Byte /\ y \in Byte /\ z \in Byte
  BY <1>2, <1>3, <1>4, <1>5 DEF Byte
<1>8. EncodeFrameLen(n) \in BytesOf(4)
  <2> HIDE DEF w, y, z
  <2>1. \A i, j, k, l \in Byte : <<i, j, k, l>> \in Seq(Byte) /\ Len(<<i, j, k, l>>) = 4
    OBVIOUS
  <2>2. EncodeFrameLen(n) = <<c, w, y, z>>
    BY <1>6 DEF w, y, z
  <2>. QED BY <1>7, <2>1, <2>2 DEF BytesOf, Bytes
<1>9. DecodeFrameLen(EncodeFrameLen(n)) = 256 * (256 * (256 * c + w) + y) + z
  <2> HIDE DEF w, y, z
  <2>1. EncodeFrameLen(n) = <<c, w, y, z>>
    BY <1>6 DEF w, y, z
  <2>. QED BY <2>1 DEF DecodeFrameLen
<1>10. 256 * (256 * (256 * c + w) + y) + z = n
  <2>1. n = 256 * a + z /\ a = 256 * b + y /\ b = 256 * c + w
    BY <1>2, <1>3, <1>4
  <2>2. a \in Nat /\ b \in Nat /\ c \in Nat /\ w \in Nat /\ y \in Nat /\ z \in Nat
    BY <1>2, <1>3, <1>4
  <2> HIDE DEF w, y, z
  <2>. QED BY <2>1, <2>2
<1>. QED BY <1>8, <1>9, <1>10

\* A stream that holds the four bytes of a length, and one that does not.
LEMMA StreamFacts ==
    /\ \A stream, max : Len(stream) < 4 => DecodeFrame(stream, max) = Fail("SpopEOFError")
    /\ \A head \in BytesOf(4), rest \in Bytes : \A max :
           LET size == DecodeFrameLen(head)
               body == Take(rest, size)
               result == DecodeFrame(head \o rest, max)
           IN  /\ size > max => result = Fail("SpopFrameTooBigError")
               /\ ~(size > max) /\ ~body.ok => result = body
               /\ ~(size > max) /\ body.ok /\ ~DecodeBody(body.value).ok => result = DecodeBody(body.value)
               /\ ~(size > max) /\ body.ok /\ DecodeBody(body.value).ok =>
                      result = Got(DecodeBody(body.value).value, body.rest)
<1>1. ASSUME NEW stream, NEW max, Len(stream) < 4
      PROVE  DecodeFrame(stream, max) = Fail("SpopEOFError")
  BY <1>1 DEF DecodeFrame
<1>2. ASSUME NEW head \in BytesOf(4), NEW rest \in Bytes, NEW max
      PROVE  LET size == DecodeFrameLen(head)
                 body == Take(rest, size)
                 result == DecodeFrame(head \o rest, max)
             IN  /\ size > max => result = Fail("SpopFrameTooBigError")
                 /\ ~(size > max) /\ ~body.ok => result = body
                 /\ ~(size > max) /\ body.ok /\ ~DecodeBody(body.value).ok => result = DecodeBody(body.value)
                 /\ ~(size > max) /\ body.ok /\ DecodeBody(body.value).ok =>
                        result = Got(DecodeBody(body.value).value, body.rest)
  <2> DEFINE stream == head \o rest
             size == DecodeFrameLen(head)
             body == Take(rest, size)
  <2>1. head \in Bytes /\ Len(head) = 4
    BY DEF BytesOf
  <2>2. ~(Len(stream) < 4)
    <3>1. Len(stream) = Len(head) + Len(rest) /\ Len(rest) \in Nat
      BY <2>1, BytesConcat, BytesFacts
    <3> HIDE DEF stream
    <3>. QED BY <2>1, <3>1
  <2>3. SubSeq(stream, 1, 4) = head /\ SubSeq(stream, 5, Len(stream)) = rest
    <3>1. SubSeq(stream, 1, Len(head)) = head /\ SubSeq(stream, Len(head) + 1, Len(stream)) = rest
      BY <2>1, BytesUncut
    <3> HIDE DEF stream
    <3>. QED BY <2>1, <3>1
  <2> HIDE DEF stream
  <2>4. DecodeFrame(stream, max) =
            IF size > max THEN Fail("SpopFrameTooBigError")
            ELSE Then(body, LAMBDA b, next : Then(DecodeBody(b), LAMBDA f, end : Got(f, next)))
    BY <2>2, <2>3 DEF DecodeFrame
  <2> HIDE DEF size, body
  <2>5. /\ size > max => DecodeFrame(stream, max) = Fail("SpopFrameTooBigError")
        /\ ~(size > max) /\ ~body.ok => DecodeFrame(stream, max) = body
        /\ ~(size > max) /\ body.ok /\ ~DecodeBody(body.value).ok =>
               DecodeFrame(stream, max) = DecodeBody(body.value)
        /\ ~(size > max) /\ body.ok /\ DecodeBody(body.value).ok =>
               DecodeFrame(stream, max) = Got(DecodeBody(body.value).value, body.rest)
    BY <2>4 DEF Then
  <2>. QED BY <2>5 DEF stream, size, body
<1>. QED BY <1>1, <1>2

\* What holds of a frame that is encoded, for the theorems below.
LEMMA EncodedFacts ==
    \A f : IsFrame(f) /\ Encodes(f) =>
        /\ Body(f) \in Bytes /\ Len(Body(f)) \in Nat
        /\ EncodeFrameLen(Len(Body(f))) \in BytesOf(4)
        /\ DecodeFrameLen(EncodeFrameLen(Len(Body(f)))) = Len(Body(f))
        /\ DecodeBody(Body(f)) = Got(f, <<>>)
        /\ EncodeFrame(f) = EncodeFrameLen(Len(Body(f))) \o Body(f)
        /\ EncodeFrame(f) \in Bytes
<1> SUFFICES ASSUME NEW f, IsFrame(f), Encodes(f)
             PROVE  /\ Body(f) \in Bytes /\ Len(Body(f)) \in Nat
                    /\ EncodeFrameLen(Len(Body(f))) \in BytesOf(4)
                    /\ DecodeFrameLen(EncodeFrameLen(Len(Body(f)))) = Len(Body(f))
                    /\ DecodeBody(Body(f)) = Got(f, <<>>)
                    /\ EncodeFrame(f) = EncodeFrameLen(Len(Body(f))) \o Body(f)
                    /\ EncodeFrame(f) \in Bytes
  OBVIOUS
<1>1. /\ MetadataEncodes(f.meta) /\ PayloadEncodes(f.type, f.payload) /\ FrameLenEncodes(Len(Body(f)))
  BY DEF Encodes
<1>2. Body(f) \in Bytes /\ DecodeBody(Body(f)) = Got(f, <<>>)
  BY <1>1, BodyCarries
<1>3. Len(Body(f)) \in Nat
  BY <1>2, BytesFacts
<1>4. EncodeFrameLen(Len(Body(f))) \in BytesOf(4)
      /\ DecodeFrameLen(EncodeFrameLen(Len(Body(f)))) = Len(Body(f))
  BY <1>1, <1>3, LengthFacts
<1>5. EncodeFrameLen(Len(Body(f))) \in Bytes
  BY <1>4 DEF BytesOf
<1>. QED BY <1>2, <1>3, <1>4, <1>5, BytesConcat DEF EncodeFrame

\* A frame that is encoded, whatever follows it in the stream.
LEMMA FrameCarries ==
    \A f : IsFrame(f) /\ Encodes(f) =>
        \A more \in Bytes, max \in Int :
            /\ Len(Body(f)) <= max => DecodeFrame(EncodeFrame(f) \o more, max) = Got(f, more)
            /\ ~(Len(Body(f)) <= max) => DecodeFrame(EncodeFrame(f) \o more, max) = Fail("SpopFrameTooBigError")
<1> SUFFICES ASSUME NEW f, IsFrame(f), Encodes(f), NEW more \in Bytes, NEW max \in Int
             PROVE  /\ Len(Body(f)) <= max => DecodeFrame(EncodeFrame(f) \o more, max) = Got(f, more)
                    /\ ~(Len(Body(f)) <= max) =>
                           DecodeFrame(EncodeFrame(f) \o more, max) = Fail("SpopFrameTooBigError")
  OBVIOUS
<1> DEFINE body == Body(f)
           head == EncodeFrameLen(Len(body))
           stream == EncodeFrame(f) \o more
<1>1. /\ body \in Bytes /\ Len(body) \in Nat /\ head \in BytesOf(4) /\ head \in Bytes
      /\ DecodeFrameLen(head) = Len(body) /\ DecodeBody(body) = Got(f, <<>>)
      /\ EncodeFrame(f) = head \o body
  BY EncodedFacts DEF BytesOf
<1> HIDE DEF body, head
<1>2. stream = head \o (body \o more) /\ body \o more \in Bytes
  <2>1. stream = (head \o body) \o more /\ head \in Bytes /\ body \in Bytes
    BY <1>1
  <2> HIDE DEF stream
  <2>2. stream = head \o (body \o more)
    BY <2>1, BytesAssociate
  <2>. QED BY <2>1, <2>2, BytesConcat
<1>3. Take(body \o more, Len(body)) = Got(body, more)
  BY <1>1, TakeExactly
<1> HIDE DEF stream
<1>4. DecodeBody(body).ok /\ DecodeBody(body).value = f
  BY <1>1, GotFacts
<1> DEFINE taken == Take(body \o more, Len(body))
<1>5. taken.ok /\ taken.value = body /\ taken.rest = more
  BY <1>3, GotFacts
<1>6. /\ Len(body) > max => DecodeFrame(stream, max) = Fail("SpopFrameTooBigError")
      /\ ~(Len(body) > max) /\ taken.ok /\ DecodeBody(taken.value).ok =>
             DecodeFrame(stream, max) = Got(DecodeBody(taken.value).value, taken.rest)
  BY <1>1, <1>2, StreamFacts
<1> HIDE DEF taken
<1>7. Len(body) > max <=> ~(Len(body) <= max)
  BY <1>1
<1>8. /\ Len(body) <= max => DecodeFrame(stream, max) = Got(f, more)
      /\ ~(Len(body) <= max) => DecodeFrame(stream, max) = Fail("SpopFrameTooBigError")
  BY <1>4, <1>5, <1>6, <1>7
<1>. QED BY <1>8 DEF body, stream

-----------------------------------------------------------------------------
(* The properties *)

\* What the runs look at are frames.
FrameInv == IsFrame(frame) /\ number \in Int

LEMMA AlwaysFrame == Spec => []FrameInv
<1>1. Init => FrameInv
  BY CodecAssumption DEF Init, FrameInv
<1>2. FrameInv /\ [Next]_<<frame, number>> => FrameInv'
  BY DEF FrameInv, IsFrame, Next
<1>. QED BY <1>1, <1>2, PTL DEF Spec

LEMMA BehindFacts == Behind \in Bytes
<1>1. 0 \in Byte
  BY DEF Byte
<1>. QED BY <1>1 DEF Behind, Bytes

\* Every integer type keeps its whole range, with any number of bits: INT32_MAX and
\* INT64_MIN come back as they went (encode_dt_int32 and its siblings, auto_decode_var).
THEOREM WidthsKept == Spec => []IntWidths
<1>1. FrameInv => IntWidths
  <2> SUFFICES ASSUME FrameInv, NEW type \in IntTypes, InRange(type, number)
               PROVE  DecodeVar(EncodeInt(type, number) \o Behind) = Got(IntValue(number), Behind)
    BY DEF IntWidths
  <2>1. number \in InType(type)
    BY DEF FrameInv, InType
  <2>2. Carries(VarReader, EncodeInt(type, number), <<"int", number>>)
    BY <2>1, TypedIntCarries
  <2>3. EncodeInt(type, number) \o Behind \in Bytes
    BY <2>2, BehindFacts, BytesConcat DEF Carries
  <2>4. VarReader[EncodeInt(type, number) \o Behind] = Got(<<"int", number>>, Behind)
    BY <2>2, BehindFacts DEF Carries
  <2>. QED BY <2>3, <2>4 DEF VarReader, IntValue
<1>. QED BY <1>1, AlwaysFrame, PTL

\* Frame.decode gives back what Frame.encode was given, for every frame that has a wire
\* form, and leaves the bytes of the next frame where they are.
THEOREM FramesComeBack == Spec => []RoundTrip
<1>1. FrameInv => RoundTrip
  <2> SUFFICES ASSUME FrameInv, Encodes(frame)
               PROVE  DecodeFrame(EncodeFrame(frame) \o Behind, Len(Body(frame))) = Got(frame, Behind)
    BY DEF RoundTrip
  <2>1. IsFrame(frame)
    BY DEF FrameInv
  <2> DEFINE size == Len(Body(frame))
  <2>2. size \in Nat
    BY <2>1, EncodedFacts
  <2> HIDE DEF size
  <2>3. size \in Int /\ size <= size
    BY <2>2
  <2>4. \A max \in Int : size <= max => DecodeFrame(EncodeFrame(frame) \o Behind, max) = Got(frame, Behind)
    BY <2>1, BehindFacts, FrameCarries DEF size
  <2>5. DecodeFrame(EncodeFrame(frame) \o Behind, size) = Got(frame, Behind)
    BY <2>3, <2>4
  <2>. QED BY <2>5 DEF size
<1>. QED BY <1>1, AlwaysFrame, PTL

\* The size check of Frame.encode and that of Frame.decode draw the same line.
THEOREM SameLimit == Spec => []LimitShared
<1>1. FrameInv => LimitShared
  <2> SUFFICES ASSUME FrameInv, Encodes(frame),
                      NEW max \in (Len(Body(frame)) - 5) .. (Len(Body(frame)) + 5)
               PROVE  FitsFrame(Body(frame), max) <=> DecodeFrame(EncodeFrame(frame), max).ok
    BY DEF LimitShared
  <2>1. IsFrame(frame)
    BY DEF FrameInv
  <2>2. Len(Body(frame)) \in Nat /\ EncodeFrame(frame) \in Bytes
    BY <2>1, EncodedFacts
  <2>3. max \in Int
    BY <2>2
  <2>4. <<>> \in Bytes
    BY BytesCons
  <2>5. /\ Len(Body(frame)) <= max => DecodeFrame(EncodeFrame(frame) \o <<>>, max) = Got(frame, <<>>)
        /\ ~(Len(Body(frame)) <= max) =>
               DecodeFrame(EncodeFrame(frame) \o <<>>, max) = Fail("SpopFrameTooBigError")
    BY <2>1, <2>3, <2>4, FrameCarries
  <2>6. EncodeFrame(frame) \o <<>> = EncodeFrame(frame)
    BY <2>2, BytesConcat
  <2>7. /\ FitsFrame(Body(frame), max) => DecodeFrame(EncodeFrame(frame), max) = Got(frame, <<>>)
        /\ ~FitsFrame(Body(frame), max) => DecodeFrame(EncodeFrame(frame), max) = Fail("SpopFrameTooBigError")
    BY <2>5, <2>6 DEF FitsFrame
  <2>8. ~Fail("SpopFrameTooBigError").ok
    BY DEF Fail
  <2>. QED BY <2>7, <2>8, GotFacts
<1>. QED BY <1>1, AlwaysFrame, PTL

LEMMA DamagedFacts ==
    ASSUME FrameInv, Damageable, NEW i \in DOMAIN Body(frame), NEW byte \in Noise
    PROVE  Damaged(i, byte) \in Bytes
<1>1. Body(frame) \in Bytes
  BY EncodedFacts DEF FrameInv, Damageable
<1>2. byte \in Byte
  BY CodecAssumption
<1>. QED BY <1>1, <1>2 DEF Damaged, Bytes

\* A damaged frame that is accepted is a frame in its own right: what it was decoded to
\* is what its own encoding decodes to.
THEOREM MeansItself == Spec => []AcceptedMeansItself
<1>1. FrameInv => AcceptedMeansItself
  <2> SUFFICES ASSUME FrameInv, Damageable, NEW i \in DOMAIN Body(frame), NEW byte \in Noise,
                      DecodeBody(Damaged(i, byte)).ok, Encodes(DecodeBody(Damaged(i, byte)).value)
               PROVE  DecodeBody(Body(DecodeBody(Damaged(i, byte)).value))
                          = Got(DecodeBody(Damaged(i, byte)).value, <<>>)
    BY DEF AcceptedMeansItself
  <2>1. Damaged(i, byte) \in Bytes
    BY DamagedFacts
  <2>2. ~Malformed.ok /\ ~Fail("foreign").ok
    BY DEF Malformed, Fail
  <2>3. PICK f : IsFrame(f) /\ DecodeBody(Damaged(i, byte)) = Got(f, <<>>)
    BY <2>1, <2>2, BodyType
  <2>4. DecodeBody(Damaged(i, byte)).value = f
    BY <2>3, GotFacts
  <2>5. DecodeBody(Body(f)) = Got(f, <<>>)
    BY <2>3, <2>4, EncodedFacts
  <2>. QED BY <2>4, <2>5
<1>. QED BY <1>1, AlwaysFrame, PTL

\* An exception no clause of core_handler treats comes from nothing but a HELLO.
THEOREM ForeignFromHello == Spec => []ForeignOnlyFromHello
<1>1. FrameInv => ForeignOnlyFromHello
  <2> SUFFICES ASSUME FrameInv, Damageable, NEW i \in DOMAIN Body(frame), NEW byte \in Noise,
                      DecodeBody(Damaged(i, byte)) = Fail("foreign")
               PROVE  Damaged(i, byte)[1] \in {FrameType.HAPROXY_HELLO, FrameType.AGENT_HELLO}
    BY DEF ForeignOnlyFromHello
  <2> DEFINE bytes == Damaged(i, byte)
  <2>1. bytes \in Bytes
    BY DamagedFacts
  <2>2. Malformed # Fail("foreign") /\ ~Fail("foreign").ok
    BY DEF Malformed, Fail
  <2> HIDE DEF bytes
  <2>3. DecodeBody(bytes) = Fail("foreign")
    BY DEF bytes
  <2>4. PICK t \in Hellos : Head(bytes) = FrameType[t]
    BY <2>1, <2>2, <2>3, BodyType, GotFacts
  <2>5. Head(bytes) = bytes[1]
    OBVIOUS
  <2>6. bytes[1] \in {FrameType.HAPROXY_HELLO, FrameType.AGENT_HELLO}
    BY <2>4, <2>5 DEF Hellos
  <2>. QED BY <2>6 DEF bytes
<1>. QED BY <1>1, AlwaysFrame, PTL

\* The first k parts.
FirstParts(parts, k) == Join([i \in 1 .. k |-> parts[i]])

\* A list cut short that is read is cut behind one of its items.
CutList(Item, V, parts, items, start, end) ==
    /\ Reads(Item, V, 1) /\ parts \in Seq(Bytes) /\ items \in Seq(V) /\ Coded(Item, parts, items)
    /\ start \in Bytes /\ end \in Bytes /\ start \o end = Join(parts) /\ DecodeList(start, Item).ok

LEMMA PartsCut ==
    \A Item, V, parts, items, start, end : CutList(Item, V, parts, items, start, end) =>
        \E k \in 0 .. Len(items) : start = FirstParts(parts, k)
<1> SUFFICES ASSUME NEW Item, NEW V, NEW parts, NEW items, NEW start, NEW end,
                    CutList(Item, V, parts, items, start, end)
             PROVE  \E k \in 0 .. Len(items) : start = FirstParts(parts, k)
  OBVIOUS
<1>1. /\ Reads(Item, V, 1) /\ parts \in Seq(Bytes) /\ items \in Seq(V) /\ Coded(Item, parts, items)
      /\ start \in Bytes /\ end \in Bytes /\ start \o end = Join(parts) /\ DecodeList(start, Item).ok
  BY DEF CutList
<1>2. PICK k \in 0 .. Len(parts) : start = Join(SubSeq(parts, 1, k))
  BY <1>1, ListCut
<1>3. Len(parts) = Len(items) /\ Len(parts) \in Nat
  BY <1>1, LenProperties DEF Coded
<1>4. SubSeq(parts, 1, k) = [i \in 1 .. k |-> parts[i]]
  <2>1. k \in Nat /\ 1 .. (k - 1 + 1) = 1 .. k
    BY <1>3
  <2>2. \A i \in 1 .. k : i + 1 - 1 = i
    BY <2>1
  <2>3. SubSeq(parts, 1, k) \in Seq(Bytes) /\ Len(SubSeq(parts, 1, k)) = k
        /\ \A i \in 1 .. k : SubSeq(parts, 1, k)[i] = parts[i]
    BY <1>1, <1>3, <2>1, SubSeqProperties
  <2>. QED BY <2>1, <2>3
<1>. QED BY <1>2, <1>3, <1>4 DEF FirstParts

\* The same of a payload of whichever type.
LEMMA PayloadCut ==
    ASSUME NEW f, IsFrame(f), PayloadEncodes(f.type, f.payload), NEW start \in Bytes, NEW end \in Bytes,
           start \o end = EncodePayload(f.type, f.payload), DecodePayload(f.type, start).ok
    PROVE  \E k \in 0 .. Len(Items(f)) : start = Join([i \in 1 .. k |-> ItemBytes(f, Items(f)[i])])
<1> DEFINE type == f.type
           payload == f.payload
           items == Items(f)
           parts == [i \in DOMAIN items |-> ItemBytes(f, items[i])]
           Ends(k) == start = FirstParts(parts, k)
<1>1. type \in Types /\ payload \in Payload(type)
  BY FrameFacts
<1>2. SUFFICES \E k \in 0 .. Len(items) : Ends(k)
  <2>1. PICK k \in 0 .. Len(items) : Ends(k)
    BY <1>2
  <2>2. [i \in 1 .. k |-> parts[i]] = [i \in 1 .. k |-> ItemBytes(f, items[i])]
    <3>1. DOMAIN items = 1 .. Len(items) /\ Len(items) \in Nat
      <4>1. \E V : items \in Seq(V)
        <5>1. CASE type = "NOTIFY"
          <6>1. items \in Seq(Message)
            BY <1>1, <5>1 DEF Items, Payload, Disconnects
          <6>. QED BY <6>1
        <5>2. CASE type = "ACK"
          <6>1. items \in Seq(Action)
            BY <1>1, <5>2 DEF Items, Payload, Disconnects
          <6>. QED BY <6>1
        <5>3. CASE type \in Hellos \union Disconnects
          <6>1. Pairs(type, payload) \in Seq(Pair)
            BY <1>1, <5>3, HaproxyHelloFields, AgentHelloFields, DisconnectFields DEF Hellos
          <6>2. items = Pairs(type, payload)
            BY <5>3, TypesFacts DEF Items
          <6>. QED BY <6>1, <6>2
        <5>. QED BY <1>1, <5>1, <5>2, <5>3, TypesFacts
      <4> HIDE DEF items
      <4>2. PICK V : items \in Seq(V)
        BY <4>1
      <4>. QED BY <4>2, LenProperties
    <3> HIDE DEF items
    <3>2. 1 .. k \subseteq DOMAIN items
      BY <3>1
    <3>. QED BY <3>2
  <2>3. start = Join([i \in 1 .. k |-> parts[i]])
    BY <2>1 DEF FirstParts
  <2>. QED BY <2>2, <2>3
<1>3. parts = [i \in DOMAIN items |-> parts[i]]
  OBVIOUS
<1>4. CASE type = "NOTIFY"
  <2>1. items = payload /\ payload \in Seq(Message) /\ \A i \in DOMAIN payload : MessageEncodes(payload[i])
    BY <1>1, <1>4 DEF Items, Payload, PayloadEncodes, Disconnects
  <2>2. \A i \in DOMAIN payload : payload[i] \in Message
    BY <2>1
  <2>3. parts = [i \in DOMAIN payload |-> EncodeMessage(payload[i])]
    BY <1>4, <2>1 DEF ItemBytes
  <2>4. \A i \in DOMAIN items : Carries(MessageReader, parts[i], items[i])
    BY <2>1, <2>2, <2>3, MessageReads
  <2>5. start \o end = Join(parts) /\ DecodeList(start, MessageReader).ok
    BY <1>4, <2>3, PayloadFacts DEF EncodePayload
  <2>6. items \in Seq(Message)
    BY <2>1
  <2> HIDE DEF items, parts
  <2>7. parts \in Seq(Bytes) /\ Coded(MessageReader, parts, items)
    BY <1>3, <2>4, <2>6, CodedParts
  <2>8. Reads(MessageReader, Message, 1)
    BY MessageReads
  <2>9. CutList(MessageReader, Message, parts, items, start, end)
    BY <2>5, <2>6, <2>7, <2>8 DEF CutList
  <2>. QED BY <2>9, PartsCut
<1>5. CASE type = "ACK"
  <2>1. items = payload /\ payload \in Seq(Action) /\ \A i \in DOMAIN payload : ActionEncodes(payload[i])
    BY <1>1, <1>5 DEF Items, Payload, PayloadEncodes, Disconnects
  <2>2. \A i \in DOMAIN payload : payload[i] \in Action
    BY <2>1
  <2>3. parts = [i \in DOMAIN payload |-> ComposeAction(payload[i])]
    BY <1>5, <2>1 DEF ItemBytes
  <2>4. \A i \in DOMAIN items : Carries(ActionReader, parts[i], items[i])
    BY <2>1, <2>2, <2>3, ActionReads
  <2>5. start \o end = Join(parts) /\ DecodeList(start, ActionReader).ok
    BY <1>5, <2>3, PayloadFacts DEF EncodePayload
  <2>6. items \in Seq(Action)
    BY <2>1
  <2> HIDE DEF items, parts
  <2>7. parts \in Seq(Bytes) /\ Coded(ActionReader, parts, items)
    BY <1>3, <2>4, <2>6, CodedParts
  <2>8. Reads(ActionReader, Action, 1)
    BY ActionReads
  <2>9. CutList(ActionReader, Action, parts, items, start, end)
    BY <2>5, <2>6, <2>7, <2>8 DEF CutList
  <2>. QED BY <2>9, PartsCut
<1>6. CASE type \in Hellos \union Disconnects
  <2>0. type # "NOTIFY" /\ type # "ACK"
    BY <1>6, TypesFacts
  <2> DEFINE pairs == Pairs(type, payload)
  <2>1. items = pairs
    BY <2>0 DEF Items
  <2>2. pairs \in Seq(Pair)
    BY <1>1, <1>6, HaproxyHelloFields, AgentHelloFields, DisconnectFields DEF Hellos
  <2>3. \A i \in DOMAIN pairs : PairEncodes(pairs[i])
    BY <2>0 DEF PayloadEncodes
  <2>4. parts = [i \in DOMAIN pairs |-> ComposeKvPair(pairs[i])]
    <3> HIDE DEF items, pairs
    <3>1. \A pair : ItemBytes(f, pair) = ComposeKvPair(pair)
      BY <2>0 DEF ItemBytes
    <3>. QED BY <2>1, <3>1
  <2>5. start \o end = Join(parts)
    <3>1. EncodePayload(type, payload) = EncodeKvList(pairs)
      BY <2>0 DEF EncodePayload
    <3> HIDE DEF pairs, parts
    <3>. QED BY <2>4, <3>1 DEF EncodeKvList
  <2>6. DecodeList(start, PairReader).ok
    <3> DEFINE list == DecodeList(start, PairReader)
    <3>1. ~list.ok => DecodePayload(type, start) = list
      BY <1>6, PayloadFacts
    <3> HIDE DEF list
    <3>2. list.ok
      BY <3>1
    <3>. QED BY <3>2 DEF list
  <2> HIDE DEF pairs
  <2>7. \A i \in DOMAIN pairs : pairs[i] \in Pair
    BY <2>2
  <2>8. \A i \in DOMAIN items : Carries(PairReader, parts[i], items[i])
    <3> HIDE DEF items, parts
    <3>. QED BY <2>1, <2>3, <2>4, <2>7, PairReads
  <2>9. items \in Seq(Pair)
    BY <2>1, <2>2
  <2> HIDE DEF items, parts
  <2>10. parts \in Seq(Bytes) /\ Coded(PairReader, parts, items)
    BY <1>3, <2>8, <2>9, CodedParts
  <2>11. Reads(PairReader, Pair, 1)
    BY PairReads
  <2>12. CutList(PairReader, Pair, parts, items, start, end)
    BY <2>5, <2>6, <2>9, <2>10, <2>11 DEF CutList
  <2>. QED BY <2>12, PartsCut
<1>. QED BY <1>1, <1>4, <1>5, <1>6, TypesFacts

\* A body cut short that is read is cut behind an item of its payload.
LEMMA BodyCut ==
    \A f : IsFrame(f) /\ Encodes(f) =>
        \A n \in 0 .. Len(Body(f)) : DecodeBody(SubSeq(Body(f), 1, n)).ok => n \in Boundaries(f)
<1> SUFFICES ASSUME NEW f, IsFrame(f), Encodes(f), NEW n \in 0 .. Len(Body(f)),
                    DecodeBody(SubSeq(Body(f), 1, n)).ok
             PROVE  n \in Boundaries(f)
  OBVIOUS
<1> DEFINE type == f.type
           a == FrameType[type]
           m == EncodeMetadata(f.meta)
           p == EncodePayload(type, f.payload)
           body == Body(f)
           s == SubSeq(body, 1, n)
           e == SubSeq(body, n + 1, Len(body))
           t == Tail(s)
<1>1. /\ MetadataEncodes(f.meta) /\ PayloadEncodes(type, f.payload)
      /\ f.type \in Types /\ type \in DOMAIN FrameType /\ f.meta \in MetaData
  BY FrameFacts DEF Encodes, Types
<1>2. body \in Bytes /\ p \in Bytes /\ m \in Bytes /\ a \in Byte /\ Carries(MetaReader, m, f.meta)
  BY <1>1, BodyCarries, TypeCodes, MetaReads
<1>3. body = (<<a>> \o m) \o p
  BY DEF Body
<1>4. DecodeBody(s).ok
  OBVIOUS
<1> HIDE DEF a, m, p, body
<1>5. m \o p \in Bytes /\ body = <<a>> \o (m \o p)
  <2>1. <<a>> \in Bytes /\ m \in Bytes /\ p \in Bytes
    BY <1>2, BytesCons
  <2>2. body = <<a>> \o (m \o p)
    BY <1>3, <2>1, BytesAssociate
  <2>. QED BY <2>1, <2>2, BytesConcat
<1>6. s \in Bytes /\ Len(s) = n /\ e \in Bytes /\ body = s \o e
  <2>1. n \in Nat /\ n <= Len(body)
    BY <1>2, BytesFacts DEF body
  <2>2. s \in BytesOf(n) /\ e \in Bytes /\ body = s \o e
    BY <1>2, <2>1, BytesCut
  <2>. QED BY <2>2 DEF BytesOf
<1> HIDE DEF s, e
<1>7. s # <<>>
  BY <1>4, BodyFacts, GotFacts
<1>8. Head(s) = a /\ t \in Bytes /\ t \o e = m \o p /\ Len(s) = Len(t) + 1
  <2>1. Head(body) = a /\ Tail(body) = m \o p
    BY <1>2, <1>5, BytesCons
  <2>2. Head(body) = Head(s) /\ Tail(body) = t \o e
    BY <1>6, <1>7, BytesConcat
  <2>3. t \in Bytes /\ Len(t) = Len(s) - 1 /\ Len(s) \in Nat
    BY <1>6, <1>7, BytesFacts
  <2> HIDE DEF t
  <2>4. Len(s) = Len(t) + 1
    BY <2>3
  <2>. QED BY <2>1, <2>2, <2>3, <2>4
<1> DEFINE meta == DecodeMetadata(t)
           payload == DecodePayload(type, meta.rest)
<1>9. meta.ok /\ payload.ok
  <2>1. DecodeBody(s) = Following(type, t)
    BY <1>1, <1>7, <1>8, BodyFacts DEF a
  <2>2. Following(type, t) =
            IF ~meta.ok THEN meta ELSE IF ~payload.ok THEN payload
            ELSE Got(FrameOf(type, meta.value, payload.value), payload.rest)
    BY DEF Following
  <2> HIDE DEF meta, payload
  <2>. QED BY <1>4, <2>1, <2>2
<1> HIDE DEF t
<1>10. PICK q \in Bytes : t = m \o q /\ q \o e = p /\ meta = Got(f.meta, q)
  <2>0. Len(t) \in Nat /\ Len(m) \in Nat
    BY <1>2, <1>8, BytesFacts
  <2>1. \A q \in Bytes : DecodeMetadata(m \o q) = Got(f.meta, q)
    <3>1. \A q \in Bytes : m \o q \in Bytes /\ MetaReader[m \o q] = Got(f.meta, q)
      BY <1>2, BytesConcat DEF Carries
    <3>. QED BY <3>1 DEF MetaReader
  <2>2. CASE Len(t) <= Len(m)
    <3>1. Between(t, e, m, p)
      BY <1>2, <1>6, <1>8, <2>2, SplitFacts
    <3>2. PICK x \in Bytes : m = t \o x /\ e = x \o p
      BY <3>1 DEF Between
    <3>3. MetaReader[m] = Got(f.meta, <<>>)
      <4>1. <<>> \in Bytes /\ m \o <<>> = m
        BY <1>2, BytesCons, BytesConcat
      <4>. QED BY <1>2, <4>1 DEF Carries
    <3>4. MetaReader[t] # Malformed
      <4>1. MetaReader[t] = meta
        BY <1>8 DEF MetaReader
      <4> HIDE DEF meta
      <4>. QED BY <1>9, <4>1, GotFacts
    <3>5. Reads(MetaReader, MetaData, 1) /\ MetaReader[t \o x] = Got(f.meta, <<>>)
      BY <3>2, <3>3, MetaReads
    <3>6. x = <<>>
      BY <1>8, <3>4, <3>5, CarriesWhole
    <3>7. m = t /\ e = p
      BY <1>2, <1>8, <3>2, <3>6, BytesConcat
    <3>8. <<>> \in Bytes /\ t = m \o <<>> /\ <<>> \o e = p
      BY <1>2, <1>8, <3>7, BytesCons, BytesConcat
    <3>9. DecodeMetadata(t) = Got(f.meta, <<>>)
      BY <2>1, <3>8
    <3>. QED BY <3>8, <3>9
  <2>3. CASE ~(Len(t) <= Len(m))
    <3>1. Len(m) <= Len(t)
      BY <2>0, <2>3
    <3>2. Between(m, p, t, e)
      BY <1>2, <1>6, <1>8, <3>1, SplitFacts
    <3>3. PICK q \in Bytes : t = m \o q /\ p = q \o e
      BY <3>2 DEF Between
    <3>4. DecodeMetadata(t) = Got(f.meta, q)
      BY <2>1, <3>3
    <3>. QED BY <3>3, <3>4
  <2>. QED BY <2>2, <2>3
<1>11. DecodePayload(type, q).ok
  <2>1. meta.rest = q
    BY <1>10, GotFacts
  <2>. QED BY <1>9, <2>1
<1>12. PICK k \in 0 .. Len(Items(f)) : q = Join([i \in 1 .. k |-> ItemBytes(f, Items(f)[i])])
  <2>1. q \o e = EncodePayload(f.type, f.payload)
    BY <1>10 DEF p
  <2>. QED BY <1>1, <1>6, <1>11, <2>1, PayloadCut
<1>13. n = Len((<<a>> \o m) \o q)
  <2>1. (<<a>> \o m) \o q = <<a>> \o t
    <3>1. <<a>> \in Bytes /\ m \in Bytes /\ q \in Bytes /\ t = m \o q
      BY <1>2, <1>10, BytesCons
    <3>. QED BY <3>1, BytesAssociate
  <2>2. Len(<<a>> \o t) = Len(t) + 1
    BY <1>2, <1>8, BytesCons
  <2>. QED BY <1>6, <1>8, <2>1, <2>2
<1>14. n = Len(<<FrameType[f.type]>> \o EncodeMetadata(f.meta)
               \o Join([i \in 1 .. k |-> ItemBytes(f, Items(f)[i])]))
  BY <1>12, <1>13 DEF a, m
<1>. QED BY <1>14 DEF Boundaries

\* A frame cut short is an end of the stream or malformed, and a payload is cut behind
\* an item or not accepted: nothing torn is taken for a shorter frame.
THEOREM NothingTorn == Spec => []NoTornItem
<1>1. ASSUME FrameInv, Encodes(frame), NEW n \in 0 .. (Len(EncodeFrame(frame)) - 1)
      PROVE  DecodeFrame(SubSeq(EncodeFrame(frame), 1, n), Len(Body(frame)))
                 = IF n < 4 THEN Fail("SpopEOFError") ELSE Malformed
  <2> DEFINE body == Body(frame)
             size == Len(body)
             head == EncodeFrameLen(size)
             whole == EncodeFrame(frame)
             s == SubSeq(whole, 1, n)
             e == SubSeq(whole, n + 1, Len(whole))
  <2>1. /\ body \in Bytes /\ size \in Nat /\ head \in BytesOf(4) /\ head \in Bytes /\ Len(head) = 4
        /\ DecodeFrameLen(head) = size /\ whole = head \o body /\ whole \in Bytes
    BY <1>1, EncodedFacts DEF FrameInv, BytesOf
  <2>2. Len(whole) = 4 + size /\ n \in Nat /\ n < Len(whole)
    <3>1. Len(whole) = Len(head) + Len(body)
      <4> HIDE DEF whole, head, body
      <4>. QED BY <2>1, BytesConcat
    <3>2. n \in 0 .. (Len(whole) - 1)
      BY <1>1
    <3> HIDE DEF whole, size, head
    <3>. QED BY <2>1, <3>1, <3>2 DEF size
  <2> HIDE DEF body, size, head, whole
  <2>3. s \in Bytes /\ Len(s) = n /\ e \in Bytes /\ whole = s \o e
    <3>1. n <= Len(whole)
      BY <2>1, <2>2
    <3>. QED BY <2>1, <2>2, <3>1, BytesCut DEF BytesOf
  <2> HIDE DEF s, e
  <2>4. CASE n < 4
    <3>1. Len(s) < 4
      BY <2>3, <2>4
    <3>2. DecodeFrame(s, size) = Fail("SpopEOFError")
      BY <3>1, StreamFacts
    <3>. QED BY <2>4, <3>2 DEF s, size, whole, body
  <2>5. CASE ~(n < 4)
    <3>1. Len(head) <= Len(s)
      BY <2>1, <2>2, <2>3, <2>5
    <3>2. Between(head, body, s, e)
      BY <2>1, <2>3, <3>1, SplitFacts
    <3>3. PICK q \in Bytes : s = head \o q /\ body = q \o e
      BY <3>2 DEF Between
    <3>4. Len(q) < size
      <4>1. Len(s) = Len(head) + Len(q) /\ Len(q) \in Nat
        BY <2>1, <3>3, BytesConcat, BytesFacts
      <4>. QED BY <2>1, <2>2, <2>3, <4>1
    <3>5. Take(q, size) = Malformed
      BY <3>4 DEF Take
    <3>6. ~(size > size)
      BY <2>1
    <3> DEFINE taken == Take(q, size)
    <3>7. ~(size > size) /\ ~taken.ok => DecodeFrame(s, size) = taken
      BY <2>1, <3>3, StreamFacts
    <3>8. DecodeFrame(s, size) = Malformed
      BY <3>5, <3>6, <3>7, GotFacts
    <3>. QED BY <2>5, <3>8 DEF s, size, whole, body
  <2>. QED BY <2>4, <2>5
<1>2. ASSUME FrameInv, Encodes(frame), NEW n \in 0 .. (Len(Body(frame)) - 1),
             DecodeBody(SubSeq(Body(frame), 1, n)).ok
      PROVE  n \in Boundaries(frame)
  <2>1. IsFrame(frame) /\ Len(Body(frame)) \in Nat
    BY <1>2, EncodedFacts DEF FrameInv
  <2>2. n \in 0 .. Len(Body(frame))
    BY <2>1
  <2>. QED BY <1>2, <2>1, <2>2, BodyCut
<1>3. FrameInv => NoTornItem
  BY <1>1, <1>2 DEF NoTornItem
<1>. QED BY <1>3, AlwaysFrame, PTL

-----------------------------------------------------------------------------
(* The lengths of what is encoded.  ForgeHandler decides by FrameLengths alone;  *)
(* here its constants are held against the bytes.                              *)

\* Where the groups of a varint end.
LEMMA GroupsLen ==
    ASSUME NEW n \in Nat
    PROVE  /\ Groups[n] \in Bytes
           /\ n < 128 => Len(Groups[n]) = 1
           /\ ~(n < 128) => /\ (n - 128) \div 128 \in Nat
                            /\ Len(Groups[n]) = 1 + Len(Groups[(n - 128) \div 128])
<1>1. Groups[n] \in Bytes
  BY GroupsFacts
<1>2. CASE n < 128
  <2>1. Groups[n] = <<n>>
    BY <1>2, GroupsFacts
  <2>. QED BY <1>1, <1>2, <2>1
<1>3. CASE ~(n < 128)
  <2> DEFINE low == 128 + (n % 128)
             high == (n - 128) \div 128
  <2>1. low \in Nat /\ low < 256 /\ high \in Nat
    BY <1>3
  <2>2. Groups[n] = <<low>> \o Groups[high]
    BY <1>3, GroupsFacts
  <2>3. Groups[high] \in Bytes /\ low \in Byte
    BY <2>1, GroupsFacts, ByteFacts
  <2>4. Len(Groups[n]) = 1 + Len(Groups[high])
    <3> HIDE DEF low, high
    <3>. QED BY <2>2, <2>3, BytesCons, BytesFacts
  <2>. QED BY <1>1, <1>3, <2>1, <2>4
<1>. QED BY <1>2, <1>3

\* As far as FrameLengths counts.
Countable == {n \in Nat : n < 4328786160}

\* The steps of VarintLen.
LEMMA VarintLenSteps ==
    ASSUME NEW n \in Nat
    PROVE  /\ n < 240 => VarintLen(n) = 1
           /\ 240 <= n /\ n < 2288 => VarintLen(n) = 2
           /\ 2288 <= n /\ n < 264432 => VarintLen(n) = 3
           /\ 264432 <= n /\ n < 33818864 => VarintLen(n) = 4
           /\ 33818864 <= n => VarintLen(n) = 5
<1> DEFINE T == {t \in {240, 2288, 264432, 33818864} : n >= t}
           S1 == {240}
           S2 == S1 \union {2288}
           S3 == S2 \union {264432}
           S4 == S3 \union {33818864}
<1>1. IsFiniteSet({}) /\ Cardinality({}) = 0
  BY FS_EmptySet, Zenon
<1>2. IsFiniteSet(S1) /\ Cardinality(S1) = 1
  BY FS_Singleton, Zenon
<1>3. IsFiniteSet(S2) /\ Cardinality(S2) = 2
  <2>1. 2288 \notin S1
    BY SMTT(30)
  <2> HIDE DEF S1
  <2>. QED BY <1>2, <2>1, FS_AddElement, SMTT(30)
<1>4. IsFiniteSet(S3) /\ Cardinality(S3) = 3
  <2>1. 264432 \notin S2
    BY SMTT(30)
  <2> HIDE DEF S2
  <2>. QED BY <1>3, <2>1, FS_AddElement, SMTT(30)
<1>5. Cardinality(S4) = 4
  <2>1. 33818864 \notin S3
    BY SMTT(30)
  <2> HIDE DEF S3
  <2>. QED BY <1>4, <2>1, FS_AddElement, SMTT(30)
<1>6. /\ n < 240 => T = {}
      /\ 240 <= n /\ n < 2288 => T = S1
      /\ 2288 <= n /\ n < 264432 => T = S2
      /\ 264432 <= n /\ n < 33818864 => T = S3
      /\ 33818864 <= n => T = S4
  <2>1. ASSUME n < 240 PROVE T = {}
    BY <2>1, SMTT(30)
  <2>2. ASSUME 240 <= n, n < 2288 PROVE T = S1
    BY <2>2, SMTT(30)
  <2>3. ASSUME 2288 <= n, n < 264432 PROVE T = S2
    BY <2>3, SMTT(30)
  <2>4. ASSUME 264432 <= n, n < 33818864 PROVE T = S3
    BY <2>4, SMTT(30)
  <2>5. ASSUME 33818864 <= n PROVE T = S4
    BY <2>5, SMTT(30)
  <2> HIDE DEF T, S1, S2, S3, S4
  <2>. QED BY <2>1, <2>2, <2>3, <2>4, <2>5, SMTT(30)
<1>7. \A c \in Nat : Cardinality(T) = c => VarintLen(n) = 1 + c
  BY SMTT(30) DEF VarintLen
<1> HIDE DEF T, S1, S2, S3, S4
<1>8. /\ Cardinality(T) = 0 => VarintLen(n) = 1
      /\ Cardinality(T) = 1 => VarintLen(n) = 2
      /\ Cardinality(T) = 2 => VarintLen(n) = 3
      /\ Cardinality(T) = 3 => VarintLen(n) = 4
      /\ Cardinality(T) = 4 => VarintLen(n) = 5
  BY <1>7, SMTT(30)
<1>. QED BY <1>1, <1>2, <1>3, <1>4, <1>5, <1>6, <1>8, SMTT(30)

\* The groups of a number, as many as VarintLen leaves room for.
LEMMA GroupsSteps ==
    ASSUME NEW n \in Nat
    PROVE  /\ n < 128 => Len(Groups[n]) = 1
           /\ 128 <= n /\ n < 16512 => Len(Groups[n]) = 2
           /\ 16512 <= n /\ n < 2113664 => Len(Groups[n]) = 3
           /\ 2113664 <= n /\ n < 270549120 => Len(Groups[n]) = 4
<1>1. \A m \in Nat : m < 128 => Len(Groups[m]) = 1
  BY GroupsLen, SMTT(30)
<1>2. \A m \in Nat : 128 <= m => /\ (m - 128) \div 128 \in Nat
                                 /\ Len(Groups[m]) = 1 + Len(Groups[(m - 128) \div 128])
  BY GroupsLen, SMTT(30)
<1>3. \A m \in Nat : 128 <= m /\ m < 16512 => Len(Groups[m]) = 2
  <2> SUFFICES ASSUME NEW m \in Nat, 128 <= m, m < 16512 PROVE Len(Groups[m]) = 2
    BY SMTT(30)
  <2> DEFINE k == (m - 128) \div 128
  <2>1. k \in Nat /\ k < 128
    BY SMTT(30)
  <2>2. Len(Groups[m]) = 1 + Len(Groups[k])
    BY <1>2, SMTT(30)
  <2>3. Len(Groups[k]) = 1
    BY <1>1, <2>1, SMTT(30)
  <2>. QED BY <2>2, <2>3, SMTT(30)
<1>4. \A m \in Nat : 16512 <= m /\ m < 2113664 => Len(Groups[m]) = 3
  <2> SUFFICES ASSUME NEW m \in Nat, 16512 <= m, m < 2113664 PROVE Len(Groups[m]) = 3
    BY SMTT(30)
  <2> DEFINE k == (m - 128) \div 128
  <2>1. k \in Nat /\ 128 <= k /\ k < 16512
    BY SMTT(30)
  <2>2. Len(Groups[m]) = 1 + Len(Groups[k])
    BY <1>2, SMTT(30)
  <2>3. Len(Groups[k]) = 2
    BY <1>3, <2>1, SMTT(30)
  <2>. QED BY <2>2, <2>3, SMTT(30)
<1>5. \A m \in Nat : 2113664 <= m /\ m < 270549120 => Len(Groups[m]) = 4
  <2> SUFFICES ASSUME NEW m \in Nat, 2113664 <= m, m < 270549120 PROVE Len(Groups[m]) = 4
    BY SMTT(30)
  <2> DEFINE k == (m - 128) \div 128
  <2>1. k \in Nat /\ 16512 <= k /\ k < 2113664
    BY SMTT(30)
  <2>2. Len(Groups[m]) = 1 + Len(Groups[k])
    BY <1>2, SMTT(30)
  <2>3. Len(Groups[k]) = 3
    BY <1>4, <2>1, SMTT(30)
  <2>. QED BY <2>2, <2>3, SMTT(30)
<1>. QED BY <1>1, <1>3, <1>4, <1>5, SMTT(30)

\* _compose_varint takes as many bytes as FrameLengths says.
LEMMA ComposedVarintLen ==
    \A n \in Countable : ComposeVarint(n) \in Bytes /\ Len(ComposeVarint(n)) = VarintLen(n)
<1> SUFFICES ASSUME NEW n \in Countable
             PROVE  ComposeVarint(n) \in Bytes /\ Len(ComposeVarint(n)) = VarintLen(n)
  BY SMTT(30)
<1>1. n \in Nat /\ n < 4328786160
  BY SMTT(30) DEF Countable
<1>2. ComposeVarint(n) \in Bytes
  BY <1>1, VarintCarries, SMTT(30) DEF Carries
<1>3. CASE n < 240
  <2>1. ComposeVarint(n) = <<n>>
    BY <1>3, SMTT(30) DEF ComposeVarint
  <2>. QED BY <1>1, <1>2, <1>3, <2>1, VarintLenSteps, SMTT(30)
<1>4. CASE ~(n < 240)
  <2> DEFINE low == 240 + (n % 16)
             high == (n - 240) \div 16
  <2>1. low \in Nat /\ low < 256 /\ high \in Nat
    BY <1>1, <1>4, SMTT(30)
  <2>2. /\ n < 2288 => high < 128
        /\ 2288 <= n /\ n < 264432 => 128 <= high /\ high < 16512
        /\ 264432 <= n /\ n < 33818864 => 16512 <= high /\ high < 2113664
        /\ 33818864 <= n => 2113664 <= high /\ high < 270549120
    BY <1>1, <1>4, SMTT(30)
  <2>3. ComposeVarint(n) = <<low>> \o Groups[high]
    BY <1>4, SMTT(30) DEF ComposeVarint
  <2> HIDE DEF low, high
  <2>4. low \in Byte /\ Groups[high] \in Bytes
    BY <2>1, ByteFacts, GroupsLen, SMTT(30)
  <2>5. Len(ComposeVarint(n)) = 1 + Len(Groups[high])
    BY <2>3, <2>4, BytesCons, BytesFacts, SMTT(30)
  <2>6. ComposeVarint(n) \in Bytes
    BY <1>2, SMTT(30)
  <2>7. CASE n < 2288
    <3>1. Len(Groups[high]) = 1 /\ VarintLen(n) = 2
      BY <1>1, <1>4, <2>1, <2>2, <2>7, GroupsSteps, VarintLenSteps, SMTT(30)
    <3>. QED BY <2>5, <2>6, <3>1, SMTT(30)
  <2>8. CASE 2288 <= n /\ n < 264432
    <3>1. Len(Groups[high]) = 2 /\ VarintLen(n) = 3
      BY <1>1, <1>4, <2>1, <2>2, <2>8, GroupsSteps, VarintLenSteps, SMTT(30)
    <3>. QED BY <2>5, <2>6, <3>1, SMTT(30)
  <2>9. CASE 264432 <= n /\ n < 33818864
    <3>1. Len(Groups[high]) = 3 /\ VarintLen(n) = 4
      BY <1>1, <1>4, <2>1, <2>2, <2>9, GroupsSteps, VarintLenSteps, SMTT(30)
    <3>. QED BY <2>5, <2>6, <3>1, SMTT(30)
  <2>10. CASE 33818864 <= n
    <3>1. Len(Groups[high]) = 4 /\ VarintLen(n) = 5
      BY <1>1, <1>4, <2>1, <2>2, <2>10, GroupsSteps, VarintLenSteps, SMTT(30)
    <3>. QED BY <2>5, <2>6, <3>1, SMTT(30)
  <2>. QED BY <1>1, <2>7, <2>8, <2>9, <2>10, SMTT(30)
<1>. QED BY <1>3, <1>4, SMTT(30)

\* The metadata takes four bytes and those of its ids.
LEMMA MetadataLen ==
    ASSUME NEW meta \in MetaData, MetadataEncodes(meta)
    PROVE  /\ IdBytes(meta) \in Nat
           /\ EncodeMetadata(meta) \in Bytes /\ Len(EncodeMetadata(meta)) = 4 + IdBytes(meta)
<1> DEFINE flags == (IF meta.fin THEN 1 ELSE 0) + (IF meta.abort THEN 2 ELSE 0)
           first == <<0, 0, 0, flags>>
           stream == ComposeVarint(meta.stream)
           id == ComposeVarint(meta.frame)
<1>1. meta.stream \in Nat /\ meta.frame \in Nat
  BY DEF MetaData, Id, MetadataEncodes
<1>2. first \in Bytes /\ Len(first) = 4
  <2>1. flags \in Byte /\ 0 \in Byte
    BY DEF Byte
  <2> HIDE DEF flags
  <2>2. \A i, j, k, l \in Byte : <<i, j, k, l>> \in Seq(Byte) /\ Len(<<i, j, k, l>>) = 4
    OBVIOUS
  <2>. QED BY <2>1, <2>2 DEF Bytes
<1>3. stream \in Bytes /\ id \in Bytes
  BY <1>1, VarintCarries DEF Carries
<1>4. EncodeMetadata(meta) = (first \o stream) \o id
  BY DEF EncodeMetadata
<1>5. IdBytes(meta) = Len(stream) + Len(id)
  BY DEF IdBytes
<1> HIDE DEF flags, first, stream, id
<1>6. Len(stream) \in Nat /\ Len(id) \in Nat
  BY <1>3, BytesFacts
<1> DEFINE front == first \o stream
<1>7. front \in Bytes /\ Len(front) = 4 + Len(stream)
  <2>1. front \in Bytes /\ Len(front) = Len(first) + Len(stream)
    BY <1>2, <1>3, BytesConcat, Zenon
  <2> HIDE DEF front
  <2>. QED BY <1>2, <2>1, Zenon
<1>8. EncodeMetadata(meta) = front \o id
  BY <1>4
<1> HIDE DEF front
<1>9. front \o id \in Bytes /\ Len(front \o id) = Len(front) + Len(id)
  BY <1>3, <1>7, BytesConcat, Zenon
<1>10. EncodeMetadata(meta) \in Bytes /\ Len(EncodeMetadata(meta)) = (4 + Len(stream)) + Len(id)
  BY <1>7, <1>8, <1>9, Zenon
<1>11. \A a, b \in Nat : a + b \in Nat /\ (4 + a) + b = 4 + (a + b)
  OBVIOUS
<1>. QED BY <1>5, <1>6, <1>10, <1>11, Zenon

\* A frame outside any stream has a header of as many bytes as FrameLengths says.
LEMMA HeaderFacts ==
    /\ MetadataEncodes(Constructed) /\ Constructed \in MetaData
    /\ IdBytes(Constructed) = ZeroIds /\ ZeroIds \in Nat
    /\ HeaderLen(ZeroIds) \in Nat
<1>1. MetadataEncodes(Constructed)
  BY DEF MetadataEncodes, Constructed
<1>2. Constructed \in MetaData
  <2>1. 0 \in Id
    BY WidthAssumption DEF Id, InRange, Least, Greatest, Half, IsSigned, DataType
  <2>. QED BY <2>1 DEF Constructed, MetaData
<1>3. ZeroIds = 2
  <2>1. VarintLen(0) = 1
    BY VarintLenShort
  <2>. QED BY <2>1 DEF ZeroIds
<1>4. IdBytes(Constructed) = 2
  <2>1. ComposeVarint(0) = <<0>>
    BY DEF ComposeVarint
  <2>2. Constructed.stream = 0 /\ Constructed.frame = 0
    BY DEF Constructed
  <2>3. IdBytes(Constructed) = Len(<<0>>) + Len(<<0>>)
    BY <2>1, <2>2, Zenon DEF IdBytes
  <2>4. Len(<<0>>) + Len(<<0>>) = 2
    OBVIOUS
  <2>. QED BY <2>3, <2>4
<1>5. HeaderLen(ZeroIds) \in Nat
  BY <1>3 DEF HeaderLen
<1>. QED BY <1>1, <1>2, <1>3, <1>4, <1>5

\* A frame takes a header with its ids, and its payload.
LEMMA BodyLen ==
    ASSUME NEW f, f.type \in DOMAIN FrameType, f.meta \in MetaData, MetadataEncodes(f.meta),
           EncodePayload(f.type, f.payload) \in Bytes
    PROVE  /\ Body(f) \in Bytes
           /\ Len(Body(f)) = HeaderLen(IdBytes(f.meta)) + Len(EncodePayload(f.type, f.payload))
<1> DEFINE code == FrameType[f.type]
           meta == EncodeMetadata(f.meta)
           payload == EncodePayload(f.type, f.payload)
           ids == IdBytes(f.meta)
<1>1. code \in Byte
  BY TypeCodes
<1>2. meta \in Bytes /\ Len(meta) = 4 + ids /\ ids \in Nat
  BY MetadataLen
<1>3. Body(f) = (<<code>> \o meta) \o payload
  BY DEF Body
<1>4. payload \in Bytes /\ Len(payload) \in Nat
  BY BytesFacts
<1>5. HeaderLen(ids) = 1 + 4 + ids
  BY DEF HeaderLen
<1> HIDE DEF code, meta, payload, ids
<1>6. <<code>> \o meta \in Bytes /\ Len(<<code>> \o meta) = 1 + 4 + ids
  <2>1. <<code>> \o meta \in Bytes /\ Len(<<code>> \o meta) = Len(meta) + 1
    BY <1>1, <1>2, BytesCons, Zenon
  <2>. QED BY <1>2, <2>1
<1>7. Body(f) \in Bytes /\ Len(Body(f)) = HeaderLen(ids) + Len(payload)
  BY <1>3, <1>4, <1>5, <1>6, BytesConcat
<1>. QED BY <1>7 DEF payload, ids

-----------------------------------------------------------------------------
(* The salvage over bytes *)

AllActionsEncode(list) == \A i \in DOMAIN list : ActionEncodes(list[i])
ActionBytes(list) == Join([i \in DOMAIN list |-> ComposeAction(list[i])])

\* One part more.
LEMMA JoinAppend ==
    \A parts \in Seq(Bytes), part \in Bytes :
        Join(parts) \in Bytes /\ Join(Append(parts, part)) = Join(parts) \o part
<1> DEFINE Good(s) == \A part \in Bytes : Join(Append(s, part)) = Join(s) \o part
           T == {s \in Seq(Bytes) : Good(s)}
<1>1. ASSUME NEW s \in Seq(Bytes), \A t \in Seq(Bytes) : Len(t) < Len(s) => t \in T,
             NEW part \in Bytes
      PROVE  Join(Append(s, part)) = Join(s) \o part
  <2>1. CASE s = <<>>
    <3>1. Append(s, part) \in Seq(Bytes) /\ Append(s, part) # <<>>
          /\ Head(Append(s, part)) = part /\ Tail(Append(s, part)) = <<>>
      BY <2>1
    <3>2. Join(Append(s, part)) = part \o Join(<<>>)
      BY <3>1, JoinFacts
    <3>. QED BY <2>1, <3>2, JoinFacts, BytesConcat
  <2>2. CASE s # <<>>
    <3> DEFINE r == Append(s, part)
    <3>1. Head(s) \in Bytes /\ Tail(s) \in Seq(Bytes) /\ Len(Tail(s)) < Len(s)
      <4>1. Head(s) \in Bytes /\ Tail(s) \in Seq(Bytes) /\ Len(Tail(s)) = Len(s) - 1
        BY <2>2, HeadTail
      <4>. QED BY <4>1
    <3>2. r \in Seq(Bytes) /\ r # <<>> /\ Head(r) = Head(s) /\ Tail(r) = Append(Tail(s), part)
      BY <2>2
    <3>3. Join(Append(Tail(s), part)) = Join(Tail(s)) \o part
      <4>1. Tail(s) \in T
        BY <1>1, <3>1
      <4>. QED BY <4>1
    <3> HIDE DEF r
    <3>4. Join(r) = Head(s) \o (Join(Tail(s)) \o part)
      BY <3>2, <3>3, JoinFacts
    <3>5. Join(s) = Head(s) \o Join(Tail(s)) /\ Join(Tail(s)) \in Bytes
      BY <2>2, <3>1, JoinFacts
    <3>6. (Head(s) \o Join(Tail(s))) \o part = Head(s) \o (Join(Tail(s)) \o part)
      BY <3>1, <3>5, BytesAssociate
    <3>. QED BY <3>4, <3>5, <3>6 DEF r
  <2>. QED BY <2>1, <2>2
<1>2. Seq(Bytes) \subseteq T
  <2>1. \A s \in Seq(Bytes) : (\A t \in Seq(Bytes) : Len(t) < Len(s) => t \in T) => s \in T
    BY <1>1
  <2> HIDE DEF T
  <2>. QED BY <2>1, LengthInduction
<1>3. \A s \in Seq(Bytes) : Good(s)
  <2>1. \A s \in T : Good(s)
    OBVIOUS
  <2> HIDE DEF T, Good
  <2>. QED BY <1>2, <2>1
<1>. QED BY <1>3, JoinFacts

\* An action has a wire form of some length.
LEMMA ActionBytesFacts ==
    ASSUME NEW action \in Action, ActionEncodes(action)
    PROVE  ComposeAction(action) \in Bytes /\ Len(ComposeAction(action)) \in Nat
<1>1. ComposeAction(action) \in Bytes
  BY ActionReads DEF Carries
<1>. QED BY <1>1, BytesFacts

\* One action more.
LEMMA ActionsGrow ==
    ASSUME NEW list \in Seq(Action), NEW action \in Action
    PROVE  LET more == Append(list, action) IN
           /\ AllActionsEncode(more) <=> AllActionsEncode(list) /\ ActionEncodes(action)
           /\ AllActionsEncode(more) =>
                  /\ ActionBytes(list) \in Bytes /\ ActionBytes(more) \in Bytes
                  /\ Len(ActionBytes(more)) = Len(ActionBytes(list)) + Len(ComposeAction(action))
<1> DEFINE more == Append(list, action)
           n == Len(list)
           parts == [i \in DOMAIN list |-> ComposeAction(list[i])]
<1>1. /\ n \in Nat /\ DOMAIN list = 1 .. n /\ DOMAIN more = 1 .. (n + 1)
      /\ more[n + 1] = action /\ \A i \in 1 .. n : more[i] = list[i] /\ list[i] \in Action
  OBVIOUS
<1> HIDE DEF more, n
<1>2. AllActionsEncode(more) <=> AllActionsEncode(list) /\ ActionEncodes(action)
  <2>1. \A i \in 1 .. (n + 1) : i \in 1 .. n \/ i = n + 1
    BY <1>1
  <2>2. n + 1 \in 1 .. (n + 1) /\ \A i \in 1 .. n : i \in 1 .. (n + 1)
    BY <1>1
  <2>. QED BY <1>1, <2>1, <2>2 DEF AllActionsEncode
<1>3. ASSUME AllActionsEncode(more)
      PROVE  /\ ActionBytes(list) \in Bytes /\ ActionBytes(more) \in Bytes
             /\ Len(ActionBytes(more)) = Len(ActionBytes(list)) + Len(ComposeAction(action))
  <2>1. ComposeAction(action) \in Bytes /\ \A i \in 1 .. n : ComposeAction(list[i]) \in Bytes
    BY <1>1, <1>2, <1>3, ActionBytesFacts DEF AllActionsEncode
  <2>2. parts \in Seq(Bytes) /\ Len(parts) = n /\ \A i \in 1 .. n : parts[i] = ComposeAction(list[i])
    BY <1>1, <2>1
  <2>3. [i \in DOMAIN more |-> ComposeAction(more[i])] = Append(parts, ComposeAction(action))
    <3> DEFINE left == [i \in DOMAIN more |-> ComposeAction(more[i])]
               right == Append(parts, ComposeAction(action))
    <3>1. /\ right \in Seq(Bytes) /\ Len(right) = n + 1 /\ right[n + 1] = ComposeAction(action)
          /\ \A i \in 1 .. n : right[i] = ComposeAction(list[i])
      <4> HIDE DEF parts
      <4>. QED BY <1>1, <2>1, <2>2
    <3>2. \A i \in 1 .. (n + 1) : ComposeAction(more[i]) = right[i]
      <4> HIDE DEF right
      <4>1. \A i \in 1 .. (n + 1) : i \in 1 .. n \/ i = n + 1
        BY <1>1
      <4>. QED BY <1>1, <3>1, <4>1
    <3>3. right = [i \in 1 .. (n + 1) |-> right[i]]
      <4> HIDE DEF right
      <4>. QED BY <3>1
    <3> HIDE DEF right
    <3>. QED BY <1>1, <3>2, <3>3
  <2>4. ActionBytes(list) = Join(parts) /\ ActionBytes(more) = Join(Append(parts, ComposeAction(action)))
    BY <2>3 DEF ActionBytes
  <2> HIDE DEF parts
  <2>5. /\ Join(parts) \in Bytes
        /\ Join(Append(parts, ComposeAction(action))) = Join(parts) \o ComposeAction(action)
    BY <2>1, <2>2, JoinAppend, Zenon
  <2>6. /\ Join(parts) \o ComposeAction(action) \in Bytes
        /\ Len(Join(parts) \o ComposeAction(action)) = Len(Join(parts)) + Len(ComposeAction(action))
    BY <2>1, <2>5, BytesConcat, Zenon
  <2>. QED BY <2>4, <2>5, <2>6
<1>. QED BY <1>2, <1>3 DEF more

\* The actions of list at the positions K, in their order, of the first k for every k.
Picked(list, K) ==
    LET picked[k \in 0 .. Len(list)] ==
            IF k = 0 THEN <<>>
            ELSE IF k \in K THEN Append(picked[k - 1], list[k]) ELSE picked[k - 1]
    IN  picked

LEMMA PickedFacts ==
    ASSUME NEW A, NEW list \in Seq(A), NEW K
    PROVE  LET picked == Picked(list, K) IN
           /\ picked \in [0 .. Len(list) -> Seq(A)]
           /\ picked[0] = <<>>
           /\ \A k \in 1 .. Len(list) :
                  picked[k] = IF k \in K THEN Append(picked[k - 1], list[k]) ELSE picked[k - 1]
<1> DEFINE n == Len(list)
           V == Seq(A)
           More(v, k) == IF k \in K THEN Append(v, list[k]) ELSE v
           step == [p \in (0 .. n) \X V |-> IF p[1] = 0 THEN <<>> ELSE More(p[2], p[1])]
           F(f) == [k \in 0 .. n |-> IF k = 0 THEN <<>> ELSE More(f[k - 1], k)]
<1>1. n \in Nat /\ <<>> \in V /\ \A k \in 1 .. n : list[k] \in A
  OBVIOUS
<1>2. \A v \in V, k \in 1 .. n : More(v, k) \in V
  BY <1>1
<1> HIDE DEF n, V, More
<1>3. step \in [(0 .. n) \X V -> V]
  <2> SUFFICES ASSUME NEW p \in (0 .. n) \X V
               PROVE  (IF p[1] = 0 THEN <<>> ELSE More(p[2], p[1])) \in V
    OBVIOUS
  <2>1. CASE p[1] = 0
    BY <1>1, <2>1
  <2>2. CASE p[1] # 0
    <3>1. p[1] \in 1 .. n /\ p[2] \in V
      BY <2>2, <1>1
    <3>. QED BY <3>1, <1>2, <2>2
  <2>. QED BY <2>1, <2>2
<1>4. PICK g \in [0 .. n -> V] : Computes(g, n, <<>>, step)
  <2> HIDE DEF step
  <2>. QED BY <1>1, <1>3, PrefixRecursion
<1>5. ASSUME NEW k \in 1 .. n PROVE step[<<k, g[k - 1]>>] = More(g[k - 1], k)
  <2>1. k \in 0 .. n /\ k # 0 /\ k - 1 \in 0 .. n
    BY <1>1
  <2>2. <<k, g[k - 1]>> \in (0 .. n) \X V
    BY <2>1
  <2>. QED BY <2>1, <2>2
<1>6. g = F(g)
  <2>1. ASSUME NEW k \in 0 .. n PROVE g[k] = IF k = 0 THEN <<>> ELSE More(g[k - 1], k)
    <3>1. g[k] = IF k = 0 THEN <<>> ELSE step[<<k, g[k - 1]>>]
      <4> HIDE DEF step
      <4>. QED BY <1>4 DEF Computes
    <3> HIDE DEF step
    <3>. QED BY <1>1, <1>5, <3>1
  <2> HIDE DEF step
  <2>. QED BY <2>1
<1> DEFINE picked == Picked(list, K)
<1>7. picked = F(picked)
  BY <1>6 DEF Picked, n, More
<1>8. picked[0] = <<>> /\ \A k \in 1 .. n : picked[k] = More(picked[k - 1], k)
  <2>1. ASSUME NEW f, f = F(f)
        PROVE  f[0] = <<>> /\ \A k \in 1 .. n : f[k] = More(f[k - 1], k)
    <3>1. \A k \in 0 .. n : f[k] = IF k = 0 THEN <<>> ELSE More(f[k - 1], k)
      BY <2>1
    <3>. QED BY <1>1, <3>1
  <2> HIDE DEF F, picked
  <2>. QED BY <1>7, <2>1
<1> DEFINE T == {k \in 0 .. n : picked[k] \in V}
<1>9. 0 .. n \subseteq T
  <2>1. 0 \in T
    BY <1>1, <1>8
  <2>2. ASSUME NEW k \in 1 .. n, k - 1 \in T PROVE k \in T
    <3>1. k \in 0 .. n /\ picked[k - 1] \in V
      BY <1>1, <2>2
    <3>2. picked[k] = More(picked[k - 1], k)
      BY <1>8
    <3> HIDE DEF picked
    <3>. QED BY <1>2, <3>1, <3>2
  <2> HIDE DEF T
  <2>. QED BY <1>1, <2>1, <2>2, PrefixInduction
<1>10. picked \in [0 .. n -> V]
  <2> HIDE DEF picked
  <2>. QED BY <1>7, <1>9
<1>. QED BY <1>8, <1>10 DEF n, V, More

\* What the loop sees of a list of actions.
TriedActions == {Tried(action) : action \in Action}
TriedList(list) == [i \in DOMAIN list |-> Tried(list[i])]

LEMMA TriedFacts ==
    /\ \A t \in TriedActions : t.len \in Nat
    /\ \A list \in Seq(Action) :
           /\ TriedList(list) \in Seq(TriedActions) /\ Len(TriedList(list)) = Len(list)
           /\ \A i \in 1 .. Len(list) :
                  /\ TriedList(list)[i].action = list[i]
                  /\ TriedList(list)[i].enc = "ok" <=> ActionEncodes(list[i])
                  /\ ActionEncodes(list[i]) => TriedList(list)[i].len = Len(ComposeAction(list[i]))
<1>1. ASSUME NEW action \in Action
      PROVE  /\ Tried(action).len \in Nat /\ Tried(action).action = action
             /\ Tried(action).enc = "ok" <=> ActionEncodes(action)
             /\ ActionEncodes(action) => Tried(action).len = Len(ComposeAction(action))
  BY ActionBytesFacts DEF Tried
<1>2. ASSUME NEW list \in Seq(Action)
      PROVE  /\ TriedList(list) \in Seq(TriedActions) /\ Len(TriedList(list)) = Len(list)
             /\ \A i \in 1 .. Len(list) : TriedList(list)[i] = Tried(list[i]) /\ list[i] \in Action
  BY DEF TriedList, TriedActions
<1>3. \A t \in TriedActions : t.len \in Nat
  BY <1>1, Zenon DEF TriedActions
<1>4. ASSUME NEW list \in Seq(Action), NEW i \in 1 .. Len(list)
      PROVE  /\ TriedList(list)[i].action = list[i]
             /\ TriedList(list)[i].enc = "ok" <=> ActionEncodes(list[i])
             /\ ActionEncodes(list[i]) => TriedList(list)[i].len = Len(ComposeAction(list[i]))
  <2>1. TriedList(list)[i] = Tried(list[i]) /\ list[i] \in Action
    BY <1>2
  <2>. QED BY <1>1, <2>1, Zenon
<1>. QED BY <1>2, <1>3, <1>4, Zenon

\* The selected actions encode exactly if each of them does, to as many bytes as the loop counts.
LEMMA PickedBytes ==
    ASSUME NEW list \in Seq(Action), NEW K \in SUBSET (1 .. Len(list))
    PROVE  LET last  == Picked(list, K)[Len(list)]
               tried == TriedList(list)
           IN  /\ last \in Seq(Action)
               /\ AllActionsEncode(last) <=> \A i \in K : tried[i].enc = "ok"
               /\ AllActionsEncode(last) =>
                      /\ ActionBytes(last) \in Bytes
                      /\ Len(ActionBytes(last)) = ActionsLen(Masked(tried, K))
<1> DEFINE n == Len(list)
           tried == TriedList(list)
           picked == Picked(list, K)
           total == Totals(Masked(tried, K))
           Whole(k) == AllActionsEncode(picked[k]) <=> \A i \in K : i <= k => ActionEncodes(list[i])
           Counted(k) == AllActionsEncode(picked[k]) =>
                             ActionBytes(picked[k]) \in Bytes /\ Len(ActionBytes(picked[k])) = total[k]
           T == {k \in 0 .. n : Whole(k) /\ Counted(k)}
<1>1. n \in Nat /\ \A k \in 1 .. n : list[k] \in Action
  OBVIOUS
<1>2. /\ Len(tried) = n /\ tried \in Seq(TriedActions)
      /\ \A i \in 1 .. n : /\ tried[i].enc = "ok" <=> ActionEncodes(list[i])
                           /\ ActionEncodes(list[i]) => tried[i].len = Len(ComposeAction(list[i]))
  BY TriedFacts
<1>3. /\ \A k \in 0 .. n : picked[k] \in Seq(Action)
      /\ picked[0] = <<>>
      /\ \A k \in 1 .. n : picked[k] = IF k \in K THEN Append(picked[k - 1], list[k]) ELSE picked[k - 1]
  BY PickedFacts
<1> HIDE DEF tried, picked
<1>4. /\ Len(Masked(tried, K)) = n
      /\ total[0] = 0 /\ \A k \in 0 .. n : total[k] \in Nat
      /\ \A k \in 1 .. n : total[k] = total[k - 1] + (IF k \in K THEN tried[k].len ELSE 0)
  <2>1. \A t \in TriedActions : t.len \in Nat
    BY TriedFacts
  <2>2. /\ Len(Masked(tried, K)) = Len(tried)
        /\ total[0] = 0 /\ \A k \in 0 .. Len(tried) : total[k] \in Nat
        /\ \A k \in 1 .. Len(tried) : total[k] = total[k - 1] + (IF k \in K THEN tried[k].len ELSE 0)
    BY <1>2, <2>1, MaskedFacts
  <2> HIDE DEF total
  <2>. QED BY <1>2, <2>2
<1> HIDE DEF total
<1>5. 0 \in T
  <2>1. AllActionsEncode(<<>>)
    BY DEF AllActionsEncode
  <2>2. \A i \in K : ~(i <= 0)
    BY <1>1 DEF n
  <2>3. ActionBytes(<<>>) = <<>>
    <3>1. [i \in DOMAIN <<>> |-> ComposeAction(<<>>[i])] = <<>>
      OBVIOUS
    <3>2. Join(<<>>) = <<>>
      BY JoinFacts
    <3>. QED BY <3>1, <3>2 DEF ActionBytes
  <2>4. <<>> \in Bytes /\ Len(<<>>) = 0
    BY BytesCons
  <2>. QED BY <1>1, <1>3, <1>4, <2>1, <2>2, <2>3, <2>4
<1>6. ASSUME NEW k \in 1 .. n, k - 1 \in T PROVE k \in T
  <2>1. k \in 0 .. n /\ k - 1 \in 0 .. n /\ picked[k - 1] \in Seq(Action) /\ list[k] \in Action
    BY <1>1, <1>3
  <2>2. Whole(k - 1) /\ Counted(k - 1)
    BY <1>6
  <2>3. \A i \in K : i <= k <=> i <= k - 1 \/ i = k
    BY <1>1, <2>1 DEF n
  <2>4. CASE k \in K
    <3>1. picked[k] = Append(picked[k - 1], list[k])
      BY <1>3, <2>4
    <3>2. /\ AllActionsEncode(picked[k]) <=> AllActionsEncode(picked[k - 1]) /\ ActionEncodes(list[k])
          /\ AllActionsEncode(picked[k]) =>
                 /\ ActionBytes(picked[k - 1]) \in Bytes /\ ActionBytes(picked[k]) \in Bytes
                 /\ Len(ActionBytes(picked[k])) = Len(ActionBytes(picked[k - 1])) + Len(ComposeAction(list[k]))
      BY <2>1, <3>1, ActionsGrow
    <3>3. Whole(k)
      BY <2>2, <2>3, <2>4, <3>2
    <3>4. ActionEncodes(list[k]) => total[k] = total[k - 1] + Len(ComposeAction(list[k]))
      BY <1>2, <1>4, <2>4
    <3>5. Counted(k)
      BY <2>2, <3>2, <3>4
    <3>. QED BY <2>1, <3>3, <3>5
  <2>5. CASE k \notin K
    <3>1. picked[k] = picked[k - 1]
      BY <1>3, <2>5
    <3>2. total[k] = total[k - 1]
      <4>1. total[k] = total[k - 1] + 0
        BY <1>4, <2>5
      <4>. QED BY <1>4, <2>1, <4>1
    <3>3. \A i \in K : i <= k <=> i <= k - 1
      BY <2>3, <2>5
    <3>4. Whole(k)
      BY <2>2, <3>1, <3>3
    <3>5. Counted(k)
      BY <2>2, <3>1, <3>2
    <3>. QED BY <2>1, <3>4, <3>5
  <2>. QED BY <2>4, <2>5
<1>7. n \in T
  <2>1. n \in 0 .. n
    BY <1>1
  <2> HIDE DEF T
  <2>. QED BY <1>1, <1>5, <1>6, <2>1, PrefixInduction
<1>8. \A i \in K : i \in 1 .. n /\ i <= n
  BY <1>1 DEF n
<1>9. picked[n] \in Seq(Action)
  BY <1>1, <1>3
<1>10. AllActionsEncode(picked[n]) <=> \A i \in K : tried[i].enc = "ok"
  BY <1>2, <1>7, <1>8
<1>11. AllActionsEncode(picked[n]) =>
           ActionBytes(picked[n]) \in Bytes /\ Len(ActionBytes(picked[n])) = ActionsLen(Masked(tried, K))
  <2>1. ActionsLen(Masked(tried, K)) = total[n]
    BY <1>4 DEF ActionsLen, total
  <2>. QED BY <1>7, <2>1
<1>. QED BY <1>9, <1>10, <1>11 DEF n, tried, picked

\* The length prefix has room for less than it has room for.
LEMMA ShorterEncodes ==
    ASSUME NEW n \in Nat, FrameLenEncodes(n), NEW m \in Nat, m <= n
    PROVE  FrameLenEncodes(m)
<1> DEFINE Below(a, b) == a \in Nat /\ b \in Nat /\ a <= b
<1>1. \A a, b : Below(a, b) => Below(a \div 256, b \div 256)
  OBVIOUS
<1>2. Below(m, n)
  OBVIOUS
<1> HIDE DEF Below
<1> DEFINE m1 == m \div 256
           n1 == n \div 256
<1>3. Below(m1, n1)
  BY <1>1, <1>2
<1> HIDE DEF m1, n1
<1> DEFINE m2 == m1 \div 256
           n2 == n1 \div 256
<1>4. Below(m2, n2)
  BY <1>1, <1>3
<1> HIDE DEF m2, n2
<1> DEFINE m3 == m2 \div 256
           n3 == n2 \div 256
<1>5. Below(m3, n3)
  BY <1>1, <1>4
<1>6. n3 < 256
  BY DEF FrameLenEncodes, n1, n2
<1> HIDE DEF m3, n3
<1>7. m3 < 256
  BY <1>5, <1>6 DEF Below
<1>. QED BY <1>7 DEF FrameLenEncodes, m1, m2, m3

\* What the loop's own lengths call sendable is what its bytes let through.
LEMMA ShippableSendable ==
    ASSUME FrameInv, frame.type = "ACK", MetadataEncodes(frame.meta), FrameLenEncodes(number)
    PROVE  Shippable = Sendable(TriedList(frame.payload), number, IdBytes(frame.meta))
<1> DEFINE list == frame.payload
           ids == IdBytes(frame.meta)
           n == Len(list)
           tried == TriedList(list)
<1>1. /\ list \in Seq(Action) /\ DOMAIN list = 1 .. n
      /\ frame = FrameOf("ACK", frame.meta, list) /\ frame.meta \in MetaData
  <2>1. /\ frame = FrameOf(frame.type, frame.meta, frame.payload)
        /\ frame.payload \in Payload(frame.type) /\ frame.meta \in MetaData
    BY FrameFacts DEF FrameInv
  <2>2. Payload("ACK") = Seq(Action)
    BY DEF Payload, Disconnects
  <2>. QED BY <2>1, <2>2
<1>2. Len(tried) = n
  BY <1>1, TriedFacts
<1>3. ASSUME NEW K \in SUBSET (1 .. n)
      PROVE  Encodes(AckOf(K)) /\ FitsFrame(Body(AckOf(K)), number)
             <=> (\A i \in K : tried[i].enc = "ok") /\ AckLen(Masked(tried, K), ids) <= number
  <2> DEFINE last == Picked(list, K)[n]
             ack == FrameOf("ACK", frame.meta, last)
  <2>1. AckOf(K) = ack
    <3>1. AckOf(K) = [frame EXCEPT !.payload = last]
      BY DEF AckOf, Picked
    <3>2. frame \in [type : {"ACK"}, meta : {frame.meta}, payload : {list}]
      BY <1>1 DEF FrameOf
    <3> HIDE DEF last, list
    <3>. QED BY <3>1, <3>2 DEF FrameOf
  <2>2. /\ AllActionsEncode(last) <=> \A i \in K : tried[i].enc = "ok"
        /\ AllActionsEncode(last) =>
               ActionBytes(last) \in Bytes /\ Len(ActionBytes(last)) = ActionsLen(Masked(tried, K))
    BY <1>1, PickedBytes
  <2> HIDE DEF last, tried, list, n
  <2>3. /\ ack.type = "ACK" /\ ack.meta = frame.meta /\ ack.payload = last
        /\ MetadataEncodes(ack.meta)
    BY DEF FrameOf
  <2> HIDE DEF ack
  <2>4. PayloadEncodes(ack.type, ack.payload) <=> AllActionsEncode(last)
    BY <2>3 DEF PayloadEncodes, AllActionsEncode
  <2>5. EncodePayload(ack.type, ack.payload) = ActionBytes(last)
    BY <2>3 DEF EncodePayload, ActionBytes
  <2>6. AllActionsEncode(last) =>
            Len(Body(ack)) \in Nat /\ Len(Body(ack)) = AckLen(Masked(tried, K), ids)
    <3> SUFFICES ASSUME AllActionsEncode(last)
                 PROVE  Len(Body(ack)) \in Nat /\ Len(Body(ack)) = AckLen(Masked(tried, K), ids)
      OBVIOUS
    <3>1. ack.type \in DOMAIN FrameType
      BY <2>3 DEF FrameType
    <3>2. Body(ack) \in Bytes /\ Len(Body(ack)) = HeaderLen(ids) + Len(ActionBytes(last))
      BY <1>1, <2>2, <2>3, <2>5, <3>1, BodyLen
    <3>3. Len(Body(ack)) \in Nat
      BY <3>2, BytesFacts
    <3>. QED BY <2>2, <3>2, <3>3 DEF AckLen, EmptyAckLen
  <2>7. ASSUME NEW m \in Nat, m <= number PROVE FrameLenEncodes(m)
    <3>1. number \in Nat
      BY <2>7 DEF FrameInv
    <3>. QED BY <2>7, <3>1, ShorterEncodes
  <2>8. Encodes(ack) /\ FitsFrame(Body(ack), number)
        <=> AllActionsEncode(last) /\ AckLen(Masked(tried, K), ids) <= number
    <3>1. Encodes(ack) <=> AllActionsEncode(last) /\ FrameLenEncodes(Len(Body(ack)))
      BY <2>3, <2>4 DEF Encodes
    <3>2. FitsFrame(Body(ack), number) <=> Len(Body(ack)) <= number
      BY DEF FitsFrame
    <3>. QED BY <2>6, <2>7, <3>1, <3>2
  <2>. QED BY <2>1, <2>2, <2>8
<1> HIDE DEF tried, list, n, ids
<1>4. Sendable(tried, number, ids)
      = {K \in SUBSET (1 .. n) :
            (\A i \in K : tried[i].enc = "ok") /\ AckLen(Masked(tried, K), ids) <= number}
  BY <1>2 DEF Sendable
<1>5. Shippable = {K \in SUBSET (1 .. n) : Encodes(AckOf(K)) /\ FitsFrame(Body(AckOf(K)), number)}
  BY <1>1 DEF Shippable, list
<1>6. Shippable = Sendable(tried, number, ids)
  BY <1>3, <1>4, <1>5
<1>. QED BY <1>6 DEF tried, list, ids

\* The loop's list follows the same selection as the one picked from the frame.
LEMMA FollowsPicked ==
    ASSUME NEW list \in Seq(Action), NEW K, NEW budget \in Int,
           Follows(KeptUpTo(TriedList(list), budget), TriedList(list), K)
    PROVE  LET kept == KeptUpTo(TriedList(list), budget)[Len(list)].actions IN
           Picked(list, K)[Len(list)] = [i \in DOMAIN kept |-> kept[i].action]
<1> DEFINE n == Len(list)
           tried == TriedList(list)
           loop == KeptUpTo(tried, budget)
           picked == Picked(list, K)
           Bare(s) == [i \in DOMAIN s |-> s[i].action]
           T == {k \in 0 .. n : picked[k] = Bare(loop[k].actions)}
<1>1. n \in Nat
  OBVIOUS
<1>2. /\ tried \in Seq(TriedActions) /\ Len(tried) = n
      /\ \A k \in 1 .. n : tried[k] \in TriedActions /\ tried[k].action = list[k]
  <2>1. /\ tried \in Seq(TriedActions) /\ Len(tried) = n /\ \A k \in 1 .. n : tried[k].action = list[k]
    BY TriedFacts
  <2> HIDE DEF tried
  <2>. QED BY <2>1
<1>3. /\ picked[0] = <<>>
      /\ \A k \in 1 .. n : picked[k] = IF k \in K THEN Append(picked[k - 1], list[k]) ELSE picked[k - 1]
  BY PickedFacts
<1>4. /\ loop[0].actions = <<>>
      /\ \A k \in 1 .. n : loop[k].actions = IF k \in K THEN Append(loop[k - 1].actions, tried[k])
                                             ELSE loop[k - 1].actions
  BY <1>2 DEF Follows
<1>5. \A k \in 0 .. n : loop[k].actions \in Seq(TriedActions)
  <2>1. \A t \in TriedActions : t.len \in Nat
    BY TriedFacts
  <2>2. loop \in [0 .. Len(tried) -> [actions : Seq(TriedActions), used : Nat]]
    <3> HIDE DEF tried
    <3>. QED BY <1>2, <2>1, KeptFacts
  <2> HIDE DEF loop, tried
  <2>. QED BY <1>2, <2>2
<1> HIDE DEF n, tried, loop, picked
<1>6. ASSUME NEW s \in Seq(TriedActions), NEW t \in TriedActions
      PROVE  Bare(Append(s, t)) = Append(Bare(s), t.action)
  OBVIOUS
<1>7. 0 \in T
  <2>1. Bare(<<>>) = <<>>
    OBVIOUS
  <2>. QED BY <1>1, <1>3, <1>4, <2>1
<1> HIDE DEF Bare
<1>8. ASSUME NEW k \in 1 .. n, k - 1 \in T PROVE k \in T
  <2>1. k \in 0 .. n /\ k - 1 \in 0 .. n /\ loop[k - 1].actions \in Seq(TriedActions)
    BY <1>1, <1>5
  <2>2. picked[k - 1] = Bare(loop[k - 1].actions)
    BY <1>8
  <2>3. CASE k \in K
    <3>1. picked[k] = Append(picked[k - 1], list[k]) /\ loop[k].actions = Append(loop[k - 1].actions, tried[k])
      BY <1>3, <1>4, <2>3
    <3>2. Bare(loop[k].actions) = Append(Bare(loop[k - 1].actions), list[k])
      BY <1>2, <1>6, <2>1, <3>1
    <3>. QED BY <2>1, <2>2, <3>1, <3>2
  <2>4. CASE k \notin K
    BY <1>3, <1>4, <2>1, <2>2, <2>4
  <2>. QED BY <2>3, <2>4
<1>9. n \in T
  <2>1. n \in 0 .. n
    BY <1>1
  <2> HIDE DEF T
  <2>. QED BY <1>1, <1>7, <1>8, <2>1, PrefixInduction
<1>. QED BY <1>9 DEF n, tried, loop, picked, Bare

\* The salvaged ACK, over the bytes of its actions and of its own ids, whatever they are:
\* an earlier action is never given up for later ones and nothing that still fits is
\* dropped (ForgeHandler._salvaged_ack), for sizes whose frames have a length prefix.
THEOREM SalvageGreedy ==
    ASSUME \A sample \in Samples : FrameLenEncodes(sample[2])
    PROVE  Spec => []SalvageIsGreedy
<1> DEFINE Inv == FrameInv /\ FrameLenEncodes(number)
<1>1. Init => Inv
  BY CodecAssumption DEF Init, FrameInv
<1>2. Inv /\ [Next]_<<frame, number>> => Inv'
  BY DEF FrameInv, IsFrame, FrameLenEncodes, Next
<1>3. Inv => SalvageIsGreedy
  <2> SUFFICES ASSUME Inv, frame.type = "ACK", MetadataEncodes(frame.meta),
                      number >= EmptyAckLen(IdBytes(frame.meta))
               PROVE  LET kept == Salvaged(TriedList(frame.payload), number, IdBytes(frame.meta)) IN
                      \E K \in Shippable :
                          /\ \A L \in Shippable \ {K} : Preferred(K, L)
                          /\ AckOf(K).payload = [i \in DOMAIN kept |-> kept[i].action]
    BY DEF SalvageIsGreedy, TriedList
  <2> DEFINE list == frame.payload
             tried == TriedList(list)
             ids == IdBytes(frame.meta)
             budget == number - EmptyAckLen(ids)
             kept == Salvaged(tried, number, ids)
  <2>1. Shippable = Sendable(tried, number, ids)
    BY ShippableSendable
  <2>2. list \in Seq(Action) /\ frame = FrameOf("ACK", frame.meta, list) /\ frame.meta \in MetaData
    <3>1. /\ frame = FrameOf(frame.type, frame.meta, frame.payload)
          /\ frame.payload \in Payload(frame.type) /\ frame.meta \in MetaData
      BY FrameFacts DEF FrameInv
    <3>2. Payload("ACK") = Seq(Action)
      BY DEF Payload, Disconnects
    <3>. QED BY <3>1, <3>2
  <2>3. /\ ids \in Nat /\ EmptyAckLen(ids) \in Nat /\ number \in Int
        /\ EmptyAckLen(ids) <= number /\ budget \in Int
    <3>1. ids \in Nat
      BY <2>2, MetadataLen
    <3> HIDE DEF ids
    <3>2. EmptyAckLen(ids) \in Nat
      BY <3>1, EmptyAckLenType
    <3>. QED BY <3>1, <3>2 DEF FrameInv, ids
  <2>4. tried \in Seq(TriedActions) /\ Len(tried) = Len(list) /\ \A t \in TriedActions : t.len \in Nat
    BY <2>2, TriedFacts
  <2> HIDE DEF tried, list, ids
  <2>5. PICK K \in Sendable(tried, number, ids) :
            /\ Follows(KeptUpTo(tried, budget), tried, K)
            /\ \A L \in Sendable(tried, number, ids) \ {K} : HoldsFirst(K, L)
    BY <2>3, <2>4, LoopPrefers
  <2>6. AckOf(K).payload = Picked(list, K)[Len(list)]
    <3> DEFINE last == Picked(list, K)[Len(list)]
    <3>1. AckOf(K) = [frame EXCEPT !.payload = last]
      BY DEF AckOf, Picked, list
    <3>2. frame \in [type : {"ACK"}, meta : {frame.meta}, payload : {list}]
      BY <2>2 DEF FrameOf
    <3> HIDE DEF last
    <3>3. AckOf(K).payload = last
      BY <3>1, <3>2
    <3>. QED BY <3>3 DEF last
  <2>7. kept = KeptUpTo(tried, budget)[Len(list)].actions
    BY <2>4 DEF Salvaged
  <2>8. Picked(list, K)[Len(list)] = [i \in DOMAIN kept |-> kept[i].action]
    <3> HIDE DEF budget, kept
    <3>. QED BY <2>2, <2>3, <2>5, <2>7, FollowsPicked DEF tried
  <2>9. \A L \in Shippable \ {K} : Preferred(K, L)
    BY <2>1, <2>5 DEF Preferred, HoldsFirst
  <2>. QED BY <2>1, <2>6, <2>8, <2>9 DEF tried, list, ids
<1> HIDE DEF Inv
<1>. QED BY <1>1, <1>2, <1>3, PTL DEF Spec

-----------------------------------------------------------------------------
(* The frames the agent composes *)

LEMMA ShortCountable == \A n \in 0 .. 239 : n \in Countable /\ n \in Nat
BY SMTT(30) DEF Countable

\* encode_string and encode_dt_binary
LEMMA BinaryLen ==
    \A s \in Bytes : Len(s) \in Countable =>
        ComposeBinary(s) \in Bytes /\ Len(ComposeBinary(s)) = StringLen(Len(s))
<1> SUFFICES ASSUME NEW s \in Bytes, Len(s) \in Countable
             PROVE  ComposeBinary(s) \in Bytes /\ Len(ComposeBinary(s)) = StringLen(Len(s))
  OBVIOUS
<1> DEFINE head == ComposeVarint(Len(s))
<1>1. head \in Bytes /\ Len(head) = VarintLen(Len(s))
  BY ComposedVarintLen
<1>2. ComposeBinary(s) = head \o s
  BY DEF ComposeBinary
<1> HIDE DEF head
<1>3. head \o s \in Bytes /\ Len(head \o s) = Len(head) + Len(s)
  BY <1>1, BytesConcat, Zenon
<1>4. StringLen(Len(s)) = VarintLen(Len(s)) + Len(s)
  BY DEF StringLen
<1>. QED BY <1>1, <1>2, <1>3, <1>4, Zenon

LEMMA TypedLen ==
    \A type \in Byte, data \in Bytes :
        TypeData(type, 0) \o data \in Bytes /\ Len(TypeData(type, 0) \o data) = 1 + Len(data)
<1> SUFFICES ASSUME NEW type \in Byte, NEW data \in Bytes
             PROVE  TypeData(type, 0) \o data \in Bytes /\ Len(TypeData(type, 0) \o data) = 1 + Len(data)
  OBVIOUS
<1>1. TypeData(type, 0) = <<type>>
  BY ByteFacts DEF TypeData
<1>2. <<type>> \o data \in Bytes /\ Len(<<type>> \o data) = Len(data) + 1 /\ Len(data) \in Nat
  BY BytesCons, BytesFacts, Zenon
<1> DEFINE all == <<type>> \o data
<1>3. TypeData(type, 0) \o data = all
  BY <1>1
<1>4. all \in Bytes /\ Len(all) = 1 + Len(data)
  <2>1. all \in Bytes /\ Len(all) = Len(data) + 1 /\ Len(data) \in Nat
    BY <1>2
  <2> HIDE DEF all
  <2>. QED BY <2>1
<1> HIDE DEF all
<1>. QED BY <1>3, <1>4, Zenon

LEMMA StrVarLen ==
    \A s \in Bytes : Len(s) \in Countable =>
        EncodeVar(StrValue(s)) \in Bytes /\ Len(EncodeVar(StrValue(s))) = 1 + StringLen(Len(s))
<1> SUFFICES ASSUME NEW s \in Bytes, Len(s) \in Countable
             PROVE  /\ EncodeVar(StrValue(s)) \in Bytes
                    /\ Len(EncodeVar(StrValue(s))) = 1 + StringLen(Len(s))
  OBVIOUS
<1>1. EncodeVar(StrValue(s)) = TypeData(8, 0) \o ComposeBinary(s)
  BY DEF EncodeVar, EncodeString, StrValue, Kind, Data, DataType
<1>2. 8 \in Byte
  BY DEF Byte
<1>. QED BY <1>1, <1>2, BinaryLen, TypedLen

LEMMA IntVarLen ==
    \A n \in Countable : InRange(DataType.INT64, n) =>
        EncodeVar(IntValue(n)) \in Bytes /\ Len(EncodeVar(IntValue(n))) = 1 + VarintLen(n)
<1> SUFFICES ASSUME NEW n \in Countable, InRange(DataType.INT64, n)
             PROVE  /\ EncodeVar(IntValue(n)) \in Bytes
                    /\ Len(EncodeVar(IntValue(n))) = 1 + VarintLen(n)
  OBVIOUS
<1>1. EncodeVar(IntValue(n)) = TypeData(4, 0) \o ComposeVarint(n % (2 * Half(4)))
  BY DEF EncodeVar, EncodeInt, IntValue, Kind, Data, DataType
<1>2. n % (2 * Half(4)) = n
  <2>1. n \in Nat
    BY SMTT(30) DEF Countable
  <2>2. n < Half(4) /\ Half(4) \in Nat
    BY <2>1, WidthAssumption DEF InRange, Greatest, IsSigned, Half, DataType
  <2>. QED BY <2>1, <2>2, ModFacts
<1>3. 4 \in Byte
  BY DEF Byte
<1>. QED BY <1>1, <1>2, <1>3, ComposedVarintLen, TypedLen

LEMMA PairLen ==
    ASSUME NEW n \in 0 .. 239, NEW value, EncodeVar(value) \in Bytes
    PROVE  /\ ComposeKvPair(<<KeyOf(n), value>>) \in Bytes
           /\ Len(ComposeKvPair(<<KeyOf(n), value>>)) = StringLen(n) + Len(EncodeVar(value))
<1>1. KeyOf(n) \in Bytes /\ Len(KeyOf(n)) = n
  <2>1. n \in Nat /\ 107 \in Byte
    BY DEF Byte
  <2>2. KeyOf(n) \in [1 .. n -> Byte]
    BY <2>1 DEF KeyOf
  <2>3. KeyOf(n) \in Seq(Byte)
    BY <2>1, <2>2, SeqDef
  <2>. QED BY <2>1, <2>3, KeyFacts DEF Bytes
<1>2. EncodeString(KeyOf(n)) \in Bytes /\ Len(EncodeString(KeyOf(n))) = StringLen(n)
  BY <1>1, ShortCountable, BinaryLen DEF EncodeString
<1>3. ComposeKvPair(<<KeyOf(n), value>>) = EncodeString(KeyOf(n)) \o EncodeVar(value)
  BY DEF ComposeKvPair
<1> DEFINE key == EncodeString(KeyOf(n))
           data == EncodeVar(value)
<1> HIDE DEF key, data
<1>4. key \o data \in Bytes /\ Len(key \o data) = Len(key) + Len(data)
  BY <1>2, BytesConcat, Zenon DEF key, data
<1>. QED BY <1>2, <1>3, <1>4, Zenon DEF key, data

LEMMA StrPairLen ==
    \A n \in 0 .. 239, s \in Bytes : Len(s) \in Countable =>
        /\ ComposeKvPair(<<KeyOf(n), StrValue(s)>>) \in Bytes
        /\ Len(ComposeKvPair(<<KeyOf(n), StrValue(s)>>)) = StringLen(n) + (1 + StringLen(Len(s)))
<1> SUFFICES ASSUME NEW n \in 0 .. 239, NEW s \in Bytes, Len(s) \in Countable
             PROVE  /\ ComposeKvPair(<<KeyOf(n), StrValue(s)>>) \in Bytes
                    /\ Len(ComposeKvPair(<<KeyOf(n), StrValue(s)>>)) = StringLen(n) + (1 + StringLen(Len(s)))
  BY Zenon
<1> DEFINE value == StrValue(s)
<1>1. EncodeVar(value) \in Bytes /\ Len(EncodeVar(value)) = 1 + StringLen(Len(s))
  BY StrVarLen, Zenon
<1> HIDE DEF value
<1>2. /\ ComposeKvPair(<<KeyOf(n), value>>) \in Bytes
      /\ Len(ComposeKvPair(<<KeyOf(n), value>>)) = StringLen(n) + Len(EncodeVar(value))
  BY <1>1, PairLen
<1>. QED BY <1>1, <1>2, Zenon DEF value

LEMMA IntPairLen ==
    \A n \in 0 .. 239, m \in Countable : InRange(DataType.INT64, m) =>
        /\ ComposeKvPair(<<KeyOf(n), IntValue(m)>>) \in Bytes
        /\ Len(ComposeKvPair(<<KeyOf(n), IntValue(m)>>)) = StringLen(n) + (1 + VarintLen(m))
<1> SUFFICES ASSUME NEW n \in 0 .. 239, NEW m \in Countable, InRange(DataType.INT64, m)
             PROVE  /\ ComposeKvPair(<<KeyOf(n), IntValue(m)>>) \in Bytes
                    /\ Len(ComposeKvPair(<<KeyOf(n), IntValue(m)>>)) = StringLen(n) + (1 + VarintLen(m))
  BY Zenon
<1> DEFINE value == IntValue(m)
<1>1. EncodeVar(value) \in Bytes /\ Len(EncodeVar(value)) = 1 + VarintLen(m)
  BY IntVarLen, Zenon
<1> HIDE DEF value
<1>2. /\ ComposeKvPair(<<KeyOf(n), value>>) \in Bytes
      /\ Len(ComposeKvPair(<<KeyOf(n), value>>)) = StringLen(n) + Len(EncodeVar(value))
  BY <1>1, PairLen
<1>. QED BY <1>1, <1>2, Zenon DEF value

LEMMA JoinShort ==
    \A a, b, c \in Bytes :
        /\ Join(<<a, b>>) \in Bytes /\ Len(Join(<<a, b>>)) = Len(a) + Len(b)
        /\ Join(<<a, b, c>>) \in Bytes /\ Len(Join(<<a, b, c>>)) = Len(a) + Len(b) + Len(c)
<1>1. ASSUME NEW s \in Seq(Bytes), s # <<>>
      PROVE  Join(s) \in Bytes /\ Len(Join(s)) = Len(Head(s)) + Len(Join(Tail(s)))
  <2>1. Head(s) \in Bytes /\ Tail(s) \in Seq(Bytes)
    BY <1>1, HeadTail
  <2>2. Join(s) = Head(s) \o Join(Tail(s)) /\ Join(Tail(s)) \in Bytes /\ Join(s) \in Bytes
    BY <1>1, <2>1, JoinFacts
  <2>3. Len(Head(s) \o Join(Tail(s))) = Len(Head(s)) + Len(Join(Tail(s)))
    BY <2>1, <2>2, BytesConcat, Zenon
  <2>. QED BY <2>2, <2>3, Zenon
<1> SUFFICES ASSUME NEW a \in Bytes, NEW b \in Bytes, NEW c \in Bytes
             PROVE  /\ Join(<<a, b>>) \in Bytes /\ Len(Join(<<a, b>>)) = Len(a) + Len(b)
                    /\ Join(<<a, b, c>>) \in Bytes /\ Len(Join(<<a, b, c>>)) = Len(a) + Len(b) + Len(c)
  OBVIOUS
<1>2. Len(a) \in Nat /\ Len(b) \in Nat /\ Len(c) \in Nat
  BY BytesFacts
<1>3. ASSUME NEW d \in Bytes PROVE Len(Join(<<d>>)) = Len(d)
  <2>1. <<d>> \in Seq(Bytes) /\ <<d>> # <<>> /\ Head(<<d>>) = d /\ Tail(<<d>>) = <<>>
    OBVIOUS
  <2>2. Join(<<>>) = <<>> /\ Len(<<>>) = 0 /\ Len(d) \in Nat
    BY JoinFacts, BytesFacts, BytesCons, Zenon
  <2>3. Len(Join(<<d>>)) = Len(Head(<<d>>)) + Len(Join(Tail(<<d>>)))
    BY <1>1, <2>1, Zenon
  <2>. QED BY <2>1, <2>2, <2>3
<1>4. ASSUME NEW d \in Bytes, NEW e \in Bytes
      PROVE  Join(<<d, e>>) \in Bytes /\ Len(Join(<<d, e>>)) = Len(d) + Len(e)
  <2>1. <<d, e>> \in Seq(Bytes) /\ <<d, e>> # <<>> /\ Head(<<d, e>>) = d /\ Tail(<<d, e>>) = <<e>>
    OBVIOUS
  <2>2. Join(<<d, e>>) \in Bytes /\ Len(Join(<<d, e>>)) = Len(Head(<<d, e>>)) + Len(Join(Tail(<<d, e>>)))
    BY <1>1, <2>1, Zenon
  <2>. QED BY <1>3, <2>1, <2>2, Zenon
<1>5. Join(<<a, b, c>>) \in Bytes /\ Len(Join(<<a, b, c>>)) = Len(a) + (Len(b) + Len(c))
  <2> DEFINE s == <<a, b, c>>
  <2>1. s \in Seq(Bytes) /\ s # <<>> /\ Head(s) = a /\ Tail(s) = <<b, c>>
    OBVIOUS
  <2> HIDE DEF s
  <2>2. Join(s) \in Bytes /\ Len(Join(s)) = Len(Head(s)) + Len(Join(Tail(s)))
    BY <1>1, <2>1, Zenon
  <2>3. Len(Join(<<b, c>>)) = Len(b) + Len(c)
    BY <1>4, Zenon
  <2>4. Join(s) \in Bytes /\ Len(Join(s)) = Len(a) + (Len(b) + Len(c))
    BY <2>1, <2>2, <2>3, Zenon
  <2>. QED BY <2>4 DEF s
<1>. QED BY <1>2, <1>4, <1>5

\* HELLO and DISCONNECT frames as this agent composes them: a version of three
\* characters, at most one capability, of ten characters; a status of one byte.
ComposedByAgent(f) ==
    /\ f.type = "AGENT_HELLO" =>
           /\ \E s \in BytesOf(3) : f.payload.version = StrValue(s)
           /\ \E n \in Countable : InRange(DataType.INT64, n) /\ f.payload.size = IntValue(n)
           /\ f.payload.caps = <<>> \/ \E s \in Name \cap BytesOf(10) : f.payload.caps = <<s>>
    /\ f.type = "AGENT_DISCONNECT" =>
           /\ \E n \in 0 .. 239 : InRange(DataType.INT64, n) /\ f.payload.status = IntValue(n)
           /\ \E s \in Bytes : Len(s) \in Countable /\ f.payload.message = StrValue(s)

LEMMA CapsLen ==
    ASSUME NEW caps, caps = <<>> \/ \E s \in Name \cap BytesOf(10) : caps = <<s>>
    PROVE  /\ ToSpopList(caps) \in Bytes
           /\ Len(ToSpopList(caps)) = IF caps = <<>> THEN 0 ELSE 10
<1>1. CASE caps = <<>>
  BY <1>1, ToFacts, BytesCons
<1>2. ASSUME NEW s \in Name \cap BytesOf(10), caps = <<s>>
      PROVE  ToSpopList(caps) \in Bytes /\ Len(ToSpopList(caps)) = 10 /\ caps # <<>>
  <2>1. s \in Text /\ Strip(s) = s /\ s \in Bytes /\ Len(s) = 10
    BY DEF Name, Text, BytesOf
  <2>2. caps \in Seq(Text) /\ caps # <<>> /\ Head(caps) = s /\ Tail(caps) = <<>>
    BY <1>2, <2>1
  <2>3. ToSpopList(caps) = Strip(s)
    BY <2>2, ToFacts
  <2>. QED BY <2>1, <2>2, <2>3
<1>. QED BY <1>1, <1>2

LEMMA KvLists ==
    \A a, b, c :
        /\ EncodeKvList(<<a, b>>) = Join(<<ComposeKvPair(a), ComposeKvPair(b)>>)
        /\ EncodeKvList(<<a, b, c>>) = Join(<<ComposeKvPair(a), ComposeKvPair(b), ComposeKvPair(c)>>)
<1> SUFFICES ASSUME NEW a, NEW b, NEW c
             PROVE  /\ EncodeKvList(<<a, b>>) = Join(<<ComposeKvPair(a), ComposeKvPair(b)>>)
                    /\ EncodeKvList(<<a, b, c>>)
                       = Join(<<ComposeKvPair(a), ComposeKvPair(b), ComposeKvPair(c)>>)
  OBVIOUS
<1>1. [i \in DOMAIN <<a, b>> |-> ComposeKvPair(<<a, b>>[i])] = <<ComposeKvPair(a), ComposeKvPair(b)>>
  OBVIOUS
<1>2. [i \in DOMAIN <<a, b, c>> |-> ComposeKvPair(<<a, b, c>>[i])]
      = <<ComposeKvPair(a), ComposeKvPair(b), ComposeKvPair(c)>>
  OBVIOUS
<1>. QED BY <1>1, <1>2, Zenon DEF EncodeKvList

LEMMA StringLenType == \A n \in Nat : StringLen(n) \in Nat
BY VarintLenType DEF StringLen

LEMMA HelloLen ==
    ASSUME NEW f, f.type = "AGENT_HELLO", f.meta = Constructed, ComposedByAgent(f)
    PROVE  Len(Body(f)) = AgentHelloLen(Data(f.payload.size),
                                        IF f.payload.caps = <<>> THEN {} ELSE {"pipelining"})
<1> DEFINE p == f.payload
           h == HeaderLen(ZeroIds)
           caps == IF p.caps = <<>> THEN {} ELSE {"pipelining"}
           names == ToSpopList(p.caps)
           x == Len(names)
<1>1. PICK s \in BytesOf(3) : p.version = StrValue(s)
  BY DEF ComposedByAgent
<1>2. PICK n \in Countable : InRange(DataType.INT64, n) /\ p.size = IntValue(n)
  BY DEF ComposedByAgent
<1>3. names \in Bytes /\ x = (IF "pipelining" \in caps THEN 10 ELSE 0) /\ x \in 0 .. 239
  <2>1. p.caps = <<>> \/ \E t \in Name \cap BytesOf(10) : p.caps = <<t>>
    BY DEF ComposedByAgent
  <2>2. names \in Bytes /\ x = (IF p.caps = <<>> THEN 0 ELSE 10)
    <3> HIDE DEF p
    <3>. QED BY <2>1, CapsLen
  <2>3. "pipelining" \in caps <=> p.caps # <<>>
    OBVIOUS
  <2>4. x \in 0 .. 239
    <3> HIDE DEF x
    <3>. QED BY <2>2
  <2> HIDE DEF names, x, caps, p
  <2>. QED BY <2>2, <2>3, <2>4
<1> DEFINE a == ComposeKvPair(<<KeyOf(7), StrValue(s)>>)
           b == ComposeKvPair(<<KeyOf(14), IntValue(n)>>)
           c == ComposeKvPair(<<KeyOf(12), StrValue(names)>>)
<1>4. EncodePayload(f.type, p) = Join(<<a, b, c>>)
  <2>1. EncodePayload(f.type, p) = EncodeKvList(Pairs("AGENT_HELLO", p))
    BY DEF EncodePayload
  <2>2. Pairs("AGENT_HELLO", p) = <<<<KeyOf(7), p.version>>, <<KeyOf(14), p.size>>, <<KeyOf(12), StrValue(names)>>>>
    BY KeyFacts DEF Pairs, Disconnects
  <2> HIDE DEF p, names
  <2>. QED BY <1>1, <1>2, <2>1, <2>2, KvLists, Zenon
<1> HIDE DEF caps, names, x, h
<1>5. 7 \in 0 .. 239 /\ 12 \in 0 .. 239 /\ 14 \in 0 .. 239 /\ 3 \in 0 .. 239
  OBVIOUS
<1>6. a \in Bytes /\ Len(a) = StringLen(7) + (1 + StringLen(3))
  <2>1. s \in Bytes /\ Len(s) = 3 /\ Len(s) \in Countable
    BY <1>5, ShortCountable, Zenon DEF BytesOf
  <2>2. a \in Bytes /\ Len(a) = StringLen(7) + (1 + StringLen(Len(s)))
    BY <1>5, <2>1, StrPairLen, Zenon
  <2>. QED BY <2>1, <2>2, Zenon
<1>7. b \in Bytes /\ Len(b) = StringLen(14) + (1 + VarintLen(n))
  BY <1>2, <1>5, IntPairLen, Zenon
<1>8. c \in Bytes /\ Len(c) = StringLen(12) + (1 + StringLen(x))
  <2>1. names \in Bytes /\ Len(names) \in Countable
    BY <1>3, ShortCountable, Zenon DEF x
  <2>. QED BY <1>5, <2>1, StrPairLen, Zenon DEF x
<1> HIDE DEF a, b, c, p
<1>9. Join(<<a, b, c>>) \in Bytes /\ Len(Join(<<a, b, c>>)) = Len(a) + Len(b) + Len(c)
  BY <1>6, <1>7, <1>8, JoinShort, Zenon
<1>10. Len(Body(f)) = h + Len(Join(<<a, b, c>>))
  <2>1. f.type \in DOMAIN FrameType /\ EncodePayload(f.type, f.payload) \in Bytes
    BY <1>4, <1>9 DEF FrameType, p
  <2>. QED BY <1>4, <2>1, HeaderFacts, BodyLen DEF p, h
<1>11. AgentHelloLen(n, caps)
       = h + (StringLen(7) + 1 + StringLen(3)) + (StringLen(14) + 1 + VarintLen(n))
         + (StringLen(12) + 1 + StringLen(x))
  BY <1>3 DEF AgentHelloLen, h
<1>12. /\ VarintLen(n) \in Nat /\ h \in Nat /\ StringLen(7) \in Nat /\ StringLen(3) \in Nat
       /\ StringLen(14) \in Nat /\ StringLen(12) \in Nat /\ StringLen(x) \in Nat
  BY <1>3, VarintLenType, HeaderFacts, StringLenType DEF h
<1>13. Len(Body(f)) = AgentHelloLen(n, caps)
  <2>1. Len(Body(f)) = h + ((StringLen(7) + (1 + StringLen(3))) + (StringLen(14) + (1 + VarintLen(n)))
                                    + (StringLen(12) + (1 + StringLen(x))))
    BY <1>6, <1>7, <1>8, <1>9, <1>10, Zenon
  <2>2. \A i, j \in Nat : i + (1 + j) = i + 1 + j /\ i + 1 + j \in Nat
    OBVIOUS
  <2> DEFINE i == StringLen(7) + 1 + StringLen(3)
             j == StringLen(14) + 1 + VarintLen(n)
             k == StringLen(12) + 1 + StringLen(x)
  <2>3. Len(Body(f)) = h + (i + j + k) /\ i \in Nat /\ j \in Nat /\ k \in Nat
    BY <1>12, <2>1, <2>2, Zenon
  <2>4. AgentHelloLen(n, caps) = h + i + j + k
    BY <1>11
  <2> HIDE DEF i, j, k
  <2>5. h + (i + j + k) = h + i + j + k
    BY <1>12, <2>3
  <2>. QED BY <2>3, <2>4, <2>5, Zenon
<1>14. Data(p.size) = n
  BY <1>2 DEF Data, IntValue
<1>. QED BY <1>13, <1>14 DEF p, caps

LEMMA DisconnectBytes ==
    ASSUME NEW f, f.type = "AGENT_DISCONNECT", f.meta = Constructed, ComposedByAgent(f)
    PROVE  Len(Body(f)) = DisconnectLen(Len(Data(f.payload.message)))
<1> DEFINE p == f.payload
           h == HeaderLen(ZeroIds)
<1>1. PICK n \in 0 .. 239 : InRange(DataType.INT64, n) /\ p.status = IntValue(n)
  BY DEF ComposedByAgent
<1>2. PICK s \in Bytes : Len(s) \in Countable /\ p.message = StrValue(s)
  BY DEF ComposedByAgent
<1> DEFINE a == ComposeKvPair(<<KeyOf(11), IntValue(n)>>)
           b == ComposeKvPair(<<KeyOf(7), StrValue(s)>>)
<1>3. EncodePayload(f.type, p) = Join(<<a, b>>)
  <2>1. EncodePayload(f.type, p) = EncodeKvList(Pairs("AGENT_DISCONNECT", p))
    BY DEF EncodePayload
  <2>2. Pairs("AGENT_DISCONNECT", p) = <<<<KeyOf(11), p.status>>, <<KeyOf(7), p.message>>>>
    BY KeyFacts DEF Pairs, Disconnects
  <2> HIDE DEF p
  <2>. QED BY <1>1, <1>2, <2>1, <2>2, KvLists, Zenon
<1>4. 7 \in 0 .. 239 /\ 11 \in 0 .. 239
  OBVIOUS
<1>5. a \in Bytes /\ Len(a) = StringLen(11) + (1 + 1)
  <2>1. n \in Countable /\ VarintLen(n) = 1
    BY ShortCountable, VarintLenShort, Zenon
  <2>2. a \in Bytes /\ Len(a) = StringLen(11) + (1 + VarintLen(n))
    BY <1>1, <1>4, <2>1, IntPairLen, Zenon
  <2>. QED BY <2>1, <2>2, Zenon
<1>6. b \in Bytes /\ Len(b) = StringLen(7) + (1 + StringLen(Len(s)))
  BY <1>2, <1>4, StrPairLen, Zenon
<1> HIDE DEF a, b, p, h
<1>7. Join(<<a, b>>) \in Bytes /\ Len(Join(<<a, b>>)) = Len(a) + Len(b)
  BY <1>5, <1>6, JoinShort, Zenon
<1>8. Len(Body(f)) = h + Len(Join(<<a, b>>))
  <2>1. f.type \in DOMAIN FrameType /\ EncodePayload(f.type, f.payload) \in Bytes
    BY <1>3, <1>7 DEF FrameType, p
  <2>. QED BY <1>3, <2>1, HeaderFacts, BodyLen DEF p, h
<1> DEFINE x == Len(s)
<1>9. StringLen(11) \in Nat /\ StringLen(7) \in Nat /\ StringLen(x) \in Nat /\ h \in Nat
  <2>1. x \in Nat
    BY BytesFacts
  <2>. QED BY <2>1, StringLenType, HeaderFacts DEF h
<1> HIDE DEF x
<1>10. Len(b) = StringLen(7) + (1 + StringLen(x))
  BY <1>6 DEF x
<1>11. Len(Body(f)) = DisconnectLen(x)
  <2>1. Len(Body(f)) = h + ((StringLen(11) + (1 + 1)) + (StringLen(7) + (1 + StringLen(x))))
    BY <1>5, <1>7, <1>8, <1>10, Zenon
  <2>2. \A i \in Nat : i + (1 + 1) = i + 2 /\ i + 2 \in Nat
    OBVIOUS
  <2>3. \A i, j \in Nat : i + (1 + j) = i + 1 + j /\ i + 1 + j \in Nat
    OBVIOUS
  <2> DEFINE i == StringLen(11) + 2
             j == StringLen(7) + 1 + StringLen(x)
  <2>4. Len(Body(f)) = h + (i + j) /\ i \in Nat /\ j \in Nat
    BY <1>9, <2>1, <2>2, <2>3, Zenon
  <2>5. DisconnectLen(x) = h + i + j
    BY DEF DisconnectLen, h
  <2> HIDE DEF i, j
  <2>6. h + (i + j) = h + i + j
    BY <1>9, <2>4
  <2>. QED BY <2>4, <2>5, <2>6, Zenon
<1>12. Data(p.message) = s
  BY <1>2 DEF Data, StrValue
<1>. QED BY <1>11, <1>12 DEF p, x

\* The lengths that ForgeHandler compares with the negotiated size (FrameLengths) are
\* those of the bytes: of an ACK without actions whatever its ids, and of HELLO and
\* DISCONNECT frames as this agent composes them.
THEOREM SizesOfBytes ==
    ASSUME \A sample \in Samples : ComposedByAgent(sample[1])
    PROVE  Spec => []SizesAsModelled
<1>1. Init => ComposedByAgent(frame)
  BY DEF Init
<1>2. ComposedByAgent(frame) /\ [Next]_<<frame, number>> => ComposedByAgent(frame)'
  BY DEF ComposedByAgent, Next
<1>3. FrameInv /\ ComposedByAgent(frame) => SizesAsModelled
  <2>1. ASSUME FrameInv, frame.type = "ACK", frame.payload = <<>>, MetadataEncodes(frame.meta)
        PROVE  Len(Body(frame)) = EmptyAckLen(IdBytes(frame.meta))
    <3> DEFINE ids == IdBytes(frame.meta)
    <3>1. frame.meta \in MetaData
      BY <2>1, FrameFacts DEF FrameInv
    <3>2. EncodePayload(frame.type, frame.payload) = <<>>
      <4>1. [i \in DOMAIN <<>> |-> ComposeAction(<<>>[i])] = <<>>
        OBVIOUS
      <4>. QED BY <2>1, <4>1, JoinFacts DEF EncodePayload
    <3>3. Len(Body(frame)) = HeaderLen(ids) + 0
      <4>1. frame.type \in DOMAIN FrameType
        BY <2>1 DEF FrameType
      <4>. QED BY <2>1, <3>1, <3>2, <4>1, BodyLen, BytesCons
    <3>4. ids \in Nat
      BY <2>1, <3>1, MetadataLen
    <3> HIDE DEF ids
    <3>5. HeaderLen(ids) \in Nat /\ EmptyAckLen(ids) = HeaderLen(ids)
      BY <3>4 DEF HeaderLen, EmptyAckLen
    <3>. QED BY <3>3, <3>5 DEF ids
  <2>. QED BY <2>1, HelloLen, DisconnectBytes DEF SizesAsModelled
<1>4. Spec => []FrameInv
  BY AlwaysFrame
<1>. QED BY <1>1, <1>2, <1>3, <1>4, PTL DEF Spec

=============================================================================
