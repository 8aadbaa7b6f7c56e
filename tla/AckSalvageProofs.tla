-------------------------- MODULE AckSalvageProofs --------------------------
(***************************************************************************)
(* What _salvaged_ack keeps, for every list of actions and every size.     *)
(***************************************************************************)
EXTENDS AckSalvage, FiniteSetTheorems, WellFoundedInduction, TLAPS

-----------------------------------------------------------------------------
(* Induction and recursion.  A property of all numbers is proved from the    *)
(* least one that lacks it; a recursive definition has a solution because   *)
(* the solutions below every bound agree.                                   *)

\* Every nonempty set of natural numbers has a least element.
LEMMA LeastElement ==
    ASSUME NEW T, T \subseteq Nat, T # {}
    PROVE  \E x \in T : \A y \in T : x <= y
<1> DEFINE R == OpToRel(<, Nat)
<1>1. \A x, y \in Nat : y < x => <<y, x>> \in R
  BY DEF OpToRel
<1>2. IsWellFoundedOn(R, Nat)
  BY NatLessThanWellFounded
<1> HIDE DEF R
<1>3. PICK x \in T : \A y \in T : ~ (<<y, x>> \in R)
  BY <1>2, WFMin
<1>4. x \in Nat /\ \A y \in T : y \in Nat /\ ~ (y < x)
  BY <1>1, <1>3
<1>5. \A y \in T : x <= y
  BY <1>4
<1>. QED BY <1>5

\* f solves the recursion on the elements of D.
Solves(f, D, stop, out, next, step) ==
    \A s \in D : f[s] = IF s \in stop THEN out[s] ELSE step[<<s, f[next[s]]>>]

\* A recursion whose argument gets smaller, by some measure, has a solution.
LEMMA Recursion ==
    ASSUME NEW S, NEW V, NEW measure \in [S -> Nat], NEW stop, NEW out \in [S -> V],
           NEW next \in [S -> S], NEW step \in [S \X V -> V],
           \A s \in S : s \notin stop => measure[next[s]] < measure[s]
    PROVE  \E f \in [S -> V] : Solves(f, S, stop, out, next, step)
<1> DEFINE Below(k) == {s \in S : measure[s] < k}
           Good(k, f) == f \in [Below(k) -> V] /\ Solves(f, Below(k), stop, out, next, step)
<1>1. ASSUME NEW j \in Nat, NEW k \in Nat, NEW f, NEW g, Good(j, f), Good(k, g)
      PROVE  \A s \in Below(j) \cap Below(k) : f[s] = g[s]
  <2> DEFINE Differ == {s \in Below(j) \cap Below(k) : f[s] # g[s]}
             T == {measure[s] : s \in Differ}
  <2> SUFFICES ASSUME Differ # {} PROVE FALSE
    OBVIOUS
  <2>1. T \subseteq Nat /\ T # {}
    OBVIOUS
  <2>2. PICK m \in T : \A n \in T : m <= n
    <3> HIDE DEF T
    <3>. QED BY <2>1, LeastElement
  <2>3. PICK s \in Differ : m = measure[s]
    OBVIOUS
  <2>4. s \in S /\ measure[s] \in Nat /\ s \in Below(j) /\ s \in Below(k) /\ f[s] # g[s]
    <3>1. s \in Below(j) \cap Below(k) /\ f[s] # g[s]
      <4> HIDE DEF Below, T
      <4>. QED OBVIOUS
    <3>2. s \in S /\ s \in Below(j) /\ s \in Below(k)
      BY <3>1
    <3>3. measure[s] \in Nat
      BY <3>2
    <3> HIDE DEF Below, T, Differ
    <3>. QED BY <3>1, <3>2, <3>3
  <2>5. s \notin stop
    BY <1>1, <2>4 DEF Solves
  <2>6. next[s] \in S /\ measure[next[s]] \in Nat /\ measure[next[s]] < measure[s]
    BY <2>4, <2>5
  <2>7. next[s] \in Below(j) /\ next[s] \in Below(k)
    BY <2>4, <2>6
  <2>8. f[next[s]] = g[next[s]]
    <3> SUFFICES ASSUME next[s] \in Differ PROVE FALSE
      BY <2>7
    <3>1. measure[next[s]] \in T
      OBVIOUS
    <3>2. measure[s] <= measure[next[s]]
      <4> HIDE DEF T, Differ
      <4>. QED BY <3>1, <2>2, <2>3
    <3> HIDE DEF T, Differ
    <3>. QED BY <3>2, <2>4, <2>6
  <2>9. f[s] = step[<<s, f[next[s]]>>] /\ g[s] = step[<<s, g[next[s]]>>]
    BY <1>1, <2>4, <2>5 DEF Solves
  <2>. QED BY <2>4, <2>8, <2>9
<1>2. \A k \in Nat : \E f : Good(k, f)
  <2> DEFINE Bad == {k \in Nat : ~ \E f : Good(k, f)}
  <2> SUFFICES ASSUME Bad # {} PROVE FALSE
    OBVIOUS
  <2>1. PICK m \in Bad : \A n \in Bad : m <= n
    <3>1. Bad \subseteq Nat
      OBVIOUS
    <3> HIDE DEF Bad
    <3>. QED BY <3>1, LeastElement
  <2>2. m # 0
    <3>1. Below(0) = {}
      OBVIOUS
    <3>2. Good(0, [s \in {} |-> s])
      BY <3>1 DEF Solves
    <3>. QED BY <3>2
  <2>3. m - 1 \in Nat /\ m - 1 \notin Bad
    <3>1. m \in Nat
      OBVIOUS
    <3>2. m - 1 \in Nat /\ ~ (m <= m - 1)
      BY <2>2, <3>1
    <3> HIDE DEF Bad
    <3>. QED BY <2>1, <3>2
  <2>4. PICK g : Good(m - 1, g)
    BY <2>3
  <2> DEFINE h == [s \in Below(m) |->
                      IF s \in stop THEN out[s] ELSE step[<<s, g[next[s]]>>]]
  <2>5. ASSUME NEW s \in Below(m), s \notin stop
        PROVE  next[s] \in Below(m - 1) /\ next[s] \in Below(m)
    <3>1. s \in S /\ measure[s] \in Nat /\ next[s] \in S /\ measure[next[s]] \in Nat
      OBVIOUS
    <3>2. measure[next[s]] < measure[s] /\ measure[s] < m /\ m \in Nat
      BY <2>5
    <3>. QED BY <3>1, <3>2
  <2>6. h \in [Below(m) -> V]
    <3> SUFFICES ASSUME NEW s \in Below(m)
                 PROVE  (IF s \in stop THEN out[s] ELSE step[<<s, g[next[s]]>>]) \in V
      OBVIOUS
    <3>1. CASE s \in stop
      BY <3>1
    <3>2. CASE s \notin stop
      <4>1. next[s] \in Below(m - 1)
        BY <2>5, <3>2
      <4>2. g[next[s]] \in V
        BY <4>1, <2>4
      <4>. QED BY <3>2, <4>2
    <3>. QED BY <3>1, <3>2
  <2>7. ASSUME NEW s \in Below(m - 1) PROVE h[s] = g[s]
    <3>1. s \in Below(m)
      BY <2>3
    <3>. QED BY <3>1, <2>4 DEF Solves
  <2>8. Solves(h, Below(m), stop, out, next, step)
    <3> SUFFICES ASSUME NEW s \in Below(m)
                 PROVE  h[s] = IF s \in stop THEN out[s] ELSE step[<<s, h[next[s]]>>]
      BY DEF Solves
    <3>1. CASE s \in stop
      BY <3>1
    <3>2. CASE s \notin stop
      <4>1. h[next[s]] = g[next[s]]
        BY <2>5, <2>7, <3>2
      <4> DEFINE a == h[next[s]]
                 b == g[next[s]]
      <4>2. h[s] = step[<<s, b>>]
        BY <3>2
      <4> HIDE DEF h
      <4>. QED BY <3>2, <4>1, <4>2
    <3>. QED BY <3>1, <3>2
  <2>9. Good(m, h)
    BY <2>6, <2>8
  <2>. QED BY <2>9
<1> DEFINE Sol(k) == CHOOSE f : Good(k, f)
           F == [s \in S |-> Sol(measure[s] + 1)[s]]
<1>3. \A k \in Nat : Good(k, Sol(k))
  BY <1>2
<1> HIDE DEF Sol
<1>4. ASSUME NEW s \in S, NEW k \in Nat, measure[s] < k PROVE F[s] = Sol(k)[s]
  <2>1. measure[s] + 1 \in Nat /\ s \in Below(measure[s] + 1) /\ s \in Below(k)
    BY <1>4
  <2> HIDE DEF Good, Below
  <2>2. Sol(measure[s] + 1)[s] = Sol(k)[s]
    BY <1>1, <1>3, <2>1
  <2>. QED BY <2>2
<1>5. F \in [S -> V]
  <2> SUFFICES ASSUME NEW s \in S PROVE Sol(measure[s] + 1)[s] \in V
    OBVIOUS
  <2>1. measure[s] + 1 \in Nat /\ s \in Below(measure[s] + 1)
    OBVIOUS
  <2>2. Good(measure[s] + 1, Sol(measure[s] + 1))
    BY <1>3, <2>1
  <2>. QED BY <2>1, <2>2
<1>6. Solves(F, S, stop, out, next, step)
  <2> SUFFICES ASSUME NEW s \in S
               PROVE  F[s] = IF s \in stop THEN out[s] ELSE step[<<s, F[next[s]]>>]
    BY DEF Solves
  <2> DEFINE k == measure[s] + 1
  <2>1. k \in Nat /\ measure[s] < k /\ s \in Below(k)
    OBVIOUS
  <2>2. Good(k, Sol(k))
    BY <1>3, <2>1
  <2>3. F[s] = Sol(k)[s]
    BY <1>4, <2>1
  <2>4. s \notin stop => F[next[s]] = Sol(k)[next[s]]
    <3> SUFFICES ASSUME s \notin stop PROVE F[next[s]] = Sol(k)[next[s]]
      OBVIOUS
    <3>1. next[s] \in S /\ measure[next[s]] < measure[s] /\ measure[next[s]] \in Nat
      OBVIOUS
    <3>2. measure[next[s]] < k
      BY <3>1
    <3> HIDE DEF F, k
    <3>. QED BY <1>4, <2>1, <3>1, <3>2
  <2> HIDE DEF F, k
  <2>. QED BY <2>1, <2>2, <2>3, <2>4 DEF Solves
<1>. QED BY <1>5, <1>6

\* Induction along the positions of a list.
LEMMA PrefixInduction ==
    ASSUME NEW n \in Nat, NEW T, 0 \in T, \A k \in 1 .. n : k - 1 \in T => k \in T
    PROVE  0 .. n \subseteq T
<1> DEFINE Bad == (0 .. n) \ T
<1> SUFFICES ASSUME Bad # {} PROVE FALSE
  OBVIOUS
<1>1. Bad \subseteq Nat
  OBVIOUS
<1>2. PICK k \in Bad : \A i \in Bad : k <= i
  <2> HIDE DEF Bad
  <2>. QED BY <1>1, LeastElement
<1>3. k \in 1 .. n /\ k - 1 \in 0 .. n
  OBVIOUS
<1>4. k - 1 \in T
  BY <1>2, <1>3
<1>. QED BY <1>3, <1>4

\* f is computed along the positions of a list of n elements.
Computes(f, n, base, step) ==
    f = [k \in 0 .. n |-> IF k = 0 THEN base ELSE step[<<k, f[k - 1]>>]]

\* What is computed along the positions of a list exists.
LEMMA PrefixRecursion ==
    ASSUME NEW n \in Nat, NEW V, NEW base \in V, NEW step \in [(0 .. n) \X V -> V]
    PROVE  \E f \in [0 .. n -> V] : Computes(f, n, base, step)
<1> DEFINE S == 0 .. n
           measure == [k \in S |-> k]
           out == [k \in S |-> base]
           next == [k \in S |-> IF k = 0 THEN 0 ELSE k - 1]
<1>1. PICK f \in [S -> V] : Solves(f, S, {0}, out, next, step)
  <2>1. /\ measure \in [S -> Nat] /\ out \in [S -> V] /\ next \in [S -> S]
        /\ step \in [S \X V -> V]
        /\ \A s \in S : s \notin {0} => measure[next[s]] < measure[s]
    OBVIOUS
  <2> HIDE DEF S, measure, out, next
  <2>. QED BY <2>1, Recursion
<1>2. \A k \in S : f[k] = IF k = 0 THEN base ELSE step[<<k, f[k - 1]>>]
  BY <1>1 DEF Solves
<1>. QED BY <1>1, <1>2 DEF Computes

-----------------------------------------------------------------------------
(* The lengths of lists of actions *)

LEMMA TotalsFacts ==
    ASSUME NEW A, \A a \in A : a.len \in Nat, NEW actions \in Seq(A)
    PROVE  /\ Totals(actions) \in [0 .. Len(actions) -> Nat]
           /\ Totals(actions)[0] = 0
           /\ \A k \in 1 .. Len(actions) :
                  Totals(actions)[k] = Totals(actions)[k - 1] + actions[k].len
<1> DEFINE n == Len(actions)
           step == [p \in (0 .. n) \X Nat |-> IF p[1] = 0 THEN 0 ELSE p[2] + actions[p[1]].len]
           F(f) == [k \in 0 .. n |-> IF k = 0 THEN 0 ELSE f[k - 1] + actions[k].len]
<1>1. n \in Nat /\ \A k \in 1 .. n : actions[k] \in A /\ actions[k].len \in Nat
  OBVIOUS
<1>2. step \in [(0 .. n) \X Nat -> Nat]
  <2> SUFFICES ASSUME NEW p \in (0 .. n) \X Nat
               PROVE  (IF p[1] = 0 THEN 0 ELSE p[2] + actions[p[1]].len) \in Nat
    OBVIOUS
  <2>1. CASE p[1] = 0
    BY <2>1
  <2>2. CASE p[1] # 0
    <3>1. p[1] \in 1 .. n /\ p[2] \in Nat
      BY <2>2, <1>1
    <3>. QED BY <3>1, <1>1
  <2>. QED BY <2>1, <2>2
<1>3. PICK g \in [0 .. n -> Nat] : Computes(g, n, 0, step)
  <2> HIDE DEF n, step
  <2>. QED BY <1>1, <1>2, PrefixRecursion
<1>4. ASSUME NEW k \in 1 .. n PROVE step[<<k, g[k - 1]>>] = g[k - 1] + actions[k].len
  <2>1. k \in 0 .. n /\ k # 0 /\ k - 1 \in 0 .. n
    BY <1>1
  <2>2. g[k - 1] \in Nat
    BY <2>1
  <2>3. <<k, g[k - 1]>> \in (0 .. n) \X Nat
    BY <2>1, <2>2
  <2>. QED BY <2>1, <2>3
<1>5. g = F(g)
  <2>1. ASSUME NEW k \in 0 .. n PROVE g[k] = IF k = 0 THEN 0 ELSE g[k - 1] + actions[k].len
    <3>1. g[k] = IF k = 0 THEN 0 ELSE step[<<k, g[k - 1]>>]
      <4> HIDE DEF step
      <4>. QED BY <1>3 DEF Computes
    <3> HIDE DEF step
    <3>. QED BY <1>1, <1>4, <3>1
  <2> HIDE DEF step, n
  <2>. QED BY <2>1
<1>6. Totals(actions) = F(Totals(actions))
  BY <1>5 DEF Totals
<1>7. /\ Totals(actions)[0] = 0
      /\ \A k \in 1 .. n : Totals(actions)[k] = Totals(actions)[k - 1] + actions[k].len
  <2>1. ASSUME NEW f, f = F(f) PROVE f[0] = 0 /\ \A k \in 1 .. n : f[k] = f[k - 1] + actions[k].len
    <3>1. \A k \in 0 .. n : f[k] = IF k = 0 THEN 0 ELSE f[k - 1] + actions[k].len
      BY <2>1
    <3>. QED BY <1>1, <3>1
  <2> HIDE DEF F
  <2>. QED BY <1>6, <2>1
<1> DEFINE T == {k \in 0 .. n : Totals(actions)[k] \in Nat}
<1>8. 0 .. n \subseteq T
  <2>1. 0 \in T
    BY <1>1, <1>7
  <2>2. ASSUME NEW k \in 1 .. n, k - 1 \in T PROVE k \in T
    <3>1. k \in 0 .. n /\ Totals(actions)[k - 1] \in Nat /\ actions[k].len \in Nat
      BY <1>1, <2>2
    <3>2. Totals(actions)[k] = Totals(actions)[k - 1] + actions[k].len
      BY <1>7
    <3>. QED BY <3>1, <3>2
  <2> HIDE DEF T, n
  <2>. QED BY <1>1, <2>1, <2>2, PrefixInduction
<1>9. Totals(actions) \in [0 .. n -> Nat]
  <2> HIDE DEF n
  <2>. QED BY <1>6, <1>8
<1>. QED BY <1>7, <1>9

\* The total of a list up to a position depends only on the elements up to there.
LEMMA TotalsAgree ==
    ASSUME NEW A, \A a \in A : a.len \in Nat, NEW B, \A b \in B : b.len \in Nat,
           NEW s \in Seq(A), NEW t \in Seq(B), NEW n \in Nat, n <= Len(s), n <= Len(t),
           \A k \in 1 .. n : s[k].len = t[k].len
    PROVE  Totals(s)[n] = Totals(t)[n]
<1> DEFINE T == {k \in 0 .. n : Totals(s)[k] = Totals(t)[k]}
<1>1. /\ Totals(s)[0] = 0
      /\ \A k \in 1 .. n : Totals(s)[k] = Totals(s)[k - 1] + s[k].len
  BY TotalsFacts
<1>2. /\ Totals(t)[0] = 0
      /\ \A k \in 1 .. n : Totals(t)[k] = Totals(t)[k - 1] + t[k].len
  BY TotalsFacts
<1>3. 0 \in T
  BY <1>1, <1>2
<1>4. \A k \in 1 .. n : k - 1 \in T => k \in T
  BY <1>1, <1>2
<1>5. 0 .. n \subseteq T
  <2> HIDE DEF T
  <2>. QED BY <1>3, <1>4, PrefixInduction
<1>6. n \in T
  <2> HIDE DEF T
  <2>. QED BY <1>5
<1>. QED BY <1>6

LEMMA ActionsLenType ==
    ASSUME NEW A, \A a \in A : a.len \in Nat, NEW s \in Seq(A)
    PROVE  ActionsLen(s) \in Nat
<1>1. Totals(s) \in [0 .. Len(s) -> Nat] /\ Len(s) \in Nat
  BY TotalsFacts
<1>. QED BY <1>1 DEF ActionsLen

LEMMA ActionsLenAppend ==
    ASSUME NEW A, \A a \in A : a.len \in Nat, NEW s \in Seq(A), NEW a \in A
    PROVE  ActionsLen(Append(s, a)) = ActionsLen(s) + a.len
<1> DEFINE t == Append(s, a)
<1>1. /\ t \in Seq(A) /\ Len(s) \in Nat /\ Len(t) = Len(s) + 1 /\ t[Len(t)] = a
      /\ \A k \in 1 .. Len(s) : t[k] = s[k]
  OBVIOUS
<1> HIDE DEF t
<1>2. Totals(s)[Len(s)] = Totals(t)[Len(s)]
  BY <1>1, TotalsAgree
<1>3. Totals(t)[Len(t)] = Totals(t)[Len(s)] + a.len
  <2>1. \A k \in 1 .. Len(t) : Totals(t)[k] = Totals(t)[k - 1] + t[k].len
    BY <1>1, TotalsFacts
  <2>. QED BY <1>1, <2>1
<1>. QED BY <1>2, <1>3 DEF ActionsLen, t

LEMMA ActionsLenEmpty == ActionsLen(<<>>) = 0
<1>1. <<>> \in Seq({}) /\ \A a \in {} : a.len \in Nat
  OBVIOUS
<1>2. Totals(<<>>)[0] = 0
  BY <1>1, TotalsFacts
<1>. QED BY <1>2 DEF ActionsLen

-----------------------------------------------------------------------------
(* What the loop keeps *)

\* A varint has at least one byte, and at most five as far as FrameLengths counts.
LEMMA VarintLenType == ASSUME NEW n PROVE VarintLen(n) \in 1 .. 5
<1> DEFINE S == {240, 2288, 264432, 33818864}
           T == {t \in S : n >= t}
           S2 == {240} \union {2288}
           S3 == S2 \union {264432}
<1>1. IsFiniteSet({240}) /\ Cardinality({240}) = 1
  BY FS_Singleton
<1>2. IsFiniteSet(S2) /\ Cardinality(S2) = 2
  <2>1. 2288 \notin {240}
    OBVIOUS
  <2>. QED BY <1>1, <2>1, FS_AddElement
<1>3. IsFiniteSet(S3) /\ Cardinality(S3) = 3
  <2>1. 264432 \notin S2
    OBVIOUS
  <2> HIDE DEF S2
  <2>. QED BY <1>2, <2>1, FS_AddElement
<1>4. IsFiniteSet(S) /\ Cardinality(S) = 4
  <2>1. 33818864 \notin S3 /\ S = S3 \union {33818864}
    OBVIOUS
  <2> HIDE DEF S3, S
  <2>. QED BY <1>3, <2>1, FS_AddElement
<1>5. Cardinality(T) \in Nat /\ Cardinality(T) <= 4
  <2>1. T \subseteq S
    OBVIOUS
  <2> HIDE DEF S, T
  <2>. QED BY <1>4, <2>1, FS_Subset, FS_CardinalityType
<1>. QED BY <1>5 DEF VarintLen

LEMMA VarintLenShort == ASSUME NEW n \in 0 .. 239 PROVE VarintLen(n) = 1
<1>1. {t \in {240, 2288, 264432, 33818864} : n >= t} = {}
  OBVIOUS
<1>. QED BY <1>1, FS_EmptySet DEF VarintLen

LEMMA EmptyAckLenType == \A ids \in Nat : EmptyAckLen(ids) \in Nat \ {0}
  BY DEF EmptyAckLen, HeaderLen

LEMMA KeptFacts ==
    ASSUME NEW A, \A a \in A : a.len \in Nat, NEW actions \in Seq(A), NEW budget \in Int
    PROVE  LET kept == KeptUpTo(actions, budget) IN
           /\ kept \in [0 .. Len(actions) -> [actions : Seq(A), used : Nat]]
           /\ kept[0] = [actions |-> <<>>, used |-> 0]
           /\ \A k \in 1 .. Len(actions) : kept[k] = Keep(kept[k - 1], actions[k], budget)
<1> DEFINE n == Len(actions)
           V == [actions : Seq(A), used : Nat]
           base == [actions |-> <<>>, used |-> 0]
           step == [p \in (0 .. n) \X V |-> IF p[1] = 0 THEN base
                                            ELSE Keep(p[2], actions[p[1]], budget)]
           F(f) == [k \in 0 .. n |-> IF k = 0 THEN base ELSE Keep(f[k - 1], actions[k], budget)]
<1>1. n \in Nat /\ base \in V /\ \A k \in 1 .. n : actions[k] \in A
  OBVIOUS
<1>2. \A v \in V, a \in A : Keep(v, a, budget) \in V
  BY DEF Keep
<1> HIDE DEF n, V, base
<1>3. step \in [(0 .. n) \X V -> V]
  <2> SUFFICES ASSUME NEW p \in (0 .. n) \X V
               PROVE  (IF p[1] = 0 THEN base ELSE Keep(p[2], actions[p[1]], budget)) \in V
    OBVIOUS
  <2>1. CASE p[1] = 0
    BY <1>1, <2>1
  <2>2. CASE p[1] # 0
    <3>1. p[1] \in 1 .. n /\ p[2] \in V
      BY <2>2, <1>1
    <3>. QED BY <3>1, <1>1, <1>2
  <2>. QED BY <2>1, <2>2
<1>4. PICK g \in [0 .. n -> V] : Computes(g, n, base, step)
  <2> HIDE DEF step
  <2>. QED BY <1>1, <1>3, PrefixRecursion
<1>5. ASSUME NEW k \in 1 .. n PROVE step[<<k, g[k - 1]>>] = Keep(g[k - 1], actions[k], budget)
  <2>1. k \in 0 .. n /\ k # 0 /\ k - 1 \in 0 .. n
    BY <1>1
  <2>2. <<k, g[k - 1]>> \in (0 .. n) \X V
    BY <2>1
  <2>. QED BY <2>1, <2>2
<1>6. g = F(g)
  <2>1. ASSUME NEW k \in 0 .. n
        PROVE  g[k] = IF k = 0 THEN base ELSE Keep(g[k - 1], actions[k], budget)
    <3>1. g[k] = IF k = 0 THEN base ELSE step[<<k, g[k - 1]>>]
      <4> HIDE DEF step
      <4>. QED BY <1>4 DEF Computes
    <3> HIDE DEF step
    <3>. QED BY <1>1, <1>5, <3>1
  <2> HIDE DEF step
  <2>. QED BY <2>1
<1> DEFINE kept == KeptUpTo(actions, budget)
<1>7. kept = F(kept)
  BY <1>6 DEF KeptUpTo, n, base
<1>8. /\ kept[0] = base
      /\ \A k \in 1 .. n : kept[k] = Keep(kept[k - 1], actions[k], budget)
  <2>1. ASSUME NEW f, f = F(f)
        PROVE  f[0] = base /\ \A k \in 1 .. n : f[k] = Keep(f[k - 1], actions[k], budget)
    <3>1. \A k \in 0 .. n : f[k] = IF k = 0 THEN base ELSE Keep(f[k - 1], actions[k], budget)
      BY <2>1
    <3>. QED BY <1>1, <3>1
  <2> HIDE DEF F, kept
  <2>. QED BY <1>7, <2>1
<1> DEFINE T == {k \in 0 .. n : kept[k] \in V}
<1>9. 0 .. n \subseteq T
  <2>1. 0 \in T
    BY <1>1, <1>8
  <2>2. ASSUME NEW k \in 1 .. n, k - 1 \in T PROVE k \in T
    <3>1. k \in 0 .. n /\ kept[k - 1] \in V /\ actions[k] \in A
      BY <1>1, <2>2
    <3>2. kept[k] = Keep(kept[k - 1], actions[k], budget)
      BY <1>8
    <3> HIDE DEF kept
    <3>. QED BY <1>2, <3>1, <3>2
  <2> HIDE DEF T
  <2>. QED BY <1>1, <2>1, <2>2, PrefixInduction
<1>10. kept \in [0 .. n -> V]
  <2> HIDE DEF kept
  <2>. QED BY <1>7, <1>9
<1>. QED BY <1>8, <1>10 DEF n, V, base

\* The salvaged actions all encode, and the ACK that holds them fits every size
\* that holds an empty one: _salvaged_ack never returns a frame that does not encode.
THEOREM SalvagedFits ==
    ASSUME NEW A, \A a \in A : a.len \in Nat, NEW actions \in Seq(A),
           NEW ids \in Nat, NEW size \in Int, EmptyAckLen(ids) <= size
    PROVE  /\ Salvaged(actions, size, ids) \in Seq(A)
           /\ AllEncode(Salvaged(actions, size, ids))
           /\ AckLen(Salvaged(actions, size, ids), ids) <= size
<1> DEFINE n == Len(actions)
           budget == size - EmptyAckLen(ids)
           kept == KeptUpTo(actions, budget)
           Sound(v) == /\ v \in [actions : Seq(A), used : Nat]
                       /\ AllEncode(v.actions)
                       /\ v.used = ActionsLen(v.actions)
                       /\ v.used <= budget
<1>1. EmptyAckLen(ids) \in Nat \ {0}
  BY EmptyAckLenType
<1>2. n \in Nat /\ budget \in Int /\ 0 <= budget /\ \A k \in 1 .. n : actions[k] \in A
  BY <1>1
<1>3. /\ kept \in [0 .. n -> [actions : Seq(A), used : Nat]]
      /\ kept[0] = [actions |-> <<>>, used |-> 0]
      /\ \A k \in 1 .. n : kept[k] = Keep(kept[k - 1], actions[k], budget)
  <2> HIDE DEF budget
  <2>. QED BY <1>2, KeptFacts
<1> HIDE DEF n, budget, kept
<1>4. ASSUME NEW v, Sound(v), NEW a \in A PROVE Sound(Keep(v, a, budget))
  <2>1. CASE a.enc # "ok" \/ v.used + a.len > budget
    BY <1>4, <2>1 DEF Keep
  <2>2. CASE a.enc = "ok" /\ ~ (v.used + a.len > budget)
    <3> DEFINE w == [actions |-> Append(v.actions, a), used |-> v.used + a.len]
    <3>1. Keep(v, a, budget) = w
      BY <2>2 DEF Keep
    <3>2. v.actions \in Seq(A) /\ v.used \in Nat /\ a.len \in Nat
      BY <1>4
    <3>3. w \in [actions : Seq(A), used : Nat]
      BY <3>2
    <3>4. AllEncode(Append(v.actions, a))
      BY <1>4, <2>2, <3>2 DEF AllEncode
    <3>5. v.used + a.len = ActionsLen(Append(v.actions, a))
      BY <1>4, <3>2, ActionsLenAppend
    <3>6. v.used + a.len <= budget
      BY <1>2, <2>2, <3>2
    <3>. QED BY <3>1, <3>3, <3>4, <3>5, <3>6
  <2>. QED BY <2>1, <2>2
<1> DEFINE T == {k \in 0 .. n : Sound(kept[k])}
<1>5. 0 \in T
  <2>1. Sound(kept[0])
    BY <1>2, <1>3, ActionsLenEmpty DEF AllEncode
  <2>. QED BY <1>2, <2>1
<1>6. ASSUME NEW k \in 1 .. n, k - 1 \in T PROVE k \in T
  <2>1. Sound(kept[k - 1]) /\ k \in 0 .. n
    BY <1>2, <1>6
  <2>2. kept[k] = Keep(kept[k - 1], actions[k], budget)
    BY <1>3
  <2> HIDE DEF Sound
  <2>. QED BY <1>2, <1>4, <2>1, <2>2
<1>7. n \in T
  <2> HIDE DEF T
  <2>1. 0 .. n \subseteq T
    BY <1>2, <1>5, <1>6, PrefixInduction
  <2>. QED BY <1>2, <2>1
<1>8. Sound(kept[n]) /\ Salvaged(actions, size, ids) = kept[n].actions
  BY <1>7 DEF Salvaged, n, kept, budget
<1>9. AckLen(kept[n].actions, ids) <= size
  <2>1. ActionsLen(kept[n].actions) \in Nat /\ ActionsLen(kept[n].actions) <= budget
    BY <1>8
  <2>. QED BY <1>1, <2>1 DEF AckLen, budget
<1>. QED BY <1>8, <1>9

-----------------------------------------------------------------------------
(* Which actions are kept *)

\* A selection is the set of positions it keeps; Masked has its lengths.
Masked(actions, K) == [i \in 1 .. Len(actions) |-> [len |-> IF i \in K THEN actions[i].len ELSE 0]]

\* The selections that could be sent as they are.
Sendable(actions, size, ids) ==
    {K \in SUBSET (1 .. Len(actions)) :
        (\A i \in K : actions[i].enc = "ok") /\ AckLen(Masked(actions, K), ids) <= size}

\* K holds the first position where it and L differ.
HoldsFirst(K, L) == \E i \in K \ L : \A j \in 1 .. (i - 1) : j \in K <=> j \in L

\* list consists of the actions at the positions K, in their order.
Selects(list, actions, K) ==
    \E place \in [1 .. Len(list) -> K] :
        /\ \A i, j \in 1 .. Len(list) : i < j => place[i] < place[j]
        /\ \A k \in K : \E i \in 1 .. Len(list) : place[i] = k
        /\ \A i \in 1 .. Len(list) : list[i] = actions[place[i]]

LEMMA MaskedFacts ==
    ASSUME NEW A, \A a \in A : a.len \in Nat, NEW actions \in Seq(A), NEW K
    PROVE  /\ Masked(actions, K) \in Seq([len : Nat])
           /\ Len(Masked(actions, K)) = Len(actions)
           /\ Totals(Masked(actions, K)) \in [0 .. Len(actions) -> Nat]
           /\ Totals(Masked(actions, K))[0] = 0
           /\ \A k \in 1 .. Len(actions) :
                  Totals(Masked(actions, K))[k]
                  = Totals(Masked(actions, K))[k - 1] + (IF k \in K THEN actions[k].len ELSE 0)
<1> DEFINE m == Masked(actions, K)
<1>1. Len(actions) \in Nat /\ \A i \in 1 .. Len(actions) : actions[i].len \in Nat
  OBVIOUS
<1>2. m \in Seq([len : Nat]) /\ Len(m) = Len(actions)
  BY <1>1 DEF Masked
<1>3. \A k \in 1 .. Len(actions) : m[k].len = IF k \in K THEN actions[k].len ELSE 0
  BY DEF Masked
<1> HIDE DEF m
<1>4. \A a \in [len : Nat] : a.len \in Nat
  OBVIOUS
<1>5. /\ Totals(m) \in [0 .. Len(m) -> Nat]
      /\ Totals(m)[0] = 0
      /\ \A k \in 1 .. Len(m) : Totals(m)[k] = Totals(m)[k - 1] + m[k].len
  BY <1>2, <1>4, TotalsFacts
<1>. QED BY <1>2, <1>3, <1>5 DEF m

LEMMA MaskedGrows ==
    ASSUME NEW A, \A a \in A : a.len \in Nat, NEW actions \in Seq(A), NEW K,
           NEW i \in 0 .. Len(actions)
    PROVE  Totals(Masked(actions, K))[i] <= ActionsLen(Masked(actions, K))
<1> DEFINE m == Masked(actions, K)
           n == Len(actions)
           T == {k \in 0 .. n : i + k <= n => Totals(m)[i] <= Totals(m)[i + k]}
<1>1. n \in Nat /\ \A k \in 1 .. n : actions[k].len \in Nat
  OBVIOUS
<1>2. /\ Len(m) = n
      /\ \A k \in 0 .. n : Totals(m)[k] \in Nat
      /\ \A k \in 1 .. n : Totals(m)[k] = Totals(m)[k - 1] + (IF k \in K THEN actions[k].len ELSE 0)
  BY MaskedFacts
<1> HIDE DEF m, n
<1>3. 0 \in T
  BY <1>1, <1>2 DEF n
<1>4. ASSUME NEW k \in 1 .. n, k - 1 \in T PROVE k \in T
  <2>1. SUFFICES ASSUME i + k <= n PROVE Totals(m)[i] <= Totals(m)[i + k]
    BY <1>1, <1>4
  <2>2. i \in Nat /\ i + k \in 1 .. n /\ i + k - 1 \in 0 .. n /\ i + (k - 1) = i + k - 1
    BY <1>1, <2>1 DEF n
  <2>3. Totals(m)[i] <= Totals(m)[i + k - 1]
    BY <1>4, <2>2
  <2>4. Totals(m)[i + k - 1] <= Totals(m)[i + k]
    <3>1. \A j \in 1 .. n : Totals(m)[j - 1] <= Totals(m)[j]
      <4> SUFFICES ASSUME NEW j \in 1 .. n PROVE Totals(m)[j - 1] <= Totals(m)[j]
        OBVIOUS
      <4>1. j - 1 \in 0 .. n /\ j \in 0 .. n
        BY <1>1
      <4> DEFINE d == IF j \in K THEN actions[j].len ELSE 0
      <4>2. d \in Nat /\ Totals(m)[j - 1] \in Nat /\ Totals(m)[j] = Totals(m)[j - 1] + d
        BY <1>1, <1>2, <4>1
      <4> HIDE DEF d
      <4>. QED BY <4>2
    <3>. QED BY <2>2, <3>1
  <2>. QED BY <1>2, <2>2, <2>3, <2>4 DEF n
<1>5. 0 .. n \subseteq T
  <2> HIDE DEF T
  <2>. QED BY <1>1, <1>3, <1>4, PrefixInduction
<1>6. n - i \in 0 .. n /\ i + (n - i) = n
  BY <1>1 DEF n
<1>7. Totals(m)[i] <= Totals(m)[n]
  BY <1>5, <1>6
<1>. QED BY <1>2, <1>7 DEF ActionsLen, m

\* The kept list grows by the actions at the positions K and by no other.
Follows(kept, actions, K) ==
    /\ kept[0].actions = <<>>
    /\ \A k \in 1 .. Len(actions) :
           kept[k].actions = IF k \in K THEN Append(kept[k - 1].actions, actions[k]) ELSE kept[k - 1].actions

\* The loop follows one selection, which is preferred to every other that is sendable.
LEMMA LoopPrefers ==
    ASSUME NEW A, \A a \in A : a.len \in Nat, NEW actions \in Seq(A),
           NEW ids \in Nat, NEW size \in Int, EmptyAckLen(ids) <= size
    PROVE  \E K \in Sendable(actions, size, ids) :
               /\ Follows(KeptUpTo(actions, size - EmptyAckLen(ids)), actions, K)
               /\ \A L \in Sendable(actions, size, ids) \ {K} : HoldsFirst(K, L)
<1> DEFINE n == Len(actions)
           budget == size - EmptyAckLen(ids)
           kept == KeptUpTo(actions, budget)
           Takes(k) == actions[k].enc = "ok" /\ kept[k - 1].used + actions[k].len <= budget
           K == {k \in 1 .. n : Takes(k)}
           used(L) == Totals(Masked(actions, L))
<1>0. EmptyAckLen(ids) \in Nat
  BY EmptyAckLenType
<1>1. /\ EmptyAckLen(ids) \in Nat
      /\ n \in Nat /\ budget \in Int /\ 0 <= budget
      /\ \A k \in 1 .. n : actions[k] \in A /\ actions[k].len \in Nat
  BY <1>0
<1>2. /\ kept \in [0 .. n -> [actions : Seq(A), used : Nat]]
      /\ kept[0] = [actions |-> <<>>, used |-> 0]
      /\ \A k \in 1 .. n : kept[k] = Keep(kept[k - 1], actions[k], budget)
  <2> HIDE DEF budget
  <2>. QED BY <1>1, KeptFacts
<1> HIDE DEF n, budget, kept
<1>3. /\ \A k \in 0 .. n : kept[k].used \in Nat /\ kept[k].actions \in Seq(A)
      /\ kept[0].used = 0 /\ kept[0].actions = <<>>
  BY <1>1, <1>2
<1>4. ASSUME NEW k \in 1 .. n
      PROVE  /\ k \in K => /\ kept[k].used = kept[k - 1].used + actions[k].len
                           /\ kept[k].actions = Append(kept[k - 1].actions, actions[k])
             /\ k \notin K => kept[k] = kept[k - 1]
  <2>1. k - 1 \in 0 .. n /\ kept[k - 1].used \in Nat /\ actions[k].len \in Nat
    BY <1>1, <1>3
  <2>2. kept[k] = Keep(kept[k - 1], actions[k], budget)
    BY <1>2
  <2>3. CASE Takes(k)
    <3>1. ~ (actions[k].enc # "ok" \/ kept[k - 1].used + actions[k].len > budget)
      BY <1>1, <2>1, <2>3
    <3>. QED BY <2>2, <2>3, <3>1 DEF Keep
  <2>4. CASE ~ Takes(k)
    <3>1. actions[k].enc # "ok" \/ kept[k - 1].used + actions[k].len > budget
      BY <1>1, <2>1, <2>4
    <3>. QED BY <2>2, <2>4, <3>1 DEF Keep
  <2>. QED BY <2>3, <2>4
<1>5. ASSUME NEW L
      PROVE  /\ Len(Masked(actions, L)) = n
             /\ used(L)[0] = 0
             /\ \A k \in 0 .. n : used(L)[k] \in Nat
             /\ \A k \in 1 .. n : used(L)[k] = used(L)[k - 1] + (IF k \in L THEN actions[k].len ELSE 0)
  <2> DEFINE total == Totals(Masked(actions, L))
  <2>1. /\ Len(Masked(actions, L)) = n
        /\ total \in [0 .. n -> Nat] /\ total[0] = 0
        /\ \A k \in 1 .. n : total[k] = total[k - 1] + (IF k \in L THEN actions[k].len ELSE 0)
    <3> HIDE DEF used, Takes, K
    <3>. QED BY MaskedFacts DEF n
  <2> HIDE DEF total
  <2>2. used(L) = total
    BY DEF total
  <2> HIDE DEF used
  <2>. QED BY <2>1, <2>2
<1>6. \A k \in 0 .. n : used(K)[k] = kept[k].used /\ kept[k].used <= budget
  <2> DEFINE T == {k \in 0 .. n : used(K)[k] = kept[k].used /\ kept[k].used <= budget}
  <2>1. 0 \in T
    BY <1>1, <1>3, <1>5
  <2>2. ASSUME NEW k \in 1 .. n, k - 1 \in T PROVE k \in T
    <3>1. used(K)[k - 1] = kept[k - 1].used /\ kept[k - 1].used <= budget
      BY <2>2
    <3>2. k \in 0 .. n /\ k - 1 \in 0 .. n /\ kept[k - 1].used \in Nat /\ kept[k].used \in Nat
      BY <1>1, <1>3
    <3>3. CASE k \in K
      <4>1. kept[k].used = kept[k - 1].used + actions[k].len /\ kept[k].used <= budget
        BY <1>4, <3>3
      <4>2. used(K)[k] = used(K)[k - 1] + actions[k].len
        <5> HIDE DEF K
        <5>. QED BY <1>5, <3>3
      <4>. QED BY <3>1, <3>2, <4>1, <4>2
    <3>4. CASE k \notin K
      <4>1. kept[k] = kept[k - 1]
        BY <1>4, <3>4
      <4>2. used(K)[k] = used(K)[k - 1] + 0
        <5> HIDE DEF K
        <5>. QED BY <1>5, <3>4
      <4>. QED BY <3>1, <3>2, <4>1, <4>2
    <3>. QED BY <3>3, <3>4
  <2>3. 0 .. n \subseteq T
    <3> HIDE DEF T
    <3>. QED BY <1>1, <2>1, <2>2, PrefixInduction
  <2>. QED BY <2>3
<1>7. ASSUME NEW L PROVE AckLen(Masked(actions, L), ids) <= size <=> used(L)[n] <= budget
  <2>1. AckLen(Masked(actions, L), ids) = EmptyAckLen(ids) + used(L)[n] /\ used(L)[n] \in Nat
    BY <1>1, <1>5 DEF AckLen, ActionsLen
  <2>. QED BY <1>1, <2>1 DEF budget
<1>8. K \in Sendable(actions, size, ids)
  <2>1. used(K)[n] <= budget
    BY <1>1, <1>6
  <2>2. AckLen(Masked(actions, K), ids) <= size
    <3> HIDE DEF K, used
    <3>. QED BY <1>7, <2>1
  <2>3. K \in SUBSET (1 .. Len(actions)) /\ \A i \in K : actions[i].enc = "ok"
    BY DEF n
  <2> HIDE DEF K
  <2>. QED BY <2>2, <2>3 DEF Sendable
<1>9. Follows(kept, actions, K)
  <2> HIDE DEF K
  <2>. QED BY <1>3, <1>4 DEF Follows, n
<1>10. ASSUME NEW L \in Sendable(actions, size, ids), L # K PROVE HoldsFirst(K, L)
  <2> DEFINE D == {i \in 1 .. n : ~ (i \in K <=> i \in L)}
  <2>1. L \subseteq 1 .. n /\ (\A i \in L : actions[i].enc = "ok") /\ used(L)[n] <= budget
    <3> HIDE DEF used
    <3>. QED BY <1>7 DEF Sendable, n
  <2>2. D # {} /\ D \subseteq Nat
    <3>1. K \subseteq 1 .. n /\ 1 .. n \subseteq Nat
      BY <1>1
    <3> HIDE DEF K
    <3>. QED BY <1>10, <2>1, <3>1
  <2>3. PICK i \in D : \A j \in D : i <= j
    <3> HIDE DEF D
    <3>. QED BY <2>2, LeastElement
  <2>4. i \in 1 .. n /\ ~ (i \in K <=> i \in L)
    OBVIOUS
  <2>5. \A j \in 1 .. (i - 1) : j \in K <=> j \in L
    <3> SUFFICES ASSUME NEW j \in 1 .. (i - 1), ~ (j \in K <=> j \in L) PROVE FALSE
      OBVIOUS
    <3>1. j \in 1 .. n /\ ~ (i <= j)
      BY <1>1, <2>4
    <3>2. j \in D
      BY <3>1
    <3> HIDE DEF D
    <3>. QED BY <2>3, <3>1, <3>2
  <2>6. CASE i \in K
    <3>1. i \in K \ L
      BY <2>4, <2>6
    <3> HIDE DEF K, D
    <3>. QED BY <2>5, <3>1 DEF HoldsFirst
  <2>7. CASE i \notin K
    <3>1. i \in L /\ actions[i].enc = "ok"
      BY <2>1, <2>4, <2>7
    <3>2. kept[i - 1].used + actions[i].len > budget
      <4>1. i - 1 \in 0 .. n /\ kept[i - 1].used \in Nat /\ actions[i].len \in Nat
        BY <1>1, <1>3, <2>4
      <4>. QED BY <1>1, <2>4, <2>7, <3>1, <4>1
    <3>3. used(K)[i - 1] = used(L)[i - 1]
      <4> HIDE DEF K, D
      <4> DEFINE T == {j \in 0 .. (i - 1) : used(K)[j] = used(L)[j]}
      <4>1. i - 1 \in Nat /\ i - 1 \in 0 .. (i - 1) /\ 0 \in T
        BY <1>5, <2>4
      <4>2. ASSUME NEW j \in 1 .. (i - 1), j - 1 \in T PROVE j \in T
        <5>1. j \in 1 .. n /\ j \in 0 .. (i - 1) /\ used(K)[j - 1] = used(L)[j - 1]
          BY <1>1, <2>4, <4>2
        <5>2. j \in K <=> j \in L
          BY <2>5
        <5> HIDE DEF used
        <5>. QED BY <1>5, <5>1, <5>2
      <4>3. 0 .. (i - 1) \subseteq T
        <5> HIDE DEF T
        <5>. QED BY <4>1, <4>2, PrefixInduction
      <4>. QED BY <4>1, <4>3
    <3>4. used(L)[i] = used(L)[i - 1] + actions[i].len
      BY <1>5, <2>4, <3>1
    <3>5. used(L)[i] <= used(L)[n]
      <4>1. used(L)[i] <= ActionsLen(Masked(actions, L))
        BY <2>4, MaskedGrows DEF n
      <4>2. \A m : ActionsLen(m) = Totals(m)[Len(m)]
        BY DEF ActionsLen
      <4>3. Len(Masked(actions, L)) = n
        BY <1>5
      <4>. QED BY ONLY <4>1, <4>2, <4>3
    <3>6. used(K)[i - 1] = kept[i - 1].used /\ i - 1 \in 0 .. n /\ kept[i - 1].used \in Nat
      <4>1. i - 1 \in 0 .. n
        BY <1>1, <2>4
      <4> HIDE DEF K, used
      <4>. QED BY <1>3, <1>6, <4>1
    <3>7. used(L)[i] \in Nat /\ used(L)[n] \in Nat /\ actions[i].len \in Nat
      <4>1. i \in 1 .. n /\ i \in 0 .. n /\ n \in 0 .. n
        BY <1>1, <2>4
      <4> HIDE DEF used, K, D
      <4>. QED BY <1>1, <1>5, <4>1
    <3> HIDE DEF used, K, D
    <3>. QED BY <1>1, <2>1, <3>2, <3>3, <3>4, <3>5, <3>6, <3>7
  <2>. QED BY <2>6, <2>7
<1> HIDE DEF K
<1>. QED BY <1>8, <1>9, <1>10 DEF kept, budget

\* The salvage loop keeps the preferred selection among all that encode and fit:
\* an earlier action is never given up for later ones, and nothing that still
\* fits is dropped.
THEOREM SalvagedIsPreferred ==
    ASSUME NEW A, \A a \in A : a.len \in Nat, NEW actions \in Seq(A),
           NEW ids \in Nat, NEW size \in Int, EmptyAckLen(ids) <= size
    PROVE  \E K \in Sendable(actions, size, ids) :
               /\ Selects(Salvaged(actions, size, ids), actions, K)
               /\ \A L \in Sendable(actions, size, ids) \ {K} : HoldsFirst(K, L)
<1> DEFINE n == Len(actions)
           budget == size - EmptyAckLen(ids)
           kept == KeptUpTo(actions, budget)
<1>0. EmptyAckLen(ids) \in Nat
  BY EmptyAckLenType
<1>1. EmptyAckLen(ids) \in Nat /\ n \in Nat /\ budget \in Int
  BY <1>0
<1>2. PICK K \in Sendable(actions, size, ids) :
          Follows(kept, actions, K) /\ \A L \in Sendable(actions, size, ids) \ {K} : HoldsFirst(K, L)
  BY LoopPrefers
<1>3. K \subseteq 1 .. n
  BY <1>2 DEF Sendable
<1>4. /\ \A k \in 0 .. n : kept[k].actions \in Seq(A)
      /\ kept[0].actions = <<>>
  <2>1. kept \in [0 .. n -> [actions : Seq(A), used : Nat]]
    <3> HIDE DEF budget
    <3>. QED BY <1>1, KeptFacts
  <2> HIDE DEF kept, n
  <2>. QED BY <1>2, <2>1 DEF Follows
<1> HIDE DEF n, budget, kept
<1>5. \A k \in 1 .. n :
          kept[k].actions = IF k \in K THEN Append(kept[k - 1].actions, actions[k]) ELSE kept[k - 1].actions
  BY <1>2 DEF Follows, n
<1>6. Selects(kept[n].actions, actions, K)
  <2> DEFINE Upto(k) == K \cap (1 .. k)
             list(k) == kept[k].actions
             T == {k \in 0 .. n : Selects(list(k), actions, Upto(k))}
  <2>1. 0 \in T
    <3>1. Upto(0) = {} /\ list(0) = <<>>
      BY <1>4
    <3>2. Selects(<<>>, actions, {})
      <4>1. [i \in {} |-> i] \in [1 .. Len(<<>>) -> {}]
        OBVIOUS
      <4>. QED BY <4>1 DEF Selects
    <3>. QED BY <1>1, <3>1, <3>2
  <2>2. ASSUME NEW k \in 1 .. n, k - 1 \in T PROVE k \in T
    <3>1. k \in 0 .. n /\ k - 1 \in 0 .. n /\ list(k - 1) \in Seq(A) /\ Len(list(k - 1)) \in Nat
      BY <1>1, <1>4
    <3>2. CASE k \notin K
      <4>1. list(k) = list(k - 1)
        BY <1>5, <3>2
      <4>2. Upto(k) = Upto(k - 1)
        BY <1>1, <3>2
      <4>. QED BY <2>2, <3>1, <4>1, <4>2
    <3>3. CASE k \in K
      <4> DEFINE s == list(k - 1)
                 m == Len(s)
      <4>1. list(k) = Append(s, actions[k])
        BY <1>5, <3>3
      <4>2. Upto(k) = Upto(k - 1) \union {k} /\ Upto(k - 1) \subseteq 1 .. (k - 1)
        BY <1>1, <3>3
      <4>3. PICK place \in [1 .. m -> Upto(k - 1)] :
                /\ \A i, j \in 1 .. m : i < j => place[i] < place[j]
                /\ \A h \in Upto(k - 1) : \E i \in 1 .. m : place[i] = h
                /\ \A i \in 1 .. m : s[i] = actions[place[i]]
        BY <2>2 DEF Selects
      <4> HIDE DEF Upto, list, m
      <4> DEFINE t == Append(s, actions[k])
                 new == [i \in 1 .. (m + 1) |-> IF i = m + 1 THEN k ELSE place[i]]
      <4>4. /\ m \in Nat /\ Len(t) = m + 1 /\ t[m + 1] = actions[k]
            /\ \A i \in 1 .. m : t[i] = s[i]
        BY <3>1 DEF m
      <4>5. \A i \in 1 .. m : new[i] = place[i] /\ new[i] \in Upto(k - 1) /\ new[i] < k
        <5>1. \A i \in 1 .. m : i \in 1 .. (m + 1) /\ i # m + 1
          BY <4>4
        <5>2. \A i \in 1 .. m : new[i] = place[i]
          BY <5>1
        <5>3. \A h \in Upto(k - 1) : h < k
          BY <1>1, <4>2
        <5> HIDE DEF new, t
        <5>. QED BY <4>3, <5>2, <5>3
      <4>6. new[m + 1] = k /\ \A i \in 1 .. (m + 1) : i \in 1 .. m \/ i = m + 1
        BY <4>4
      <4>7. new \in [1 .. (m + 1) -> Upto(k)]
        <5>1. \A i \in 1 .. (m + 1) : new[i] \in Upto(k)
          <6> HIDE DEF new
          <6>. QED BY <4>2, <4>5, <4>6
        <5>. QED BY <5>1
      <4> HIDE DEF new, t
      <4>8. \A i, j \in 1 .. (m + 1) : i < j => new[i] < new[j]
        <5> SUFFICES ASSUME NEW i \in 1 .. (m + 1), NEW j \in 1 .. (m + 1), i < j
                     PROVE  new[i] < new[j]
          OBVIOUS
        <5>1. i \in 1 .. m
          BY <4>4
        <5>2. CASE j \in 1 .. m
          BY <4>3, <4>5, <5>1, <5>2
        <5>3. CASE j = m + 1
          BY <4>5, <4>6, <5>1, <5>3
        <5>. QED BY <4>6, <5>2, <5>3
      <4>9. \A h \in Upto(k) : \E i \in 1 .. (m + 1) : new[i] = h
        <5>1. m + 1 \in 1 .. (m + 1) /\ 1 .. m \subseteq 1 .. (m + 1)
          BY <4>4
        <5>. QED BY <4>2, <4>3, <4>5, <4>6, <5>1
      <4>10. \A i \in 1 .. (m + 1) : t[i] = actions[new[i]]
        BY <4>3, <4>4, <4>5, <4>6
      <4>11. Selects(t, actions, Upto(k))
        <5>1. 1 .. Len(t) = 1 .. (m + 1)
          BY <4>4 DEF t
        <5> DEFINE P == 1 .. (m + 1)
        <5> HIDE DEF P
        <5>2. /\ 1 .. Len(t) = P
              /\ new \in [P -> Upto(k)]
              /\ \A i, j \in P : i < j => new[i] < new[j]
              /\ \A h \in Upto(k) : \E i \in P : new[i] = h
              /\ \A i \in P : t[i] = actions[new[i]]
          BY <4>7, <4>8, <4>9, <4>10, <5>1 DEF P
        <5>. QED BY <5>2 DEF Selects
      <4>. QED BY <3>1, <4>1, <4>11 DEF t
    <3>. QED BY <3>2, <3>3
  <2>3. n \in T
    <3> HIDE DEF T
    <3>1. 0 .. n \subseteq T
      BY <1>1, <2>1, <2>2, PrefixInduction
    <3>. QED BY <1>1, <3>1
  <2>4. Upto(n) = K
    BY <1>3
  <2>. QED BY <2>3, <2>4
<1>7. Salvaged(actions, size, ids) = kept[n].actions
  BY DEF Salvaged, kept, n, budget
<1>. QED BY <1>2, <1>6, <1>7
====
