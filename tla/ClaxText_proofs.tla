--------------------------- MODULE ClaxText_proofs ---------------------------
(***************************************************************************)
(* Theorems about the functions on texts, for every text of every          *)
(* alphabet.                                                               *)
(*                                                                         *)
(* They compare folds over texts.  A fold is turned into the sequence of   *)
(* its values first, one for every prefix of the text (the lemmas whose    *)
(* names end in Values); what holds for all prefixes is shown by           *)
(* induction along that sequence (UpTo).                                   *)
(***************************************************************************)
EXTENDS ClaxText, NaturalsInduction, WellFoundedInduction, TLAPS

\* A set of numbers that is not empty has a least one.
LEMMA LeastExists ==
  ASSUME NEW S \in SUBSET Nat, S # {}
  PROVE  \E x \in S : \A y \in S : x <= y
<1>1. PICK x \in S : \A y \in S : <<y, x>> \notin OpToRel(<, Nat)
  BY NatLessThanWellFounded, WFMin, Zenon
<1>2. \A y \in S : ~(y < x)
  BY <1>1, Zenon DEF OpToRel
<1>3. \A y \in S : x <= y
  BY <1>2
<1> QED
  BY <1>3

\* Induction up to n, for the set of the numbers something holds for.
LEMMA UpTo ==
  ASSUME NEW n \in Nat, NEW S, 0 \in S,
         \A k \in Nat : k < n /\ k \in S => k + 1 \in S
  PROVE  \A k \in 0..n : k \in S
<1> DEFINE Bad == {k \in 0..n : k \notin S}
<1>1. ASSUME Bad # {} PROVE FALSE
  <2>1. Bad \in SUBSET Nat
    OBVIOUS
  <2>2. PICK k \in Bad : \A j \in Bad : k <= j
    <3> HIDE DEF Bad
    <3> QED
      BY <1>1, <2>1, LeastExists
  <2>3. k \in Nat /\ k <= n /\ k # 0 /\ k \notin S
    BY <2>2
  <2>4. k - 1 \in Nat /\ k - 1 < n /\ k - 1 \in 0..n /\ k - 1 \notin Bad /\ (k - 1) + 1 = k
    BY <2>2, <2>3
  <2>5. k - 1 \in S
    BY <2>4
  <2> QED
    BY <2>3, <2>4, <2>5
<1> QED
  BY <1>1

\* Sequences are equal when their elements are.
LEMMA SameSeq ==
  ASSUME NEW S, NEW a \in Seq(S), NEW b \in Seq(S), NEW n, Len(a) = n, Len(b) = n,
         \A i \in 1..n : a[i] = b[i]
  PROVE  a = b
  OBVIOUS

LEMMA JoinFacts ==
  ASSUME NEW S, NEW a \in Seq(S), NEW b \in Seq(S)
  PROVE  a \o b \in Seq(S) /\ Len(a \o b) = Len(a) + Len(b)
  OBVIOUS

IsJoin(c, a, b, S) ==
  /\ c \in Seq(S) /\ Len(c) = Len(a) + Len(b)
  /\ \A i \in 1..Len(a) : c[i] = a[i]
  /\ \A i \in 1..Len(b) : c[Len(a) + i] = b[i]

LEMMA Join ==
  ASSUME NEW S, NEW a \in Seq(S), NEW b \in Seq(S)
  PROVE  IsJoin(a \o b, a, b, S)
  BY DEF IsJoin

\* c is what stands from place m to place n.
IsSlice(c, s, m, n, S) ==
  /\ c \in Seq(S) /\ Len(c) = (n + 1) - m
  /\ \A i \in 1..((n + 1) - m) : c[i] = s[(m - 1) + i]

LEMMA Slice ==
  ASSUME NEW S, NEW s \in Seq(S), NEW m \in Nat, NEW n \in Nat, 1 <= m, m <= n + 1, n <= Len(s)
  PROVE  IsSlice(SubSeq(s, m, n), s, m, n, S)
<1> DEFINE c == SubSeq(s, m, n)
<1>1. c \in Seq(S)
  OBVIOUS
<1>2. Len(c) = (n + 1) - m
  OBVIOUS
<1>3. ASSUME NEW i \in 1..((n + 1) - m)
      PROVE  c[i] = s[(m - 1) + i]
  <2>1. c[i] = s[m + i - 1] /\ m + i - 1 = (m - 1) + i
    OBVIOUS
  <2> QED
    BY <2>1
<1> QED
  BY <1>1, <1>2, <1>3 DEF IsSlice

LEMMA NothingAdded ==
  ASSUME NEW S, NEW s \in Seq(S)
  PROVE  s \o << >> = s
  OBVIOUS

LEMMA Wider ==
  ASSUME NEW S, NEW T, S \subseteq T, NEW s \in Seq(S)
  PROVE  s \in Seq(T)
  OBVIOUS

IsGrown(c, a, x, S) ==
  /\ c \in Seq(S) /\ Len(c) = Len(a) + 1 /\ c[Len(a) + 1] = x
  /\ \A i \in 1..Len(a) : c[i] = a[i]

LEMMA OneMore ==
  ASSUME NEW S, NEW a \in Seq(S), NEW x \in S
  PROVE  IsGrown(a \o <<x>>, a, x, S)
  BY DEF IsGrown

IsTriple(q, x, y, z, S) == q \in Seq(S) /\ Len(q) = 3 /\ q[1] = x /\ q[2] = y /\ q[3] = z
IsPair(q, x, y, S) == q \in Seq(S) /\ Len(q) = 2 /\ q[1] = x /\ q[2] = y

\* Three sequences of at most one element.
LEMMA UpToThree ==
  ASSUME NEW S, NEW x \in S, NEW y \in S, NEW z \in S
  PROVE  /\ IsTriple(<<x>> \o <<y>> \o <<z>>, x, y, z, S)
         /\ IsPair(<<x>> \o <<y>> \o << >>, x, y, S)
         /\ <<x>> \o << >> \o << >> = <<x>>
<1> DEFINE u == <<x>>
           v == u \o <<y>>
           w == v \o <<z>>
<1>1. u \in Seq(S) /\ Len(u) = 1 /\ u[1] = x
  OBVIOUS
<1> HIDE DEF u
<1>2. v \in Seq(S) /\ Len(v) = 2 /\ v[1] = x /\ v[2] = y
  <2>1. IsGrown(v, u, y, S)
    BY <1>1, OneMore
  <2> HIDE DEF v
  <2> QED
    BY <1>1, <2>1 DEF IsGrown
<1> HIDE DEF v
<1>3. w \in Seq(S) /\ Len(w) = 3 /\ w[1] = x /\ w[2] = y /\ w[3] = z
  <2>1. IsGrown(w, v, z, S)
    BY <1>2, OneMore
  <2> HIDE DEF w
  <2> QED
    BY <1>2, <2>1 DEF IsGrown
<1>4. v \o << >> = v /\ u \o << >> = u
  BY <1>1, <1>2
<1> HIDE DEF w
<1>5. IsTriple(w, x, y, z, S) /\ IsPair(v, x, y, S)
  BY <1>2, <1>3 DEF IsTriple, IsPair
<1> QED
  BY <1>4, <1>5, Zenon DEF u, v, w

\* A set of places has a last one.
LEMMA MaxIsLast ==
  ASSUME NEW n \in Nat, NEW s \in SUBSET (1..n), s # {}
  PROVE  Max(s) \in s /\ \A x \in s : x <= Max(s)
<1> DEFINE S == {m \in Nat : \A y \in s : m >= y}
<1>1. PICK m \in S : \A k \in S : m <= k
  <2>1. S \in SUBSET Nat /\ n \in S
    OBVIOUS
  <2> HIDE DEF S
  <2> QED
    BY <2>1, LeastExists
<1>2. ASSUME m \notin s PROVE FALSE
  <2>1. PICK y \in s : TRUE
    OBVIOUS
  <2>2. m \in Nat /\ m - 1 \in Nat /\ \A z \in s : z \in Nat /\ m >= z /\ m # z
    BY <1>1, <1>2, <2>1
  <2>3. \A z \in s : m - 1 >= z
    BY <2>2
  <2>4. m <= m - 1
    BY <1>1, <2>2, <2>3
  <2> QED
    BY <2>2, <2>4
<1>3. \E x \in s : \A y \in s : x >= y
  BY <1>1, <1>2
<1>4. Max(s) \in s /\ \A y \in s : Max(s) >= y
  BY <1>3 DEF Max
<1> QED
  BY <1>4

\* What a fold goes through is the prefixes.
LEMMA PrefixFacts ==
  ASSUME NEW n \in Nat, NEW k \in 1..n
  PROVE  /\ 1..k \in SUBSET (1..n) /\ 1..(k - 1) \in SUBSET (1..n)
         /\ 1..k # {} /\ Max(1..k) = k /\ (1..k) \ {k} = 1..(k - 1)
<1>1. k \in Nat /\ k \in 1..k /\ 1..k \in SUBSET (1..k)
  OBVIOUS
<1>2. Max(1..k) \in 1..k /\ k <= Max(1..k)
  BY <1>1, MaxIsLast
<1>3. Max(1..k) = k
  BY <1>2
<1>4. (1..k) \ {k} = 1..(k - 1)
  OBVIOUS
<1>5. 1..k \in SUBSET (1..n) /\ 1..(k - 1) \in SUBSET (1..n)
  OBVIOUS
<1> QED
  BY <1>1, <1>3, <1>4, <1>5

\* f is the function a fold is made with: G makes the value at the next place from
\* the one at this, and the place.
IsFold(f, n, D, base, G) ==
  /\ f \in [SUBSET (1..n) -> D]
  /\ \A s \in SUBSET (1..n) : f[s] = IF s = {} THEN base ELSE G[<<f[s \ {Max(s)}], Max(s)>>]

\* f does as G as long as it stays in D.
Follows(f, n, D, base, G) ==
  /\ f[{}] = base
  /\ \A s \in SUBSET (1..n) :
       s # {} /\ f[s \ {Max(s)}] \in D => f[s] = G[<<f[s \ {Max(s)}], Max(s)>>]

\* v has the values of the fold on the prefixes.
IsValues(v, n, D, base, G) ==
  /\ v \in [0..n -> D] /\ v[0] = base
  /\ \A k \in 1..n : v[k] = G[<<v[k - 1], k>>]

HasValues(f, n, D, base, G) == \E v : IsValues(v, n, D, base, G) /\ v[n] = f[1..n]

LEMMA FoldExists ==
  ASSUME NEW n \in Nat, NEW D, NEW base \in D, NEW G \in [D \X (1..n) -> D]
  PROVE  \E f : IsFold(f, n, D, base, G)
<1> DEFINE S == {k \in 0..n : \E f : IsFold(f, k, D, base, G)}
<1>1. 0 \in S
  <2> DEFINE f == [s \in SUBSET (1..0) |-> base]
  <2>1. IsFold(f, 0, D, base, G)
    BY DEF IsFold
  <2> QED
    BY <2>1
<1>2. ASSUME NEW m \in Nat, m < n, m \in S
      PROVE  m + 1 \in S
  <2>1. PICK f : IsFold(f, m, D, base, G)
    BY <1>2
  <2> DEFINE k == m + 1
             g == [s \in SUBSET (1..k) |-> IF k \notin s THEN f[s] ELSE G[<<f[s \ {k}], k>>]]
  <2>2. k \in 1..n /\ k \in 0..n
    BY <1>2
  <2>3. \A s \in SUBSET (1..k) : (k \notin s => s \in SUBSET (1..m)) /\ s \ {k} \in SUBSET (1..m)
    BY <1>2
  <2>4. g \in [SUBSET (1..k) -> D]
    <3>1. ASSUME NEW s \in SUBSET (1..k)
          PROVE  (IF k \notin s THEN f[s] ELSE G[<<f[s \ {k}], k>>]) \in D
      <4>1. f[s \ {k}] \in D /\ (k \notin s => f[s] \in D)
        BY <2>1, <2>3 DEF IsFold
      <4> HIDE DEF k
      <4> QED
        BY <2>2, <4>1
    <3> QED
      BY <3>1
  <2>5. ASSUME NEW s \in SUBSET (1..k)
        PROVE  g[s] = IF s = {} THEN base ELSE G[<<g[s \ {Max(s)}], Max(s)>>]
    <3>1. CASE k \notin s
      <4>1. s \in SUBSET (1..m) /\ g[s] = f[s]
        BY <2>3, <3>1
      <4>2. s # {} => g[s \ {Max(s)}] = f[s \ {Max(s)}]
        BY <3>1
      <4>3. f[s] = IF s = {} THEN base ELSE G[<<f[s \ {Max(s)}], Max(s)>>]
        BY <2>1, <4>1, Zenon DEF IsFold
      <4> HIDE DEF g
      <4> QED
        BY <4>1, <4>2, <4>3, Zenon
    <3>2. CASE k \in s
      <4>1. Max(s) = k
        <5>0. k \in Nat
          BY <1>2
        <5> HIDE DEF k
        <5>1. Max(s) \in s /\ k <= Max(s)
          BY <3>2, <5>0, MaxIsLast
        <5>2. Max(s) \in 1..k
          BY <5>1
        <5> QED
          BY <5>0, <5>1, <5>2
      <4>2. g[s \ {k}] = f[s \ {k}] /\ g[s] = G[<<f[s \ {k}], k>>] /\ s # {}
        BY <3>2
      <4> HIDE DEF g, k
      <4> QED
        BY <4>1, <4>2, Zenon
    <3> QED
      BY <3>1, <3>2
  <2> HIDE DEF g
  <2>6. IsFold(g, k, D, base, G)
    BY <2>4, <2>5 DEF IsFold
  <2> QED
    BY <2>2, <2>6
<1>3. n \in S
  <2> HIDE DEF S
  <2> QED
    BY <1>1, <1>2, UpTo
<1> QED
  BY <1>3

\* The values it has on the prefixes, if it follows G as long as it is in D.
LEMMA FoldValues ==
  ASSUME NEW n \in Nat, NEW D, NEW base \in D, NEW G \in [D \X (1..n) -> D],
         NEW f, Follows(f, n, D, base, G)
  PROVE  HasValues(f, n, D, base, G)
<1> DEFINE v == [k \in 0..n |-> f[1..k]]
           S == {k \in 0..n : v[k] \in D}
<1>1. v[0] = base /\ v[n] = f[1..n]
  <2>1. 1..0 = {} /\ 0 \in 0..n /\ n \in 0..n
    OBVIOUS
  <2> QED
    BY <2>1, Zenon DEF Follows
<1>2. ASSUME NEW k \in 1..n, v[k - 1] \in D
      PROVE  v[k] = G[<<v[k - 1], k>>] /\ v[k] \in D
  <2>1. /\ 1..k \in SUBSET (1..n) /\ 1..k # {} /\ Max(1..k) = k /\ (1..k) \ {k} = 1..(k - 1)
        /\ k \in 0..n /\ k - 1 \in 0..n
    BY PrefixFacts
  <2>2. v[k] = f[1..k] /\ v[k - 1] = f[1..(k - 1)]
    BY <2>1
  <2> HIDE DEF v
  <2>3. f[1..k] = G[<<f[1..(k - 1)], k>>]
    BY <1>2, <2>1, <2>2, Zenon DEF Follows
  <2> QED
    BY <1>2, <2>2, <2>3
<1> HIDE DEF v
<1>3. 0 \in S
  BY <1>1
<1>4. ASSUME NEW k \in Nat, k < n, k \in S
      PROVE  k + 1 \in S
  <2>1. k + 1 \in 1..n /\ k + 1 \in 0..n /\ (k + 1) - 1 = k /\ v[k] \in D
    BY <1>4
  <2>2. v[k + 1] \in D
    BY <1>2, <2>1
  <2> QED
    BY <2>1, <2>2
<1>5. \A k \in 0..n : v[k] \in D
  <2> HIDE DEF S
  <2>1. \A k \in 0..n : k \in S
    BY <1>3, <1>4, UpTo
  <2> QED
    BY <2>1 DEF S
<1>6. v \in [0..n -> D]
  BY <1>5 DEF v
<1>7. \A k \in 1..n : k - 1 \in 0..n
  OBVIOUS
<1> QED
  BY <1>1, <1>2, <1>5, <1>6, <1>7 DEF IsValues, HasValues

-----------------------------------------------------------------------------
(* The checksum.                                                           *)

Bits == SUBSET Nat

LEMMA ShiftedBits ==
  ASSUME NEW a \in Bits, NEW n \in Nat
  PROVE  /\ Right(a, n) \in SUBSET Nat
         /\ \A i : i \in Right(a, n) <=> i \in Nat /\ i + n \in a
<1> USE DEF Bits
<1>1. ASSUME NEW i, i \in Right(a, n)
      PROVE  i \in Nat /\ i + n \in a
  <2>1. PICK k \in a : k >= n /\ i = k - n
    BY <1>1 DEF Right
  <2> QED
    BY <2>1
<1>2. ASSUME NEW i \in Nat, i + n \in a
      PROVE  i \in Right(a, n)
  <2>1. i + n >= n /\ i = (i + n) - n
    OBVIOUS
  <2> QED
    BY <1>2, <2>1 DEF Right
<1> QED
  BY <1>1, <1>2

\* A shift goes through an addition, two shifts are one, and words stay words.
LEMMA Shifts ==
  ASSUME NEW a \in Bits, NEW b \in Bits, NEW n \in Nat
  PROVE  /\ Xor(a, b) \in Bits /\ Right(a, n) \in Bits
         /\ Right(Xor(a, b), n) = Xor(Right(a, n), Right(b, n))
         /\ Right(Right(a, n), 1) = Right(a, n + 1)
         /\ Right(a, 0) = a
<1> USE DEF Bits
<1>1. Xor(a, b) \in SUBSET Nat
  BY DEF Xor
<1>2. \A i : i \in Right(Xor(a, b), n) <=> i \in Xor(Right(a, n), Right(b, n))
  <2>1. \A i : i \in Right(Xor(a, b), n) <=> i \in Nat /\ i + n \in Xor(a, b)
    BY <1>1, ShiftedBits
  <2>2. /\ \A i : i \in Right(a, n) <=> i \in Nat /\ i + n \in a
        /\ \A i : i \in Right(b, n) <=> i \in Nat /\ i + n \in b
    BY ShiftedBits
  <2> QED
    BY <2>1, <2>2 DEF Xor
<1>3. Right(a, n) \in SUBSET Nat
  BY ShiftedBits
<1>4. \A i : i \in Right(Right(a, n), 1) <=> i \in Right(a, n + 1)
  <2>1. \A i : i \in Right(Right(a, n), 1) <=> i \in Nat /\ i + 1 \in Right(a, n)
    BY <1>3, ShiftedBits
  <2>2. \A i : i \in Right(a, n) <=> i \in Nat /\ i + n \in a
    BY ShiftedBits
  <2>3. \A i : i \in Right(a, n + 1) <=> i \in Nat /\ i + (n + 1) \in a
    BY ShiftedBits
  <2>4. \A i \in Nat : (i + 1) + n = i + (n + 1) /\ i + 1 \in Nat
    OBVIOUS
  <2> QED
    BY <2>1, <2>2, <2>3, <2>4
<1>5. \A i : i \in Right(a, 0) <=> i \in a
  <2>1. \A i : i \in Right(a, 0) <=> i \in Nat /\ i + 0 \in a
    BY ShiftedBits
  <2>2. \A i \in Nat : i + 0 = i
    OBVIOUS
  <2> QED
    BY <2>1, <2>2
<1> QED
  BY <1>1, <1>2, <1>3, <1>4, <1>5

LEMMA XorLaws ==
  ASSUME NEW a, NEW b, NEW c
  PROVE  /\ Xor(a, b) = Xor(b, a) /\ Xor(Xor(a, b), c) = Xor(a, Xor(b, c))
         /\ Xor(Xor(a, b), b) = a /\ Xor(a, {}) = a
  BY DEF Xor

LEMMA Words ==
  ASSUME NEW a \in SUBSET Word, NEW b \in SUBSET Word, NEW n \in Nat
  PROVE  Xor(a, b) \in SUBSET Word /\ Right(a, n) \in SUBSET Word
<1>1. a \in Bits
  BY DEF Word, Bits
<1>2. \A i : i \in Right(a, n) => i \in Word
  <2>1. \A i : i \in Right(a, n) => i \in Nat /\ i + n \in a
    BY <1>1, ShiftedBits
  <2> QED
    BY <2>1 DEF Word
<1> QED
  BY <1>2 DEF Xor

LEMMA PolyIsWord == poly \in SUBSET Word
  BY DEF poly, Word

LEMMA StepIsWord ==
  ASSUME NEW c \in SUBSET Word
  PROVE  GenStep(c) \in SUBSET Word
<1>1. Right(c, 1) \in SUBSET Word /\ Xor(Right(c, 1), poly) \in SUBSET Word
  BY Words, PolyIsWord
<1> QED
  BY <1>1 DEF GenStep

\* An entry of the table is eight steps from its index.
LEMMA GenValues ==
  ASSUME NEW b \in SUBSET (0..7)
  PROVE  \E v \in [0..8 -> SUBSET Word] :
           /\ v[0] = b
           /\ \A k \in 1..8 : v[k] = GenStep(v[k - 1])
           /\ clax_crc32_gen[b] = v[8]
<1> DEFINE js == <<8, 7, 6, 5, 4, 3, 2, 1>>
           D == SUBSET Word
           G == [x \in D \X (1..8) |-> GenStep(x[1])]
           IsIter(f) == f = [s \in SUBSET (1..8) |->
                               IF s = {} THEN b ELSE GenStep(f[s \ {Max(s)}])]
           chosen == CHOOSE f : IsIter(f)
<1>1. b \in D /\ 8 \in Nat
  BY DEF Word
<1>2. G \in [D \X (1..8) -> D] /\ \A x \in D, k \in 1..8 : G[<<x, k>>] = GenStep(x)
  <2>1. \A x \in D : GenStep(x) \in D
    BY StepIsWord
  <2> HIDE DEF D
  <2> QED
    BY <2>1
<1> HIDE DEF G, D
<1>3. clax_crc32_gen[b] = chosen[1..8]
  <2>1. DOMAIN js = 1..8
    OBVIOUS
  <2>2. clax_crc32_gen[b] = FoldLeft(LAMBDA c, j : GenStep(c), b, js)
    BY DEF clax_crc32_gen
  <2> HIDE DEF js
  <2> QED
    BY <2>1, <2>2 DEF FoldLeft, MapThenFoldSet
<1>4. \A s \in SUBSET (1..8) : s # {} => Max(s) \in 1..8 /\ s \ {Max(s)} \in SUBSET (1..8)
  BY MaxIsLast
<1>5. IsIter(chosen)
  <2>1. PICK g : IsFold(g, 8, D, b, G)
    BY <1>1, <1>2, FoldExists
  <2>2. \A s \in SUBSET (1..8) : g[s] = IF s = {} THEN b ELSE GenStep(g[s \ {Max(s)}])
    BY <1>2, <1>4, <2>1 DEF IsFold
  <2>3. g = [s \in SUBSET (1..8) |-> g[s]]
    BY <2>1 DEF IsFold
  <2>4. IsIter(g)
    BY <2>2, <2>3, Zenon
  <2> QED
    BY <2>4
<1>f. PICK f : IsIter(f) /\ clax_crc32_gen[b] = f[1..8]
  BY <1>3, <1>5
<1>6. Follows(f, 8, D, b, G)
  BY <1>2, <1>4, <1>f DEF Follows
<1>7. PICK v : IsValues(v, 8, D, b, G) /\ v[8] = f[1..8]
  <2>1. HasValues(f, 8, D, b, G)
    BY <1>1, <1>2, <1>6, FoldValues
  <2> QED
    BY <2>1 DEF HasValues
<1>8. v \in [0..8 -> D] /\ v[0] = b /\ \A k \in 1..8 : v[k] = GenStep(v[k - 1])
  <2>1. \A k \in 1..8 : k - 1 \in 0..8
    OBVIOUS
  <2> QED
    BY <1>2, <1>7, <2>1 DEF IsValues
<1> QED
  BY <1>f, <1>7, <1>8 DEF D

\* One byte more with the table, and one bit more without.
CalcStep(c, byte) == Xor(Right(c, 8) \ (24..31), clax_crc32_gen[Xor(c \cap (0..7), byte)])
BitStep(byte, w, k) == IF (0 \in w) # (k \in byte) THEN Xor(Right(w, 1), poly) ELSE Right(w, 1)

LEMMA CalcIsWord ==
  ASSUME NEW c \in SUBSET Word, NEW byte \in SUBSET (0..7)
  PROVE  /\ Xor(c \cap (0..7), byte) \in SUBSET (0..7)
         /\ CalcStep(c, byte) \in SUBSET Word
<1> DEFINE b == Xor(c \cap (0..7), byte)
<1>1. b \in SUBSET (0..7)
  BY DEF Xor
<1> HIDE DEF b
<1>2. clax_crc32_gen[b] \in SUBSET Word
  BY <1>1, GenValues
<1>3. Right(c, 8) \in SUBSET Word
  BY Words
<1>4. Xor(Right(c, 8) \ (24..31), clax_crc32_gen[b]) \in SUBSET Word
  BY <1>2, <1>3 DEF Xor
<1> QED
  BY <1>1, <1>4 DEF CalcStep, b

LEMMA BitIsWord ==
  ASSUME NEW w \in SUBSET Word, NEW byte, NEW k
  PROVE  BitStep(byte, w, k) \in SUBSET Word
  BY Words, PolyIsWord DEF BitStep

LEMMA CalcValues ==
  ASSUME NEW crc \in SUBSET Word, NEW buf \in Seq(SUBSET (0..7))
  PROVE  \E v \in [0..Len(buf) -> SUBSET Word] :
           /\ v[0] = crc
           /\ \A k \in 1..Len(buf) : v[k] = CalcStep(v[k - 1], buf[k])
           /\ clax_crc32_calc(crc, buf) = v[Len(buf)]
<1> DEFINE n == Len(buf)
           D == SUBSET Word
           G == [x \in D \X (1..n) |-> CalcStep(x[1], buf[x[2]])]
           IsIter(f) == f = [s \in SUBSET (1..n) |->
                               IF s = {} THEN crc ELSE CalcStep(f[s \ {Max(s)}], buf[Max(s)])]
           chosen == CHOOSE f : IsIter(f)
<1>1. crc \in D /\ n \in Nat /\ DOMAIN buf = 1..n
  OBVIOUS
<1>2. /\ G \in [D \X (1..n) -> D]
      /\ \A x \in D, k \in 1..n : G[<<x, k>>] = CalcStep(x, buf[k])
  <2>1. \A k \in 1..n : buf[k] \in SUBSET (0..7)
    OBVIOUS
  <2>2. \A x \in D, k \in 1..n : CalcStep(x, buf[k]) \in D
    <3> HIDE DEF n
    <3> QED
      BY <2>1, CalcIsWord
  <2> HIDE DEF D, n
  <2> QED
    BY <2>2
<1>3. clax_crc32_calc(crc, buf) = chosen[1..n]
  BY <1>1 DEF clax_crc32_calc, FoldLeft, MapThenFoldSet, CalcStep
<1> HIDE DEF G, D, n
<1>4. \A s \in SUBSET (1..n) : s # {} => Max(s) \in 1..n /\ s \ {Max(s)} \in SUBSET (1..n)
  BY <1>1, MaxIsLast
<1>5. IsIter(chosen)
  <2>1. PICK g : IsFold(g, n, D, crc, G)
    BY <1>1, <1>2, FoldExists
  <2>2. \A s \in SUBSET (1..n) :
          g[s] = IF s = {} THEN crc ELSE CalcStep(g[s \ {Max(s)}], buf[Max(s)])
    BY <1>2, <1>4, <2>1 DEF IsFold
  <2>3. g = [s \in SUBSET (1..n) |-> g[s]]
    BY <2>1 DEF IsFold
  <2>4. IsIter(g)
    BY <2>2, <2>3, Zenon
  <2> QED
    BY <2>4
<1>f. PICK f : IsIter(f) /\ clax_crc32_calc(crc, buf) = f[1..n]
  BY <1>3, <1>5
<1>6. Follows(f, n, D, crc, G)
  BY <1>2, <1>4, <1>f DEF Follows
<1>7. PICK v : IsValues(v, n, D, crc, G) /\ v[n] = f[1..n]
  <2>1. HasValues(f, n, D, crc, G)
    BY <1>1, <1>2, <1>6, FoldValues
  <2> QED
    BY <2>1 DEF HasValues
<1>8. /\ v \in [0..n -> D] /\ v[0] = crc
      /\ \A k \in 1..n : v[k] = CalcStep(v[k - 1], buf[k])
  <2>1. \A k \in 1..n : k - 1 \in 0..n
    BY <1>1
  <2> QED
    BY <1>2, <1>7, <2>1 DEF IsValues
<1> QED
  BY <1>f, <1>7, <1>8 DEF D, n

LEMMA RemainderValues ==
  ASSUME NEW s, NEW n \in Nat, Len(s) = n
  PROVE  \E v \in [0..(8 * n) -> SUBSET Word] :
           /\ v[0] = Word
           /\ \A k \in 1..(8 * n) :
                v[k] = BitStep(Bytes(s)[((k - 1) \div 8) + 1], v[k - 1], (k - 1) % 8)
           /\ Remainder(s) = v[8 * n]
<1> DEFINE m == 8 * n
           D == SUBSET Word
           Next1(x, k) == BitStep(Bytes(s)[((k - 1) \div 8) + 1], x, (k - 1) % 8)
           G == [x \in D \X (1..m) |-> Next1(x[1], x[2])]
           ks == [k \in 1..m |-> k - 1]
           IsIter(f) == f = [t \in SUBSET (1..m) |->
                               IF t = {} THEN Word ELSE Next1(f[t \ {Max(t)}], Max(t))]
           Chosen(f) == f = [t \in SUBSET (1..m) |->
                               IF t = {} THEN Word
                               ELSE BitStep(Bytes(s)[(ks[Max(t)] \div 8) + 1], f[t \ {Max(t)}],
                                            ks[Max(t)] % 8)]
           chosen == CHOOSE f : Chosen(f)
<1>1. Word \in D /\ m \in Nat /\ DOMAIN ks = 1..m
  OBVIOUS
<1>2. /\ G \in [D \X (1..m) -> D]
      /\ \A x \in D, k \in 1..m : G[<<x, k>>] = Next1(x, k)
  <2>1. \A x \in D, k \in 1..m : Next1(x, k) \in D
    BY BitIsWord
  <2> HIDE DEF D, m, Next1
  <2> QED
    BY <2>1
<1>3. Remainder(s) = chosen[1..m]
  <2>1. Remainder(s)
          = FoldLeft(LAMBDA w, k : BitStep(Bytes(s)[(k \div 8) + 1], w, k % 8), Word, ks)
    BY DEF Remainder, BitStep
  <2> HIDE DEF ks
  <2> QED
    BY <1>1, <2>1 DEF FoldLeft, MapThenFoldSet
<1> HIDE DEF G, D, m
<1>4. \A t \in SUBSET (1..m) : t # {} => Max(t) \in 1..m /\ t \ {Max(t)} \in SUBSET (1..m)
  BY <1>1, MaxIsLast
<1>5. \A k \in 1..m : ks[k] = k - 1
  OBVIOUS
<1> HIDE DEF ks
<1>6. IsIter(chosen)
  <2>1. PICK g : IsFold(g, m, D, Word, G)
    BY <1>1, <1>2, FoldExists
  <2>2. ASSUME NEW t \in SUBSET (1..m)
        PROVE  /\ g[t] = IF t = {} THEN Word ELSE Next1(g[t \ {Max(t)}], Max(t))
               /\ t # {} => ks[Max(t)] = Max(t) - 1
    <3> HIDE DEF Next1
    <3> QED
      BY <1>2, <1>4, <1>5, <2>1 DEF IsFold
  <2>3. g = [t \in SUBSET (1..m) |-> g[t]]
    BY <2>1 DEF IsFold
  <2>4. Chosen(g)
    BY <2>2, <2>3, Zenon
  <2>5. Chosen(chosen)
    BY <2>4
  <2> HIDE DEF chosen
  <2> QED
    BY <2>2, <2>5, Zenon
<1>f. PICK f : IsIter(f) /\ Remainder(s) = f[1..m]
  BY <1>3, <1>6
<1>7. Follows(f, m, D, Word, G)
  <2> HIDE DEF Next1
  <2> QED
    BY <1>2, <1>4, <1>f DEF Follows
<1>8. PICK v : IsValues(v, m, D, Word, G) /\ v[m] = f[1..m]
  <2>1. HasValues(f, m, D, Word, G)
    BY <1>1, <1>2, <1>7, FoldValues
  <2> QED
    BY <2>1 DEF HasValues
<1>9. /\ v \in [0..m -> D] /\ v[0] = Word
      /\ \A k \in 1..m : v[k] = Next1(v[k - 1], k)
  <2>1. \A k \in 1..m : k - 1 \in 0..m
    BY <1>1
  <2> HIDE DEF Next1
  <2> QED
    BY <1>2, <1>8, <2>1 DEF IsValues
<1> QED
  BY <1>f, <1>8, <1>9 DEF D, m

\* Eight bits are one byte: what the bits of the word and of the byte above the one
\* at hand will be worth goes along unchanged.
LEMMA ByteOfBits ==
  ASSUME NEW w \in SUBSET Word, NEW byte \in SUBSET (0..7), NEW r, r[0] = w,
         \A k \in 0..7 : r[k + 1] = BitStep(byte, r[k], k)
  PROVE  r[8] = CalcStep(w, byte)
<1> DEFINE hi == w \ (0..7)
           b == Xor(w \cap (0..7), byte)
<1>1. /\ b \in SUBSET (0..7) /\ hi \in SUBSET Nat /\ byte \in SUBSET Nat
      /\ hi \in Bits /\ byte \in Bits /\ 0 \in Nat /\ 1 \in Nat
  BY DEF Xor, Word, Bits
<1>2. PICK t \in [0..8 -> SUBSET Word] :
        /\ t[0] = b
        /\ \A k \in 1..8 : t[k] = GenStep(t[k - 1])
        /\ clax_crc32_gen[b] = t[8]
  <2> HIDE DEF b
  <2> QED
    BY <1>1, GenValues
<1> DEFINE Is(k) == r[k] = Xor(Xor(Right(hi, k), t[k]), Right(byte, k))
           S == {k \in 0..8 : Is(k)}
<1>3. 0 \in S
  <2>1. w = Xor(Xor(hi, b), byte)
    BY DEF Xor
  <2> HIDE DEF hi, b
  <2>2. Right(hi, 0) = hi /\ Right(byte, 0) = byte
    BY <1>1, Shifts
  <2> QED
    BY <1>2, <2>1, <2>2
<1>4. ASSUME NEW k \in Nat, k < 8, k \in S
      PROVE  k + 1 \in S
  <2>1. k \in 0..7 /\ k + 1 \in 1..8 /\ (k + 1) - 1 = k /\ k \in 0..8 /\ k + 1 \in 0..8
    BY <1>4
  <2>2. t[k] \in Bits
    BY <1>2, <2>1 DEF Word, Bits
  <2> DEFINE h == Right(hi, k)
             c == Right(byte, k)
  <2>3. /\ 0 \notin h /\ (0 \in c <=> k \in byte)
        /\ h \in Bits /\ c \in Bits
        /\ Right(h, 1) = Right(hi, k + 1) /\ Right(c, 1) = Right(byte, k + 1)
    <3>1. 0 \in Right(hi, k) <=> 0 + k \in hi
      BY <1>1, ShiftedBits
    <3>2. 0 \in Right(byte, k) <=> 0 + k \in byte
      BY <1>1, ShiftedBits
    <3>3. 0 + k = k /\ k \notin hi
      BY <2>1
    <3> HIDE DEF hi
    <3> QED
      BY <1>1, <3>1, <3>2, <3>3, Shifts
  <2>4. r[k] = Xor(Xor(h, t[k]), c)
    BY <1>4
  <2> HIDE DEF h, c, hi
  <2>5. (0 \in r[k]) # (k \in byte) <=> 0 \in t[k]
    BY <2>3, <2>4 DEF Xor
  <2>6. Right(r[k], 1) = Xor(Xor(Right(h, 1), Right(t[k], 1)), Right(c, 1))
    <3>1. Xor(h, t[k]) \in Bits /\ Right(Xor(h, t[k]), 1) = Xor(Right(h, 1), Right(t[k], 1))
      BY <1>1, <2>2, <2>3, Shifts
    <3> QED
      BY <1>1, <2>3, <2>4, <3>1, Shifts
  <2>7. r[k + 1] = IF 0 \in t[k] THEN Xor(Right(r[k], 1), poly) ELSE Right(r[k], 1)
    BY <2>1, <2>5 DEF BitStep
  <2>8. t[k + 1] = IF 0 \in t[k] THEN Xor(Right(t[k], 1), poly) ELSE Right(t[k], 1)
    BY <1>2, <2>1 DEF GenStep
  <2>9. r[k + 1] = Xor(Xor(Right(h, 1), t[k + 1]), Right(c, 1))
    <3>1. \A x, y, z, p : Xor(Xor(Xor(x, y), z), p) = Xor(Xor(x, Xor(y, p)), z)
      BY DEF Xor
    <3> QED
      BY <2>6, <2>7, <2>8, <3>1
  <2>10. Is(k + 1)
    BY <2>3, <2>9
  <2> QED
    BY <2>1, <2>10
<1>5. Is(8)
  <2>1. \A k \in 0..8 : k \in S
    <3> HIDE DEF S
    <3> QED
      BY <1>3, <1>4, UpTo
  <2> QED
    BY <2>1
<1>6. Right(hi, 8) = Right(w, 8) \ (24..31) /\ Right(byte, 8) = {}
  <2>1. w \in Bits /\ \A i \in w : i <= 31
    BY DEF Word, Bits
  <2>2. \A i : i \in Right(hi, 8) <=> i \in Nat /\ i + 8 \in hi
    BY <1>1, ShiftedBits
  <2>3. \A i : i \in Right(w, 8) <=> i \in Nat /\ i + 8 \in w
    BY <2>1, ShiftedBits
  <2>4. \A i : i \in Right(byte, 8) <=> i \in Nat /\ i + 8 \in byte
    BY <1>1, ShiftedBits
  <2>5. \A i \in Nat : i + 8 \notin 0..7
    OBVIOUS
  <2>6. \A i \in Nat : i + 8 \in w => i \notin 24..31 /\ i + 8 \in hi
    BY <2>1, <2>5
  <2> HIDE DEF hi
  <2>8. \A i : i \in Right(hi, 8) => i + 8 \in w
    BY <2>2 DEF hi
  <2>9. \A i : i \in Right(hi, 8) <=> i \in Right(w, 8) \ (24..31)
    BY <2>2, <2>3, <2>6, <2>8
  <2>7. \A i : i \notin Right(byte, 8)
    BY <2>4, <2>5
  <2> QED
    BY <2>7, <2>9
<1>7. r[8] = Xor(Right(w, 8) \ (24..31), t[8])
  BY <1>5, <1>6 DEF Xor
<1> QED
  BY <1>2, <1>7 DEF CalcStep

\* A byte at a time gives what a bit at a time gives.
LEMMA CrcIsRemainder ==
  ASSUME NEW s \in Seq(Known)
  PROVE  /\ clax_crc32_calc(clax_crc32_init, Bytes(s)) = Remainder(s)
         /\ Remainder(s) \in SUBSET Word
<1> DEFINE n == Len(s)
           buf == Bytes(s)
<1>1. n \in Nat /\ buf \in Seq(SUBSET (0..7)) /\ Len(buf) = n
  <2>1. \A i \in 1..n : {b \in 0..7 : (Code[s[i]] \div 2^b) % 2 = 1} \in SUBSET (0..7)
    OBVIOUS
  <2>2. Bytes(s) = [i \in 1..n |-> {b \in 0..7 : (Code[s[i]] \div 2^b) % 2 = 1}]
    BY DEF Bytes
  <2>3. Bytes(s) \in [1..n -> SUBSET (0..7)]
    BY <2>1, <2>2
  <2> HIDE DEF n
  <2> QED
    BY <2>3 DEF n
<1> HIDE DEF n, buf
<1>2. clax_crc32_init \in SUBSET Word /\ clax_crc32_init = Word
  BY DEF clax_crc32_init
<1>3. PICK c \in [0..n -> SUBSET Word] :
        /\ c[0] = Word
        /\ \A k \in 1..n : c[k] = CalcStep(c[k - 1], buf[k])
        /\ clax_crc32_calc(clax_crc32_init, buf) = c[n]
  BY <1>1, <1>2, CalcValues
<1>4. PICK r \in [0..(8 * n) -> SUBSET Word] :
        /\ r[0] = Word
        /\ \A k \in 1..(8 * n) : r[k] = BitStep(buf[((k - 1) \div 8) + 1], r[k - 1], (k - 1) % 8)
        /\ Remainder(s) = r[8 * n]
  BY <1>1, RemainderValues DEF buf, n
<1> DEFINE S == {k \in 0..n : c[k] = r[8 * k]}
<1>5. 0 \in S
  BY <1>1, <1>3, <1>4
<1>6. ASSUME NEW k \in Nat, k < n, k \in S
      PROVE  k + 1 \in S
  <2> DEFINE w == r[8 * k]
             q == [j \in 0..8 |-> r[8 * k + j]]
             byte == buf[k + 1]
  <2>1. /\ k + 1 \in 1..n /\ (k + 1) - 1 = k /\ k + 1 \in 0..n /\ 8 * k \in 0..(8 * n)
        /\ 8 * k + 0 = 8 * k /\ 8 * k + 8 = 8 * (k + 1)
    BY <1>1, <1>6
  <2>2. w \in SUBSET Word /\ byte \in SUBSET (0..7) /\ q[0] = w /\ q[8] = r[8 * (k + 1)]
    <3>1. w \in SUBSET Word
      BY <1>4, <2>1
    <3>2. byte \in SUBSET (0..7)
      BY <1>1, <2>1
    <3>3. q[0] = w /\ q[8] = r[8 * (k + 1)]
      BY <2>1
    <3> QED
      BY <3>1, <3>2, <3>3
  <2>3. ASSUME NEW j \in 0..7
        PROVE  q[j + 1] = BitStep(byte, q[j], j)
    <3>1. /\ 8 * k + (j + 1) \in 1..(8 * n) /\ (8 * k + (j + 1)) - 1 = 8 * k + j
          /\ j \in 0..8 /\ j + 1 \in 0..8
      BY <1>1, <1>6
    <3>2. (8 * k + j) \div 8 = k /\ (8 * k + j) % 8 = j
      BY <1>6
    <3>3. r[8 * k + (j + 1)] = BitStep(buf[k + 1], r[8 * k + j], j)
      BY <1>4, <3>1, <3>2
    <3> QED
      BY <3>1, <3>3
  <2> HIDE DEF q, w, byte
  <2>4. q[8] = CalcStep(w, byte)
    BY <2>2, <2>3, ByteOfBits
  <2>5. c[k + 1] = CalcStep(w, byte)
    BY <1>3, <1>6, <2>1 DEF w, byte
  <2> QED
    BY <2>1, <2>2, <2>4, <2>5
<1>7. c[n] = r[8 * n]
  <2>1. \A k \in 0..n : k \in S
    <3> HIDE DEF S
    <3> QED
      BY <1>1, <1>5, <1>6, UpTo
  <2> QED
    BY <1>1, <2>1
<1>8. 8 * n \in 0..(8 * n)
  BY <1>1
<1> QED
  BY <1>3, <1>4, <1>7, <1>8 DEF buf

\* Two pieces one after the other give what the whole gives.
LEMMA CrcInPieces ==
  ASSUME NEW crc \in SUBSET Word, NEW a \in Seq(SUBSET (0..7)), NEW b \in Seq(SUBSET (0..7))
  PROVE  clax_crc32_calc(clax_crc32_calc(crc, a), b) = clax_crc32_calc(crc, a \o b)
<1> DEFINE n == Len(a)
           m == Len(b)
           ab == a \o b
<1>1. /\ n \in Nat /\ m \in Nat /\ ab \in Seq(SUBSET (0..7)) /\ Len(ab) = n + m
      /\ \A k \in 1..n : ab[k] = a[k]
      /\ \A k \in 1..m : ab[n + k] = b[k]
  OBVIOUS
<1> HIDE DEF n, m, ab
<1>2. PICK u \in [0..n -> SUBSET Word] :
        /\ u[0] = crc
        /\ \A k \in 1..n : u[k] = CalcStep(u[k - 1], a[k])
        /\ clax_crc32_calc(crc, a) = u[n]
  BY CalcValues DEF n
<1>3. u[n] \in SUBSET Word
  BY <1>1, <1>2
<1>4. PICK v \in [0..m -> SUBSET Word] :
        /\ v[0] = u[n]
        /\ \A k \in 1..m : v[k] = CalcStep(v[k - 1], b[k])
        /\ clax_crc32_calc(u[n], b) = v[m]
  BY <1>3, CalcValues DEF m
<1>5. PICK w \in [0..(n + m) -> SUBSET Word] :
        /\ w[0] = crc
        /\ \A k \in 1..(n + m) : w[k] = CalcStep(w[k - 1], ab[k])
        /\ clax_crc32_calc(crc, ab) = w[n + m]
  <2>1. \E w \in [0..Len(ab) -> SUBSET Word] :
          /\ w[0] = crc
          /\ \A k \in 1..Len(ab) : w[k] = CalcStep(w[k - 1], ab[k])
          /\ clax_crc32_calc(crc, ab) = w[Len(ab)]
    BY <1>1, CalcValues
  <2>2. Len(ab) = n + m
    BY <1>1
  <2> QED
    BY <2>1, <2>2, Zenon
<1> DEFINE S == {k \in 0..n : w[k] = u[k]}
           T == {k \in 0..m : w[n + k] = v[k]}
<1>6. \A k \in 0..n : k \in S
  <2>1. 0 \in S
    BY <1>1, <1>2, <1>5
  <2>2. ASSUME NEW k \in Nat, k < n, k \in S
        PROVE  k + 1 \in S
    <3>1. k + 1 \in 1..n /\ (k + 1) - 1 = k /\ k + 1 \in 0..n /\ k + 1 \in 1..(n + m)
      BY <1>1, <2>2
    <3>2. w[k + 1] = CalcStep(w[k], a[k + 1]) /\ u[k + 1] = CalcStep(u[k], a[k + 1])
      BY <1>1, <1>2, <1>5, <3>1
    <3> QED
      BY <2>2, <3>1, <3>2
  <2> HIDE DEF S
  <2> QED
    BY <1>1, <2>1, <2>2, UpTo
<1>7. \A k \in 0..m : k \in T
  <2>1. 0 \in T
    <3>1. n \in 0..n /\ n + 0 = n /\ 0 \in 0..m
      BY <1>1
    <3> QED
      BY <1>4, <1>6, <3>1
  <2>2. ASSUME NEW k \in Nat, k < m, k \in T
        PROVE  k + 1 \in T
    <3>1. /\ k + 1 \in 1..m /\ (k + 1) - 1 = k /\ k + 1 \in 0..m /\ n + (k + 1) \in 1..(n + m)
          /\ (n + (k + 1)) - 1 = n + k
      BY <1>1, <2>2
    <3>2. w[n + (k + 1)] = CalcStep(w[n + k], b[k + 1]) /\ v[k + 1] = CalcStep(v[k], b[k + 1])
      BY <1>1, <1>4, <1>5, <3>1
    <3> QED
      BY <2>2, <3>1, <3>2
  <2> HIDE DEF T
  <2> QED
    BY <1>1, <2>1, <2>2, UpTo
<1>8. w[n + m] = v[m]
  <2>1. m \in 0..m
    BY <1>1
  <2> QED
    BY <1>7, <2>1
<1> QED
  BY <1>2, <1>4, <1>5, <1>8 DEF ab

\* A digit has the bits it was written for.
LEMMA DigitHasBits ==
  ASSUME NEW w, NEW k \in Nat
  PROVE  /\ Nibble(w, k) \in 0..15
         /\ \A j \in 0..3 : (Nibble(w, k) \div 2^j) % 2 = 1 <=> 4 * k + j \in w
<1> DEFINE x0 == IF 4 * k + 0 \in w THEN 1 ELSE 0
           x1 == IF 4 * k + 1 \in w THEN 1 ELSE 0
           x2 == IF 4 * k + 2 \in w THEN 1 ELSE 0
           x3 == IF 4 * k + 3 \in w THEN 1 ELSE 0
<1>1. x0 \in 0..1 /\ x1 \in 0..1 /\ x2 \in 0..1 /\ x3 \in 0..1
  OBVIOUS
<1>2. 2^0 = 1 /\ 2^1 = 2 /\ 2^2 = 4 /\ 2^3 = 8
  OBVIOUS
<1>3. Nibble(w, k) = x0 + 2 * x1 + 4 * x2 + 8 * x3
  BY <1>2 DEF Nibble
<1>4. /\ x0 = 1 <=> 4 * k + 0 \in w
      /\ x1 = 1 <=> 4 * k + 1 \in w
      /\ x2 = 1 <=> 4 * k + 2 \in w
      /\ x3 = 1 <=> 4 * k + 3 \in w
  OBVIOUS
<1> HIDE DEF x0, x1, x2, x3
<1>5. /\ Nibble(w, k) \in 0..15
      /\ (Nibble(w, k) \div 1) % 2 = x0 /\ (Nibble(w, k) \div 2) % 2 = x1
      /\ (Nibble(w, k) \div 4) % 2 = x2 /\ (Nibble(w, k) \div 8) % 2 = x3
  BY <1>1, <1>3
<1>6. ASSUME NEW j \in 0..3
      PROVE  (Nibble(w, k) \div 2^j) % 2 = 1 <=> 4 * k + j \in w
  <2>1. j = 0 \/ j = 1 \/ j = 2 \/ j = 3
    OBVIOUS
  <2> QED
    BY <2>1, <1>2, <1>4, <1>5
<1> QED
  BY <1>5, <1>6

\* What is written of a word is read as that word.
LEMMA WordReadBack ==
  ASSUME NEW w \in SUBSET Word
  PROVE  clax_htol(ToHex(w, 8)) = w
<1> DEFINE t == ToHex(w, 8)
           Bit(b) == b \div 4 < 8 /\ (HexValue[t[8 - (b \div 4)]] \div 2^(b % 4)) % 2 = 1
<1>1. \A n \in 0..15 : LowerDigit[n] \in Hex \ Upper /\ HexValue[LowerDigit[n]] = n
  BY DigitAssumption DEF LowerDigit
<1>2. \A k \in 1..8 : 8 - k \in Nat /\ Nibble(w, 8 - k) \in 0..15
  BY DigitHasBits
<1>3. /\ t = [k \in 1..8 |-> LowerDigit[Nibble(w, 8 - k)]]
      /\ DOMAIN t = 1..8 /\ Len(t) = 8
  BY DEF ToHex
<1>4. \A k \in 1..8 : t[k] \in Hex \ Upper /\ HexValue[t[k]] = Nibble(w, 8 - k)
  BY <1>1, <1>2, <1>3
<1> HIDE DEF t
<1>5. clax_htol(t) = {b \in AllBits : Bit(b)}
  <2>1. ~\E i \in DOMAIN t : t[i] \notin Hex \ Upper
    BY <1>3, <1>4
  <2> QED
    BY <1>3, <2>1 DEF clax_htol
<1>6. ASSUME NEW b \in AllBits
      PROVE  Bit(b) <=> b \in w
  <2> DEFINE q == b \div 4
             j == b % 4
  <2>1. b \in 0..63 /\ q \in Nat /\ j \in 0..3 /\ b = 4 * q + j
    BY DEF AllBits
  <2>2. CASE q < 8
    <3>1. 8 - q \in 1..8 /\ 8 - (8 - q) = q
      BY <2>1, <2>2
    <3> HIDE DEF q, j
    <3>2. HexValue[t[8 - q]] = Nibble(w, q)
      BY <1>4, <3>1
    <3>3. (Nibble(w, q) \div 2^j) % 2 = 1 <=> b \in w
      BY <2>1, DigitHasBits
    <3> QED
      BY <2>2, <3>2, <3>3 DEF q, j
  <2>3. CASE ~(q < 8)
    <3>1. b \notin 0..31
      BY <2>1, <2>3
    <3> QED
      BY <2>3, <3>1 DEF Word
  <2> QED
    BY <2>2, <2>3
<1>7. w \in SUBSET AllBits
  BY DEF Word, AllBits
<1> HIDE DEF Bit
<1> QED
  BY <1>5, <1>6, <1>7 DEF t

LEMMA AllCrcs ==
  ASSUME text \in Seq(Known)
  PROVE  CrcAsDivided
<1> DEFINE rem == clax_crc32_calc(clax_crc32_init, Bytes(text))
           crc == Crc32(text)
<1>1. rem = Remainder(text) /\ rem \in SUBSET Word
  BY CrcIsRemainder
<1>2. crc = clax_crc32_finalize(rem)
  BY DEF Crc32
<1> HIDE DEF rem, crc
<1>3. crc \in SUBSET Word /\ clax_crc32_finalize(crc) = rem
  BY <1>1, <1>2, XorLaws DEF clax_crc32_finalize, Xor
<1>4. ASSUME NEW k \in 0..Len(text)
      PROVE  clax_crc32_calc(clax_crc32_calc(clax_crc32_init, Bytes(SubSeq(text, 1, k))),
                             Bytes(SubSeq(text, k + 1, Len(text)))) = rem
  <2> DEFINE n == Len(text)
             Of(c) == {b \in 0..7 : (Code[c] \div 2^b) % 2 = 1}
             a == SubSeq(text, 1, k)
             z == SubSeq(text, k + 1, n)
  <2>1. \A c : Of(c) \in SUBSET (0..7)
    OBVIOUS
  <2> HIDE DEF Of
  <2>2. \A s \in Seq(Known) : /\ Bytes(s) \in Seq(SUBSET (0..7)) /\ Len(Bytes(s)) = Len(s)
                              /\ \A i \in 1..Len(s) : Bytes(s)[i] = Of(s[i])
    <3>1. ASSUME NEW s \in Seq(Known)
          PROVE  /\ Bytes(s) \in Seq(SUBSET (0..7)) /\ Len(Bytes(s)) = Len(s)
                 /\ \A i \in 1..Len(s) : Bytes(s)[i] = Of(s[i])
      <4>1. Bytes(s) = [i \in 1..Len(s) |-> Of(s[i])]
        BY DEF Bytes, Of
      <4>2. Len(s) \in Nat
        OBVIOUS
      <4> QED
        BY <2>1, <4>1, <4>2
    <3> QED
      BY <3>1
  <2>3. /\ n \in Nat /\ k \in Nat /\ k <= n
        /\ a \in Seq(Known) /\ Len(a) = k /\ z \in Seq(Known) /\ Len(z) = n - k
        /\ \A i \in 1..k : a[i] = text[i]
        /\ \A i \in 1..(n - k) : z[i] = text[k + i]
    OBVIOUS
  <2> HIDE DEF a, z, n
  <2>4. Bytes(a) \o Bytes(z) = Bytes(text)
    <3>1. /\ Bytes(a) \in Seq(SUBSET (0..7)) /\ Len(Bytes(a)) = k
          /\ Bytes(z) \in Seq(SUBSET (0..7)) /\ Len(Bytes(z)) = n - k
          /\ Bytes(text) \in Seq(SUBSET (0..7)) /\ Len(Bytes(text)) = n
      BY <2>2, <2>3 DEF n
    <3>2. ASSUME NEW i \in 1..n
          PROVE  (Bytes(a) \o Bytes(z))[i] = Bytes(text)[i]
      <4>1. CASE i <= k
        <5>1. i \in 1..k /\ i \in 1..n
          BY <2>3, <4>1
        <5>2. (Bytes(a) \o Bytes(z))[i] = Bytes(a)[i]
          BY <2>3, <3>1, <5>1
        <5>3. Bytes(a)[i] = Of(a[i]) /\ Bytes(text)[i] = Of(text[i])
          BY <2>2, <2>3, <5>1 DEF n
        <5> QED
          BY <2>3, <5>1, <5>2, <5>3
      <4>2. CASE i > k
        <5>1. i - k \in 1..(n - k) /\ k + (i - k) = i /\ i \in 1..n
          BY <2>3, <4>2
        <5>2. (Bytes(a) \o Bytes(z))[i] = Bytes(z)[i - k]
          BY <2>3, <3>1, <4>2
        <5>3. Bytes(z)[i - k] = Of(z[i - k]) /\ Bytes(text)[i] = Of(text[i])
          BY <2>2, <2>3, <5>1 DEF n
        <5> QED
          BY <2>3, <5>1, <5>2, <5>3
      <4>3. i <= k \/ i > k
        BY <2>3
      <4> QED
        BY <4>1, <4>2, <4>3
    <3>3. Len(Bytes(a) \o Bytes(z)) = n /\ Bytes(a) \o Bytes(z) \in Seq(SUBSET (0..7))
      BY <2>3, <3>1
    <3> QED
      BY <3>1, <3>2, <3>3, SameSeq, SMTT(30)
  <2>5. clax_crc32_init \in SUBSET Word
    BY DEF clax_crc32_init
  <2>6. Bytes(a) \in Seq(SUBSET (0..7)) /\ Bytes(z) \in Seq(SUBSET (0..7))
    BY <2>2, <2>3
  <2>7. clax_crc32_calc(clax_crc32_calc(clax_crc32_init, Bytes(a)), Bytes(z))
          = clax_crc32_calc(clax_crc32_init, Bytes(text))
    BY <2>4, <2>5, <2>6, CrcInPieces
  <2> QED
    BY <2>7 DEF a, z, n, rem
<1>5. clax_htol(ToHex(crc, 8)) = crc
  BY <1>3, WordReadBack
<1> QED
  BY <1>1, <1>2, <1>3, <1>4, <1>5 DEF CrcAsDivided, crc

-----------------------------------------------------------------------------
(* Paths.                                                                  *)

Letters == Known \cup {"/"}

Clean(s) == \A t \in {Up, Here, Twice, <<"\\">>} : ~Holds(s, t)

StandsAt(s, i, t) ==
  i + Len(t) - 1 <= Len(s) /\ \A j \in 1..Len(t) : s[i + j - 1] = t[j]

\* A text stands at a place when its characters do.
LEMMA AtPlace ==
  ASSUME NEW S, NEW s \in Seq(S), NEW i \in DOMAIN s, NEW T, NEW t \in Seq(T), t # << >>
  PROVE  At(s, i, t) <=> StandsAt(s, i, t)
<1> DEFINE n == Len(t)
           u == SubSeq(s, i, i + n - 1)
<1>1. i \in 1..Len(s) /\ n \in Nat /\ n > 0
  OBVIOUS
<1>2. CASE i + n - 1 <= Len(s)
  <2> HIDE DEF n
  <2>1. /\ u \in Seq(S) /\ Len(u) = n
        /\ \A j \in 1..n : u[j] = s[i + j - 1]
    BY <1>1, <1>2
  <2>2. t \in Seq(T) /\ Len(t) = n
    BY DEF n
  <2> HIDE DEF u
  <2>3. u = t <=> \A j \in 1..n : u[j] = t[j]
    <3>1. u \in Seq(S \cup T) /\ t \in Seq(S \cup T)
      BY <2>1
    <3> QED
      BY <2>1, <2>2, <3>1, SameSeq
  <2> QED
    BY <1>2, <2>1, <2>3 DEF At, StandsAt, n, u
<1>3. CASE ~(i + n - 1 <= Len(s))
  BY <1>3 DEF At, StandsAt
<1> QED
  BY <1>2, <1>3

LEMMA TwiceHeld ==
  ASSUME NEW S, NEW s \in Seq(S)
  PROVE  Holds(s, Twice) <=> \E i \in 1..Len(s) : i < Len(s) /\ s[i] = "/" /\ s[i + 1] = "/"
<1>1. Twice \in Seq({"/"}) /\ Twice # << >> /\ Len(Twice) = 2 /\ Twice[1] = "/" /\ Twice[2] = "/"
  BY DEF Twice
<1>2. ASSUME NEW i \in 1..Len(s)
      PROVE  At(s, i, Twice) <=> i < Len(s) /\ s[i] = "/" /\ s[i + 1] = "/"
  <2>1. i \in DOMAIN s
    OBVIOUS
  <2>2. At(s, i, Twice) <=> i + 2 - 1 <= Len(s) /\ \A j \in 1..2 : s[i + j - 1] = Twice[j]
    <3>1. At(s, i, Twice) <=> StandsAt(s, i, Twice)
      BY <1>1, <2>1, AtPlace
    <3> QED
      BY <1>1, <3>1, Zenon DEF StandsAt
  <2>3. 1..2 = {1, 2} /\ i + 1 - 1 = i /\ i + 2 - 1 = i + 1 /\ (i + 1 <= Len(s) <=> i < Len(s))
    OBVIOUS
  <2>4. (\A j \in 1..2 : s[i + j - 1] = Twice[j]) <=> s[i] = "/" /\ s[i + 1] = "/"
    BY <1>1, <2>3
  <2> QED
    BY <2>2, <2>3, <2>4
<1>3. DOMAIN s = 1..Len(s)
  OBVIOUS
<1> QED
  BY <1>2, <1>3 DEF Holds

LEMMA BackslashHeld ==
  ASSUME NEW S, NEW s \in Seq(S)
  PROVE  Holds(s, <<"\\">>) <=> {i \in DOMAIN s : s[i] = "\\"} # {}
<1> DEFINE t == <<"\\">>
<1>1. t \in Seq({"\\"}) /\ t # << >> /\ Len(t) = 1 /\ t[1] = "\\"
  OBVIOUS
<1> HIDE DEF t
<1>2. ASSUME NEW i \in DOMAIN s
      PROVE  At(s, i, t) <=> s[i] = "\\"
  <2>1. At(s, i, t) <=> i + 1 - 1 <= Len(s) /\ \A j \in 1..1 : s[i + j - 1] = t[j]
    <3>1. At(s, i, t) <=> StandsAt(s, i, t)
      BY <1>1, AtPlace
    <3> QED
      BY <1>1, <3>1, Zenon DEF StandsAt
  <2>2. i + 1 - 1 = i /\ i <= Len(s) /\ 1..1 = {1}
    OBVIOUS
  <2> QED
    BY <1>1, <2>1, <2>2
<1>3. Holds(s, t) <=> {i \in DOMAIN s : s[i] = "\\"} # {}
  BY <1>2 DEF Holds
<1> QED
  BY <1>3 DEF t

\* How much there is left to do: the rounds to come are at most m.
Left(s, m) ==
  \E k \in 0..Len(s) : 2 * Len(s) - k <= m /\ \A i \in 1..k : s[i] # "\\"

\* A cut brings the end closer.
LEMMA CutLeft ==
  ASSUME NEW s \in Seq(Letters), NEW t, t \in {Up, Here, Twice}, Holds(s, t),
         NEW n, n = Len(t) - 1, NEW m \in Nat, Left(s, m)
  PROVE  /\ CutFirst(s, t, n) \in Seq(Letters)
         /\ m # 0 /\ Left(CutFirst(s, t, n), m - 1)
<1> DEFINE L == Len(s)
           places == {i \in DOMAIN s : At(s, i, t)}
           StandsFirst(i) == At(s, i, t) /\ \A j \in 1..(i - 1) : ~At(s, j, t)
<1>1. t \in Seq({"/", "."}) /\ t # << >> /\ Len(t) \in 2..4 /\ n \in 1..3 /\ Len(t) = n + 1
  <2>1. CASE t = Up
    BY <2>1 DEF Up
  <2>2. CASE t = Here
    BY <2>2 DEF Here
  <2>3. CASE t = Twice
    BY <2>3 DEF Twice
  <2> QED
    BY <2>1, <2>2, <2>3
<1>2. \E i \in DOMAIN s : StandsFirst(i)
  <2>1. places \in SUBSET Nat /\ places # {}
    BY DEF Holds
  <2>2. PICK i \in places : \A j \in places : i <= j
    <3> HIDE DEF places
    <3> QED
      BY <2>1, LeastExists
  <2>3. i \in DOMAIN s /\ i \in 1..L /\ At(s, i, t)
    BY <2>2
  <2>4. \A j \in 1..(i - 1) : j \in DOMAIN s /\ ~(i <= j)
    BY <2>3
  <2>5. \A j \in 1..(i - 1) : ~At(s, j, t)
    BY <2>2, <2>4
  <2> QED
    BY <2>3, <2>5
<1> DEFINE i == CHOOSE i \in DOMAIN s : StandsFirst(i)
           c == CutFirst(s, t, n)
<1>3. i \in DOMAIN s /\ At(s, i, t) /\ c = SubSeq(s, 1, i - 1) \o SubSeq(s, i + n, L)
  <2>1. i \in DOMAIN s /\ StandsFirst(i)
    BY <1>2
  <2> QED
    BY <2>1 DEF CutFirst
<1> HIDE DEF i, c, places, StandsFirst
<1>4. L \in Nat /\ i \in 1..L /\ i + n <= L
  <2>1. i + Len(t) - 1 <= Len(s)
    BY <1>3 DEF At
  <2> QED
    BY <1>1, <1>3, <2>1
<1> DEFINE a == SubSeq(s, 1, i - 1)
           z == SubSeq(s, i + n, L)
<1>5. /\ a \in Seq(Letters) /\ Len(a) = i - 1 /\ \A x \in 1..(i - 1) : a[x] = s[x]
      /\ z \in Seq(Letters) /\ Len(z) = L - i - n + 1
      /\ \A x \in 1..(L - i - n + 1) : z[x] = s[x + i + n - 1]
  BY <1>1, <1>4
<1> HIDE DEF L, a, z
<1>6. /\ c \in Seq(Letters) /\ Len(c) = L - n
      /\ \A x \in 1..(L - n) : c[x] = IF x < i THEN s[x] ELSE s[x + n]
  <2>0. c = a \o z
    BY <1>3 DEF a, z
  <2>1. c \in Seq(Letters) /\ Len(c) = L - n
    <3>1. c \in Seq(Letters) /\ Len(c) = (i - 1) + (L - i - n + 1)
      <4>1. a \o z \in Seq(Letters) /\ Len(a \o z) = Len(a) + Len(z)
        BY <1>5, JoinFacts
      <4> QED
        BY <2>0, <1>5, <4>1
    <3>2. (i - 1) + (L - i - n + 1) = L - n
      BY <1>1, <1>4
    <3> QED
      BY <3>1, <3>2
  <2>2. ASSUME NEW x \in 1..(L - n), x < i
        PROVE  c[x] = s[x]
    BY <2>0, <2>2, <1>1, <1>4, <1>5
  <2>3. ASSUME NEW x \in 1..(L - n), ~(x < i)
        PROVE  c[x] = s[x + n]
    <3>1. x - (i - 1) \in 1..(L - i - n + 1) /\ x - (i - 1) + i + n - 1 = x + n
      BY <2>3, <1>1, <1>4
    <3>2. c[x] = z[x - (i - 1)]
      BY <2>0, <2>3, <1>1, <1>4, <1>5, SMTT(30)
    <3>3. z[x - (i - 1)] = s[x - (i - 1) + i + n - 1]
      BY <1>5, <3>1
    <3> QED
      BY <3>1, <3>2, <3>3
  <2> QED
    BY <2>1, <2>2, <2>3
<1>7. PICK k \in 0..L : 2 * L - k <= m /\ \A x \in 1..k : s[x] # "\\"
  BY DEF Left, L
<1> DEFINE k1 == IF k < n THEN 0 ELSE k - n
<1>8. m # 0 /\ k1 \in 0..(L - n) /\ 2 * (L - n) - k1 <= m - 1
  <2>1. n \in Nat /\ n >= 1 /\ L \in Nat /\ n < L /\ k \in Nat /\ k <= L /\ 2 * L - k <= m
    BY <1>1, <1>4, <1>7
  <2>2. CASE k < n
    BY <2>1, <2>2
  <2>3. CASE ~(k < n)
    BY <2>1, <2>3
  <2> QED
    BY <2>2, <2>3
<1>9. ASSUME NEW x \in 1..k1
      PROVE  c[x] # "\\"
  <2>1. x \in 1..k /\ x + n \in 1..k /\ x \in 1..(L - n)
    BY <1>1, <1>4, <1>8
  <2> QED
    BY <1>6, <1>7, <2>1
<1> HIDE DEF k1
<1>10. Left(c, m - 1)
  BY <1>6, <1>8, <1>9 DEF Left
<1> QED
  BY <1>6, <1>8, <1>10 DEF c

\* So does a backslash that becomes a slash.
LEMMA SlashLeft ==
  ASSUME NEW s \in Seq(Letters), NEW m \in Nat, Left(s, m),
         NEW b, b = {i \in DOMAIN s : s[i] = "\\"}, b # {}, NEW r,
         r = [s EXCEPT ![CHOOSE i \in b : \A j \in b : i <= j] = "/"]
  PROVE  /\ r \in Seq(Letters)
         /\ m # 0 /\ Left(r, m - 1)
<1> DEFINE L == Len(s)
           i == CHOOSE i \in b : \A j \in b : i <= j
<1>1. L \in Nat /\ DOMAIN s = 1..L /\ "/" \in Letters
  BY DEF Letters
<1>2. i \in b /\ \A j \in b : i <= j
  <2>1. b \in SUBSET Nat
    BY SMTT(30)
  <2>2. \E x \in b : \A j \in b : x <= j
    BY <2>1, LeastExists
  <2> QED
    BY <2>2
<1> HIDE DEF L, i
<1>3. i \in 1..L /\ \A x \in 1..(i - 1) : s[x] # "\\"
  <2>1. i \in 1..L
    BY <1>1, <1>2
  <2>2. \A x \in 1..(i - 1) : x \in 1..L /\ ~(i <= x)
    BY <1>1, <2>1
  <2> QED
    BY <1>1, <1>2, <2>1, <2>2
<1>4. /\ r \in Seq(Letters) /\ Len(r) = L
      /\ \A x \in 1..L : r[x] = IF x = i THEN "/" ELSE s[x]
  <2>1. r = [s EXCEPT ![i] = "/"]
    BY DEF i
  <2>2. /\ r \in Seq(Letters) /\ Len(r) = L
    <3>1. s \in [1..L -> Letters]
      BY <1>1
    <3>2. r \in [1..L -> Letters]
      BY <1>1, <2>1, <3>1
    <3> QED
      BY <1>1, <3>2
  <2>3. \A x \in 1..L : r[x] = IF x = i THEN "/" ELSE s[x]
    BY <1>1, <2>1
  <2> QED
    BY <2>2, <2>3
<1>5. PICK k \in 0..L : 2 * L - k <= m /\ \A x \in 1..k : s[x] # "\\"
  BY DEF Left, L
<1>6. k < i
  <2>1. s[i] = "\\"
    BY <1>2
  <2> QED
    BY <1>1, <1>3, <1>5, <2>1
<1>7. m # 0 /\ i \in 0..L /\ 2 * L - i <= m - 1
  BY <1>1, <1>3, <1>5, <1>6
<1>8. ASSUME NEW x \in 1..i
      PROVE  r[x] # "\\"
  <2>1. x \in 1..L /\ (x # i => x \in 1..(i - 1))
    BY <1>1, <1>3
  <2> QED
    BY <1>3, <1>4, <2>1
<1>9. Left(r, m - 1)
  BY <1>4, <1>7, <1>8 DEF Left
<1> QED
  BY <1>4, <1>7, <1>9

\* A round brings the end closer, or there is nothing to do.
LEMMA SanStepLeft ==
  ASSUME NEW s \in Seq(Letters)
  PROVE  /\ SanStep(s) \in Seq(Letters)
         /\ Clean(s) => SanStep(s) = s
         /\ \A m \in Nat : Left(s, m) /\ ~Clean(s) => m # 0 /\ Left(SanStep(s), m - 1)
<1> DEFINE b == {i \in DOMAIN s : s[i] = "\\"}
<1>0. Left(s, 2 * Len(s)) /\ 2 * Len(s) \in Nat
  <2>1. /\ 0 \in 0..Len(s) /\ 2 * Len(s) - 0 <= 2 * Len(s) /\ 2 * Len(s) \in Nat
        /\ \A i \in 1..0 : s[i] # "\\"
    OBVIOUS
  <2> QED
    BY <2>1 DEF Left
<1>1. Len(Up) - 1 = 3 /\ Len(Here) - 1 = 2 /\ Len(Twice) - 1 = 1
  BY DEF Up, Here, Twice
<1>2. ASSUME NEW t \in {Up, Here, Twice}, NEW n, n = Len(t) - 1, Holds(s, t),
             SanStep(s) = CutFirst(s, t, n)
      PROVE  /\ SanStep(s) \in Seq(Letters) /\ ~Clean(s)
             /\ \A m \in Nat : Left(s, m) => m # 0 /\ Left(SanStep(s), m - 1)
  <2>1. \A m \in Nat : Left(s, m) => CutFirst(s, t, n) \in Seq(Letters)
                                     /\ m # 0 /\ Left(CutFirst(s, t, n), m - 1)
    BY <1>2, CutLeft
  <2>2. ~Clean(s)
    BY <1>2 DEF Clean
  <2> QED
    BY <1>0, <1>2, <2>1, <2>2
<1>3. CASE Holds(s, Up)
  BY <1>1, <1>2, <1>3 DEF SanStep
<1>4. CASE ~Holds(s, Up) /\ Holds(s, Here)
  BY <1>1, <1>2, <1>4 DEF SanStep
<1>5. CASE ~Holds(s, Up) /\ ~Holds(s, Here) /\ Holds(s, Twice)
  BY <1>1, <1>2, <1>5 DEF SanStep
<1>6. CASE ~Holds(s, Up) /\ ~Holds(s, Here) /\ ~Holds(s, Twice)
  <2>1. SanStep(s) = IF b = {} THEN s
                     ELSE [s EXCEPT ![CHOOSE i \in b : \A j \in b : i <= j] = "/"]
    BY <1>6 DEF SanStep
  <2>2. Clean(s) <=> b = {}
    BY <1>6, BackslashHeld DEF Clean
  <2>3. CASE b = {}
    BY <2>1, <2>2, <2>3
  <2>4. CASE b # {}
    <3> DEFINE r == [s EXCEPT ![CHOOSE i \in b : \A j \in b : i <= j] = "/"]
    <3>1. SanStep(s) = r
      BY <2>1, <2>4
    <3>2. \A m \in Nat : Left(s, m) => r \in Seq(Letters) /\ m # 0 /\ Left(r, m - 1)
      BY <2>4, SlashLeft
    <3> HIDE DEF r
    <3> QED
      BY <1>0, <2>2, <2>4, <3>1, <3>2
  <2> QED
    BY <2>3, <2>4
<1> QED
  BY <1>3, <1>4, <1>5, <1>6

LEMMA SanValues ==
  ASSUME NEW s \in Seq(Letters)
  PROVE  \E v \in [0..(2 * Len(s)) -> Seq(Letters)] :
           /\ v[0] = s
           /\ \A k \in 1..(2 * Len(s)) : v[k] = SanStep(v[k - 1])
           /\ clax_san_path(s) = v[2 * Len(s)]
<1> DEFINE n == 2 * Len(s)
           D == Seq(Letters)
           G == [x \in D \X (1..n) |-> SanStep(x[1])]
           ks == [i \in 1..n |-> i]
           IsIter(f) == f = [t \in SUBSET (1..n) |->
                               IF t = {} THEN s ELSE SanStep(f[t \ {Max(t)}])]
           chosen == CHOOSE f : IsIter(f)
<1>1. s \in D /\ n \in Nat /\ DOMAIN ks = 1..n
  OBVIOUS
<1>2. G \in [D \X (1..n) -> D] /\ \A x \in D, k \in 1..n : G[<<x, k>>] = SanStep(x)
  <2>1. \A x \in D : SanStep(x) \in D
    BY SanStepLeft
  <2> HIDE DEF D, n
  <2> QED
    BY <2>1
<1>3. clax_san_path(s) = chosen[1..n]
  <2>1. clax_san_path(s) = FoldLeft(LAMBDA t, i : SanStep(t), s, ks)
    BY DEF clax_san_path
  <2> HIDE DEF ks
  <2> QED
    BY <1>1, <2>1 DEF FoldLeft, MapThenFoldSet
<1> HIDE DEF G, D, n
<1>4. \A t \in SUBSET (1..n) : t # {} => Max(t) \in 1..n /\ t \ {Max(t)} \in SUBSET (1..n)
  BY <1>1, MaxIsLast
<1>5. IsIter(chosen)
  <2>1. PICK g : IsFold(g, n, D, s, G)
    BY <1>1, <1>2, FoldExists
  <2>2. \A t \in SUBSET (1..n) : g[t] = IF t = {} THEN s ELSE SanStep(g[t \ {Max(t)}])
    BY <1>2, <1>4, <2>1 DEF IsFold
  <2>3. g = [t \in SUBSET (1..n) |-> g[t]]
    BY <2>1 DEF IsFold
  <2>4. IsIter(g)
    BY <2>2, <2>3, Zenon
  <2> QED
    BY <2>4
<1>f. PICK f : IsIter(f) /\ clax_san_path(s) = f[1..n]
  BY <1>3, <1>5
<1>6. Follows(f, n, D, s, G)
  BY <1>2, <1>4, <1>f DEF Follows
<1>7. PICK v : IsValues(v, n, D, s, G) /\ v[n] = f[1..n]
  <2>1. HasValues(f, n, D, s, G)
    BY <1>1, <1>2, <1>6, FoldValues
  <2> QED
    BY <2>1 DEF HasValues
<1>8. v \in [0..n -> D] /\ v[0] = s /\ \A k \in 1..n : v[k] = SanStep(v[k - 1])
  <2>1. \A k \in 1..n : k - 1 \in 0..n
    BY <1>1
  <2> QED
    BY <1>2, <1>7, <2>1 DEF IsValues
<1> QED
  BY <1>f, <1>7, <1>8 DEF D, n

\* Twice as many rounds as there are characters are enough.
LEMMA Sanitized ==
  ASSUME NEW s \in Seq(Letters)
  PROVE  clax_san_path(s) \in Seq(Letters) /\ Clean(clax_san_path(s))
<1> DEFINE n == 2 * Len(s)
<1>1. n \in Nat
  OBVIOUS
<1>2. PICK v \in [0..n -> Seq(Letters)] :
        /\ v[0] = s
        /\ \A k \in 1..n : v[k] = SanStep(v[k - 1])
        /\ clax_san_path(s) = v[n]
  BY SanValues
<1>3. Left(s, n)
  <2>1. /\ 0 \in 0..Len(s) /\ 2 * Len(s) - 0 <= 2 * Len(s)
        /\ \A i \in 1..0 : s[i] # "\\"
    OBVIOUS
  <2> QED
    BY <2>1 DEF Left
<1> HIDE DEF n
<1> DEFINE S == {k \in 0..n : Clean(v[k]) \/ Left(v[k], n - k)}
<1>4. 0 \in S
  <2>1. n - 0 = n /\ 0 \in 0..n
    BY <1>1
  <2> QED
    BY <1>2, <1>3, <2>1
<1>5. ASSUME NEW k \in Nat, k < n, k \in S
      PROVE  k + 1 \in S
  <2>1. /\ k + 1 \in 1..n /\ (k + 1) - 1 = k /\ k + 1 \in 0..n /\ k \in 0..n
        /\ n - k \in Nat /\ (n - k) - 1 = n - (k + 1)
    BY <1>1, <1>5
  <2>2. v[k + 1] = SanStep(v[k]) /\ v[k] \in Seq(Letters)
    BY <1>2, <2>1
  <2>3. CASE Clean(v[k])
    BY <2>1, <2>2, <2>3, SanStepLeft
  <2>4. CASE ~Clean(v[k])
    <3>1. Left(v[k], n - k)
      BY <1>5, <2>4
    <3>2. Left(SanStep(v[k]), (n - k) - 1)
      BY <2>1, <2>2, <2>4, <3>1, SanStepLeft
    <3> QED
      BY <2>1, <2>2, <3>2
  <2> QED
    BY <2>3, <2>4
<1>6. n \in S
  <2>1. n \in 0..n
    BY <1>1
  <2> HIDE DEF S
  <2> QED
    BY <1>1, <1>4, <1>5, <2>1, UpTo
<1>7. v[n] \in Seq(Letters)
  BY <1>1, <1>2
<1>8. Clean(v[n])
  <2>1. n - n = 0 /\ 0 \in Nat
    BY <1>1
  <2>2. ASSUME ~Clean(v[n]) PROVE FALSE
    <3>1. Left(v[n], 0)
      BY <1>6, <2>1, <2>2
    <3> QED
      BY <1>7, <2>1, <2>2, <3>1, SanStepLeft
  <2> QED
    BY <2>2
<1> QED
  BY <1>2, <1>7, <1>8

\* Nothing new comes up where two texts are joined, unless a slash ends the one and
\* begins the other.
LEMMA NoneWhereJoined ==
  ASSUME NEW a \in Seq(Letters), NEW b \in Seq(Letters),
         ~Holds(a, Twice), ~Holds(b, Twice),
         a # << >> /\ b # << >> => a[Len(a)] # "/" \/ b[1] # "/"
  PROVE  ~Holds(a \o b, Twice)
<1> DEFINE n == Len(a)
           m == Len(b)
           c == a \o b
<1>1. /\ n \in Nat /\ m \in Nat /\ c \in Seq(Letters) /\ Len(c) = n + m
      /\ \A i \in 1..n : c[i] = a[i]
      /\ \A i \in 1..m : c[n + i] = b[i]
  OBVIOUS
<1>2. SUFFICES ASSUME NEW i \in 1..(n + m), i < n + m, c[i] = "/", c[i + 1] = "/"
               PROVE  FALSE
  <2> HIDE DEF c
  <2> QED
    BY <1>1, TwiceHeld DEF c
<1> HIDE DEF c
<1>3. CASE i < n
  <2>1. i \in 1..n /\ i + 1 \in 1..n
    BY <1>1, <1>3
  <2>2. a[i] = "/" /\ a[i + 1] = "/"
    BY <1>1, <1>2, <2>1
  <2> QED
    BY <1>3, <2>1, <2>2, TwiceHeld
<1>4. CASE i = n
  <2>1. i \in 1..n /\ 1 \in 1..m
    BY <1>1, <1>2, <1>4
  <2>2. a[n] = "/" /\ b[1] = "/" /\ a # << >> /\ b # << >>
    BY <1>1, <1>2, <1>4, <2>1
  <2> QED
    BY <2>2
<1>5. CASE i > n
  <2>1. /\ i - n \in 1..m /\ (i - n) + 1 \in 1..m /\ i - n < m
        /\ n + (i - n) = i /\ n + ((i - n) + 1) = i + 1
    BY <1>1, <1>2, <1>5
  <2>2. b[i - n] = "/" /\ b[(i - n) + 1] = "/"
    BY <1>1, <1>2, <2>1
  <2> QED
    BY <2>1, <2>2, TwiceHeld
<1> QED
  BY <1>1, <1>3, <1>4, <1>5

LEMMA TailClean ==
  ASSUME NEW b \in Seq(Letters), b # << >>, ~Holds(b, Twice)
  PROVE  /\ Tail(b) \in Seq(Letters) /\ ~Holds(Tail(b), Twice)
         /\ Head(b) = "/" /\ Tail(b) # << >> => Tail(b)[1] # "/"
<1>1. /\ Tail(b) \in Seq(Letters) /\ Len(Tail(b)) = Len(b) - 1 /\ Len(b) \in Nat
      /\ \A i \in 1..(Len(b) - 1) : Tail(b)[i] = b[i + 1]
      /\ Head(b) = b[1] /\ Len(b) > 0
  OBVIOUS
<1>2. \A i \in 1..Len(b) : ~(i < Len(b) /\ b[i] = "/" /\ b[i + 1] = "/")
  BY TwiceHeld
<1>3. ASSUME NEW i \in 1..(Len(b) - 1), i < Len(b) - 1, Tail(b)[i] = "/", Tail(b)[i + 1] = "/"
      PROVE  FALSE
  <2>1. i + 1 \in 1..(Len(b) - 1) /\ i + 1 \in 1..Len(b) /\ i + 1 < Len(b)
    BY <1>1, <1>3
  <2>2. b[i + 1] = "/" /\ b[(i + 1) + 1] = "/"
    BY <1>1, <1>3, <2>1
  <2> QED
    BY <1>2, <2>1, <2>2
<1>4. ~Holds(Tail(b), Twice)
  BY <1>1, <1>3, TwiceHeld
<1>5. ASSUME Head(b) = "/", Tail(b) # << >>
      PROVE  Tail(b)[1] # "/"
  <2>1. 1 \in 1..(Len(b) - 1) /\ 1 \in 1..Len(b) /\ 1 < Len(b)
    BY <1>1, <1>5
  <2> QED
    BY <1>1, <1>2, <1>5, <2>1
<1> QED
  BY <1>1, <1>4, <1>5

\* Two tidy paths are joined to a path with room for its end and no two slashes.
LEMMA JoinedClean ==
  ASSUME NEW a \in Seq(Letters), NEW b \in Seq(Letters),
         ~Holds(a, Twice), ~Holds(b, Twice), NEW max \in Nat, Len(a) <= max - 1,
         clax_strcatfile(a, max, b).ok
  PROVE  /\ Len(clax_strcatfile(a, max, b).dst) <= max - 1
         /\ ~Holds(clax_strcatfile(a, max, b).dst, Twice)
<1> DEFINE j == clax_strcatfile(a, max, b)
           starts == b # << >> /\ Head(b) = "/"
<1>1. ASSUME NEW c \in Seq(Letters), j = clax_strcat(a, max, c)
      PROVE  j.dst = a \o c /\ Len(j.dst) <= max - 1
  <2>1. ~(c # << >> /\ Len(a) + Len(c) > max - 1) /\ j = Joined(a \o c)
    BY <1>1 DEF clax_strcat, Failed
  <2>2. Len(a \o c) = Len(a) + Len(c) /\ (c = << >> => Len(c) = 0) /\ Len(a) \in Nat /\ Len(c) \in Nat
    OBVIOUS
  <2> HIDE DEF j
  <2>3. Len(a) + Len(c) <= max - 1
    BY <2>1, <2>2
  <2> QED
    BY <2>1, <2>2, <2>3 DEF Joined
<1>2. a # << >> => Last(a) = a[Len(a)]
  BY DEF Last
<1>3. b # << >> => Head(b) = b[1]
  OBVIOUS
<1>4. ASSUME NEW c \in Seq(Letters), j = clax_strcat(a, max, c), ~Holds(c, Twice),
             a # << >> /\ c # << >> => a[Len(a)] # "/" \/ c[1] # "/"
      PROVE  Len(j.dst) <= max - 1 /\ ~Holds(j.dst, Twice)
  BY <1>1, <1>4, NoneWhereJoined
<1>5. CASE a = << >>
  <2>1. j = clax_strcat(a, max, b)
    BY <1>5 DEF clax_strcatfile
  <2> QED
    BY <1>4, <1>5, <2>1
<1>6. CASE a # << >> /\ Last(a) # "/" /\ starts
  <2>1. j = clax_strcat(a, max, b)
    BY <1>6 DEF clax_strcatfile
  <2> QED
    BY <1>2, <1>4, <1>6, <2>1
<1>7. CASE a # << >> /\ Last(a) # "/" /\ ~starts
  <2> DEFINE slash == <<"/">>
             c == slash \o b
  <2>1. j = clax_strcat(a, max, c)
    BY <1>7 DEF clax_strcatfile
  <2>2. slash \in Seq(Letters) /\ Len(slash) = 1 /\ slash[1] = "/"
    BY DEF Letters
  <2> HIDE DEF slash, j
  <2>3. ~Holds(slash, Twice)
    BY <2>2, TwiceHeld
  <2>4. c \in Seq(Letters) /\ ~Holds(c, Twice)
    BY <1>3, <1>7, <2>2, <2>3, NoneWhereJoined
  <2> HIDE DEF c
  <2> QED
    BY <1>2, <1>4, <1>7, <2>1, <2>4 DEF j
<1>8. CASE a # << >> /\ Last(a) = "/"
  <2> DEFINE c == IF starts THEN Tail(b) ELSE b
  <2>1. j = clax_strcat(a, max, c)
    BY <1>8 DEF clax_strcatfile
  <2>2. c \in Seq(Letters) /\ ~Holds(c, Twice) /\ (c # << >> => c[1] # "/")
    BY <1>3, TailClean
  <2> HIDE DEF c, j
  <2> QED
    BY <1>4, <2>1, <2>2 DEF j
<1> QED
  BY <1>5, <1>6, <1>7, <1>8

LEMMA AllPaths ==
  ASSUME text \in Seq(Known)
  PROVE  PathClean
<1>1. text \in Seq(Letters)
  BY DEF Letters
<1>2. \A s \in {Up, Here, Twice, <<"\\">>} : ~Holds(clax_san_path(text), s)
  BY <1>1, Sanitized DEF Clean
<1>3. ASSUME NEW k \in 0..Len(text),
             NEW p, p = clax_san_path(SubSeq(text, 1, k)),
             NEW f, f = clax_san_path(SubSeq(text, k + 1, Len(text))),
             clax_strcatfile(p, 5, f).ok, Len(p) <= 4
      PROVE  /\ Len(clax_strcatfile(p, 5, f).dst) <= 4
             /\ ~Holds(clax_strcatfile(p, 5, f).dst, Twice)
  <2>1. SubSeq(text, 1, k) \in Seq(Letters) /\ SubSeq(text, k + 1, Len(text)) \in Seq(Letters)
    BY <1>1
  <2>2. p \in Seq(Letters) /\ f \in Seq(Letters) /\ Clean(p) /\ Clean(f)
    BY <1>3, <2>1, Sanitized
  <2>3. ~Holds(p, Twice) /\ ~Holds(f, Twice)
    BY <2>2 DEF Clean
  <2>4. 5 \in Nat /\ 5 - 1 = 4
    OBVIOUS
  <2> QED
    BY <1>3, <2>2, <2>3, <2>4, JoinedClean
<1> QED
  BY <1>2, <1>3 DEF PathClean

-----------------------------------------------------------------------------
(* Credentials.                                                            *)

\* A sequence of sequences is put together from the left; w has what there is after
\* each of them.
ArePutTogether(w, seqs, n) ==
  /\ w = [i \in 1..n |-> w[i]] /\ w[1] = seqs[1]
  /\ \A i \in 1..n : i # 1 => w[i] = w[i - 1] \o seqs[i]

LEMMA FlattenIs ==
  ASSUME NEW n \in Nat, n > 0, NEW seqs, Len(seqs) = n, NEW w, ArePutTogether(w, seqs, n)
  PROVE  FlattenSeq(seqs) = w[n]
<1> DEFINE Is(f) == f = [i \in 1..n |-> IF i = 1 THEN seqs[i] ELSE f[i - 1] \o seqs[i]]
           f == CHOOSE f : Is(f)
           S == {k \in 0..n : k = 0 \/ f[k] = w[k]}
<1>1. FlattenSeq(seqs) = f[n]
  BY DEF FlattenSeq
<1>2. Is(f)
  <2>1. \A i \in 1..n : w[i] = IF i = 1 THEN seqs[i] ELSE w[i - 1] \o seqs[i]
    BY DEF ArePutTogether
  <2>2. Is(w)
    BY <2>1, Zenon DEF ArePutTogether
  <2> QED
    BY <2>2
<1> HIDE DEF f
<1>3. \A i \in 1..n : f[i] = IF i = 1 THEN seqs[i] ELSE f[i - 1] \o seqs[i]
  BY <1>2
<1>4. 0 \in S
  OBVIOUS
<1>5. ASSUME NEW k \in Nat, k < n, k \in S
      PROVE  k + 1 \in S
  <2>1. k + 1 \in 1..n /\ (k + 1) - 1 = k /\ k + 1 \in 0..n
    BY <1>5
  <2>2. CASE k = 0
    BY <1>3, <2>1, <2>2 DEF ArePutTogether
  <2>3. CASE k # 0
    <3>1. k + 1 # 1 /\ f[k] = w[k]
      BY <1>5, <2>3
    <3>2. f[k + 1] = f[k] \o seqs[k + 1]
      BY <1>3, <2>1, <3>1
    <3>3. w[k + 1] = w[k] \o seqs[k + 1]
      BY <2>1, <3>1 DEF ArePutTogether
    <3> QED
      BY <2>1, <3>1, <3>2, <3>3
  <2> QED
    BY <2>2, <2>3
<1>6. \A k \in 0..n : k \in S
  <2> HIDE DEF S
  <2> QED
    BY <1>4, <1>5, UpTo
<1> QED
  BY <1>1, <1>6

LEMMA CodeFacts ==
  ASSUME NEW c \in Known
  PROVE  Code[c] \in 0..255 /\ Char[Code[c]] = c
<1>1. \E n \in 0..255 : Char[n] = c
  BY DEF Known
<1>2. Code[c] = CHOOSE n \in 0..255 : Char[n] = c
  BY DEF Code
<1> QED
  BY <1>1, <1>2

\* What a character of the alphabet is worth.
LEMMA Worth ==
  ASSUME NEW n \in 0..63
  PROVE  b64[Char64[n]] = n /\ isbase64(Char64[n]) /\ Char64[n] # "=" /\ ~isbase64("=")
<1>1. Char64[n] \in {Char64[m] : m \in 0..63} /\ "=" \notin {Char64[m] : m \in 0..63}
  BY Char64Assumption
<1>2. b64[Char64[n]] = CHOOSE m \in 0..63 : Char64[m] = Char64[n]
  BY <1>1 DEF b64
<1>3. b64[Char64[n]] = n
  <2>1. \A m \in 0..63 : Char64[m] = Char64[n] => m = n
    BY Char64Assumption
  <2> QED
    BY <1>2, <2>1
<1>4. DOMAIN b64 = {Char64[m] : m \in 0..63}
  BY DEF b64
<1> QED
  BY <1>1, <1>3, <1>4 DEF isbase64

\* The bits of three bytes, six at a time.
AreSixBits(x, y, z) ==
  /\ 32 * ((x \div 128) % 2) + 16 * ((x \div 64) % 2) + 8 * ((x \div 32) % 2)
         + 4 * ((x \div 16) % 2) + 2 * ((x \div 8) % 2) + ((x \div 4) % 2) = x \div 4
    /\ 32 * ((x \div 2) % 2) + 16 * ((x \div 1) % 2) + 8 * ((y \div 128) % 2)
         + 4 * ((y \div 64) % 2) + 2 * ((y \div 32) % 2) + ((y \div 16) % 2)
         = 16 * (x % 4) + (y \div 16)
    /\ 32 * ((y \div 8) % 2) + 16 * ((y \div 4) % 2) + 8 * ((y \div 2) % 2)
         + 4 * ((y \div 1) % 2) + 2 * ((z \div 128) % 2) + ((z \div 64) % 2)
         = 4 * (y % 16) + (z \div 64)
    /\ 32 * ((z \div 32) % 2) + 16 * ((z \div 16) % 2) + 8 * ((z \div 8) % 2)
         + 4 * ((z \div 4) % 2) + 2 * ((z \div 2) % 2) + ((z \div 1) % 2) = z % 64
    /\ x \div 4 \in 0..63 /\ 16 * (x % 4) + (y \div 16) \in 0..63
    /\ 4 * (y % 16) + (z \div 64) \in 0..63 /\ z % 64 \in 0..63

LEMMA SixBits ==
  ASSUME NEW x \in 0..255, NEW y \in 0..255, NEW z \in 0..255
  PROVE  AreSixBits(x, y, z)
<1>1. 32 * ((x \div 128) % 2) + 16 * ((x \div 64) % 2) + 8 * ((x \div 32) % 2)
        + 4 * ((x \div 16) % 2) + 2 * ((x \div 8) % 2) + ((x \div 4) % 2) = x \div 4
  OBVIOUS
<1>2. 32 * ((x \div 2) % 2) + 16 * ((x \div 1) % 2) + 8 * ((y \div 128) % 2)
        + 4 * ((y \div 64) % 2) + 2 * ((y \div 32) % 2) + ((y \div 16) % 2)
        = 16 * (x % 4) + (y \div 16)
  OBVIOUS
<1>3. 32 * ((y \div 8) % 2) + 16 * ((y \div 4) % 2) + 8 * ((y \div 2) % 2)
        + 4 * ((y \div 1) % 2) + 2 * ((z \div 128) % 2) + ((z \div 64) % 2)
        = 4 * (y % 16) + (z \div 64)
  BY SMTT(30)
<1>4. 32 * ((z \div 32) % 2) + 16 * ((z \div 16) % 2) + 8 * ((z \div 8) % 2)
        + 4 * ((z \div 4) % 2) + 2 * ((z \div 2) % 2) + ((z \div 1) % 2) = z % 64
  OBVIOUS
<1>5. /\ x \div 4 \in 0..63 /\ 16 * (x % 4) + (y \div 16) \in 0..63
      /\ 4 * (y % 16) + (z \div 64) \in 0..63 /\ z % 64 \in 0..63
  OBVIOUS
<1> QED
  BY <1>1, <1>2, <1>3, <1>4, <1>5 DEF AreSixBits

LEMMA BitsOfByte ==
  ASSUME NEW x, NEW f, \A j \in 0..7 : f[j] = (x \div 2^(7 - j)) % 2
  PROVE  /\ f[0] = (x \div 128) % 2 /\ f[1] = (x \div 64) % 2 /\ f[2] = (x \div 32) % 2
         /\ f[3] = (x \div 16) % 2 /\ f[4] = (x \div 8) % 2 /\ f[5] = (x \div 4) % 2
         /\ f[6] = (x \div 2) % 2 /\ f[7] = (x \div 1) % 2
<1>1. /\ f[0] = (x \div 2^(7 - 0)) % 2 /\ f[1] = (x \div 2^(7 - 1)) % 2
      /\ f[2] = (x \div 2^(7 - 2)) % 2 /\ f[3] = (x \div 2^(7 - 3)) % 2
      /\ f[4] = (x \div 2^(7 - 4)) % 2 /\ f[5] = (x \div 2^(7 - 5)) % 2
      /\ f[6] = (x \div 2^(7 - 6)) % 2 /\ f[7] = (x \div 2^(7 - 7)) % 2
  OBVIOUS
<1>2. /\ 2^(7 - 0) = 128 /\ 2^(7 - 1) = 64 /\ 2^(7 - 2) = 32 /\ 2^(7 - 3) = 16 /\ 2^(7 - 4) = 8
      /\ 2^(7 - 5) = 4 /\ 2^(7 - 6) = 2 /\ 2^(7 - 7) = 1
  OBVIOUS
<1> QED
  BY <1>1, <1>2, Zenon

LEMMA PowerIsPositive ==
  ASSUME NEW j \in 0..7
  PROVE  2^(7 - j) \in Nat /\ 2^(7 - j) > 0
<1>1. \A k \in 0..7 : k = 0 \/ k = 1 \/ k = 2 \/ k = 3 \/ k = 4 \/ k = 5 \/ k = 6 \/ k = 7
  OBVIOUS
<1>2. 2^7 = 128 /\ 2^6 = 64 /\ 2^5 = 32 /\ 2^4 = 16 /\ 2^3 = 8 /\ 2^2 = 4 /\ 2^1 = 2 /\ 2^0 = 1
  OBVIOUS
<1>3. \A k \in 0..7 : k = 7 - j => 2^(7 - j) = 2^k
  OBVIOUS
<1> DEFINE e == 2^(7 - j)
           k == 7 - j
<1>4. k \in 0..7 /\ e = 2^k
  BY <1>3
<1> HIDE DEF e, k
<1>5. e = 128 \/ e = 64 \/ e = 32 \/ e = 16 \/ e = 8 \/ e = 4 \/ e = 2 \/ e = 1
  BY <1>1, <1>2, <1>4, ZenonT(40)
<1>6. e \in Nat /\ e > 0
  BY <1>5
<1> QED
  BY <1>6 DEF e

\* And put together again.
AreBytesAgain(x, y, z) ==
  /\ 4 * (x \div 4) + ((16 * (x % 4) + (y \div 16)) \div 16) = x
  /\ ((16 * (16 * (x % 4) + (y \div 16))) % 256) + ((4 * (y % 16) + (z \div 64)) \div 4) = y
  /\ ((64 * (4 * (y % 16) + (z \div 64))) % 256) + (z % 64) = z

LEMMA ThreeBytes ==
  ASSUME NEW x \in 0..255, NEW y \in 0..255, NEW z \in 0..255
  PROVE  AreBytesAgain(x, y, z)
<1>1. 4 * (x \div 4) + ((16 * (x % 4) + (y \div 16)) \div 16) = x
  OBVIOUS
<1>2. ((16 * (16 * (x % 4) + (y \div 16))) % 256) + ((4 * (y % 16) + (z \div 64)) \div 4) = y
  OBVIOUS
<1>3. ((64 * (4 * (y % 16) + (z \div 64))) % 256) + (z % 64) = z
  OBVIOUS
<1> QED
  BY <1>1, <1>2, <1>3 DEF AreBytesAgain

\* The bytes of a text, with zero after the end, and the six bits a place of its
\* encoding stands for: the places of group g are 4 * g + 1 to 4 * g + 4.
ByteAt(s, i) == IF i <= Len(s) THEN Code[s[i]] ELSE 0
Sextet(s, g, r) ==
  LET x == ByteAt(s, 3 * g + 1)
      y == ByteAt(s, 3 * g + 2)
      z == ByteAt(s, 3 * g + 3)
  IN  CASE r = 1 -> x \div 4
        [] r = 2 -> 16 * (x % 4) + (y \div 16)
        [] r = 3 -> 4 * (y % 16) + (z \div 64)
        [] OTHER -> z % 64

Chars64 == {Char64[n] : n \in 0..63} \cup {"="}

IsEncoding(t, s) ==
  LET L == Len(s)
      G == (L + 2) \div 3
      chars == (8 * L + 5) \div 6
  IN  /\ t \in Seq(Chars64) /\ Len(t) = 4 * G
      /\ \A g \in 0..(G - 1), r \in 1..4 :
           t[4 * g + r] = IF 4 * g + r <= chars THEN Char64[Sextet(s, g, r)] ELSE "="

LEMMA ByteIsByte ==
  ASSUME NEW s \in Seq(Known), NEW i \in Nat, i > 0
  PROVE  ByteAt(s, i) \in 0..255
<1>1. CASE i <= Len(s)
  <2>1. s[i] \in Known
    BY <1>1
  <2> QED
    BY <1>1, <2>1, CodeFacts DEF ByteAt
<1>2. CASE ~(i <= Len(s))
  BY <1>2 DEF ByteAt
<1> QED
  BY <1>1, <1>2

LEMMA SextetIsOne ==
  ASSUME NEW s \in Seq(Known), NEW g \in Nat, NEW r \in 1..4
  PROVE  Sextet(s, g, r) \in 0..63
<1> DEFINE x == ByteAt(s, 3 * g + 1)
           y == ByteAt(s, 3 * g + 2)
           z == ByteAt(s, 3 * g + 3)
<1>1. x \in 0..255 /\ y \in 0..255 /\ z \in 0..255
  BY ByteIsByte
<1>2. Sextet(s, g, r) = CASE r = 1 -> x \div 4
                          [] r = 2 -> 16 * (x % 4) + (y \div 16)
                          [] r = 3 -> 4 * (y % 16) + (z \div 64)
                          [] OTHER -> z % 64
  BY DEF Sextet
<1> HIDE DEF x, y, z
<1>3. /\ x \div 4 \in 0..63 /\ 16 * (x % 4) + (y \div 16) \in 0..63
      /\ 4 * (y % 16) + (z \div 64) \in 0..63 /\ z % 64 \in 0..63
  <2>1. AreSixBits(x, y, z)
    BY <1>1, SixBits
  <2> QED
    BY <2>1 DEF AreSixBits
<1> QED
  BY <1>2, <1>3

\* How much there is of everything.
LEMMA Sizes ==
  ASSUME NEW L \in Nat, NEW G, G = (L + 2) \div 3
  PROVE  /\ G \in Nat
         /\ \/ L = 3 * G /\ (8 * L + 5) \div 6 = 4 * G
            \/ L = 3 * G - 1 /\ (8 * L + 5) \div 6 = 4 * G - 1 /\ G > 0
            \/ L = 3 * G - 2 /\ (8 * L + 5) \div 6 = 4 * G - 2 /\ G > 0
  OBVIOUS

LEMMA Base64Is ==
  ASSUME NEW s \in Seq(Known)
  PROVE  IsEncoding(Base64(s), s)
<1> DEFINE L == Len(s)
           G == (L + 2) \div 3
           chars == (8 * L + 5) \div 6
           bit(k) == (Code[s[(k \div 8) + 1]] \div 2^(7 - (k % 8))) % 2
           at(k) == IF k < 8 * L THEN bit(k) ELSE 0
           six(n) == 32 * at(6*n) + 16 * at(6*n + 1) + 8 * at(6*n + 2)
                       + 4 * at(6*n + 3) + 2 * at(6*n + 4) + at(6*n + 5)
           a == [n \in 1..chars |-> Char64[six(n - 1)]]
           z == [n \in 1..((4 - (chars % 4)) % 4) |-> "="]
<1>1. Base64(s) = a \o z
  BY DEF Base64
<1>2. L \in Nat
  OBVIOUS
<1>3. ASSUME NEW i \in Nat, NEW j \in 0..7
      PROVE  at(8 * i + j) = (ByteAt(s, i + 1) \div 2^(7 - j)) % 2
  <2>1. (8 * i + j) \div 8 = i /\ (8 * i + j) % 8 = j /\ (8 * i + j < 8 * L <=> i + 1 <= L)
    BY <1>2
  <2>2. at(8 * i + j) = IF i + 1 <= L THEN (Code[s[i + 1]] \div 2^(7 - j)) % 2 ELSE 0
    BY <2>1
  <2>3. (0 \div 2^(7 - j)) % 2 = 0
    <3>3. 2^(7 - j) \in Nat /\ 2^(7 - j) > 0
      BY PowerIsPositive
    <3> DEFINE e == 2^(7 - j)
    <3> HIDE DEF e
    <3>4. e \in Nat /\ e > 0 => (0 \div e) % 2 = 0
      OBVIOUS
    <3> QED
      BY <3>3, <3>4 DEF e
  <2> HIDE DEF at
  <2>4. CASE i + 1 <= L
    BY <2>2, <2>4 DEF ByteAt
  <2>5. CASE ~(i + 1 <= L)
    BY <2>2, <2>3, <2>5 DEF ByteAt
  <2> QED
    BY <2>4, <2>5
<1> HIDE DEF at
<1>4. ASSUME NEW g \in Nat, NEW r \in 1..4
      PROVE  six(4 * g + r - 1) = Sextet(s, g, r)
  <2> DEFINE u == ByteAt(s, 3 * g + 1)
             v == ByteAt(s, 3 * g + 2)
             w == ByteAt(s, 3 * g + 3)
             b == [i \in 0..2 |-> [j \in 0..7 |-> at(8 * (3 * g + i) + j)]]
  <2>1. u \in 0..255 /\ v \in 0..255 /\ w \in 0..255
    BY ByteIsByte
  <2>2. \A i \in 0..2, j \in 0..7 : b[i][j] = (ByteAt(s, 3 * g + (i + 1)) \div 2^(7 - j)) % 2
    <3>1. \A i \in 0..2 : 3 * g + i \in Nat /\ (3 * g + i) + 1 = 3 * g + (i + 1)
      OBVIOUS
    <3>2. \A i \in 0..2, j \in 0..7 : b[i][j] = at(8 * (3 * g + i) + j)
      OBVIOUS
    <3>3. \A i \in 0..2, j \in 0..7 :
            at(8 * (3 * g + i) + j) = (ByteAt(s, (3 * g + i) + 1) \div 2^(7 - j)) % 2
      BY <1>3, <3>1
    <3> QED
      BY <3>1, <3>2, <3>3
  <2>b. \A i \in 0..2, j \in 0..7 : at(8 * (3 * g + i) + j) = b[i][j]
    OBVIOUS
  <2>j. /\ 0 \in 0..7 /\ 1 \in 0..7 /\ 2 \in 0..7 /\ 3 \in 0..7 /\ 4 \in 0..7 /\ 5 \in 0..7
        /\ 6 \in 0..7 /\ 7 \in 0..7 /\ 0 \in 0..2 /\ 1 \in 0..2 /\ 2 \in 0..2
        /\ 0 + 1 = 1 /\ 1 + 1 = 2 /\ 2 + 1 = 3
    OBVIOUS
  <2>i. /\ \A j \in 0..7 : b[0][j] = (u \div 2^(7 - j)) % 2
        /\ \A j \in 0..7 : b[1][j] = (v \div 2^(7 - j)) % 2
        /\ \A j \in 0..7 : b[2][j] = (w \div 2^(7 - j)) % 2
    BY <2>2, <2>j, Zenon
  <2> HIDE DEF u, v, w, b
  <2>3. /\ b[0][0] = (u \div 128) % 2 /\ b[0][1] = (u \div 64) % 2 /\ b[0][2] = (u \div 32) % 2
        /\ b[0][3] = (u \div 16) % 2 /\ b[0][4] = (u \div 8) % 2 /\ b[0][5] = (u \div 4) % 2
        /\ b[0][6] = (u \div 2) % 2 /\ b[0][7] = (u \div 1) % 2
    BY <2>i, BitsOfByte
  <2>4. /\ b[1][0] = (v \div 128) % 2 /\ b[1][1] = (v \div 64) % 2 /\ b[1][2] = (v \div 32) % 2
        /\ b[1][3] = (v \div 16) % 2 /\ b[1][4] = (v \div 8) % 2 /\ b[1][5] = (v \div 4) % 2
        /\ b[1][6] = (v \div 2) % 2 /\ b[1][7] = (v \div 1) % 2
    BY <2>i, BitsOfByte
  <2>5. /\ b[2][0] = (w \div 128) % 2 /\ b[2][1] = (w \div 64) % 2 /\ b[2][2] = (w \div 32) % 2
        /\ b[2][3] = (w \div 16) % 2 /\ b[2][4] = (w \div 8) % 2 /\ b[2][5] = (w \div 4) % 2
        /\ b[2][6] = (w \div 2) % 2 /\ b[2][7] = (w \div 1) % 2
    BY <2>i, BitsOfByte
  <2>s. AreSixBits(u, v, w)
    BY <2>1, SixBits
  <2>6. Sextet(s, g, r) = CASE r = 1 -> u \div 4
                            [] r = 2 -> 16 * (u % 4) + (v \div 16)
                            [] r = 3 -> 4 * (v % 16) + (w \div 64)
                            [] OTHER -> w % 64
    BY DEF Sextet, u, v, w
  <2>7. CASE r = 1
    <3>1. /\ 6 * (4 * g + r - 1) = 8 * (3 * g + 0) + 0
          /\ 6 * (4 * g + r - 1) + 1 = 8 * (3 * g + 0) + 1
          /\ 6 * (4 * g + r - 1) + 2 = 8 * (3 * g + 0) + 2
          /\ 6 * (4 * g + r - 1) + 3 = 8 * (3 * g + 0) + 3
          /\ 6 * (4 * g + r - 1) + 4 = 8 * (3 * g + 0) + 4
          /\ 6 * (4 * g + r - 1) + 5 = 8 * (3 * g + 0) + 5
      BY <2>7
    <3>2. six(4 * g + r - 1)
            = 32 * b[0][0] + 16 * b[0][1] + 8 * b[0][2] + 4 * b[0][3] + 2 * b[0][4] + b[0][5]
      BY <2>b, <2>j, <3>1, ZenonT(40)
    <3> HIDE DEF six
    <3>3. six(4 * g + r - 1) = u \div 4
      BY <2>1, <2>3, <3>2, <2>s DEF AreSixBits
    <3> QED
      BY <2>6, <2>7, <3>3
  <2>8. CASE r = 2
    <3>1. /\ 6 * (4 * g + r - 1) = 8 * (3 * g + 0) + 6
          /\ 6 * (4 * g + r - 1) + 1 = 8 * (3 * g + 0) + 7
          /\ 6 * (4 * g + r - 1) + 2 = 8 * (3 * g + 1) + 0
          /\ 6 * (4 * g + r - 1) + 3 = 8 * (3 * g + 1) + 1
          /\ 6 * (4 * g + r - 1) + 4 = 8 * (3 * g + 1) + 2
          /\ 6 * (4 * g + r - 1) + 5 = 8 * (3 * g + 1) + 3
      BY <2>8
    <3>2. six(4 * g + r - 1)
            = 32 * b[0][6] + 16 * b[0][7] + 8 * b[1][0] + 4 * b[1][1] + 2 * b[1][2] + b[1][3]
      BY <2>b, <2>j, <3>1, ZenonT(40)
    <3> HIDE DEF six
    <3>3. six(4 * g + r - 1) = 16 * (u % 4) + (v \div 16)
      BY <2>1, <2>3, <2>4, <3>2, <2>s, SMTT(30) DEF AreSixBits
    <3> QED
      BY <2>6, <2>8, <3>3
  <2>9. CASE r = 3
    <3>1. /\ 6 * (4 * g + r - 1) = 8 * (3 * g + 1) + 4
          /\ 6 * (4 * g + r - 1) + 1 = 8 * (3 * g + 1) + 5
          /\ 6 * (4 * g + r - 1) + 2 = 8 * (3 * g + 1) + 6
          /\ 6 * (4 * g + r - 1) + 3 = 8 * (3 * g + 1) + 7
          /\ 6 * (4 * g + r - 1) + 4 = 8 * (3 * g + 2) + 0
          /\ 6 * (4 * g + r - 1) + 5 = 8 * (3 * g + 2) + 1
      BY <2>9
    <3>2. six(4 * g + r - 1)
            = 32 * b[1][4] + 16 * b[1][5] + 8 * b[1][6] + 4 * b[1][7] + 2 * b[2][0] + b[2][1]
      BY <2>b, <2>j, <3>1, ZenonT(40)
    <3> HIDE DEF six
    <3>3. six(4 * g + r - 1) = 4 * (v % 16) + (w \div 64)
      BY <2>1, <2>4, <2>5, <3>2, <2>s DEF AreSixBits
    <3> QED
      BY <2>6, <2>9, <3>3
  <2>10. CASE r = 4
    <3>1. /\ 6 * (4 * g + r - 1) = 8 * (3 * g + 2) + 2
          /\ 6 * (4 * g + r - 1) + 1 = 8 * (3 * g + 2) + 3
          /\ 6 * (4 * g + r - 1) + 2 = 8 * (3 * g + 2) + 4
          /\ 6 * (4 * g + r - 1) + 3 = 8 * (3 * g + 2) + 5
          /\ 6 * (4 * g + r - 1) + 4 = 8 * (3 * g + 2) + 6
          /\ 6 * (4 * g + r - 1) + 5 = 8 * (3 * g + 2) + 7
      BY <2>10
    <3>2. six(4 * g + r - 1)
            = 32 * b[2][2] + 16 * b[2][3] + 8 * b[2][4] + 4 * b[2][5] + 2 * b[2][6] + b[2][7]
      BY <2>b, <2>j, <3>1, ZenonT(40)
    <3> HIDE DEF six
    <3>3. six(4 * g + r - 1) = w % 64
      BY <2>1, <2>5, <3>2, <2>s DEF AreSixBits
    <3> QED
      BY <2>6, <2>10, <3>3
  <2>11. r = 1 \/ r = 2 \/ r = 3 \/ r = 4
    OBVIOUS
  <2> QED
    BY <2>7, <2>8, <2>9, <2>10, <2>11
<1> HIDE DEF six
<1>5. /\ G \in Nat /\ chars \in Nat /\ chars <= 4 * G
      /\ chars + ((4 - (chars % 4)) % 4) = 4 * G
  <2>1. CASE L = 3 * G /\ chars = 4 * G /\ G \in Nat
    BY <2>1
  <2>2. CASE L = 3 * G - 1 /\ chars = 4 * G - 1 /\ G \in Nat /\ G > 0
    <3>1. (4 * G - 1) % 4 = 3
      BY <2>2
    <3> QED
      BY <2>2, <3>1
  <2>3. CASE L = 3 * G - 2 /\ chars = 4 * G - 2 /\ G \in Nat /\ G > 0
    <3>1. (4 * G - 2) % 4 = 2
      BY <2>3
    <3> QED
      BY <2>3, <3>1
  <2> QED
    BY <1>2, <2>1, <2>2, <2>3, Sizes
<1> DEFINE pad == (4 - (chars % 4)) % 4
<1>6. pad \in Nat
  BY <1>5
<1> HIDE DEF G, chars, pad, L
<1>7. \A n \in 1..chars : Char64[six(n - 1)] \in Chars64
  <2>1. \A n \in 0..63 : Char64[n] \in Chars64
    BY DEF Chars64
  <2>2. \A n \in 1..chars : six(n - 1) \in 0..63
    <3>1. ASSUME NEW n \in 1..chars PROVE six(n - 1) \in 0..63
      <4> DEFINE g == (n - 1) \div 4
                 r == ((n - 1) % 4) + 1
      <4>1. g \in Nat /\ r \in 1..4 /\ 4 * g + r - 1 = n - 1
        BY <1>5
      <4> HIDE DEF g, r
      <4>2. six(4 * g + r - 1) = Sextet(s, g, r) /\ Sextet(s, g, r) \in 0..63
        BY <1>4, <4>1, SextetIsOne
      <4> QED
        BY <4>1, <4>2
    <3> QED
      BY <3>1
  <2> QED
    BY <2>1, <2>2
<1> DEFINE a2 == [n \in 1..chars |-> Char64[six(n - 1)]]
           z2 == [n \in 1..pad |-> "="]
<1>8. Base64(s) = a2 \o z2
  BY <1>1 DEF pad
<1>9. /\ a2 \in Seq(Chars64) /\ Len(a2) = chars
      /\ \A n \in 1..chars : a2[n] = Char64[six(n - 1)]
  BY <1>5, <1>7
<1>10. z2 \in Seq(Chars64) /\ Len(z2) = pad /\ \A n \in 1..pad : z2[n] = "="
  BY <1>6 DEF Chars64
<1> HIDE DEF a, z, a2, z2
<1>11. Base64(s) \in Seq(Chars64) /\ Len(Base64(s)) = 4 * G
  <2>1. a2 \o z2 \in Seq(Chars64) /\ Len(a2 \o z2) = Len(a2) + Len(z2)
    BY <1>9, <1>10, JoinFacts
  <2> QED
    BY <1>5, <1>8, <1>9, <1>10, <2>1 DEF pad
<1>12. ASSUME NEW g \in 0..(G - 1), NEW r \in 1..4
       PROVE  Base64(s)[4 * g + r] = IF 4 * g + r <= chars THEN Char64[Sextet(s, g, r)] ELSE "="
  <2> DEFINE n == 4 * g + r
  <2>1. n \in Nat /\ 1 <= n /\ n <= 4 * G /\ n \in 1..(chars + pad)
    BY <1>5 DEF pad
  <2>2. six(n - 1) = Sextet(s, g, r)
    <3>1. g \in Nat /\ r \in 1..4
      BY <1>5
    <3>2. six(4 * g + r - 1) = Sextet(s, g, r)
      BY <1>4, <3>1
    <3> QED
      BY <3>2
  <2> HIDE DEF n
  <2>3. CASE n <= chars
    <3>1. n \in 1..chars
      BY <1>5, <2>1, <2>3
    <3>2. (a2 \o z2)[n] = a2[n]
      BY <1>5, <1>6, <1>9, <1>10, <3>1
    <3> QED
      BY <1>8, <1>9, <2>2, <2>3, <3>1, <3>2 DEF n
  <2>4. CASE ~(n <= chars)
    <3>1. n - chars \in 1..pad
      BY <1>5, <1>6, <2>1, <2>4
    <3>2. (a2 \o z2)[n] = z2[n - chars]
      BY <1>5, <1>6, <1>9, <1>10, <2>1, <2>4
    <3> QED
      BY <1>8, <1>10, <2>4, <3>1, <3>2 DEF n
  <2> QED
    BY <2>3, <2>4
<1> QED
  BY <1>11, <1>12 DEF IsEncoding, G, chars, L

\* What a group stands for: three bytes, or what there is.
IsPart(q, s, h) ==
  LET m == IF 3 * h + 3 <= Len(s) THEN 3 ELSE Len(s) - 3 * h
  IN  /\ q \in Seq(0..255) /\ Len(q) = m
      /\ \A j \in 1..m : q[j] = Code[s[3 * h + j]]

LEMMA GroupDecoded ==
  ASSUME NEW s \in Seq(Known), NEW t, IsEncoding(t, s),
         NEW G, G = (Len(s) + 2) \div 3, NEW h \in 0..(G - 1)
  PROVE  /\ GroupOk(t[4 * h + 1], t[4 * h + 2], t[4 * h + 3], t[4 * h + 4], h + 1 = G)
         /\ IsPart(Group(t[4 * h + 1], t[4 * h + 2], t[4 * h + 3], t[4 * h + 4]), s, h)
<1> DEFINE L == Len(s)
           chars == (8 * L + 5) \div 6
           x == ByteAt(s, 3 * h + 1)
           y == ByteAt(s, 3 * h + 2)
           z == ByteAt(s, 3 * h + 3)
           a == t[4 * h + 1]
           b == t[4 * h + 2]
           c == t[4 * h + 3]
           d == t[4 * h + 4]
           p1 == x \div 4
           p2 == 16 * (x % 4) + (y \div 16)
           p3 == 4 * (y % 16) + (z \div 64)
           p4 == z % 64
<1>1. L \in Nat /\ G \in Nat /\ h \in Nat
  BY Sizes
<1>s. \/ L = 3 * G /\ chars = 4 * G
      \/ L = 3 * G - 1 /\ chars = 4 * G - 1
      \/ L = 3 * G - 2 /\ chars = 4 * G - 2
  BY <1>1, Sizes
<1>2. /\ 4 * h + 1 <= chars /\ 4 * h + 2 <= chars
      /\ 3 * h + 1 <= L
      /\ 4 * h + 3 <= chars <=> 3 * h + 2 <= L
      /\ 4 * h + 4 <= chars <=> 3 * h + 3 <= L
      /\ h + 1 # G => 3 * h + 3 <= L
  <2>0. h + 1 <= G
    BY <1>1
  <2> HIDE DEF L, chars
  <2>1. CASE L = 3 * G /\ chars = 4 * G
    BY <1>1, <2>0, <2>1
  <2>2. CASE L = 3 * G - 1 /\ chars = 4 * G - 1
    BY <1>1, <2>0, <2>2
  <2>3. CASE L = 3 * G - 2 /\ chars = 4 * G - 2
    BY <1>1, <2>0, <2>3
  <2> QED
    BY <1>s, <2>1, <2>2, <2>3
<1>3. x \in 0..255 /\ y \in 0..255 /\ z \in 0..255
  <2>1. \A r \in 1..3 : 3 * h + r \in Nat /\ 3 * h + r > 0
    BY <1>1
  <2>2. \A r \in 1..3 : ByteAt(s, 3 * h + r) \in 0..255
    BY <2>1, ByteIsByte
  <2> QED
    BY <2>2
<1>4. /\ x = Code[s[3 * h + 1]]
      /\ 3 * h + 2 <= L => y = Code[s[3 * h + 2]]
      /\ 3 * h + 3 <= L => z = Code[s[3 * h + 3]]
      /\ ~(3 * h + 3 <= L) => z = 0
  BY <1>2 DEF ByteAt
<1>5. /\ a = Char64[p1] /\ b = Char64[p2]
      /\ c = IF 3 * h + 2 <= L THEN Char64[p3] ELSE "="
      /\ d = IF 3 * h + 3 <= L THEN Char64[p4] ELSE "="
  <2>1. \A r \in 1..4 : t[4 * h + r] = IF 4 * h + r <= chars THEN Char64[Sextet(s, h, r)] ELSE "="
    BY DEF IsEncoding
  <2>2. Sextet(s, h, 1) = p1 /\ Sextet(s, h, 2) = p2 /\ Sextet(s, h, 3) = p3 /\ Sextet(s, h, 4) = p4
    BY DEF Sextet
  <2>3. 1 \in 1..4 /\ 2 \in 1..4 /\ 3 \in 1..4 /\ 4 \in 1..4
    OBVIOUS
  <2> HIDE DEF x, y, z, p1, p2, p3, p4, chars, L
  <2>4. /\ a = IF 4 * h + 1 <= chars THEN Char64[p1] ELSE "="
        /\ b = IF 4 * h + 2 <= chars THEN Char64[p2] ELSE "="
        /\ c = IF 4 * h + 3 <= chars THEN Char64[p3] ELSE "="
        /\ d = IF 4 * h + 4 <= chars THEN Char64[p4] ELSE "="
    BY <2>1, <2>2, <2>3, Zenon
  <2> QED
    BY <1>2, <2>4, Zenon
<1> HIDE DEF x, y, z
<1>6. p1 \in 0..63 /\ p2 \in 0..63 /\ p3 \in 0..63 /\ p4 \in 0..63
  <2>1. AreSixBits(x, y, z)
    BY <1>3, SixBits
  <2> QED
    BY <2>1 DEF AreSixBits
<1>7. /\ 4 * p1 + (p2 \div 16) = x
      /\ ((16 * p2) % 256) + (p3 \div 4) = y
      /\ ((64 * p3) % 256) + p4 = z
  <2>1. AreBytesAgain(x, y, z)
    BY <1>3, ThreeBytes
  <2> QED
    BY <2>1 DEF AreBytesAgain
<1> HIDE DEF p1, p2, p3, p4, a, b, c, d, chars, L
<1>8. \A n \in 0..63 : b64[Char64[n]] = n /\ isbase64(Char64[n]) /\ Char64[n] # "="
  BY Worth
<1>9. /\ isbase64(a) /\ isbase64(b) /\ b64[a] = p1 /\ b64[b] = p2
      /\ 3 * h + 2 <= L => isbase64(c) /\ b64[c] = p3 /\ c # "="
      /\ 3 * h + 3 <= L => isbase64(d) /\ b64[d] = p4 /\ d # "="
      /\ ~(3 * h + 2 <= L) => c = "="
      /\ ~(3 * h + 3 <= L) => d = "="
  BY <1>5, <1>6, <1>8
<1>10. GroupOk(a, b, c, d, h + 1 = G)
  <2>1. 3 * h + 3 <= L => 3 * h + 2 <= L
    BY <1>1
  <2> QED
    BY <1>2, <1>9, <2>1 DEF GroupOk
<1> DEFINE q == Group(a, b, c, d)
<1>11. IsPart(q, s, h)
  <2>1. q = <<4 * b64[a] + (b64[b] \div 16)>>
              \o (IF c = "=" THEN << >> ELSE <<((16 * b64[b]) % 256) + (b64[c] \div 4)>>)
              \o (IF d = "=" THEN << >> ELSE <<((64 * b64[c]) % 256) + b64[d]>>)
    BY DEF Group
  <2> HIDE DEF q
  <2>2. CASE 3 * h + 3 <= L
    <3>1. 3 * h + 2 <= L
      BY <1>1, <2>2
    <3>2. q = <<x>> \o <<y>> \o <<z>>
      BY <1>7, <1>9, <2>1, <2>2, <3>1, ZenonT(40)
    <3>4. q \in Seq(0..255) /\ Len(q) = 3 /\ q[1] = x /\ q[2] = y /\ q[3] = z
      <4>1. IsTriple(q, x, y, z, 0..255)
        BY <1>3, <3>2, UpToThree
      <4> QED
        BY <4>1 DEF IsTriple
    <3>5. \A j \in 1..3 : q[j] = Code[s[3 * h + j]]
      <4>1. \A j \in 1..3 : j = 1 \/ j = 2 \/ j = 3
        OBVIOUS
      <4> QED
        BY <1>4, <2>2, <3>1, <3>4, <4>1
    <3> QED
      BY <2>2, <3>4, <3>5 DEF IsPart, L
  <2>3. CASE 3 * h + 2 <= L /\ ~(3 * h + 3 <= L)
    <3>1. L - 3 * h = 2
      BY <1>1, <2>3
    <3>2. q = <<x>> \o <<y>> \o << >>
      BY <1>7, <1>9, <2>1, <2>3, Zenon
    <3>4. q \in Seq(0..255) /\ Len(q) = 2 /\ q[1] = x /\ q[2] = y
      <4>1. IsPair(q, x, y, 0..255)
        BY <1>3, <3>2, UpToThree
      <4> QED
        BY <4>1 DEF IsPair
    <3>5. \A j \in 1..2 : q[j] = Code[s[3 * h + j]]
      <4>1. \A j \in 1..2 : j = 1 \/ j = 2
        OBVIOUS
      <4> QED
        BY <1>4, <2>3, <3>4, <4>1
    <3> QED
      BY <2>3, <3>1, <3>4, <3>5 DEF IsPart, L
  <2>4. CASE ~(3 * h + 2 <= L)
    <3>1. L - 3 * h = 1 /\ ~(3 * h + 3 <= L)
      BY <1>1, <1>2, <2>4
    <3>2. q = <<x>> \o << >> \o << >>
      BY <1>7, <1>9, <2>1, <2>4, <3>1, Zenon
    <3>3. q = <<x>>
      BY <1>3, <3>2, UpToThree
    <3>4. q \in Seq(0..255) /\ Len(q) = 1 /\ q[1] = x
      BY <1>3, <3>3
    <3>5. \A j \in 1..1 : q[j] = Code[s[3 * h + j]]
      <4>1. \A j \in 1..1 : j = 1
        OBVIOUS
      <4> QED
        BY <1>4, <3>4, <4>1
    <3> QED
      BY <3>1, <3>4, <3>5 DEF IsPart, L
  <2> QED
    BY <2>2, <2>3, <2>4
<1> QED
  BY <1>10, <1>11 DEF a, b, c, d

\* Decoding undoes encoding.
LEMMA Base64Undone ==
  ASSUME NEW s \in Seq(Known), NEW t, IsEncoding(t, s)
  PROVE  base64_decode(t).ok /\ base64_decode(t).out = s
<1> DEFINE L == Len(s)
           G == (L + 2) \div 3
           groups == 1..(Len(t) \div 4)
           at(g, k) == t[4 * g - 4 + k]
           ok == /\ Len(t) % 4 = 0
                 /\ \A g \in groups :
                      GroupOk(at(g, 1), at(g, 2), at(g, 3), at(g, 4), g = Len(t) \div 4)
           seqs == [g \in groups |-> Group(at(g, 1), at(g, 2), at(g, 3), at(g, 4))]
           bytes == FlattenSeq(seqs)
<1>1. base64_decode(t) = [ok |-> ok, out |-> IF ok THEN [i \in DOMAIN bytes |-> Char[bytes[i]]] ELSE << >>]
  BY DEF base64_decode
<1>2. L \in Nat /\ G \in Nat /\ L <= 3 * G /\ (G > 0 => L > 3 * (G - 1))
  <2>0. L \in Nat
    OBVIOUS
  <2>1. L \in Nat /\ G \in Nat /\ (L = 3 * G \/ L = 3 * G - 1 \/ L = 3 * G - 2)
    BY <2>0, Sizes, Zenon
  <2> HIDE DEF L, G
  <2> QED
    BY <2>1
<1>3. Len(t) = 4 * G /\ Len(t) % 4 = 0 /\ Len(t) \div 4 = G /\ groups = 1..G
  <2>1. Len(t) = 4 * G
    BY DEF IsEncoding
  <2> HIDE DEF G
  <2> QED
    BY <1>2, <2>1
<1>4. ASSUME NEW g \in 1..G
      PROVE  /\ GroupOk(at(g, 1), at(g, 2), at(g, 3), at(g, 4), g = Len(t) \div 4)
             /\ IsPart(seqs[g], s, g - 1)
  <2>1. /\ g - 1 \in 0..(G - 1) /\ (g - 1) + 1 = g
        /\ 4 * (g - 1) + 1 = 4 * g - 4 + 1 /\ 4 * (g - 1) + 2 = 4 * g - 4 + 2
        /\ 4 * (g - 1) + 3 = 4 * g - 4 + 3 /\ 4 * (g - 1) + 4 = 4 * g - 4 + 4
    BY <1>2
  <2>2. seqs[g] = Group(at(g, 1), at(g, 2), at(g, 3), at(g, 4))
    BY <1>3
  <2> HIDE DEF seqs
  <2>3. GroupOk(at(g, 1), at(g, 2), at(g, 3), at(g, 4), (g - 1) + 1 = G)
        /\ IsPart(Group(at(g, 1), at(g, 2), at(g, 3), at(g, 4)), s, g - 1)
    BY <2>1, GroupDecoded
  <2> QED
    BY <1>3, <2>1, <2>2, <2>3
<1>5. ok
  BY <1>3, <1>4
<1>6. Len(seqs) = G
  BY <1>2, <1>3
<1> HIDE DEF seqs, G, L, at, groups
<1> DEFINE Upto(m) == [i \in 1..m |-> Code[s[i]]]
           w == [g \in 1..G |-> Upto(IF 3 * g <= L THEN 3 * g ELSE L)]
<1>7. \A m \in 0..L : /\ Upto(m) \in Seq(0..255) /\ Len(Upto(m)) = m
                      /\ \A i \in 1..m : Upto(m)[i] = Code[s[i]]
  <2>1. \A i \in 1..L : Code[s[i]] \in 0..255
    <3>1. \A i \in 1..L : s[i] \in Known
      BY DEF L
    <3> QED
      BY <3>1, CodeFacts
  <2> QED
    BY <1>2, <2>1
<1> HIDE DEF Upto
<1>8. ASSUME G > 0
      PROVE  bytes = Upto(L)
  <2>1. w[1] = seqs[1]
    <3> DEFINE m == IF 3 <= L THEN 3 ELSE L
    <3>1. /\ 1 \in 1..G /\ m \in 0..L /\ w[1] = Upto(m)
          /\ m = (IF 3 * 0 + 3 <= L THEN 3 ELSE L - 3 * 0)
      BY <1>2, <1>8
    <3>2. IsPart(seqs[1], s, 0)
      BY <1>4, <3>1
    <3> HIDE DEF m, w
    <3>3. /\ seqs[1] \in Seq(0..255) /\ Len(seqs[1]) = m
          /\ \A j \in 1..m : seqs[1][j] = Code[s[3 * 0 + j]]
      BY <3>1, <3>2 DEF IsPart, L
    <3>4. \A j \in 1..m : 3 * 0 + j = j
      OBVIOUS
    <3>5. /\ Upto(m) \in Seq(0..255) /\ Len(Upto(m)) = m
          /\ \A j \in 1..m : Upto(m)[j] = seqs[1][j]
      BY <1>7, <3>1, <3>3, <3>4
    <3>6. Upto(m) = seqs[1]
      BY <3>3, <3>5, SameSeq
    <3> QED
      BY <3>1, <3>6
  <2>2. ASSUME NEW g \in 1..G, g # 1
        PROVE  w[g] = w[g - 1] \o seqs[g]
    <3> DEFINE k == 3 * (g - 1)
               n == IF 3 * g <= L THEN 3 * g ELSE L
               u == Upto(k)
               q == seqs[g]
               m == IF k + 3 <= L THEN 3 ELSE L - k
    <3>1. /\ g - 1 \in 1..G /\ k \in 0..L /\ n \in 0..L /\ n = k + m /\ m \in Nat
          /\ (3 * (g - 1) <= L)
      BY <1>2, <2>2
    <3>2. w[g] = Upto(n) /\ w[g - 1] = u
      BY <3>1
    <3>3. /\ q \in Seq(0..255) /\ Len(q) = m
          /\ \A j \in 1..m : q[j] = Code[s[k + j]]
      <4>1. IsPart(q, s, g - 1)
        BY <1>4
      <4> HIDE DEF q
      <4> QED
        BY <4>1 DEF IsPart, L
    <3>4. /\ u \in Seq(0..255) /\ Len(u) = k /\ \A i \in 1..k : u[i] = Code[s[i]]
          /\ Upto(n) \in Seq(0..255) /\ Len(Upto(n)) = n /\ \A i \in 1..n : Upto(n)[i] = Code[s[i]]
      BY <1>7, <3>1
    <3> HIDE DEF k, n, u, q, m
    <3>5. u \o q \in Seq(0..255) /\ Len(u \o q) = n
      <4>1. u \o q \in Seq(0..255) /\ Len(u \o q) = Len(u) + Len(q)
        BY <3>3, <3>4, JoinFacts
      <4> QED
        BY <3>1, <3>3, <3>4, <4>1
    <3>6. ASSUME NEW i \in 1..n
          PROVE  Upto(n)[i] = (u \o q)[i]
      <4>1. CASE i <= k
        <5>1. (u \o q)[i] = u[i] /\ i \in 1..k
          BY <3>1, <3>3, <3>4, <4>1
        <5> QED
          BY <3>4, <5>1
      <4>2. CASE ~(i <= k)
        <5>1. i - k \in 1..m /\ k + (i - k) = i
          BY <3>1, <4>2
        <5>2. (u \o q)[i] = q[i - k]
          BY <3>1, <3>3, <3>4, <4>2
        <5> QED
          BY <3>3, <3>4, <5>1, <5>2
      <4> QED
        BY <4>1, <4>2
    <3>7. Upto(n) = u \o q
      BY <3>4, <3>5, <3>6, SameSeq
    <3> QED
      BY <3>2, <3>7 DEF q
  <2>3. w = [g \in 1..G |-> w[g]]
    OBVIOUS
  <2>4. w[G] = Upto(L)
    BY <1>2, <1>8
  <2> HIDE DEF w
  <2>5. FlattenSeq(seqs) = w[G]
    <3>1. ArePutTogether(w, seqs, G)
      BY <2>1, <2>2, <2>3, Zenon DEF ArePutTogether
    <3> QED
      BY <1>2, <1>6, <1>8, <3>1, FlattenIs
  <2> QED
    BY <2>4, <2>5
<1>9. CASE G > 0
  <2>1. bytes = Upto(L)
    BY <1>8, <1>9
  <2>2. \A i \in 1..L : Char[Code[s[i]]] = s[i]
    <3>1. \A i \in 1..L : s[i] \in Known
      BY DEF L
    <3> QED
      BY <3>1, CodeFacts
  <2>3. DOMAIN Upto(L) = 1..L /\ \A i \in 1..L : Upto(L)[i] = Code[s[i]]
    BY <1>2 DEF Upto
  <2> HIDE DEF bytes, ok
  <2>4. [i \in DOMAIN bytes |-> Char[bytes[i]]] = [i \in 1..L |-> s[i]]
    BY <2>1, <2>2, <2>3
  <2>5. [i \in 1..L |-> s[i]] = s
    BY DEF L
  <2> QED
    BY <1>1, <1>5, <2>4, <2>5
<1>10. CASE ~(G > 0)
  <2>1. G = 0 /\ L = 0
    BY <1>2, <1>10
  <2>2. bytes = seqs /\ DOMAIN seqs = {}
    BY <1>3, <1>6, <2>1 DEF FlattenSeq, seqs
  <2>3. s = << >>
    BY <2>1 DEF L
  <2> HIDE DEF bytes, ok
  <2>4. [i \in DOMAIN bytes |-> Char[bytes[i]]] = << >>
    BY <2>2
  <2> QED
    BY <1>1, <1>5, <2>3, <2>4
<1> QED
  BY <1>9, <1>10

\* A text as C sees it has no zero byte, and is the text if that has none; else a zero
\* byte comes next.
LEMMA CStrFacts ==
  ASSUME NEW S, NEW s \in Seq(S)
  PROVE  /\ CStr(s) \in Seq(S) /\ Len(CStr(s)) <= Len(s)
         /\ \A i \in 1..Len(CStr(s)) : CStr(s)[i] = s[i] /\ CStr(s)[i] # "NUL"
         /\ (\A i \in 1..Len(s) : s[i] # "NUL") => CStr(s) = s
         /\ (\E i \in 1..Len(s) : s[i] = "NUL") =>
              Len(CStr(s)) < Len(s) /\ s[Len(CStr(s)) + 1] = "NUL"
<1> DEFINE L == Len(s)
           First(i) == s[i] = "NUL" /\ \A j \in 1..(i - 1) : s[j] # "NUL"
           Z == {i \in 1..L : s[i] = "NUL"}
<1>1. L \in Nat /\ DOMAIN s = 1..L
  OBVIOUS
<1>2. CASE \E i \in DOMAIN s : s[i] = "NUL"
  <2> DEFINE k == CHOOSE i \in DOMAIN s : First(i)
  <2>1. CStr(s) = SubSeq(s, 1, k - 1)
    BY <1>2 DEF CStr
  <2>2. \E i \in DOMAIN s : First(i)
    <3>1. Z \in SUBSET Nat /\ Z # {}
      BY <1>1, <1>2
    <3>2. PICK i \in Z : \A j \in Z : i <= j
      <4> HIDE DEF Z
      <4> QED
        BY <3>1, LeastExists
    <3>3. \A j \in 1..(i - 1) : j \in 1..L /\ ~(i <= j)
      BY <1>1, <3>2
    <3>4. First(i) /\ i \in DOMAIN s
      BY <1>1, <3>2, <3>3
    <3> QED
      BY <3>4
  <2>3. k \in 1..L /\ First(k)
    <3>1. k \in DOMAIN s /\ First(k)
      BY <2>2
    <3> QED
      BY <1>1, <3>1
  <2> HIDE DEF k, L
  <2>4. /\ CStr(s) \in Seq(S) /\ Len(CStr(s)) = k - 1
        /\ \A i \in 1..(k - 1) : CStr(s)[i] = s[i]
    BY <1>1, <2>1, <2>3 DEF L
  <2>5. (k - 1) + 1 = k /\ k - 1 < L
    BY <1>1, <2>3
  <2> QED
    BY <1>1, <1>2, <2>3, <2>4, <2>5 DEF L
<1>3. CASE ~\E i \in DOMAIN s : s[i] = "NUL"
  <2>1. CStr(s) = s
    BY <1>3 DEF CStr
  <2> QED
    BY <1>1, <1>3, <2>1
<1> QED
  BY <1>2, <1>3

\* The text is cut at the first of some places.
CutAs(s, C, u, p) ==
  /\ C # {}
  /\ LET sep == CHOOSE i \in C : \A j \in C : i <= j
     IN  SubSeq(s, 1, sep - 1) = u /\ SubSeq(s, sep + 1, Len(s)) = p

\* What a header with the encoding of a text is checked for.
LEMMA HeaderChecked ==
  ASSUME NEW s \in Seq(Known), Len(s) > 0, NEW u, NEW p,
         NEW C, C = {i \in DOMAIN CStr(s) : s[i] = ":"}
  PROVE  clax_http_check_basic_auth(Basic \o Base64(s), u, p) <=> CutAs(s, C, u, p)
<1> DEFINE t == Base64(s)
           header == Basic \o t
           B == Chars64 \cup {"B", "a", "s", "i", "c", " "}
<1>1. IsEncoding(t, s)
  BY Base64Is
<1> HIDE DEF t
<1>2. t \in Seq(Chars64) /\ Len(t) > 0
  <2> DEFINE G == (Len(s) + 2) \div 3
  <2>1. t \in Seq(Chars64) /\ Len(t) = 4 * G
    BY <1>1 DEF IsEncoding
  <2>2. G \in Nat /\ G > 0
    <3>1. Len(s) \in Nat /\ Len(s) > 0
      OBVIOUS
    <3> QED
      BY <3>1
  <2> QED
    BY <2>1, <2>2
<1>3. Basic \in Seq(B) /\ t \in Seq(B) /\ Len(Basic) = 6
  <2>1. Basic \in Seq(B) /\ Len(Basic) = 6
    BY DEF Basic
  <2>2. Chars64 \subseteq B
    OBVIOUS
  <2> HIDE DEF B
  <2>3. t \in Seq(B)
    BY <1>2, <2>2, Wider
  <2> QED
    BY <2>1, <2>3
<1> HIDE DEF B
<1>4. /\ header \in Seq(B) /\ Len(header) = 6 + Len(t)
      /\ \A i \in 1..6 : header[i] = Basic[i]
      /\ \A i \in 1..Len(t) : header[6 + i] = t[i]
  <2>1. IsJoin(header, Basic, t, B)
    BY <1>3, Join
  <2> HIDE DEF header
  <2> QED
    BY <1>3, <2>1 DEF IsJoin
<1> HIDE DEF header
<1>5. Len(header) > Len(Basic)
  BY <1>2, <1>3, <1>4
<1>6. IsPrefix(Basic, header)
  <2>1. /\ SubSeq(header, 1, 6) \in Seq(B) /\ Len(SubSeq(header, 1, 6)) = 6
        /\ \A i \in 1..6 : SubSeq(header, 1, 6)[i] = Basic[i]
    BY <1>2, <1>4
  <2>2. SubSeq(header, 1, 6) = Basic
    BY <1>3, <2>1, SameSeq
  <2>3. SubSeq(Basic, 1, 6) = Basic
    BY <1>3
  <2> QED
    BY <1>3, <1>5, <2>2, <2>3 DEF IsPrefix
<1>7. SubSeq(header, Len(Basic) + 1, Len(header)) = t
  <2> DEFINE r == SubSeq(header, 7, 6 + Len(t))
  <2>1. r \in Seq(B) /\ Len(r) = Len(t) /\ \A i \in 1..Len(t) : r[i] = t[i]
    <3>1. Len(t) \in Nat
      BY <1>2
    <3>2. r \in Seq(B) /\ Len(r) = (6 + Len(t)) - 7 + 1 /\ \A i \in 1..Len(t) : r[i] = header[7 + i - 1]
      BY <1>4, <3>1
    <3>3. (6 + Len(t)) - 7 + 1 = Len(t) /\ \A i \in 1..Len(t) : 7 + i - 1 = 6 + i
      BY <3>1
    <3> QED
      BY <1>4, <3>2, <3>3
  <2>2. r = t
    <3> HIDE DEF r
    <3> QED
      BY <1>3, <2>1, SameSeq
  <2>3. Len(Basic) + 1 = 7
    BY <1>3
  <2> QED
    BY <1>4, <2>2, <2>3
<1>8. base64_decode(t).ok /\ base64_decode(t).out = s
  BY <1>1, Base64Undone
<1> QED
  BY <1>5, <1>6, <1>7, <1>8 DEF clax_http_check_basic_auth, CutAs, header, t

LEMMA AllCredentials ==
  ASSUME text \in Seq(Known)
  PROVE  OnlyTheRight
<1> DEFINE L == Len(text)
           NoNul == "NUL" \notin {text[i] : i \in DOMAIN text}
           Ok(k) == clax_http_check_basic_auth(Basic \o Base64(text), CStr(SubSeq(text, 1, k - 1)),
                                               CStr(SubSeq(text, k + 1, L)))
           First(k) == k <= L /\ text[k] = ":" /\ \A j \in 1..(k - 1) : text[j] # ":"
<1>1. L \in Nat /\ DOMAIN text = 1..L
  OBVIOUS
<1>2. SUFFICES ASSUME NEW k \in 1..(L + 1)
               PROVE  Ok(k) <=> NoNul /\ First(k)
  BY DEF OnlyTheRight
<1>3. NoNul <=> \A i \in 1..L : text[i] # "NUL"
  BY <1>1
<1>4. CASE L = 0
  <2>1. text = << >> /\ Basic \o Base64(text) = Basic
    <3>1. text = << >>
      BY <1>4
    <3>2. IsEncoding(Base64(text), text)
      BY Base64Is
    <3>3. (0 + 2) \div 3 = 0 /\ 4 * 0 = 0
      OBVIOUS
    <3>4. Base64(text) \in Seq(Chars64) /\ Len(Base64(text)) = 0
      BY <1>4, <3>2, <3>3 DEF IsEncoding
    <3>5. Base64(text) = << >>
      BY <3>4
    <3>6. Basic \in Seq({"B", "a", "s", "i", "c", " "})
      BY DEF Basic
    <3>7. Basic \o << >> = Basic
      BY <3>6, NothingAdded
    <3> QED
      BY <3>1, <3>5, <3>7, Zenon
  <2>2. ~Ok(k)
    <3>1. Len(Basic) = 6
      BY DEF Basic
    <3>2. ~(Len(Basic \o Base64(text)) > Len(Basic))
      <4>1. ~(6 > 6)
        OBVIOUS
      <4> QED
        BY <2>1, <3>1, <4>1, Zenon
    <3> QED
      BY <3>2, Zenon DEF clax_http_check_basic_auth
  <2>3. ~First(k)
    BY <1>2, <1>4
  <2> QED
    BY <2>2, <2>3
<1>5. CASE L # 0
  <2> DEFINE c == CStr(text)
             u == CStr(SubSeq(text, 1, k - 1))
             p == CStr(SubSeq(text, k + 1, L))
             C == {i \in DOMAIN c : text[i] = ":"}
             sep == CHOOSE i \in C : \A j \in C : i <= j
  <2>1. /\ c \in Seq(Known) /\ Len(c) <= L
        /\ \A i \in 1..Len(c) : c[i] = text[i] /\ c[i] # "NUL"
        /\ (\A i \in 1..L : text[i] # "NUL") => c = text
        /\ (\E i \in 1..L : text[i] = "NUL") => Len(c) < L /\ text[Len(c) + 1] = "NUL"
    BY CStrFacts
  <2>2. Ok(k) <=> C # {} /\ SubSeq(text, 1, sep - 1) = u /\ SubSeq(text, sep + 1, L) = p
    <3>1. L > 0
      BY <1>1, <1>5
    <3> HIDE DEF u, p, c
    <3>2. clax_http_check_basic_auth(Basic \o Base64(text), u, p)
            <=> CutAs(text, C, u, p)
      BY <3>1, HeaderChecked DEF c
    <3> QED
      BY <3>2 DEF u, p, CutAs
  <2>3. DOMAIN c = 1..Len(c) /\ Len(c) \in Nat
    BY <2>1
  <2>4. C # {} => sep \in C /\ \A j \in C : sep <= j
    <3>1. C \in SUBSET Nat
      BY <2>3
    <3>2. C # {} => \E x \in C : \A j \in C : x <= j
      <4> HIDE DEF C
      <4> QED
        BY <3>1, LeastExists
    <3> HIDE DEF C
    <3> QED
      BY <3>2
  <2> HIDE DEF c, sep
  <2>5. C # {} => /\ sep \in 1..Len(c) /\ sep \in 1..L /\ text[sep] = ":"
                  /\ \A j \in 1..(sep - 1) : text[j] # ":"
    <3>1. ASSUME C # {}, NEW j \in 1..(sep - 1)
          PROVE  text[j] # ":"
      <4>1. j \in 1..Len(c) /\ ~(sep <= j)
        BY <2>3, <2>4, <3>1
      <4> QED
        BY <2>3, <2>4, <3>1, <4>1
    <3>2. C # {} => sep \in 1..Len(c) /\ text[sep] = ":"
      BY <2>3, <2>4
    <3> QED
      BY <1>1, <2>1, <2>3, <3>1, <3>2
  <2> DEFINE su == SubSeq(text, 1, k - 1)
             sp == SubSeq(text, k + 1, L)
  <2>6. /\ su \in Seq(Known) /\ Len(su) = k - 1 /\ \A i \in 1..(k - 1) : su[i] = text[i]
    BY <1>1
  <2>7. /\ sp \in Seq(Known)
        /\ \A i \in 1..Len(sp) : i + k \in 1..L /\ sp[i] = text[i + k]
    BY <1>1
  <2>8. ASSUME NoNul
        PROVE  c = text /\ u = su /\ p = sp
    <3>1. c = text
      BY <1>3, <2>1, <2>8
    <3>2. \A i \in 1..Len(su) : su[i] # "NUL"
      <4>1. \A i \in 1..Len(su) : i \in 1..L /\ i \in 1..(k - 1)
        BY <1>1, <2>6
      <4> QED
        BY <1>3, <2>6, <2>8, <4>1
    <3>3. \A i \in 1..Len(sp) : sp[i] # "NUL"
      BY <1>3, <2>7, <2>8
    <3> HIDE DEF su, sp
    <3> QED
      BY <2>6, <2>7, <3>1, <3>2, <3>3, CStrFacts DEF su, sp
  <2>9. ASSUME NoNul, First(k)
        PROVE  Ok(k)
    <3>1. k \in 1..L /\ DOMAIN c = 1..L
      BY <1>1, <2>3, <2>8, <2>9
    <3>2. k \in C
      BY <2>9, <3>1
    <3>3. sep = k
      <4>1. sep \in 1..L /\ text[sep] = ":" /\ sep <= k
        BY <2>4, <2>5, <3>2
      <4>2. ~(sep < k)
        BY <2>9, <3>1, <4>1
      <4> QED
        BY <3>1, <4>1, <4>2
    <3> HIDE DEF C
    <3> QED
      BY <2>2, <2>8, <2>9, <3>2, <3>3
  <2>10. ASSUME Ok(k)
         PROVE  NoNul /\ First(k)
    <3>1. C # {} /\ SubSeq(text, 1, sep - 1) = u /\ SubSeq(text, sep + 1, L) = p
      BY <2>2, <2>10
    <3>2. sep \in 1..Len(c) /\ sep \in 1..L
      BY <2>5, <3>1
    <3>3. NoNul
      <4>1. SUFFICES ASSUME \E i \in 1..L : text[i] = "NUL" PROVE FALSE
        BY <1>3
      <4> DEFINE n == Len(c) + 1
                 q == SubSeq(text, sep + 1, L)
      <4>2. n \in 1..L /\ text[n] = "NUL" /\ n - sep \in Nat /\ n - sep >= 1
        BY <1>1, <2>1, <2>3, <3>2, <4>1
      <4>3. q \in Seq(Known) /\ Len(q) = L - sep /\ \A i \in 1..(L - sep) : q[i] = text[sep + i]
        <5>1. /\ sep + 1 \in Nat /\ L \in Nat /\ 1 <= sep + 1 /\ sep + 1 <= L + 1 /\ L <= Len(text)
              /\ (L + 1) - (sep + 1) = L - sep /\ (sep + 1) - 1 = sep
          BY <1>1, <3>2
        <5>2. IsSlice(q, text, sep + 1, L, Known)
          BY <5>1, Slice
        <5> HIDE DEF q, L
        <5> QED
          BY <5>1, <5>2 DEF IsSlice
      <4>4. n - sep \in 1..(L - sep) /\ sep + (n - sep) = n
        BY <1>1, <3>2, <4>2
      <4> HIDE DEF n
      <4>5. q[n - sep] = "NUL" /\ n - sep \in 1..Len(q)
        BY <4>2, <4>3, <4>4
      <4>6. \A i \in 1..Len(p) : p[i] # "NUL"
        <5> HIDE DEF sp
        <5> QED
          BY <2>7, CStrFacts DEF sp
      <4>7. q = p
        BY <3>1
      <4> HIDE DEF q, p
      <4> QED
        BY <4>5, <4>6, <4>7
    <3>4. u = su
      BY <2>8, <3>3
    <3>5. Len(SubSeq(text, 1, sep - 1)) = sep - 1
      BY <1>1, <3>2
    <3>6. sep = k
      <4> HIDE DEF u, su
      <4>1. sep - 1 = k - 1
        BY <2>6, <3>1, <3>4, <3>5
      <4> QED
        BY <3>2, <4>1
    <3> QED
      BY <2>5, <3>1, <3>2, <3>3, <3>6
  <2> QED
    BY <2>9, <2>10
<1> QED
  BY <1>4, <1>5

-----------------------------------------------------------------------------
(* Forms.                                                                  *)

\* The characters that are left in what a client encodes.
EncChar == AlphaNum \cup {"%"}

\* What stands for a character.
Piece(c) ==
  IF c \in AlphaNum THEN <<c>>
  ELSE <<"%", HexDigit[Code[c] \div 16], HexDigit[Code[c] % 16]>>

LEMMA HexDigits ==
  ASSUME NEW n \in 0..15
  PROVE  /\ HexDigit[n] \in Hex /\ HexDigit[n] \in AlphaNum
         /\ HexValue[HexDigit[n]] = n /\ HexDigit[n] \notin {"x", "X"}
<1>1. \E c \in Hex \ Lower : HexValue[c] = n
  BY DigitAssumption
<1>2. HexDigit[n] = CHOOSE c \in Hex \ Lower : HexValue[c] = n
  BY DEF HexDigit
<1>3. HexDigit[n] \in Hex \ Lower /\ HexValue[HexDigit[n]] = n
  BY <1>1, <1>2
<1>4. Hex \ Lower \subseteq AlphaNum
  BY DEF Hex, Lower, Upper, AlphaNum, Alpha, Between
<1> QED
  BY <1>3, <1>4, SignAssumption

LEMMA DigitsScanned ==
  ASSUME NEW a \in Hex, NEW b \in Hex, b \notin {"x", "X"}, NEW old
  PROVE  Scanned(a, b, old) = 16 * HexValue[a] + HexValue[b]
<1>1. Hex \subseteq AlphaNum
  BY DEF Hex, Lower, Upper, AlphaNum, Alpha, Between
<1>2. a \notin {"+", "-", " "}
  BY <1>1, SignAssumption
<1> QED
  BY <1>2 DEF Scanned

\* A percent sign with two digits stands for the character with that old.
LEMMA CodeScanned ==
  ASSUME NEW c \in Known, NEW old
  PROVE  /\ Scanned(HexDigit[Code[c] \div 16], HexDigit[Code[c] % 16], old) = Code[c]
         /\ Code[c] \in 0..255 /\ Code[c] \div 16 \in 0..15 /\ Code[c] % 16 \in 0..15
<1> DEFINE n == Code[c]
           h == HexDigit[n \div 16]
           l == HexDigit[n % 16]
<1>1. n \in 0..255
  BY CodeFacts
<1> HIDE DEF n
<1>2. n \div 16 \in 0..15 /\ n % 16 \in 0..15 /\ 16 * (n \div 16) + (n % 16) = n
  BY <1>1
<1>3. /\ h \in Hex /\ HexValue[h] = n \div 16
      /\ l \in Hex /\ HexValue[l] = n % 16 /\ l \notin {"x", "X"}
  BY <1>2, HexDigits
<1> HIDE DEF h, l
<1>4. Scanned(h, l, old) = 16 * HexValue[h] + HexValue[l]
  BY <1>3, DigitsScanned
<1>5. Scanned(h, l, old) = n
  BY <1>2, <1>3, <1>4
<1> QED
  BY <1>1, <1>2, <1>5 DEF n, h, l

LEMMA Pieces ==
  ASSUME NEW c \in Known
  PROVE  /\ Piece(c) \in Seq(EncChar) /\ Len(Piece(c)) \in {1, 3}
         /\ c \in AlphaNum => Len(Piece(c)) = 1 /\ Piece(c)[1] = c
         /\ c \notin AlphaNum =>
              /\ Len(Piece(c)) = 3 /\ Piece(c)[1] = "%"
              /\ Piece(c)[2] = HexDigit[Code[c] \div 16]
              /\ Piece(c)[3] = HexDigit[Code[c] % 16]
<1>1. CASE c \in AlphaNum
  BY <1>1 DEF Piece, EncChar
<1>2. CASE c \notin AlphaNum
  <2> DEFINE h == HexDigit[Code[c] \div 16]
             l == HexDigit[Code[c] % 16]
  <2>1. h \in AlphaNum /\ l \in AlphaNum
    BY CodeScanned, HexDigits
  <2>2. Piece(c) = <<"%", h, l>>
    BY <1>2 DEF Piece
  <2> HIDE DEF h, l
  <2>3. <<"%", h, l>> \in Seq(EncChar)
    BY <2>1 DEF EncChar
  <2>4. /\ Piece(c) \in Seq(EncChar) /\ Len(Piece(c)) = 3
        /\ Piece(c)[1] = "%" /\ Piece(c)[2] = h /\ Piece(c)[3] = l
    BY <2>2, <2>3
  <2> QED
    BY <1>2, <2>4 DEF h, l
<1> QED
  BY <1>1, <1>2

\* w has the encodings of the prefixes of s.
AreEncoded(w, s, n) ==
  /\ w \in [0..n -> Seq(EncChar)] /\ w[0] = << >>
  /\ \A k \in 1..n : w[k] = w[k - 1] \o Piece(s[k])

LEMMA EncodedValues ==
  ASSUME NEW s \in Seq(Known), NEW n, n = Len(s)
  PROVE  \E w : AreEncoded(w, s, n) /\ Encoded(s) = w[n]
<1> DEFINE D == Seq(EncChar)
           G == [x \in D \X (1..n) |-> x[1] \o Piece(s[x[2]])]
           seqs == [i \in DOMAIN s |-> Piece(s[i])]
<1>1. n \in Nat /\ DOMAIN s = 1..n /\ << >> \in D /\ \A i \in 1..n : s[i] \in Known
  OBVIOUS
<1>2. \A i \in 1..n : Piece(s[i]) \in D
  BY <1>1, Pieces
<1>3. /\ G \in [D \X (1..n) -> D]
      /\ \A x \in D, k \in 1..n : G[<<x, k>>] = x \o Piece(s[k])
  <2>1. \A x \in D, k \in 1..n : x \o Piece(s[k]) \in D
    <3> TAKE x \in D, k \in 1..n
    <3>1. Piece(s[k]) \in Seq(EncChar) /\ x \in Seq(EncChar)
      BY <1>2
    <3> HIDE DEF D
    <3> QED
      BY <3>1, JoinFacts DEF D
  <2> HIDE DEF D
  <2> QED
    BY <2>1
<1>4. PICK f : IsFold(f, n, D, << >>, G)
  <2> HIDE DEF D, G
  <2> QED
    BY <1>1, <1>3, FoldExists
<1>5. Follows(f, n, D, << >>, G)
  <2> HIDE DEF D, G
  <2> QED
    BY <1>4 DEF Follows, IsFold
<1>6. PICK v : IsValues(v, n, D, << >>, G)
  <2> HIDE DEF D, G
  <2> QED
    BY <1>1, <1>3, <1>5, FoldValues DEF HasValues
<1> HIDE DEF G
<1>7. AreEncoded(v, s, n)
  <2>1. v \in [0..n -> Seq(EncChar)] /\ v[0] = << >>
    BY <1>6 DEF IsValues
  <2>2. ASSUME NEW k \in 1..n
        PROVE  v[k] = v[k - 1] \o Piece(s[k])
    <3>1. k - 1 \in 0..n /\ v[k - 1] \in D /\ v[k] = G[<<v[k - 1], k>>]
      BY <1>6, <2>1 DEF IsValues
    <3> HIDE DEF D
    <3> QED
      BY <1>3, <3>1
  <2> QED
    BY <2>1, <2>2 DEF AreEncoded
<1>8. Encoded(s) = v[n]
  <2>1. Encoded(s) = FlattenSeq(seqs)
    BY DEF Encoded, Piece
  <2>2. Len(seqs) = n /\ \A i \in 1..n : seqs[i] = Piece(s[i])
    BY <1>1
  <2>3. CASE n = 0
    <3>1. FlattenSeq(seqs) = << >>
      BY <1>1, <2>2, <2>3 DEF FlattenSeq
    <3> QED
      BY <1>7, <2>1, <2>3, <3>1 DEF AreEncoded
  <2>4. CASE n # 0
    <3> DEFINE w == [i \in 1..n |-> v[i]]
    <3>1. 1 \in 1..n /\ n \in 1..n /\ n > 0 /\ w[n] = v[n]
      BY <1>1, <2>4
    <3>2. w[1] = seqs[1]
      <4>1. v[1] = v[0] \o Piece(s[1]) /\ v[0] = << >>
        <5>1. v[1] = v[1 - 1] \o Piece(s[1]) /\ v[0] = << >>
          BY <1>7, <3>1 DEF AreEncoded
        <5>2. 1 - 1 = 0
          OBVIOUS
        <5> QED
          BY <5>1, <5>2, Zenon
      <4>2. << >> \o Piece(s[1]) = Piece(s[1])
        BY <1>2, <3>1
      <4> QED
        BY <2>2, <3>1, <4>1, <4>2
    <3>3. \A i \in 1..n : i # 1 => w[i] = w[i - 1] \o seqs[i]
      <4>1. \A i \in 1..n : i # 1 => i - 1 \in 1..n
        BY <1>1
      <4> QED
        BY <1>7, <2>2, <4>1 DEF AreEncoded
    <3>4. w = [i \in 1..n |-> w[i]]
      OBVIOUS
    <3> HIDE DEF w, seqs
    <3>5. ArePutTogether(w, seqs, n)
      BY <3>2, <3>3, <3>4 DEF ArePutTogether
    <3> QED
      BY <1>1, <2>1, <2>2, <3>1, <3>5, FlattenIs
  <2> QED
    BY <2>3, <2>4
<1> QED
  BY <1>7, <1>8

\* One encoding begins another.
Begun(u, w) == Len(u) <= Len(w) /\ \A i \in 1..Len(u) : w[i] = u[i]

LEMMA EncodedGrows ==
  ASSUME NEW s \in Seq(Known), NEW n, n = Len(s), NEW w, AreEncoded(w, s, n)
  PROVE  /\ \A k \in 0..n : w[k] \in Seq(EncChar) /\ Len(w[k]) \in Nat /\ k <= Len(w[k])
         /\ \A k \in 1..n : IsJoin(w[k], w[k - 1], Piece(s[k]), EncChar)
         /\ \A k \in 0..n : Begun(w[k], w[n])
<1>1. n \in Nat /\ \A i \in 1..n : s[i] \in Known
  OBVIOUS
<1>2. \A k \in 0..n : w[k] \in Seq(EncChar) /\ Len(w[k]) \in Nat
  BY DEF AreEncoded
<1>3. ASSUME NEW k \in 1..n
      PROVE  /\ IsJoin(w[k], w[k - 1], Piece(s[k]), EncChar)
             /\ Len(w[k - 1]) < Len(w[k])
             /\ \A i \in 1..Len(w[k - 1]) : w[k][i] = w[k - 1][i]
  <2>1. k - 1 \in 0..n /\ w[k] = w[k - 1] \o Piece(s[k])
    <3>1. w[k] = w[k - 1] \o Piece(s[k])
      BY DEF AreEncoded
    <3>2. k - 1 \in 0..n
      BY <1>1
    <3> QED
      BY <3>1, <3>2
  <2>2. Piece(s[k]) \in Seq(EncChar) /\ Len(Piece(s[k])) \in {1, 3}
    BY <1>1, Pieces
  <2> DEFINE a == w[k - 1]
             b == Piece(s[k])
  <2>3. a \in Seq(EncChar) /\ b \in Seq(EncChar) /\ Len(b) \in {1, 3} /\ w[k] = a \o b
    BY <1>2, <2>1, <2>2
  <2> HIDE DEF a, b
  <2>4. IsJoin(w[k], a, b, EncChar)
    BY <2>3, Join
  <2>5. Len(a) < Len(w[k]) /\ \A i \in 1..Len(a) : w[k][i] = a[i]
    <3>1. Len(w[k]) = Len(a) + Len(b) /\ \A i \in 1..Len(a) : w[k][i] = a[i]
      BY <2>4, Zenon DEF IsJoin
    <3>2. Len(a) \in Nat /\ Len(b) >= 1 /\ Len(b) \in Nat
      <4>1. Len(a) \in Nat
        BY <2>3
      <4>2. \A m \in {1, 3} : m >= 1 /\ m \in Nat
        OBVIOUS
      <4> QED
        BY <2>3, <4>1, <4>2
    <3>3. Len(a) < Len(w[k])
      BY <3>1, <3>2
    <3> QED
      BY <3>1, <3>3
  <2> QED
    BY <2>4, <2>5 DEF a, b
<1>4. \A k \in 0..n : k <= Len(w[k])
  <2> DEFINE S == {k \in 0..n : k <= Len(w[k])}
  <2>1. 0 \in S
    BY <1>1, <1>2
  <2>2. ASSUME NEW k \in Nat, k < n, k \in S
        PROVE  k + 1 \in S
    <3>1. k + 1 \in 1..n /\ (k + 1) - 1 = k /\ k + 1 \in 0..n
      BY <1>1, <2>2
    <3>2. Len(w[k]) < Len(w[k + 1])
      BY <1>3, <3>1
    <3>3. Len(w[k]) \in Nat /\ Len(w[k + 1]) \in Nat /\ k <= Len(w[k])
      BY <1>2, <2>2, <3>1
    <3>4. k + 1 <= Len(w[k + 1])
      BY <3>2, <3>3
    <3> QED
      BY <3>1, <3>4
  <2> HIDE DEF S
  <2>3. \A k \in 0..n : k \in S
    BY <1>1, <2>1, <2>2, UpTo
  <2> QED
    BY <2>3 DEF S
<1>5. ASSUME NEW k \in 0..n
      PROVE  Begun(w[k], w[n])
  <2> DEFINE S == {j \in 0..(n - k) : Begun(w[k], w[k + j])}
  <2>1. 0 \in S
    <3>1. k + 0 = k /\ 0 \in 0..(n - k) /\ Len(w[k]) \in Nat
      BY <1>1, <1>2
    <3>2. Begun(w[k], w[k])
      BY <3>1 DEF Begun
    <3> QED
      BY <3>1, <3>2
  <2>2. ASSUME NEW j \in Nat, j < n - k, j \in S
        PROVE  j + 1 \in S
    <3> DEFINE m == k + j
               u == w[k]
               x == w[m]
               y == w[m + 1]
    <3>1. /\ m + 1 \in 1..n /\ (m + 1) - 1 = m /\ k + (j + 1) = m + 1 /\ j + 1 \in 0..(n - k)
          /\ m \in 0..n /\ m + 1 \in 0..n
      BY <1>1, <2>2
    <3>2. Begun(u, x) /\ Len(u) \in Nat /\ Len(x) \in Nat /\ Len(y) \in Nat
      BY <1>2, <2>2, <3>1
    <3>3. Len(x) < Len(y) /\ \A i \in 1..Len(x) : y[i] = x[i]
      <4> HIDE DEF m
      <4> QED
        BY <1>3, <3>1
    <3> HIDE DEF u, x, y
    <3>4. Begun(u, y)
      BY <3>2, <3>3 DEF Begun
    <3> QED
      BY <3>1, <3>4 DEF u, y
  <2>3. n - k \in Nat /\ n - k \in 0..(n - k) /\ k + (n - k) = n
    BY <1>1
  <2> HIDE DEF S
  <2>4. \A j \in 0..(n - k) : j \in S
    BY <2>1, <2>2, <2>3, UpTo
  <2>5. n - k \in S
    BY <2>3, <2>4
  <2> QED
    BY <2>3, <2>5 DEF S
<1> QED
  BY <1>2, <1>3, <1>4, <1>5

\* What the loop of the decoder knows, and what it does with the next character.
DecodeState(Y) == [out : Seq(Y), code : 0..255, skip : 0..2]

DecodeStep(str, a, j) ==
  CASE a.skip # 0 -> [a EXCEPT !.skip = @ - 1]
    [] a.skip = 0 /\ str[j] = "+" -> [a EXCEPT !.out = Append(@, " ")]
    [] a.skip = 0 /\ str[j] = "%" /\ j <= Len(str) - 2 ->
         LET n == Scanned(str[j + 1], str[j + 2], a.code)
         IN  [out |-> Append(a.out, Char[n]), code |-> n, skip |-> 2]
    [] OTHER -> [a EXCEPT !.out = Append(@, str[j])]

LEMMA ScannedIsCode ==
  ASSUME NEW a, NEW b, NEW old \in 0..255
  PROVE  Scanned(a, b, old) \in 0..255
<1>1. \A c \in Hex : HexValue[c] \in 0..15
  BY HexAssumption
<1>2. Hex \subseteq AlphaNum
  BY DEF Hex, Lower, Upper, AlphaNum, Alpha, Between
<1>3. "x" \notin Hex /\ "X" \notin Hex /\ "+" \notin Hex /\ "-" \notin Hex /\ " " \notin Hex
  BY <1>2, SignAssumption
<1>4. CASE a = "0" /\ b \in {"x", "X"}
  BY <1>3, <1>4 DEF Scanned
<1>5. CASE a \in Hex /\ b \in Hex
  <2>1. Scanned(a, b, old) = 16 * HexValue[a] + HexValue[b]
    BY <1>3, <1>5, DigitsScanned
  <2>2. HexValue[a] \in 0..15 /\ HexValue[b] \in 0..15
    BY <1>1, <1>5
  <2> QED
    BY <2>1, <2>2
<1>6. CASE a \in Hex /\ b \notin Hex /\ ~(a = "0" /\ b \in {"x", "X"})
  <2>1. Scanned(a, b, old) = HexValue[a]
    BY <1>3, <1>6 DEF Scanned
  <2> QED
    BY <1>1, <1>6, <2>1
<1>7. CASE a \in {"+", " "} /\ b \in Hex
  <2>1. Scanned(a, b, old) = HexValue[b]
    BY <1>3, <1>7 DEF Scanned
  <2>2. HexValue[b] \in 0..15
    BY <1>1, <1>7
  <2> QED
    BY <2>1, <2>2
<1>8. CASE a = "-" /\ b \in Hex
  <2>1. Scanned(a, b, old) = (256 - HexValue[b]) % 256
    BY <1>3, <1>8 DEF Scanned
  <2>2. HexValue[b] \in 0..15
    BY <1>1, <1>8
  <2> QED
    BY <2>1, <2>2
<1>9. CASE /\ ~(a = "0" /\ b \in {"x", "X"}) /\ a \notin Hex
           /\ ~(a \in {"+", " ", "-"} /\ b \in Hex)
  <2>1. Scanned(a, b, old) = old
    BY <1>3, <1>9 DEF Scanned
  <2> QED
    BY <2>1
<1> QED
  BY <1>4, <1>5, <1>6, <1>7, <1>8, <1>9

\* What a decoded text is made of.
HasChars(Y) == " " \in Y /\ \A c \in 0..255 : Char[c] \in Y

\* The decoder stays among its states.
LEMMA DecodeStays ==
  ASSUME NEW Y, HasChars(Y), NEW str \in Seq(Y),
         NEW a \in DecodeState(Y), NEW j \in 1..Len(str)
  PROVE  DecodeStep(str, a, j) \in DecodeState(Y)
<1>1. a.out \in Seq(Y) /\ a.code \in 0..255 /\ a.skip \in 0..2 /\ str[j] \in Y
  BY DEF DecodeState
<1>2. CASE a.skip # 0
  <2>1. DecodeStep(str, a, j) = [a EXCEPT !.skip = a.skip - 1] /\ a.skip - 1 \in 0..2
    BY <1>1, <1>2 DEF DecodeStep
  <2> QED
    BY <2>1, ZenonT(40) DEF DecodeState
<1>3. ASSUME NEW y \in Y
      PROVE  [a EXCEPT !.out = Append(a.out, y)] \in DecodeState(Y)
  <2>1. Append(a.out, y) \in Seq(Y)
    BY <1>1
  <2> QED
    BY <2>1 DEF DecodeState
<1>4. CASE a.skip = 0 /\ str[j] = "+"
  <2>1. DecodeStep(str, a, j) = [a EXCEPT !.out = Append(a.out, " ")]
    BY <1>4 DEF DecodeStep
  <2> QED
    BY <1>3, <2>1 DEF HasChars
<1>5. CASE a.skip = 0 /\ str[j] = "%" /\ j <= Len(str) - 2
  <2> DEFINE n == Scanned(str[j + 1], str[j + 2], a.code)
  <2>1. DecodeStep(str, a, j) = [out |-> Append(a.out, Char[n]), code |-> n, skip |-> 2]
    BY <1>5 DEF DecodeStep
  <2>2. n \in 0..255
    BY <1>1, ScannedIsCode
  <2> HIDE DEF n
  <2>3. Append(a.out, Char[n]) \in Seq(Y)
    <3>1. Char[n] \in Y
      BY <2>2 DEF HasChars
    <3> QED
      BY <1>1, <3>1
  <2> QED
    BY <2>1, <2>2, <2>3 DEF DecodeState
<1>6. CASE a.skip = 0 /\ str[j] # "+" /\ ~(str[j] = "%" /\ j <= Len(str) - 2)
  <2>1. DecodeStep(str, a, j) = [a EXCEPT !.out = Append(a.out, str[j])]
    BY <1>6 DEF DecodeStep
  <2> QED
    BY <1>1, <1>3, <2>1
<1> QED
  BY <1>1, <1>2, <1>4, <1>5, <1>6

\* v has what the decoder knows after every character.
AreDecoded(v, str, old, Y) ==
  /\ v \in [0..Len(str) -> DecodeState(Y)]
  /\ v[0] = [out |-> << >>, code |-> old, skip |-> 0]
  /\ \A k \in 1..Len(str) : v[k] = DecodeStep(str, v[k - 1], k)

LEMMA DecodeValues ==
  ASSUME NEW Y, HasChars(Y), NEW str \in Seq(Y),
         NEW old \in 0..255
  PROVE  \E v : /\ AreDecoded(v, str, old, Y)
                /\ clax_http_url_decode(str, old) = v[Len(str)].out
<1> DEFINE n == Len(str)
           D == DecodeState(Y)
           base == [out |-> << >>, code |-> old, skip |-> 0]
           G == [x \in D \X (1..n) |-> DecodeStep(str, x[1], x[2])]
           ks == [j \in DOMAIN str |-> j]
           IsIter(f) == f = [s \in SUBSET (DOMAIN ks) |->
                               IF s = {} THEN base ELSE DecodeStep(str, f[s \ {Max(s)}], ks[Max(s)])]
           chosen == CHOOSE f : IsIter(f)
<1>1. n \in Nat
  OBVIOUS
<1>0. DOMAIN ks = 1..n /\ \A k \in 1..n : ks[k] = k
  OBVIOUS
<1>2. base \in D
  BY DEF DecodeState
<1>3. /\ G \in [D \X (1..n) -> D]
      /\ \A x \in D, k \in 1..n : G[<<x, k>>] = DecodeStep(str, x, k)
  <2>1. \A x \in D, k \in 1..n : DecodeStep(str, x, k) \in D
    BY DecodeStays
  <2> HIDE DEF D, n
  <2> QED
    BY <2>1
<1>4. clax_http_url_decode(str, old) = chosen[DOMAIN ks].out
  BY DEF clax_http_url_decode, DecodedWith, FoldLeft, MapThenFoldSet, DecodeStep
<1> HIDE DEF G, D, n, base, ks
<1>5. \A s \in SUBSET (1..n) : s # {} => Max(s) \in 1..n /\ s \ {Max(s)} \in SUBSET (1..n)
  BY <1>1, MaxIsLast
<1>g. \A x \in D, s \in SUBSET (1..n) :
        s # {} => G[<<x, Max(s)>>] = DecodeStep(str, x, ks[Max(s)])
  <2> TAKE x \in D, s \in SUBSET (1..n)
  <2> HAVE s # {}
  <2>1. Max(s) \in 1..n
    BY <1>5
  <2>2. ks[Max(s)] = Max(s)
    BY <1>0, <2>1
  <2>3. G[<<x, Max(s)>>] = DecodeStep(str, x, Max(s))
    BY <1>3, <2>1
  <2> QED
    BY <2>2, <2>3
<1>6. IsIter(chosen)
  <2>1. PICK g : IsFold(g, n, D, base, G)
    BY <1>1, <1>2, <1>3, FoldExists
  <2>2. \A s \in SUBSET (1..n) :
          g[s] = IF s = {} THEN base ELSE DecodeStep(str, g[s \ {Max(s)}], ks[Max(s)])
    <3>1. \A s \in SUBSET (1..n) : g[s] \in D
      BY <2>1 DEF IsFold
    <3>2. ASSUME NEW s \in SUBSET (1..n), s # {}
          PROVE  g[s] = DecodeStep(str, g[s \ {Max(s)}], ks[Max(s)])
      <4>1. g[s] = G[<<g[s \ {Max(s)}], Max(s)>>]
        BY <2>1, <3>2 DEF IsFold
      <4>2. g[s \ {Max(s)}] \in D
        BY <1>5, <3>1, <3>2
      <4> QED
        BY <1>g, <3>2, <4>1, <4>2
    <3>3. g[{}] = base
      BY <2>1 DEF IsFold
    <3> QED
      BY <3>2, <3>3
  <2>3. g = [s \in SUBSET (1..n) |-> g[s]]
    BY <2>1 DEF IsFold
  <2>4. IsIter(g)
    BY <1>0, <2>2, <2>3, Zenon
  <2> QED
    BY <2>4
<1>f. PICK f : IsIter(f) /\ clax_http_url_decode(str, old) = f[1..n].out
  BY <1>0, <1>4, <1>6
<1>7. Follows(f, n, D, base, G)
  <2>1. f[{}] = base
    BY <1>f
  <2>2. ASSUME NEW s \in SUBSET (1..n), s # {}, f[s \ {Max(s)}] \in D
        PROVE  f[s] = G[<<f[s \ {Max(s)}], Max(s)>>]
    <3>1. f[s] = DecodeStep(str, f[s \ {Max(s)}], ks[Max(s)])
      BY <1>0, <1>f, <2>2, ZenonT(40)
    <3> QED
      BY <1>g, <2>2, <3>1
  <2> QED
    BY <2>1, <2>2 DEF Follows
<1>8. PICK v : IsValues(v, n, D, base, G) /\ v[n] = f[1..n]
  <2>1. HasValues(f, n, D, base, G)
    BY <1>1, <1>2, <1>3, <1>7, FoldValues
  <2> QED
    BY <2>1 DEF HasValues
<1>9. v \in [0..n -> D] /\ v[0] = base /\ \A k \in 1..n : v[k] = DecodeStep(str, v[k - 1], k)
  <2>1. \A k \in 1..n : k - 1 \in 0..n
    BY <1>1
  <2> QED
    BY <1>3, <1>8, <2>1 DEF IsValues
<1> QED
  BY <1>f, <1>8, <1>9 DEF D, n, base, AreDecoded

\* The first k characters were decoded, and the next is to be read.
HasRead(a, s, k) == a.skip = 0 /\ Len(a.out) = k /\ \A i \in 1..k : a.out[i] = s[i]

\* u stands in s after place p.
StandsAfter(s, p, u) == p + Len(u) <= Len(s) /\ \A i \in 1..Len(u) : s[p + i] = u[i]

LEMMA ReadOneMore ==
  ASSUME NEW Y, NEW o \in Seq(Y), NEW s, NEW k \in Nat, Len(o) = k,
         \A i \in 1..k : o[i] = s[i], s[k + 1] \in Y
  PROVE  /\ Len(Append(o, s[k + 1])) = k + 1
         /\ \A i \in 1..(k + 1) : Append(o, s[k + 1])[i] = s[i]
<1> DEFINE q == Append(o, s[k + 1])
<1>1. Len(q) = k + 1 /\ q[k + 1] = s[k + 1] /\ \A i \in 1..k : q[i] = o[i]
  OBVIOUS
<1> HIDE DEF q
<1>2. \A i \in 1..(k + 1) : i = k + 1 \/ i \in 1..k
  OBVIOUS
<1> QED
  BY <1>1, <1>2 DEF q

\* So many characters are left to skip.
Skips(o, n, m) == [out |-> o, code |-> n, skip |-> m]

LEMMA OneSkipped ==
  ASSUME NEW o, NEW n, NEW str, NEW j
  PROVE  /\ DecodeStep(str, Skips(o, n, 2), j) = Skips(o, n, 1)
         /\ DecodeStep(str, Skips(o, n, 1), j) = Skips(o, n, 0)
<1> DEFINE two == [out |-> o, code |-> n, skip |-> 2]
           one == [out |-> o, code |-> n, skip |-> 1]
<1>1. DecodeStep(str, two, j) = [two EXCEPT !.skip = two.skip - 1]
  BY DEF DecodeStep
<1>2. DecodeStep(str, one, j) = [one EXCEPT !.skip = one.skip - 1]
  BY DEF DecodeStep
<1>3. two.skip - 1 = 1 /\ one.skip - 1 = 0
  OBVIOUS
<1>4. \A x : [two EXCEPT !.skip = x] = [out |-> o, code |-> n, skip |-> x]
  OBVIOUS
<1>5. \A x : [one EXCEPT !.skip = x] = [out |-> o, code |-> n, skip |-> x]
  OBVIOUS
<1> QED
  BY <1>1, <1>2, <1>3, <1>4, <1>5 DEF Skips

LEMMA PieceRead ==
  ASSUME NEW Y, HasChars(Y), NEW str \in Seq(Y), NEW old \in 0..255,
         NEW v, AreDecoded(v, str, old, Y),
         NEW c \in Known, c \in Y, NEW s, NEW k \in Nat, s[k + 1] = c,
         NEW p \in 0..Len(str), HasRead(v[p], s, k), StandsAfter(str, p, Piece(c))
  PROVE  HasRead(v[p + Len(Piece(c))], s, k + 1)
<1> DEFINE a == v[p]
<1>1. \A j \in 0..Len(str) : v[j] \in DecodeState(Y)
  BY DEF AreDecoded
<1>2. ASSUME NEW j \in Nat, j + 1 <= Len(str)
      PROVE  v[j + 1] = DecodeStep(str, v[j], j + 1) /\ v[j + 1] \in DecodeState(Y)
  <2>1. j + 1 \in 1..Len(str) /\ (j + 1) - 1 = j /\ j + 1 \in 0..Len(str)
    BY <1>2
  <2>2. v[j + 1] = DecodeStep(str, v[(j + 1) - 1], j + 1)
    BY <2>1 DEF AreDecoded
  <2> QED
    BY <1>1, <2>1, <2>2
<1>3. /\ a \in DecodeState(Y) /\ a.out \in Seq(Y) /\ a.code \in 0..255
      /\ a.skip = 0 /\ Len(a.out) = k /\ \A i \in 1..k : a.out[i] = s[i]
  BY <1>1, SMTT(30) DEF DecodeState, HasRead
<1>4. /\ Len(Append(a.out, c)) = k + 1
      /\ \A i \in 1..(k + 1) : Append(a.out, c)[i] = s[i]
  <2> HIDE DEF a
  <2> QED
    BY <1>3, ReadOneMore
<1> HIDE DEF a
<1>5. CASE c \in AlphaNum
  <2>1. Len(Piece(c)) = 1 /\ Piece(c)[1] = c
    BY <1>5, Pieces
  <2>2. p + 1 <= Len(str) /\ str[p + 1] = c /\ p \in Nat
    BY <2>1 DEF StandsAfter
  <2>3. c # "+" /\ c # "%"
    BY <1>5, SignAssumption
  <2>4. v[p + 1] = DecodeStep(str, a, p + 1)
    BY <1>2, <2>2 DEF a
  <2>5. DecodeStep(str, a, p + 1) = [a EXCEPT !.out = Append(a.out, c)]
    BY <1>3, <2>2, <2>3 DEF DecodeStep
  <2>6. /\ [a EXCEPT !.out = Append(a.out, c)].out = Append(a.out, c)
        /\ [a EXCEPT !.out = Append(a.out, c)].skip = 0
    BY <1>3 DEF DecodeState
  <2>7. v[p + 1].skip = 0 /\ v[p + 1].out = Append(a.out, c)
    BY <2>4, <2>5, <2>6
  <2>8. HasRead(v[p + 1], s, k + 1)
    BY <1>4, <2>7 DEF HasRead
  <2> QED
    BY <2>1, <2>8
<1>6. CASE c \notin AlphaNum
  <2> DEFINE h == HexDigit[Code[c] \div 16]
             l == HexDigit[Code[c] % 16]
  <2>1. Len(Piece(c)) = 3 /\ Piece(c)[1] = "%" /\ Piece(c)[2] = h /\ Piece(c)[3] = l
    BY <1>6, Pieces
  <2>c. Scanned(h, l, a.code) = Code[c] /\ Code[c] \in 0..255 /\ Char[Code[c]] = c
    BY CodeScanned, CodeFacts
  <2> HIDE DEF h, l
  <2>2. p + 3 <= Len(str) /\ str[p + 1] = "%" /\ str[p + 2] = h /\ str[p + 3] = l /\ p \in Nat
    BY <2>1 DEF StandsAfter
  <2>3. p + 1 <= Len(str) /\ p + 2 <= Len(str) /\ p + 1 <= Len(str) - 2
    BY <2>2
  <2>4. /\ (p + 1) + 1 = p + 2 /\ (p + 1) + 2 = p + 3 /\ (p + 2) + 1 = p + 3
        /\ p + 1 \in Nat /\ p + 2 \in Nat
    BY <2>2
  <2> DEFINE left(m) == Skips(Append(a.out, c), Code[c], m)
  <2>r. /\ DecodeStep(str, left(2), p + 2) = left(1)
        /\ DecodeStep(str, left(1), p + 3) = left(0)
    BY OneSkipped
  <2>5. v[p + 1] = left(2)
    <3>1. v[p + 1] = DecodeStep(str, a, p + 1)
      BY <1>2, <2>2, <2>3 DEF a
    <3>2. DecodeStep(str, a, p + 1) =
            LET n == Scanned(str[(p + 1) + 1], str[(p + 1) + 2], a.code)
            IN  [out |-> Append(a.out, Char[n]), code |-> n, skip |-> 2]
      BY <1>3, <2>2, <2>3 DEF DecodeStep
    <3> QED
      BY <2>2, <2>4, <2>c, <3>1, <3>2 DEF Skips
  <2> HIDE DEF left
  <2>6. v[p + 2] = left(1)
    <3>1. v[p + 2] = DecodeStep(str, v[p + 1], p + 2)
      BY <1>2, <2>3, <2>4
    <3> QED
      BY <2>5, <2>r, <3>1
  <2>7. v[p + 3] = left(0)
    <3>1. v[p + 3] = DecodeStep(str, v[p + 2], p + 3)
      BY <1>2, <2>2, <2>4
    <3> QED
      BY <2>6, <2>r, <3>1
  <2> QED
    BY <1>4, <2>1, <2>7 DEF HasRead, left, Skips
<1> QED
  BY <1>5, <1>6

\* Decoding undoes encoding.
LEMMA Undone ==
  ASSUME NEW s \in Seq(Known), NEW old \in 0..255
  PROVE  /\ clax_http_url_decode(Encoded(s), old) = s
         /\ Encoded(s) \in Seq(EncChar) /\ Len(s) <= Len(Encoded(s))
<1> DEFINE n == Len(s)
           E == Encoded(s)
           Y == {Char[c] : c \in 0..255} \cup {" "} \cup EncChar \cup Known
<1>1. n \in Nat /\ \A i \in 1..n : s[i] \in Known
  OBVIOUS
<1>2. PICK w : AreEncoded(w, s, n) /\ E = w[n]
  BY EncodedValues
<1>3. /\ \A k \in 0..n : w[k] \in Seq(EncChar) /\ Len(w[k]) \in Nat /\ k <= Len(w[k])
      /\ \A k \in 1..n : IsJoin(w[k], w[k - 1], Piece(s[k]), EncChar)
      /\ \A k \in 0..n : Begun(w[k], E)
  <2> HIDE DEF n, E
  <2> QED
    BY <1>2, EncodedGrows DEF n
<1>4. E \in Seq(EncChar) /\ n <= Len(E)
  BY <1>1, <1>2, <1>3
<1>5. HasChars(Y) /\ E \in Seq(Y) /\ Known \subseteq Y /\ Len(E) \in Nat
  <2>1. EncChar \subseteq Y /\ Known \subseteq Y /\ HasChars(Y)
    BY ZenonT(40) DEF HasChars
  <2> HIDE DEF E, Y
  <2> QED
    BY <1>4, <2>1
<1> HIDE DEF E, Y
<1>6. PICK v : AreDecoded(v, E, old, Y) /\ clax_http_url_decode(E, old) = v[Len(E)].out
  BY <1>5, DecodeValues
<1> DEFINE S == {k \in 0..n : HasRead(v[Len(w[k])], s, k)}
<1>7. 0 \in S
  <2>1. Len(w[0]) = 0
    BY <1>2 DEF AreEncoded
  <2>2. HasRead(v[0], s, 0)
    BY <1>6 DEF AreDecoded, HasRead
  <2> QED
    BY <1>1, <2>1, <2>2
<1>8. ASSUME NEW k \in Nat, k < n, k \in S
      PROVE  k + 1 \in S
  <2> DEFINE c == s[k + 1]
             p == Len(w[k])
             u == w[k]
             x == w[k + 1]
             m == Piece(c)
  <2>1. k + 1 \in 1..n /\ (k + 1) - 1 = k /\ k + 1 \in 0..n /\ k \in 0..n
    BY <1>1, <1>8
  <2>2. c \in Known /\ c \in Y
    BY <1>1, <1>5, <2>1
  <2>3. p \in Nat /\ HasRead(v[p], s, k)
    BY <1>3, <1>8, <2>1
  <2>4. IsJoin(x, u, m, EncChar) /\ Begun(x, E) /\ Len(u) = p
    BY <1>3, <2>1
  <2>5. m \in Seq(EncChar) /\ Len(m) \in Nat
    BY <2>2, Pieces
  <2>6. StandsAfter(E, p, m) /\ p <= Len(E) /\ Len(x) = p + Len(m)
    <3> HIDE DEF x, u, m, p, n
    <3>1. Len(x) = p + Len(m) /\ Len(x) <= Len(E)
      BY <2>4 DEF IsJoin, Begun
    <3>2. ASSUME NEW i \in 1..Len(m)
          PROVE  E[p + i] = m[i]
      <4>1. x[p + i] = m[i]
        BY <2>4 DEF IsJoin
      <4>2. p + i \in 1..Len(x)
        BY <2>3, <2>5, <3>1
      <4> QED
        BY <2>4, <4>1, <4>2 DEF Begun
    <3>3. p <= Len(E)
      BY <1>5, <2>3, <2>5, <3>1
    <3> QED
      BY <3>1, <3>2, <3>3 DEF StandsAfter
  <2>7. p \in 0..Len(E)
    BY <1>5, <2>3, <2>6
  <2> HIDE DEF c, p, m
  <2>8. HasRead(v[p + Len(m)], s, k + 1)
    BY <1>5, <1>6, <2>2, <2>3, <2>6, <2>7, PieceRead DEF c, m
  <2> QED
    BY <2>1, <2>6, <2>8
<1>9. \A k \in 0..n : k \in S
  <2> HIDE DEF S, n
  <2> QED
    BY <1>1, <1>7, <1>8, UpTo
<1>10. HasRead(v[Len(E)], s, n)
  <2>1. n \in S
    BY <1>1, <1>9
  <2> QED
    BY <1>2, <2>1
<1>11. v[Len(E)].out = s
  <2>1. v[Len(E)].out \in Seq(Y)
    <3>1. Len(E) \in 0..Len(E)
      BY <1>5
    <3> QED
      BY <1>6, <3>1 DEF AreDecoded, DecodeState
  <2>2. s \in Seq(Y)
    BY <1>5, Wider
  <2> QED
    BY <1>10, <2>1, <2>2, SameSeq DEF HasRead
<1> QED
  BY <1>4, <1>6, <1>11 DEF E

\* What is known in the middle of a form, and what is done with the next character.
FormFields == [mode : {"key", "val"}, key : Nat, key_len : Nat, val : Nat, val_len : Nat]

Pairs(buf, old) ==
  {Item(Field(buf, x[1], x[2], old), Field(buf, x[3], x[4], old)) : x \in Nat \X Nat \X Nat \X Nat}

ScanState(buf, old) == [f : FormFields, params : Seq(Pairs(buf, old))]

Scanning(f, params) == [f |-> f, params |-> params]

ScanStep(buf, old, a, j) ==
  IF buf[j] = "&" THEN [f |-> KeyMode, params |-> a.params \o Pair(buf, a.f, old)]
  ELSE [a EXCEPT !.f = Scan(buf, @, j)]

LEMMA PairStays ==
  ASSUME NEW buf, NEW old, NEW f \in FormFields
  PROVE  Pair(buf, f, old) \in Seq(Pairs(buf, old))
<1> DEFINE x == <<f.key, f.key_len, f.val, f.val_len>>
           i == Item(Field(buf, x[1], x[2], old), Field(buf, x[3], x[4], old))
<1>1. x \in Nat \X Nat \X Nat \X Nat
  BY DEF FormFields
<1>2. i \in Pairs(buf, old)
  <2> HIDE DEF x
  <2> QED
    BY <1>1 DEF Pairs
<1>3. Pair(buf, f, old) = << >> \/ Pair(buf, f, old) = <<i>>
  BY DEF Pair
<1>4. << >> \in Seq(Pairs(buf, old)) /\ <<i>> \in Seq(Pairs(buf, old))
  <2>1. \A S, y : y \in S => << >> \in Seq(S) /\ <<y>> \in Seq(S)
    OBVIOUS
  <2> HIDE DEF i
  <2> QED
    BY <1>2, <2>1
<1> HIDE DEF i
<1> QED
  BY <1>3, <1>4, Zenon

LEMMA ScanStays ==
  ASSUME NEW buf, NEW old, NEW a \in ScanState(buf, old), NEW j \in Nat
  PROVE  ScanStep(buf, old, a, j) \in ScanState(buf, old)
<1> DEFINE P == Seq(Pairs(buf, old))
<1>1. a.f \in FormFields /\ a.params \in P
  BY DEF ScanState
<1>2. KeyMode \in FormFields
  BY DEF KeyMode, FormFields
<1>3. CASE buf[j] = "&"
  <2>1. ScanStep(buf, old, a, j) = [f |-> KeyMode, params |-> a.params \o Pair(buf, a.f, old)]
    BY <1>3 DEF ScanStep
  <2>2. Pair(buf, a.f, old) \in Seq(Pairs(buf, old))
    BY <1>1, PairStays
  <2>3. a.params \o Pair(buf, a.f, old) \in P
    BY <1>1, <2>2, JoinFacts
  <2> QED
    BY <1>2, <2>1, <2>3 DEF ScanState
<1>4. CASE buf[j] # "&"
  <2> DEFINE g == a.f
  <2>1. ScanStep(buf, old, a, j) = [a EXCEPT !.f = Scan(buf, g, j)]
    BY <1>4 DEF ScanStep
  <2>2. g \in FormFields
    BY <1>1
  <2> HIDE DEF g
  <2>3. Scan(buf, g, j) \in FormFields
    <3>1. CASE buf[j] = "="
      <4>1. Scan(buf, g, j) = [g EXCEPT !.mode = "val"]
        BY <3>1 DEF Scan
      <4> QED
        BY <2>2, <4>1 DEF FormFields
    <3>2. CASE buf[j] # "=" /\ g.mode = "key"
      <4>1. Scan(buf, g, j) =
              [g EXCEPT !.key = IF g.key = 0 THEN j ELSE g.key, !.key_len = g.key_len + 1]
        BY <3>2 DEF Scan
      <4> DEFINE place == IF g.key = 0 THEN j ELSE g.key
                 len == g.key_len + 1
      <4>2. place \in Nat /\ len \in Nat
        BY <2>2 DEF FormFields
      <4>3. Scan(buf, g, j) = [g EXCEPT !.key = place, !.key_len = len]
        BY <4>1
      <4> HIDE DEF place, len
      <4> QED
        BY <2>2, <4>2, <4>3 DEF FormFields
    <3>3. CASE buf[j] # "=" /\ g.mode # "key"
      <4>1. Scan(buf, g, j) =
              [g EXCEPT !.val = IF g.val = 0 THEN j ELSE g.val, !.val_len = g.val_len + 1]
        BY <3>3 DEF Scan
      <4> DEFINE place == IF g.val = 0 THEN j ELSE g.val
                 len == g.val_len + 1
      <4>2. place \in Nat /\ len \in Nat
        BY <2>2 DEF FormFields
      <4>3. Scan(buf, g, j) = [g EXCEPT !.val = place, !.val_len = len]
        BY <4>1
      <4> HIDE DEF place, len
      <4> QED
        BY <2>2, <4>2, <4>3 DEF FormFields
    <3> QED
      BY <3>1, <3>2, <3>3
  <2> QED
    BY <2>1, <2>3 DEF ScanState
<1> QED
  BY <1>3, <1>4

\* v has what is known after every character.
AreScanned(v, buf, old) ==
  /\ v \in [0..Len(buf) -> ScanState(buf, old)]
  /\ v[0] = Scanning(KeyMode, << >>)
  /\ \A k \in 1..Len(buf) : v[k] = ScanStep(buf, old, v[k - 1], k)

LEMMA ScanValues ==
  ASSUME NEW Y, NEW buf \in Seq(Y), NEW old
  PROVE  \E v : AreScanned(v, buf, old) /\ ScanAll(<< >>, buf, old) = v[Len(buf)]
<1> DEFINE n == Len(buf)
           D == ScanState(buf, old)
           base == [f |-> KeyMode, params |-> << >>]
           G == [x \in D \X (1..n) |-> ScanStep(buf, old, x[1], x[2])]
           ks == [j \in DOMAIN buf |-> j]
           IsIter(f) == f = [s \in SUBSET (DOMAIN ks) |->
                               IF s = {} THEN base
                               ELSE ScanStep(buf, old, f[s \ {Max(s)}], ks[Max(s)])]
           chosen == CHOOSE f : IsIter(f)
<1>1. n \in Nat
  OBVIOUS
<1>0. DOMAIN ks = 1..n /\ \A k \in 1..n : ks[k] = k
  OBVIOUS
<1>2. base \in D
  BY DEF ScanState, KeyMode, FormFields
<1>3. /\ G \in [D \X (1..n) -> D]
      /\ \A x \in D, k \in 1..n : G[<<x, k>>] = ScanStep(buf, old, x, k)
  <2>1. \A x \in D, k \in 1..n : ScanStep(buf, old, x, k) \in D
    BY ScanStays
  <2> HIDE DEF D, n
  <2> QED
    BY <2>1
<1>4. ScanAll(<< >>, buf, old) = chosen[DOMAIN ks]
  BY DEF ScanAll, FoldLeft, MapThenFoldSet, ScanStep
<1> HIDE DEF G, D, n, base, ks
<1>5. \A s \in SUBSET (1..n) : s # {} => Max(s) \in 1..n /\ s \ {Max(s)} \in SUBSET (1..n)
  BY <1>1, MaxIsLast
<1>g. \A x \in D, s \in SUBSET (1..n) :
        s # {} => G[<<x, Max(s)>>] = ScanStep(buf, old, x, ks[Max(s)])
  <2> TAKE x \in D, s \in SUBSET (1..n)
  <2> HAVE s # {}
  <2>1. Max(s) \in 1..n
    BY <1>5
  <2>2. ks[Max(s)] = Max(s)
    BY <1>0, <2>1
  <2>3. G[<<x, Max(s)>>] = ScanStep(buf, old, x, Max(s))
    BY <1>3, <2>1
  <2> QED
    BY <2>2, <2>3
<1>6. IsIter(chosen)
  <2>1. PICK g : IsFold(g, n, D, base, G)
    BY <1>1, <1>2, <1>3, FoldExists
  <2>2. \A s \in SUBSET (1..n) :
          g[s] = IF s = {} THEN base ELSE ScanStep(buf, old, g[s \ {Max(s)}], ks[Max(s)])
    <3>1. \A s \in SUBSET (1..n) : g[s] \in D
      BY <2>1 DEF IsFold
    <3>2. ASSUME NEW s \in SUBSET (1..n), s # {}
          PROVE  g[s] = ScanStep(buf, old, g[s \ {Max(s)}], ks[Max(s)])
      <4>1. g[s] = G[<<g[s \ {Max(s)}], Max(s)>>]
        BY <2>1, <3>2 DEF IsFold
      <4>2. g[s \ {Max(s)}] \in D
        BY <1>5, <3>1, <3>2
      <4> QED
        BY <1>g, <3>2, <4>1, <4>2
    <3>3. g[{}] = base
      BY <2>1 DEF IsFold
    <3> QED
      BY <3>2, <3>3
  <2>3. g = [s \in SUBSET (1..n) |-> g[s]]
    BY <2>1 DEF IsFold
  <2>4. IsIter(g)
    BY <1>0, <2>2, <2>3, Zenon
  <2> QED
    BY <2>4
<1>f. PICK f : IsIter(f) /\ ScanAll(<< >>, buf, old) = f[1..n]
  BY <1>0, <1>4, <1>6
<1>7. Follows(f, n, D, base, G)
  <2>1. f[{}] = base
    BY <1>f
  <2>2. ASSUME NEW s \in SUBSET (1..n), s # {}, f[s \ {Max(s)}] \in D
        PROVE  f[s] = G[<<f[s \ {Max(s)}], Max(s)>>]
    <3>1. f[s] = ScanStep(buf, old, f[s \ {Max(s)}], ks[Max(s)])
      BY <1>0, <1>f, <2>2
    <3> QED
      BY <1>g, <2>2, <3>1
  <2> QED
    BY <2>1, <2>2 DEF Follows
<1>8. PICK v : IsValues(v, n, D, base, G) /\ v[n] = f[1..n]
  <2>1. HasValues(f, n, D, base, G)
    BY <1>1, <1>2, <1>3, <1>7, FoldValues
  <2> QED
    BY <2>1 DEF HasValues
<1>9. v \in [0..n -> D] /\ v[0] = base /\ \A k \in 1..n : v[k] = ScanStep(buf, old, v[k - 1], k)
  <2>1. \A k \in 1..n : k - 1 \in 0..n
    BY <1>1
  <2> QED
    BY <1>3, <1>8, <2>1 DEF IsValues
<1> QED
  BY <1>f, <1>8, <1>9 DEF D, n, base, AreScanned, Scanning

\* A pair stands in buf after place o: key, equals sign, value.
PairStands(buf, o, key, val) ==
  /\ StandsAfter(buf, o, key)
  /\ o + Len(key) + 1 <= Len(buf) /\ buf[o + Len(key) + 1] = "="
  /\ StandsAfter(buf, o + Len(key) + 1, val)

\* What is known after m characters of its key, and of its value.
KeyAt(o, m) ==
  [mode |-> "key", key |-> IF m = 0 THEN 0 ELSE o + 1, key_len |-> m, val |-> 0, val_len |-> 0]

ValAt(o, l, m) ==
  [mode |-> "val", key |-> IF l = 0 THEN 0 ELSE o + 1, key_len |-> l,
   val |-> IF m = 0 THEN 0 ELSE o + l + 2, val_len |-> m]

KeySet(f, x, y) == [f EXCEPT !.key = x, !.key_len = y]
ValSet(f, x, y) == [f EXCEPT !.val = x, !.val_len = y]
FieldsAre(m, k, kl, v, vl) ==
  [mode |-> m, key |-> k, key_len |-> kl, val |-> v, val_len |-> vl]

LEMMA FieldsSet ==
  ASSUME NEW f \in FormFields, NEW x \in Nat, NEW y \in Nat
  PROVE  /\ KeySet(f, x, y) = FieldsAre(f.mode, x, y, f.val, f.val_len)
         /\ ValSet(f, x, y) = FieldsAre(f.mode, f.key, f.key_len, x, y)
<1>1. \A h \in FormFields : h = [mode |-> h.mode, key |-> h.key, key_len |-> h.key_len,
                                 val |-> h.val, val_len |-> h.val_len]
  BY DEF FormFields
<1>2. \A h : h = [f EXCEPT !.key = x, !.key_len = y] =>
        h \in FormFields /\ h.mode = f.mode /\ h.key = x /\ h.key_len = y
          /\ h.val = f.val /\ h.val_len = f.val_len
  BY DEF FormFields
<1>3. \A h : h = [f EXCEPT !.val = x, !.val_len = y] =>
        h \in FormFields /\ h.mode = f.mode /\ h.key = f.key /\ h.key_len = f.key_len
          /\ h.val = x /\ h.val_len = y
  BY DEF FormFields
<1> DEFINE k == [f EXCEPT !.key = x, !.key_len = y]
           v == [f EXCEPT !.val = x, !.val_len = y]
<1>4. /\ k \in FormFields /\ k.mode = f.mode /\ k.key = x /\ k.key_len = y
      /\ k.val = f.val /\ k.val_len = f.val_len
  <2>1. \E h : h = k
    OBVIOUS
  <2> HIDE DEF k
  <2> QED
    BY <1>2, <2>1 DEF k
<1>5. /\ v \in FormFields /\ v.mode = f.mode /\ v.key = f.key /\ v.key_len = f.key_len
      /\ v.val = x /\ v.val_len = y
  BY <1>3
<1> HIDE DEF k, v
<1>6. /\ k = [mode |-> k.mode, key |-> k.key, key_len |-> k.key_len,
              val |-> k.val, val_len |-> k.val_len]
      /\ v = [mode |-> v.mode, key |-> v.key, key_len |-> v.key_len,
              val |-> v.val, val_len |-> v.val_len]
  BY <1>1, <1>4, <1>5
<1>7. /\ k = [mode |-> f.mode, key |-> x, key_len |-> y, val |-> f.val, val_len |-> f.val_len]
      /\ v = [mode |-> f.mode, key |-> f.key, key_len |-> f.key_len, val |-> x, val_len |-> y]
  BY <1>4, <1>5, <1>6
<1> QED
  BY <1>7 DEF k, v, KeySet, ValSet, FieldsAre

LEMMA ScanOne ==
  ASSUME NEW buf, NEW o \in Nat, NEW l \in Nat, NEW m \in Nat
  PROVE  /\ KeyAt(o, 0) = KeyMode
         /\ buf[o + m + 1] # "=" => Scan(buf, KeyAt(o, m), o + m + 1) = KeyAt(o, m + 1)
         /\ \A j : buf[j] = "=" => Scan(buf, KeyAt(o, l), j) = ValAt(o, l, 0)
         /\ buf[o + l + 1 + m + 1] # "=" =>
              Scan(buf, ValAt(o, l, m), o + l + 1 + m + 1) = ValAt(o, l, m + 1)
<1>1. KeyAt(o, 0) = KeyMode
  BY DEF KeyAt, KeyMode
<1>2. ASSUME buf[o + m + 1] # "="
      PROVE  Scan(buf, KeyAt(o, m), o + m + 1) = KeyAt(o, m + 1)
  <2> DEFINE f == KeyAt(o, m)
             j == o + m + 1
             place == IF f.key = 0 THEN j ELSE f.key
             len == f.key_len + 1
  <2>1. f.mode = "key" /\ f.key = (IF m = 0 THEN 0 ELSE o + 1) /\ f.key_len = m
    BY DEF KeyAt
  <2>2. place = o + 1 /\ len = m + 1 /\ m + 1 # 0
    <3>1. CASE m = 0
      BY <2>1, <3>1
    <3>2. CASE m # 0
      BY <2>1, <3>2
    <3> QED
      BY <3>1, <3>2
  <2>3. Scan(buf, f, j) = [f EXCEPT !.key = place, !.key_len = len]
    <3> HIDE DEF f, j
    <3> QED
      BY <1>2, <2>1 DEF Scan, j
  <2> HIDE DEF place, len, j
  <2>4. [f EXCEPT !.key = place, !.key_len = len] =
          [mode |-> "key", key |-> place, key_len |-> len, val |-> 0, val_len |-> 0]
    <3>1. /\ f \in FormFields /\ place \in Nat /\ len \in Nat
          /\ f.mode = "key" /\ f.val = 0 /\ f.val_len = 0
      BY <2>2 DEF KeyAt, FormFields
    <3> HIDE DEF f
    <3>2. KeySet(f, place, len) = FieldsAre(f.mode, place, len, f.val, f.val_len)
      BY <3>1, FieldsSet
    <3> QED
      BY <3>1, <3>2 DEF KeySet, FieldsAre
  <2> QED
    BY <2>2, <2>3, <2>4 DEF KeyAt, j
<1>3. ASSUME NEW j, buf[j] = "="
      PROVE  Scan(buf, KeyAt(o, l), j) = ValAt(o, l, 0)
  <2>1. Scan(buf, KeyAt(o, l), j) = [KeyAt(o, l) EXCEPT !.mode = "val"]
    BY <1>3 DEF Scan
  <2> QED
    BY <2>1 DEF KeyAt, ValAt
<1>4. ASSUME buf[o + l + 1 + m + 1] # "="
      PROVE  Scan(buf, ValAt(o, l, m), o + l + 1 + m + 1) = ValAt(o, l, m + 1)
  <2> DEFINE f == ValAt(o, l, m)
             j == o + l + 1 + m + 1
             place == IF f.val = 0 THEN j ELSE f.val
             len == f.val_len + 1
             first == IF l = 0 THEN 0 ELSE o + 1
  <2>1. f.mode = "val" /\ f.val = (IF m = 0 THEN 0 ELSE o + l + 2) /\ f.val_len = m
    BY DEF ValAt
  <2>2. place = o + l + 2 /\ len = m + 1 /\ m + 1 # 0
    <3>1. CASE m = 0
      BY <2>1, <3>1
    <3>2. CASE m # 0
      BY <2>1, <3>2
    <3> QED
      BY <3>1, <3>2
  <2>3. Scan(buf, f, j) = [f EXCEPT !.val = place, !.val_len = len]
    <3> HIDE DEF f, j
    <3> QED
      BY <1>4, <2>1 DEF Scan, j
  <2> HIDE DEF place, len, j, first
  <2>4. [f EXCEPT !.val = place, !.val_len = len] =
          [mode |-> "val", key |-> first, key_len |-> l, val |-> place, val_len |-> len]
    <3>1. /\ f \in FormFields /\ place \in Nat /\ len \in Nat
          /\ f.mode = "val" /\ f.key = first /\ f.key_len = l
      BY <2>2 DEF ValAt, FormFields, first
    <3> HIDE DEF f
    <3>2. ValSet(f, place, len) = FieldsAre(f.mode, f.key, f.key_len, place, len)
      BY <3>1, FieldsSet
    <3> QED
      BY <3>1, <3>2 DEF ValSet, FieldsAre
  <2> QED
    BY <2>2, <2>3, <2>4 DEF ValAt, j, first
<1> QED
  BY <1>1, <1>2, <1>3, <1>4

\* The characters of a form.
FormChar == EncChar \cup {"=", "&"}

GoesOn(v, buf, old, p, f, params) ==
  v[p + 1] = IF buf[p + 1] = "&" THEN Scanning(KeyMode, params \o Pair(buf, f, old))
             ELSE Scanning(Scan(buf, f, p + 1), params)

LEMMA ScanNext ==
  ASSUME NEW buf \in Seq(FormChar), NEW old, NEW v, AreScanned(v, buf, old),
         NEW p \in Nat, p + 1 <= Len(buf), NEW f, NEW params, v[p] = Scanning(f, params)
  PROVE  GoesOn(v, buf, old, p, f, params)
<1>1. p + 1 \in 1..Len(buf) /\ (p + 1) - 1 = p
  OBVIOUS
<1>2. v[p + 1] = ScanStep(buf, old, v[(p + 1) - 1], p + 1)
  BY <1>1 DEF AreScanned
<1>3. v[p + 1] = ScanStep(buf, old, Scanning(f, params), p + 1)
  BY <1>1, <1>2
<1>4. /\ Scanning(f, params).f = f /\ Scanning(f, params).params = params
      /\ \A g : [Scanning(f, params) EXCEPT !.f = g] = Scanning(g, params)
  BY DEF Scanning
<1>5. ASSUME buf[p + 1] # "&"
      PROVE  v[p + 1] = Scanning(Scan(buf, f, p + 1), params)
  <2>1. v[p + 1] = [Scanning(f, params) EXCEPT !.f = Scan(buf, Scanning(f, params).f, p + 1)]
    BY <1>3, <1>5 DEF ScanStep
  <2> QED
    BY <1>4, <2>1
<1>6. ASSUME buf[p + 1] = "&"
      PROVE  v[p + 1] = Scanning(KeyMode, params \o Pair(buf, f, old))
  <2>1. v[p + 1] = [f |-> KeyMode, params |-> Scanning(f, params).params
                                                  \o Pair(buf, Scanning(f, params).f, old)]
    BY <1>3, <1>6 DEF ScanStep
  <2> QED
    BY <1>4, <2>1 DEF Scanning
<1> QED
  BY <1>5, <1>6 DEF GoesOn

\* The signs of a form are none of the characters of an encoding.
LEMMA NoSign ==
  ASSUME NEW c \in EncChar
  PROVE  c # "=" /\ c # "&"
  BY SignAssumption DEF EncChar

\* When a pair was read to its end, its places and lengths are known.
LEMMA PairScanned ==
  ASSUME NEW buf \in Seq(FormChar), NEW old, NEW v, AreScanned(v, buf, old),
         NEW o \in Nat, NEW A \in Seq(EncChar), NEW B \in Seq(EncChar), PairStands(buf, o, A, B),
         NEW params, v[o] = Scanning(KeyMode, params)
  PROVE  v[o + Len(A) + 1 + Len(B)] = Scanning(ValAt(o, Len(A), Len(B)), params)
<1> DEFINE l == Len(A)
           n == Len(B)
           q == o + l + 1
           S == {m \in 0..l : v[o + m] = Scanning(KeyAt(o, m), params)}
           T == {m \in 0..n : v[q + m] = Scanning(ValAt(o, l, m), params)}
<1>1. l \in Nat /\ n \in Nat /\ Len(buf) \in Nat
  OBVIOUS
<1>2. /\ o + l <= Len(buf) /\ \A i \in 1..l : buf[o + i] = A[i]
      /\ q <= Len(buf) /\ buf[q] = "="
      /\ q + n <= Len(buf) /\ \A i \in 1..n : buf[q + i] = B[i]
  BY DEF PairStands, StandsAfter
<1>3. /\ \A i \in 1..l : buf[o + i] # "=" /\ buf[o + i] # "&"
      /\ \A i \in 1..n : buf[q + i] # "=" /\ buf[q + i] # "&"
  <2>1. (\A i \in 1..l : A[i] \in EncChar) /\ (\A i \in 1..n : B[i] \in EncChar)
    OBVIOUS
  <2> HIDE DEF l, n, q
  <2> QED
    BY <1>2, <2>1, NoSign
<1> HIDE DEF l, n
<1>4. 0 \in S
  <2>1. o + 0 = o /\ 0 \in 0..l /\ KeyAt(o, 0) = KeyMode
    BY <1>1, ScanOne
  <2> QED
    BY <2>1
<1>5. ASSUME NEW m \in Nat, m < l, m \in S
      PROVE  m + 1 \in S
  <2> DEFINE p == o + m
  <2>1. /\ p \in Nat /\ p + 1 <= Len(buf) /\ m + 1 \in 1..l /\ m + 1 \in 0..l
        /\ p + 1 = o + (m + 1) /\ p + 1 = o + m + 1
    BY <1>1, <1>2, <1>5
  <2>2. v[p] = Scanning(KeyAt(o, m), params)
    BY <1>5
  <2>3. buf[p + 1] # "=" /\ buf[p + 1] # "&"
    BY <1>3, <2>1
  <2>4. Scan(buf, KeyAt(o, m), p + 1) = KeyAt(o, m + 1)
    BY <1>5, <2>1, <2>3, ScanOne
  <2> HIDE DEF p
  <2> DEFINE g == KeyAt(o, m)
  <2>5. v[p + 1] = Scanning(Scan(buf, g, p + 1), params)
    <3> HIDE DEF g
    <3>1. GoesOn(v, buf, old, p, g, params)
      BY <2>1, <2>2, ScanNext DEF g
    <3> QED
      BY <2>3, <3>1 DEF GoesOn
  <2> QED
    BY <2>1, <2>4, <2>5
<1>6. v[o + l] = Scanning(KeyAt(o, l), params)
  <2> HIDE DEF S
  <2>1. \A m \in 0..l : m \in S
    BY <1>1, <1>4, <1>5, UpTo
  <2>2. l \in S
    BY <1>1, <2>1
  <2> QED
    BY <2>2 DEF S
<1>7. v[q] = Scanning(ValAt(o, l, 0), params)
  <2> DEFINE p == o + l
  <2>1. p \in Nat /\ p + 1 <= Len(buf) /\ q = p + 1 /\ buf[p + 1] = "=" /\ buf[p + 1] # "&"
    BY <1>1, <1>2
  <2>2. Scan(buf, KeyAt(o, l), p + 1) = ValAt(o, l, 0)
    BY <1>1, <2>1, ScanOne
  <2>3. v[p] = Scanning(KeyAt(o, l), params)
    BY <1>6
  <2> HIDE DEF p, q
  <2> DEFINE g == KeyAt(o, l)
  <2>4. v[p + 1] = Scanning(Scan(buf, g, p + 1), params)
    <3> HIDE DEF g
    <3>1. GoesOn(v, buf, old, p, g, params)
      BY <2>1, <2>3, ScanNext DEF g
    <3> QED
      BY <2>1, <3>1 DEF GoesOn
  <2> QED
    BY <2>1, <2>2, <2>4
<1>8. 0 \in T
  <2>1. q + 0 = q /\ 0 \in 0..n
    BY <1>1
  <2> QED
    BY <1>7, <2>1
<1>9. ASSUME NEW m \in Nat, m < n, m \in T
      PROVE  m + 1 \in T
  <2> DEFINE p == q + m
  <2>1. /\ p \in Nat /\ p + 1 <= Len(buf) /\ m + 1 \in 1..n /\ m + 1 \in 0..n
        /\ p + 1 = q + (m + 1) /\ p + 1 = o + l + 1 + m + 1
    BY <1>1, <1>2, <1>9
  <2>2. v[p] = Scanning(ValAt(o, l, m), params)
    BY <1>9
  <2>3. buf[p + 1] # "=" /\ buf[p + 1] # "&"
    BY <1>3, <2>1
  <2>4. Scan(buf, ValAt(o, l, m), p + 1) = ValAt(o, l, m + 1)
    BY <1>1, <1>9, <2>1, <2>3, ScanOne
  <2> HIDE DEF p
  <2> DEFINE g == ValAt(o, l, m)
  <2>5. v[p + 1] = Scanning(Scan(buf, g, p + 1), params)
    <3> HIDE DEF g
    <3>1. GoesOn(v, buf, old, p, g, params)
      BY <2>1, <2>2, ScanNext DEF g
    <3> QED
      BY <2>3, <3>1 DEF GoesOn
  <2> QED
    BY <2>1, <2>4, <2>5
<1>10. v[q + n] = Scanning(ValAt(o, l, n), params)
  <2> HIDE DEF T
  <2>1. \A m \in 0..n : m \in T
    BY <1>1, <1>8, <1>9, UpTo
  <2>2. n \in T
    BY <1>1, <2>1
  <2> QED
    BY <2>2 DEF T
<1> QED
  BY <1>10 DEF l, n

\* The place of a field of n characters after place p: none if it is empty.
IsPlace(from, n, p) == from = IF n = 0 THEN 0 ELSE p + 1

\* What is written in a field is read from it.
LEMMA FieldRead ==
  ASSUME NEW buf \in Seq(FormChar), NEW old \in 0..255, NEW p \in Nat,
         NEW s \in Seq(Known \ {"NUL"}), StandsAfter(buf, p, Encoded(s)),
         NEW from, IsPlace(from, Len(Encoded(s)), p)
  PROVE  Field(buf, from, Len(Encoded(s)), old) = s
<1> DEFINE E == Encoded(s)
           n == Len(E)
           part == IF from = 0 THEN << >> ELSE SubSeq(buf, from, from + n - 1)
<1>1. s \in Seq(Known)
  OBVIOUS
<1>2. clax_http_url_decode(E, old) = s /\ E \in Seq(EncChar) /\ n \in Nat
  <2>1. clax_http_url_decode(E, old) = s /\ E \in Seq(EncChar)
    BY <1>1, Undone, Zenon
  <2> HIDE DEF E
  <2> QED
    BY <2>1
<1>3. CStr(s) = s
  <2>1. \A i \in 1..Len(s) : s[i] # "NUL"
    OBVIOUS
  <2> QED
    BY <1>1, <2>1, CStrFacts
<1>4. p + n <= Len(buf) /\ \A i \in 1..n : buf[p + i] = E[i]
  BY DEF StandsAfter
<1>5. Field(buf, from, n, old) = CStr(clax_http_url_decode(part, old))
  BY DEF Field
<1> HIDE DEF E, n
<1>6. part = E
  <2>1. CASE n = 0
    BY <1>2, <2>1 DEF n, E, IsPlace
  <2>2. CASE n # 0
    <3>1. from = p + 1 /\ from # 0 /\ from + n - 1 = p + n
      BY <1>2, <2>2 DEF n, E, IsPlace
    <3>2. part = SubSeq(buf, p + 1, p + n)
      BY <3>1
    <3> DEFINE c == SubSeq(buf, p + 1, p + n)
    <3>3. /\ p + 1 \in Nat /\ p + n \in Nat /\ 1 <= p + 1 /\ p + 1 <= (p + n) + 1
          /\ ((p + n) + 1) - (p + 1) = n /\ (p + 1) - 1 = p
      BY <1>2
    <3>4. IsSlice(c, buf, p + 1, p + n, FormChar)
      BY <1>4, <3>3, Slice
    <3> HIDE DEF c
    <3>5. c \in Seq(FormChar) /\ Len(c) = n /\ \A i \in 1..n : c[i] = E[i]
      BY <1>4, <3>3, <3>4 DEF IsSlice
    <3>6. E \in Seq(FormChar) /\ Len(E) = n
      BY <1>2, Wider DEF FormChar, n
    <3>7. c = E
      BY <1>2, <3>5, <3>6, SameSeq
    <3> QED
      BY <3>2, <3>7 DEF c
  <2> QED
    BY <2>1, <2>2
<1> QED
  BY <1>2, <1>3, <1>5, <1>6 DEF n, E

LEMMA PairRead ==
  ASSUME NEW buf \in Seq(FormChar), NEW old \in 0..255, NEW o \in Nat,
         NEW a \in Seq(Known \ {"NUL"}), NEW b \in Seq(Known \ {"NUL"}),
         PairStands(buf, o, Encoded(a), Encoded(b)), a # << >> \/ b # << >>
  PROVE  Pair(buf, ValAt(o, Len(Encoded(a)), Len(Encoded(b))), old) = <<Item(a, b)>>
<1> DEFINE l == Len(Encoded(a))
           m == Len(Encoded(b))
           f == ValAt(o, l, m)
<1>1. /\ l \in Nat /\ Len(a) \in Nat /\ Len(a) <= l
      /\ m \in Nat /\ Len(b) \in Nat /\ Len(b) <= m
  <2>1. a \in Seq(Known) /\ b \in Seq(Known)
    OBVIOUS
  <2>2. Encoded(a) \in Seq(EncChar) /\ Len(a) <= l
    BY <2>1, Undone
  <2>3. Encoded(b) \in Seq(EncChar) /\ Len(b) <= m
    BY <2>1, Undone
  <2> QED
    BY <2>1, <2>2, <2>3
<1>2. StandsAfter(buf, o, Encoded(a)) /\ StandsAfter(buf, o + l + 1, Encoded(b))
  BY DEF PairStands
<1>3. Field(buf, IF l = 0 THEN 0 ELSE o + 1, l, old) = a
  <2> DEFINE from == IF l = 0 THEN 0 ELSE o + 1
  <2>1. IsPlace(from, Len(Encoded(a)), o)
    BY DEF IsPlace
  <2> HIDE DEF from
  <2>2. Field(buf, from, l, old) = a
    BY <1>2, <2>1, FieldRead
  <2> QED
    BY <2>2 DEF from
<1>4. Field(buf, IF m = 0 THEN 0 ELSE o + l + 2, m, old) = b
  <2> DEFINE p == o + l + 1
  <2>1. p \in Nat /\ o + l + 2 = p + 1
    BY <1>1
  <2> HIDE DEF p
  <2>2. StandsAfter(buf, p, Encoded(b))
    BY <1>2 DEF p
  <2> DEFINE from == IF m = 0 THEN 0 ELSE p + 1
  <2>3. IsPlace(from, Len(Encoded(b)), p)
    BY DEF IsPlace
  <2> HIDE DEF from
  <2>4. Field(buf, from, m, old) = b
    BY <2>1, <2>2, <2>3, FieldRead
  <2> QED
    BY <2>1, <2>4 DEF from
<1>5. ~(l = 0 /\ m = 0)
  <2>1. Len(a) # 0 \/ Len(b) # 0
    OBVIOUS
  <2> QED
    BY <1>1, <2>1
<1> HIDE DEF l, m
<1>6. /\ f.key = (IF l = 0 THEN 0 ELSE o + 1) /\ f.key_len = l
      /\ f.val = (IF m = 0 THEN 0 ELSE o + l + 2) /\ f.val_len = m
  BY DEF ValAt
<1> HIDE DEF f
<1>7. Pair(buf, f, old) = <<Item(Field(buf, f.key, f.key_len, old), Field(buf, f.val, f.val_len, old))>>
  BY <1>5, <1>6 DEF Pair
<1>8. Pair(buf, f, old) = <<Item(a, b)>>
  BY <1>3, <1>4, <1>6, <1>7
<1> QED
  BY <1>8 DEF f, l, m

\* Where the two pairs of a form stand.
FormOf(A, B) == A \o <<"=">> \o B \o <<"&">> \o B \o <<"=">> \o A

FormStands(buf, A, B) ==
  LET h == Len(A) + 1 + Len(B)
  IN  /\ buf \in Seq(FormChar) /\ Len(buf) = h + 1 + h
      /\ PairStands(buf, 0, A, B) /\ buf[h + 1] = "&" /\ PairStands(buf, h + 1, B, A)

LEMMA FormPlaces ==
  ASSUME NEW A \in Seq(EncChar), NEW B \in Seq(EncChar)
  PROVE  FormStands(FormOf(A, B), A, B)
<1> DEFINE l == Len(A)
           m == Len(B)
           f1 == A \o <<"=">>
           f2 == f1 \o B
           f3 == f2 \o <<"&">>
           f4 == f3 \o B
           f5 == f4 \o <<"=">>
           f6 == f5 \o A
<1>1. FormOf(A, B) = f6
  BY DEF FormOf
<1>2. l \in Nat /\ m \in Nat
  OBVIOUS
<1>3. A \in Seq(FormChar) /\ B \in Seq(FormChar) /\ "=" \in FormChar /\ "&" \in FormChar
  BY Wider DEF FormChar
<1>4. f1 \in Seq(FormChar) /\ Len(f1) = l + 1 /\ f1[l + 1] = "=" /\ \A i \in 1..l : f1[i] = A[i]
  <2>1. IsGrown(f1, A, "=", FormChar)
    BY <1>3, OneMore
  <2> QED
    BY <2>1 DEF IsGrown
<1> HIDE DEF f1
<1>5. /\ f2 \in Seq(FormChar) /\ Len(f2) = l + 1 + m
      /\ \A i \in 1..m : f2[(l + 1) + i] = B[i]
      /\ \A i \in 1..(l + 1) : f2[i] = f1[i]
  <2>1. IsJoin(f2, f1, B, FormChar)
    BY <1>3, <1>4, Join
  <2> QED
    BY <1>4, <2>1 DEF IsJoin
<1> HIDE DEF f2
<1>6. /\ f3 \in Seq(FormChar) /\ Len(f3) = l + m + 2 /\ f3[l + m + 2] = "&"
      /\ \A i \in 1..(l + m + 1) : f3[i] = f2[i]
  <2>1. IsGrown(f3, f2, "&", FormChar)
    BY <1>3, <1>5, OneMore
  <2>2. Len(f2) + 1 = l + m + 2 /\ Len(f2) = l + m + 1
    BY <1>2, <1>5
  <2> QED
    BY <2>1, <2>2 DEF IsGrown
<1> HIDE DEF f3
<1>7. /\ f4 \in Seq(FormChar) /\ Len(f4) = l + m + 2 + m
      /\ \A i \in 1..m : f4[(l + m + 2) + i] = B[i]
      /\ \A i \in 1..(l + m + 2) : f4[i] = f3[i]
  <2>1. IsJoin(f4, f3, B, FormChar)
    BY <1>3, <1>6, Join
  <2> QED
    BY <1>6, <2>1 DEF IsJoin
<1> HIDE DEF f4
<1>8. /\ f5 \in Seq(FormChar) /\ Len(f5) = l + m + m + 3 /\ f5[l + m + m + 3] = "="
      /\ \A i \in 1..(l + m + 2 + m) : f5[i] = f4[i]
  <2>1. IsGrown(f5, f4, "=", FormChar)
    BY <1>3, <1>7, OneMore
  <2>2. Len(f4) + 1 = l + m + m + 3
    BY <1>2, <1>7
  <2> QED
    BY <1>7, <2>1, <2>2 DEF IsGrown
<1> HIDE DEF f5
<1>9. /\ f6 \in Seq(FormChar) /\ Len(f6) = l + m + m + 3 + l
      /\ \A i \in 1..l : f6[(l + m + m + 3) + i] = A[i]
      /\ \A i \in 1..(l + m + m + 3) : f6[i] = f5[i]
  <2>1. IsJoin(f6, f5, A, FormChar)
    BY <1>3, <1>8, Join
  <2> QED
    BY <1>8, <2>1 DEF IsJoin
<1> DEFINE F == f6
<1> HIDE DEF f6, l, m
<1>10. /\ \A i \in 1..(l + m + 2 + m) : F[i] = f4[i]
       /\ \A i \in 1..(l + m + 2) : F[i] = f3[i]
       /\ \A i \in 1..(l + m + 1) : F[i] = f2[i]
       /\ \A i \in 1..(l + 1) : F[i] = f1[i]
  <2>1. \A i \in 1..(l + m + 2 + m) : i \in 1..(l + m + m + 3)
    BY <1>2
  <2>2. \A i \in 1..(l + m + 2) : i \in 1..(l + m + 2 + m)
    BY <1>2
  <2>3. \A i \in 1..(l + m + 1) : i \in 1..(l + m + 2)
    BY <1>2
  <2>4. \A i \in 1..(l + 1) : i \in 1..(l + m + 1)
    BY <1>2
  <2>5. \A i \in 1..(l + m + 2 + m) : F[i] = f4[i]
    BY <1>8, <1>9, <2>1
  <2>6. \A i \in 1..(l + m + 2) : F[i] = f3[i]
    BY <1>7, <2>2, <2>5
  <2>7. \A i \in 1..(l + m + 1) : F[i] = f2[i]
    BY <1>6, <2>3, <2>6
  <2>8. \A i \in 1..(l + 1) : F[i] = f1[i]
    BY <1>5, <2>4, <2>7
  <2> QED
    BY <2>5, <2>6, <2>7, <2>8
<1>11. PairStands(F, 0, A, B)
  <2>1. 0 + l <= Len(F) /\ \A i \in 1..l : F[0 + i] = A[i]
    <3>1. \A i \in 1..l : i \in 1..(l + 1) /\ 0 + i = i
      BY <1>2
    <3> QED
      BY <1>2, <1>4, <1>9, <1>10, <3>1
  <2>2. 0 + l + 1 <= Len(F) /\ F[0 + l + 1] = "="
    <3>1. l + 1 \in 1..(l + 1) /\ 0 + l + 1 = l + 1
      BY <1>2
    <3>2. F[l + 1] = "="
      BY <1>4, <1>10, <3>1
    <3> QED
      BY <1>2, <1>9, <3>1, <3>2
  <2>3. 0 + l + 1 + m <= Len(F) /\ \A i \in 1..m : F[0 + l + 1 + i] = B[i]
    <3>1. \A i \in 1..m : (l + 1) + i \in 1..(l + m + 1) /\ 0 + l + 1 + i = (l + 1) + i
      BY <1>2
    <3>2. \A i \in 1..m : F[(l + 1) + i] = B[i]
      BY <1>5, <1>10, <3>1
    <3> QED
      BY <1>2, <1>9, <3>1, <3>2
  <2> QED
    BY <2>1, <2>2, <2>3 DEF PairStands, StandsAfter, l, m
<1>12. F[l + 1 + m + 1] = "&"
  <2>1. l + 1 + m + 1 = l + m + 2 /\ l + m + 2 \in 1..(l + m + 2)
    BY <1>2
  <2> QED
    BY <1>6, <1>10, <2>1
<1>13. PairStands(F, l + 1 + m + 1, B, A)
  <2> DEFINE o == l + m + 2
  <2>1. o + m <= Len(F) /\ \A i \in 1..m : F[o + i] = B[i]
    <3>1. \A i \in 1..m : o + i \in 1..(l + m + 2 + m)
      BY <1>2
    <3>2. \A i \in 1..m : F[o + i] = B[i]
      BY <1>7, <1>10, <3>1
    <3> QED
      BY <1>2, <1>9, <3>2
  <2>2. o + m + 1 <= Len(F) /\ F[o + m + 1] = "="
    <3>1. o + m + 1 = l + m + m + 3 /\ l + m + m + 3 \in 1..(l + m + m + 3)
      BY <1>2
    <3>2. F[l + m + m + 3] = "="
      BY <1>8, <1>9, <3>1
    <3> QED
      BY <1>2, <1>9, <3>1, <3>2
  <2>3. o + m + 1 + l <= Len(F) /\ \A i \in 1..l : F[o + m + 1 + i] = A[i]
    <3>1. ASSUME NEW i \in 1..l
          PROVE  F[o + m + 1 + i] = A[i]
      <4>1. o + m + 1 + i = (l + m + m + 3) + i
        BY <1>2
      <4>2. F[(l + m + m + 3) + i] = A[i]
        BY <1>9
      <4> HIDE DEF F, o
      <4> QED
        BY <4>1, <4>2
    <3>2. o + m + 1 + l <= Len(F)
      BY <1>2, <1>9
    <3> QED
      BY <3>1, <3>2
  <2>4. o = l + 1 + m + 1
    BY <1>2
  <2> HIDE DEF o
  <2>5. PairStands(F, o, B, A)
    BY <2>1, <2>2, <2>3 DEF PairStands, StandsAfter, l, m
  <2> QED
    BY <2>4, <2>5
<1>14. F \in Seq(FormChar) /\ Len(F) = (l + 1 + m) + 1 + (l + 1 + m)
  BY <1>2, <1>9
<1> HIDE DEF F
<1>15. FormStands(F, A, B)
  BY <1>11, <1>12, <1>13, <1>14 DEF FormStands, l, m
<1> QED
  BY <1>1, <1>15 DEF F

LEMMA TwoTogether ==
  ASSUME NEW x, NEW y
  PROVE  <<x>> \o <<y>> = <<x, y>>
<1> DEFINE S == {x, y}
           u == <<x>>
           c == u \o <<y>>
           d == <<x, y>>
<1>1. u \in Seq(S) /\ Len(u) = 1 /\ u[1] = x /\ y \in S
  OBVIOUS
<1>2. d \in Seq(S) /\ Len(d) = 2 /\ d[1] = x /\ d[2] = y
  OBVIOUS
<1> HIDE DEF S, u, d
<1>3. IsGrown(c, u, y, S)
  BY <1>1, OneMore
<1> HIDE DEF c
<1>4. c \in Seq(S) /\ Len(c) = 2 /\ c[1] = x /\ c[2] = y
  BY <1>1, <1>3 DEF IsGrown
<1>5. \A i \in 1..2 : c[i] = d[i]
  BY <1>2, <1>4
<1>6. c = d
  BY <1>2, <1>4, <1>5, SameSeq
<1> QED
  BY <1>6 DEF c, d, u

LEMMA TwoPairs ==
  ASSUME NEW a \in Seq(Known \ {"NUL"}), NEW b \in Seq(Known \ {"NUL"}),
         a # << >> \/ b # << >>, NEW old \in 0..255
  PROVE  clax_http_parse_urlencoded(<< >>, FormOf(Encoded(a), Encoded(b)), old)
           = <<Item(a, b), Item(b, a)>>
<1> DEFINE A == Encoded(a)
           B == Encoded(b)
           F == FormOf(A, B)
           h == Len(A) + 1 + Len(B)
           fab == ValAt(0, Len(A), Len(B))
           fba == ValAt(h + 1, Len(B), Len(A))
           first == <<Item(a, b)>>
           second == <<Item(b, a)>>
<1>1. A \in Seq(EncChar) /\ B \in Seq(EncChar)
  <2>1. a \in Seq(Known) /\ b \in Seq(Known)
    OBVIOUS
  <2> QED
    BY <2>1, Undone
<1>2. FormStands(F, A, B)
  <2> HIDE DEF A, B
  <2> QED
    BY <1>1, FormPlaces
<1> HIDE DEF F
<1>3. /\ F \in Seq(FormChar) /\ Len(F) = h + 1 + h /\ h \in Nat /\ F[h + 1] = "&"
      /\ PairStands(F, 0, A, B) /\ PairStands(F, h + 1, B, A)
  BY <1>1, <1>2 DEF FormStands
<1>4. PICK v : AreScanned(v, F, old) /\ ScanAll(<< >>, F, old) = v[Len(F)]
  BY <1>3, ScanValues
<1>5. v[h] = Scanning(fab, << >>)
  <2>1. v[0] = Scanning(KeyMode, << >>)
    BY <1>4 DEF AreScanned
  <2>2. v[0 + Len(A) + 1 + Len(B)] = Scanning(ValAt(0, Len(A), Len(B)), << >>)
    <3> HIDE DEF A, B
    <3> QED
      BY <1>1, <1>3, <1>4, <2>1, PairScanned
  <2>3. 0 + Len(A) + 1 + Len(B) = h
    BY <1>1
  <2> QED
    BY <2>2, <2>3
<1>6. Pair(F, fab, old) = first /\ Pair(F, fba, old) = second
  <2>1. Pair(F, fab, old) = first
    BY <1>3, PairRead, ZenonT(40)
  <2>2. h + 1 \in Nat
    BY <1>3
  <2> DEFINE o == h + 1
  <2> HIDE DEF o
  <2>3. Pair(F, ValAt(o, Len(Encoded(b)), Len(Encoded(a))), old) = second
    BY <1>3, <2>2, PairRead DEF o
  <2> QED
    BY <2>1, <2>3 DEF o
<1>7. v[h + 1] = Scanning(KeyMode, first)
  <2>1. h + 1 <= Len(F)
    BY <1>3
  <2> HIDE DEF h, fab, first
  <2>2. GoesOn(v, F, old, h, fab, << >>)
    BY <1>3, <1>4, <1>5, <2>1, ScanNext
  <2>3. << >> \o first = first
    BY DEF first
  <2> QED
    BY <1>3, <1>6, <2>2, <2>3 DEF GoesOn
<1>8. v[Len(F)] = Scanning(fba, first)
  <2> DEFINE o == h + 1
  <2>1. o \in Nat /\ v[o] = Scanning(KeyMode, first) /\ PairStands(F, o, B, A)
    BY <1>3, <1>7
  <2>2. o + Len(B) + 1 + Len(A) = Len(F)
    BY <1>1, <1>3
  <2> HIDE DEF A, B, o, first
  <2>3. v[o + Len(B) + 1 + Len(A)] = Scanning(ValAt(o, Len(B), Len(A)), first)
    BY <1>1, <1>3, <1>4, <2>1, PairScanned
  <2> QED
    BY <2>2, <2>3 DEF o
<1>9. clax_http_parse_urlencoded(<< >>, F, old) = first \o second
  <2> HIDE DEF fba, first, second
  <2>1. v[Len(F)].f = fba /\ v[Len(F)].params = first
    BY <1>8 DEF Scanning
  <2> QED
    BY <1>4, <1>6, <2>1 DEF clax_http_parse_urlencoded
<1>10. first \o second = <<Item(a, b), Item(b, a)>>
  BY TwoTogether
<1> QED
  BY <1>9, <1>10 DEF F

\* FormUndone, of a text.
LEMMA AllForms ==
  ASSUME alphabet \subseteq Known, text \in Seq(alphabet), code \in 0..255
  PROVE  FormUndone
<1> SUFFICES ASSUME text # << >>, "NUL" \notin alphabet, NEW k \in 0..Len(text)
             PROVE  LET a == SubSeq(text, 1, k)
                        b == SubSeq(text, k + 1, Len(text))
                        form == Encoded(a) \o <<"=">> \o Encoded(b) \o <<"&">>
                                  \o Encoded(b) \o <<"=">> \o Encoded(a)
                    IN  clax_http_parse_urlencoded(<< >>, form, code) = <<Item(a, b), Item(b, a)>>
  BY DEF FormUndone
<1> DEFINE a == SubSeq(text, 1, k)
           b == SubSeq(text, k + 1, Len(text))
<1>1. text \in Seq(Known \ {"NUL"}) /\ Len(text) \in Nat /\ Len(text) # 0
  <2>1. alphabet \subseteq Known \ {"NUL"}
    OBVIOUS
  <2>2. text \in Seq(Known \ {"NUL"})
    BY <2>1, Wider
  <2> QED
    BY <2>2
<1>2. a \in Seq(Known \ {"NUL"}) /\ Len(a) = k
  <2>1. /\ 1 \in Nat /\ k \in Nat /\ 1 <= 1 /\ 1 <= k + 1 /\ k <= Len(text) /\ (k + 1) - 1 = k
    BY <1>1
  <2>2. IsSlice(a, text, 1, k, Known \ {"NUL"})
    BY <1>1, <2>1, Slice
  <2> QED
    BY <2>1, <2>2 DEF IsSlice
<1>3. b \in Seq(Known \ {"NUL"}) /\ Len(b) = Len(text) - k
  <2> DEFINE L == Len(text)
  <2>1. /\ k + 1 \in Nat /\ L \in Nat /\ 1 <= k + 1 /\ k + 1 <= L + 1 /\ L <= Len(text)
        /\ (L + 1) - (k + 1) = L - k
    BY <1>1
  <2>2. IsSlice(b, text, k + 1, L, Known \ {"NUL"})
    BY <1>1, <2>1, Slice
  <2> QED
    BY <2>1, <2>2 DEF IsSlice
<1> HIDE DEF a, b
<1>4. a # << >> \/ b # << >>
  BY <1>1, <1>2, <1>3
<1>5. clax_http_parse_urlencoded(<< >>, FormOf(Encoded(a), Encoded(b)), code)
        = <<Item(a, b), Item(b, a)>>
  BY <1>2, <1>3, <1>4, TwoPairs
<1> QED
  BY <1>5 DEF FormOf, a, b
-----------------------------------------------------------------------------
(* URLs: what the table of moves says, and what a URL is cut into.         *)

\* A move leads from s to t.
Leads(s, ch, t) == \E m \in UrlMoves : s \in m.from /\ ch \in m.on /\ t = m.to

\* The table, looked up: a move is made if there is one.
LEMMA MoveMade ==
  ASSUME NEW s, NEW ch
  PROVE  \/ Leads(s, ch, parse_url_char(s, ch))
         \/ parse_url_char(s, ch) = "s_dead" /\ \A t : ~Leads(s, ch, t)
<1> DEFINE M == {x \in UrlMoves : s \in x.from /\ ch \in x.on}
           c == CHOOSE x \in M : TRUE
<1> HIDE DEF UrlMoves
<1>1. parse_url_char(s, ch) = IF M = {} THEN "s_dead" ELSE c.to
  BY DEF parse_url_char, Follow
<1>2. CASE M = {}
  <2>1. \A t : ~Leads(s, ch, t)
    BY <1>2 DEF Leads
  <2> QED
    BY <1>1, <1>2, <2>1
<1>3. CASE M # {}
  <2>1. c \in M
    BY <1>3
  <2>2. Leads(s, ch, c.to)
    BY <2>1 DEF Leads
  <2> QED
    BY <1>1, <1>3, <2>2
<1> QED
  BY <1>2, <1>3

LEMMA MoveFields ==
  ASSUME NEW f, NEW c, NEW t
  PROVE  Move(f, c, t).from = f /\ Move(f, c, t).on = c /\ Move(f, c, t).to = t
  BY DEF Move

\* The table, written out.
LEMMA MovesAre ==
  ASSUME NEW s, NEW ch, NEW t
  PROVE  Leads(s, ch, t) <=>
           \/ s = "s_req_spaces_before_url" /\ ch \in {"/", "*"} /\ t = "s_req_path"
           \/ s \in {"s_req_spaces_before_url", "s_req_schema"} /\ ch \in Alpha /\ t = "s_req_schema"
           \/ s = "s_req_schema" /\ ch = ":" /\ t = "s_req_schema_slash"
           \/ s = "s_req_schema_slash" /\ ch = "/" /\ t = "s_req_schema_slash_slash"
           \/ s = "s_req_schema_slash_slash" /\ ch = "/" /\ t = "s_req_server_start"
           \/ s \in Server /\ ch = "/" /\ t = "s_req_path"
           \/ s \in Server /\ ch = "?" /\ t = "s_req_query_string_start"
           \/ s \in Server \ {"s_req_server_with_at"} /\ ch = "@" /\ t = "s_req_server_with_at"
           \/ s \in Server /\ ch \in UserInfo \cup {"[", "]"} /\ t = "s_req_server"
           \/ s = "s_req_path" /\ ch \in UrlChar /\ t = "s_req_path"
           \/ s = "s_req_path" /\ ch = "?" /\ t = "s_req_query_string_start"
           \/ s \in Query /\ ch \in UrlChar \cup {"?"} /\ t = "s_req_query_string"
           \/ s \in {"s_req_path"} \cup Query /\ ch = "#" /\ t = "s_req_fragment_start"
           \/ /\ s \in {"s_req_fragment_start", "s_req_fragment"} /\ ch \in UrlChar \cup {"?"}
              /\ t = "s_req_fragment"
           \/ s = "s_req_fragment_start" /\ ch = "#" /\ t = "s_req_fragment_start"
           \/ s = "s_req_fragment" /\ ch = "#" /\ t = "s_req_fragment"
  BY MoveFields DEF Leads, UrlMoves

\* The characters a path, a query and a fragment are of.
UrlText == UrlChar \cup {"?", "#"}
Fragment == {"s_req_fragment_start", "s_req_fragment"}

\* Where the character after some place of a path, a query or a fragment leads.
LEMMA PathGoesOn ==
  ASSUME NEW s \in {"s_req_path"} \cup Query \cup Fragment, NEW ch
  PROVE  LET t == parse_url_char(s, ch)
         IN  /\ ch \notin UrlText => t = "s_dead"
             /\ ch \in UrlText =>
                  t = CASE s = "s_req_path" /\ ch \in UrlChar -> "s_req_path"
                        [] s = "s_req_path" /\ ch = "?" -> "s_req_query_string_start"
                        [] s \in Query /\ ch # "#" -> "s_req_query_string"
                        [] s \notin Fragment /\ ch = "#" -> "s_req_fragment_start"
                        [] s = "s_req_fragment_start" /\ ch = "#" -> "s_req_fragment_start"
                        [] OTHER -> "s_req_fragment"
<1> DEFINE t == parse_url_char(s, ch)
<1>1. "?" \notin UrlChar /\ "#" \notin UrlChar
  BY DEF UrlChar
<1>2. \/ Leads(s, ch, t)
      \/ t = "s_dead" /\ \A x : ~Leads(s, ch, x)
  BY MoveMade
<1> HIDE DEF t
<1>3. CASE s = "s_req_path"
  <2>1. \A x : Leads(s, ch, x) <=> \/ ch \in UrlChar /\ x = "s_req_path"
                                   \/ ch = "?" /\ x = "s_req_query_string_start"
                                   \/ ch = "#" /\ x = "s_req_fragment_start"
    BY <1>3, MovesAre DEF Server, Query
  <2> QED
    BY <1>1, <1>2, <1>3, <2>1 DEF UrlText, Query, Fragment, t
<1>4. CASE s \in Query
  <2>1. \A x : Leads(s, ch, x) <=> \/ ch \in UrlChar \cup {"?"} /\ x = "s_req_query_string"
                                   \/ ch = "#" /\ x = "s_req_fragment_start"
    BY <1>4, MovesAre DEF Server, Query
  <2> QED
    BY <1>1, <1>2, <1>4, <2>1 DEF UrlText, Query, Fragment, t
<1>5. CASE s \in Fragment
  <2>1. \A x : Leads(s, ch, x) <=>
          \/ ch \in UrlChar \cup {"?"} /\ x = "s_req_fragment"
          \/ s = "s_req_fragment_start" /\ ch = "#" /\ x = "s_req_fragment_start"
          \/ s = "s_req_fragment" /\ ch = "#" /\ x = "s_req_fragment"
    BY <1>5, MovesAre DEF Server, Query, Fragment
  <2> QED
    BY <1>1, <1>2, <1>5, <2>1 DEF UrlText, Query, Fragment, t
<1> QED
  BY <1>3, <1>4, <1>5

\* What leads to a path, or to none: a schema, its slashes, a host.
LEMMA HostGoesOn ==
  ASSUME NEW s, NEW ch
  PROVE  LET t == parse_url_char(s, ch)
         IN  /\ s = "s_dead" => t = "s_dead"
             /\ s = "s_req_spaces_before_url" /\ ch = "/" => t = "s_req_path"
             /\ s = "s_req_spaces_before_url" /\ ch = "a" => t \in {"s_req_schema", "s_dead"}
             /\ s = "s_req_schema" /\ ch = ":" => t \in {"s_req_schema_slash", "s_dead"}
             /\ s = "s_req_schema_slash" /\ ch = "/" => t \in {"s_req_schema_slash_slash", "s_dead"}
             /\ s = "s_req_schema_slash_slash" /\ ch = "/" => t \in {"s_req_server_start", "s_dead"}
             /\ s \in Server /\ ch = "/" => t = "s_req_path"
             /\ s \in Server /\ ch = "?" => t = "s_req_query_string_start"
             /\ s \in Server /\ ch = "#" => t = "s_dead"
             /\ s \in Server /\ ch \notin {"/", "?", "#"} => t \in Server \cup {"s_dead"}
<1> DEFINE t == parse_url_char(s, ch)
<1>1. {"/", "?", "#", ":"} \cap Alpha = {} /\ {"/", "?", "#"} \cap UserInfo = {}
  BY SignAssumption DEF AlphaNum, UserInfo
<1>2. \/ Leads(s, ch, t)
      \/ t = "s_dead" /\ \A x : ~Leads(s, ch, x)
  BY MoveMade
<1> HIDE DEF t
<1>3. s = "s_dead" => t = "s_dead"
  BY <1>2, MovesAre DEF Server, Query
<1>4. ASSUME s = "s_req_spaces_before_url"
      PROVE  /\ ch = "/" => t = "s_req_path"
             /\ ch = "a" => t \in {"s_req_schema", "s_dead"}
  <2>1. \A x : Leads(s, ch, x) <=> \/ ch \in {"/", "*"} /\ x = "s_req_path"
                                   \/ ch \in Alpha /\ x = "s_req_schema"
    BY <1>4, MovesAre DEF Server, Query
  <2>2. ch = "/" => Leads(s, ch, "s_req_path")
    BY <2>1
  <2> QED
    BY <1>1, <1>2, <2>1, <2>2
<1>5. ASSUME s = "s_req_schema", ch = ":"
      PROVE  t \in {"s_req_schema_slash", "s_dead"}
  <2>1. \A x : Leads(s, ch, x) => x = "s_req_schema_slash"
    BY <1>1, <1>5, MovesAre DEF Server, Query
  <2> QED
    BY <1>2, <2>1
<1>6. ASSUME s = "s_req_schema_slash", ch = "/"
      PROVE  t \in {"s_req_schema_slash_slash", "s_dead"}
  <2>1. \A x : Leads(s, ch, x) => x = "s_req_schema_slash_slash"
    BY <1>6, MovesAre DEF Server, Query
  <2> QED
    BY <1>2, <2>1
<1>7. ASSUME s = "s_req_schema_slash_slash", ch = "/"
      PROVE  t \in {"s_req_server_start", "s_dead"}
  <2>1. \A x : Leads(s, ch, x) => x = "s_req_server_start"
    BY <1>7, MovesAre DEF Server, Query
  <2> QED
    BY <1>2, <2>1
<1>8. ASSUME s \in Server
      PROVE  /\ ch = "/" => t = "s_req_path"
             /\ ch = "?" => t = "s_req_query_string_start"
             /\ ch = "#" => t = "s_dead"
             /\ ch \notin {"/", "?", "#"} => t \in Server \cup {"s_dead"}
  <2>1. \A x : Leads(s, ch, x) <=>
          \/ ch = "/" /\ x = "s_req_path"
          \/ ch = "?" /\ x = "s_req_query_string_start"
          \/ s # "s_req_server_with_at" /\ ch = "@" /\ x = "s_req_server_with_at"
          \/ ch \in UserInfo \cup {"[", "]"} /\ x = "s_req_server"
    BY <1>8, MovesAre DEF Server, Query
  <2>2. /\ ch = "/" => Leads(s, ch, "s_req_path")
        /\ ch = "?" => Leads(s, ch, "s_req_query_string_start")
    BY <2>1
  <2> QED
    BY <1>1, <1>2, <2>1, <2>2 DEF Server
<1> QED
  BY <1>3, <1>4, <1>5, <1>6, <1>7, <1>8 DEF t

\* What is known in the middle of a URL.
UrlStates == {"s_dead", "s_req_spaces_before_url", "s_req_schema", "s_req_schema_slash",
              "s_req_schema_slash_slash", "s_req_path"} \cup Server \cup Query \cup Fragment

UrlState(Y) == [s : UrlStates, found_at : BOOLEAN, field : [Fields -> Seq(Y)]]

\* b is what is known after one more character: a field has grown by it, or none.
IsNext(b, a, ch) ==
  /\ b.s = parse_url_char(a.s, ch)
  /\ b.field["path"] = IF b.s = "s_req_path" THEN Append(a.field["path"], ch) ELSE a.field["path"]
  /\ b.field["query"] =
       IF b.s = "s_req_query_string" THEN Append(a.field["query"], ch) ELSE a.field["query"]
  /\ b.s \in {"s_req_path"} \cup Query \cup Fragment =>
       b.field["schema"] = a.field["schema"] /\ b.field["host"] = a.field["host"]

LEMMA UrlStays ==
  ASSUME NEW Y, NEW a \in UrlState(Y), NEW ch \in Y
  PROVE  UrlStep(a, ch) \in UrlState(Y) /\ IsNext(UrlStep(a, ch), a, ch)
<1> DEFINE t == parse_url_char(a.s, ch)
           b == UrlStep(a, ch)
           g == IF t \in DOMAIN FieldOf THEN [a.field EXCEPT ![FieldOf[t]] = Append(@, ch)]
                ELSE a.field
           found == a.found_at \/ t = "s_req_server_with_at"
<1>1. a.s \in UrlStates /\ a.found_at \in BOOLEAN /\ a.field \in [Fields -> Seq(Y)]
  BY DEF UrlState
<1>2. t \in UrlStates
  <2>1. Leads(a.s, ch, t) \/ t = "s_dead"
    BY MoveMade
  <2> HIDE DEF t
  <2> QED
    BY <2>1, MovesAre DEF UrlStates, Server, Query, Fragment
<1>3. b = [a EXCEPT !.s = t, !.found_at = found, !.field = g]
  BY DEF UrlStep, InState
<1> HIDE DEF t
<1>4. /\ DOMAIN FieldOf = {"s_req_schema", "s_req_server", "s_req_server_with_at", "s_req_path",
                           "s_req_query_string", "s_req_fragment"}
      /\ FieldOf["s_req_schema"] = "schema" /\ FieldOf["s_req_server"] = "host"
      /\ FieldOf["s_req_server_with_at"] = "host" /\ FieldOf["s_req_path"] = "path"
      /\ FieldOf["s_req_query_string"] = "query" /\ FieldOf["s_req_fragment"] = "fragment"
  BY DEF FieldOf, Server
<1>5. \A f \in Fields : Append(a.field[f], ch) \in Seq(Y)
  BY <1>1
<1>6. /\ g \in [Fields -> Seq(Y)]
      /\ \A f \in Fields :
           g[f] = IF t \in DOMAIN FieldOf /\ FieldOf[t] = f THEN Append(a.field[f], ch)
                  ELSE a.field[f]
  <2>1. t \in DOMAIN FieldOf => FieldOf[t] \in Fields
    BY <1>4 DEF Fields
  <2> QED
    BY <1>1, <1>5, <2>1
<1> HIDE DEF g
<1>7. b.s = t /\ b.field = g
  BY <1>1, <1>3 DEF UrlState
<1>8. b \in UrlState(Y)
  <2>1. found \in BOOLEAN
    OBVIOUS
  <2> HIDE DEF found
  <2> QED
    BY <1>2, <1>3, <1>6, <2>1 DEF UrlState
<1> HIDE DEF b
<1>9. \A f \in {"schema", "host", "path", "query"} : f \in Fields
  BY DEF Fields
<1>10. /\ g["path"] = IF t = "s_req_path" THEN Append(a.field["path"], ch) ELSE a.field["path"]
       /\ g["query"] =
            IF t = "s_req_query_string" THEN Append(a.field["query"], ch) ELSE a.field["query"]
       /\ t \in {"s_req_path"} \cup Query \cup Fragment =>
            g["schema"] = a.field["schema"] /\ g["host"] = a.field["host"]
  BY <1>4, <1>6, <1>9 DEF Query, Fragment
<1>11. IsNext(b, a, ch)
  BY <1>7, <1>10 DEF IsNext, t
<1> QED
  BY <1>8, <1>11 DEF b

\* v has what is known after every character.
AreUrls(v, url, Y) ==
  /\ v \in [0..Len(url) -> UrlState(Y)]
  /\ v[0] = UrlStart
  /\ \A k \in 1..Len(url) : IsNext(v[k], v[k - 1], url[k])

LEMMA UrlValues ==
  ASSUME NEW Y, NEW url \in Seq(Y)
  PROVE  \E v : AreUrls(v, url, Y) /\ http_parser_parse_url(url) = UrlFound(v[Len(url)])
<1> DEFINE n == Len(url)
           D == UrlState(Y)
           base == UrlStart
           G == [x \in D \X (1..n) |-> UrlStep(x[1], url[x[2]])]
           IsIter(f) == f = [s \in SUBSET (DOMAIN url) |->
                               IF s = {} THEN base
                               ELSE UrlStep(f[s \ {Max(s)}], url[Max(s)])]
           chosen == CHOOSE f : IsIter(f)
<1>1. n \in Nat /\ DOMAIN url = 1..n /\ \A k \in 1..n : url[k] \in Y
  OBVIOUS
<1>2. base \in D
  <2>1. [f \in Fields |-> << >>] \in [Fields -> Seq(Y)]
    OBVIOUS
  <2> QED
    BY <2>1 DEF UrlState, UrlStart, UrlStates
<1>3. /\ G \in [D \X (1..n) -> D]
      /\ \A x \in D, k \in 1..n : G[<<x, k>>] = UrlStep(x, url[k])
  <2>1. \A x \in D, k \in 1..n : UrlStep(x, url[k]) \in D
    BY <1>1, UrlStays
  <2> HIDE DEF D, n
  <2> QED
    BY <2>1
<1>4. FoldLeft(UrlStep, UrlStart, url) = chosen[DOMAIN url]
  BY DEF FoldLeft, MapThenFoldSet
<1> HIDE DEF G, D, n, base
<1>5. \A s \in SUBSET (1..n) : s # {} => Max(s) \in 1..n /\ s \ {Max(s)} \in SUBSET (1..n)
  BY <1>1, MaxIsLast
<1>g. \A x \in D, s \in SUBSET (1..n) :
        s # {} => G[<<x, Max(s)>>] = UrlStep(x, url[Max(s)])
  BY <1>3, <1>5
<1>6. IsIter(chosen)
  <2>1. PICK g : IsFold(g, n, D, base, G)
    BY <1>1, <1>2, <1>3, FoldExists
  <2>2. \A s \in SUBSET (1..n) :
          g[s] = IF s = {} THEN base ELSE UrlStep(g[s \ {Max(s)}], url[Max(s)])
    <3>1. \A s \in SUBSET (1..n) : g[s] \in D
      BY <2>1 DEF IsFold
    <3>2. ASSUME NEW s \in SUBSET (1..n), s # {}
          PROVE  g[s] = UrlStep(g[s \ {Max(s)}], url[Max(s)])
      <4>1. g[s] = G[<<g[s \ {Max(s)}], Max(s)>>]
        BY <2>1, <3>2 DEF IsFold
      <4>2. g[s \ {Max(s)}] \in D
        BY <1>5, <3>1, <3>2
      <4> QED
        BY <1>g, <3>2, <4>1, <4>2
    <3>3. g[{}] = base
      BY <2>1 DEF IsFold
    <3> QED
      BY <3>2, <3>3
  <2>3. g = [s \in SUBSET (1..n) |-> g[s]]
    BY <2>1 DEF IsFold
  <2>4. IsIter(g)
    BY <1>1, <2>2, <2>3, Zenon
  <2> QED
    BY <2>4
<1>f. PICK f : IsIter(f) /\ FoldLeft(UrlStep, UrlStart, url) = f[1..n]
  BY <1>1, <1>4, <1>6
<1>7. Follows(f, n, D, base, G)
  <2>1. f[{}] = base
    BY <1>f
  <2>2. ASSUME NEW s \in SUBSET (1..n), s # {}, f[s \ {Max(s)}] \in D
        PROVE  f[s] = G[<<f[s \ {Max(s)}], Max(s)>>]
    <3>1. f[s] = UrlStep(f[s \ {Max(s)}], url[Max(s)])
      BY <1>1, <1>f, <2>2, ZenonT(40)
    <3> QED
      BY <1>g, <2>2, <3>1
  <2> QED
    BY <2>1, <2>2 DEF Follows
<1>8. PICK v : IsValues(v, n, D, base, G) /\ v[n] = f[1..n]
  <2>1. HasValues(f, n, D, base, G)
    BY <1>1, <1>2, <1>3, <1>7, FoldValues
  <2> QED
    BY <2>1 DEF HasValues
<1>9. /\ v \in [0..n -> D] /\ v[0] = base
      /\ \A k \in 1..n : v[k] = UrlStep(v[k - 1], url[k]) /\ v[k - 1] \in D
  <2>1. \A k \in 1..n : k - 1 \in 0..n
    BY <1>1
  <2> QED
    BY <1>3, <1>8, <2>1 DEF IsValues
<1>10. \A k \in 1..n : IsNext(v[k], v[k - 1], url[k])
  BY <1>1, <1>9, UrlStays DEF D
<1> QED
  BY <1>f, <1>8, <1>9, <1>10 DEF D, n, base, AreUrls, http_parser_parse_url

\* p is the first place from i on with one of C, or the one after the end.
IsFirstOf(s, C, i, p) ==
  /\ p \in i..(Len(s) + 1)
  /\ \A j \in i..(p - 1) : s[j] \notin C
  /\ p <= Len(s) => s[p] \in C

LEMMA FirstOfIs ==
  ASSUME NEW Y, NEW s \in Seq(Y), NEW C, NEW i \in 1..(Len(s) + 1)
  PROVE  IsFirstOf(s, C, i, FirstOf(s, C, i))
<1> DEFINE p == {k \in i..Len(s) : s[k] \in C}
           c == CHOOSE k \in p : \A m \in p : k <= m
<1>1. Len(s) \in Nat
  OBVIOUS
<1>2. CASE p = {}
  BY <1>1, <1>2 DEF FirstOf, IsFirstOf
<1>3. CASE p # {}
  <2>1. p \in SUBSET Nat
    BY <1>1
  <2>2. \E k \in p : \A m \in p : k <= m
    <3> HIDE DEF p
    <3> QED
      BY <1>3, <2>1, LeastExists
  <2>3. c \in p /\ \A m \in p : c <= m
    BY <2>2
  <2>4. FirstOf(s, C, i) = c
    BY <1>3 DEF FirstOf
  <2> HIDE DEF c
  <2>5. c \in i..Len(s) /\ s[c] \in C /\ \A j \in i..Len(s) : s[j] \in C => c <= j
    BY <2>3
  <2>6. \A j \in i..(c - 1) : s[j] \notin C
    BY <1>1, <2>5
  <2> QED
    BY <1>1, <2>4, <2>5, <2>6 DEF IsFirstOf
<1> QED
  BY <1>2, <1>3

\* The path ends where the query or the fragment begins.
Smaller(q, h) == IF q < h THEN q ELSE h

Cuts(url, i, q, h) ==
  /\ q \in i..(Len(url) + 1) /\ h \in i..(Len(url) + 1)
  /\ q = FirstOf(url, {"?"}, i) /\ h = FirstOf(url, {"#"}, i)
  /\ FirstOf(url, {"?", "#"}, i) = Smaller(q, h)
  /\ q = h => q = Len(url) + 1
  /\ \A j \in i..(q - 1) : url[j] # "?"
  /\ \A j \in i..(h - 1) : url[j] # "#"
  /\ q <= Len(url) => url[q] = "?"
  /\ h <= Len(url) => url[h] = "#"

LEMMA CutsThere ==
  ASSUME NEW Y, NEW url \in Seq(Y), NEW i \in 1..(Len(url) + 1)
  PROVE  \E q, h : Cuts(url, i, q, h)
<1> DEFINE q == FirstOf(url, {"?"}, i)
           h == FirstOf(url, {"#"}, i)
           p == FirstOf(url, {"?", "#"}, i)
           n == Len(url)
<1>1. n \in Nat
  OBVIOUS
<1>2. IsFirstOf(url, {"?"}, i, q) /\ IsFirstOf(url, {"#"}, i, h) /\ IsFirstOf(url, {"?", "#"}, i, p)
  BY FirstOfIs
<1> HIDE DEF q, h, p
<1>3. /\ q \in i..(n + 1) /\ h \in i..(n + 1) /\ p \in i..(n + 1)
      /\ \A j \in i..(q - 1) : url[j] # "?"
      /\ \A j \in i..(h - 1) : url[j] # "#"
      /\ \A j \in i..(p - 1) : url[j] # "?" /\ url[j] # "#"
      /\ q <= n => url[q] = "?"
      /\ h <= n => url[h] = "#"
      /\ p <= n => url[p] = "?" \/ url[p] = "#"
  BY <1>2 DEF IsFirstOf
<1>4. i \in Nat /\ q \in Nat /\ h \in Nat /\ p \in Nat
  BY <1>1, <1>3
<1>5. q = h => q = n + 1
  <2>1. q <= n => "?" # "#"
    OBVIOUS
  <2> QED
    BY <1>1, <1>3, <1>4, <2>1
<1>6. p <= q
  <2>1. ~(q < p)
    <3> SUFFICES ASSUME q < p PROVE FALSE
      OBVIOUS
    <3>1. q \in i..(p - 1) /\ q <= n
      BY <1>1, <1>3, <1>4
    <3> QED
      BY <1>3, <3>1
  <2> QED
    BY <1>4, <2>1
<1>7. p <= h
  <2>1. ~(h < p)
    <3> SUFFICES ASSUME h < p PROVE FALSE
      OBVIOUS
    <3>1. h \in i..(p - 1) /\ h <= n
      BY <1>1, <1>3, <1>4
    <3> QED
      BY <1>3, <3>1
  <2> QED
    BY <1>4, <2>1
<1>8. p = q \/ p = h
  <2> SUFFICES ASSUME p < q, p < h PROVE FALSE
    BY <1>4, <1>6, <1>7
  <2>1. p \in i..(q - 1) /\ p \in i..(h - 1) /\ p <= n
    BY <1>1, <1>3, <1>4
  <2> QED
    BY <1>3, <2>1
<1>9. p = Smaller(q, h)
  BY <1>4, <1>6, <1>7, <1>8 DEF Smaller
<1> QED
  BY <1>3, <1>5, <1>9 DEF Cuts, q, h, p

\* What is known k characters into the URL, from the place i of the path on.
StageAt(i, q, h, k) ==
  IF k < Smaller(q, h) THEN {"s_req_path"} ELSE IF k < h THEN Query ELSE Fragment

PathAt(url, i, q, h, k) == SubSeq(url, i, IF k < Smaller(q, h) THEN k ELSE Smaller(q, h) - 1)
QueryAt(url, q, h, k) ==
  IF q > h THEN << >> ELSE SubSeq(url, q + 1, IF k < h THEN k ELSE h - 1)

InPlace(a, url, i, q, h, k) ==
  /\ a.s \in StageAt(i, q, h, k)
  /\ a.field["path"] = PathAt(url, i, q, h, k)
  /\ a.field["query"] = QueryAt(url, q, h, k)

LEMMA SliceGrows ==
  ASSUME NEW Y, NEW s \in Seq(Y), NEW m \in 1..(Len(s) + 1), NEW k \in 0..Len(s), m <= k + 1, k < Len(s)
  PROVE  SubSeq(s, m, k + 1) = Append(SubSeq(s, m, k), s[k + 1])
<1> DEFINE a == SubSeq(s, m, k)
           b == SubSeq(s, m, k + 1)
           L == k + 1 - m
<1>1. Len(s) \in Nat /\ m \in Nat /\ k \in Nat /\ k + 1 \in 1..Len(s) /\ s[k + 1] \in Y
      /\ k + 1 \in Nat /\ 1 <= m /\ m <= k + 1 /\ m <= k + 1 + 1 /\ k <= Len(s) /\ k + 1 <= Len(s)
      /\ L \in Nat /\ (k + 1 + 1) - m = L + 1
  OBVIOUS
<1>2. IsSlice(a, s, m, k, Y) /\ IsSlice(b, s, m, k + 1, Y)
  BY <1>1, Slice
<1> HIDE DEF a, b, L
<1>3. a \in Seq(Y) /\ Len(a) = L /\ \A i \in 1..L : a[i] = s[(m - 1) + i]
  BY <1>2 DEF IsSlice, L
<1>4. b \in Seq(Y) /\ Len(b) = L + 1 /\ \A i \in 1..(L + 1) : b[i] = s[(m - 1) + i]
  BY <1>1, <1>2 DEF IsSlice
<1>5. (m - 1) + (L + 1) = k + 1
  BY <1>1 DEF L
<1> DEFINE x == s[k + 1]
           c == Append(a, x)
<1>6. c \in Seq(Y) /\ Len(c) = L + 1 /\ c[L + 1] = s[k + 1] /\ \A i \in 1..L : c[i] = a[i]
  <2>1. x \in Y /\ x = s[k + 1]
    BY <1>1
  <2> HIDE DEF x
  <2>2. c \in Seq(Y) /\ Len(c) = Len(a) + 1 /\ c[Len(a) + 1] = x /\ \A i \in 1..Len(a) : c[i] = a[i]
    BY <1>3, <2>1
  <2> QED
    BY <1>3, <2>1, <2>2
<1> HIDE DEF c
<1>7. \A i \in 1..(L + 1) : c[i] = b[i]
  <2>1. \A i \in 1..(L + 1) : i \in 1..L \/ i = L + 1
    BY <1>1
  <2>2. b[L + 1] = s[k + 1]
    BY <1>1, <1>4, <1>5
  <2>3. \A i \in 1..L : i \in 1..(L + 1)
    BY <1>1
  <2> QED
    BY <1>3, <1>4, <1>6, <2>1, <2>2, <2>3
<1>8. c = b
  BY <1>4, <1>6, <1>7, SameSeq
<1> QED
  BY <1>8 DEF a, b, c

LEMMA EmptySlice ==
  ASSUME NEW Y, NEW s \in Seq(Y), NEW m \in Nat, NEW n \in Int, n < m
  PROVE  SubSeq(s, m, n) = << >>
  OBVIOUS

\* Numbers of the places.
LEMMA CutNumbers ==
  ASSUME NEW Y, NEW url \in Seq(Y), NEW i \in 1..(Len(url) + 1), NEW q, NEW h, Cuts(url, i, q, h)
  PROVE  /\ Len(url) \in Nat /\ i \in Nat /\ i >= 1 /\ q \in Nat /\ h \in Nat
         /\ i <= q /\ i <= h /\ q <= Len(url) + 1 /\ h <= Len(url) + 1
         /\ Smaller(q, h) \in Nat /\ i <= Smaller(q, h)
         /\ Smaller(q, h) <= q /\ Smaller(q, h) <= h
         /\ ~(q > h) => Smaller(q, h) = q
         /\ q > h => Smaller(q, h) = h
  BY DEF Cuts, Smaller

Stands(a, url, i, q, h, k) ==
  i \in 1..Len(url) /\ Cuts(url, i, q, h) /\ k \in i..Len(url) /\ InPlace(a, url, i, q, h, k)

StandsNext(b, a, url, i, q, h, k) ==
  /\ url[k + 1] \notin UrlText => b.s = "s_dead"
  /\ url[k + 1] \in UrlText =>
       /\ InPlace(b, url, i, q, h, k + 1)
       /\ b.field["schema"] = a.field["schema"] /\ b.field["host"] = a.field["host"]

\* What comes after a character of the path, of the query or of the fragment.
LEMMA Onward ==
  ASSUME NEW Y, NEW url \in Seq(Y), NEW i, NEW q, NEW h, NEW k, NEW a, NEW b,
         Stands(a, url, i, q, h, k), k < Len(url), IsNext(b, a, url[k + 1])
  PROVE  StandsNext(b, a, url, i, q, h, k)
<1> DEFINE ch == url[k + 1]
           p == Smaller(q, h)
           n == Len(url)
           pa == a.field["path"]
           qa == a.field["query"]
<1>0. i \in 1..Len(url) /\ Cuts(url, i, q, h) /\ k \in i..Len(url) /\ InPlace(a, url, i, q, h, k)
  BY DEF Stands
<1>1. /\ n \in Nat /\ i \in Nat /\ i >= 1 /\ q \in Nat /\ h \in Nat
      /\ i <= q /\ i <= h /\ q <= n + 1 /\ h <= n + 1
      /\ p \in Nat /\ i <= p /\ p <= q /\ p <= h
      /\ (~(q > h) => p = q) /\ (q > h => p = h)
  <2>1. i \in 1..(Len(url) + 1)
    BY <1>0
  <2> QED
    BY <1>0, <2>1, CutNumbers
<1>2. k \in Nat /\ i <= k /\ k < n /\ k + 1 \in Nat /\ k + 1 <= n
  BY <1>0, <1>1
<1>3. /\ (q = h => q = n + 1)
      /\ (k + 1 < q => ch # "?") /\ (k + 1 < h => ch # "#")
      /\ (k + 1 = q => ch = "?") /\ (k + 1 = h => ch = "#")
  <2>1. /\ k + 1 < q => k + 1 \in i..(q - 1)
        /\ k + 1 < h => k + 1 \in i..(h - 1)
    BY <1>1, <1>2
  <2> QED
    BY <1>0, <1>2, <2>1 DEF Cuts
<1>4. a.s \in StageAt(i, q, h, k) /\ pa = PathAt(url, i, q, h, k) /\ qa = QueryAt(url, q, h, k)
  BY <1>0 DEF InPlace
<1>5. a.s \in {"s_req_path"} \cup Query \cup Fragment
  BY <1>4 DEF StageAt
<1>6. /\ b.s = parse_url_char(a.s, ch)
      /\ b.field["path"] = IF b.s = "s_req_path" THEN Append(pa, ch) ELSE pa
      /\ b.field["query"] = IF b.s = "s_req_query_string" THEN Append(qa, ch) ELSE qa
      /\ b.s \in {"s_req_path"} \cup Query \cup Fragment =>
           b.field["schema"] = a.field["schema"] /\ b.field["host"] = a.field["host"]
  BY DEF IsNext
<1>7. SubSeq(url, i, k + 1) = Append(SubSeq(url, i, k), ch)
  BY <1>1, <1>2, SliceGrows
<1>8. q <= k => SubSeq(url, q + 1, k + 1) = Append(SubSeq(url, q + 1, k), ch)
  BY <1>1, <1>2, SliceGrows
<1>9. \A m \in Nat : m <= q => SubSeq(url, q + 1, m) = << >>
  BY <1>1, EmptySlice
<1>a. ch \notin UrlText => b.s = "s_dead"
  BY <1>5, <1>6, PathGoesOn
<1> HIDE DEF ch, p, n, pa, qa
<1>10. ASSUME ch \in UrlText, k + 1 < p
       PROVE  b.s = "s_req_path" /\ InPlace(b, url, i, q, h, k + 1)
  <2>1. k < p /\ k < h /\ k + 1 < q /\ k + 1 < h
    BY <1>1, <1>2, <1>10
  <2>2. a.s = "s_req_path" /\ ch \in UrlChar
    BY <1>3, <1>4, <1>10, <2>1 DEF StageAt, p, UrlText
  <2>3. b.s = "s_req_path"
    BY <1>5, <1>6, <1>10, <2>2, PathGoesOn DEF Query, Fragment, UrlChar
  <2>p. pa = SubSeq(url, i, k)
    BY <1>4, <2>1 DEF PathAt, p
  <2>4. qa = IF q > h THEN << >> ELSE SubSeq(url, q + 1, k)
    BY <1>4, <2>1 DEF QueryAt
  <2>5. b.field["path"] = SubSeq(url, i, k + 1) /\ b.field["query"] = qa
    BY <1>6, <1>7, <2>3, <2>p
  <2>6. SubSeq(url, q + 1, k) = << >> /\ SubSeq(url, q + 1, k + 1) = << >>
    BY <1>1, <1>2, <1>9, <2>1
  <2> QED
    BY <1>10, <2>1, <2>3, <2>4, <2>5, <2>6 DEF InPlace, StageAt, PathAt, QueryAt, p
<1>11. ASSUME ch \in UrlText, k + 1 = p
       PROVE  b.s \in Query \cup Fragment /\ InPlace(b, url, i, q, h, k + 1)
  <2>1. k < p /\ k < q /\ k < h /\ ~(k + 1 < p) /\ p - 1 = k
    BY <1>1, <1>2, <1>11
  <2>2. a.s = "s_req_path"
    BY <1>4, <2>1 DEF StageAt, p
  <2>3. pa = SubSeq(url, i, k)
    BY <1>4, <2>1 DEF PathAt, p
  <2>4. qa = IF q > h THEN << >> ELSE SubSeq(url, q + 1, k)
    BY <1>4, <2>1 DEF QueryAt
  <2>5. SubSeq(url, q + 1, k) = << >>
    BY <1>1, <1>2, <1>9, <2>1
  <2>6. CASE q > h
    <3>1. k + 1 = h /\ ch = "#" /\ ~(k + 1 < h)
      BY <1>1, <1>3, <1>11, <2>6
    <3>2. b.s = "s_req_fragment_start"
      BY <1>5, <1>6, <1>11, <2>2, <3>1, PathGoesOn DEF Fragment, Query, UrlChar
    <3>3. b.field["path"] = pa /\ b.field["query"] = qa
      BY <1>6, <3>2
    <3> QED
      BY <2>1, <2>3, <2>4, <2>6, <3>1, <3>2, <3>3 DEF InPlace, StageAt, PathAt, QueryAt, p, Fragment
  <2>7. CASE ~(q > h)
    <3>1. k + 1 = q /\ ch = "?" /\ k + 1 < h
      BY <1>1, <1>2, <1>3, <1>11, <2>7
    <3>2. b.s = "s_req_query_string_start"
      BY <1>5, <1>6, <1>11, <2>2, <3>1, PathGoesOn DEF Fragment, Query, UrlChar
    <3>3. b.field["path"] = pa /\ b.field["query"] = qa
      BY <1>6, <3>2
    <3>4. SubSeq(url, q + 1, k + 1) = << >>
      BY <1>1, <1>2, <1>9, <3>1
    <3> QED
      BY <2>1, <2>3, <2>4, <2>5, <2>7, <3>1, <3>2, <3>3, <3>4
         DEF InPlace, StageAt, PathAt, QueryAt, p, Query
  <2> QED
    BY <2>6, <2>7
<1>12. ASSUME ch \in UrlText, p <= k, k + 1 < h
       PROVE  b.s \in Query /\ InPlace(b, url, i, q, h, k + 1)
  <2>1. ~(k < p) /\ ~(k + 1 < p) /\ k < h /\ ~(q > h) /\ p = q /\ q <= k
    BY <1>1, <1>2, <1>12
  <2>2. a.s \in Query /\ ch # "#"
    BY <1>3, <1>4, <1>12, <2>1 DEF StageAt, p
  <2>3. b.s = "s_req_query_string"
    BY <1>5, <1>6, <1>12, <2>2, PathGoesOn DEF Query
  <2>4. pa = SubSeq(url, i, p - 1) /\ qa = SubSeq(url, q + 1, k)
    BY <1>4, <2>1 DEF PathAt, QueryAt, p
  <2>5. b.field["path"] = pa /\ b.field["query"] = SubSeq(url, q + 1, k + 1)
    BY <1>6, <1>8, <2>1, <2>3, <2>4
  <2> QED
    BY <1>12, <2>1, <2>3, <2>4, <2>5 DEF InPlace, StageAt, PathAt, QueryAt, p, Query
<1>13. ASSUME ch \in UrlText, p <= k, k + 1 = h
       PROVE  b.s \in Fragment /\ InPlace(b, url, i, q, h, k + 1)
  <2>1. ~(k < p) /\ ~(k + 1 < p) /\ k < h /\ ~(k + 1 < h) /\ h - 1 = k /\ ~(q > h)
    BY <1>1, <1>2, <1>13
  <2>2. a.s \in Query /\ ch = "#"
    BY <1>3, <1>4, <1>13, <2>1 DEF StageAt, p
  <2>3. b.s = "s_req_fragment_start"
    BY <1>5, <1>6, <1>13, <2>2, PathGoesOn DEF Query, Fragment
  <2>4. pa = SubSeq(url, i, p - 1) /\ qa = SubSeq(url, q + 1, k)
    BY <1>4, <2>1 DEF PathAt, QueryAt, p
  <2>5. b.field["path"] = pa /\ b.field["query"] = qa
    BY <1>6, <2>3
  <2> QED
    BY <2>1, <2>3, <2>4, <2>5 DEF InPlace, StageAt, PathAt, QueryAt, p, Fragment
<1>14. ASSUME ch \in UrlText, h <= k
       PROVE  b.s \in Fragment /\ InPlace(b, url, i, q, h, k + 1)
  <2>1. ~(k < p) /\ ~(k + 1 < p) /\ ~(k < h) /\ ~(k + 1 < h)
    BY <1>1, <1>2, <1>14
  <2>2. a.s \in Fragment
    BY <1>4, <2>1 DEF StageAt, p
  <2>3. b.s \in Fragment
    BY <1>5, <1>6, <1>14, <2>2, PathGoesOn DEF Query, Fragment
  <2>4. b.field["path"] = pa /\ b.field["query"] = qa
    BY <1>6, <2>3 DEF Fragment
  <2> QED
    BY <1>4, <2>1, <2>3, <2>4 DEF InPlace, StageAt, PathAt, QueryAt, p
<1>15. k + 1 < p \/ k + 1 = p \/ (p <= k /\ k + 1 < h) \/ (p <= k /\ k + 1 = h) \/ h <= k
  BY <1>1, <1>2
<1>16. ch \in UrlText => /\ b.s \in {"s_req_path"} \cup Query \cup Fragment
                       /\ InPlace(b, url, i, q, h, k + 1)
  BY <1>10, <1>11, <1>12, <1>13, <1>14, <1>15
<1> QED
  BY <1>6, <1>16, <1>a DEF ch, StandsNext

\* Where the path begins: at its slash, or at the question mark that follows the host.
LEMMA PathBegins ==
  ASSUME NEW Y, NEW url \in Seq(Y), NEW i \in 1..Len(url), NEW q, NEW h, Cuts(url, i, q, h),
         NEW a, NEW b, a.field["path"] = << >>, a.field["query"] = << >>,
         \/ a.s = "s_req_spaces_before_url" /\ url[i] = "/"
         \/ a.s \in Server /\ url[i] \in {"/", "?", "#"},
         IsNext(b, a, url[i])
  PROVE  /\ url[i] = "#" => b.s = "s_dead"
         /\ url[i] = "/" => b.s = "s_req_path"
         /\ url[i] # "#" => InPlace(b, url, i, q, h, i)
<1> DEFINE ch == url[i]
           p == Smaller(q, h)
           n == Len(url)
<1>1. /\ n \in Nat /\ i \in Nat /\ i >= 1 /\ i <= n /\ q \in Nat /\ h \in Nat
      /\ i <= q /\ i <= h /\ q <= n + 1 /\ h <= n + 1
      /\ p \in Nat /\ i <= p /\ p <= q /\ p <= h
      /\ (~(q > h) => p = q) /\ (q > h => p = h)
  <2>1. i \in 1..(Len(url) + 1) /\ i <= n
    OBVIOUS
  <2> QED
    BY <2>1, CutNumbers
<1>2. /\ (q = h => q = n + 1)
      /\ (i < q => ch # "?") /\ (i < h => ch # "#")
      /\ (i = q => ch = "?") /\ (i = h => ch = "#")
  <2>1. (i < q => i \in i..(q - 1)) /\ (i < h => i \in i..(h - 1))
    BY <1>1
  <2> QED
    BY <1>1, <2>1 DEF Cuts
<1>3. /\ b.s = parse_url_char(a.s, ch)
      /\ b.field["path"] = IF b.s = "s_req_path" THEN Append(<< >>, ch) ELSE << >>
      /\ b.field["query"] = IF b.s = "s_req_query_string" THEN Append(<< >>, ch) ELSE << >>
  BY DEF IsNext
<1>4. SubSeq(url, i, i) = Append(<< >>, ch) /\ SubSeq(url, i, i - 1) = << >>
  <2>1. i - 1 \in 0..Len(url) /\ i <= (i - 1) + 1 /\ i - 1 < Len(url) /\ (i - 1) + 1 = i
        /\ i - 1 \in Int /\ i - 1 < i /\ i \in 1..(Len(url) + 1)
    BY <1>1
  <2>2. SubSeq(url, i, i - 1) = << >>
    BY <1>1, <2>1, EmptySlice
  <2>3. SubSeq(url, i, (i - 1) + 1) = Append(SubSeq(url, i, i - 1), url[(i - 1) + 1])
    BY <2>1, SliceGrows
  <2> QED
    BY <2>1, <2>2, <2>3
<1>5. SubSeq(url, q + 1, i) = << >>
  BY <1>1, EmptySlice
<1>6. a.s \in Server \/ (a.s = "s_req_spaces_before_url" /\ ch = "/")
  OBVIOUS
<1>7. ch \in {"/", "?", "#"}
  OBVIOUS
<1> HIDE DEF ch, p, n
<1>8. ASSUME ch = "/"
      PROVE  b.s = "s_req_path" /\ InPlace(b, url, i, q, h, i)
  <2>1. b.s = "s_req_path"
    BY <1>3, <1>6, <1>8, HostGoesOn
  <2>2. i < q /\ i < h /\ i < p
    BY <1>1, <1>2, <1>8
  <2>3. b.field["path"] = SubSeq(url, i, i) /\ b.field["query"] = << >>
    BY <1>3, <1>4, <2>1
  <2> QED
    BY <1>5, <2>1, <2>2, <2>3 DEF InPlace, StageAt, PathAt, QueryAt, p
<1>9. ASSUME ch = "?"
      PROVE  InPlace(b, url, i, q, h, i)
  <2>1. b.s = "s_req_query_string_start"
    BY <1>3, <1>6, <1>9, HostGoesOn
  <2>2. i = q /\ i < h /\ ~(i < p) /\ p = i /\ ~(q > h)
    BY <1>1, <1>2, <1>7, <1>9
  <2>3. b.field["path"] = << >> /\ b.field["query"] = << >>
    BY <1>3, <2>1
  <2> QED
    BY <1>4, <1>5, <2>1, <2>2, <2>3 DEF InPlace, StageAt, PathAt, QueryAt, p, Query
<1>10. ASSUME ch = "#"
       PROVE  b.s = "s_dead"
  BY <1>3, <1>6, <1>10, HostGoesOn
<1> QED
  BY <1>7, <1>8, <1>9, <1>10 DEF ch

\* At the end of the URL.
LEMMA PathEndsThere ==
  ASSUME NEW Y, NEW url \in Seq(Y), NEW i \in 1..Len(url), NEW q, NEW h, Cuts(url, i, q, h),
         NEW a, InPlace(a, url, i, q, h, Len(url))
  PROVE  a.field["path"] = PathOf(url, i) /\ a.field["query"] = QueryOf(url, i)
<1> DEFINE p == Smaller(q, h)
           n == Len(url)
<1>1. /\ n \in Nat /\ q \in Nat /\ h \in Nat /\ q <= n + 1 /\ h <= n + 1
      /\ p \in Nat /\ p <= q /\ p <= h
  <2>1. i \in 1..(Len(url) + 1)
    OBVIOUS
  <2> QED
    BY <2>1, CutNumbers
<1>2. PathOf(url, i) = SubSeq(url, i, p - 1)
  BY DEF PathOf, Cuts
<1>3. QueryOf(url, i) = IF q > h THEN << >> ELSE SubSeq(url, q + 1, h - 1)
  BY DEF QueryOf, Cuts
<1>4. a.field["path"] = PathAt(url, i, q, h, n) /\ a.field["query"] = QueryAt(url, q, h, n)
  BY DEF InPlace
<1> HIDE DEF n, p
<1>5. (n < p => p - 1 = n) /\ (n < h => h - 1 = n)
  BY <1>1
<1>6. PathAt(url, i, q, h, n) = SubSeq(url, i, p - 1)
  <2>1. (IF n < p THEN n ELSE p - 1) = p - 1
    BY <1>5
  <2> QED
    BY <2>1, Zenon DEF PathAt, p
<1>7. QueryAt(url, q, h, n) = IF q > h THEN << >> ELSE SubSeq(url, q + 1, h - 1)
  <2>1. (IF n < h THEN n ELSE h - 1) = h - 1
    BY <1>5
  <2> QED
    BY <2>1, Zenon DEF QueryAt
<1> QED
  BY <1>2, <1>3, <1>4, <1>6, <1>7, Zenon

\* What is made of the fields.
LEMMA UrlResult ==
  ASSUME NEW a, NEW url, NEW i
  PROVE  /\ ~IsUrl(a) => UrlTaken(UrlFound(a), code) = Refused
         /\ IsUrl(a) /\ a.field["path"] = << >> => UrlTaken(UrlFound(a), code) = Undefined
         /\ /\ IsUrl(a) /\ a.field["path"] # << >>
            /\ a.field["path"] = PathOf(url, i) /\ a.field["query"] = QueryOf(url, i)
            => UrlTaken(UrlFound(a), code) =
                 IF Decodable(PathOf(url, i)) THEN ReadAs(url, i) ELSE Refused
<1> DEFINE u == UrlFound(a)
<1>1. u.ok = IsUrl(a) /\ u.field.path = a.field["path"] /\ u.field.query = a.field["query"]
  BY DEF UrlFound
<1> HIDE DEF u
<1>2. ~IsUrl(a) => UrlTaken(u, code) = Refused
  BY <1>1 DEF UrlTaken
<1>3. IsUrl(a) /\ a.field["path"] = << >> => UrlTaken(u, code) = Undefined
  BY <1>1 DEF UrlTaken
<1>4. ASSUME IsUrl(a), a.field["path"] # << >>,
             a.field["path"] = PathOf(url, i), a.field["query"] = QueryOf(url, i)
      PROVE  UrlTaken(u, code) = IF Decodable(PathOf(url, i)) THEN ReadAs(url, i) ELSE Refused
  <2>1. UrlTaken(u, code) = UrlWith(clax_http_url_decode(PathOf(url, i), code), QueryOf(url, i), code)
    BY <1>1, <1>4 DEF UrlTaken
  <2>2. Decodable(PathOf(url, i)) <=> ~HasNul(clax_http_url_decode(PathOf(url, i), code))
    BY DEF Decodable, HasNul
  <2> QED
    BY <2>1, <2>2 DEF UrlWith, ReadAs
<1> QED
  BY <1>2, <1>3, <1>4 DEF u

\* A URL that begins with a slash.
LEMMA FromSlash ==
  ASSUME NEW Y, NEW url \in Seq(Y), Len(url) > 0, url[1] = "/"
  PROVE  on_http_parser_url(url, code) =
           IF (\A i \in 1..Len(url) : url[i] \in UrlText) /\ Decodable(PathOf(url, 1))
           THEN ReadAs(url, 1) ELSE Refused
<1> DEFINE n == Len(url)
<1>1. n \in Nat /\ n > 0 /\ 1 \in 1..n /\ 1 \in 1..(n + 1)
  OBVIOUS
<1>2. PICK v : AreUrls(v, url, Y) /\ http_parser_parse_url(url) = UrlFound(v[n])
  BY UrlValues
<1>3. PICK q, h : Cuts(url, 1, q, h)
  BY <1>1, CutsThere
<1> DEFINE Rights(k) == \A j \in 1..k : url[j] \in UrlText
           Bare(a) == a.field["schema"] = << >> /\ a.field["host"] = << >>
           Kept(k) == /\ Rights(k) => InPlace(v[k], url, 1, q, h, k) /\ Bare(v[k])
                      /\ ~Rights(k) => v[k].s = "s_dead"
           S == {k \in 0..n : k > 0 => Kept(k)}
<1>4. \A k \in 1..n : IsNext(v[k], v[k - 1], url[k])
  BY <1>2 DEF AreUrls
<1>5. Kept(1)
  <2>1. v[0].s = "s_req_spaces_before_url" /\ Bare(v[0])
        /\ v[0].field["path"] = << >> /\ v[0].field["query"] = << >>
    BY <1>2 DEF AreUrls, UrlStart, Fields
  <2>2. IsNext(v[1], v[0], url[1])
    <3>1. 1 - 1 = 0
      OBVIOUS
    <3> QED
      BY <1>1, <1>4, <3>1
  <2>3. v[1].s = "s_req_path" /\ InPlace(v[1], url, 1, q, h, 1)
    <3> DEFINE a == v[0]
               c == v[1]
    <3>1. /\ a.field["path"] = << >> /\ a.field["query"] = << >>
          /\ a.s = "s_req_spaces_before_url" /\ url[1] = "/" /\ IsNext(c, a, url[1])
      BY <2>1, <2>2
    <3>2. url[1] # "#"
      OBVIOUS
    <3> HIDE DEF a, c, n
    <3>3. 1 \in 1..Len(url)
      BY <1>1 DEF n
    <3>4. c.s = "s_req_path" /\ InPlace(c, url, 1, q, h, 1)
      BY <1>3, <3>1, <3>2, <3>3, PathBegins
    <3> QED
      BY <3>4 DEF c
  <2>4. Bare(v[1])
    BY <2>1, <2>2, <2>3 DEF IsNext
  <2>5. Rights(1)
    BY SlashAssumption DEF UrlText
  <2> QED
    BY <2>3, <2>4, <2>5
<1>6. ASSUME NEW k \in Nat, k < n, k \in S
      PROVE  k + 1 \in S
  <2>1. k + 1 \in 0..n /\ k + 1 \in 1..n /\ (k + 1) - 1 = k
    BY <1>1, <1>6
  <2>2. CASE k = 0
    BY <1>5, <2>1, <2>2
  <2>3. CASE k # 0
    <3>1. k \in 1..n /\ k > 0 /\ Kept(k)
      BY <1>6, <2>3
    <3>2. IsNext(v[k + 1], v[k], url[k + 1])
      BY <1>4, <2>1
    <3>3. Rights(k + 1) <=> Rights(k) /\ url[k + 1] \in UrlText
      <4>1. \A j \in 1..(k + 1) : j \in 1..k \/ j = k + 1
        BY <3>1
      <4>2. (\A j \in 1..k : j \in 1..(k + 1)) /\ k + 1 \in 1..(k + 1)
        BY <3>1
      <4> QED
        BY <4>1, <4>2, Zenon
    <3> HIDE DEF Rights
    <3>4. CASE Rights(k)
      <4>1. InPlace(v[k], url, 1, q, h, k) /\ Bare(v[k])
        BY <3>1, <3>4
      <4>2. /\ url[k + 1] \notin UrlText => v[k + 1].s = "s_dead"
            /\ url[k + 1] \in UrlText =>
                 /\ InPlace(v[k + 1], url, 1, q, h, k + 1)
                 /\ v[k + 1].field["schema"] = v[k].field["schema"]
                 /\ v[k + 1].field["host"] = v[k].field["host"]
        <5> DEFINE a == v[k]
                   c == v[k + 1]
        <5>1. InPlace(a, url, 1, q, h, k) /\ IsNext(c, a, url[k + 1])
          BY <3>2, <4>1
        <5> HIDE DEF a, c, Kept, S, Bare
        <5>2. Stands(a, url, 1, q, h, k) /\ k < Len(url)
          BY <1>1, <1>3, <1>6, <3>1, <5>1 DEF Stands
        <5>3. StandsNext(c, a, url, 1, q, h, k)
          BY <5>1, <5>2, Onward
        <5> QED
          BY <5>3 DEF StandsNext, a, c
      <4> QED
        BY <2>1, <3>3, <3>4, <4>1, <4>2
    <3>5. CASE ~Rights(k)
      <4>1. v[k].s = "s_dead"
        BY <3>1, <3>5
      <4>2. v[k + 1].s = "s_dead"
        BY <3>2, <4>1, HostGoesOn DEF IsNext
      <4> QED
        BY <2>1, <3>3, <3>5, <4>2
    <3> QED
      BY <3>4, <3>5
  <2> QED
    BY <2>2, <2>3
<1>7. n \in S
  <2>1. 0 \in S
    BY <1>1
  <2>2. \A k \in 0..n : k \in S
    <3> HIDE DEF S
    <3> QED
      BY <1>1, <1>6, <2>1, UpTo
  <2> QED
    BY <1>1, <2>2
<1>8. Kept(n)
  BY <1>1, <1>7
<1>9. on_http_parser_url(url, code) = UrlTaken(UrlFound(v[n]), code)
  BY <1>2 DEF on_http_parser_url
<1>10. CASE ~Rights(n)
  <2>1. ~IsUrl(v[n])
    BY <1>8, <1>10 DEF IsUrl
  <2>2. on_http_parser_url(url, code) = Refused
    BY <1>9, <2>1, UrlResult
  <2> QED
    BY <1>10, <2>2
<1>11. CASE Rights(n)
  <2>1. InPlace(v[n], url, 1, q, h, n) /\ Bare(v[n])
    BY <1>8, <1>11
  <2>2. v[n].field["path"] = PathOf(url, 1) /\ v[n].field["query"] = QueryOf(url, 1)
    BY <1>1, <1>3, <2>1, PathEndsThere
  <2>3. IsUrl(v[n])
    <3>1. v[n].s # "s_dead"
      BY <2>1 DEF InPlace, StageAt, Query, Fragment
    <3>2. v[n].field.schema = << >> /\ v[n].field.host = << >>
      BY <2>1
    <3> QED
      BY <3>1, <3>2 DEF IsUrl
  <2>4. PathOf(url, 1) # << >>
    <3> DEFINE p == FirstOf(url, {"?", "#"}, 1)
    <3>1. IsFirstOf(url, {"?", "#"}, 1, p)
      BY <1>1, FirstOfIs
    <3> HIDE DEF p
    <3>2. p \in 1..(n + 1) /\ p # 1
      BY <1>1, <3>1 DEF IsFirstOf
    <3>3. p - 1 \in Nat /\ 1 <= (p - 1) + 1 /\ p - 1 <= Len(url) /\ p - 1 > 0 /\ 1 \in Nat /\ 1 <= 1
          /\ ((p - 1) + 1) - 1 > 0
      BY <1>1, <3>2
    <3>4. IsSlice(SubSeq(url, 1, p - 1), url, 1, p - 1, Y)
      BY <3>3, Slice
    <3>5. Len(SubSeq(url, 1, p - 1)) > 0
      BY <3>3, <3>4 DEF IsSlice
    <3> DEFINE c == SubSeq(url, 1, p - 1)
    <3>6. c # << >>
      <4>1. Len(c) > 0 /\ Len(<< >>) = 0
        BY <3>5
      <4> HIDE DEF c
      <4> QED
        BY <4>1
    <3> QED
      BY <3>6 DEF PathOf, p
  <2>5. on_http_parser_url(url, code) = IF Decodable(PathOf(url, 1)) THEN ReadAs(url, 1) ELSE Refused
    BY <1>9, <2>2, <2>3, <2>4, UrlResult
  <2> QED
    BY <1>11, <2>5
<1> QED
  BY <1>10, <1>11

\* Before the path, k characters into a URL that begins with a schema.
HostStage(k) ==
  CASE k = 0 -> {"s_req_spaces_before_url"}
    [] k = 1 -> {"s_req_schema"}
    [] k = 2 -> {"s_req_schema_slash"}
    [] k = 3 -> {"s_req_schema_slash_slash"}
    [] OTHER -> Server

BeforePath(a, k) ==
  a.s \in HostStage(k) /\ a.field["path"] = << >> /\ a.field["query"] = << >>

HostAhead(url) == url[1] = "a" /\ url[2] = ":" /\ url[3] = "/" /\ url[4] = "/"

LEMMA HostRead ==
  ASSUME NEW url, NEW k \in Nat, NEW a, NEW b, HostAhead(url), BeforePath(a, k),
         k > 3 => url[k + 1] \notin {"/", "?", "#"}, IsNext(b, a, url[k + 1])
  PROVE  b.s = "s_dead" \/ BeforePath(b, k + 1)
<1> DEFINE ch == url[k + 1]
<1>1. a.s \in HostStage(k) /\ a.field["path"] = << >> /\ a.field["query"] = << >>
  BY DEF BeforePath
<1>2. b.s = parse_url_char(a.s, ch)
  BY DEF IsNext
<1>3. /\ k = 0 => ch = "a" /\ a.s = "s_req_spaces_before_url"
      /\ k = 1 => ch = ":" /\ a.s = "s_req_schema"
      /\ k = 2 => ch = "/" /\ a.s = "s_req_schema_slash"
      /\ k = 3 => ch = "/" /\ a.s = "s_req_schema_slash_slash"
      /\ k > 3 => ch \notin {"/", "?", "#"} /\ a.s \in Server
  BY <1>1 DEF HostStage, HostAhead
<1> HIDE DEF ch
<1>4. b.s = "s_dead" \/ b.s \in HostStage(k + 1)
  <2>1. CASE k = 0
    <3>1. b.s \in {"s_req_schema", "s_dead"}
      BY <1>2, <1>3, <2>1, HostGoesOn
    <3> QED
      BY <2>1, <3>1 DEF HostStage
  <2>2. CASE k = 1
    <3>1. b.s \in {"s_req_schema_slash", "s_dead"}
      BY <1>2, <1>3, <2>2, HostGoesOn
    <3> QED
      BY <2>2, <3>1 DEF HostStage
  <2>3. CASE k = 2
    <3>1. b.s \in {"s_req_schema_slash_slash", "s_dead"}
      BY <1>2, <1>3, <2>3, HostGoesOn
    <3> QED
      BY <2>3, <3>1 DEF HostStage
  <2>4. CASE k = 3
    <3>1. b.s \in {"s_req_server_start", "s_dead"}
      BY <1>2, <1>3, <2>4, HostGoesOn
    <3> QED
      BY <2>4, <3>1 DEF HostStage, Server
  <2>5. CASE k > 3
    <3>1. b.s \in Server \cup {"s_dead"}
      BY <1>2, <1>3, <2>5, HostGoesOn
    <3> QED
      BY <2>5, <3>1 DEF HostStage
  <2> QED
    BY <2>1, <2>2, <2>3, <2>4, <2>5
<1>5. b.s \in HostStage(k + 1) => b.s # "s_req_path" /\ b.s # "s_req_query_string"
  BY DEF HostStage, Server
<1>6. b.s \in HostStage(k + 1) => b.field["path"] = << >> /\ b.field["query"] = << >>
  BY <1>1, <1>5 DEF IsNext
<1> QED
  BY <1>4, <1>6 DEF BeforePath

\* A URL with a host.
LEMMA FromHost ==
  ASSUME NEW Y, NEW url \in Seq(Y), Len(url) >= 4, HostAhead(url),
         NEW from, from = FirstOf(url, {"/", "?", "#"}, 5)
  PROVE  on_http_parser_url(url, code)
           \in {Refused, IF PathOf(url, from) = << >> THEN Undefined ELSE ReadAs(url, from)}
<1> DEFINE n == Len(url)
<1>1. n \in Nat /\ n >= 4 /\ 5 \in 1..(n + 1)
  OBVIOUS
<1>2. PICK v : AreUrls(v, url, Y) /\ http_parser_parse_url(url) = UrlFound(v[n])
  BY UrlValues
<1>3. /\ from \in 5..(n + 1)
      /\ \A j \in 5..(from - 1) : url[j] \notin {"/", "?", "#"}
      /\ from <= n => url[from] \in {"/", "?", "#"}
  BY <1>1, FirstOfIs DEF IsFirstOf
<1>4. from \in 1..(n + 1) /\ from \in Nat /\ from >= 5
  BY <1>1, <1>3
<1>5. PICK q, h : Cuts(url, from, q, h)
  BY <1>4, CutsThere
<1> DEFINE Kept(k) == \/ v[k].s = "s_dead"
                      \/ k < from /\ BeforePath(v[k], k)
                      \/ Stands(v[k], url, from, q, h, k)
           S == {k \in 0..n : Kept(k)}
<1>6. \A k \in 1..n : IsNext(v[k], v[k - 1], url[k])
  BY <1>2 DEF AreUrls
<1> HIDE DEF n
<1>7. 0 \in S
  <2>1. BeforePath(v[0], 0)
    BY <1>2 DEF AreUrls, UrlStart, Fields, BeforePath, HostStage
  <2> QED
    BY <1>1, <1>4, <2>1
<1>8. ASSUME NEW k \in Nat, k < n, k \in S
      PROVE  k + 1 \in S
  <2> DEFINE a == v[k]
             b == v[k + 1]
  <2>1. k + 1 \in 0..n /\ k + 1 \in 1..n /\ (k + 1) - 1 = k
    BY <1>1, <1>8
  <2>2. IsNext(b, a, url[k + 1])
    <3>1. IsNext(v[k + 1], v[(k + 1) - 1], url[k + 1])
      BY <1>6, <2>1
    <3> QED
      BY <2>1, <3>1
  <2>3. a.s = "s_dead" \/ (k < from /\ BeforePath(a, k)) \/ Stands(a, url, from, q, h, k)
    BY <1>8
  <2> HIDE DEF a
  <2>4. CASE a.s = "s_dead"
    <3>1. b.s = "s_dead"
      BY <2>2, <2>4, HostGoesOn DEF IsNext
    <3> QED
      BY <2>1, <3>1
  <2>5. CASE k + 1 < from /\ BeforePath(a, k)
    <3>1. k > 3 => url[k + 1] \notin {"/", "?", "#"}
      <4>1. k > 3 => k + 1 \in 5..(from - 1)
        BY <1>4, <2>5
      <4> QED
        BY <1>3, <4>1
    <3> HIDE DEF b
    <3>2. b.s = "s_dead" \/ BeforePath(b, k + 1)
      BY <2>2, <2>5, <3>1, HostRead
    <3> QED
      BY <2>1, <2>5, <3>2 DEF b
  <2>6. CASE k + 1 = from /\ BeforePath(a, k)
    <3>1. a.s \in Server /\ a.field["path"] = << >> /\ a.field["query"] = << >>
      BY <1>4, <2>6 DEF BeforePath, HostStage
    <3>2. from \in 1..Len(url) /\ url[from] \in {"/", "?", "#"} /\ IsNext(b, a, url[from])
      BY <1>3, <2>1, <2>2, <2>6 DEF n
    <3> HIDE DEF b
    <3>3. /\ url[from] = "#" => b.s = "s_dead"
          /\ url[from] # "#" => InPlace(b, url, from, q, h, from)
      BY <1>5, <3>1, <3>2, PathBegins
    <3>4. url[from] # "#" => Stands(b, url, from, q, h, from)
      BY <1>5, <3>2, <3>3 DEF Stands
    <3> QED
      BY <2>1, <2>6, <3>3, <3>4 DEF b
  <2>7. CASE Stands(a, url, from, q, h, k)
    <3> HIDE DEF b
    <3>1. k < Len(url)
      BY <1>8 DEF n
    <3>2. StandsNext(b, a, url, from, q, h, k)
      BY <2>2, <2>7, <3>1, Onward
    <3>3. b.s = "s_dead" \/ InPlace(b, url, from, q, h, k + 1)
      BY <3>2 DEF StandsNext
    <3>4. from \in 1..Len(url) /\ k \in from..Len(url) /\ k + 1 \in from..Len(url)
      BY <1>4, <2>7, <3>1 DEF Stands
    <3>5. b.s = "s_dead" \/ Stands(b, url, from, q, h, k + 1)
      BY <1>5, <3>3, <3>4 DEF Stands
    <3> QED
      BY <2>1, <3>5 DEF b
  <2>8. k < from => k + 1 < from \/ k + 1 = from
    BY <1>4
  <2> QED
    BY <2>3, <2>4, <2>5, <2>6, <2>7, <2>8
<1>9. Kept(n)
  <2>1. \A k \in 0..n : k \in S
    <3> HIDE DEF S
    <3> QED
      BY <1>1, <1>7, <1>8, UpTo
  <2>2. n \in S
    BY <1>1, <2>1
  <2> QED
    BY <2>2
<1>10. on_http_parser_url(url, code) = UrlTaken(UrlFound(v[n]), code)
  BY <1>2 DEF on_http_parser_url
<1> DEFINE a == v[n]
<1> HIDE DEF a
<1>11. CASE ~IsUrl(a)
  <2>1. UrlTaken(UrlFound(a), code) = Refused
    BY <1>11, UrlResult
  <2> QED
    BY <1>10, <2>1 DEF a
<1>12. CASE IsUrl(a) /\ n < from /\ BeforePath(a, n)
  <2>1. a.field["path"] = << >>
    BY <1>12 DEF BeforePath
  <2>2. UrlTaken(UrlFound(a), code) = Undefined
    BY <1>12, <2>1, UrlResult
  <2>3. PathOf(url, from) = << >>
    <3> DEFINE p == FirstOf(url, {"?", "#"}, from)
    <3>1. p \in from..(n + 1)
      BY <1>4, FirstOfIs DEF IsFirstOf, n
    <3>2. p - 1 \in Int /\ p - 1 < from
      BY <1>1, <1>4, <1>12, <3>1
    <3> HIDE DEF p
    <3>3. SubSeq(url, from, p - 1) = << >>
      BY <1>4, <3>2, EmptySlice
    <3> QED
      BY <3>3 DEF PathOf, p
  <2> QED
    BY <1>10, <2>2, <2>3 DEF a
<1>13. CASE IsUrl(a) /\ Stands(a, url, from, q, h, n)
  <2>1. from \in 1..Len(url) /\ InPlace(a, url, from, q, h, Len(url))
    BY <1>13 DEF Stands, n
  <2>2. a.field["path"] = PathOf(url, from) /\ a.field["query"] = QueryOf(url, from)
    BY <1>5, <2>1, PathEndsThere
  <2>3. PathOf(url, from) = << >> => UrlTaken(UrlFound(a), code) = Undefined
    BY <1>13, <2>2, UrlResult
  <2>4. PathOf(url, from) # << >> =>
          UrlTaken(UrlFound(a), code) = IF Decodable(PathOf(url, from)) THEN ReadAs(url, from)
                                        ELSE Refused
    BY <1>13, <2>2, UrlResult
  <2> QED
    BY <1>10, <2>3, <2>4 DEF a
<1>14. IsUrl(a) => a.s # "s_dead"
  BY DEF IsUrl
<1>15. a.s = "s_dead" \/ (n < from /\ BeforePath(a, n)) \/ Stands(a, url, from, q, h, n)
  BY <1>9 DEF a
<1> QED
  BY <1>11, <1>12, <1>13, <1>14, <1>15

\* UrlRead, of a text.
LEMMA AllUrls ==
  ASSUME text \in Seq(alphabet)
  PROVE  UrlRead
<1> DEFINE Y == alphabet \cup {"a", ":", "/", "p"}
<1>1. text \in Seq(Y)
  BY Wider
<1>2. LET url == <<"/">> \o text
          right == \A i \in DOMAIN url : url[i] \in UrlChar \cup {"?", "#"}
      IN  on_http_parser_url(url, code) =
            IF right /\ Decodable(PathOf(url, 1)) THEN ReadAs(url, 1) ELSE Refused
  <2> DEFINE url == <<"/">> \o text
  <2>1. <<"/">> \in Seq(Y) /\ Len(<<"/">>) = 1
    OBVIOUS
  <2> HIDE DEF Y
  <2>2. IsJoin(url, <<"/">>, text, Y)
    BY <1>1, <2>1, Join
  <2> HIDE DEF url
  <2>3. url \in Seq(Y) /\ Len(url) > 0 /\ url[1] = "/"
    BY <1>1, <2>1, <2>2 DEF IsJoin
  <2>4. on_http_parser_url(url, code) =
          IF (\A i \in 1..Len(url) : url[i] \in UrlText) /\ Decodable(PathOf(url, 1))
          THEN ReadAs(url, 1) ELSE Refused
    BY <2>3, FromSlash
  <2>5. DOMAIN url = 1..Len(url)
    BY <2>3
  <2> QED
    BY <2>4, <2>5 DEF UrlText, url
<1>3. ASSUME NEW rest \in {<< >>, <<"/", "p">>}
      PROVE  LET url == <<"a", ":", "/", "/">> \o text \o rest
                 from == FirstOf(url, {"/", "?", "#"}, 5)
             IN  on_http_parser_url(url, code)
                   \in {Refused, IF PathOf(url, from) = << >> THEN Undefined ELSE ReadAs(url, from)}
  <2> DEFINE head == <<"a", ":", "/", "/">>
             front == head \o text
             url == front \o rest
             from == FirstOf(url, {"/", "?", "#"}, 5)
  <2>1. head \in Seq(Y) /\ Len(head) = 4 /\ HostAhead(head)
    BY DEF HostAhead
  <2>2. rest \in Seq(Y)
    <3>1. << >> \in Seq(Y) /\ <<"/", "p">> \in Seq(Y)
      OBVIOUS
    <3> QED
      BY <1>3, <3>1
  <2> HIDE DEF Y, head
  <2>3. IsJoin(front, head, text, Y)
    BY <1>1, <2>1, Join
  <2> HIDE DEF front
  <2>4. front \in Seq(Y) /\ Len(front) >= 4 /\ HostAhead(front)
    <3>1. 1 \in 1..Len(head) /\ 2 \in 1..Len(head) /\ 3 \in 1..Len(head) /\ 4 \in 1..Len(head)
      BY <2>1
    <3> QED
      BY <1>1, <2>1, <2>3, <3>1 DEF IsJoin, HostAhead
  <2>5. IsJoin(url, front, rest, Y)
    BY <2>2, <2>4, Join
  <2> HIDE DEF url
  <2>6. url \in Seq(Y) /\ Len(url) >= 4 /\ HostAhead(url)
    <3>1. 1 \in 1..Len(front) /\ 2 \in 1..Len(front) /\ 3 \in 1..Len(front) /\ 4 \in 1..Len(front)
      BY <2>4
    <3> QED
      BY <2>2, <2>4, <2>5, <3>1 DEF IsJoin, HostAhead
  <2> HIDE DEF from
  <2>7. from = FirstOf(url, {"/", "?", "#"}, 5)
    BY DEF from
  <2>8. on_http_parser_url(url, code)
          \in {Refused, IF PathOf(url, from) = << >> THEN Undefined ELSE ReadAs(url, from)}
    BY <2>6, <2>7, FromHost
  <2> QED
    BY <2>8 DEF from, url, front, head
<1> QED
  BY <1>2, <1>3 DEF UrlRead

-----------------------------------------------------------------------------
(* The theorems: what holds for every text is an invariant.                *)

TextInv ==
  /\ alphabet \in Alphabets
  /\ text \in Seq(alphabet)
  /\ code \in Codes

THEOREM TextIsText == Spec => []TextInv
<1>1. Init => TextInv
  BY DEF Init, TextInv
<1>2. TextInv /\ [Next]_vars => TextInv'
  BY DEF TextInv, Next, vars
<1> QED
  BY <1>1, <1>2, PTL DEF Spec

LEMMA OfKnown == TextInv => text \in Seq(Known)
  BY AlphabetsAssumption DEF TextInv

\* A form of two pairs is read as those pairs, whatever texts they are of, zero bytes aside
\* (clax_http_parse_urlencoded, clax_http_url_decode).
THEOREM FormsAreUndone == Spec => []FormUndone
<1>1. TextInv => FormUndone
  BY AllForms, AlphabetsAssumption, CodesAssumption DEF TextInv
<1> QED
  BY <1>1, TextIsText, PTL

\* A URL that begins with a slash gives the path and the parameters that were asked for, or
\* is refused, and it is known when; a URL with a host gives the path after that, if it is
\* not refused (on_http_parser_url, http_parser_parse_url).
THEOREM UrlsAreRead == Spec => []UrlRead
<1>1. TextInv => UrlRead
  BY AllUrls DEF TextInv
<1> QED
  BY <1>1, TextIsText, PTL

\* The checksum with the table is the remainder of the division by the polynomial, in
\* whatever pieces the text comes, and is read back from what is written of it
\* (clax_crc32_calc, clax_htol).
THEOREM ChecksumIsRemainder == Spec => []CrcAsDivided
<1>1. TextInv => CrcAsDivided
  BY OfKnown, AllCrcs
<1> QED
  BY <1>1, TextIsText, PTL

\* What is tidied has nothing left to tidy, and two tidy paths are joined by one slash
\* (clax_san_path, clax_strcatfile).
THEOREM PathsAreTidied == Spec => []PathClean
<1>1. TextInv => PathClean
  BY OfKnown, AllPaths
<1> QED
  BY <1>1, TextIsText, PTL

\* Of the names and passwords a header could stand for, only those before and after its
\* first colon are accepted, and none if there is a zero byte
\* (clax_http_check_basic_auth, base64_decode).
THEOREM CredentialsCompared == Spec => []OnlyTheRight
<1>1. TextInv => OnlyTheRight
  BY OfKnown, AllCredentials
<1> QED
  BY <1>1, TextIsText, PTL
=============================================================================
