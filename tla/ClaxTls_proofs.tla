--------------------------- MODULE ClaxTls_proofs ---------------------------
(***************************************************************************)
(* Theorems about ClaxTls.                                                 *)
(***************************************************************************)
EXTENDS ClaxTls, SequenceTheorems, NaturalsInduction, WellFoundedInduction, TLAPS

\* A set of numbers that is not empty has a least one.
LEMMA LeastExists ==
  ASSUME NEW S \in SUBSET Nat, S # {}
  PROVE  \E x \in S : \A y \in S : x <= y
<1>1. PICK x \in S : \A y \in S : <<y, x>> \notin OpToRel(<, Nat)
  BY NatLessThanWellFounded, WFMin, Zenon
<1>2. \A y \in S : ~(y < x)
  BY <1>1, Zenon DEF OpToRel
<1>3. \A y \in S : x <= y
  BY <1>2
<1> QED
  BY <1>3

-----------------------------------------------------------------------------
(* Sequences put together from pieces.                                     *)

\* What the pieces up to each one come to.
UpTo(pieces) ==
  LET flatten[i \in 1..Len(pieces)] ==
        IF i = 1 THEN pieces[i] ELSE flatten[i - 1] \o pieces[i]
  IN  flatten

\* f is that, up to piece n.
Flattens(f, pieces, n) ==
  f = [i \in 1..n |-> IF i = 1 THEN pieces[i] ELSE f[i - 1] \o pieces[i]]

FirstOf(pieces, n) == IF n = 0 THEN << >> ELSE UpTo(pieces)[n]

\* There is the function that puts together the first n of a sequence of sequences.
LEMMA UpToExists ==
  ASSUME NEW pieces, Len(pieces) \in Nat
  PROVE  Flattens(UpTo(pieces), pieces, Len(pieces))
<1> DEFINE Missing == {n \in 0..Len(pieces) : ~ \E f : Flattens(f, pieces, n)}
<1>1. ASSUME Missing # {} PROVE FALSE
  <2>1. Missing \in SUBSET Nat
    OBVIOUS
  <2>2. PICK n \in Missing : \A m \in Missing : n <= m
    <3> HIDE DEF Missing
    <3> QED
      BY <1>1, <2>1, LeastExists
  <2>3. n # 0
    <3>1. Flattens([i \in 1..0 |-> << >>], pieces, 0)
      BY DEF Flattens
    <3> QED
      BY <3>1
  <2>4. n \in Nat /\ n - 1 \in 0..Len(pieces) /\ n - 1 \notin Missing
    BY <2>2, <2>3
  <2>5. PICK f : Flattens(f, pieces, n - 1)
    BY <2>4
  <2> DEFINE g == [i \in 1..n |-> IF i < n THEN f[i]
                                  ELSE IF i = 1 THEN pieces[i] ELSE f[i - 1] \o pieces[i]]
  <2>6. ASSUME NEW i \in 1..n
        PROVE  g[i] = IF i = 1 THEN pieces[i] ELSE g[i - 1] \o pieces[i]
    <3>1. CASE i < n
      <4>1. i \in 1..(n - 1) /\ (i # 1 => i - 1 \in 1..n /\ i - 1 < n)
        BY <2>4, <3>1
      <4>2. f[i] = IF i = 1 THEN pieces[i] ELSE f[i - 1] \o pieces[i]
        BY <2>5, <4>1 DEF Flattens
      <4> QED
        BY <3>1, <4>1, <4>2
    <3>2. CASE ~(i < n)
      <4>1. i # 1 => i - 1 \in 1..n /\ i - 1 < n
        BY <2>4
      <4> QED
        BY <3>2, <4>1
    <3> QED
      BY <3>1, <3>2
  <2>7. g = [i \in 1..n |-> g[i]]
    OBVIOUS
  <2> HIDE DEF g
  <2>8. Flattens(g, pieces, n)
    BY <2>6, <2>7 DEF Flattens
  <2> QED
    BY <2>2, <2>8
<1>2. Len(pieces) \in 0..Len(pieces)
  OBVIOUS
<1>3. \E f : Flattens(f, pieces, Len(pieces))
  BY <1>1, <1>2
<1> HIDE DEF Missing
<1> QED
  BY <1>3 DEF UpTo, Flattens

\* Piece by piece, up to the whole.
LEMMA FirstOfStep ==
  ASSUME NEW S, NEW pieces \in Seq(Seq(S))
  PROVE  /\ FirstOf(pieces, 0) = << >>
         /\ \A n \in 1..Len(pieces) : FirstOf(pieces, n) = FirstOf(pieces, n - 1) \o pieces[n]
         /\ \A n \in 0..Len(pieces) : FirstOf(pieces, n) \in Seq(S)
         /\ FlattenSeq(pieces) = FirstOf(pieces, Len(pieces))
<1>1. Len(pieces) \in Nat /\ \A i \in 1..Len(pieces) : pieces[i] \in Seq(S)
  OBVIOUS
<1>2. FirstOf(pieces, 0) = << >>
  BY DEF FirstOf
<1>3. ASSUME NEW i \in 1..Len(pieces)
      PROVE  UpTo(pieces)[i] = IF i = 1 THEN pieces[i] ELSE UpTo(pieces)[i - 1] \o pieces[i]
  <2>1. Flattens(UpTo(pieces), pieces, Len(pieces))
    BY <1>1, UpToExists
  <2> QED
    BY <2>1 DEF Flattens
<1>4. ASSUME NEW n \in 1..Len(pieces)
      PROVE  FirstOf(pieces, n) = FirstOf(pieces, n - 1) \o pieces[n]
  <2>1. CASE n = 1
    <3>1. FirstOf(pieces, n) = pieces[n] /\ FirstOf(pieces, n - 1) = << >>
      BY <1>3, <2>1 DEF FirstOf
    <3>2. << >> \o pieces[n] = pieces[n]
      BY <1>1, ConcatEmptySeq
    <3> QED
      BY <3>1, <3>2
  <2>2. CASE n # 1
    <3>1. n # 0 /\ n - 1 # 0
      BY <1>1, <2>2
    <3>2. FirstOf(pieces, n) = UpTo(pieces)[n] /\ FirstOf(pieces, n - 1) = UpTo(pieces)[n - 1]
      BY <3>1 DEF FirstOf
    <3> QED
      BY <1>3, <2>2, <3>2
  <2> QED
    BY <2>1, <2>2
<1>5. \A n \in 0..Len(pieces) : FirstOf(pieces, n) \in Seq(S)
  <2> DEFINE Bad == {n \in 0..Len(pieces) : FirstOf(pieces, n) \notin Seq(S)}
  <2>1. ASSUME Bad # {} PROVE FALSE
    <3>1. Bad \in SUBSET Nat
      BY <1>1
    <3>2. PICK n \in Bad : \A m \in Bad : n <= m
      <4> HIDE DEF Bad
      <4> QED
        BY <2>1, <3>1, LeastExists
    <3>3. n # 0
      <4>1. FirstOf(pieces, 0) \in Seq(S)
        <5>1. << >> \in Seq(S)
          OBVIOUS
        <5> QED
          BY <1>2, <5>1
      <4> QED
        BY <3>2, <4>1
    <3>4. n \in 1..Len(pieces) /\ n - 1 \in 0..Len(pieces) /\ n - 1 \notin Bad
      BY <1>1, <3>2, <3>3
    <3>5. FirstOf(pieces, n - 1) \in Seq(S)
      BY <3>4
    <3>6. FirstOf(pieces, n) \in Seq(S)
      <4>1. FirstOf(pieces, n - 1) \o pieces[n] \in Seq(S)
        BY <1>1, <3>4, <3>5, ConcatProperties
      <4> QED
        BY <1>4, <3>4, <4>1
    <3> QED
      BY <3>2, <3>6
  <2> QED
    BY <2>1
<1>6. FlattenSeq(pieces) = FirstOf(pieces, Len(pieces))
  <2>1. CASE Len(pieces) = 0
    BY <2>1, <1>2 DEF FlattenSeq
  <2>2. CASE Len(pieces) # 0
    BY <2>2 DEF FlattenSeq, FirstOf, UpTo
  <2> QED
    BY <2>1, <2>2
<1> QED
  BY <1>2, <1>4, <1>5, <1>6

\* What is put together first stays in front.
LEMMA FirstOfPrefix ==
  ASSUME NEW S, NEW pieces \in Seq(Seq(S)), NEW n \in 0..Len(pieces)
  PROVE  IsPrefix(FirstOf(pieces, n), FlattenSeq(pieces))
<1> DEFINE F(m) == FirstOf(pieces, m)
           Bad == {m \in n..Len(pieces) : ~ IsPrefix(F(n), F(m))}
<1>1. /\ Len(pieces) \in Nat /\ n \in Nat
      /\ \A m \in 1..Len(pieces) : F(m) = F(m - 1) \o pieces[m]
      /\ \A m \in 0..Len(pieces) : F(m) \in Seq(S)
      /\ FlattenSeq(pieces) = F(Len(pieces))
  <2>1. Len(pieces) \in Nat /\ n \in Nat
    OBVIOUS
  <2>2. /\ \A m \in 1..Len(pieces) : FirstOf(pieces, m) = FirstOf(pieces, m - 1) \o pieces[m]
        /\ \A m \in 0..Len(pieces) : FirstOf(pieces, m) \in Seq(S)
        /\ FlattenSeq(pieces) = FirstOf(pieces, Len(pieces))
    BY FirstOfStep, Zenon
  <2> QED
    BY <2>1, <2>2
<1>2. \A m \in 1..Len(pieces) : pieces[m] \in Seq(S)
  OBVIOUS
<1>3. ASSUME Bad # {} PROVE FALSE
  <2>1. Bad \in SUBSET Nat
    BY <1>1
  <2>2. PICK m \in Bad : \A k \in Bad : m <= k
    <3> HIDE DEF Bad
    <3> QED
      BY <1>3, <2>1, LeastExists
  <2> HIDE DEF F
  <2>3. m # n
    <3>1. IsPrefix(F(n), F(n))
      BY <1>1 DEF IsPrefix
    <3> QED
      BY <2>2, <3>1
  <2>4. m \in 1..Len(pieces) /\ m - 1 \in n..Len(pieces) /\ m - 1 \notin Bad
    BY <1>1, <2>2, <2>3
  <2> DEFINE s == F(n)
             t == F(m - 1)
             p == pieces[m]
  <2>5. s \in Seq(S) /\ t \in Seq(S) /\ p \in Seq(S) /\ IsPrefix(s, t)
    BY <1>1, <1>2, <2>4
  <2>6. F(m) = t \o p
    BY <1>1, <2>4
  <2> HIDE DEF s, t, p
  <2>7. Len(s) \in Nat /\ Len(s) <= Len(t)
    BY <2>5 DEF IsPrefix
  <2>8. t \o p \in Seq(S) /\ Len(t \o p) >= Len(t)
    BY <2>5, ConcatProperties
  <2>9. SubSeq(t \o p, 1, Len(s)) = SubSeq(t, 1, Len(s))
    BY <2>5, <2>7, SubSeqOfConcat1
  <2>10. Len(s) <= Len(t \o p)
    BY <2>5, <2>7, <2>8
  <2>11. IsPrefix(s, t \o p)
    BY <2>5, <2>9, <2>10 DEF IsPrefix
  <2> QED
    BY <2>2, <2>6, <2>11 DEF s
<1>4. Len(pieces) \in n..Len(pieces)
  BY <1>1
<1> QED
  BY <1>1, <1>3, <1>4

-----------------------------------------------------------------------------
(* Records and units.                                                      *)

UnitsOf(s) == {u \in [rec : Nat, at : Nat] : u.rec \in DOMAIN s /\ u.at <= s[u.rec].size}

All(s) == [i \in DOMAIN s |-> Units(s, i)]
Pieces(s) == [i \in DOMAIN s |-> IF s[i].kind = "data" THEN Body(s, i) ELSE << >>]

\* A record of a script has its type.
LEMMA ScriptType ==
  ASSUME NEW s \in Scripts
  PROVE  /\ Len(s) \in Nat /\ DOMAIN s = 1..Len(s)
         /\ \A i \in DOMAIN s : s[i].size \in Nat \ {0}
<1>1. s \in Seq(Record)
  BY ScriptsAssumption
<1>2. Len(s) \in Nat /\ DOMAIN s = 1..Len(s)
  BY <1>1
<1>3. \A i \in DOMAIN s : s[i] \in Record
  <2> HIDE DEF Record
  <2> QED
    BY <1>1
<1> QED
  BY <1>2, <1>3 DEF Record

\* So have its units on the wire: a header first, then its data in order.
LEMMA UnitsType ==
  ASSUME NEW s \in Scripts, NEW i \in DOMAIN s
  PROVE  /\ Units(s, i) \in Seq(UnitsOf(s))
         /\ Len(Units(s, i)) = s[i].size + 1
         /\ \A k \in 1..(s[i].size + 1) : Units(s, i)[k] = [rec |-> i, at |-> k - 1]
         /\ Body(s, i) \in Seq(UnitsOf(s))
         /\ Len(Body(s, i)) = s[i].size
<1>1. s[i].size \in Nat \ {0} /\ i \in Nat
  BY ScriptType
<1> DEFINE n == s[i].size + 1
<1>2. n \in Nat /\ n > 1 /\ Units(s, i) = [k \in 1..n |-> [rec |-> i, at |-> k - 1]]
  BY <1>1 DEF Units
<1>3. \A k \in 1..n : [rec |-> i, at |-> k - 1] \in UnitsOf(s)
  BY <1>1 DEF UnitsOf
<1> DEFINE U == UnitsOf(s)
           u == Units(s, i)
<1>4. u = [k \in 1..n |-> [rec |-> i, at |-> k - 1]]
  BY <1>2
<1> HIDE DEF n, U, u
<1>5. \A k \in 1..n : u[k] = [rec |-> i, at |-> k - 1] /\ u[k] \in U
  BY <1>3, <1>4 DEF U
<1>6. u \in Seq(U) /\ Len(u) = n
  <2>1. u = [k \in 1..n |-> u[k]]
    BY <1>4
  <2> QED
    BY <1>2, <1>5, <2>1
<1>7. u # << >>
  BY <1>2, <1>6
<1>8. Tail(u) \in Seq(U) /\ Len(Tail(u)) = n - 1
  BY <1>6, <1>7, HeadTailProperties
<1>9. n - 1 = s[i].size
  BY <1>1 DEF n
<1> QED
  BY <1>5, <1>6, <1>8, <1>9 DEF n, U, u, Body

\* And the data that a script is to deliver.
LEMMA PiecesType ==
  ASSUME NEW s \in Scripts
  PROVE  /\ All(s) \in Seq(Seq(UnitsOf(s))) /\ Len(All(s)) = Len(s)
         /\ Pieces(s) \in Seq(Seq(UnitsOf(s))) /\ Len(Pieces(s)) = Len(s)
         /\ Stream(s) = FlattenSeq(All(s)) /\ Plaintext(s) = FlattenSeq(Pieces(s))
<1>1. Len(s) \in Nat /\ DOMAIN s = 1..Len(s)
  BY ScriptType
<1>2. \A i \in DOMAIN s : Units(s, i) \in Seq(UnitsOf(s)) /\ Body(s, i) \in Seq(UnitsOf(s))
  BY UnitsType
<1>3. << >> \in Seq(UnitsOf(s))
  OBVIOUS
<1>4. \A i \in DOMAIN s : (IF s[i].kind = "data" THEN Body(s, i) ELSE << >>) \in Seq(UnitsOf(s))
  BY <1>2, <1>3
<1> DEFINE U == Seq(UnitsOf(s))
<1> HIDE DEF U
<1>5. All(s) \in Seq(U) /\ Len(All(s)) = Len(s)
  BY <1>1, <1>2 DEF All, U
<1>6. Pieces(s) \in Seq(U) /\ Len(Pieces(s)) = Len(s)
  BY <1>1, <1>4 DEF Pieces, U
<1> QED
  BY <1>5, <1>6 DEF U, All, Pieces, Stream, Plaintext

\* The stream is a sequence of units.
LEMMA StreamType ==
  ASSUME NEW s \in Scripts
  PROVE  Stream(s) \in Seq(UnitsOf(s))
<1>1. Len(s) \in Nat
  BY ScriptType
<1>2. /\ All(s) \in Seq(Seq(UnitsOf(s))) /\ Len(All(s)) = Len(s)
      /\ Stream(s) = FlattenSeq(All(s))
  BY PiecesType
<1>3. FlattenSeq(All(s)) = FirstOf(All(s), Len(s)) /\ FirstOf(All(s), Len(s)) \in Seq(UnitsOf(s))
  <2>1. Len(s) \in 0..Len(All(s))
    BY <1>1, <1>2
  <2> QED
    BY <1>2, <2>1, FirstOfStep, Zenon
<1> QED
  BY <1>2, <1>3

-----------------------------------------------------------------------------
(* What is delivered.                                                      *)

TypeOK ==
  /\ script \in Scripts
  /\ wire \in Seq(UnitsOf(script))
  /\ ssl \in [buf : Seq(UnitsOf(script)), at : Nat, len : Int]
  /\ record \in Seq(UnitsOf(script))
  /\ decoded \in Seq(UnitsOf(script))
  /\ conn # "undefined" => delivered \in Seq(UnitsOf(script))
  /\ records \in 0..Len(script)
  /\ ssl_handshake_done \in BOOLEAN /\ gentle \in BOOLEAN
  /\ pc \in {"idle", "handshake", "read"}
  /\ conn \in {"open", "closed", "undefined"}

\* What was decoded is the data of the records that were taken, as long as anything is
\* known of the connection.
OInv ==
  /\ TypeOK
  /\ conn # "undefined" => delivered \o decoded = FirstOf(Pieces(script), records)

\* The record that is whole is the next of the script.
LEMMA WholeRecord ==
  ASSUME TypeOK, NEW kind, Whole(kind)
  PROVE  /\ records + 1 \in DOMAIN script
         /\ script[records + 1].kind = kind
         /\ record = Units(script, records + 1)
<1>1. record \in Seq(UnitsOf(script)) /\ record # << >> /\ Len(record) = Wanted
  BY DEF TypeOK, Whole
<1>2. 1 \in DOMAIN record /\ record[1] \in UnitsOf(script)
  BY <1>1
<1>3. record[1].rec = records + 1
  BY <1>2 DEF Whole, InSequence
<1>4. records + 1 \in DOMAIN script
  BY <1>2, <1>3 DEF UnitsOf
<1>5. Len(record) = script[records + 1].size + 1 /\ script[records + 1].size \in Nat
  BY <1>1, <1>3, <1>4, ScriptType DEF Wanted, TypeOK
<1>6. record = [k \in 1..Len(record) |-> record[k]] /\ DOMAIN record = 1..Len(record)
  BY <1>1
<1>7. \A k \in DOMAIN record : record[k] = [rec |-> records + 1, at |-> k - 1]
  BY DEF Whole, InSequence
<1>8. record = Units(script, records + 1)
  BY <1>5, <1>6, <1>7 DEF Units
<1> QED
  BY <1>4, <1>8 DEF Whole

\* A part of a sequence of units is one.
LEMMA PartType ==
  ASSUME NEW S, NEW q \in Seq(S), NEW m \in Nat, NEW n \in 0..Len(q)
  PROVE  SubSeq(q, m + 1, n) \in Seq(S)
<1>1. \A i \in (m + 1)..n : q[i] \in S
  OBVIOUS
<1> QED
  BY <1>1, SubSeqProperties

\* It has the units from where it begins.
LEMMA PartUnits ==
  ASSUME NEW S, NEW q \in Seq(S), NEW m \in Nat, NEW n \in Nat, m + n <= Len(q)
  PROVE  /\ SubSeq(q, m + 1, m + n) \in Seq(S)
         /\ Len(SubSeq(q, m + 1, m + n)) = n
         /\ \A k \in 1..n : SubSeq(q, m + 1, m + n)[k] = q[m + k]
<1> DEFINE p == SubSeq(q, m + 1, m + n)
<1>1. \A i \in (m + 1)..(m + n) : q[i] \in S
  OBVIOUS
<1>2. /\ p \in Seq(S)
      /\ Len(p) = IF m + 1 <= m + n THEN m + n - (m + 1) + 1 ELSE 0
      /\ \A i \in 1..(m + n - (m + 1) + 1) : p[i] = q[m + 1 + i - 1]
  BY <1>1, SubSeqProperties
<1> HIDE DEF p
<1>3. m + n - (m + 1) + 1 = n /\ (m + 1 <= m + n <=> n # 0)
  OBVIOUS
<1>4. \A i \in 1..n : m + 1 + i - 1 = m + i
  OBVIOUS
<1>5. Len(p) = n /\ \A k \in 1..n : p[k] = q[m + k]
  BY <1>2, <1>3, <1>4
<1> QED
  BY <1>2, <1>5 DEF p

\* clax_recv copies what it has, and no more than was asked for.
LEMMA FetchType ==
  ASSUME TypeOK, Fetch
  PROVE  /\ Wanted \in Nat /\ Wanted - Len(record) \in Nat \ {0}
         /\ Have(Wanted - Len(record)) \in 0..ssl.len
         /\ Have(Wanted - Len(record)) <= Wanted - Len(record)
         /\ record' \in Seq(UnitsOf(script))
         /\ ssl' \in [buf : Seq(UnitsOf(script)), at : Nat, len : Int]
<1> DEFINE len == Wanted - Len(record)
           have == Have(len)
           U == UnitsOf(script)
<1>1. record \in Seq(U) /\ ssl.buf \in Seq(U) /\ ssl.at \in Nat /\ ssl.len \in Int
  BY DEF TypeOK
<1>2. Wanted \in Nat
  <2>1. CASE record = << >>
    BY <2>1 DEF Wanted
  <2>2. CASE record # << >>
    <3>1. record[1] \in U
      BY <1>1, <2>2
    <3>2. record[1].rec \in DOMAIN script
      BY <3>1 DEF UnitsOf
    <3>3. script[record[1].rec].size \in Nat
      BY <3>2, ScriptType DEF TypeOK
    <3> QED
      BY <2>2, <3>3 DEF Wanted
  <2> QED
    BY <2>1, <2>2
<1>3. len \in Nat \ {0}
  BY <1>1, <1>2 DEF Fetch
<1>4. /\ ssl.len >= 0
      /\ ssl.at + ssl.len <= Len(ssl.buf) \/ ssl.len = 0
  BY DEF Fetch, CopyDefined
<1> HIDE DEF len
<1>5. have \in 0..ssl.len /\ have <= len
  BY <1>1, <1>3, <1>4 DEF Have, Least
<1> HIDE DEF have, U
<1>6. record' = record \o SubSeq(ssl.buf, ssl.at + 1, ssl.at + have)
  BY DEF Fetch, have, len
<1>7. SubSeq(ssl.buf, ssl.at + 1, ssl.at + have) \in Seq(U)
  <2>1. CASE have = 0
    <3>1. SubSeq(ssl.buf, ssl.at + 1, ssl.at + have) = << >>
      BY <1>1, <2>1, SubSeqEmpty
    <3>2. << >> \in Seq(U)
      OBVIOUS
    <3> QED
      BY <3>1, <3>2
  <2>2. CASE have # 0
    <3>1. ssl.at + have \in 0..Len(ssl.buf)
      BY <1>1, <1>4, <1>5, <2>2
    <3> QED
      BY <1>1, <3>1, PartType
  <2> QED
    BY <2>1, <2>2
<1>8. record' \in Seq(U)
  BY <1>1, <1>6, <1>7, ConcatProperties
<1>9. ssl' \in [buf : Seq(U), at : Nat, len : Int]
  <2>1. ssl' = [ssl EXCEPT !.at = @ + len, !.len = @ - len]
    BY DEF Fetch, Advanced, len
  <2>2. ssl \in [buf : Seq(U), at : Nat, len : Int]
    BY DEF TypeOK, U
  <2>3. ssl.at + len \in Nat /\ ssl.len - len \in Int
    BY <1>1, <1>3
  <2> QED
    BY <2>1, <2>2, <2>3
<1> QED
  BY <1>2, <1>3, <1>5, <1>8, <1>9 DEF len, have, U

\* A read brings a part of what was sent.
LEMMA ReadType ==
  ASSUME TypeOK, NEW n \in 1..Len(wire), Read(n)
  PROVE  TypeOK'
<1> DEFINE U == UnitsOf(script)
<1>1. wire \in Seq(U) /\ n \in 0..Len(wire) /\ Len(wire) \in 0..Len(wire) /\ n \in Nat /\ 0 \in Nat
  BY DEF TypeOK
<1> HIDE DEF U
<1>2. SubSeq(wire, 0 + 1, n) \in Seq(U)
  BY <1>1, PartType
<1>3. SubSeq(wire, n + 1, Len(wire)) \in Seq(U)
  BY <1>1, PartType
<1>4. ssl' \in [buf : Seq(U), at : Nat, len : Int] /\ wire' \in Seq(U)
  BY <1>1, <1>2, <1>3 DEF Read
<1>5. pc' \in {"idle", "handshake", "read"}
  BY DEF Read
<1>6. gentle' \in BOOLEAN
  BY DEF Read, TypeOK
<1> QED
  BY <1>4, <1>5, <1>6 DEF Read, TypeOK, U

\* A record that is whole is taken, and what was decoded of it is its data.
LEMMA TakesOrder ==
  ASSUME OInv, conn = "open", decoded = << >>, records + 1 \in DOMAIN script
  PROVE  LET kind == script[records + 1].kind
             piece == Pieces(script)[records + 1]
         IN  /\ records + 1 \in 0..Len(script)
             /\ delivered \o piece = FirstOf(Pieces(script), records + 1)
             /\ piece = IF kind = "data" THEN Tail(Units(script, records + 1)) ELSE << >>
             /\ piece \in Seq(UnitsOf(script))
             /\ kind # "data" => delivered \o decoded = FirstOf(Pieces(script), records + 1)
<1> DEFINE U == UnitsOf(script)
           r == records + 1
           piece == Pieces(script)[r]
<1>1. script \in Scripts /\ records \in Nat /\ delivered \in Seq(U)
  BY ScriptType DEF OInv, TypeOK
<1>2. /\ Pieces(script) \in Seq(Seq(U)) /\ Len(Pieces(script)) = Len(script)
      /\ Len(script) \in Nat /\ DOMAIN script = 1..Len(script)
  BY <1>1, PiecesType, ScriptType
<1>3. r \in 1..Len(Pieces(script)) /\ r \in 0..Len(script) /\ r - 1 = records
  BY <1>1, <1>2
<1>4. piece = IF script[r].kind = "data" THEN Tail(Units(script, r)) ELSE << >>
  BY DEF Pieces, Body
<1>5. delivered = FirstOf(Pieces(script), records)
  BY <1>1, ConcatEmptySeq DEF OInv
<1> HIDE DEF U, r
<1>6. piece \in Seq(U)
  BY <1>2, <1>3
<1>7. FirstOf(Pieces(script), r) = FirstOf(Pieces(script), r - 1) \o Pieces(script)[r]
  BY <1>2, <1>3, FirstOfStep
<1>8. delivered \o piece = FirstOf(Pieces(script), r)
  BY <1>3, <1>5, <1>7
<1>9. script[r].kind # "data" => delivered \o decoded = FirstOf(Pieces(script), r)
  BY <1>4, <1>8
<1> QED
  BY <1>3, <1>4, <1>6, <1>8, <1>9 DEF U, r

\* Every step keeps the order.
LEMMA OrderKept == OInv /\ [Next]_vars => OInv'
<1> SUFFICES ASSUME OInv, [Next]_vars PROVE OInv'
  OBVIOUS
<1> DEFINE U == UnitsOf(script)
<1>1. /\ TypeOK
      /\ conn = "open" => delivered \o decoded = FirstOf(Pieces(script), records)
  BY DEF OInv
<1>2. ASSUME NEW n \in 1..Len(wire), Read(n) PROVE OInv'
  <2>1. conn = "open" /\ UNCHANGED <<script, decoded, records, delivered, conn>>
    BY <1>2 DEF Read
  <2>2. TypeOK'
    BY <1>1, <1>2, ReadType
  <2> QED
    BY <1>1, <2>1, <2>2 DEF OInv, Pieces, Body, Units
<1>3. CASE ReadEof
  BY <1>1, <1>3 DEF ReadEof, OInv, TypeOK
<1>4. CASE Fetch
  <2>1. /\ record' \in Seq(UnitsOf(script))
        /\ ssl' \in [buf : Seq(UnitsOf(script)), at : Nat, len : Int]
    BY <1>1, <1>4, FetchType
  <2>2. UNCHANGED <<script, wire, decoded, records, ssl_handshake_done, delivered, conn, gentle>>
    BY <1>4 DEF Fetch
  <2>3. pc' \in {"idle", "handshake", "read"}
    BY <1>1, <1>4 DEF Fetch, TypeOK
  <2> QED
    BY <1>1, <2>1, <2>2, <2>3 DEF OInv, TypeOK
<1>5. CASE FetchUndefined
  BY <1>1, <1>5 DEF FetchUndefined, OInv, TypeOK
<1>6. CASE BadRecord
  <2>1. UNCHANGED <<script, wire, ssl, record, decoded, records, ssl_handshake_done, gentle>>
    BY <1>6 DEF BadRecord
  <2>2. pc' = "idle" /\ conn = "open"
    BY <1>6 DEF BadRecord, Running
  <2>3. CASE conn' = "closed" /\ delivered' = delivered
    BY <1>1, <2>1, <2>2, <2>3 DEF OInv, TypeOK, Pieces, Body, Units
  <2>4. CASE conn' = "undefined"
    BY <1>1, <2>1, <2>2, <2>4 DEF OInv, TypeOK
  <2> QED
    BY <1>6, <2>3, <2>4 DEF BadRecord
<1>7. CASE Handshake
  <2>1. records + 1 \in DOMAIN script /\ script[records + 1].kind = "handshake"
    BY <1>1, <1>7, WholeRecord DEF Handshake
  <2>2. decoded = << >> /\ conn = "open"
    BY <1>7 DEF Handshake, Whole, Running
  <2>3. /\ records + 1 \in 0..Len(script)
        /\ delivered \o decoded = FirstOf(Pieces(script), records + 1)
    BY <2>1, <2>2, TakesOrder
  <2>4. /\ record' = << >> /\ records' = records + 1
        /\ UNCHANGED <<script, wire, ssl, decoded, delivered, conn, gentle>>
    BY <1>7 DEF Handshake
  <2>5. pc' \in {"idle", "handshake", "read"} /\ ssl_handshake_done' \in BOOLEAN
    BY <1>7 DEF Handshake, AfterHandshakeRecord
  <2>6. TypeOK'
    BY <1>1, <2>3, <2>4, <2>5 DEF TypeOK
  <2>7. (delivered \o decoded)' = FirstOf(Pieces(script), records')
    BY <2>3, <2>4
  <2> QED
    BY <2>4, <2>6, <2>7 DEF OInv, Pieces, Body, Units
<1>8. CASE Decode
  <2>1. /\ records + 1 \in DOMAIN script /\ script[records + 1].kind = "data"
        /\ record = Units(script, records + 1)
    BY <1>1, <1>8, WholeRecord DEF Decode
  <2>2. decoded = << >> /\ conn = "open"
    BY <1>8 DEF Decode, Whole, Running
  <2>3. /\ records + 1 \in 0..Len(script)
        /\ delivered \o Tail(record) = FirstOf(Pieces(script), records + 1)
        /\ Tail(record) \in Seq(U)
    BY <2>1, <2>2, TakesOrder
  <2>4. /\ record' = << >> /\ records' = records + 1 /\ decoded' = Tail(record)
        /\ UNCHANGED <<script, wire, ssl, ssl_handshake_done, pc, delivered, conn, gentle>>
    BY <1>8 DEF Decode
  <2>5. TypeOK'
    BY <1>1, <2>3, <2>4 DEF TypeOK
  <2>6. (delivered \o decoded)' = FirstOf(Pieces(script), records')
    BY <2>3, <2>4
  <2> QED
    BY <2>4, <2>5, <2>6 DEF OInv, Pieces, Body, Units
<1>9. CASE CloseNotify
  <2>1. records + 1 \in DOMAIN script /\ script[records + 1].kind = "close"
    BY <1>1, <1>9, WholeRecord DEF CloseNotify
  <2>2. decoded = << >> /\ conn = "open"
    BY <1>9 DEF CloseNotify, Whole, Running
  <2>3. /\ records + 1 \in 0..Len(script)
        /\ delivered \o decoded = FirstOf(Pieces(script), records + 1)
    BY <2>1, <2>2, TakesOrder
  <2>4. /\ record' = << >> /\ records' = records + 1 /\ conn' = "closed" /\ pc' = "idle"
        /\ UNCHANGED <<script, wire, ssl, decoded, ssl_handshake_done, delivered, gentle>>
    BY <1>9 DEF CloseNotify
  <2>5. TypeOK'
    BY <1>1, <2>2, <2>3, <2>4 DEF TypeOK
  <2>6. (delivered \o decoded)' = FirstOf(Pieces(script), records')
    BY <2>3, <2>4
  <2> QED
    BY <2>4, <2>5, <2>6 DEF OInv, Pieces, Body, Units
<1>10. CASE Deliver
  <2> DEFINE n == Least(Limit, Len(decoded))
             now == SubSeq(decoded, 1, n)
             later == SubSeq(decoded, n + 1, Len(decoded))
  <2>1. decoded \in Seq(U) /\ delivered \in Seq(U) /\ conn = "open"
    BY <1>1, <1>10 DEF TypeOK, Deliver
  <2>2. n \in 0..Len(decoded)
    BY <2>1, LimitAssumption DEF Least
  <2>3. /\ delivered' = delivered \o now /\ decoded' = later /\ pc' = "idle"
        /\ UNCHANGED <<script, wire, ssl, record, records, ssl_handshake_done, conn, gentle>>
    BY <1>10 DEF Deliver, Decoded
  <2> HIDE DEF n, U
  <2>4. now \in Seq(U) /\ later \in Seq(U)
    <3>1. SubSeq(decoded, 0 + 1, n) \in Seq(U)
      BY <2>1, <2>2, PartType
    <3>2. SubSeq(decoded, n + 1, Len(decoded)) \in Seq(U)
      BY <2>1, <2>2, PartType
    <3> QED
      BY <3>1, <3>2
  <2>5. now \o later = decoded
    <3>1. 1 \in 1..(Len(decoded) + 1) /\ n \in (1 - 1)..Len(decoded) /\ Len(decoded) \in n..Len(decoded)
      BY <2>1, <2>2
    <3>2. now \o later = SubSeq(decoded, 1, Len(decoded))
      BY <2>1, <3>1, ConcatAdjacentSubSeq
    <3> QED
      BY <2>1, <3>2, SubSeqFull
  <2> HIDE DEF now, later
  <2>6. (delivered \o now) \o later = delivered \o decoded
    <3>1. (delivered \o now) \o later = delivered \o (now \o later)
      BY <2>1, <2>4, ConcatAssociative
    <3> QED
      BY <2>5, <3>1
  <2>7. delivered' \in Seq(U) /\ decoded' \in Seq(U)
    BY <2>1, <2>3, <2>4, ConcatProperties
  <2> QED
    BY <1>1, <2>3, <2>6, <2>7 DEF OInv, TypeOK, U
<1>11. CASE UNCHANGED vars
  BY <1>1, <1>11 DEF OInv, TypeOK, vars
<1> QED
  BY <1>2, <1>3, <1>4, <1>5, <1>6, <1>7, <1>8, <1>9, <1>10, <1>11 DEF Next, Callback

\* At the start nothing is delivered.
LEMMA InitOrder == Init => OInv
<1> SUFFICES ASSUME Init PROVE OInv
  OBVIOUS
<1>1. Stream(script) \in Seq(UnitsOf(script)) /\ Len(script) \in Nat
  BY StreamType, ScriptType DEF Init
<1>2. << >> \in Seq(UnitsOf(script))
  OBVIOUS
<1>3. TypeOK
  <2>1. ssl \in [buf : Seq(UnitsOf(script)), at : Nat, len : Int]
    BY <1>2 DEF Init
  <2>2. records \in 0..Len(script)
    BY <1>1 DEF Init
  <2> QED
    BY <1>1, <1>2, <2>1, <2>2 DEF Init, TypeOK
<1>4. << >> \o << >> = << >>
  BY <1>2, ConcatEmptySeq
<1> QED
  BY <1>3, <1>4 DEF Init, OInv, FirstOf

\* What was decoded is in order in every reachable state.
LEMMA OrderInvariant == Spec => []OInv
  BY InitOrder, OrderKept, PTL DEF Spec

\* The parser is given what the client wrote, in order and without a gap
\* (clax_conn_uv_read_cb, clax_recv), until a copy out of bounds or a failed read makes
\* the connection undefined, for all that clients may send and however it is read.
THEOREM DeliveredInOrder == Spec => []InOrder
<1>1. OInv => InOrder
  <2> SUFFICES ASSUME OInv, conn # "undefined" PROVE InOrder
    BY DEF InOrder
  <2> DEFINE U == UnitsOf(script)
             pieces == Pieces(script)
  <2>1. /\ script \in Scripts /\ records \in 0..Len(script)
        /\ delivered \in Seq(U) /\ decoded \in Seq(U)
        /\ delivered \o decoded = FirstOf(pieces, records)
    BY DEF OInv, TypeOK
  <2>2. /\ pieces \in Seq(Seq(U)) /\ Len(pieces) = Len(script)
        /\ Plaintext(script) = FlattenSeq(pieces)
    BY <2>1, PiecesType
  <2> HIDE DEF U, pieces
  <2>3. IsPrefix(delivered \o decoded, Plaintext(script))
    BY <2>1, <2>2, FirstOfPrefix
  <2>4. /\ Len(delivered) \in Nat /\ Len(delivered) <= Len(delivered \o decoded)
        /\ Len(delivered \o decoded) \in Nat
        /\ SubSeq(delivered \o decoded, 1, Len(delivered)) = delivered
    <3>1. Len(delivered) \in Nat /\ Len(decoded) \in Nat
      BY <2>1
    <3>2. Len(delivered \o decoded) = Len(delivered) + Len(decoded)
      BY <2>1, ConcatProperties
    <3>3. SubSeq(delivered \o decoded, 1, Len(delivered)) = SubSeq(delivered, 1, Len(delivered))
      BY <2>1, <3>1, SubSeqOfConcat1
    <3>4. SubSeq(delivered, 1, Len(delivered)) = delivered
      BY <2>1, SubSeqFull
    <3> QED
      BY <3>1, <3>2, <3>3, <3>4
  <2> QED
    BY <2>3, <2>4 DEF InOrder, IsPrefix
<1> QED
  BY <1>1, OrderInvariant, PTL

-----------------------------------------------------------------------------
(* The order of the stream.                                                *)

\* The unit that comes after u.
After(s, u) ==
  IF u.at < s[u.rec].size THEN [rec |-> u.rec, at |-> u.at + 1]
  ELSE [rec |-> u.rec + 1, at |-> 0]

Consecutive(s, w) == \A k \in 1..(Len(w) - 1) : w[k + 1] = After(s, w[k])
Starts(w, i) == w # << >> => w[1] = [rec |-> i, at |-> 0]

\* The units of a record are consecutive.
LEMMA UnitsConsecutive ==
  ASSUME NEW s \in Scripts, NEW i \in DOMAIN s
  PROVE  /\ Consecutive(s, Units(s, i)) /\ Units(s, i) # << >>
         /\ Units(s, i)[1] = [rec |-> i, at |-> 0]
         /\ Units(s, i)[Len(Units(s, i))] = [rec |-> i, at |-> s[i].size]
<1> DEFINE n == s[i].size
           u == Units(s, i)
<1>1. n \in Nat \ {0}
  BY ScriptType
<1>2. /\ Len(u) = n + 1 /\ u \in Seq(UnitsOf(s))
      /\ \A k \in 1..(n + 1) : u[k] = [rec |-> i, at |-> k - 1]
  BY UnitsType
<1> HIDE DEF u
<1>3. ASSUME NEW k \in 1..(Len(u) - 1) PROVE u[k + 1] = After(s, u[k])
  <2>1. k \in 1..n /\ k + 1 \in 1..(n + 1) /\ k \in 1..(n + 1) /\ k - 1 < n
    BY <1>1, <1>2
  <2>2. u[k] = [rec |-> i, at |-> k - 1] /\ u[k + 1] = [rec |-> i, at |-> (k + 1) - 1]
    BY <1>2, <2>1
  <2>3. (k + 1) - 1 = (k - 1) + 1
    BY <1>1, <2>1
  <2> QED
    BY <2>1, <2>2, <2>3 DEF After
<1>4. 1 \in 1..(n + 1) /\ n + 1 \in 1..(n + 1) /\ (n + 1) - 1 = n /\ 1 - 1 = 0
  BY <1>1
<1>5. u[1] = [rec |-> i, at |-> 0] /\ u[Len(u)] = [rec |-> i, at |-> n]
  BY <1>2, <1>4
<1>6. u # << >>
  BY <1>1, <1>2
<1> QED
  BY <1>3, <1>5, <1>6 DEF Consecutive, u

\* Two sequences are if they are, and the second goes on where the first ends.
LEMMA JoinConsecutive ==
  ASSUME NEW s, NEW S, NEW u \in Seq(S), NEW v \in Seq(S), u # << >>, v # << >>,
         Consecutive(s, u), Consecutive(s, v), v[1] = After(s, u[Len(u)])
  PROVE  /\ Consecutive(s, u \o v) /\ u \o v # << >>
         /\ (u \o v)[1] = u[1]
         /\ (u \o v)[Len(u \o v)] = v[Len(v)]
<1> DEFINE m == Len(u)
           n == Len(v)
           w == u \o v
<1>1. m \in Nat \ {0} /\ n \in Nat \ {0}
  OBVIOUS
<1>2. /\ Len(w) = m + n
      /\ \A i \in 1..(m + n) : w[i] = IF i <= m THEN u[i] ELSE v[i - m]
  BY ConcatProperties
<1>3. w # << >>
  <2>1. w \in Seq(S)
    BY ConcatProperties
  <2> QED
    BY <1>1, <1>2, <2>1
<1> HIDE DEF m, n, w
<1>4. w[1] = u[1] /\ w[Len(w)] = v[n]
  <2>1. 1 \in 1..(m + n) /\ 1 <= m /\ m + n \in 1..(m + n) /\ ~(m + n <= m) /\ (m + n) - m = n
    BY <1>1
  <2> QED
    BY <1>2, <2>1
<1>5. ASSUME NEW k \in 1..(Len(w) - 1) PROVE w[k + 1] = After(s, w[k])
  <2>1. k \in 1..(m + n) /\ k + 1 \in 1..(m + n)
    BY <1>1, <1>2
  <2>2. CASE k < m
    <3>1. k <= m /\ k + 1 <= m /\ k \in 1..(Len(u) - 1)
      BY <1>1, <2>1, <2>2 DEF m
    <3> QED
      BY <1>2, <2>1, <3>1 DEF Consecutive
  <2>3. CASE k = m
    <3>1. k <= m /\ ~(k + 1 <= m) /\ (k + 1) - m = 1
      BY <1>1, <2>3
    <3> QED
      BY <1>2, <2>1, <2>3, <3>1 DEF m
  <2>4. CASE k > m
    <3>1. ~(k <= m) /\ ~(k + 1 <= m) /\ (k + 1) - m = (k - m) + 1 /\ k - m \in 1..(Len(v) - 1)
      BY <1>1, <1>2, <2>1, <2>4 DEF n
    <3> QED
      BY <1>2, <2>1, <3>1 DEF Consecutive
  <2> QED
    BY <1>1, <2>1, <2>2, <2>3, <2>4
<1> QED
  BY <1>3, <1>4, <1>5 DEF Consecutive, w, n

\* The units of a stream are consecutive, from the first header on.
LEMMA StreamConsecutive ==
  ASSUME NEW s \in Scripts
  PROVE  Consecutive(s, Stream(s)) /\ Starts(Stream(s), 1)
<1> DEFINE F(n) == FirstOf(All(s), n)
           U == UnitsOf(s)
           Fine(n) == /\ Consecutive(s, F(n)) /\ Starts(F(n), 1)
                      /\ n > 0 => F(n) # << >> /\ F(n)[Len(F(n))] = [rec |-> n, at |-> s[n].size]
           Bad == {n \in 0..Len(s) : ~Fine(n)}
<1>1. /\ Len(s) \in Nat /\ DOMAIN s = 1..Len(s)
      /\ All(s) \in Seq(Seq(U)) /\ Len(All(s)) = Len(s)
      /\ Stream(s) = FlattenSeq(All(s))
  BY ScriptType, PiecesType
<1>2. /\ F(0) = << >>
      /\ \A n \in 1..Len(s) : F(n) = F(n - 1) \o All(s)[n]
      /\ \A n \in 0..Len(s) : F(n) \in Seq(U)
      /\ Stream(s) = F(Len(s))
  <2> HIDE DEF U
  <2> QED
    BY <1>1, FirstOfStep
<1>3. ASSUME Bad # {} PROVE FALSE
  <2>1. Bad \in SUBSET Nat
    BY <1>1
  <2>2. PICK n \in Bad : \A m \in Bad : n <= m
    <3> HIDE DEF Bad
    <3> QED
      BY <1>3, <2>1, LeastExists
  <2>3. n # 0
    <3>1. Fine(0)
      BY <1>2 DEF Consecutive, Starts
    <3> QED
      BY <2>2, <3>1
  <2>4. n \in 1..Len(s) /\ n - 1 \in 0..Len(s) /\ Fine(n - 1)
    <3>1. n \in 0..Len(s)
      BY <2>2
    <3>2. n \in 1..Len(s) /\ n - 1 \in 0..Len(s) /\ ~(n <= n - 1)
      BY <1>1, <2>3, <3>1
    <3>3. n - 1 \notin Bad
      <4> HIDE DEF Bad
      <4> QED
        BY <2>2, <3>2
    <3> QED
      BY <3>2, <3>3
  <2> DEFINE u == F(n - 1)
             v == Units(s, n)
  <2>5. /\ u \in Seq(U) /\ v \in Seq(U) /\ F(n) = u \o v
        /\ v[1] = [rec |-> n, at |-> 0] /\ v # << >> /\ Consecutive(s, v)
        /\ v[Len(v)] = [rec |-> n, at |-> s[n].size]
    <3>1. n \in DOMAIN s
      BY <1>1, <2>4
    <3>2. All(s)[n] = v
      BY <3>1 DEF All
    <3>3. v \in Seq(U)
      BY <3>1, UnitsType
    <3>4. /\ v[1] = [rec |-> n, at |-> 0] /\ v # << >> /\ Consecutive(s, v)
          /\ v[Len(v)] = [rec |-> n, at |-> s[n].size]
      BY <3>1, UnitsConsecutive
    <3>5. u \in Seq(U) /\ F(n) = u \o v
      BY <1>2, <2>4, <3>2
    <3> QED
      BY <3>3, <3>4, <3>5
  <2>6. CASE n = 1
    <3>1. u = << >> /\ u \o v = v
      BY <1>2, <2>5, <2>6, ConcatEmptySeq
    <3>2. F(n) = v
      BY <2>5, <3>1
    <3>3. Fine(n)
      <4> HIDE DEF F, v
      <4> QED
        BY <2>5, <2>6, <3>2 DEF Starts
    <3> QED
      BY <2>2, <3>3
  <2>7. CASE n # 1
    <3>1. n - 1 > 0 /\ (n - 1) + 1 = n /\ n - 1 \in DOMAIN s
      BY <1>1, <2>4, <2>7
    <3>2. u # << >> /\ u[Len(u)] = [rec |-> n - 1, at |-> s[n - 1].size] /\ Consecutive(s, u)
          /\ u[1] = [rec |-> 1, at |-> 0]
      BY <2>4, <3>1 DEF Starts
    <3>3. After(s, u[Len(u)]) = [rec |-> n, at |-> 0]
      <4>1. s[n - 1].size \in Nat
        BY <3>1, ScriptType
      <4>2. ~(s[n - 1].size < s[n - 1].size)
        BY <4>1
      <4> QED
        BY <3>1, <3>2, <4>2 DEF After
    <3> HIDE DEF u, v, U, F
    <3>4. /\ Consecutive(s, u \o v) /\ u \o v # << >>
          /\ (u \o v)[1] = u[1]
          /\ (u \o v)[Len(u \o v)] = v[Len(v)]
      BY <2>5, <3>2, <3>3, JoinConsecutive
    <3>5. Fine(n)
      BY <2>5, <3>2, <3>4 DEF Starts
    <3> QED
      BY <2>2, <3>5
  <2> QED
    BY <2>6, <2>7
<1>4. Fine(Len(s))
  BY <1>1, <1>3
<1> QED
  BY <1>2, <1>4

\* A sequence of units that ends with a record has the whole of one that begins in it.
LEMMA RecordWithin ==
  ASSUME NEW s \in Scripts, NEW w \in Seq(UnitsOf(s)), Consecutive(s, w),
         w[Len(w)].at = s[w[Len(w)].rec].size,
         NEW k \in 1..Len(w), NEW r, w[k] = [rec |-> r, at |-> 0]
  PROVE  /\ r \in DOMAIN s
         /\ k + s[r].size <= Len(w)
         /\ \A i \in 0..s[r].size : w[k + i] = [rec |-> r, at |-> i]
<1>1. Len(w) \in Nat /\ k \in Nat /\ w[k] \in UnitsOf(s)
  OBVIOUS
<1>2. r \in DOMAIN s
  BY <1>1 DEF UnitsOf
<1> DEFINE n == s[r].size
           Bad == {i \in 0..n : ~(k + i <= Len(w) /\ w[k + i] = [rec |-> r, at |-> i])}
<1>3. n \in Nat \ {0}
  BY <1>2, ScriptType
<1>4. ASSUME Bad # {} PROVE FALSE
  <2>1. Bad \in SUBSET Nat
    BY <1>3
  <2>2. PICK i \in Bad : \A j \in Bad : i <= j
    <3> HIDE DEF Bad
    <3> QED
      BY <1>4, <2>1, LeastExists
  <2>3. i # 0
    BY <1>1, <2>2
  <2> DEFINE j == i - 1
  <2>4. j \in 0..n /\ j < n /\ i = j + 1 /\ j \notin Bad
    <3>1. i \in 0..n
      BY <2>2
    <3> HIDE DEF n
    <3>2. j \in 0..n /\ j < n /\ i = j + 1 /\ ~(i <= j)
      BY <1>3, <2>3, <3>1
    <3>3. j \notin Bad
      <4> HIDE DEF Bad
      <4> QED
        BY <2>2, <3>2
    <3> QED
      BY <3>2, <3>3
  <2>5. k + j <= Len(w) /\ w[k + j] = [rec |-> r, at |-> j]
    BY <2>4
  <2> HIDE DEF n, j
  <2>6. k + j # Len(w)
    <3>1. w[k + j].at = j /\ w[k + j].rec = r
      BY <2>5
    <3>2. j # n
      BY <1>3, <2>4
    <3> QED
      BY <3>1, <3>2 DEF n
  <2>7. k + j \in 1..(Len(w) - 1) /\ k + i = (k + j) + 1 /\ k + i <= Len(w)
    <3>1. j \in Nat
      BY <1>3, <2>4
    <3> QED
      BY <1>1, <2>4, <2>5, <2>6, <3>1
  <2>8. w[k + i] = After(s, w[k + j])
    BY <2>7 DEF Consecutive
  <2>9. After(s, w[k + j]) = [rec |-> r, at |-> i]
    BY <2>4, <2>5 DEF After, n
  <2> QED
    BY <2>2, <2>7, <2>8, <2>9
<1>5. n \in 0..n
  BY <1>3
<1> QED
  BY <1>2, <1>4, <1>5

-----------------------------------------------------------------------------
(* Reads the code can cope with.                                           *)

Kind(u) == script[u.rec].kind

\* The units of the buffer before the record that mbedTLS is at.
Begun == ssl.at - Len(record)

\* A buffer of whole records.  All but the last are of the handshake.
HoldsRecords(buf) ==
  LET end == Len(buf)
  IN  /\ end \in 1..Room
      /\ Consecutive(script, buf)
      /\ buf[end].at = script[buf[end].rec].size
      /\ Starts(wire, buf[end].rec + 1)
      /\ \A i, j \in 1..end :
           Kind(buf[i]) # "handshake" /\ Kind(buf[j]) # "handshake"
             => buf[i].rec = buf[j].rec /\ script[buf[i].rec].size <= Limit

\* What is decoded is the end of such a buffer; mbedTLS has the next record from
\* its header on, or nothing.
Buffered ==
  LET buf == ssl.buf
      end == Len(buf)
  IN  /\ HoldsRecords(buf)
      /\ ssl.at <= end /\ ssl.len = end - ssl.at
      /\ Begun >= 0
      /\ \A k \in DOMAIN record : record[k] = buf[Begun + k]
      /\ record # << >> => Len(record) \in {1, 1 + script[records + 1].size}
      /\ Begun = end => buf[end].rec = records
      /\ Begun # end => buf[Begun + 1] = [rec |-> records + 1, at |-> 0]
      /\ decoded # << >> =>
           ssl.at = end /\ record = << >> /\ pc = "read" /\ Len(decoded) <= Limit

\* Between two callbacks nothing is left, and the wire goes on with the next record.
Clear == record = << >> /\ decoded = << >> /\ Starts(wire, records + 1)

GInv ==
  /\ OInv
  /\ Consecutive(script, wire)
  /\ gentle => /\ conn # "undefined"
               /\ conn = "open" /\ pc = "idle" => Clear
               /\ conn = "open" /\ pc # "idle" => Buffered

\* It is that as long as nothing is read.
LEMMA RecordsStay ==
  ASSUME HoldsRecords(ssl.buf), script' = script, wire' = wire, ssl'.buf = ssl.buf
  PROVE  HoldsRecords(ssl.buf)'
<1> DEFINE Fine(s, w, buf) ==
      /\ Len(buf) \in 1..Room
      /\ Consecutive(s, buf)
      /\ buf[Len(buf)].at = s[buf[Len(buf)].rec].size
      /\ Starts(w, buf[Len(buf)].rec + 1)
      /\ \A i, j \in 1..Len(buf) :
           s[buf[i].rec].kind # "handshake" /\ s[buf[j].rec].kind # "handshake"
             => buf[i].rec = buf[j].rec /\ s[buf[i].rec].size <= Limit
<1>1. Fine(script, wire, ssl.buf)
  BY DEF HoldsRecords, Kind
<1>2. HoldsRecords(ssl.buf)' <=> Fine(script', wire', ssl'.buf)
  BY DEF HoldsRecords, Kind
<1> HIDE DEF Fine
<1> QED
  BY <1>1, <1>2

\* A read the code can cope with fills the buffer.
LEMMA ReadFills ==
  ASSUME GInv, NEW n \in 1..Len(wire), Read(n)
  PROVE  Consecutive(script, wire)' /\ (gentle' => Buffered')
<1> DEFINE U == UnitsOf(script)
           buf == SubSeq(wire, 1, n)
           rest == SubSeq(wire, n + 1, Len(wire))
<1>1. /\ script \in Scripts /\ wire \in Seq(U) /\ Consecutive(script, wire)
      /\ n \in Nat \ {0} /\ Len(wire) \in Nat /\ n <= Len(wire)
  BY DEF GInv, OInv, TypeOK
<1>2. /\ ssl' = [buf |-> buf, at |-> 0, len |-> n] /\ wire' = rest
      /\ gentle' = (gentle /\ Copes(n)) /\ conn = "open" /\ pc = "idle"
      /\ UNCHANGED <<script, record, decoded, records, ssl_handshake_done, delivered, conn>>
  BY DEF Read
<1>3. /\ Len(buf) = n
      /\ \A k \in 1..n : buf[k] = wire[k]
  <2>1. \A i \in 1..n : wire[i] \in U
    BY <1>1
  <2>2. /\ Len(buf) = IF 1 <= n THEN n - 1 + 1 ELSE 0
        /\ \A i \in 1..(n - 1 + 1) : buf[i] = wire[1 + i - 1]
    BY <1>1, <2>1, SubSeqProperties
  <2> HIDE DEF buf
  <2> QED
    BY <1>1, <2>2
<1>4. /\ Len(rest) = Len(wire) - n
      /\ \A k \in 1..(Len(wire) - n) : rest[k] = wire[n + k]
  <2>1. \A i \in (n + 1)..Len(wire) : wire[i] \in U
    BY <1>1
  <2>2. /\ Len(rest) = IF n + 1 <= Len(wire) THEN Len(wire) - (n + 1) + 1 ELSE 0
        /\ \A i \in 1..(Len(wire) - (n + 1) + 1) : rest[i] = wire[(n + 1) + i - 1]
    BY <1>1, <2>1, SubSeqProperties
  <2>3. \A i \in 1..(Len(wire) - n) : (n + 1) + i - 1 = n + i
    BY <1>1
  <2> HIDE DEF rest
  <2> QED
    BY <1>1, <2>2, <2>3
<1> HIDE DEF buf, rest, U
<1>5. Consecutive(script, rest)
  <2> SUFFICES ASSUME NEW k \in 1..(Len(rest) - 1) PROVE rest[k + 1] = After(script, rest[k])
    BY DEF Consecutive
  <2>1. /\ k \in 1..(Len(wire) - n) /\ k + 1 \in 1..(Len(wire) - n)
        /\ n + k \in 1..(Len(wire) - 1) /\ n + (k + 1) = (n + k) + 1
    BY <1>1, <1>4
  <2> QED
    BY <1>1, <1>4, <2>1 DEF Consecutive
<1>6. Consecutive(script, buf)
  <2> SUFFICES ASSUME NEW k \in 1..(Len(buf) - 1) PROVE buf[k + 1] = After(script, buf[k])
    BY DEF Consecutive
  <2>1. k \in 1..n /\ k + 1 \in 1..n /\ k \in 1..(Len(wire) - 1)
    BY <1>1, <1>3
  <2> QED
    BY <1>1, <1>3, <2>1 DEF Consecutive
<1>7. ASSUME gentle' PROVE Buffered'
  <2>1. gentle /\ Copes(n) /\ Clear
    BY <1>2, <1>7 DEF GInv
  <2>2. n \in 1..n /\ 1 \in 1..n /\ 1 \in 1..Len(wire) /\ n \in 1..Len(wire)
    BY <1>1
  <2>3. buf[n] = wire[n] /\ buf[1] = wire[1] /\ wire[n] \in UnitsOf(script)
    BY <1>1, <1>3, <2>2 DEF U
  <2>4. wire[n].at = script[wire[n].rec].size /\ n <= Room
    BY <2>1 DEF Copes
  <2>5. buf[n].at = script[buf[n].rec].size /\ n \in 1..Room
    BY <1>1, <2>3, <2>4, RoomAssumption
  <2>6. Starts(rest, buf[n].rec + 1)
    <3> SUFFICES ASSUME rest # << >> PROVE rest[1] = [rec |-> buf[n].rec + 1, at |-> 0]
      BY DEF Starts
    <3>1. n < Len(wire)
      <4>1. n # Len(wire)
        BY <1>1, SubSeqEmpty DEF rest
      <4> QED
        BY <1>1, <4>1
    <3>2. n \in 1..(Len(wire) - 1) /\ 1 \in 1..(Len(wire) - n)
      BY <1>1, <3>1
    <3>3. rest[1] = wire[n + 1] /\ wire[n + 1] = After(script, wire[n])
      BY <1>1, <1>4, <3>2 DEF Consecutive
    <3>4. ~(wire[n].at < script[wire[n].rec].size)
      <4>1. wire[n].at \in Nat
        BY <2>3 DEF UnitsOf
      <4> QED
        BY <2>4, <4>1
    <3> QED
      BY <2>3, <3>3, <3>4 DEF After
  <2>7. ASSUME NEW i \in 1..n, NEW j \in 1..n,
               Kind(buf[i]) # "handshake", Kind(buf[j]) # "handshake"
        PROVE  buf[i].rec = buf[j].rec /\ script[buf[i].rec].size <= Limit
    <3> DEFINE others == {m \in DOMAIN script : script[m].kind # "handshake"
                                                  /\ \E k \in 1..n : wire[k].rec = m}
    <3>1. buf[i] = wire[i] /\ buf[j] = wire[j]
      BY <1>3
    <3>2. i \in 1..Len(wire) /\ j \in 1..Len(wire)
      BY <1>1
    <3>3. wire[i].rec \in DOMAIN script /\ wire[j].rec \in DOMAIN script
      BY <1>1, <3>2 DEF U, UnitsOf
    <3>4. wire[i].rec \in others /\ wire[j].rec \in others
      BY <2>7, <3>1, <3>3 DEF Kind
    <3>5. /\ \A a, b \in others : a = b
          /\ \A a \in others : script[a].size <= Limit
      BY <2>1 DEF Copes
    <3> HIDE DEF others
    <3> QED
      BY <3>1, <3>4, <3>5
  <2>8. buf[1] = [rec |-> records + 1, at |-> 0]
    <3>1. wire # << >>
      BY <1>1
    <3> QED
      BY <2>1, <2>3, <3>1 DEF Clear, Starts
  <2>9. record = << >> /\ decoded = << >> /\ Len(record) = 0
    BY <2>1 DEF Clear
  <2>10. Begun' = 0
    BY <1>2, <2>9 DEF Begun
  <2> QED
    BY <1>1, <1>2, <1>3, <1>6, <2>5, <2>6, <2>7, <2>8, <2>9, <2>10 DEF Buffered, HoldsRecords, Kind
<1> QED
  BY <1>2, <1>5, <1>7

\* The record that mbedTLS is at is all in the buffer.
LEMMA RecordBuffered ==
  ASSUME OInv, Buffered, Begun # Len(ssl.buf)
  PROVE  /\ Begun \in Nat /\ Begun < Len(ssl.buf)
         /\ records + 1 \in DOMAIN script /\ script[records + 1].size \in Nat \ {0}
         /\ Begun + 1 + script[records + 1].size <= Len(ssl.buf)
         /\ \A i \in 0..script[records + 1].size :
              ssl.buf[Begun + 1 + i] = [rec |-> records + 1, at |-> i]
<1> DEFINE U == UnitsOf(script)
           buf == ssl.buf
           end == Len(buf)
<1>1. /\ script \in Scripts /\ ssl.buf \in Seq(UnitsOf(script)) /\ ssl.at \in Nat
      /\ Len(record) \in Nat /\ Len(ssl.buf) \in Nat
  BY DEF OInv, TypeOK
<1>2. /\ ssl.at <= Len(ssl.buf) /\ Begun >= 0 /\ Begun = ssl.at - Len(record)
      /\ Consecutive(script, ssl.buf)
      /\ ssl.buf[Len(ssl.buf)].at = script[ssl.buf[Len(ssl.buf)].rec].size
      /\ ssl.buf[Begun + 1] = [rec |-> records + 1, at |-> 0]
  BY DEF Buffered, HoldsRecords, Begun
<1>3. Begun \in Nat /\ Begun < Len(ssl.buf) /\ Begun + 1 \in 1..Len(ssl.buf)
  BY <1>1, <1>2
<1>4. /\ records + 1 \in DOMAIN script
      /\ Begun + 1 + script[records + 1].size <= Len(ssl.buf)
      /\ \A i \in 0..script[records + 1].size :
           ssl.buf[Begun + 1 + i] = [rec |-> records + 1, at |-> i]
  <2> DEFINE w == ssl.buf
             k == Begun + 1
             r == records + 1
  <2>1. /\ w \in Seq(UnitsOf(script)) /\ Consecutive(script, w)
        /\ w[Len(w)].at = script[w[Len(w)].rec].size
        /\ k \in 1..Len(w) /\ w[k] = [rec |-> r, at |-> 0]
    BY <1>1, <1>2, <1>3
  <2> HIDE DEF w, k, r
  <2>2. /\ r \in DOMAIN script
        /\ k + script[r].size <= Len(w)
        /\ \A i \in 0..script[r].size : w[k + i] = [rec |-> r, at |-> i]
    BY <1>1, <2>1, RecordWithin
  <2> QED
    BY <2>2 DEF w, k, r
<1> QED
  BY <1>1, <1>3, <1>4, ScriptType

\* What mbedTLS has of it is in order, and so nothing goes wrong.
LEMMA BufferedFine ==
  ASSUME OInv, Buffered
  PROVE  /\ record # << >> => Begun # Len(ssl.buf)
         /\ record # << >> => Wanted = 1 + script[records + 1].size
         /\ Framed /\ InSequence /\ CopyDefined
<1>1. /\ ssl.buf \in Seq(UnitsOf(script)) /\ ssl.at \in Nat /\ ssl.len \in Int
      /\ record \in Seq(UnitsOf(script)) /\ Len(record) \in Nat /\ Len(ssl.buf) \in Nat
  BY DEF OInv, TypeOK
<1>2. /\ ssl.at <= Len(ssl.buf) /\ ssl.len = Len(ssl.buf) - ssl.at
      /\ Len(ssl.buf) <= Room /\ Begun >= 0 /\ Begun = ssl.at - Len(record)
      /\ \A k \in DOMAIN record : record[k] = ssl.buf[Begun + k]
      /\ record # << >> => Len(record) \in {1, 1 + script[records + 1].size}
  BY <1>1, RoomAssumption DEF Buffered, HoldsRecords, Begun
<1>3. CopyDefined
  <2>1. \A a, m, n \in Nat : a <= n /\ n <= Room /\ a - m >= 0
          => n - a >= 0 /\ a + (n - a) <= n /\ m + (n - a) <= Room
    BY RoomAssumption
  <2>2. ssl.at - Len(record) >= 0
    BY <1>2
  <2>3. /\ Len(ssl.buf) - ssl.at >= 0
        /\ ssl.at + (Len(ssl.buf) - ssl.at) <= Len(ssl.buf)
        /\ Len(record) + (Len(ssl.buf) - ssl.at) <= Room
    <3> HIDE DEF Begun
    <3> DEFINE a == ssl.at
               m == Len(record)
               n == Len(ssl.buf)
    <3>1. a \in Nat /\ m \in Nat /\ n \in Nat /\ a <= n /\ n <= Room /\ a - m >= 0
      BY <1>1, <1>2, <2>2
    <3> HIDE DEF a, m, n
    <3>2. n - a >= 0 /\ a + (n - a) <= n /\ m + (n - a) <= Room
      BY <2>1, <3>1
    <3> QED
      BY <3>2 DEF a, m, n
  <2>4. ssl.len = Len(ssl.buf) - ssl.at
    BY <1>2
  <2> QED
    BY <2>3, <2>4 DEF CopyDefined
<1>4. CASE record = << >>
  BY <1>3, <1>4 DEF Framed, InSequence
<1>5. CASE record # << >>
  <2>1. Len(record) > 0 /\ 1 \in DOMAIN record /\ DOMAIN record = 1..Len(record)
    BY <1>1, <1>5
  <2>2. Begun # Len(ssl.buf)
    BY <1>1, <1>2, <2>1
  <2> DEFINE size == script[records + 1].size
  <2>3. /\ Begun \in Nat /\ size \in Nat \ {0}
        /\ \A i \in 0..size : ssl.buf[Begun + 1 + i] = [rec |-> records + 1, at |-> i]
    BY <2>2, RecordBuffered
  <2>4. Len(record) \in {1, 1 + size}
    BY <1>2, <1>5
  <2> HIDE DEF size
  <2>5. ASSUME NEW k \in DOMAIN record PROVE record[k] = [rec |-> records + 1, at |-> k - 1]
    <3>1. k - 1 \in 0..size /\ Begun + 1 + (k - 1) = Begun + k
      <4>1. \A n \in 1..Len(record) : n - 1 \in 0..size
        <5>1. CASE Len(record) = 1
          BY <2>3, <5>1
        <5>2. CASE Len(record) = 1 + size
          BY <2>3, <5>2
        <5> QED
          BY <2>4, <5>1, <5>2
      <4>2. \A b \in Nat, n \in 1..Len(record) : b + 1 + (n - 1) = b + n
        BY <1>1
      <4> QED
        BY <2>1, <2>3, <4>1, <4>2
    <3> QED
      BY <1>2, <2>3, <3>1
  <2>6. record[1] = [rec |-> records + 1, at |-> 0]
    BY <2>1, <2>5
  <2>7. Framed /\ InSequence
    <3>1. Head(record) = record[1]
      BY <1>1, <1>5
    <3> QED
      BY <2>5, <2>6, <3>1 DEF Framed, InSequence
  <2>8. Wanted = 1 + size
    BY <1>5, <2>6 DEF Wanted, size
  <2> QED
    BY <1>3, <2>2, <2>7, <2>8 DEF size
<1> QED
  BY <1>4, <1>5

\* clax_recv gives mbedTLS what it asks for; when there is nothing left, nothing
\* of a record is.
LEMMA FetchFills ==
  ASSUME OInv, Buffered, Fetch
  PROVE  (pc' = "idle" => Clear') /\ (pc' # "idle" => Buffered')
<1> DEFINE U == UnitsOf(script)
           len == Wanted - Len(record)
           have == Have(len)
           size == script[records + 1].size
<1>1. /\ ssl.buf \in Seq(U) /\ ssl.at \in Nat /\ ssl.len \in Int
      /\ record \in Seq(U) /\ Len(record) \in Nat /\ Len(ssl.buf) \in Nat
  BY DEF OInv, TypeOK
<1>2. /\ ssl.at <= Len(ssl.buf) /\ ssl.len = Len(ssl.buf) - ssl.at
      /\ Begun >= 0 /\ Begun = ssl.at - Len(record)
      /\ \A k \in DOMAIN record : record[k] = ssl.buf[Begun + k]
      /\ record # << >> => Len(record) \in {1, 1 + size}
  BY DEF Buffered, HoldsRecords, Begun
<1>3. len \in Nat \ {0} /\ have \in 0..ssl.len
  BY FetchType DEF OInv
<1>4. /\ record' = record \o SubSeq(ssl.buf, ssl.at + 1, ssl.at + have)
      /\ ssl' = [ssl EXCEPT !.at = @ + len, !.len = @ - len]
      /\ pc' = IF have = 0 THEN "idle" ELSE pc
      /\ UNCHANGED <<script, wire, decoded, records, ssl_handshake_done, delivered, conn, gentle>>
      /\ decoded = << >> /\ pc # "idle"
  BY DEF Fetch, Advanced, Running
<1>5. have = IF len < ssl.len THEN len ELSE ssl.len
  BY <1>1, <1>2 DEF Have, Least
<1>6. record # << >> => /\ Begun # Len(ssl.buf) /\ Wanted = 1 + size
                        /\ size \in Nat \ {0}
                        /\ Begun + 1 + size <= Len(ssl.buf)
  BY BufferedFine, RecordBuffered
<1>7. record = << >> => Wanted = 1 /\ Len(record) = 0
  BY DEF Wanted
<1> HIDE DEF len
<1>8. record # << >> => Len(record) = 1 /\ len = size
  <2> SUFFICES ASSUME record # << >> PROVE Len(record) = 1 /\ len = size
    OBVIOUS
  <2>1. /\ Len(record) \in {1, 1 + size} /\ size \in Nat /\ len \in Nat \ {0}
        /\ len = 1 + size - Len(record)
    BY <1>2, <1>3, <1>6 DEF len
  <2> HIDE DEF size
  <2>2. Len(record) # 1 + size
    <3>1. 1 + size - (1 + size) = 0
      BY <2>1
    <3> QED
      BY <2>1, <3>1
  <2>3. Len(record) = 1
    BY <2>1, <2>2
  <2> QED
    BY <2>1, <2>3
<1>9. record = << >> => len = 1
  BY <1>7 DEF len
<1> HIDE DEF have, size, U
<1>10. CASE ssl.at = Len(ssl.buf)
  <2>1. have = 0
    BY <1>1, <1>2, <1>3, <1>5, <1>10
  <2>2. record = << >>
    <3>1. ASSUME record # << >> PROVE FALSE
      <4>1. Begun = ssl.at - 1 /\ Begun + 1 + size <= Len(ssl.buf) /\ size \in Nat \ {0}
        BY <1>2, <1>6, <1>8, <3>1
      <4> QED
        BY <1>1, <1>10, <4>1
    <3> QED
      BY <3>1
  <2>3. record' = << >>
    <3>1. SubSeq(ssl.buf, ssl.at + 1, ssl.at + have) = << >>
      BY <1>1, <2>1, SubSeqEmpty
    <3>2. << >> \o << >> = << >>
      BY <1>1, <2>2, ConcatEmptySeq
    <3> QED
      BY <1>4, <2>2, <3>1, <3>2
  <2>4. Begun = Len(ssl.buf)
    BY <1>1, <1>2, <1>7, <1>10, <2>2
  <2>5. ssl.buf[Len(ssl.buf)].rec = records /\ Starts(wire, ssl.buf[Len(ssl.buf)].rec + 1)
    BY <2>4 DEF Buffered, HoldsRecords
  <2> QED
    BY <1>4, <2>1, <2>3, <2>5 DEF Clear, Starts
<1>11. CASE ssl.at # Len(ssl.buf)
  <2>1. /\ have = len /\ have # 0 /\ ssl.at + len <= Len(ssl.buf)
        /\ Len(record) + len \in {1, 1 + size}
        /\ Begun # Len(ssl.buf) /\ Begun < Len(ssl.buf)
    <3>1. CASE record = << >>
      BY <1>1, <1>2, <1>3, <1>5, <1>7, <1>9, <1>11, <3>1
    <3>2. CASE record # << >>
      <4>1. /\ Len(record) = 1 /\ len = size /\ Begun = ssl.at - 1
            /\ size \in Nat \ {0} /\ Begun + 1 + size <= Len(ssl.buf)
        BY <1>2, <1>6, <1>8, <3>2
      <4>2. \A a, b, e, l \in Nat : b = a - 1 /\ b + 1 + l <= e
              => a + l <= e /\ l <= e - a /\ b < e /\ b # e
        OBVIOUS
      <4>3. Begun \in Nat
        BY <1>1, <1>2, <4>1
      <4>4. /\ ssl.at + size <= Len(ssl.buf) /\ size <= ssl.len
            /\ Begun < Len(ssl.buf) /\ Begun # Len(ssl.buf)
        <5>1. ssl.len = Len(ssl.buf) - ssl.at
          BY <1>2
        <5> DEFINE a == ssl.at
                   b == Begun
                   e == Len(ssl.buf)
        <5>2. a \in Nat /\ b \in Nat /\ e \in Nat /\ size \in Nat /\ b = a - 1 /\ b + 1 + size <= e
          BY <1>1, <4>1, <4>3
        <5> HIDE DEF a, b, e
        <5>3. a + size <= e /\ size <= e - a /\ b < e /\ b # e
          BY <4>2, <5>2
        <5> QED
          BY <5>1, <5>3 DEF a, b, e
      <4>5. have = len
        BY <1>1, <1>5, <4>1, <4>4
      <4> QED
        BY <4>1, <4>4, <4>5
    <3> QED
      BY <3>1, <3>2
  <2> DEFINE more == SubSeq(ssl.buf, ssl.at + 1, ssl.at + len)
  <2>2. /\ more \in Seq(U) /\ Len(more) = len
        /\ \A k \in 1..len : more[k] = ssl.buf[ssl.at + k]
    <3>1. len \in Nat
      BY <1>3
    <3> QED
      <4> DEFINE q == ssl.buf
                 m == ssl.at
      <4>1. q \in Seq(U) /\ m \in Nat /\ m + len <= Len(q)
        BY <1>1, <2>1
      <4> HIDE DEF q, m
      <4>2. /\ SubSeq(q, m + 1, m + len) \in Seq(U)
            /\ Len(SubSeq(q, m + 1, m + len)) = len
            /\ \A k \in 1..len : SubSeq(q, m + 1, m + len)[k] = q[m + k]
        BY <3>1, <4>1, PartUnits
      <4> QED
        BY <4>2 DEF q, m
  <2> HIDE DEF more
  <2>3. record' = record \o more
    BY <1>4, <2>1 DEF more
  <2>4. /\ Len(record') = Len(record) + len /\ DOMAIN record' = 1..(Len(record) + len)
        /\ \A k \in 1..(Len(record) + len) :
             record'[k] = IF k <= Len(record) THEN record[k] ELSE more[k - Len(record)]
    <3>1. record \o more \in Seq(U) /\ Len(record \o more) = Len(record) + len
      BY <1>1, <2>2, ConcatProperties
    <3> QED
      BY <1>1, <2>2, <2>3, <3>1, ConcatProperties
  <2>5. ssl'.buf = ssl.buf /\ ssl'.at = ssl.at + len /\ ssl'.len = ssl.len - len
    <3>1. ssl \in [buf : Seq(U), at : Nat, len : Int]
      BY DEF OInv, TypeOK, U
    <3> QED
      BY <1>4, <3>1
  <2>6. Begun' = Begun
    <3>1. Begun' = ssl'.at - Len(record')
      BY DEF Begun
    <3> QED
      BY <1>1, <1>2, <1>3, <2>4, <2>5, <3>1
  <2>7. ASSUME NEW k \in DOMAIN record' PROVE record'[k] = ssl.buf[Begun + k]
    <3>1. k \in 1..(Len(record) + len)
      BY <2>4
    <3>2. CASE k <= Len(record)
      <4>1. k \in DOMAIN record
        BY <1>1, <1>3, <3>1, <3>2
      <4> QED
        BY <1>2, <2>4, <3>1, <3>2, <4>1
    <3>3. CASE ~(k <= Len(record))
      <4>1. \A a, m, n \in Nat : k \in 1..(m + n) /\ ~(k <= m)
              => k - m \in 1..n /\ a + (k - m) = (a - m) + k
        OBVIOUS
      <4>2. Begun = ssl.at - Len(record) /\ len \in Nat
        BY <1>2, <1>3
      <4>3. k - Len(record) \in 1..len /\ ssl.at + (k - Len(record)) = Begun + k
        BY <1>1, <3>1, <3>3, <4>1, <4>2
      <4> QED
        BY <2>2, <2>4, <3>1, <3>3, <4>3
    <3> QED
      BY <3>2, <3>3
  <2>8. /\ ssl'.at <= Len(ssl'.buf) /\ ssl'.len = Len(ssl'.buf) - ssl'.at
        /\ Begun' >= 0
    BY <1>1, <1>2, <1>3, <2>1, <2>5, <2>6
  <2>9. Len(record') \in {1, 1 + script'[records' + 1].size}
    BY <1>4, <2>1, <2>4 DEF size
  <2>10. /\ Begun' # Len(ssl'.buf)
         /\ ssl'.buf[Begun' + 1] = [rec |-> records' + 1, at |-> 0]
    BY <1>4, <2>1, <2>5, <2>6 DEF Buffered
  <2>11. \A k \in DOMAIN record' : record'[k] = ssl'.buf[Begun' + k]
    BY <2>5, <2>6, <2>7
  <2>12. HoldsRecords(ssl.buf)'
    BY <1>4, <2>5, RecordsStay DEF Buffered
  <2>13. Buffered'
    BY <1>4, <2>8, <2>9, <2>10, <2>11, <2>12 DEF Buffered
  <2>14. pc' # "idle"
    BY <1>4, <2>1
  <2> QED
    BY <2>13, <2>14
<1> QED
  BY <1>10, <1>11

\* After a record comes the next, and nothing comes after what is not of the
\* handshake.
LEMMA RecordTaken ==
  ASSUME OInv, Buffered, NEW kind, Whole(kind)
  PROVE  /\ records + 1 \in DOMAIN script /\ script[records + 1].kind = kind
         /\ record = Units(script, records + 1)
         /\ ssl.at \in Nat /\ Len(ssl.buf) \in Nat
         /\ ssl.at = Len(ssl.buf) => ssl.buf[Len(ssl.buf)].rec = records + 1
         /\ ssl.at # Len(ssl.buf) =>
              /\ kind = "handshake"
              /\ ssl.buf[ssl.at + 1] = [rec |-> (records + 1) + 1, at |-> 0]
         /\ kind # "handshake" => script[records + 1].size <= Limit
<1> DEFINE r == records + 1
           size == script[r].size
           buf == ssl.buf
           end == Len(buf)
           at == ssl.at
<1>1. r \in DOMAIN script /\ script[r].kind = kind /\ record = Units(script, r)
  BY WholeRecord DEF OInv
<1>2. /\ script \in Scripts /\ buf \in Seq(UnitsOf(script)) /\ at \in Nat /\ end \in Nat
      /\ records \in Nat
  BY ScriptType DEF OInv, TypeOK
<1>3. Len(record) = size + 1 /\ size \in Nat \ {0}
  BY <1>1, <1>2, UnitsType, ScriptType
<1>4. Begun # end
  BY BufferedFine DEF Whole
<1>5. /\ Begun \in Nat /\ Begun + 1 + size <= end
      /\ \A i \in 0..size : buf[Begun + 1 + i] = [rec |-> r, at |-> i]
  BY <1>4, RecordBuffered
<1>6. Begun = at - Len(record) /\ at <= end
  BY DEF Begun, Buffered
<1> HIDE DEF r, size, buf, end, at
<1>7. at = Begun + 1 + size /\ at \in 1..end /\ Begun + 1 \in 1..end
  BY <1>2, <1>3, <1>5, <1>6
<1>8. buf[at] = [rec |-> r, at |-> size] /\ buf[Begun + 1] = [rec |-> r, at |-> 0]
  <2>1. size \in 0..size /\ 0 \in 0..size /\ Begun + 1 + 0 = Begun + 1
    BY <1>3, <1>5
  <2> QED
    BY <1>5, <1>7, <2>1
<1>9. ASSUME at # end
      PROVE  buf[at + 1] = [rec |-> r + 1, at |-> 0] /\ at + 1 \in 1..end
  <2>1. at \in 1..(end - 1) /\ at + 1 \in 1..end
    BY <1>2, <1>7, <1>9
  <2>2. buf[at + 1] = After(script, buf[at])
    <3>1. Consecutive(script, buf)
      BY DEF Buffered, HoldsRecords, buf
    <3> QED
      BY <2>1, <3>1 DEF Consecutive, end
  <2>3. ~(size < size)
    BY <1>3
  <2> QED
    BY <1>8, <2>1, <2>2, <2>3 DEF After, size
<1>10. \A i, j \in 1..end : Kind(buf[i]) # "handshake" /\ Kind(buf[j]) # "handshake"
         => buf[i].rec = buf[j].rec /\ script[buf[i].rec].size <= Limit
  BY DEF Buffered, HoldsRecords, buf, end
<1>11. ASSUME at # end PROVE kind = "handshake"
  <2>1. SUFFICES ASSUME kind # "handshake" PROVE FALSE
    OBVIOUS
  <2>2. r + 1 \in DOMAIN script
    <3>1. buf[at + 1] \in UnitsOf(script)
      BY <1>2, <1>9, <1>11 DEF end
    <3> QED
      BY <1>9, <1>11, <3>1 DEF UnitsOf
  <2>3. r < r + 1
    BY <1>2 DEF r
  <2>4. script[r + 1].kind # "handshake"
    BY <1>1, <1>2, <2>1, <2>2, <2>3, ScriptsAssumption
  <2>5. Kind(buf[at]) # "handshake" /\ Kind(buf[at + 1]) # "handshake"
    BY <1>1, <1>8, <1>9, <1>11, <2>1, <2>4 DEF Kind
  <2>6. buf[at].rec = buf[at + 1].rec
    BY <1>7, <1>9, <1>10, <1>11, <2>5
  <2>7. r = r + 1
    BY <1>8, <1>9, <1>11, <2>6
  <2> QED
    BY <1>2, <2>7 DEF r
<1>12. kind # "handshake" => size <= Limit
  <2>1. Kind(buf[at]) = kind /\ script[buf[at].rec].size = size
    BY <1>1, <1>8 DEF Kind, size
  <2> QED
    BY <1>7, <1>10, <2>1
<1>13. at = end => buf[end].rec = r
  BY <1>8
<1> QED
  BY <1>1, <1>2, <1>9, <1>11, <1>12, <1>13 DEF r, size, buf, end, at

\* A record of the handshake is taken.
LEMMA HandshakeFills ==
  ASSUME OInv, Buffered, Handshake
  PROVE  Buffered'
<1>1. /\ ssl.at \in Nat /\ Len(ssl.buf) \in Nat
      /\ ssl.at = Len(ssl.buf) => ssl.buf[Len(ssl.buf)].rec = records + 1
      /\ ssl.at # Len(ssl.buf) =>
           ssl.buf[ssl.at + 1] = [rec |-> (records + 1) + 1, at |-> 0]
  BY RecordTaken DEF Handshake
<1>2. /\ record' = << >> /\ records' = records + 1 /\ decoded = << >>
      /\ UNCHANGED <<script, wire, ssl, decoded, delivered, conn, gentle>>
  BY DEF Handshake, Whole, Running
<1>3. Begun' = ssl.at
  <2>1. Len(record') = 0
    BY <1>2
  <2>2. Begun' = ssl.at - 0
    BY <1>2, <2>1 DEF Begun
  <2> QED
    BY <1>1, <2>2
<1>4. HoldsRecords(ssl.buf)'
  BY <1>2, RecordsStay DEF Buffered
<1> QED
  BY <1>1, <1>2, <1>3, <1>4 DEF Buffered

\* A record of data is: it was the last of the buffer.
LEMMA DecodeFills ==
  ASSUME OInv, Buffered, Decode
  PROVE  Buffered'
<1>1. /\ records + 1 \in DOMAIN script /\ record = Units(script, records + 1)
      /\ ssl.at \in Nat /\ ssl.at = Len(ssl.buf) /\ ssl.buf[Len(ssl.buf)].rec = records + 1
      /\ script[records + 1].size <= Limit
  BY RecordTaken DEF Decode
<1>2. /\ record' = << >> /\ records' = records + 1 /\ decoded' = Tail(record)
      /\ pc = "read"
      /\ UNCHANGED <<script, wire, ssl, ssl_handshake_done, pc, delivered, conn, gentle>>
  BY DEF Decode
<1>3. Len(decoded') <= Limit
  <2>1. Len(Body(script, records + 1)) = script[records + 1].size
    BY <1>1, UnitsType DEF OInv, TypeOK
  <2> QED
    BY <1>1, <1>2, <2>1 DEF Body
<1>4. Begun' = ssl.at
  <2>1. Len(record') = 0
    BY <1>2
  <2>2. Begun' = ssl.at - 0
    BY <1>2, <2>1 DEF Begun
  <2> QED
    BY <1>1, <2>2
<1>5. HoldsRecords(ssl.buf)'
  BY <1>2, RecordsStay DEF Buffered
<1> QED
  BY <1>1, <1>2, <1>3, <1>4, <1>5 DEF Buffered

\* All that was decoded is delivered.
LEMMA DeliverClears ==
  ASSUME OInv, Buffered, Deliver
  PROVE  Clear'
<1>1. /\ ssl.at = Len(ssl.buf) /\ record = << >> /\ Len(decoded) <= Limit
      /\ Starts(wire, ssl.buf[Len(ssl.buf)].rec + 1)
  BY DEF Deliver, Buffered, HoldsRecords
<1>2. ssl.at \in Nat /\ decoded \in Seq(UnitsOf(script)) /\ Len(decoded) \in Nat
  BY DEF OInv, TypeOK
<1>3. Begun = Len(ssl.buf)
  BY <1>1, <1>2 DEF Begun
<1>4. ssl.buf[Len(ssl.buf)].rec = records
  BY <1>3 DEF Buffered
<1>5. /\ decoded' = SubSeq(decoded, Least(Limit, Len(decoded)) + 1, Len(decoded))
      /\ UNCHANGED <<wire, record, records>>
  BY DEF Deliver
<1>6. Least(Limit, Len(decoded)) = Len(decoded)
  BY <1>1, <1>2, LimitAssumption DEF Least
<1>7. decoded' = << >>
  <2>1. SubSeq(decoded, Len(decoded) + 1, Len(decoded)) = << >>
    BY <1>2, SubSeqEmpty
  <2> QED
    BY <1>5, <1>6, <2>1
<1> QED
  BY <1>1, <1>4, <1>5, <1>7 DEF Clear, Starts

\* Every step keeps it.
LEMMA GentleKept == GInv /\ [Next]_vars => GInv'
<1> SUFFICES ASSUME GInv, [Next]_vars PROVE GInv'
  OBVIOUS
<1>1. OInv /\ OInv'
  BY OrderKept DEF GInv
<1>2. Consecutive(script, wire)
  BY DEF GInv
<1>3. ASSUME NEW n \in 1..Len(wire), Read(n) PROVE GInv'
  <2>1. Consecutive(script, wire)' /\ (gentle' => Buffered')
    BY <1>3, ReadFills
  <2>2. pc' # "idle" /\ conn' = "open"
    BY <1>3 DEF Read
  <2> QED
    BY <1>1, <2>1, <2>2 DEF GInv
<1>4. CASE ReadEof
  BY <1>1, <1>2, <1>4 DEF ReadEof, GInv
<1>5. CASE UNCHANGED vars
  <2>1. Buffered => Buffered'
    <3>1. Buffered => HoldsRecords(ssl.buf)'
      BY <1>5, RecordsStay DEF Buffered, vars
    <3> QED
      BY <1>5, <3>1 DEF Buffered, Begun, vars
  <2> QED
    BY <1>1, <1>2, <1>5, <2>1 DEF GInv, Clear, vars
<1>6. ASSUME Callback, ~gentle PROVE GInv'
  <2>1. UNCHANGED <<script, wire, gentle>>
    BY <1>6 DEF Callback, Fetch, FetchUndefined, BadRecord, Handshake, Decode, CloseNotify, Deliver
  <2> QED
    BY <1>1, <1>2, <1>6, <2>1 DEF GInv
<1>7. ASSUME Callback, gentle PROVE GInv'
  <2>1. conn = "open" /\ pc # "idle"
    BY <1>7 DEF Callback, Fetch, FetchUndefined, BadRecord, Handshake, Decode, CloseNotify,
       Deliver, Whole, Running
  <2>2. Buffered
    BY <1>7, <2>1 DEF GInv
  <2>3. CASE Fetch
    <3>1. (pc' = "idle" => Clear') /\ (pc' # "idle" => Buffered')
      BY <1>1, <2>2, <2>3, FetchFills
    <3>2. UNCHANGED <<script, wire, conn, gentle>>
      BY <2>3 DEF Fetch
    <3> QED
      BY <1>1, <1>2, <2>1, <3>1, <3>2 DEF GInv
  <2>4. CASE FetchUndefined
    BY <1>1, <2>2, <2>4, BufferedFine DEF FetchUndefined
  <2>5. CASE BadRecord
    BY <1>1, <2>2, <2>5, BufferedFine DEF BadRecord
  <2>6. CASE Handshake
    <3>1. Buffered'
      BY <1>1, <2>2, <2>6, HandshakeFills
    <3>2. pc' # "idle" /\ UNCHANGED <<script, wire, conn, gentle>>
      BY <2>6 DEF Handshake, AfterHandshakeRecord
    <3> QED
      BY <1>1, <1>2, <2>1, <3>1, <3>2 DEF GInv
  <2>7. CASE Decode
    <3>1. Buffered'
      BY <1>1, <2>2, <2>7, DecodeFills
    <3>2. UNCHANGED <<script, wire, pc, conn, gentle>>
      BY <2>7 DEF Decode
    <3> QED
      BY <1>1, <1>2, <2>1, <3>1, <3>2 DEF GInv
  <2>8. CASE CloseNotify
    BY <1>1, <1>2, <2>8 DEF CloseNotify, GInv
  <2>9. CASE Deliver
    <3>1. Clear'
      BY <1>1, <2>2, <2>9, DeliverClears
    <3>2. pc' = "idle" /\ UNCHANGED <<script, wire, conn, gentle>>
      BY <2>9 DEF Deliver
    <3> QED
      BY <1>1, <1>2, <2>1, <3>1, <3>2 DEF GInv
  <2> QED
    BY <1>7, <2>3, <2>4, <2>5, <2>6, <2>7, <2>8, <2>9 DEF Callback
<1> QED
  BY <1>3, <1>4, <1>5, <1>6, <1>7 DEF Next

\* With reads the code can cope with, no copy is out of bounds and no error is
\* taken for a length (clax_recv, clax_conn_read_cb), for all that clients may send
\* and whatever mbedTLS has room for.
THEOREM GentleIsDefined == Spec => []GentleDefined
<1>1. Init => GInv
  <2> SUFFICES ASSUME Init PROVE GInv
    OBVIOUS
  <2>1. OInv
    BY InitOrder
  <2>2. Consecutive(script, Stream(script)) /\ Starts(Stream(script), 1)
    BY StreamConsecutive DEF Init
  <2>3. records + 1 = 1
    BY DEF Init
  <2> QED
    BY <2>1, <2>2, <2>3 DEF Init, GInv, Clear
<1>2. GInv => GentleDefined
  BY DEF GInv, GentleDefined
<1> QED
  BY <1>1, <1>2, GentleKept, PTL DEF Spec
=============================================================================
