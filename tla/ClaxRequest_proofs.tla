------------------------- MODULE ClaxRequest_proofs -------------------------
(***************************************************************************)
(* Theorems about ClaxRequest, and about HttpParser in it.                 *)
(***************************************************************************)
EXTENDS ClaxRequest, NaturalsInduction, WellFoundedInduction, TLAPS

\* A set of numbers that is not empty has a least one.
LEMMA LeastExists ==
  ASSUME NEW S \in SUBSET Nat, S # {}
  PROVE  \E x \in S : \A y \in S : x <= y
<1>1. PICK x \in S : \A y \in S : <<y, x>> \notin OpToRel(<, Nat)
  BY NatLessThanWellFounded, WFMin, Zenon
<1>2. \A y \in S : ~(y < x)
  BY <1>1, Zenon DEF OpToRel
<1>3. \A y \in S : x <= y
  BY <1>2
<1> QED
  BY <1>3

-----------------------------------------------------------------------------
(* The parser.                                                             *)

ParserFields ==
  {"state", "name", "header_state", "flags", "content_length", "nread", "method", "http",
   "upgrade", "exited", "error"}

IsParser(p) == p = [x \in ParserFields |-> p[x]]

Unmatched == {"h_connection", "h_transfer_encoding"}
InBody == {"s_body_identity", "s_chunk_data"}
InSize == {"s_chunk_size", "s_chunk_parameters", "s_chunk_size_almost_done"}
InChunk == InSize \cup {"s_chunk_size_start", "s_chunk_data", "s_chunk_data_almost_done",
                        "s_chunk_data_done"}

\* What is known of a parser in each state.
Fine(p) ==
  /\ IsParser(p)
  /\ p.content_length \in 0..ULLONG_MAX
  /\ p.state = "s_header_value" => p.header_state \notin Unmatched
  /\ p.state \in InBody => p.content_length \notin {0, ULLONG_MAX}
  /\ p.state \in InSize => p.content_length # ULLONG_MAX
  /\ p.state \in InChunk => "F_CHUNKED" \in p.flags
  /\ p.state = "s_chunk_data_almost_done" => p.content_length = 0
  /\ p.state = "s_chunk_size_start" => p.nread = 0

\* Of a state in which nothing but the length is known.
IsPlain(s) == s \notin InBody \cup InChunk \cup {"s_header_value"}

\* The buffer at hand is part of the input.
Placed ==
  /\ input \in Seq(STRING) /\ at \in Nat /\ left \in Nat
  /\ at + left <= Len(input)

IInv == Placed /\ Fine(parser)

-----------------------------------------------------------------------------
(* Values.                                                                 *)

\* What the units of a value lead to, by the set of places they are at.
IsAfter(f, base, us, n) ==
  f = [s \in SUBSET (1..n) |-> IF s = {} THEN base ELSE ValueUnit(f[s \ {Max(s)}], us[Max(s)])]

\* A set of places has a last one.
LEMMA MaxIsLast ==
  ASSUME NEW n \in Nat
  PROVE  /\ \A s \in SUBSET (1..n) : s # {} => Max(s) \in s /\ \A x \in s : x <= Max(s)
         /\ n > 0 => Max(1..n) = n
<1>1. ASSUME NEW s \in SUBSET (1..n), s # {}
      PROVE  \E x \in s : \A y \in s : x >= y
  <2> DEFINE S == {m \in Nat : \A y \in s : m >= y}
  <2>1. n \in S
    OBVIOUS
  <2>2. PICK m \in S : \A k \in S : m <= k
    <3>1. S \in SUBSET Nat /\ S # {}
      BY <2>1
    <3> HIDE DEF S
    <3> QED
      BY <3>1, LeastExists
  <2>3. m \in s
    <3> SUFFICES ASSUME m \notin s PROVE FALSE
      OBVIOUS
    <3>1. PICK y \in s : TRUE
      BY <1>1
    <3>2. m \in Nat /\ m >= y /\ y \in 1..n /\ m # y
      BY <2>2, <3>1
    <3>3. m - 1 \in Nat
      BY <3>2
    <3>4. \A z \in s : z \in Nat /\ m >= z /\ m # z
      BY <2>2
    <3>5. \A z \in s : m - 1 >= z
      BY <3>2, <3>4
    <3>6. m <= m - 1
      BY <2>2, <3>3, <3>5
    <3> QED
      BY <3>2, <3>6
  <2> QED
    BY <2>2, <2>3
<1>2. ASSUME NEW s \in SUBSET (1..n), s # {}
      PROVE  Max(s) \in s /\ \A x \in s : x <= Max(s)
  <2>1. Max(s) \in s /\ \A y \in s : Max(s) >= y
    BY <1>1, <1>2 DEF Max
  <2> QED
    BY <2>1
<1>3. ASSUME n > 0 PROVE Max(1..n) = n
  <2>1. 1..n \in SUBSET (1..n) /\ n \in 1..n
    BY <1>3
  <2>2. Max(1..n) \in 1..n /\ n <= Max(1..n)
    BY <1>2, <2>1
  <2> QED
    BY <2>2
<1> QED
  BY <1>2, <1>3

\* There is such a function.
LEMMA AfterExists ==
  ASSUME NEW base, NEW us \in Seq(STRING)
  PROVE  \E f : IsAfter(f, base, us, Len(us))
<1> DEFINE Missing == {n \in Nat : ~ \E f : IsAfter(f, base, us, n)}
<1>1. ASSUME Missing # {} PROVE FALSE
  <2>1. Missing \in SUBSET Nat
    OBVIOUS
  <2>2. PICK n \in Missing : \A m \in Missing : n <= m
    <3> HIDE DEF Missing
    <3> QED
      BY <1>1, <2>1, LeastExists
  <2>3. n # 0
    <3> DEFINE f == [s \in SUBSET (1..0) |-> base]
    <3>1. IsAfter(f, base, us, 0)
      BY DEF IsAfter
    <3> QED
      BY <2>2, <3>1
  <2>4. n \in Nat /\ n - 1 \in Nat /\ n - 1 \notin Missing
    BY <2>2, <2>3
  <2>5. PICK f : IsAfter(f, base, us, n - 1)
    BY <2>4
  <2> DEFINE g == [s \in SUBSET (1..n) |->
                     IF n \notin s THEN f[s] ELSE ValueUnit(f[s \ {n}], us[n])]
  <2>6. ASSUME NEW s \in SUBSET (1..n)
        PROVE  g[s] = IF s = {} THEN base ELSE ValueUnit(g[s \ {Max(s)}], us[Max(s)])
    <3>1. CASE n \notin s
      <4>1. s \in SUBSET (1..(n - 1))
        BY <2>4, <3>1
      <4>2. g[s] = f[s] /\ g[s \ {Max(s)}] = f[s \ {Max(s)}]
        BY <3>1
      <4>3. f[s] = IF s = {} THEN base ELSE ValueUnit(f[s \ {Max(s)}], us[Max(s)])
        BY <2>5, <4>1, Zenon DEF IsAfter
      <4> QED
        BY <4>2, <4>3, Zenon
    <3>2. CASE n \in s
      <4>1. Max(s) = n
        <5>1. Max(s) \in s /\ n <= Max(s)
          BY <2>4, <3>2, MaxIsLast
        <5>2. Max(s) \in 1..n
          BY <5>1
        <5> QED
          BY <2>4, <5>1, <5>2
      <4>2. g[s \ {n}] = f[s \ {n}] /\ g[s] = ValueUnit(f[s \ {n}], us[n])
        BY <3>2
      <4> HIDE DEF g
      <4> QED
        BY <3>2, <4>1, <4>2, Zenon
    <3> QED
      BY <3>1, <3>2
  <2>7. g = [s \in SUBSET (1..n) |-> g[s]]
    OBVIOUS
  <2> HIDE DEF g
  <2>8. IsAfter(g, base, us, n)
    BY <2>6, <2>7, Zenon DEF IsAfter
  <2> QED
    BY <2>2, <2>8
<1>2. Len(us) \in Nat
  OBVIOUS
<1> QED
  BY <1>1, <1>2

\* A value that is under way; t says whether it is one of a trailer.
Underway(p, t) ==
  /\ IsParser(p)
  /\ "F_TRAILING" \in p.flags <=> t
  /\ p.state = "s_header_value"
  /\ p.content_length \in 0..ULLONG_MAX
  /\ p.header_state \notin Unmatched

\* One more unit is never taken for the beginning of a value.
LEMMA NextMatched ==
  ASSUME NEW h, h \notin Unmatched, NEW u \in STRING
  PROVE  ValueNext(h, u) \notin Unmatched
<1>1. ConnectionWord(u) \notin Unmatched
  BY DEF ConnectionWord, ConnectionWords, Unmatched
<1> DEFINE one == u = " " \/ h \in {"h_general", "h_content_length"}
           two == u # " " /\ h \in Found \cup {"h_matching_connection_token"}
           three == u # " " /\ h = "h_matching_connection_token_start"
<1>2. ValueNext(h, u) =
        CASE one -> h
          [] two -> IF u = "," THEN "h_matching_connection_token_start" ELSE "h_matching_connection_token"
          [] three -> IF IsToken(u) THEN ConnectionWord(u) ELSE "h_general"
          [] OTHER -> "h_general"
  BY DEF ValueNext
<1>3. /\ one => ~two /\ ~three
      /\ two => ~three
  BY DEF Found, ConnectionWords
<1> HIDE DEF one, two, three
<1>4. CASE one
  BY <1>2, <1>3, <1>4
<1>5. CASE two
  BY <1>2, <1>3, <1>5 DEF Unmatched
<1>6. CASE three
  BY <1>1, <1>2, <1>3, <1>6 DEF Unmatched
<1>7. CASE ~one /\ ~two /\ ~three
  BY <1>2, <1>7 DEF Unmatched
<1> QED
  BY <1>4, <1>5, <1>6, <1>7

\* What a digit makes of a number still has a place.
LEMMA DigitFits ==
  ASSUME NEW n \in 0..ULLONG_MAX, NEW base \in {10, 16}, NEW u \in Hex
  PROVE  /\ HexValue[u] \in 0..15
         /\ WithDigit(n, base, u) \in 0..ULLONG_MAX
         /\ base = 16 /\ Fits(n, base) => WithDigit(n, base, u) # ULLONG_MAX
<1> DEFINE U == ULLONG_MAX
           d == HexValue[u]
<1>1. U \in Nat /\ U > 16
  BY SizesAssumption
<1>2. d \in 0..15
  BY HexAssumption
<1>3. WithDigit(n, base, u) = (n * base + d) % (U + 1)
  BY DEF WithDigit
<1> HIDE DEF d, U
<1>4. n \in Nat /\ base \in Nat
  BY <1>1 DEF U
<1>5. n * base + d \in Nat
  <2>1. n * base \in Nat
    BY <1>4
  <2> HIDE DEF U
  <2> QED
    BY <1>2, <2>1
<1>6. \A a \in Nat : a % (U + 1) \in 0..U
  BY <1>1
<1>7. ASSUME base = 16, n <= (U - 16) \div 16
      PROVE  (n * base + d) % (U + 1) # U
  <2>1. \A a \in Nat : 16 * (a \div 16) <= a
    OBVIOUS
  <2>2. U - 16 \in Nat /\ (U - 16) \div 16 \in Nat
    BY <1>1
  <2>3. 16 * ((U - 16) \div 16) <= U - 16
    BY <2>1, <2>2
  <2>4. n * 16 <= U - 16
    BY <1>4, <1>7, <2>2, <2>3
  <2>5. n * 16 + d < U
    BY <1>1, <1>2, <1>4, <2>4
  <2>6. (n * 16 + d) % (U + 1) = n * 16 + d
    BY <1>1, <1>4, <1>5, <1>7, <2>5
  <2> QED
    BY <1>1, <1>7, <2>5, <2>6, <1>4, <1>2
<1> QED
  BY <1>2, <1>3, <1>5, <1>6, <1>7 DEF U, d, Fits

\* A flag that is noted changes nothing else.
LEMMA FlaggedKeeps ==
  ASSUME NEW p, IsParser(p)
  PROVE  /\ IsParser(Flagged(p))
         /\ p.flags \subseteq Flagged(p).flags
         /\ Flagged(p).state = p.state /\ Flagged(p).nread = p.nread
         /\ Flagged(p).content_length = p.content_length
         /\ Flagged(p).header_state = p.header_state
         /\ Flagged(p).error = p.error
         /\ "F_TRAILING" \in Flagged(p).flags <=> "F_TRAILING" \in p.flags
<1>1. CASE p.header_state \notin DOMAIN Flag
  BY <1>1 DEF Flagged
<1>2. CASE p.header_state \in DOMAIN Flag
  <2>1. Flagged(p) = [p EXCEPT !.flags = @ \cup Flag[p.header_state]]
    BY <1>2 DEF Flagged
  <2>2. "F_TRAILING" \notin Flag[p.header_state]
    <3>1. \A h \in Found : h \in {"h_connection_keep_alive", "h_connection_close",
                               "h_connection_upgrade"}
      BY DEF Found, ConnectionWords
    <3>2. p.header_state \in {"h_connection_keep_alive", "h_connection_close",
                              "h_connection_upgrade", "h_transfer_encoding_chunked"}
      BY <1>2, <3>1 DEF Flag
    <3> QED
      BY <1>2, <3>2 DEF Flag
  <2> QED
    BY <2>1, <2>2 DEF IsParser, ParserFields
<1> QED
  BY <1>1, <1>2

\* A unit leaves a value under way.
LEMMA UnitKeeps ==
  ASSUME NEW t \in BOOLEAN, NEW p, Underway(p, t), NEW u \in STRING
  PROVE  Underway(ValueUnit(p, u), t)
<1>1. CASE p.error
  BY <1>1 DEF ValueUnit
<1>2. CASE ~p.error /\ p.header_state = "h_content_length" /\ u # " "
  <2>1. ValueUnit(p, u) = IF BadDigit(p, u) THEN [p EXCEPT !.error = TRUE]
                          ELSE [p EXCEPT !.content_length = WithDigit(@, 10, u)]
    BY <1>2 DEF ValueUnit
  <2>2. CASE BadDigit(p, u)
    BY <2>1, <2>2 DEF Underway, IsParser, ParserFields
  <2>3. CASE ~BadDigit(p, u)
    <3>1. u \in Hex
      BY <2>3 DEF BadDigit, Hex
    <3>2. WithDigit(p.content_length, 10, u) \in 0..ULLONG_MAX
      BY <3>1, DigitFits DEF Underway
    <3> QED
      BY <2>1, <2>3, <3>2 DEF Underway, IsParser, ParserFields
  <2> QED
    BY <2>2, <2>3
<1>3. CASE ~p.error /\ ~(p.header_state = "h_content_length" /\ u # " ")
  <2> DEFINE q == IF u = "," /\ p.header_state \in Found THEN Flagged(p) ELSE p
  <2>1. ValueUnit(p, u) = [q EXCEPT !.header_state = ValueNext(@, u)]
    BY <1>3 DEF ValueUnit
  <2>2. Underway(q, t)
    BY FlaggedKeeps DEF Underway
  <2> HIDE DEF q
  <2>3. ValueNext(q.header_state, u) \notin Unmatched
    BY <2>2, NextMatched DEF Underway
  <2> QED
    BY <2>1, <2>2, <2>3 DEF Underway, IsParser, ParserFields
<1> QED
  BY <1>1, <1>2, <1>3

\* So does all that is taken of one.
LEMMA ValueKeeps ==
  ASSUME NEW t \in BOOLEAN, NEW base, Underway(base, t), NEW us \in Seq(STRING)
  PROVE  Underway(FoldLeft(ValueUnit, base, us), t)
<1> DEFINE iter == CHOOSE f : IsAfter(f, base, us, Len(us))
<1>1. Len(us) \in Nat /\ DOMAIN us = 1..Len(us)
  OBVIOUS
<1>2. FoldLeft(ValueUnit, base, us) = iter[1..Len(us)]
  BY <1>1 DEF FoldLeft, MapThenFoldSet, IsAfter
<1>3. IsAfter(iter, base, us, Len(us))
  BY AfterExists
<1> HIDE DEF iter
<1> DEFINE Bad == {k \in 0..Len(us) : ~Underway(iter[1..k], t)}
<1>4. ASSUME Bad # {} PROVE FALSE
  <2>1. Bad \in SUBSET Nat
    BY <1>1
  <2>2. PICK k \in Bad : \A j \in Bad : k <= j
    <3> HIDE DEF Bad
    <3> QED
      BY <1>4, <2>1, LeastExists
  <2>3. \A j \in 0..Len(us) : 1..j \in SUBSET (1..Len(us))
    BY <1>1
  <2>4. k # 0
    <3>1. iter[1..0] = base
      BY <1>1, <1>3, <2>3 DEF IsAfter
    <3> QED
      BY <2>2, <3>1
  <2>5. k \in 1..Len(us) /\ k - 1 \in 0..Len(us) /\ k - 1 \notin Bad
    BY <1>1, <2>2, <2>4
  <2>6. Max(1..k) = k /\ (1..k) \ {k} = 1..(k - 1) /\ 1..k # {}
    <3>1. k \in Nat /\ k > 0
      BY <1>1, <2>5
    <3>2. Max(1..k) = k
      BY <3>1, MaxIsLast
    <3>3. (1..k) \ {k} = 1..(k - 1) /\ k \in 1..k
      <4> HIDE DEF Bad
      <4> QED
        BY <3>1
    <3> QED
      BY <3>2, <3>3
  <2>7. iter[1..k] = ValueUnit(iter[1..(k - 1)], us[k])
    <3>1. 1..k \in SUBSET (1..Len(us))
      BY <2>3, <2>5
    <3> QED
      BY <1>3, <2>6, <3>1, Zenon DEF IsAfter
  <2>8. Underway(iter[1..(k - 1)], t) /\ us[k] \in STRING
    BY <1>1, <2>5
  <2> QED
    BY <2>2, <2>7, <2>8, UnitKeeps
<1>5. Len(us) \in 0..Len(us)
  BY <1>1
<1> QED
  BY <1>2, <1>4, <1>5

-----------------------------------------------------------------------------
(* Steps of the parser.                                                    *)

\* The parser becomes p, or p that stops.
Becomes(p) == parser' = p \/ \E ok \in BOOLEAN : parser' = [p EXCEPT !.error = @ \/ ~ok]

\* Whether it stops makes no difference to what is known of it.
LEMMA ErrorFine ==
  ASSUME NEW p, Fine(p), NEW e
  PROVE  Fine([p EXCEPT !.error = e])
  BY DEF Fine, IsParser, ParserFields

LEMMA FineBecomes ==
  ASSUME NEW p, Fine(p), Becomes(p)
  PROVE  Fine(parser')
<1>1. CASE parser' = p
  BY <1>1
<1>2. CASE \E ok \in BOOLEAN : parser' = [p EXCEPT !.error = @ \/ ~ok]
  <2>1. PICK e : parser' = [p EXCEPT !.error = e]
    BY <1>2, Zenon
  <2> QED
    BY <2>1, ErrorFine
<1> QED
  BY <1>1, <1>2 DEF Becomes

\* However a step tells of its result, it is what the parser becomes.
LEMMA TellsBecomes ==
  ASSUME NEW p, NEW cb, NEW buf, NEW to
  PROVE  /\ Quietly(p) => Becomes(p)
         /\ Calls(cb, buf, p) => Becomes(p)
         /\ Notifies(cb, p) => Becomes(p)
         /\ HandsOut(to, p) => Becomes(p)
<1>1. Quietly(p) => Becomes(p)
  BY Zenon DEF Quietly, Becomes
<1>2. \A c, b : Calls(c, b, p) => Becomes(p)
  BY Zenon DEF Calls, Becomes
<1> QED
  BY <1>1, <1>2, Zenon DEF Notifies, HandsOut

\* A parser in one of the other states is fine as long as it has a length.
LEMMA PlainFine ==
  ASSUME NEW p, IsParser(p), p.content_length \in 0..ULLONG_MAX, IsPlain(p.state)
  PROVE  Fine(p)
  BY DEF Fine, IsPlain, InChunk

\* What is taken is of the buffer.
LEMMA TakePlaced ==
  ASSUME Placed, NEW n \in 0..left, Take(n)
  PROVE  Placed'
  BY DEF Placed, Take

LEMMA AgainPlaced ==
  ASSUME Placed, Again
  PROVE  Placed'
  BY DEF Placed, Again

\* While there is a buffer there is a next unit.
LEMMA OnUnit ==
  ASSUME Placed, NEW s, On(s)
  PROVE  left > 0 /\ left \in Nat /\ 1 \in 0..left /\ ch \in STRING /\ parser.state = s
  BY DEF Placed, On, Running, ch

\* Counting a unit changes the count only, and going to a state the state.
LEMMA CountedKeeps ==
  ASSUME IsParser(parser), NEW s
  PROVE  /\ IsParser(counted) /\ IsParser(To(s))
         /\ counted.state = parser.state /\ To(s).state = s
         /\ counted.content_length = parser.content_length
         /\ To(s).content_length = parser.content_length
         /\ counted.flags = parser.flags /\ To(s).flags = parser.flags
         /\ counted.header_state = parser.header_state
         /\ To(s).header_state = parser.header_state
         /\ counted.error = parser.error /\ To(s).error = parser.error
  BY DEF counted, To, IsParser, ParserFields

\* No URL leads to a state of a value or of a body.
LEMMA UrlStates ==
  ASSUME NEW s, NEW u
  PROVE  IsPlain(UrlStateFrom(s, u))
<1>1. \A x \in UrlMoves : IsPlain(x.to)
  BY DEF UrlMoves, Move, IsPlain, InBody, InChunk, InSize
<1>2. \A r : IsPlain(Follow(UrlMoves, r, u, "s_dead"))
  <2> SUFFICES ASSUME NEW r PROVE IsPlain(Follow(UrlMoves, r, u, "s_dead"))
    OBVIOUS
  <2> DEFINE m == {x \in UrlMoves : r \in x.from /\ u \in x.on}
  <2>1. Follow(UrlMoves, r, u, "s_dead") = IF m = {} THEN "s_dead" ELSE (CHOOSE x \in m : TRUE).to
    BY DEF Follow
  <2>2. m # {} => (CHOOSE x \in m : TRUE) \in UrlMoves
    <3>1. m \subseteq UrlMoves
      OBVIOUS
    <3>2. m # {} => (CHOOSE x \in m : TRUE) \in m
      <4> HIDE DEF m
      <4> QED
        OBVIOUS
    <3> QED
      BY <3>1, <3>2
  <2>3. IsPlain("s_dead")
    BY DEF IsPlain, InBody, InChunk, InSize
  <2> HIDE DEF m
  <2> QED
    BY <1>1, <2>1, <2>2, <2>3
<1> QED
  BY <1>2 DEF UrlStateFrom, parse_url_char

\* What a step has to show: the parser becomes one that is fine, and the unit is
\* taken or looked at again.
LEMMA Stepping ==
  ASSUME IInv, NEW p, Fine(p), Becomes(p), Again \/ \E n \in 0..left : Take(n)
  PROVE  IInv'
  BY FineBecomes, TakePlaced, AgainPlaced DEF IInv

\* The same for a state in which only the length is known.
LEMMA SteppingTo ==
  ASSUME IInv, NEW s, IsPlain(s), Becomes(To(s)), Again \/ \E n \in 0..left : Take(n)
  PROVE  IInv'
<1>1. Fine(To(s))
  BY CountedKeeps, PlainFine DEF IInv, Fine
<1> QED
  BY <1>1, Stepping

\* A unit that is counted only, in such a state.
LEMMA SteppingOn ==
  ASSUME IInv, IsPlain(parser.state), Becomes(counted), Again \/ \E n \in 0..left : Take(n)
  PROVE  IInv'
<1>1. Fine(counted)
  BY CountedKeeps, PlainFine DEF IInv, Fine
<1> QED
  BY <1>1, Stepping

LEMMA StopsKeeps ==
  ASSUME IInv, Stops
  PROVE  IInv'
<1>1. Becomes([parser EXCEPT !.error = TRUE])
  BY TellsBecomes DEF Stops
<1>2. Fine([parser EXCEPT !.error = TRUE])
  BY ErrorFine, Zenon DEF IInv
<1> QED
  BY <1>1, <1>2, Stepping DEF Stops

\* The request line.
LEMMA RequestLineKeeps ==
  ASSUME IInv, RequestLine
  PROVE  IInv'
<1> USE DEF IInv
<1>1. CASE BetweenMessages
  <2>1. IsPlain(parser.state)
    BY <1>1, OnUnit DEF BetweenMessages, IsPlain, InBody, InChunk, InSize
  <2>2. Becomes(counted) /\ \E n \in 0..left : Take(n)
    BY <1>1, OnUnit, TellsBecomes DEF BetweenMessages
  <2> QED
    BY <2>1, <2>2, SteppingOn
<1>2. CASE Method
  <2> DEFINE p == [To("s_req_spaces_before_url") EXCEPT
                     !.method = ch, !.flags = {}, !.content_length = ULLONG_MAX]
  <2>1. Becomes(p) /\ \E n \in 0..left : Take(n)
    BY <1>2, OnUnit, TellsBecomes DEF Method
  <2>2. IsParser(p) /\ p.content_length = ULLONG_MAX /\ p.state = "s_req_spaces_before_url"
    BY CountedKeeps DEF Fine, IsParser, ParserFields
  <2> HIDE DEF p
  <2>3. Fine(p)
    BY <2>2, SizesAssumption, PlainFine DEF IsPlain, InBody, InChunk, InSize
  <2> QED
    BY <2>1, <2>3, Stepping DEF p
<1>3. CASE Blanks
  <2>1. IsPlain(parser.state)
    <3>1. parser.state \in {"s_req_spaces_before_url", "s_req_http_start", "s_header_value_discard_ws"}
      BY <1>3 DEF Blanks, On
    <3> QED
      BY <3>1 DEF IsPlain, InBody, InChunk, InSize
  <2>2. Becomes(counted) /\ \E n \in 0..left : Take(n)
    BY <1>3, OnUnit, TellsBecomes DEF Blanks
  <2> QED
    BY <2>1, <2>2, SteppingOn
<1>4. CASE Url
  <2>1. 1 \in 0..left
    BY <1>4, OnUnit DEF Url
  <2>2. Becomes(To(UrlStateFrom(parser.state, ch))) /\ Take(1)
    BY <1>4, TellsBecomes DEF Url
  <2> QED
    BY <2>1, <2>2, SteppingTo, UrlStates
<1>5. CASE UrlEnd
  <2>1. 1 \in 0..left
    BY <1>5, OnUnit DEF UrlEnd
  <2> DEFINE p == CASE ch = " " -> To("s_req_http_start")
                    [] ch = "CR" -> [To("s_req_line_almost_done") EXCEPT !.http = "HTTP/0.9"]
                    [] OTHER -> [To("s_header_field_start") EXCEPT !.http = "HTTP/0.9"]
  <2>2. HandsOut(at, p) /\ Take(1)
    BY <1>5 DEF UrlEnd
  <2>3. Becomes(p)
    <3> HIDE DEF p
    <3> QED
      BY <2>2, TellsBecomes
  <2>4. ASSUME NEW s, IsPlain(s)
        PROVE  Fine(To(s)) /\ Fine([To(s) EXCEPT !.http = "HTTP/0.9"])
    <3>1. Fine(To(s))
      BY <2>4, CountedKeeps, PlainFine DEF Fine
    <3> QED
      BY <3>1 DEF Fine, IsParser, ParserFields
  <2>5. IsPlain("s_req_http_start") /\ IsPlain("s_req_line_almost_done")
        /\ IsPlain("s_header_field_start")
    BY DEF IsPlain, InBody, InChunk, InSize
  <2>6. Fine(p)
    BY <2>4, <2>5
  <2> QED
    BY <2>1, <2>2, <2>3, <2>6, Stepping
<1>6. CASE Version
  <2>1. 1 \in 0..left
    BY <1>6, OnUnit DEF Version
  <2> DEFINE p == [To("s_req_http_minor") EXCEPT !.http = ch]
  <2>2. Becomes(p) /\ Take(1)
    BY <1>6, TellsBecomes DEF Version
  <2>3. IsParser(p) /\ p.content_length = parser.content_length /\ p.state = "s_req_http_minor"
    BY CountedKeeps DEF Fine, IsParser, ParserFields
  <2>4. Fine(p)
    BY <2>3, PlainFine DEF Fine, IsPlain, InBody, InChunk, InSize
  <2> QED
    BY <2>1, <2>2, <2>4, Stepping
<1>7. CASE VersionEnd
  <2>1. 1 \in 0..left
    BY <1>7, OnUnit DEF VersionEnd
  <2> DEFINE s == IF ch = "CR" THEN "s_req_line_almost_done" ELSE "s_header_field_start"
  <2>2. Becomes(To(s)) /\ Take(1)
    BY <1>7, TellsBecomes DEF VersionEnd
  <2>3. IsPlain(s)
    BY DEF IsPlain, InBody, InChunk, InSize
  <2> HIDE DEF s
  <2> QED
    BY <2>1, <2>2, <2>3, SteppingTo
<1>8. CASE LineEnd
  <2>1. 1 \in 0..left
    BY <1>8 DEF LineEnd, Placed
  <2>2. \E s : IsPlain(s) /\ Quietly(To(s))
    <3>1. IsPlain("s_header_field_start") /\ IsPlain("s_header_value_lws")
          /\ IsPlain("s_header_value_discard_lws")
      BY DEF IsPlain, InBody, InChunk, InSize
    <3> QED
      BY <1>8, <3>1 DEF LineEnd
  <2>3. PICK s : IsPlain(s) /\ Becomes(To(s))
    BY <2>2, TellsBecomes
  <2>4. Take(1)
    BY <1>8 DEF LineEnd
  <2> QED
    BY <2>1, <2>3, <2>4, SteppingTo
<1> QED
  BY <1>1, <1>2, <1>3, <1>4, <1>5, <1>6, <1>7, <1>8 DEF RequestLine

-----------------------------------------------------------------------------
(* Headers.                                                                *)

\* What is before the first stop is a part of the buffer.
LEMMA BeforeIsPart ==
  ASSUME Placed, NEW stops
  PROVE  /\ Before(stops) \in 0..left
         /\ Before(stops) < left => After(Before(stops)) \in stops
         /\ These(Before(stops)) \in Seq(STRING)
<1>1. /\ input \in Seq(STRING) /\ at \in Nat /\ left \in Nat
      /\ Len(input) \in Nat /\ at + left <= Len(input)
  BY DEF Placed
<1> DEFINE S == {n \in 0..left : n < left => input[at + n + 1] \in stops}
<1>2. PICK n \in S : \A m \in S : n <= m
  <2>1. left \in S /\ S \in SUBSET Nat
    BY <1>1
  <2> HIDE DEF S
  <2> QED
    BY <2>1, LeastExists
<1>3. ASSUME NEW i \in 1..n PROVE input[at + i] \notin stops
  <2>1. i - 1 \in 0..left /\ i - 1 < left /\ ~(n <= i - 1)
    BY <1>1, <1>2, <1>3
  <2>2. i - 1 \notin S
    <3> HIDE DEF S
    <3> QED
      BY <1>2, <2>1
  <2>3. at + (i - 1) + 1 = at + i
    BY <1>1, <1>2, <1>3
  <2> QED
    BY <2>1, <2>2, <2>3
<1> DEFINE StopsAt(k) == /\ \A i \in 1..k : input[at + i] \notin stops
                         /\ k < left => input[at + k + 1] \in stops
<1>4. n \in 0..left /\ StopsAt(n)
  BY <1>2, <1>3
<1>5. Before(stops) = CHOOSE k \in 0..left : StopsAt(k)
  BY DEF Before
<1> HIDE DEF StopsAt
<1>6. Before(stops) \in 0..left /\ StopsAt(Before(stops))
  BY <1>4, <1>5
<1> DEFINE b == Before(stops)
<1>7. b < left => After(b) \in stops
  BY <1>6 DEF StopsAt, After
<1>8. These(b) \in Seq(STRING)
  <2> HIDE DEF b
  <2>1. b \in Nat /\ b <= left
    BY <1>1, <1>6 DEF b
  <2>2. at + 1 \in Nat /\ at + b \in Nat /\ at + b <= Len(input)
    BY <1>1, <2>1
  <2>3. \A i \in (at + 1)..(at + b) : i \in DOMAIN input
    BY <1>1, <2>1, <2>2
  <2> QED
    BY <1>1, <2>2, <2>3 DEF These
<1> QED
  BY <1>6, <1>7, <1>8

\* The first unit of a value says what the value is of.
LEMMA FirstMatched ==
  ASSUME NEW h, NEW u
  PROVE  ValueFirst(h, u) \notin Unmatched
<1>1. ConnectionWord(u) \notin Unmatched
  BY DEF ConnectionWord, ConnectionWords, Unmatched
<1> QED
  BY <1>1 DEF ValueFirst, Unmatched

\* Names.
LEMMA NameKeeps ==
  ASSUME IInv, HeadersEnd \/ NameStart \/ Name
  PROVE  IInv'
<1> USE DEF IInv
<1>1. IsPlain("s_headers_almost_done") /\ IsPlain("s_header_field")
      /\ IsPlain("s_header_value_discard_ws")
  BY DEF IsPlain, InBody, InChunk, InSize
<1>2. CASE HeadersEnd
  <2>1. 1 \in 0..left
    BY <1>2, OnUnit DEF HeadersEnd
  <2>2. CASE Take(1) /\ Quietly(To("s_headers_almost_done"))
    BY <1>1, <2>1, <2>2, SteppingTo, TellsBecomes
  <2> DEFINE p == [parser EXCEPT !.state = "s_headers_almost_done"]
  <2>3. CASE Again /\ Quietly(p)
    <3>1. IsParser(p) /\ p.content_length = parser.content_length /\ p.state = "s_headers_almost_done"
      BY DEF Fine, IsParser, ParserFields
    <3> HIDE DEF p
    <3>2. Fine(p)
      BY <1>1, <3>1, PlainFine DEF Fine
    <3> QED
      BY <2>3, <3>2, Stepping, TellsBecomes
  <2> QED
    BY <1>2, <2>2, <2>3 DEF HeadersEnd
<1>3. CASE NameStart
  <2> DEFINE p == [To("s_header_field") EXCEPT !.name = <<ch>>]
  <2>1. 1 \in 0..left /\ Take(1) /\ Becomes(p)
    BY <1>3, OnUnit, TellsBecomes DEF NameStart
  <2>2. IsParser(p) /\ p.content_length = parser.content_length /\ p.state = "s_header_field"
    BY CountedKeeps DEF Fine, IsParser, ParserFields
  <2> HIDE DEF p
  <2>3. Fine(p)
    BY <1>1, <2>2, PlainFine DEF Fine
  <2> QED
    BY <2>1, <2>3, Stepping
<1>4. CASE Name
  <2> DEFINE n == Before(Separators)
             p == [counted EXCEPT !.nread = @ + n, !.name = @ \o These(n)]
  <2>1. NameTaken(n, p) /\ parser.state = "s_header_field"
    BY <1>4, OnUnit DEF Name
  <2>2. n \in 0..left
    BY BeforeIsPart
  <2>3. IsParser(p) /\ p.content_length = parser.content_length /\ p.state = "s_header_field"
    <3> HIDE DEF n
    <3> QED
      BY <2>1, CountedKeeps DEF Fine, IsParser, ParserFields
  <2> HIDE DEF n, p
  <2>4. Fine(p)
    BY <1>1, <2>3, PlainFine DEF Fine
  <2>5. CASE TakesTooMany(n, p)
    BY <2>2, <2>4, <2>5, ErrorFine, TellsBecomes, Stepping DEF TakesTooMany
  <2>6. CASE Take(n) /\ Quietly(p)
    BY <2>2, <2>4, <2>6, TellsBecomes, Stepping
  <2> DEFINE q == [p EXCEPT !.state = "s_header_value_discard_ws", !.name = << >>,
                            !.header_state = HeaderState(p.name)]
  <2>7. CASE n < left /\ Take(n + 1) /\ HandsOut(at + n, q)
    <3>1. IsParser(q) /\ q.content_length = parser.content_length
          /\ q.state = "s_header_value_discard_ws"
      BY <2>3 DEF IsParser, ParserFields
    <3> HIDE DEF q
    <3>2. Fine(q)
      BY <1>1, <3>1, PlainFine DEF Fine
    <3>3. n + 1 \in 0..left
      BY <2>2, <2>7 DEF Placed
    <3> QED
      BY <2>7, <3>2, <3>3, TellsBecomes, Stepping
  <2>8. CASE Stops
    BY <2>8, StopsKeeps
  <2> QED
    BY <2>1, <2>5, <2>6, <2>7, <2>8 DEF NameTaken
<1> QED
  BY <1>2, <1>3, <1>4

\* Values.
LEMMA ValueStartKeeps ==
  ASSUME IInv, ValueStart
  PROVE  IInv'
<1> USE DEF IInv
<1>1. left > 0 /\ 1 \in 0..left
  BY OnUnit DEF ValueStart
<1> DEFINE of == parser.header_state = "h_content_length"
           p == [To("s_header_value") EXCEPT
                   !.header_state = ValueFirst(@, ch),
                   !.flags = IF parser.header_state = "h_upgrade" THEN @ \cup {"F_UPGRADE"} ELSE @,
                   !.content_length = IF of THEN HexValue[ch] ELSE @]
<1>2. CASE Stops
  BY <1>2, StopsKeeps
<1>3. CASE (of => ch \in Num) /\ Take(1) /\ Quietly(p)
  <2> DEFINE q == To("s_header_value")
             r(h, f, n) == [q EXCEPT !.header_state = h, !.flags = f, !.content_length = n]
             h1 == ValueFirst(parser.header_state, ch)
             f1 == IF parser.header_state = "h_upgrade" THEN q.flags \cup {"F_UPGRADE"} ELSE q.flags
             n1 == IF of THEN HexValue[ch] ELSE parser.content_length
  <2>1. /\ IsParser(q) /\ q.state = "s_header_value"
        /\ q.header_state = parser.header_state /\ q.content_length = parser.content_length
    BY CountedKeeps DEF Fine
  <2>2. p = r(h1, f1, n1)
    BY <2>1
  <2>3. ASSUME NEW h, NEW f, NEW n
        PROVE  /\ IsParser(r(h, f, n)) /\ r(h, f, n).state = "s_header_value"
               /\ r(h, f, n).header_state = h /\ r(h, f, n).content_length = n
    <3> HIDE DEF q
    <3> QED
      BY <2>1 DEF IsParser, ParserFields
  <2> HIDE DEF p, r, q, h1, f1
  <2>4. p.content_length \in 0..ULLONG_MAX
    <3>1. p.content_length = n1
      BY <2>2, <2>3
    <3>2. of => HexValue[ch] \in 0..15
      BY <1>3, HexAssumption DEF Hex
    <3> HIDE DEF of
    <3> QED
      BY <3>1, <3>2, SizesAssumption DEF Fine
  <2>5. IsParser(p) /\ p.state = "s_header_value"
        /\ p.header_state = ValueFirst(parser.header_state, ch)
    BY <2>2, <2>3 DEF h1
  <2>6. Fine(p)
    BY <2>4, <2>5, FirstMatched DEF Fine, InBody, InChunk, InSize
  <2> QED
    BY <1>1, <1>3, <2>6, Stepping, TellsBecomes
<1> QED
  BY <1>2, <1>3 DEF ValueStart

LEMMA ValueTakes ==
  ASSUME IInv, Value
  PROVE  IInv'
<1> USE DEF IInv
<1> DEFINE n == Before(LineEnds)
           base == [counted EXCEPT !.nread = @ + n]
           p == FoldLeft(ValueUnit, base, These(n))
<1>1. ValueTaken(n, p) /\ parser.state = "s_header_value"
  BY OnUnit DEF Value
<1>2. n \in 0..left /\ These(n) \in Seq(STRING)
  BY BeforeIsPart
<1> HIDE DEF n
<1> DEFINE t == "F_TRAILING" \in parser.flags
<1>3. Underway(base, t) /\ t \in BOOLEAN
  BY <1>1, CountedKeeps DEF Fine, IsParser, ParserFields, Underway
<1> HIDE DEF base, t
<1>4. Underway(p, t)
  BY <1>2, <1>3, ValueKeeps
<1> HIDE DEF p
<1>5. Fine(p)
  BY <1>4 DEF Underway, Fine, InBody, InChunk, InSize
<1>6. CASE Stops
  BY <1>6, StopsKeeps
<1>7. CASE TakesTooMany(n, p)
  BY <1>2, <1>5, <1>7, ErrorFine, TellsBecomes, Stepping DEF TakesTooMany
<1>8. CASE Take(n) /\ Quietly(p)
  BY <1>2, <1>5, <1>8, TellsBecomes, Stepping
<1>9. ASSUME NEW e
      PROVE  Fine([p EXCEPT !.state = "s_header_almost_done", !.error = e])
  <2> DEFINE q == [p EXCEPT !.state = "s_header_almost_done", !.error = e]
  <2>1. IsParser(q) /\ q.content_length = p.content_length /\ q.state = "s_header_almost_done"
    BY <1>4 DEF Underway, IsParser, ParserFields
  <2> HIDE DEF q
  <2>2. Fine(q)
    BY <1>4, <2>1, PlainFine DEF Underway, IsPlain, InBody, InChunk, InSize
  <2> QED
    BY <2>2 DEF q
<1>10. CASE /\ n < left
            /\ Take(IF TooMany(p) THEN n ELSE n + 1)
            /\ HandsOut(at + n, [p EXCEPT !.state = "s_header_almost_done", !.error = TooMany(p)])
  <2> DEFINE q == [p EXCEPT !.state = "s_header_almost_done", !.error = TooMany(p)]
             m == IF TooMany(p) THEN n ELSE n + 1
  <2>1. m \in 0..left
    BY <1>2, <1>10 DEF Placed
  <2>2. Fine(q)
    BY <1>9
  <2>3. Take(m) /\ Becomes(q)
    <3> HIDE DEF q
    <3> QED
      BY <1>10, TellsBecomes DEF q
  <2> HIDE DEF m, q
  <2> QED
    BY <2>1, <2>2, <2>3, Stepping
<1>11. CASE /\ Take(n)
            /\ HandsOut(at + n, [p EXCEPT !.state = "s_header_almost_done", !.nread = @ - 1])
  <2> DEFINE q == [p EXCEPT !.state = "s_header_almost_done", !.nread = @ - 1]
  <2>1. IsParser(q) /\ q.content_length = p.content_length /\ q.state = "s_header_almost_done"
    BY <1>4 DEF Underway, IsParser, ParserFields
  <2>2. HandsOut(at + n, q)
    BY <1>11
  <2> HIDE DEF q
  <2>3. Fine(q)
    BY <1>4, <2>1, PlainFine DEF Underway, IsPlain, InBody, InChunk, InSize
  <2> QED
    BY <1>2, <1>11, <2>2, <2>3, Stepping, TellsBecomes
<1> QED
  BY <1>1, <1>6, <1>7, <1>8, <1>10, <1>11 DEF ValueTaken

\* What is around a value, and the end of all headers.
LEMMA HeadersKeep ==
  ASSUME IInv, NextLine \/ NoValueYet \/ NoValue \/ HeadersAlmostDone
  PROVE  IInv'
<1> USE DEF IInv
<1>1. \A s \in {"s_header_value_start", "s_header_field_start", "s_header_value_discard_ws",
                "s_header_value_discard_ws_almost_done", "s_header_value_discard_lws",
                "s_message_done", "s_headers_done"} : IsPlain(s)
  BY DEF IsPlain, InBody, InChunk, InSize
<1>2. Fine([Flagged(parser) EXCEPT !.state = "s_header_field_start"])
  <2> DEFINE f == Flagged(parser)
             q == [f EXCEPT !.state = "s_header_field_start"]
  <2>1. IsParser(f) /\ f.content_length = parser.content_length
    BY FlaggedKeeps DEF Fine
  <2> HIDE DEF f
  <2>2. IsParser(q) /\ q.content_length = parser.content_length /\ q.state = "s_header_field_start"
    BY <2>1 DEF IsParser, ParserFields
  <2> HIDE DEF q
  <2>3. Fine(q)
    BY <1>1, <2>2, PlainFine DEF Fine
  <2> QED
    BY <2>3 DEF q, f
<1>3. CASE NextLine
  <2> DEFINE p == [parser EXCEPT !.state = "s_header_value_start"]
             q == [Flagged(parser) EXCEPT !.state = "s_header_field_start"]
  <2>1. Again /\ (Quietly(p) \/ Quietly(q))
    BY <1>3 DEF NextLine
  <2>2. IsParser(p) /\ p.content_length = parser.content_length /\ p.state = "s_header_value_start"
    BY DEF Fine, IsParser, ParserFields
  <2> HIDE DEF p
  <2>3. Fine(p)
    BY <1>1, <2>2, PlainFine DEF Fine
  <2>4. Fine(q)
    BY <1>2
  <2> HIDE DEF q
  <2> QED
    BY <2>1, <2>3, <2>4, Stepping, TellsBecomes
<1>4. CASE NoValueYet
  <2> DEFINE s == IF ch = "CR" THEN "s_header_value_discard_ws_almost_done"
                  ELSE "s_header_value_discard_lws"
  <2>1. 1 \in 0..left /\ Take(1) /\ Quietly(To(s))
    BY <1>4, OnUnit DEF NoValueYet
  <2>2. IsPlain(s)
    BY <1>1
  <2> HIDE DEF s
  <2> QED
    BY <2>1, <2>2, SteppingTo, TellsBecomes
<1>5. CASE NoValue
  <2> DEFINE q == [Flagged(parser) EXCEPT !.state = "s_header_field_start"]
  <2>1. 1 \in 0..left
    BY <1>5, OnUnit DEF NoValue
  <2>2. \/ Take(1) /\ Quietly(To("s_header_value_discard_ws"))
        \/ Again /\ Calls("header_value", << >>, q)
    BY <1>5 DEF NoValue
  <2>3. Fine(q)
    BY <1>2
  <2> HIDE DEF q
  <2> QED
    BY <1>1, <2>1, <2>2, <2>3, Stepping, SteppingTo, TellsBecomes
<1>6. CASE HeadersAlmostDone
  <2> DEFINE u == \/ {"F_UPGRADE", "F_CONNECTION_UPGRADE"} \subseteq parser.flags
                  \/ parser.method = "CONNECT "
             q == [parser EXCEPT !.state = "s_headers_done", !.upgrade = u]
  <2>1. /\ Again
        /\ \/ Quietly(To("s_message_done"))
           \/ Notifies("headers_complete", q)
    BY <1>6 DEF HeadersAlmostDone
  <2> HIDE DEF u
  <2>2. IsParser(q) /\ q.content_length = parser.content_length /\ q.state = "s_headers_done"
    BY DEF Fine, IsParser, ParserFields
  <2> HIDE DEF q
  <2>3. Fine(q)
    BY <1>1, <2>2, PlainFine DEF Fine
  <2> QED
    BY <1>1, <2>1, <2>3, Stepping, SteppingTo, TellsBecomes
<1> QED
  BY <1>3, <1>4, <1>5, <1>6

-----------------------------------------------------------------------------
(* Bodies.                                                                 *)

\* What is read of a body is in the buffer, and no more than is left of it.
LEMMA ReadIsPart ==
  ASSUME Placed, parser.content_length \in 0..ULLONG_MAX
  PROVE  /\ ToRead \in 0..left
         /\ parser.content_length - ToRead \in 0..parser.content_length
         /\ left > 0 /\ parser.content_length # 0 => ToRead - 1 \in 0..left
         /\ left > 0 /\ parser.content_length # 0 =>
              parser.content_length - ToRead < parser.content_length
<1> DEFINE c == parser.content_length
<1>1. left \in Nat /\ c \in Nat
  BY SizesAssumption DEF Placed
<1> HIDE DEF c
<1>2. ToRead = IF c < left THEN c ELSE left
  BY DEF ToRead, c
<1> QED
  BY <1>1, <1>2 DEF c

\* After its headers a message is over, or it has a body of a known length.
LEMMA HeadersDoneKeeps ==
  ASSUME IInv, HeadersDone
  PROVE  IInv'
<1> USE DEF IInv
<1> DEFINE p == [parser EXCEPT !.nread = 0]
           chunked == "F_CHUNKED" \in p.flags
           over == p.upgrade /\ (p.method = "CONNECT " \/ (~chunked /\ NoLength))
           done == [p EXCEPT !.state = NewMessage, !.exited = over]
           more == [p EXCEPT !.state = IF chunked THEN "s_chunk_size_start" ELSE "s_body_identity"]
<1>1. 1 \in 0..left /\ Take(1)
  BY OnUnit DEF HeadersDone
<1>2. \/ Notifies("message_complete", done)
      \/ (chunked \/ ~NoLength) /\ Quietly(more)
  BY DEF HeadersDone
<1>3. IsParser(p) /\ p.content_length = parser.content_length /\ p.flags = parser.flags
      /\ p.nread = 0
  BY DEF Fine, IsParser, ParserFields
<1> HIDE DEF p, over, chunked
<1>4. Fine(done)
  <2>1. IsParser(done) /\ done.content_length = parser.content_length /\ done.state = NewMessage
    BY <1>3 DEF IsParser, ParserFields
  <2>2. IsPlain(NewMessage)
    BY DEF NewMessage, IsPlain, InBody, InChunk, InSize
  <2> HIDE DEF done
  <2> QED
    BY <2>1, <2>2, PlainFine DEF Fine
<1>5. ASSUME chunked \/ ~NoLength
      PROVE  Fine(more)
  <2>1. /\ IsParser(more) /\ more.content_length = parser.content_length
        /\ more.flags = parser.flags /\ more.nread = 0
        /\ more.state = IF chunked THEN "s_chunk_size_start" ELSE "s_body_identity"
    BY <1>3 DEF IsParser, ParserFields
  <2>2. chunked => "F_CHUNKED" \in parser.flags
    BY <1>3 DEF chunked
  <2>3. ~chunked => parser.content_length \notin {0, ULLONG_MAX}
    BY <1>5 DEF NoLength
  <2> HIDE DEF more
  <2> QED
    BY <2>1, <2>2, <2>3 DEF Fine, InBody, InChunk, InSize
<1> HIDE DEF done, more
<1> QED
  BY <1>1, <1>2, <1>4, <1>5, Stepping, TellsBecomes

\* Bodies with a length, and the end of a message.
LEMMA IdentityKeeps ==
  ASSUME IInv, BodyIdentity \/ MessageDone
  PROVE  IInv'
<1> USE DEF IInv
<1>1. CASE BodyIdentity
  <2> DEFINE c == parser.content_length - ToRead
             p == [parser EXCEPT !.content_length = @ - ToRead]
             q == [p EXCEPT !.state = "s_message_done"]
  <2>1. parser.state = "s_body_identity" /\ left > 0
    BY <1>1, OnUnit DEF BodyIdentity
  <2>2. parser.content_length \in 0..ULLONG_MAX /\ parser.content_length \notin {0, ULLONG_MAX}
    BY <2>1 DEF Fine, InBody
  <2>3. /\ ToRead \in 0..left /\ ToRead - 1 \in 0..left
        /\ c \in 0..parser.content_length /\ c < parser.content_length
    BY <2>1, <2>2, ReadIsPart
  <2>4. IsParser(p) /\ p.content_length = c /\ p.state = "s_body_identity"
    BY <2>1 DEF Fine, IsParser, ParserFields
  <2>5. \/ Take(ToRead - 1) /\ Calls("body", These(ToRead), q)
        \/ c > 0 /\ Take(ToRead) /\ Quietly(p)
    BY <1>1, <2>4 DEF BodyIdentity
  <2> HIDE DEF p, c
  <2>6. c \in 0..ULLONG_MAX /\ c # ULLONG_MAX
    BY <2>2, <2>3, SizesAssumption
  <2>7. Fine(q)
    <3>1. IsParser(q) /\ q.content_length = c /\ q.state = "s_message_done"
      BY <2>4 DEF IsParser, ParserFields
    <3> HIDE DEF q
    <3> QED
      BY <2>6, <3>1, PlainFine DEF IsPlain, InBody, InChunk, InSize
  <2>8. c > 0 => Fine(p)
    BY <2>4, <2>6 DEF Fine, InBody, InChunk, InSize
  <2> HIDE DEF q
  <2> QED
    BY <2>3, <2>5, <2>7, <2>8, Stepping, TellsBecomes
<1>2. CASE MessageDone
  <2> DEFINE q == [parser EXCEPT !.state = NewMessage, !.exited = parser.upgrade]
  <2>1. 1 \in 0..left /\ Take(1) /\ Notifies("message_complete", q)
    BY <1>2, OnUnit DEF MessageDone
  <2>2. IsParser(q) /\ q.content_length = parser.content_length /\ q.state = NewMessage
    BY DEF Fine, IsParser, ParserFields
  <2>3. IsPlain(NewMessage)
    BY DEF NewMessage, IsPlain, InBody, InChunk, InSize
  <2> HIDE DEF q
  <2>4. Fine(q)
    BY <2>2, <2>3, PlainFine DEF Fine
  <2> QED
    BY <2>1, <2>4, Stepping, TellsBecomes
<1> QED
  BY <1>1, <1>2

\* The size of a chunk.
LEMMA ChunkSizeKeeps ==
  ASSUME IInv, ChunkSize \/ ChunkTooLong
  PROVE  IInv'
<1> USE DEF IInv
<1>1. CASE ChunkTooLong
  BY <1>1, StopsKeeps DEF ChunkTooLong
<1>2. ASSUME ChunkSize PROVE IInv'
  <2>1. Take(1) /\ 1 \in 0..left
    BY <1>2, OnUnit DEF ChunkSize
  <2>2. parser.content_length \in 0..ULLONG_MAX /\ IsParser(parser)
    BY DEF Fine
  <2>3. CASE On("s_chunk_size_start") /\ ch \in Hex
             /\ Quietly([To("s_chunk_size") EXCEPT !.content_length = HexValue[ch]])
    <3> DEFINE p == [To("s_chunk_size") EXCEPT !.content_length = HexValue[ch]]
    <3>1. HexValue[ch] \in 0..ULLONG_MAX /\ HexValue[ch] # ULLONG_MAX
      <4>1. HexValue[ch] \in 0..15
        BY <2>3, HexAssumption
      <4> QED
        BY <4>1, SizesAssumption
    <3>2. "F_CHUNKED" \in parser.flags
      BY <2>3, OnUnit DEF Fine, InChunk
    <3>3. /\ IsParser(p) /\ p.content_length = HexValue[ch] /\ p.state = "s_chunk_size"
          /\ p.flags = parser.flags
      BY <2>2, CountedKeeps DEF IsParser, ParserFields
    <3> HIDE DEF p
    <3>4. Fine(p)
      BY <3>1, <3>2, <3>3 DEF Fine, InBody
    <3> QED
      BY <2>1, <2>3, <3>4, Stepping, TellsBecomes DEF p
  <2>4. CASE On("s_chunk_size") /\ ch \in Hex /\ Fits(parser.content_length, 16)
             /\ Quietly([counted EXCEPT !.content_length = WithDigit(@, 16, ch)])
    <3> DEFINE n == WithDigit(parser.content_length, 16, ch)
               p == [counted EXCEPT !.content_length = WithDigit(@, 16, ch)]
    <3>1. n \in 0..ULLONG_MAX /\ n # ULLONG_MAX
      BY <2>2, <2>4, DigitFits
    <3>2. "F_CHUNKED" \in parser.flags /\ parser.state = "s_chunk_size"
      BY <2>4, OnUnit DEF Fine, InChunk, InSize
    <3>3. /\ IsParser(p) /\ p.content_length = n /\ p.state = "s_chunk_size"
          /\ p.flags = parser.flags
      BY <2>2, <3>2, CountedKeeps DEF IsParser, ParserFields
    <3> HIDE DEF p, n
    <3>4. Fine(p)
      BY <3>1, <3>2, <3>3 DEF Fine, InBody
    <3> QED
      BY <2>1, <2>4, <3>4, Stepping, TellsBecomes DEF p
  <2>5. ASSUME parser.state \in {"s_chunk_size", "s_chunk_parameters"},
               NEW s \in {"s_chunk_parameters", "s_chunk_size_almost_done"}
        PROVE  Fine(To(s)) /\ (s = parser.state => Fine(counted))
    <3>1. "F_CHUNKED" \in parser.flags /\ parser.content_length # ULLONG_MAX
      BY <2>5 DEF Fine, InChunk, InSize
    <3> QED
      BY <2>2, <2>5, <3>1, CountedKeeps DEF Fine, InBody
  <2>6. CASE On("s_chunk_size") /\ Quietly(To("s_chunk_parameters"))
    BY <2>1, <2>5, <2>6, OnUnit, Stepping, TellsBecomes
  <2>7. CASE On("s_chunk_parameters") /\ Quietly(counted)
    <3>1. Fine(counted)
      BY <2>5, <2>7, OnUnit
    <3> QED
      BY <2>1, <2>7, <3>1, Stepping, TellsBecomes
  <2>8. CASE (On("s_chunk_size") \/ On("s_chunk_parameters")) /\ Quietly(To("s_chunk_size_almost_done"))
    <3>1. parser.state \in {"s_chunk_size", "s_chunk_parameters"}
      BY <2>8 DEF On
    <3> QED
      BY <2>1, <2>5, <2>8, <3>1, Stepping, TellsBecomes
  <2> QED
    BY <1>2, <2>3, <2>4, <2>6, <2>7, <2>8 DEF ChunkSize
<1> QED
  BY <1>1, <1>2

\* Chunks, from the end of the size on.
LEMMA ChunkKeeps ==
  ASSUME IInv, ChunkSizeAlmostDone \/ ChunkData \/ ChunkDataAlmostDone \/ ChunkDataDone
  PROVE  IInv'
<1> USE DEF IInv
<1>1. IsParser(parser) /\ parser.content_length \in 0..ULLONG_MAX
  BY DEF Fine
<1>2. CASE ChunkSizeAlmostDone
  <2> DEFINE p == [parser EXCEPT !.nread = 0]
             last == [p EXCEPT !.flags = @ \cup {"F_TRAILING"}, !.state = "s_header_field_start"]
             data == [p EXCEPT !.state = "s_chunk_data"]
  <2>1. 1 \in 0..left /\ Take(1) /\ parser.state = "s_chunk_size_almost_done"
    BY <1>2, OnUnit DEF ChunkSizeAlmostDone
  <2>2. "F_CHUNKED" \in parser.flags /\ parser.content_length # ULLONG_MAX
    BY <2>1 DEF Fine, InChunk, InSize
  <2>3. Quietly(IF p.content_length = 0 THEN last ELSE data)
    BY <1>2 DEF ChunkSizeAlmostDone
  <2>4. IsParser(p) /\ p.content_length = parser.content_length /\ p.flags = parser.flags
    BY <1>1 DEF IsParser, ParserFields
  <2> HIDE DEF p
  <2>5. Fine(last)
    <3>1. IsParser(last) /\ last.content_length = parser.content_length
          /\ last.state = "s_header_field_start"
      BY <2>4 DEF IsParser, ParserFields
    <3> HIDE DEF last
    <3> QED
      BY <1>1, <3>1, PlainFine DEF IsPlain, InBody, InChunk, InSize
  <2>6. ASSUME p.content_length # 0 PROVE Fine(data)
    <3>1. IsParser(data) /\ data.content_length = parser.content_length
          /\ data.state = "s_chunk_data" /\ data.flags = parser.flags
      BY <2>4 DEF IsParser, ParserFields
    <3> HIDE DEF data
    <3> QED
      BY <1>1, <2>2, <2>4, <2>6, <3>1 DEF Fine, InBody, InChunk, InSize
  <2> HIDE DEF last, data
  <2> QED
    BY <2>1, <2>3, <2>5, <2>6, Stepping, TellsBecomes
<1>3. CASE ChunkData
  <2> DEFINE c == parser.content_length - ToRead
             p == [parser EXCEPT !.content_length = @ - ToRead]
             done == [p EXCEPT !.state = "s_chunk_data_almost_done"]
  <2>1. Take(ToRead) /\ ToRead \in 0..left /\ parser.state = "s_chunk_data"
    BY <1>1, <1>3, OnUnit, ReadIsPart DEF ChunkData
  <2>2. "F_CHUNKED" \in parser.flags /\ parser.content_length \notin {0, ULLONG_MAX}
    BY <2>1 DEF Fine, InBody, InChunk
  <2>3. Quietly(IF p.content_length = 0 THEN done ELSE p)
    BY <1>3 DEF ChunkData
  <2>4. IsParser(p) /\ p.content_length = c /\ p.flags = parser.flags /\ p.state = "s_chunk_data"
    BY <1>1, <2>1 DEF IsParser, ParserFields
  <2>5. c \in 0..parser.content_length
    BY <1>1, ReadIsPart
  <2> HIDE DEF p, c
  <2>6. c \in 0..ULLONG_MAX /\ c # ULLONG_MAX
    BY <1>1, <2>2, <2>5, SizesAssumption
  <2>7. ASSUME c # 0 PROVE Fine(p)
    BY <2>2, <2>4, <2>6, <2>7 DEF Fine, InBody, InChunk, InSize
  <2>8. ASSUME c = 0 PROVE Fine(done)
    <3>1. IsParser(done) /\ done.content_length = c /\ done.flags = parser.flags
          /\ done.state = "s_chunk_data_almost_done"
      BY <2>4 DEF IsParser, ParserFields
    <3> HIDE DEF done
    <3> QED
      BY <2>2, <2>6, <2>8, <3>1 DEF Fine, InBody, InChunk, InSize
  <2> HIDE DEF done
  <2> QED
    BY <2>1, <2>3, <2>4, <2>7, <2>8, Stepping, TellsBecomes
<1>4. CASE ChunkDataAlmostDone
  <2>1. 1 \in 0..left /\ Take(1) /\ parser.state = "s_chunk_data_almost_done"
    BY <1>4, OnUnit DEF ChunkDataAlmostDone
  <2>2. "F_CHUNKED" \in parser.flags
    BY <2>1 DEF Fine, InChunk
  <2>3. Becomes(To("s_chunk_data_done"))
    BY <1>4, TellsBecomes DEF ChunkDataAlmostDone
  <2>4. Fine(To("s_chunk_data_done"))
    BY <1>1, <2>2, CountedKeeps DEF Fine, InBody, InSize
  <2> QED
    BY <2>1, <2>3, <2>4, Stepping
<1>5. CASE ChunkDataDone
  <2> DEFINE p == [parser EXCEPT !.nread = 0, !.state = "s_chunk_size_start"]
  <2>1. 1 \in 0..left /\ Take(1) /\ parser.state = "s_chunk_data_done" /\ Becomes(p)
    BY <1>5, OnUnit, TellsBecomes DEF ChunkDataDone
  <2>2. "F_CHUNKED" \in parser.flags
    BY <2>1 DEF Fine, InChunk
  <2>3. /\ IsParser(p) /\ p.content_length = parser.content_length /\ p.nread = 0
        /\ p.flags = parser.flags /\ p.state = "s_chunk_size_start"
    BY <1>1 DEF IsParser, ParserFields
  <2> HIDE DEF p
  <2>4. Fine(p)
    BY <1>1, <2>2, <2>3 DEF Fine, InBody, InSize
  <2> QED
    BY <2>1, <2>4, Stepping
<1> QED
  BY <1>2, <1>3, <1>4, <1>5

-----------------------------------------------------------------------------
(* Every step, and every state.                                            *)

\* A new buffer is of what is left of the input.
LEMMA BufferKeeps ==
  ASSUME IInv, BufferStart
  PROVE  IInv'
<1> USE DEF IInv
<1>1. Placed'
  <2>1. input \in Seq(STRING) /\ at \in Nat /\ Len(input) \in Nat /\ at < Len(input)
    BY DEF Placed, BufferStart
  <2>2. PICK n \in 1..(Len(input) - at) : left' = n
    BY DEF BufferStart
  <2>3. left' \in Nat /\ at + left' <= Len(input)
    BY <2>1, <2>2
  <2>4. input' = input /\ at' = at
    BY DEF BufferStart
  <2> QED
    BY <2>1, <2>3, <2>4 DEF Placed
<1>2. Fine([parser EXCEPT !.exited = FALSE])
  BY DEF Fine, IsParser, ParserFields
<1>3. parser' = [parser EXCEPT !.exited = FALSE]
  BY DEF BufferStart, Quietly
<1> QED
  BY <1>1, <1>2, <1>3

LEMMA ExecuteKeeps ==
  ASSUME IInv, http_parser_execute
  PROVE  IInv'
<1>1. CASE BufferEnd
  BY <1>1, Stepping, TellsBecomes DEF BufferEnd, IInv
<1>2. CASE Unexpected
  BY <1>2, StopsKeeps DEF Unexpected
<1>3. CASE RequestLine
  BY <1>3, RequestLineKeeps
<1>4. CASE HeaderStep
  BY <1>4, NameKeeps, ValueStartKeeps, ValueTakes, HeadersKeep DEF HeaderStep
<1>5. CASE BodyStep
  BY <1>5, HeadersDoneKeeps, IdentityKeeps, ChunkSizeKeeps, ChunkKeeps DEF BodyStep
<1> QED
  BY <1>1, <1>2, <1>3, <1>4, <1>5 DEF http_parser_execute

LEMMA InitFine == Init => IInv
<1> SUFFICES ASSUME Init PROVE IInv
  OBVIOUS
<1>1. ParserInit
  BY DEF Init
<1>2. Placed
  <2>1. input \in Seq(STRING)
    BY <1>1, InputsAssumption DEF ParserInit
  <2> QED
    BY <1>1, <2>1 DEF ParserInit, Placed
<1>3. Fine(http_parser_init)
  <2>1. IsParser(http_parser_init)
    BY DEF http_parser_init, IsParser, ParserFields
  <2>2. http_parser_init.content_length = 0 /\ http_parser_init.state = "s_start_req"
    BY DEF http_parser_init
  <2> QED
    BY <2>1, <2>2, SizesAssumption, PlainFine DEF IsPlain, InBody, InChunk, InSize
<1> QED
  BY <1>1, <1>2, <1>3 DEF ParserInit, IInv

\* The parser is fine in every reachable state.
LEMMA ParserInvariant == Spec => []IInv
<1>1. IInv /\ [Next]_vars => IInv'
  <2> SUFFICES ASSUME IInv, [Next]_vars PROVE IInv'
    OBVIOUS
  <2>1. CASE Parse
    BY <2>1, ExecuteKeeps DEF Parse, clax_http_parse
  <2>2. CASE ReadBuffer
    BY <2>2, BufferKeeps DEF ReadBuffer
  <2>3. CASE UNCHANGED parserVars
    BY <2>3 DEF parserVars, IInv, Placed
  <2> QED
    BY <2>1, <2>2, <2>3 DEF Next, clax_http_request_body_closed_cb, vars
<1> QED
  BY <1>1, InitFine, PTL DEF Spec

\* No assertion of http_parser.c fails (http_parser_execute), whatever clients send
\* and however it is cut into buffers, for lengths of every width, and whether the
\* callbacks of clax succeed or not.
THEOREM AssertionsHold == Spec => []AssertsHold
<1>1. IInv => AssertsHold
  BY DEF IInv, Fine, AssertsHold, Unmatched, InBody, InChunk, InSize
<1> QED
  BY <1>1, ParserInvariant, PTL

-----------------------------------------------------------------------------
(* Where the parser goes, and what is marked on the way.                   *)

\* Where no message has begun, and the states of the request line and of headers.
Outside == {"s_start_req", "s_dead"}
LineStates == {"s_req_spaces_before_url", "s_req_http_start", "s_req_http_minor",
               "s_req_line_almost_done"} \cup NoSpace \cup InUrl
HeaderStates == {"s_header_field_start", "s_header_field", "s_header_value_discard_ws",
                 "s_header_value_discard_ws_almost_done", "s_header_value_discard_lws",
                 "s_header_value_start", "s_header_value", "s_header_value_lws",
                 "s_header_almost_done", "s_headers_almost_done"}
BodyStates == {"s_body_identity", "s_chunk_data", "s_chunk_data_almost_done"}
Texts == {"url", "header_field", "header_value"}

\* What is marked goes with the state.  A body that is marked is all of the buffer.
Marked ==
  /\ mark.of \in {"none", "body"} \cup Texts
  /\ mark.of = "none" => mark = NoMark
  /\ mark.of = "url" => parser.state \in NoSpace \cup InUrl
  /\ mark.of = "header_field" => parser.state = "s_header_field"
  /\ mark.of = "header_value" => parser.state = "s_header_value"
  /\ mark.of = "body" =>
       /\ parser.state \in BodyStates
       /\ mark.from \in Nat /\ mark.from < at
       /\ parser.state = "s_body_identity" => left = 0

Trailing == "F_TRAILING" \in parser.flags

Told == event' = NoEvent \/ event'.cb \in Texts

\* The steps of the parser, as far as the rest has to know of them.  It stops, or
\* there is only another line end between two messages.
StandsStill ==
  /\ parser'.state = parser.state /\ parser'.flags = parser.flags
  /\ parser'.content_length = parser.content_length
  /\ event' = NoEvent
  /\ UNCHANGED <<mark, at, left>> \/ parser.state \in Outside
  /\ Marked'

Begins ==
  /\ parser.state \in Outside /\ parser'.state \in LineStates
  /\ parser'.flags = {}
  /\ event' = NoEvent
  /\ Marked'

Reads ==
  /\ parser.state \in LineStates \cup HeaderStates
  /\ parser'.state \in LineStates \cup HeaderStates
  /\ parser.state \in HeaderStates => parser'.state \in HeaderStates
  /\ Trailing' <=> Trailing
  /\ Told
  /\ Marked'

EndsHeaders ==
  /\ parser.state = "s_headers_almost_done"
  /\ parser'.flags = parser.flags /\ parser'.content_length = parser.content_length
  /\ \/ Trailing /\ parser'.state = "s_message_done" /\ event' = NoEvent
     \/ ~Trailing /\ parser'.state = "s_headers_done" /\ event'.cb = "headers_complete"
  /\ Marked'

LeavesHeaders ==
  /\ parser.state = "s_headers_done"
  /\ parser'.flags = parser.flags /\ parser'.content_length = parser.content_length
  /\ \/ parser'.state \in Outside /\ event'.cb = "message_complete"
     \/ parser'.state = "s_chunk_size_start" /\ "F_CHUNKED" \in parser.flags /\ event' = NoEvent
     \/ /\ parser'.state = "s_body_identity" /\ "F_CHUNKED" \notin parser.flags
        /\ ~NoLength /\ event' = NoEvent
  /\ mark' = NoMark
  /\ Marked'

ReadsBody ==
  /\ parser.state = "s_body_identity" /\ mark = NoMark
  /\ parser'.flags = parser.flags
  /\ ToRead \in Nat \ {0}
  /\ parser'.content_length = parser.content_length - ToRead
  /\ \/ /\ parser'.content_length = 0 /\ parser'.state = "s_message_done"
        /\ event'.cb = "body" /\ Len(event'.buf) = ToRead
     \/ /\ parser'.content_length > 0 /\ parser'.state = "s_body_identity"
        /\ event' = NoEvent /\ mark' = [of |-> "body", from |-> at] /\ at' = at + ToRead
  /\ Marked'

EndsMessage ==
  /\ parser.state = "s_message_done" /\ parser'.state \in Outside
  /\ event'.cb = "message_complete"
  /\ Marked'

ReadsChunks ==
  /\ parser.state \in InChunk
  /\ event' = NoEvent \/ event'.cb = "body"
  /\ \/ parser'.state \in InChunk
     \/ parser'.state \in HeaderStates /\ Trailing'
  /\ Marked'

HandsOutRest ==
  /\ mark # NoMark
  /\ parser'.state = parser.state /\ parser'.flags = parser.flags
  /\ parser'.content_length = parser.content_length
  /\ event'.cb = mark.of
  /\ mark.of = "body" => Len(event'.buf) = at - mark.from /\ at - mark.from \in Nat \ {0}
  /\ mark' = NoMark
  /\ Marked'

-----------------------------------------------------------------------------
\* What is known of the parser after a step, and of what it told.
LEMMA AfterBecoming ==
  ASSUME NEW p, IsParser(p), Becomes(p)
  PROVE  /\ parser'.state = p.state /\ parser'.flags = p.flags
         /\ parser'.content_length = p.content_length
<1>1. CASE parser' = p
  BY <1>1
<1>2. CASE \E ok \in BOOLEAN : parser' = [p EXCEPT !.error = @ \/ ~ok]
  <2>1. PICK e : parser' = [p EXCEPT !.error = e]
    BY <1>2, Zenon
  <2> QED
    BY <2>1 DEF IsParser, ParserFields
<1> QED
  BY <1>1, <1>2 DEF Becomes

LEMMA AfterTelling ==
  ASSUME NEW p, NEW cb, NEW buf, NEW to
  PROVE  /\ Quietly(p) => event' = NoEvent
         /\ Calls(cb, buf, p) => event'.cb = cb /\ event'.buf = buf
         /\ Notifies(cb, p) => event'.cb = cb /\ mark' = mark
         /\ HandsOut(to, p) =>
              /\ mark' = NoMark
              /\ mark.of = "none" => event' = NoEvent
              /\ mark.of # "none" => /\ event'.cb = mark.of
                                     /\ event'.buf = SubSeq(input, mark.from + 1, to)
  BY DEF Quietly, Calls, Notifies, HandsOut

\* In the other states nothing is marked.
LEMMA Unmarked ==
  ASSUME Marked,
         parser.state \notin NoSpace \cup InUrl \cup BodyStates \cup {"s_header_field", "s_header_value"}
  PROVE  mark = NoMark
  BY DEF Marked, Texts

LEMMA NothingMarked ==
  ASSUME mark' = NoMark
  PROVE  Marked'
  BY DEF Marked, NoMark

LEMMA StopsStill ==
  ASSUME IInv, Marked, Stops
  PROVE  StandsStill
<1> DEFINE p == [parser EXCEPT !.error = TRUE]
<1>1. IsParser(p) /\ Becomes(p) /\ event' = NoEvent
  BY TellsBecomes, AfterTelling DEF Stops, IInv, Fine, IsParser, ParserFields
<1>2. p.state = parser.state /\ p.flags = parser.flags /\ p.content_length = parser.content_length
  BY DEF IInv, Fine, IsParser, ParserFields
<1> HIDE DEF p
<1>3. /\ parser'.state = parser.state /\ parser'.flags = parser.flags
      /\ parser'.content_length = parser.content_length
  BY <1>1, <1>2, AfterBecoming
<1>4. UNCHANGED <<mark, at, left>>
  BY DEF Stops, Again
<1>5. Marked'
  BY <1>3, <1>4 DEF Marked
<1> QED
  BY <1>1, <1>3, <1>4, <1>5 DEF StandsStill

\* What a step of the request line or of the headers has to show.
LEMMA Reading ==
  ASSUME NEW p, IsParser(p), Becomes(p),
         parser.state \in LineStates \cup HeaderStates, p.state \in LineStates \cup HeaderStates,
         parser.state \in HeaderStates => p.state \in HeaderStates,
         "F_TRAILING" \in p.flags <=> Trailing,
         Told, Marked'
  PROVE  Reads
  BY AfterBecoming DEF Reads, Trailing

LEMMA ReadingTo ==
  ASSUME IInv, NEW s, Becomes(To(s)),
         parser.state \in LineStates \cup HeaderStates, s \in LineStates \cup HeaderStates,
         parser.state \in HeaderStates => s \in HeaderStates,
         Told, Marked'
  PROVE  Reads
  BY CountedKeeps, Reading DEF IInv, Fine, Trailing

\* A URL leads to a state of a URL.
LEMMA UrlGoesOn ==
  ASSUME NEW s, NEW u, UrlStateFrom(s, u) # "s_dead"
  PROVE  UrlStateFrom(s, u) \in NoSpace \cup InUrl
<1>1. \A x \in UrlMoves : x.to \in NoSpace \cup InUrl
  BY DEF UrlMoves, Move, NoSpace, InUrl, InServer
<1>2. ASSUME NEW r, Follow(UrlMoves, r, u, "s_dead") # "s_dead"
      PROVE  Follow(UrlMoves, r, u, "s_dead") \in NoSpace \cup InUrl
  <2> DEFINE m == {x \in UrlMoves : r \in x.from /\ u \in x.on}
  <2>1. Follow(UrlMoves, r, u, "s_dead") = IF m = {} THEN "s_dead" ELSE (CHOOSE x \in m : TRUE).to
    BY DEF Follow
  <2>2. m # {} => (CHOOSE x \in m : TRUE) \in UrlMoves
    <3>1. m \subseteq UrlMoves
      OBVIOUS
    <3>2. m # {} => (CHOOSE x \in m : TRUE) \in m
      <4> HIDE DEF m
      <4> QED
        OBVIOUS
    <3> QED
      BY <3>1, <3>2
  <2> HIDE DEF m
  <2> QED
    BY <1>1, <1>2, <2>1, <2>2
<1> QED
  BY <1>2 DEF UrlStateFrom, parse_url_char

\* Between two messages, and the beginning of one.
LEMMA OutsideSteps ==
  ASSUME IInv, Marked, BetweenMessages \/ Method
  PROVE  StandsStill \/ Begins
<1>1. mark' = mark /\ mark = NoMark /\ Marked'
  <2>1. mark' = mark /\ parser.state \in Outside
    BY DEF BetweenMessages, Method, On, Outside
  <2>2. mark = NoMark
    BY <2>1, Unmarked DEF Outside, NoSpace, InUrl, InServer, BodyStates
  <2> QED
    BY <2>1, <2>2, NothingMarked
<1>2. CASE BetweenMessages
  <2>1. parser.state \in Outside
    BY <1>2 DEF BetweenMessages, On, Outside
  <2>2. IsParser(counted) /\ Becomes(counted) /\ event' = NoEvent
    BY <1>2, CountedKeeps, TellsBecomes, AfterTelling DEF BetweenMessages, IInv, Fine
  <2>3. /\ parser'.state = parser.state /\ parser'.flags = parser.flags
        /\ parser'.content_length = parser.content_length
    BY <2>2, AfterBecoming, CountedKeeps DEF IInv, Fine
  <2> QED
    BY <1>1, <2>1, <2>2, <2>3 DEF StandsStill
<1>3. CASE Method
  <2> DEFINE p == [To("s_req_spaces_before_url") EXCEPT
                     !.method = ch, !.flags = {}, !.content_length = ULLONG_MAX]
  <2>1. parser.state \in Outside /\ Becomes(p) /\ event' = NoEvent
    BY <1>3, TellsBecomes, AfterTelling DEF Method, On, Outside
  <2>2. IsParser(p) /\ p.flags = {} /\ p.state = "s_req_spaces_before_url"
    BY CountedKeeps DEF IInv, Fine, IsParser, ParserFields
  <2> HIDE DEF p
  <2>3. parser'.flags = {} /\ parser'.state \in LineStates
    BY <2>1, <2>2, AfterBecoming DEF LineStates
  <2> QED
    BY <1>1, <2>1, <2>3 DEF Begins
<1> QED
  BY <1>2, <1>3

\* The request line.
LEMMA LineSteps ==
  ASSUME IInv, Marked, Blanks \/ Url \/ UrlEnd \/ Version \/ VersionEnd \/ LineEnd
  PROVE  Reads
<1> USE DEF Told
<1> DEFINE Bare == LineStates \ (NoSpace \cup InUrl)
<1>1. ASSUME parser.state \in Bare \cup HeaderStates, parser.state \notin {"s_header_field", "s_header_value"},
             mark' = mark
      PROVE  Marked'
  <2>1. mark = NoMark
    BY <1>1, Unmarked DEF LineStates, HeaderStates, NoSpace, InUrl, InServer, BodyStates
  <2> QED
    BY <1>1, <2>1, NothingMarked
<1>2. /\ Bare = {"s_req_spaces_before_url", "s_req_http_start", "s_req_http_minor",
                 "s_req_line_almost_done"}
      /\ Bare \subseteq LineStates
  BY DEF LineStates, NoSpace, InUrl, InServer
<1>3. IsParser(parser)
  BY DEF IInv, Fine
<1> HIDE DEF Bare
<1>4. CASE Blanks
  <2>1. parser.state \in {"s_req_spaces_before_url", "s_req_http_start", "s_header_value_discard_ws"}
    BY <1>4 DEF Blanks, On
  <2>2. parser.state \in Bare \cup HeaderStates /\ mark' = mark
    BY <1>2, <1>4, <2>1 DEF Blanks, HeaderStates
  <2>3. Becomes(counted) /\ event' = NoEvent
    BY <1>4, TellsBecomes, AfterTelling DEF Blanks
  <2>4. Marked'
    BY <1>1, <2>1, <2>2
  <2> QED
    BY <1>2, <1>3, <2>2, <2>3, <2>4, CountedKeeps, Reading DEF Trailing
<1>5. CASE Url
  <2> DEFINE s == UrlStateFrom(parser.state, ch)
  <2>1. parser.state \in LineStates \ {"s_req_http_start"} /\ s \in NoSpace \cup InUrl
    <3>1. PICK r \in {"s_req_spaces_before_url"} \cup NoSpace \cup InUrl : On(r) /\ UrlStateFrom(r, ch) # "s_dead"
      BY <1>5 DEF Url
    <3>2. parser.state = r
      BY <3>1 DEF On
    <3> QED
      BY <3>1, <3>2, UrlGoesOn DEF LineStates, NoSpace, InUrl, InServer
  <2>2. Becomes(To(s)) /\ event' = NoEvent /\ MarkAt("url")
    BY <1>5, TellsBecomes, AfterTelling DEF Url
  <2> HIDE DEF s
  <2>3. s \in LineStates
    BY <2>1 DEF LineStates
  <2>4. Marked'
    <3>1. parser'.state = s
      BY <1>3, <2>2, AfterBecoming, CountedKeeps
    <3>2. mark'.of = "url"
      BY <2>2 DEF MarkAt
    <3> QED
      BY <2>1, <3>1, <3>2 DEF Marked, Texts
  <2>5. parser.state \in HeaderStates => s \in HeaderStates
    BY <2>1 DEF LineStates, HeaderStates, NoSpace, InUrl, InServer
  <2> QED
    BY <2>1, <2>2, <2>3, <2>4, <2>5, ReadingTo
<1>6. CASE UrlEnd
  <2> DEFINE p == CASE ch = " " -> To("s_req_http_start")
                    [] ch = "CR" -> [To("s_req_line_almost_done") EXCEPT !.http = "HTTP/0.9"]
                    [] OTHER -> [To("s_header_field_start") EXCEPT !.http = "HTTP/0.9"]
  <2>1. parser.state \in InUrl /\ HandsOut(at, p)
    BY <1>6 DEF UrlEnd, On
  <2>2. ASSUME NEW s
        PROVE  /\ IsParser(To(s)) /\ IsParser([To(s) EXCEPT !.http = "HTTP/0.9"])
               /\ To(s).state = s /\ [To(s) EXCEPT !.http = "HTTP/0.9"].state = s
               /\ To(s).flags = parser.flags
               /\ [To(s) EXCEPT !.http = "HTTP/0.9"].flags = parser.flags
    <3>1. IsParser(To(s)) /\ To(s).state = s /\ To(s).flags = parser.flags
      BY <1>3, CountedKeeps
    <3> QED
      BY <3>1 DEF IsParser, ParserFields
  <2>3. /\ IsParser(p) /\ p.flags = parser.flags
        /\ p.state \in {"s_req_http_start", "s_req_line_almost_done", "s_header_field_start"}
    BY <2>2
  <2> HIDE DEF p
  <2>4. Becomes(p) /\ mark' = NoMark /\ (event' = NoEvent \/ event'.cb = mark.of)
    BY <2>1, TellsBecomes, AfterTelling
  <2>5. event' = NoEvent \/ event'.cb \in Texts
    <3>1. mark.of # "body" /\ mark.of \in {"none", "url"}
      BY <2>1 DEF Marked, InUrl, InServer, BodyStates, Texts
    <3>2. mark.of = "none" => event' = NoEvent
      BY <2>1, AfterTelling
    <3> QED
      BY <2>4, <3>1, <3>2 DEF Texts
  <2>6. /\ p.state \in LineStates \cup HeaderStates /\ parser.state \in LineStates
        /\ parser.state \notin HeaderStates
    BY <2>1, <2>3 DEF LineStates, HeaderStates, InUrl, InServer
  <2>7. Marked'
    BY <2>4, NothingMarked
  <2> QED
    BY <2>3, <2>4, <2>5, <2>6, <2>7, Reading DEF Trailing
<1>7. CASE Version
  <2> DEFINE p == [To("s_req_http_minor") EXCEPT !.http = ch]
  <2>1. parser.state = "s_req_http_start" /\ mark' = mark /\ Becomes(p) /\ event' = NoEvent
    BY <1>7, TellsBecomes, AfterTelling DEF Version, On
  <2>2. IsParser(p) /\ p.flags = parser.flags /\ p.state = "s_req_http_minor"
    BY <1>3, CountedKeeps DEF IsParser, ParserFields
  <2> HIDE DEF p
  <2>3. Marked'
    BY <1>1, <1>2, <2>1
  <2>4. p.state \in LineStates /\ parser.state \in LineStates /\ parser.state \notin HeaderStates
    BY <2>1, <2>2 DEF LineStates, HeaderStates
  <2> QED
    BY <2>1, <2>2, <2>3, <2>4, Reading DEF Trailing
<1>8. CASE VersionEnd
  <2> DEFINE s == IF ch = "CR" THEN "s_req_line_almost_done" ELSE "s_header_field_start"
  <2>1. parser.state = "s_req_http_minor" /\ mark' = mark /\ Becomes(To(s)) /\ event' = NoEvent
    BY <1>8, TellsBecomes, AfterTelling DEF VersionEnd, On
  <2>2. Marked'
    BY <1>1, <1>2, <2>1
  <2>3. /\ s \in LineStates \cup HeaderStates
        /\ parser.state \in LineStates /\ parser.state \notin HeaderStates
    BY <2>1 DEF LineStates, HeaderStates
  <2> HIDE DEF s
  <2> QED
    BY <2>1, <2>2, <2>3, ReadingTo
<1>9. CASE LineEnd
  <2>1. PICK s \in {"s_header_field_start", "s_header_value_lws", "s_header_value_discard_lws"} :
          Quietly(To(s))
    BY <1>9 DEF LineEnd
  <2>2. /\ mark' = mark
        /\ parser.state \in {"s_req_line_almost_done", "s_header_almost_done",
                             "s_header_value_discard_ws_almost_done"}
    BY <1>9 DEF LineEnd, On
  <2>3. Becomes(To(s)) /\ event' = NoEvent
    BY <2>1, TellsBecomes, AfterTelling
  <2>4. parser.state \in LineStates \cup HeaderStates /\ s \in HeaderStates
    BY <2>1, <2>2 DEF LineStates, HeaderStates
  <2>5. Marked'
    BY <1>1, <1>2, <2>2 DEF HeaderStates
  <2> QED
    BY <2>3, <2>4, <2>5, ReadingTo
<1> QED
  BY <1>4, <1>5, <1>6, <1>7, <1>8, <1>9

\* Names.
LEMMA NameSteps ==
  ASSUME IInv, Marked, HeadersEnd \/ NameStart \/ Name
  PROVE  Reads \/ StandsStill
<1> USE DEF Told
<1>1. IsParser(parser) /\ Placed
  BY DEF IInv, Fine
<1>2. ASSUME parser.state = "s_header_field_start"
      PROVE  mark = NoMark
  BY <1>2, Unmarked DEF NoSpace, InUrl, InServer, BodyStates
<1>3. CASE HeadersEnd
  <2>1. parser.state = "s_header_field_start" /\ mark' = mark
    BY <1>3 DEF HeadersEnd, On
  <2> DEFINE p == [parser EXCEPT !.state = "s_headers_almost_done"]
  <2>2. PICK q \in {To("s_headers_almost_done"), p} : Quietly(q)
    BY <1>3 DEF HeadersEnd
  <2>3. IsParser(q) /\ q.flags = parser.flags /\ q.state = "s_headers_almost_done"
    BY <1>1, CountedKeeps DEF IsParser, ParserFields
  <2>4. Becomes(q) /\ event' = NoEvent
    BY <2>2, TellsBecomes, AfterTelling
  <2>5. Marked'
    BY <1>2, <2>1, NothingMarked
  <2>6. parser.state \in HeaderStates /\ q.state \in HeaderStates
    BY <2>1, <2>3 DEF HeaderStates
  <2> QED
    BY <2>3, <2>4, <2>5, <2>6, Reading DEF Trailing
<1>4. CASE NameStart
  <2> DEFINE p == [To("s_header_field") EXCEPT !.name = <<ch>>]
  <2>1. /\ parser.state = "s_header_field_start" /\ MarkAt("header_field")
        /\ Becomes(p) /\ event' = NoEvent
    BY <1>4, TellsBecomes, AfterTelling DEF NameStart, On
  <2>2. IsParser(p) /\ p.flags = parser.flags /\ p.state = "s_header_field"
    BY <1>1, CountedKeeps DEF IsParser, ParserFields
  <2> HIDE DEF p
  <2>3. Marked'
    <3>1. mark'.of = "header_field" /\ parser'.state = "s_header_field"
      BY <2>1, <2>2, AfterBecoming DEF MarkAt
    <3> QED
      BY <3>1 DEF Marked, Texts
  <2>4. parser.state \in HeaderStates /\ p.state \in HeaderStates
    BY <2>1, <2>2 DEF HeaderStates
  <2> QED
    BY <2>1, <2>2, <2>3, <2>4, Reading DEF Trailing
<1>5. CASE Name
  <2> DEFINE n == Before(Separators)
             p == [counted EXCEPT !.nread = @ + n, !.name = @ \o These(n)]
  <2>1. NameTaken(n, p) /\ parser.state = "s_header_field"
    BY <1>1, <1>5, OnUnit DEF Name
  <2>2. IsParser(p) /\ p.flags = parser.flags /\ p.state = "s_header_field"
    <3> HIDE DEF n
    <3> QED
      BY <1>1, <2>1, CountedKeeps DEF IsParser, ParserFields
  <2> HIDE DEF n, p
  <2>3. parser.state \in HeaderStates /\ "s_header_value_discard_ws" \in HeaderStates
    BY <2>1 DEF HeaderStates
  <2>4. mark.of \in {"none", "header_field"}
    BY <2>1 DEF Marked, Texts, NoSpace, InUrl, InServer, BodyStates
  <2>5. CASE TakesTooMany(n, p)
    <3> DEFINE q == [p EXCEPT !.error = TRUE]
    <3>1. IsParser(q) /\ q.flags = parser.flags /\ q.state = "s_header_field"
      BY <2>2 DEF IsParser, ParserFields
    <3>2. Becomes(q) /\ event' = NoEvent /\ mark' = NoMark
      BY <2>5, TellsBecomes, AfterTelling DEF TakesTooMany
    <3> HIDE DEF q
    <3> QED
      BY <2>1, <2>3, <3>1, <3>2, NothingMarked, Reading DEF Trailing
  <2>6. CASE Take(n) /\ Quietly(p) /\ UNCHANGED mark
    <3>1. Becomes(p) /\ event' = NoEvent
      BY <2>6, TellsBecomes, AfterTelling
    <3>2. parser'.state = "s_header_field"
      BY <2>2, <3>1, AfterBecoming
    <3>3. Marked'
      BY <2>4, <2>6, <3>2 DEF Marked, Texts
    <3> QED
      BY <2>1, <2>2, <2>3, <3>1, <3>3, Reading DEF Trailing
  <2>7. CASE HandsOut(at + n, [p EXCEPT !.state = "s_header_value_discard_ws", !.name = << >>,
                                        !.header_state = HeaderState(p.name)])
    <3> DEFINE q == [p EXCEPT !.state = "s_header_value_discard_ws", !.name = << >>,
                              !.header_state = HeaderState(p.name)]
    <3>1. IsParser(q) /\ q.flags = parser.flags /\ q.state = "s_header_value_discard_ws"
      BY <2>2 DEF IsParser, ParserFields
    <3>2. HandsOut(at + n, q)
      BY <2>7
    <3> HIDE DEF q
    <3>3. Becomes(q) /\ mark' = NoMark /\ (event' = NoEvent \/ event'.cb = "header_field")
      BY <2>4, <3>2, TellsBecomes, AfterTelling
    <3> QED
      BY <2>3, <3>1, <3>3, NothingMarked, Reading DEF Trailing, Texts
  <2>8. CASE Stops
    BY <2>8, StopsStill
  <2> QED
    BY <2>1, <2>5, <2>6, <2>7, <2>8 DEF NameTaken
<1> QED
  BY <1>3, <1>4, <1>5

\* Values.
LEMMA ValueStartSteps ==
  ASSUME IInv, Marked, ValueStart
  PROVE  Reads \/ StandsStill
<1> DEFINE of == parser.header_state = "h_content_length"
           f == IF parser.header_state = "h_upgrade" THEN parser.flags \cup {"F_UPGRADE"}
                ELSE parser.flags
           p == [To("s_header_value") EXCEPT
                   !.header_state = ValueFirst(@, ch),
                   !.flags = IF parser.header_state = "h_upgrade" THEN @ \cup {"F_UPGRADE"} ELSE @,
                   !.content_length = IF of THEN HexValue[ch] ELSE @]
<1>1. CASE Stops
  BY <1>1, StopsStill
<1>2. CASE Quietly(p) /\ MarkAt("header_value")
  <2>1. IsParser(p) /\ p.flags = f /\ p.state = "s_header_value"
    <3>1. /\ IsParser(To("s_header_value")) /\ To("s_header_value").flags = parser.flags
          /\ To("s_header_value").state = "s_header_value"
      BY CountedKeeps DEF IInv, Fine
    <3> HIDE DEF of
    <3> QED
      BY <3>1 DEF IsParser, ParserFields
  <2> HIDE DEF p
  <2>2. Becomes(p) /\ event' = NoEvent
    BY <1>2, TellsBecomes, AfterTelling
  <2>3. "F_TRAILING" \in p.flags <=> Trailing
    BY <2>1 DEF Trailing
  <2>4. Marked'
    <3>1. mark'.of = "header_value" /\ parser'.state = "s_header_value"
      BY <1>2, <2>1, <2>2, AfterBecoming DEF MarkAt
    <3> QED
      BY <3>1 DEF Marked, Texts
  <2>5. parser.state \in HeaderStates /\ p.state \in HeaderStates
    BY <2>1 DEF ValueStart, On, HeaderStates
  <2> QED
    BY <2>1, <2>2, <2>3, <2>4, <2>5, Reading DEF Told
<1> QED
  BY <1>1, <1>2 DEF ValueStart

LEMMA ValueSteps ==
  ASSUME IInv, Marked, Value
  PROVE  Reads \/ StandsStill
<1> USE DEF Told
<1>1. IsParser(parser) /\ Placed
  BY DEF IInv, Fine
<1> DEFINE n == Before(LineEnds)
           base == [counted EXCEPT !.nread = @ + n]
           p == FoldLeft(ValueUnit, base, These(n))
<1>2. ValueTaken(n, p) /\ parser.state = "s_header_value"
  BY <1>1, OnUnit DEF Value
<1>3. These(n) \in Seq(STRING)
  BY <1>1, BeforeIsPart
<1> HIDE DEF n
<1>4. Underway(base, Trailing) /\ Trailing \in BOOLEAN
  BY <1>2, CountedKeeps DEF IInv, Fine, IsParser, ParserFields, Underway, Trailing
<1> HIDE DEF base
<1>5. Underway(p, Trailing)
  BY <1>3, <1>4, ValueKeeps
<1> HIDE DEF p
<1>6. IsParser(p) /\ p.state = "s_header_value" /\ ("F_TRAILING" \in p.flags <=> Trailing)
  BY <1>5 DEF Underway
<1>7. parser.state \in HeaderStates /\ "s_header_almost_done" \in HeaderStates
  BY <1>2 DEF HeaderStates
<1>8. mark.of \in {"none", "header_value"}
  BY <1>2 DEF Marked, Texts, NoSpace, InUrl, InServer, BodyStates
<1>9. CASE Stops
  BY <1>9, StopsStill
<1>10. CASE TakesTooMany(n, p)
  <2> DEFINE q == [p EXCEPT !.error = TRUE]
  <2>1. IsParser(q) /\ q.flags = p.flags /\ q.state = "s_header_value"
    BY <1>6 DEF IsParser, ParserFields
  <2>2. Becomes(q) /\ event' = NoEvent /\ mark' = NoMark
    BY <1>10, TellsBecomes, AfterTelling DEF TakesTooMany
  <2> HIDE DEF q
  <2> QED
    BY <1>2, <1>6, <1>7, <2>1, <2>2, NothingMarked, Reading
<1>11. CASE Take(n) /\ Quietly(p) /\ UNCHANGED mark
  <2>1. Becomes(p) /\ event' = NoEvent
    BY <1>11, TellsBecomes, AfterTelling
  <2>2. parser'.state = "s_header_value"
    BY <1>6, <2>1, AfterBecoming
  <2>3. Marked'
    BY <1>8, <1>11, <2>2 DEF Marked, Texts
  <2> QED
    BY <1>2, <1>6, <1>7, <2>1, <2>3, Reading
<1>12. ASSUME NEW q, IsParser(q), q.flags = p.flags, q.state = "s_header_almost_done",
              HandsOut(at + n, q)
       PROVE  Reads
  <2>1. Becomes(q) /\ mark' = NoMark /\ (event' = NoEvent \/ event'.cb = "header_value")
    BY <1>8, <1>12, TellsBecomes, AfterTelling
  <2> QED
    BY <1>6, <1>7, <1>12, <2>1, NothingMarked, Reading DEF Texts
<1>13. CASE HandsOut(at + n, [p EXCEPT !.state = "s_header_almost_done", !.error = TooMany(p)])
  <2> DEFINE q == [p EXCEPT !.state = "s_header_almost_done", !.error = TooMany(p)]
  <2>1. IsParser(q) /\ q.flags = p.flags /\ q.state = "s_header_almost_done"
    BY <1>6 DEF IsParser, ParserFields
  <2>2. HandsOut(at + n, q)
    BY <1>13
  <2> HIDE DEF q
  <2> QED
    BY <1>12, <2>1, <2>2
<1>14. CASE HandsOut(at + n, [p EXCEPT !.state = "s_header_almost_done", !.nread = @ - 1])
  <2> DEFINE q == [p EXCEPT !.state = "s_header_almost_done", !.nread = @ - 1]
  <2>1. IsParser(q) /\ q.flags = p.flags /\ q.state = "s_header_almost_done"
    BY <1>6 DEF IsParser, ParserFields
  <2>2. HandsOut(at + n, q)
    BY <1>14
  <2> HIDE DEF q
  <2> QED
    BY <1>12, <2>1, <2>2
<1> QED
  BY <1>2, <1>9, <1>10, <1>11, <1>13, <1>14 DEF ValueTaken

\* What is around a value.
LEMMA AroundSteps ==
  ASSUME IInv, Marked, NextLine \/ NoValueYet \/ NoValue
  PROVE  Reads
<1> USE DEF Told
<1>1. IsParser(parser)
  BY DEF IInv, Fine
<1>2. /\ parser.state \in {"s_header_value_lws", "s_header_value_discard_ws", "s_header_value_discard_lws"}
      /\ mark' = mark
  BY DEF NextLine, NoValueYet, NoValue, On
<1>3. parser.state \in HeaderStates /\ Marked'
  <2>1. mark = NoMark
    BY <1>2, Unmarked DEF NoSpace, InUrl, InServer, BodyStates
  <2> QED
    BY <1>2, <2>1, NothingMarked DEF HeaderStates
<1> DEFINE f == [Flagged(parser) EXCEPT !.state = "s_header_field_start"]
<1>4. IsParser(f) /\ ("F_TRAILING" \in f.flags <=> Trailing) /\ f.state \in HeaderStates
  <2> DEFINE g == Flagged(parser)
  <2>1. IsParser(g) /\ ("F_TRAILING" \in g.flags <=> Trailing)
    BY <1>1, FlaggedKeeps DEF Trailing
  <2> HIDE DEF g
  <2>2. /\ IsParser([g EXCEPT !.state = "s_header_field_start"])
        /\ [g EXCEPT !.state = "s_header_field_start"].flags = g.flags
        /\ [g EXCEPT !.state = "s_header_field_start"].state = "s_header_field_start"
    BY <2>1 DEF IsParser, ParserFields
  <2> QED
    BY <2>1, <2>2 DEF g, HeaderStates
<1> HIDE DEF f
<1>5. CASE NextLine
  <2> DEFINE p == [parser EXCEPT !.state = "s_header_value_start"]
  <2>1. Quietly(p) \/ Quietly(f)
    BY <1>5 DEF NextLine, f
  <2>2. IsParser(p) /\ p.flags = parser.flags /\ p.state \in HeaderStates
    BY <1>1 DEF IsParser, ParserFields, HeaderStates
  <2> HIDE DEF p
  <2>3. PICK q \in {p, f} : Becomes(q) /\ event' = NoEvent
    BY <2>1, TellsBecomes, AfterTelling
  <2> QED
    BY <1>3, <1>4, <2>2, <2>3, Reading DEF Trailing
<1>6. CASE NoValueYet
  <2> DEFINE s == IF ch = "CR" THEN "s_header_value_discard_ws_almost_done"
                  ELSE "s_header_value_discard_lws"
  <2>1. Becomes(To(s)) /\ event' = NoEvent
    BY <1>6, TellsBecomes, AfterTelling DEF NoValueYet
  <2>2. s \in HeaderStates
    BY DEF HeaderStates
  <2> HIDE DEF s
  <2> QED
    BY <1>3, <2>1, <2>2, ReadingTo
<1>7. CASE NoValue
  <2>1. Quietly(To("s_header_value_discard_ws")) \/ Calls("header_value", << >>, f)
    BY <1>7 DEF NoValue, f
  <2>2. CASE Quietly(To("s_header_value_discard_ws"))
    BY <1>3, <2>2, TellsBecomes, AfterTelling, ReadingTo DEF HeaderStates
  <2>3. CASE Calls("header_value", << >>, f)
    BY <1>3, <1>4, <2>3, TellsBecomes, AfterTelling, Reading DEF Texts
  <2> QED
    BY <2>1, <2>2, <2>3
<1> QED
  BY <1>5, <1>6, <1>7

\* The end of all headers.
LEMMA HeadersEndSteps ==
  ASSUME IInv, Marked, HeadersAlmostDone
  PROVE  EndsHeaders
<1>1. IsParser(parser) /\ parser.state = "s_headers_almost_done" /\ mark' = mark
  BY DEF IInv, Fine, HeadersAlmostDone, On, Notifies
<1>2. Marked'
  <2>1. mark = NoMark
    BY <1>1, Unmarked DEF NoSpace, InUrl, InServer, BodyStates
  <2> QED
    BY <1>1, <2>1, NothingMarked
<1> DEFINE u == \/ {"F_UPGRADE", "F_CONNECTION_UPGRADE"} \subseteq parser.flags
                \/ parser.method = "CONNECT "
           q == [parser EXCEPT !.state = "s_headers_done", !.upgrade = u]
<1>3. CASE Trailing /\ Quietly(To("s_message_done"))
  <2>1. Becomes(To("s_message_done")) /\ event' = NoEvent
    BY <1>3, TellsBecomes, AfterTelling
  <2>2. /\ parser'.state = "s_message_done" /\ parser'.flags = parser.flags
        /\ parser'.content_length = parser.content_length
    BY <1>1, <2>1, CountedKeeps, AfterBecoming
  <2> QED
    BY <1>1, <1>2, <1>3, <2>1, <2>2 DEF EndsHeaders
<1>4. CASE ~Trailing /\ Notifies("headers_complete", q)
  <2>1. /\ IsParser(q) /\ q.flags = parser.flags /\ q.content_length = parser.content_length
        /\ q.state = "s_headers_done"
    <3> HIDE DEF u
    <3> QED
      BY <1>1 DEF IsParser, ParserFields
  <2> HIDE DEF q
  <2>2. Becomes(q) /\ event'.cb = "headers_complete"
    BY <1>4, TellsBecomes, AfterTelling
  <2> QED
    BY <1>1, <1>2, <1>4, <2>1, <2>2, AfterBecoming DEF EndsHeaders
<1> QED
  BY <1>3, <1>4 DEF HeadersAlmostDone, Trailing

\* What comes behind the headers.
LEMMA HeadersDoneSteps ==
  ASSUME IInv, Marked, HeadersDone
  PROVE  LeavesHeaders
<1> DEFINE p == [parser EXCEPT !.nread = 0]
           chunked == "F_CHUNKED" \in p.flags
           over == p.upgrade /\ (p.method = "CONNECT " \/ (~chunked /\ NoLength))
           done == [p EXCEPT !.state = NewMessage, !.exited = over]
           more == [p EXCEPT !.state = IF chunked THEN "s_chunk_size_start" ELSE "s_body_identity"]
<1>1. parser.state = "s_headers_done" /\ mark' = mark
  BY DEF HeadersDone, On, Notifies
<1>2. \/ Notifies("message_complete", done)
      \/ (chunked \/ ~NoLength) /\ Quietly(more)
  BY DEF HeadersDone
<1>3. IsParser(p) /\ p.content_length = parser.content_length /\ p.flags = parser.flags
  BY DEF IInv, Fine, IsParser, ParserFields
<1>4. mark' = NoMark /\ Marked'
  <2>1. mark = NoMark
    BY <1>1, Unmarked DEF NoSpace, InUrl, InServer, BodyStates
  <2> QED
    BY <1>1, <2>1, NothingMarked
<1> HIDE DEF p, over
<1>5. CASE Notifies("message_complete", done)
  <2>1. /\ IsParser(done) /\ done.content_length = parser.content_length
        /\ done.flags = parser.flags /\ done.state = NewMessage
    BY <1>3 DEF IsParser, ParserFields
  <2>2. NewMessage \in Outside
    BY DEF NewMessage, Outside
  <2> HIDE DEF done
  <2>3. Becomes(done) /\ event'.cb = "message_complete"
    BY <1>5, TellsBecomes, AfterTelling
  <2> QED
    BY <1>1, <1>4, <2>1, <2>2, <2>3, AfterBecoming DEF LeavesHeaders
<1>6. CASE (chunked \/ ~NoLength) /\ Quietly(more)
  <2>1. /\ IsParser(more) /\ more.content_length = parser.content_length
        /\ more.flags = parser.flags
        /\ more.state = IF chunked THEN "s_chunk_size_start" ELSE "s_body_identity"
    BY <1>3 DEF IsParser, ParserFields
  <2> HIDE DEF more
  <2>2. Becomes(more) /\ event' = NoEvent
    BY <1>6, TellsBecomes, AfterTelling
  <2> QED
    BY <1>1, <1>3, <1>4, <1>6, <2>1, <2>2, AfterBecoming DEF LeavesHeaders
<1> QED
  BY <1>2, <1>5, <1>6

\* The units of a body are all of them there.
LEMMA TheseAre ==
  ASSUME Placed, NEW n \in 0..left
  PROVE  Len(These(n)) = n
<1>1. input \in Seq(STRING) /\ at \in Nat /\ left \in Nat /\ at + left <= Len(input)
  BY DEF Placed
<1>2. at + 1 \in Nat /\ at + n \in Nat /\ at + n <= Len(input) /\ Len(input) \in Nat
  BY <1>1
<1>3. \A i \in (at + 1)..(at + n) : i \in DOMAIN input
  BY <1>1, <1>2
<1>4. Len(SubSeq(input, at + 1, at + n)) = n
  BY <1>1, <1>2, <1>3
<1> QED
  BY <1>4 DEF These

\* A body with a length.
LEMMA IdentitySteps ==
  ASSUME IInv, Marked, BodyIdentity
  PROVE  ReadsBody
<1> DEFINE c == parser.content_length - ToRead
           p == [parser EXCEPT !.content_length = @ - ToRead]
           q == [p EXCEPT !.state = "s_message_done"]
<1>1. parser.state = "s_body_identity" /\ left > 0 /\ Placed /\ left \in Nat
  BY OnUnit DEF BodyIdentity, IInv
<1>2. mark = NoMark
  BY <1>1 DEF Marked, Texts, NoSpace, InUrl, InServer
<1>3. parser.content_length \in 0..ULLONG_MAX /\ parser.content_length # 0
  BY <1>1 DEF IInv, Fine, InBody
<1>4. ToRead \in 0..left /\ ToRead # 0 /\ c \in 0..parser.content_length
  <2>1. ToRead = IF parser.content_length < left THEN parser.content_length ELSE left
    BY DEF ToRead
  <2> QED
    BY <1>1, <1>3, <2>1, ReadIsPart
<1>5. IsParser(p) /\ p.content_length = c /\ p.flags = parser.flags /\ p.state = "s_body_identity"
  BY <1>1 DEF IInv, Fine, IsParser, ParserFields
<1>6. \/ c = 0 /\ Calls("body", These(ToRead), q) /\ mark' = mark
      \/ c > 0 /\ Take(ToRead) /\ Quietly(p) /\ MarkAt("body")
  BY <1>5 DEF BodyIdentity
<1>7. IsParser(q) /\ q.content_length = c /\ q.flags = parser.flags /\ q.state = "s_message_done"
  BY <1>5 DEF IsParser, ParserFields
<1> HIDE DEF p, q
<1>8. CASE c = 0 /\ Calls("body", These(ToRead), q) /\ mark' = mark
  <2>1. Becomes(q) /\ event'.cb = "body" /\ event'.buf = These(ToRead)
    BY <1>8, TellsBecomes, AfterTelling
  <2>2. Len(These(ToRead)) = ToRead
    BY <1>1, <1>4, TheseAre
  <2>3. Marked'
    BY <1>2, <1>8, NothingMarked
  <2> QED
    BY <1>1, <1>2, <1>4, <1>7, <1>8, <2>1, <2>2, <2>3, AfterBecoming DEF ReadsBody
<1>9. CASE c > 0 /\ Take(ToRead) /\ Quietly(p) /\ MarkAt("body")
  <2>1. Becomes(p) /\ event' = NoEvent
    BY <1>9, TellsBecomes, AfterTelling
  <2>2. mark' = [of |-> "body", from |-> at]
    BY <1>2, <1>9 DEF MarkAt, NoMark
  <2>3. at' = at + ToRead /\ at \in Nat /\ left' = left - ToRead
    BY <1>1, <1>9 DEF Take, Placed
  <2>4. left' = 0
    <3>1. ToRead = IF parser.content_length < left THEN parser.content_length ELSE left
      BY DEF ToRead
    <3> QED
      BY <1>1, <1>3, <1>9, <2>3, <3>1
  <2>5. parser'.state = "s_body_identity" /\ parser'.flags = parser.flags
        /\ parser'.content_length = c
    BY <1>5, <2>1, AfterBecoming
  <2>6. Marked'
    BY <1>4, <2>2, <2>3, <2>4, <2>5 DEF Marked, BodyStates, Texts
  <2> QED
    BY <1>1, <1>2, <1>4, <1>9, <2>1, <2>2, <2>3, <2>5, <2>6 DEF ReadsBody
<1> QED
  BY <1>6, <1>8, <1>9

LEMMA MessageDoneSteps ==
  ASSUME IInv, Marked, MessageDone
  PROVE  EndsMessage
<1> DEFINE q == [parser EXCEPT !.state = NewMessage, !.exited = parser.upgrade]
<1>1. parser.state = "s_message_done" /\ Notifies("message_complete", q)
  BY DEF MessageDone, On
<1>2. IsParser(q) /\ q.state = NewMessage
  BY DEF IInv, Fine, IsParser, ParserFields
<1>3. NewMessage \in Outside
  BY DEF NewMessage, Outside
<1> HIDE DEF q
<1>4. Becomes(q) /\ event'.cb = "message_complete" /\ mark' = mark
  BY <1>1, TellsBecomes, AfterTelling
<1>5. mark = NoMark
  BY <1>1, Unmarked DEF NoSpace, InUrl, InServer, BodyStates
<1> QED
  BY <1>1, <1>2, <1>3, <1>4, <1>5, AfterBecoming, NothingMarked DEF EndsMessage

\* Chunks.
LEMMA ChunkSizeSteps ==
  ASSUME IInv, Marked, ChunkSize \/ ChunkTooLong \/ ChunkSizeAlmostDone \/ ChunkDataDone
  PROVE  ReadsChunks \/ StandsStill
<1>1. IsParser(parser)
  BY DEF IInv, Fine
<1>2. CASE ChunkTooLong
  BY <1>2, StopsStill DEF ChunkTooLong
<1>3. ASSUME ChunkSize \/ ChunkSizeAlmostDone \/ ChunkDataDone
      PROVE  ReadsChunks
  <2>1. /\ parser.state \in {"s_chunk_size_start", "s_chunk_size", "s_chunk_parameters",
                             "s_chunk_size_almost_done", "s_chunk_data_done"}
        /\ mark' = mark
    BY <1>3 DEF ChunkSize, ChunkSizeAlmostDone, ChunkDataDone, On
  <2>2. Marked'
    <3>1. mark = NoMark
      BY <2>1, Unmarked DEF NoSpace, InUrl, InServer, BodyStates
    <3> QED
      BY <2>1, <3>1, NothingMarked
  <2>3. ASSUME NEW q, IsParser(q), Quietly(q), q.state \in InChunk
        PROVE  ReadsChunks
    <3>1. event' = NoEvent /\ parser'.state \in InChunk
      BY <2>3, TellsBecomes, AfterTelling, AfterBecoming
    <3> QED
      BY <2>1, <2>2, <3>1 DEF ReadsChunks, InChunk, InSize
  <2>4. ASSUME ChunkSize PROVE ReadsChunks
    <3>1. \A n, s : /\ IsParser([To(s) EXCEPT !.content_length = n])
                    /\ [To(s) EXCEPT !.content_length = n].state = s
      <4> SUFFICES ASSUME NEW n, NEW s
                   PROVE  /\ IsParser([To(s) EXCEPT !.content_length = n])
                          /\ [To(s) EXCEPT !.content_length = n].state = s
        OBVIOUS
      <4>1. IsParser(To(s)) /\ To(s).state = s
        BY <1>1, CountedKeeps
      <4> QED
        BY <4>1 DEF IsParser, ParserFields
    <3>2. \A n : /\ IsParser([counted EXCEPT !.content_length = n])
                 /\ [counted EXCEPT !.content_length = n].state = parser.state
      <4> SUFFICES ASSUME NEW n
                   PROVE  /\ IsParser([counted EXCEPT !.content_length = n])
                          /\ [counted EXCEPT !.content_length = n].state = parser.state
        OBVIOUS
      <4>1. IsParser(counted) /\ counted.state = parser.state
        BY <1>1, CountedKeeps
      <4> QED
        BY <4>1 DEF IsParser, ParserFields
    <3>3. \A s : IsParser(counted) /\ IsParser(To(s)) /\ To(s).state = s /\ counted.state = parser.state
      BY <1>1, CountedKeeps
    <3>4. CASE Quietly([To("s_chunk_size") EXCEPT !.content_length = HexValue[ch]])
      BY <2>3, <3>1, <3>4 DEF InChunk, InSize
    <3>5. CASE On("s_chunk_size") /\ Quietly([counted EXCEPT !.content_length = WithDigit(@, 16, ch)])
      BY <2>3, <3>2, <3>5 DEF InChunk, InSize, On
    <3>6. CASE Quietly(To("s_chunk_parameters"))
      BY <2>3, <3>3, <3>6 DEF InChunk, InSize
    <3>7. CASE On("s_chunk_parameters") /\ Quietly(counted)
      BY <2>3, <3>3, <3>7 DEF InChunk, InSize, On
    <3>8. CASE Quietly(To("s_chunk_size_almost_done"))
      BY <2>3, <3>3, <3>8 DEF InChunk, InSize
    <3> QED
      BY <2>4, <3>4, <3>5, <3>6, <3>7, <3>8 DEF ChunkSize
  <2>5. ASSUME ChunkSizeAlmostDone PROVE ReadsChunks
    <3> DEFINE p == [parser EXCEPT !.nread = 0]
               last == [p EXCEPT !.flags = @ \cup {"F_TRAILING"}, !.state = "s_header_field_start"]
               data == [p EXCEPT !.state = "s_chunk_data"]
    <3>1. Quietly(last) \/ Quietly(data)
      BY <2>5 DEF ChunkSizeAlmostDone
    <3>2. /\ IsParser(last) /\ last.state = "s_header_field_start" /\ "F_TRAILING" \in last.flags
          /\ IsParser(data) /\ data.state = "s_chunk_data"
      <4>1. IsParser(p)
        BY <1>1 DEF IsParser, ParserFields
      <4> HIDE DEF p
      <4> QED
        BY <4>1 DEF IsParser, ParserFields
    <3> HIDE DEF last, data
    <3>3. CASE Quietly(last)
      <4>1. event' = NoEvent /\ parser'.state = "s_header_field_start" /\ Trailing'
        BY <3>2, <3>3, TellsBecomes, AfterTelling, AfterBecoming DEF Trailing
      <4> QED
        BY <2>1, <2>2, <4>1 DEF ReadsChunks, InChunk, InSize, HeaderStates
    <3>4. CASE Quietly(data)
      BY <2>3, <3>2, <3>4 DEF InChunk
    <3> QED
      BY <3>1, <3>3, <3>4
  <2>6. ASSUME ChunkDataDone PROVE ReadsChunks
    <3> DEFINE p == [parser EXCEPT !.nread = 0, !.state = "s_chunk_size_start"]
    <3>1. Quietly(p)
      BY <2>6 DEF ChunkDataDone
    <3>2. IsParser(p) /\ p.state = "s_chunk_size_start"
      BY <1>1 DEF IsParser, ParserFields
    <3> HIDE DEF p
    <3> QED
      BY <2>3, <3>1, <3>2 DEF InChunk
  <2> QED
    BY <1>3, <2>4, <2>5, <2>6
<1> QED
  BY <1>2, <1>3

LEMMA ChunkDataSteps ==
  ASSUME IInv, Marked, ChunkData \/ ChunkDataAlmostDone
  PROVE  ReadsChunks
<1>1. IsParser(parser) /\ Placed
  BY DEF IInv, Fine
<1>2. CASE ChunkData
  <2> DEFINE p == [parser EXCEPT !.content_length = @ - ToRead]
             done == [p EXCEPT !.state = "s_chunk_data_almost_done"]
  <2>1. parser.state = "s_chunk_data" /\ left > 0 /\ left \in Nat
    BY <1>1, <1>2, OnUnit DEF ChunkData
  <2>2. /\ IsParser(p) /\ p.state = "s_chunk_data"
        /\ IsParser(done) /\ done.state = "s_chunk_data_almost_done"
    BY <1>1, <2>1 DEF IsParser, ParserFields
  <2>3. PICK q \in {p, done} : Quietly(q)
    BY <1>2 DEF ChunkData
  <2> HIDE DEF p, done
  <2>4. event' = NoEvent /\ parser'.state \in {"s_chunk_data", "s_chunk_data_almost_done"}
    BY <2>2, <2>3, TellsBecomes, AfterTelling, AfterBecoming
  <2>5. at \in Nat /\ at' = at + ToRead /\ ToRead \in Nat \ {0}
    <3>1. parser.content_length \in 0..ULLONG_MAX /\ parser.content_length # 0 /\ ULLONG_MAX \in Nat
      BY <2>1, SizesAssumption DEF IInv, Fine, InBody
    <3>2. ToRead = IF parser.content_length < left THEN parser.content_length ELSE left
      BY DEF ToRead
    <3> QED
      BY <1>1, <1>2, <2>1, <3>1, <3>2 DEF ChunkData, Take, Placed
  <2>6. mark.of \in {"none", "body"} /\ (mark.of = "body" => mark.from \in Nat /\ mark.from < at)
    BY <2>1 DEF Marked, Texts, NoSpace, InUrl, InServer
  <2>7. mark'.of = "body" /\ mark'.from \in Nat /\ mark'.from < at'
    <3>1. mark' = IF mark.of = "body" THEN mark ELSE [of |-> "body", from |-> at]
      BY <1>2 DEF ChunkData, MarkAt
    <3> QED
      BY <2>5, <2>6, <3>1
  <2>8. Marked'
    BY <2>4, <2>7 DEF Marked, BodyStates, Texts
  <2> QED
    BY <2>1, <2>4, <2>8 DEF ReadsChunks, InChunk
<1>3. CASE ChunkDataAlmostDone
  <2>1. parser.state = "s_chunk_data_almost_done" /\ HandsOut(at, To("s_chunk_data_done"))
    BY <1>3 DEF ChunkDataAlmostDone, On
  <2>2. mark.of \in {"none", "body"}
    BY <2>1 DEF Marked, Texts, NoSpace, InUrl, InServer
  <2>3. /\ Becomes(To("s_chunk_data_done")) /\ mark' = NoMark
        /\ event' = NoEvent \/ event'.cb = "body"
    BY <2>1, <2>2, TellsBecomes, AfterTelling
  <2>4. parser'.state = "s_chunk_data_done"
    BY <1>1, <2>3, CountedKeeps, AfterBecoming
  <2> QED
    BY <2>1, <2>3, <2>4, NothingMarked DEF ReadsChunks, InChunk
<1> QED
  BY <1>2, <1>3

\* The end of a buffer.
LEMMA BufferEndSteps ==
  ASSUME IInv, Marked, BufferEnd
  PROVE  HandsOutRest
<1>1. mark # NoMark /\ HandsOut(at, parser) /\ Placed /\ IsParser(parser)
  BY DEF BufferEnd, IInv, Fine
<1>2. mark.of # "none"
  BY <1>1 DEF Marked
<1>3. /\ Becomes(parser) /\ mark' = NoMark /\ event'.cb = mark.of
      /\ event'.buf = SubSeq(input, mark.from + 1, at)
  BY <1>1, <1>2, TellsBecomes, AfterTelling
<1>4. ASSUME mark.of = "body"
      PROVE  Len(event'.buf) = at - mark.from /\ at - mark.from \in Nat \ {0}
  <2>1. mark.from \in Nat /\ mark.from < at
    BY <1>4 DEF Marked
  <2>2. input \in Seq(STRING) /\ at \in Nat /\ at <= Len(input) /\ Len(input) \in Nat
    BY <1>1 DEF Placed
  <2>3. \A i \in (mark.from + 1)..at : i \in DOMAIN input
    BY <2>1, <2>2
  <2>4. Len(SubSeq(input, mark.from + 1, at)) = at - mark.from
    BY <2>1, <2>2, <2>3
  <2> QED
    BY <1>3, <2>1, <2>2, <2>4
<1> QED
  BY <1>1, <1>3, <1>4, AfterBecoming, NothingMarked DEF HandsOutRest

\* There are no other steps.
LEMMA StepKinds ==
  ASSUME IInv, Marked, http_parser_execute
  PROVE  \/ StandsStill \/ Begins \/ Reads \/ EndsHeaders \/ LeavesHeaders
         \/ ReadsBody \/ EndsMessage \/ ReadsChunks \/ HandsOutRest
<1>1. CASE BufferEnd
  BY <1>1, BufferEndSteps
<1>2. CASE Unexpected
  BY <1>2, StopsStill DEF Unexpected
<1>3. CASE RequestLine
  BY <1>3, OutsideSteps, LineSteps DEF RequestLine
<1>4. CASE HeaderStep
  BY <1>4, NameSteps, ValueStartSteps, ValueSteps, AroundSteps, HeadersEndSteps DEF HeaderStep
<1>5. CASE BodyStep
  BY <1>5, HeadersDoneSteps, IdentitySteps, MessageDoneSteps, ChunkSizeSteps, ChunkDataSteps
  DEF BodyStep
<1> QED
  BY <1>1, <1>2, <1>3, <1>4, <1>5 DEF http_parser_execute

LEMMA BufferMarks ==
  ASSUME IInv, Marked, BufferStart
  PROVE  /\ Marked'
         /\ parser'.state = parser.state /\ parser'.flags = parser.flags
         /\ parser'.content_length = parser.content_length
         /\ at' = at /\ mark = NoMark /\ mark'.of \in {"none"} \cup Texts
<1>1. parser' = [parser EXCEPT !.exited = FALSE] /\ at' = at /\ mark' = MarkedAtStart /\ mark = NoMark
  BY DEF BufferStart, Quietly
<1>2. /\ parser'.state = parser.state /\ parser'.flags = parser.flags
      /\ parser'.content_length = parser.content_length
  BY <1>1 DEF IInv, Fine, IsParser, ParserFields
<1>3. \/ mark' = NoMark
      \/ mark'.of = "header_field" /\ parser.state = "s_header_field"
      \/ mark'.of = "header_value" /\ parser.state = "s_header_value"
      \/ mark'.of = "url" /\ parser.state \in NoSpace \cup InUrl
  BY <1>1 DEF MarkedAtStart
<1> QED
  BY <1>1, <1>2, <1>3 DEF Marked, NoMark, Texts

-----------------------------------------------------------------------------
(* The callbacks.                                                          *)

RequestFields ==
  {"path_info", "query_params", "headers", "content_length", "continue_expected", "method",
   "body", "body_params", "body_tmpfile", "to_read", "stored"}

SeenFields == {"cut", "failed", "completed", "length", "agreed", "part", "taken", "whole"}

IsRequest(r) == r = [x \in RequestFields |-> r[x]] /\ r.body_tmpfile \in BOOLEAN

IsSeen(s) == s = [x \in SeenFields |-> s[x]] /\ s.completed \in Nat /\ s.failed \in BOOLEAN

\* What is known of the temporary file stays.
FileKept(r, q) == q.body_tmpfile = r.body_tmpfile /\ q.stored = r.stored /\ q.to_read = r.to_read

SeenKept(s, q) ==
  q.failed = s.failed /\ q.completed = s.completed /\ q.length = s.length /\ q.agreed = s.agreed

\* Where no callback is made, or one for a text, nothing happens to the file.
LEMMA TextCallback ==
  ASSUME IsRequest(request), clax_http_parse, Told
  PROVE  /\ IsRequest(request') /\ FileKept(request, request')
         /\ closing' = closing /\ dispatched' = dispatched
<1> USE DEF FileKept
<1>1. event'.cb \in {"none"} \cup Texts
  BY DEF Told, NoEvent
<1>2. CASE Keep
  BY <1>2 DEF Keep
<1>3. CASE OnUrl
  <2>1. PICK u \in UrlOutcomes(event'.buf) :
          Keep \/ (request' = WithUrl(request, u) /\ UNCHANGED <<closing, dispatched>>)
    BY <1>3 DEF OnUrl
  <2>2. IsRequest(WithUrl(request, u)) /\ FileKept(request, WithUrl(request, u))
    BY DEF WithUrl, IsRequest, RequestFields
  <2> QED
    BY <1>2, <2>1, <2>2
<1>4. CASE OnHeader
  <2> DEFINE f == on_http_parser_header_field(request, event'.buf)
             v == on_http_parser_header_value(request, event'.buf)
  <2>1. (request' = f \/ request' = v) /\ UNCHANGED <<closing, dispatched>>
    BY <1>1, <1>4 DEF OnHeader, Texts
  <2>2. IsRequest(f) /\ FileKept(request, f)
    BY DEF on_http_parser_header_field, IsRequest, RequestFields
  <2>3. IsRequest(v) /\ FileKept(request, v)
    <3> DEFINE r(h, n, c) == [request EXCEPT !.headers = h, !.content_length = n,
                                             !.continue_expected = c]
    <3>1. ASSUME NEW h, NEW n, NEW c
          PROVE  IsRequest(r(h, n, c)) /\ FileKept(request, r(h, n, c))
      BY DEF IsRequest, RequestFields
    <3>2. \E h, n, c : v = r(h, n, c)
      BY DEF on_http_parser_header_value
    <3> HIDE DEF r, v
    <3> QED
      BY <3>1, <3>2
  <2> HIDE DEF f, v
  <2> QED
    BY <2>1, <2>2, <2>3
<1> QED
  BY <1>1, <1>2, <1>3, <1>4
  DEF clax_http_parse, OnFormBody, OnFileBody, OnMessageComplete, Texts

LEMMA TextNoted ==
  ASSUME IsSeen(seen), seen' = Noted, Told
  PROVE  IsSeen(seen') /\ SeenKept(seen, seen')
<1> DEFINE s == IF left = 0 THEN [seen EXCEPT !.cut = @ \cup {mark.of}] ELSE seen
           t == [s EXCEPT !.part = IF TextEnds THEN @ + 1 ELSE @,
                          !.whole = @ /\ TextEnds /\ seen.taken = 0,
                          !.taken = IF TextEnds THEN 0 ELSE @ + Len(event'.buf)]
<1>1. IsSeen(s) /\ SeenKept(seen, s)
  BY DEF IsSeen, SeenFields, SeenKept
<1>2. Noted = IF event'.cb \in {"header_field", "header_value"} THEN t ELSE s
  <2>1. event'.cb \in {"none"} \cup Texts
    BY DEF Told, NoEvent
  <2> QED
    BY <2>1 DEF Noted, Texts
<1> HIDE DEF s
<1>3. IsSeen(t) /\ SeenKept(s, t)
  <2> DEFINE q(a, b, c) == [s EXCEPT !.part = a, !.whole = b, !.taken = c]
  <2>1. ASSUME NEW a, NEW b, NEW c
        PROVE  IsSeen(q(a, b, c)) /\ SeenKept(s, q(a, b, c))
    BY <1>1 DEF IsSeen, SeenFields, SeenKept
  <2>2. \E a, b, c : t = q(a, b, c)
    OBVIOUS
  <2> HIDE DEF q, t
  <2> QED
    BY <2>1, <2>2
<1> HIDE DEF t
<1> QED
  BY <1>1, <1>2, <1>3 DEF SeenKept

\* The end of the headers: the lengths are compared.
LEMMA HeadersCallback ==
  ASSUME IsRequest(request), IsSeen(seen), clax_http_parse, seen' = Noted,
         event'.cb = "headers_complete"
  PROVE  /\ IsRequest(request') /\ FileKept(request, request')
         /\ request'.content_length = request.content_length
         /\ closing' = closing /\ dispatched' = dispatched
         /\ IsSeen(seen') /\ seen'.failed = seen.failed /\ seen'.completed = seen.completed
         /\ LET chunked == "F_CHUNKED" \in parser.flags
                length == IF chunked \/ parser.content_length = ULLONG_MAX THEN 0
                          ELSE parser.content_length
            IN  /\ seen'.length = length
                /\ seen'.agreed = (~chunked /\ request.content_length = length)
<1> DEFINE s == IF left = 0 THEN [seen EXCEPT !.cut = @ \cup {mark.of}] ELSE seen
           chunked == "F_CHUNKED" \in parser.flags
           length == IF chunked \/ parser.content_length = ULLONG_MAX THEN 0 ELSE parser.content_length
           t == [s EXCEPT !.length = length, !.agreed = ~chunked /\ request.content_length = length]
<1>1. request' = [request EXCEPT !.method = parser.method] /\ UNCHANGED <<closing, dispatched>>
  BY DEF clax_http_parse, OnUrl, OnHeader, OnFormBody, OnFileBody, OnMessageComplete, NoEvent
<1>2. IsSeen(s) /\ SeenKept(seen, s)
  BY DEF IsSeen, SeenFields, SeenKept
<1>3. seen' = t
  BY DEF Noted
<1> HIDE DEF s, chunked, length
<1>4. /\ IsSeen(t) /\ t.failed = s.failed /\ t.completed = s.completed
      /\ t.length = length /\ t.agreed = (~chunked /\ request.content_length = length)
  BY <1>2 DEF IsSeen, SeenFields
<1>5. /\ IsRequest(request') /\ FileKept(request, request')
      /\ request'.content_length = request.content_length
  BY <1>1 DEF IsRequest, RequestFields, FileKept
<1> QED
  BY <1>1, <1>2, <1>3, <1>4, <1>5 DEF SeenKept, chunked, length

\* The end of a message: it is dispatched, unless its body is in a file.
LEMMA CompleteCallback ==
  ASSUME IsRequest(request), IsSeen(seen), clax_http_parse, seen' = Noted,
         event'.cb = "message_complete"
  PROVE  /\ IsRequest(request') /\ FileKept(request, request')
         /\ closing' = closing
         /\ request.body_tmpfile => dispatched' = dispatched
         /\ IsSeen(seen') /\ seen'.completed = seen.completed + 1
         /\ seen'.failed = seen.failed /\ seen'.length = seen.length /\ seen'.agreed = seen.agreed
<1> DEFINE s == IF left = 0 THEN [seen EXCEPT !.cut = @ \cup {mark.of}] ELSE seen
           t == [s EXCEPT !.completed = @ + 1]
           r == on_http_parser_message_complete(request)
<1>1. /\ request' = r /\ closing' = closing
      /\ dispatched' = IF r.body_tmpfile THEN dispatched ELSE Append(dispatched, r)
  BY DEF clax_http_parse, OnUrl, OnHeader, OnFormBody, OnFileBody, OnMessageComplete, NoEvent
<1>2. IsRequest(r) /\ FileKept(request, r)
  BY DEF on_http_parser_message_complete, IsRequest, RequestFields, FileKept
<1>3. IsSeen(s) /\ SeenKept(seen, s)
  BY DEF IsSeen, SeenFields, SeenKept
<1>4. seen' = t
  BY DEF Noted
<1> HIDE DEF s, r
<1>5. /\ IsSeen(t) /\ t.completed = s.completed + 1
      /\ t.failed = s.failed /\ t.length = s.length /\ t.agreed = s.agreed
  BY <1>3 DEF IsSeen, SeenFields
<1> QED
  BY <1>1, <1>2, <1>3, <1>4, <1>5 DEF SeenKept, FileKept

\* A piece of a body of which nothing goes to a file.
LEMMA FormCallback ==
  ASSUME IsRequest(request), IsSeen(seen), clax_http_parse, seen' = Noted,
         event'.cb = "body", IsForm(request)
  PROVE  /\ IsRequest(request') /\ FileKept(request, request')
         /\ IsForm(request') /\ request'.content_length = request.content_length
         /\ closing' = closing /\ dispatched' = dispatched
         /\ IsSeen(seen') /\ SeenKept(seen, seen')
<1> DEFINE s == IF left = 0 THEN [seen EXCEPT !.cut = @ \cup {mark.of}] ELSE seen
           t == [s EXCEPT !.failed = @ \/ (~IsForm(request)
                                           /\ request'.stored # request.stored + Len(event'.buf))]
<1>1. request' = FormBody(request, event'.buf) /\ UNCHANGED <<closing, dispatched>>
  BY DEF clax_http_parse, OnUrl, OnHeader, OnFormBody, OnFileBody, OnMessageComplete, NoEvent
<1>2. /\ IsRequest(request') /\ FileKept(request, request')
      /\ request'.headers = request.headers /\ request'.content_length = request.content_length
  BY <1>1 DEF FormBody, IsRequest, RequestFields, FileKept
<1>3. IsForm(request')
  BY <1>2 DEF IsForm, Find
<1>4. IsSeen(s) /\ SeenKept(seen, s)
  BY DEF IsSeen, SeenFields, SeenKept
<1>5. seen' = t
  BY DEF Noted
<1> HIDE DEF s
<1>6. IsSeen(t) /\ SeenKept(s, t)
  BY <1>4 DEF IsSeen, SeenFields, SeenKept
<1> HIDE DEF t
<1> QED
  BY <1>1, <1>2, <1>3, <1>4, <1>5, <1>6 DEF SeenKept

\* A piece of one that does: all of it is written, or it failed.
LEMMA FileCallback ==
  ASSUME IsRequest(request), IsSeen(seen), clax_http_parse, seen' = Noted,
         event'.cb = "body", ~IsForm(request)
  PROVE  LET n == Len(event'.buf)
             before == IF request.body_tmpfile THEN request.to_read ELSE request.content_length
         IN  /\ IsRequest(request') /\ ~IsForm(request')
             /\ request'.content_length = request.content_length
             /\ request'.body_tmpfile
             /\ dispatched' = dispatched
             /\ IsSeen(seen') /\ seen'.completed = seen.completed
             /\ seen'.length = seen.length /\ seen'.agreed = seen.agreed
             /\ seen'.failed = (seen.failed \/ request'.stored # request.stored + n)
             /\ \/ /\ request'.stored = request.stored + n /\ request'.to_read = before - n
                   /\ closing' = IF request'.to_read <= 0 THEN closing + 1 ELSE closing
                \/ /\ request'.stored = request.stored + 0 /\ request'.to_read = before - 0
                   /\ closing' = closing \/ request'.to_read <= 0
<1> DEFINE n == Len(event'.buf)
           before == IF request.body_tmpfile THEN request.to_read ELSE request.content_length
           s == IF left = 0 THEN [seen EXCEPT !.cut = @ \cup {mark.of}] ELSE seen
           t == [s EXCEPT !.failed = @ \/ (~IsForm(request)
                                           /\ request'.stored # request.stored + n)]
<1>1. OnFileBody
  BY DEF clax_http_parse, OnUrl, OnHeader, OnFormBody, OnMessageComplete, NoEvent
<1>2. PICK w \in Writes :
        /\ request' = FileBody(request, IF w = "ok" THEN n ELSE 0)
        /\ closing' = IF w = "failed" THEN closing ELSE Closes(request')
  BY <1>1 DEF OnFileBody
<1>3. dispatched' = dispatched
  BY <1>1 DEF OnFileBody
<1>4. ASSUME NEW k
      PROVE  LET r == FileBody(request, k)
             IN  /\ IsRequest(r) /\ r.headers = request.headers
                 /\ r.content_length = request.content_length
                 /\ r.body_tmpfile
                 /\ r.stored = request.stored + k /\ r.to_read = before - k
  <2> DEFINE o == IF request.body_tmpfile THEN request
                  ELSE [request EXCEPT !.body_tmpfile = TRUE, !.to_read = request.content_length]
  <2>1. /\ IsRequest(o) /\ o.headers = request.headers
        /\ o.content_length = request.content_length
        /\ o.body_tmpfile /\ o.stored = request.stored /\ o.to_read = before
    BY DEF IsRequest, RequestFields
  <2> DEFINE r(a, b) == [o EXCEPT !.to_read = a, !.stored = b]
  <2>2. FileBody(request, k) = r(o.to_read - k, o.stored + k)
    BY DEF FileBody
  <2> HIDE DEF o, before
  <2>3. ASSUME NEW a, NEW b
        PROVE  /\ IsRequest(r(a, b)) /\ r(a, b).headers = o.headers
               /\ r(a, b).content_length = o.content_length
               /\ r(a, b).body_tmpfile = o.body_tmpfile
               /\ r(a, b).stored = b /\ r(a, b).to_read = a
    BY <2>1 DEF IsRequest, RequestFields
  <2> HIDE DEF r
  <2>4. PICK q : q = FileBody(request, k) /\ q = r(o.to_read - k, o.stored + k)
    BY <2>2
  <2>5. /\ IsRequest(q) /\ q.headers = o.headers /\ q.content_length = o.content_length
        /\ q.body_tmpfile = o.body_tmpfile
        /\ q.stored = o.stored + k /\ q.to_read = o.to_read - k
    BY <2>3, <2>4
  <2> QED
    BY <2>1, <2>4, <2>5
<1>5. IsSeen(s) /\ SeenKept(seen, s)
  BY DEF IsSeen, SeenFields, SeenKept
<1>6. seen' = t
  BY DEF Noted
<1> HIDE DEF s, n, before
<1>7. /\ IsSeen(t) /\ t.completed = s.completed /\ t.length = s.length /\ t.agreed = s.agreed
      /\ t.failed = (s.failed \/ request'.stored # request.stored + n)
  BY <1>5 DEF IsSeen, SeenFields
<1> HIDE DEF t
<1>8. PICK k : request' = FileBody(request, k) /\ k = IF w = "ok" THEN n ELSE 0
  BY <1>2
<1>9. /\ IsRequest(request') /\ request'.headers = request.headers
      /\ request'.content_length = request.content_length
      /\ request'.body_tmpfile
      /\ request'.stored = request.stored + k /\ request'.to_read = before - k
  BY <1>4, <1>8
<1>10. ~IsForm(request')
  BY <1>9 DEF IsForm, Find
<1>11. \/ /\ k = n /\ closing' = IF request'.to_read <= 0 THEN closing + 1 ELSE closing
       \/ k = 0 /\ (closing' = closing \/ request'.to_read <= 0)
  BY <1>2, <1>8 DEF Closes
<1> QED
  BY <1>3, <1>5, <1>6, <1>7, <1>9, <1>10, <1>11 DEF SeenKept, n, before

-----------------------------------------------------------------------------
(* The body of the first request.                                          *)

\* How much of a body is marked, and not yet handed out.
Given == IF mark.of = "body" THEN at - mark.from ELSE 0

NothingYet == dispatched = << >> /\ closing = 0

Untouched == ~request.body_tmpfile /\ request.stored = 0 /\ NothingYet /\ ~seen.failed

\* Before the end of its headers.
Ahead ==
  /\ seen.completed = 0 /\ seen.agreed /\ Untouched
  /\ parser.state \in Outside \cup LineStates \cup HeaderStates /\ ~Trailing

Agreed ==
  /\ seen.agreed
  /\ "F_CHUNKED" \notin parser.flags
  /\ request.content_length = seen.length

HeadersRead ==
  /\ seen.completed = 0 /\ Agreed /\ Untouched
  /\ parser.state = "s_headers_done"
  /\ seen.length = IF parser.content_length = ULLONG_MAX THEN 0 ELSE parser.content_length

\* Written, marked and still to come are all of the body, and less once a write has
\* failed.
Adds(stored, given, left_over, length, failed) ==
  IF failed THEN stored + given + left_over < length ELSE stored + given + left_over = length

FileSums ==
  /\ request.stored \in Nat
  /\ request.body_tmpfile => request.to_read = seen.length - request.stored
  /\ ~request.body_tmpfile => request.stored = 0
  /\ Adds(request.stored, Given, parser.content_length, seen.length, seen.failed)

BodyComes ==
  /\ seen.completed = 0 /\ Agreed /\ NothingYet
  /\ parser.state = "s_body_identity"
  /\ seen.length \in Nat
  /\ IF IsForm(request) THEN ~request.body_tmpfile ELSE FileSums

\* A file that is whole is closed once and dispatched then; another one is not.
FileDone ==
  IF seen.failed THEN NothingYet
  ELSE \/ closing = 1 /\ dispatched = << >> /\ request.stored = seen.length
       \/ closing = 0 /\ dispatched = <<dispatched[1]>> /\ dispatched[1].stored = seen.length

BodyRead ==
  /\ seen.agreed
  /\ \/ seen.completed = 0 /\ parser.state = "s_message_done"
     \/ seen.completed = 1 /\ parser.state \in Outside
  /\ request.body_tmpfile => FileDone

\* The lengths are not the same, or there are chunks, and that stays so.
Disagreed ==
  /\ ~seen.agreed
  /\ seen.completed = 0 =>
       \/ parser.state \notin Outside \cup LineStates \cup HeaderStates
       \/ parser.state \in HeaderStates /\ Trailing

Stage == FirstOnly => Ahead \/ HeadersRead \/ BodyComes \/ BodyRead \/ Disagreed

FirstInv == IInv /\ Marked /\ IsRequest(request) /\ IsSeen(seen) /\ Stage

\* The states of a message are apart.
LEMMA StatesApart ==
  /\ \A s \in LineStates : s \notin Outside \cup HeaderStates
  /\ \A s \in HeaderStates : s \notin Outside
  /\ \A s \in InChunk \cup {"s_headers_done", "s_body_identity", "s_message_done"} :
       s \notin Outside \cup LineStates \cup HeaderStates
  /\ \A s \in {"s_headers_done", "s_body_identity", "s_message_done"} : s \notin InChunk
  BY DEF Outside, LineStates, HeaderStates, InChunk, InSize, NoSpace, InUrl, InServer

\* Steps that change nothing of what counts.
LEMMA StageStays ==
  ASSUME FirstInv, FileKept(request, request'), SeenKept(seen, seen'),
         closing' = closing, dispatched' = dispatched,
         request'.content_length = request.content_length, IsForm(request') <=> IsForm(request),
         parser'.state = parser.state, parser'.flags = parser.flags,
         parser'.content_length = parser.content_length,
         Given' = Given \/ parser.state # "s_body_identity"
  PROVE  Stage'
<1> USE DEF FileKept, SeenKept
<1>1. FirstOnly' => FirstOnly
  BY DEF FirstOnly
<1>2. NothingYet' = NothingYet /\ Untouched' = Untouched /\ Agreed' = Agreed /\ Trailing' = Trailing
  BY DEF NothingYet, Untouched, Agreed, Trailing
<1>3. Ahead => Ahead'
  BY <1>2 DEF Ahead
<1>4. HeadersRead => HeadersRead'
  BY <1>2 DEF HeadersRead
<1>5. BodyComes => BodyComes'
  BY <1>2 DEF BodyComes, FileSums, Adds
<1>6. BodyRead => BodyRead'
  BY <1>2 DEF BodyRead, FileDone
<1>7. Disagreed => Disagreed'
  BY <1>2 DEF Disagreed
<1> QED
  BY <1>1, <1>3, <1>4, <1>5, <1>6, <1>7 DEF Stage, FirstInv

\* Without a callback the request stays.
LEMMA QuietCallback ==
  ASSUME FirstInv, clax_http_parse, seen' = Noted, event' = NoEvent
  PROVE  /\ request' = request /\ closing' = closing /\ dispatched' = dispatched
         /\ FileKept(request, request') /\ SeenKept(seen, seen') /\ IsSeen(seen')
<1>1. Keep
  BY DEF clax_http_parse, OnUrl, OnHeader, OnFormBody, OnFileBody, OnMessageComplete, NoEvent
<1>2. IsSeen(seen') /\ SeenKept(seen, seen')
  BY TextNoted DEF FirstInv, Told
<1> QED
  BY <1>1, <1>2 DEF Keep, FileKept

LEMMA StillKeeps ==
  ASSUME FirstInv, clax_http_parse, seen' = Noted, StandsStill
  PROVE  Stage'
<1>1. /\ request' = request /\ closing' = closing /\ dispatched' = dispatched
      /\ FileKept(request, request') /\ SeenKept(seen, seen')
  BY QuietCallback DEF StandsStill
<1>2. Given' = Given \/ parser.state # "s_body_identity"
  BY DEF StandsStill, Given, Outside
<1> QED
  BY <1>1, <1>2, StageStays DEF StandsStill

\* Up to the end of the headers.
LEMMA HeadKeeps ==
  ASSUME FirstInv, clax_http_parse, seen' = Noted, Begins \/ Reads
  PROVE  Stage'
<1> USE DEF FileKept, SeenKept
<1>1. /\ FileKept(request, request') /\ SeenKept(seen, seen')
      /\ closing' = closing /\ dispatched' = dispatched
  BY TextCallback, TextNoted DEF FirstInv, Begins, Reads, Told
<1>2. Untouched' = Untouched
  BY <1>1 DEF Untouched, NothingYet
<1>3. CASE Begins
  <2>1. parser'.state \in LineStates /\ parser'.state \notin Outside /\ ~Trailing'
    BY <1>3, StatesApart DEF Begins, Trailing
  <2>2. CASE ~FirstOnly'
    BY <2>2 DEF Stage
  <2>3. CASE FirstOnly'
    <3>1. seen.completed = 0 /\ FirstOnly
      BY <1>1, <2>1, <2>3 DEF FirstOnly, Outside
    <3>2. Ahead
      BY <1>3, <3>1, StatesApart DEF FirstInv, Stage, HeadersRead, BodyComes, BodyRead, Disagreed, Begins
    <3>3. Ahead'
      BY <1>1, <1>2, <2>1, <3>2 DEF Ahead
    <3> QED
      BY <3>3 DEF Stage
  <2> QED
    BY <2>2, <2>3
<1>4. CASE Reads
  <2>1. parser.state \notin Outside /\ parser'.state \notin Outside
    BY <1>4, StatesApart DEF Reads
  <2>2. CASE ~FirstOnly'
    BY <2>2 DEF Stage
  <2>3. CASE FirstOnly'
    <3>1. seen.completed = 0 /\ FirstOnly
      BY <1>1, <2>1, <2>3 DEF FirstOnly, Outside
    <3>2. Ahead \/ Disagreed
      BY <1>4, <3>1, StatesApart DEF FirstInv, Stage, HeadersRead, BodyComes, BodyRead, Reads
    <3>3. CASE Ahead
      <4>1. Ahead'
        BY <1>1, <1>2, <1>4, <3>3 DEF Ahead, Reads
      <4> QED
        BY <4>1 DEF Stage
    <3>4. CASE Disagreed
      <4>1. parser.state \in HeaderStates /\ Trailing
        BY <1>4, <3>1, <3>4, StatesApart DEF Disagreed, Reads
      <4>2. Disagreed'
        BY <1>1, <1>4, <3>4, <4>1 DEF Disagreed, Reads
      <4> QED
        BY <4>2 DEF Stage
    <3> QED
      BY <3>2, <3>3, <3>4
  <2> QED
    BY <2>2, <2>3
<1> QED
  BY <1>3, <1>4

LEMMA EndOfHeadersKeeps ==
  ASSUME FirstInv, clax_http_parse, seen' = Noted, EndsHeaders
  PROVE  Stage'
<1> USE DEF FileKept, SeenKept
<1>1. /\ parser.state = "s_headers_almost_done" /\ parser.state \in HeaderStates
      /\ parser.state \notin Outside \cup LineStates
      /\ parser'.state \in {"s_message_done", "s_headers_done"}
      /\ parser'.state \notin Outside \cup LineStates \cup HeaderStates
      /\ parser'.flags = parser.flags /\ parser'.content_length = parser.content_length
  BY StatesApart DEF EndsHeaders, HeaderStates
<1>2. seen'.completed = seen.completed
  <2>1. CASE event' = NoEvent
    BY <2>1, QuietCallback
  <2>2. CASE event'.cb = "headers_complete"
    BY <2>2, HeadersCallback DEF FirstInv
  <2> QED
    BY <2>1, <2>2 DEF EndsHeaders
<1>3. CASE ~FirstOnly'
  BY <1>3 DEF Stage
<1>4. CASE FirstOnly'
  <2>1. seen.completed = 0 /\ FirstOnly
    BY <1>1, <1>2, <1>4 DEF FirstOnly, Outside
  <2>2. Ahead \/ (Disagreed /\ Trailing)
    BY <1>1, <2>1 DEF FirstInv, Stage, HeadersRead, BodyComes, BodyRead, Disagreed, Outside
  <2>3. CASE Trailing /\ event' = NoEvent
    <3>1. Disagreed
      BY <2>2, <2>3 DEF Ahead
    <3>2. seen'.agreed = seen.agreed
      BY <2>3, QuietCallback
    <3>3. Disagreed'
      BY <1>1, <3>1, <3>2 DEF Disagreed
    <3> QED
      BY <3>3 DEF Stage
  <2>4. CASE ~Trailing /\ parser'.state = "s_headers_done" /\ event'.cb = "headers_complete"
    <3> DEFINE chunked == "F_CHUNKED" \in parser.flags
               length == IF chunked \/ parser.content_length = ULLONG_MAX THEN 0
                         ELSE parser.content_length
    <3>1. /\ FileKept(request, request')
          /\ request'.content_length = request.content_length
          /\ closing' = closing /\ dispatched' = dispatched
          /\ seen'.failed = seen.failed
          /\ seen'.length = length
          /\ seen'.agreed = (~chunked /\ request.content_length = length)
      BY <2>4, HeadersCallback DEF FirstInv
    <3>2. Ahead
      BY <2>2, <2>4
    <3>3. Untouched'
      BY <3>1, <3>2 DEF Ahead, Untouched, NothingYet
    <3>4. CASE ~seen'.agreed
      <4>1. Disagreed'
        BY <1>1, <3>4 DEF Disagreed
      <4> QED
        BY <4>1 DEF Stage
    <3>5. CASE seen'.agreed
      <4>1. ~chunked /\ request.content_length = length
        BY <3>1, <3>5
      <4>2. Agreed'
        BY <1>1, <3>1, <3>5, <4>1 DEF Agreed
      <4>3. HeadersRead'
        BY <1>1, <1>2, <2>1, <2>4, <3>1, <3>3, <4>1, <4>2 DEF HeadersRead
      <4> QED
        BY <4>3 DEF Stage
    <3> QED
      BY <3>4, <3>5
  <2> QED
    BY <2>3, <2>4 DEF EndsHeaders
<1> QED
  BY <1>3, <1>4

\* Behind the headers: the message is over, or its body begins.
LEMMA BehindHeadersKeeps ==
  ASSUME FirstInv, clax_http_parse, seen' = Noted, LeavesHeaders
  PROVE  Stage'
<1> USE DEF FileKept, SeenKept
<1>1. /\ parser.state = "s_headers_done"
      /\ parser.state \notin Outside \cup LineStates \cup HeaderStates
      /\ parser'.flags = parser.flags /\ parser'.content_length = parser.content_length
      /\ mark' = NoMark
  BY StatesApart DEF LeavesHeaders
<1>2. FirstOnly => HeadersRead \/ (Disagreed /\ seen.completed = 0)
  BY <1>1 DEF FirstInv, Stage, Ahead, BodyComes, BodyRead, Disagreed, FirstOnly, Outside
<1>3. CASE parser'.state \in Outside /\ event'.cb = "message_complete"
  <2>1. /\ FileKept(request, request')
        /\ closing' = closing
        /\ seen'.completed = seen.completed + 1 /\ seen'.agreed = seen.agreed
        /\ seen.completed \in Nat
    BY <1>3, CompleteCallback DEF FirstInv, IsSeen
  <2>2. CASE ~FirstOnly'
    BY <2>2 DEF Stage
  <2>3. CASE FirstOnly'
    <3>1. seen.completed = 0 /\ FirstOnly /\ seen'.completed = 1
      BY <2>1, <2>3 DEF FirstOnly
    <3>2. CASE HeadersRead
      <4>1. BodyRead'
        BY <1>3, <2>1, <3>1, <3>2 DEF HeadersRead, Untouched, Agreed, BodyRead
      <4> QED
        BY <4>1 DEF Stage
    <3>3. CASE Disagreed
      <4>1. Disagreed'
        BY <2>1, <3>1, <3>3 DEF Disagreed
      <4> QED
        BY <4>1 DEF Stage
    <3> QED
      BY <1>2, <3>1, <3>2, <3>3
  <2> QED
    BY <2>2, <2>3
<1>4. CASE event' = NoEvent /\ parser'.state \in {"s_chunk_size_start", "s_body_identity"}
  <2>1. /\ request' = request /\ closing' = closing /\ dispatched' = dispatched
        /\ SeenKept(seen, seen')
    BY <1>4, QuietCallback
  <2>2. parser'.state \notin Outside \cup LineStates \cup HeaderStates
    BY <1>4, StatesApart DEF InChunk
  <2>3. CASE ~FirstOnly'
    BY <2>3 DEF Stage
  <2>4. CASE FirstOnly'
    <3>1. seen.completed = 0 /\ FirstOnly
      BY <2>1, <2>2, <2>4 DEF FirstOnly, Outside
    <3>2. CASE Disagreed
      <4>1. Disagreed'
        BY <2>1, <2>2, <3>2 DEF Disagreed
      <4> QED
        BY <4>1 DEF Stage
    <3>3. CASE HeadersRead
      <4>1. parser'.state = "s_body_identity" /\ ~NoLength
        BY <1>1, <1>4, <2>2, <3>3 DEF LeavesHeaders, HeadersRead, Agreed, Outside
      <4>2. /\ parser.content_length \in Nat
            /\ seen.length = parser.content_length
        BY <3>3, <4>1, SizesAssumption DEF FirstInv, IInv, Fine, NoLength, HeadersRead
      <4>3. Given' = 0
        BY <1>1 DEF Given, NoMark
      <4>4. FileSums'
        BY <1>1, <2>1, <3>3, <4>2, <4>3 DEF HeadersRead, Untouched, FileSums, Adds
      <4>5. BodyComes'
        BY <1>1, <2>1, <3>3, <4>1, <4>2, <4>4 DEF HeadersRead, Untouched, NothingYet, Agreed, BodyComes
      <4> QED
        BY <4>5 DEF Stage
    <3> QED
      BY <1>2, <3>1, <3>2, <3>3
  <2> QED
    BY <2>3, <2>4
<1> QED
  BY <1>3, <1>4 DEF LeavesHeaders

\* A piece of the body is handed out, with n units of it; c are still to come.
LEMMA PieceKeeps ==
  ASSUME FirstInv, clax_http_parse, seen' = Noted, event'.cb = "body", BodyComes,
         NEW n \in Nat \ {0}, Len(event'.buf) = n,
         NEW c \in Nat,
         ~IsForm(request) => Adds(request.stored, n, c, seen.length, seen.failed)
  PROVE  /\ Agreed' \/ parser'.flags # parser.flags
         /\ seen'.completed = 0 /\ seen'.agreed /\ seen'.length = seen.length
         /\ IF IsForm(request) THEN IsForm(request') /\ ~request'.body_tmpfile /\ NothingYet'
            ELSE /\ ~IsForm(request') /\ request'.body_tmpfile
                 /\ request'.stored \in Nat
                 /\ request'.to_read = seen'.length - request'.stored
                 /\ Adds(request'.stored, 0, c, seen'.length, seen'.failed)
                 /\ c > 0 => NothingYet'
                 /\ c = 0 => FileDone'
<1>1. CASE IsForm(request)
  <2>1. /\ FileKept(request, request') /\ IsForm(request')
        /\ request'.content_length = request.content_length
        /\ closing' = closing /\ dispatched' = dispatched /\ SeenKept(seen, seen')
    BY <1>1, FormCallback DEF FirstInv
  <2> QED
    BY <1>1, <2>1 DEF BodyComes, Agreed, NothingYet, FileKept, SeenKept
<1>2. CASE ~IsForm(request)
  <2> DEFINE before == IF request.body_tmpfile THEN request.to_read ELSE request.content_length
             s == request.stored
             length == seen.length
  <2>1. /\ ~IsForm(request')
        /\ request'.content_length = request.content_length
        /\ request'.body_tmpfile
        /\ dispatched' = dispatched
        /\ seen'.completed = seen.completed
        /\ seen'.length = seen.length /\ seen'.agreed = seen.agreed
        /\ seen'.failed = (seen.failed \/ request'.stored # s + n)
        /\ \/ /\ request'.stored = s + n /\ request'.to_read = before - n
              /\ closing' = IF request'.to_read <= 0 THEN closing + 1 ELSE closing
           \/ /\ request'.stored = s + 0 /\ request'.to_read = before - 0
              /\ closing' = closing \/ request'.to_read <= 0
    BY <1>2, FileCallback DEF FirstInv
  <2>2. /\ seen.completed = 0 /\ seen.agreed /\ dispatched = << >> /\ closing = 0
        /\ length \in Nat /\ s \in Nat /\ seen.failed \in BOOLEAN
        /\ request.body_tmpfile => request.to_read = length - s
        /\ ~request.body_tmpfile => s = 0
        /\ request.content_length = length
    BY <1>2 DEF BodyComes, FileSums, Agreed, NothingYet, FirstInv, IsSeen
  <2>3. before = length - s
    BY <2>2
  <2>4. Adds(s, n, c, length, seen.failed)
    BY <1>2
  <2> DEFINE f == seen.failed
  <2> HIDE DEF s, length
  <2>5. s \in Nat /\ length \in Nat /\ f \in BOOLEAN /\ Adds(s, n, c, length, f)
    BY <2>2, <2>4
  <2> HIDE DEF f
  <2>6. /\ s + n \in Nat /\ s + n # s + 0
        /\ Adds(s + n, 0, c, length, f)
        /\ Adds(s, 0, c, length, TRUE)
        /\ length - s > 0
        /\ length - (s + n) <= 0 <=> s + n = length
        /\ c > 0 => length - (s + n) > 0
        /\ f => length - (s + n) > 0
        /\ c = 0 /\ ~f => s + n = length
    BY <2>5 DEF Adds
  <2> USE DEF f
  <2>7. before - n = length - (s + n) /\ before - 0 = length - s /\ s + 0 = s
    BY <2>2, <2>3
  <2> HIDE DEF before
  <2>8. Agreed' \/ parser'.flags # parser.flags
    BY <2>1 DEF BodyComes, Agreed
  <2>9. /\ request'.stored \in Nat
        /\ request'.to_read = length - request'.stored
        /\ Adds(request'.stored, 0, c, length, seen'.failed)
        /\ c > 0 => NothingYet'
        /\ c = 0 => FileDone'
    <3>1. CASE /\ request'.stored = s + n /\ request'.to_read = before - n
               /\ closing' = IF request'.to_read <= 0 THEN closing + 1 ELSE closing
      <4>1. request'.to_read = length - (s + n) /\ seen'.failed = seen.failed
        BY <2>1, <2>2, <2>7, <3>1 DEF s
      <4>2. request'.to_read <= 0 <=> s + n = length
        BY <2>6, <4>1
      <4>3. c > 0 \/ seen.failed => NothingYet'
        <5>1. c > 0 \/ seen.failed => ~(request'.to_read <= 0)
          BY <2>2, <2>6, <4>1
        <5> QED
          BY <2>1, <2>2, <3>1, <5>1 DEF NothingYet
      <4>4. c = 0 => FileDone'
        <5>1. CASE seen.failed
          BY <4>1, <4>3, <5>1 DEF FileDone
        <5>2. CASE ~seen.failed
          <6>1. c = 0 => s + n = length /\ closing' = 1
            BY <2>2, <2>6, <3>1, <4>2, <5>2
          <6> QED
            BY <2>1, <2>2, <3>1, <4>1, <5>2, <6>1 DEF FileDone, length
        <5> QED
          BY <5>1, <5>2
      <4> QED
        BY <2>6, <3>1, <4>1, <4>3, <4>4
    <3>2. CASE /\ request'.stored = s + 0 /\ request'.to_read = before - 0
               /\ closing' = closing \/ request'.to_read <= 0
      <4>1. request'.stored = s /\ request'.to_read = length - s
        BY <2>7, <3>2
      <4>2. request'.stored # s + n
        BY <2>6, <3>2
      <4>3. seen'.failed = TRUE
        BY <2>1, <4>2 DEF s
      <4>4. ~(request'.to_read <= 0)
        BY <2>2, <2>6, <4>1
      <4>5. NothingYet'
        BY <2>1, <2>2, <3>2, <4>4 DEF NothingYet
      <4> QED
        BY <2>2, <2>6, <4>1, <4>3, <4>5 DEF FileDone
    <3> QED
      BY <2>1, <3>1, <3>2 DEF s, before
  <2> QED
    BY <1>2, <2>1, <2>2, <2>8, <2>9 DEF length
<1> QED
  BY <1>1, <1>2

\* Where the body is read: what is marked is still to be handed out.
LEMMA BodyKeeps ==
  ASSUME FirstInv, clax_http_parse, seen' = Noted, ReadsBody
  PROVE  Stage'
<1>1. /\ parser.state = "s_body_identity" /\ mark = NoMark
      /\ parser.state \notin Outside \cup LineStates \cup HeaderStates
      /\ parser'.flags = parser.flags
      /\ ToRead \in Nat \ {0}
      /\ parser'.content_length = parser.content_length - ToRead
  BY StatesApart DEF ReadsBody
<1>2. parser.content_length \in Nat /\ at \in Nat
  BY SizesAssumption DEF FirstInv, IInv, Fine, Placed
<1>3. Given = 0
  BY <1>1 DEF Given, NoMark
<1>4. parser'.state \in {"s_message_done", "s_body_identity"}
      /\ parser'.state \notin Outside \cup LineStates \cup HeaderStates
  BY StatesApart DEF ReadsBody
<1>5. seen'.completed = seen.completed /\ seen'.agreed = seen.agreed
  <2>1. CASE event' = NoEvent
    BY <2>1, QuietCallback DEF SeenKept
  <2>2. CASE event'.cb = "body"
    BY <2>2, FormCallback, FileCallback DEF FirstInv, SeenKept
  <2> QED
    BY <2>1, <2>2 DEF ReadsBody
<1>6. CASE ~FirstOnly'
  BY <1>6 DEF Stage
<1>7. CASE FirstOnly'
  <2>1. seen.completed = 0 /\ FirstOnly
    BY <1>4, <1>5, <1>7 DEF FirstOnly, Outside
  <2>2. BodyComes \/ Disagreed
    BY <1>1, <2>1 DEF FirstInv, Stage, Ahead, HeadersRead, BodyRead
  <2>3. CASE Disagreed
    <3>1. Disagreed'
      BY <1>4, <1>5, <2>3 DEF Disagreed
    <3> QED
      BY <3>1 DEF Stage
  <2>4. CASE /\ BodyComes /\ parser'.content_length = 0 /\ parser'.state = "s_message_done"
             /\ event'.cb = "body" /\ Len(event'.buf) = ToRead
    <3>1. PICK n \in Nat \ {0} : n = ToRead
      BY <1>1
    <3>2. parser.content_length = n
      BY <1>1, <1>2, <2>4, <3>1
    <3>3. ASSUME ~IsForm(request)
          PROVE  Adds(request.stored, n, 0, seen.length, seen.failed)
      <4>1. /\ Adds(request.stored, 0, n, seen.length, seen.failed)
            /\ request.stored \in Nat
        BY <1>3, <2>4, <3>2, <3>3 DEF BodyComes, FileSums
      <4>2. request.stored + n + 0 = request.stored + 0 + n
        BY <4>1
      <4> QED
        BY <4>1, <4>2 DEF Adds
    <3>4. request'.body_tmpfile => FileDone'
      BY <2>4, <3>1, <3>3, PieceKeeps
    <3>5. BodyRead'
      BY <1>5, <2>1, <2>4, <3>4 DEF BodyRead, BodyComes, Agreed
    <3> QED
      BY <3>5 DEF Stage
  <2>5. CASE /\ BodyComes /\ parser'.content_length > 0 /\ parser'.state = "s_body_identity"
             /\ event' = NoEvent /\ mark' = [of |-> "body", from |-> at] /\ at' = at + ToRead
    <3>1. /\ request' = request /\ closing' = closing /\ dispatched' = dispatched
          /\ SeenKept(seen, seen')
      BY <2>5, QuietCallback
    <3>2. Given' = ToRead
      BY <1>1, <1>2, <2>5 DEF Given
    <3>3. ASSUME ~IsForm(request)
          PROVE  FileSums'
      <4>1. FileSums
        BY <2>5, <3>3 DEF BodyComes
      <4>2. request.stored + 0 + parser.content_length
              = request.stored + ToRead + parser'.content_length
        BY <1>1, <1>2, <4>1 DEF FileSums
      <4> QED
        BY <1>3, <3>1, <3>2, <4>1, <4>2 DEF FileSums, Adds, SeenKept
    <3>4. IsForm(request') <=> IsForm(request)
      BY <3>1
    <3>5. BodyComes'
      BY <1>1, <2>1, <2>5, <3>1, <3>3, <3>4 DEF BodyComes, Agreed, NothingYet, SeenKept
    <3> QED
      BY <3>5 DEF Stage
  <2> QED
    BY <2>2, <2>3, <2>4, <2>5 DEF ReadsBody
<1> QED
  BY <1>6, <1>7

\* The end of a buffer.
LEMMA RestKeeps ==
  ASSUME FirstInv, clax_http_parse, seen' = Noted, HandsOutRest
  PROVE  Stage'
<1>1. /\ parser'.state = parser.state /\ parser'.flags = parser.flags
      /\ parser'.content_length = parser.content_length
      /\ event'.cb = mark.of /\ Given' = 0
  BY DEF HandsOutRest, Given, NoMark
<1>2. mark.of \in Texts \cup {"body"}
  BY DEF HandsOutRest, FirstInv, Marked
<1>3. CASE mark.of \in Texts
  <2>1. parser.state \in LineStates \cup HeaderStates
    BY <1>3 DEF FirstInv, Marked, Texts, LineStates, HeaderStates
  <2>2. Reads
    BY <1>1, <1>3, <2>1 DEF Reads, HandsOutRest, Trailing, Told
  <2> QED
    BY <2>2, HeadKeeps
<1>4. CASE mark.of = "body"
  <2>1. /\ parser.state \in BodyStates
        /\ parser.state \notin Outside \cup LineStates \cup HeaderStates
        /\ Given = at - mark.from /\ Len(event'.buf) = Given /\ Given \in Nat \ {0}
    BY <1>4, StatesApart DEF FirstInv, Marked, BodyStates, InChunk, HandsOutRest, Given
  <2>2. seen'.completed = seen.completed /\ seen'.agreed = seen.agreed
    BY <1>1, <1>4, FormCallback, FileCallback DEF FirstInv, SeenKept
  <2>3. CASE ~FirstOnly'
    BY <2>3 DEF Stage
  <2>4. CASE FirstOnly'
    <3>1. seen.completed = 0 /\ FirstOnly
      BY <1>1, <2>1, <2>2, <2>4 DEF FirstOnly, Outside
    <3>2. BodyComes \/ Disagreed
      BY <2>1, <3>1 DEF FirstInv, Stage, Ahead, HeadersRead, BodyRead, BodyStates
    <3>3. CASE Disagreed
      <4>1. Disagreed'
        BY <1>1, <2>1, <2>2, <3>3 DEF Disagreed
      <4> QED
        BY <4>1 DEF Stage
    <3>4. CASE BodyComes
      <4>1. PICK n \in Nat \ {0} : n = Given
        BY <2>1
      <4>2. PICK c \in Nat : c = parser.content_length /\ c > 0
        BY <3>4, SizesAssumption DEF BodyComes, FirstInv, IInv, Fine, InBody
      <4>3. ~IsForm(request) => Adds(request.stored, n, c, seen.length, seen.failed)
        BY <3>4, <4>1, <4>2 DEF BodyComes, FileSums
      <4>4. /\ Agreed' /\ seen'.length = seen.length
            /\ IF IsForm(request) THEN IsForm(request') /\ ~request'.body_tmpfile /\ NothingYet'
               ELSE /\ ~IsForm(request') /\ request'.body_tmpfile
                    /\ request'.stored \in Nat
                    /\ request'.to_read = seen'.length - request'.stored
                    /\ Adds(request'.stored, 0, c, seen'.length, seen'.failed)
                    /\ NothingYet'
        BY <1>1, <1>4, <2>1, <3>4, <4>1, <4>2, <4>3, PieceKeeps
      <4>5. ~IsForm(request') => FileSums'
        BY <1>1, <4>2, <4>4 DEF FileSums
      <4>6. BodyComes'
        BY <1>1, <2>2, <3>1, <3>4, <4>4, <4>5 DEF BodyComes
      <4> QED
        BY <4>6 DEF Stage
    <3> QED
      BY <3>2, <3>3, <3>4
  <2> QED
    BY <2>3, <2>4
<1> QED
  BY <1>2, <1>3, <1>4

LEMMA EndKeeps ==
  ASSUME FirstInv, clax_http_parse, seen' = Noted, EndsMessage
  PROVE  Stage'
<1>1. /\ parser.state = "s_message_done" /\ parser'.state \in Outside
      /\ parser.state \notin Outside \cup LineStates \cup HeaderStates
  BY StatesApart DEF EndsMessage
<1>2. /\ FileKept(request, request') /\ closing' = closing
      /\ request.body_tmpfile => dispatched' = dispatched
      /\ seen'.completed = seen.completed + 1 /\ seen.completed \in Nat
      /\ seen'.failed = seen.failed /\ seen'.length = seen.length /\ seen'.agreed = seen.agreed
  BY CompleteCallback DEF EndsMessage, FirstInv, IsSeen
<1>3. CASE ~FirstOnly'
  BY <1>3 DEF Stage
<1>4. CASE FirstOnly'
  <2>1. seen.completed = 0 /\ FirstOnly /\ seen'.completed = 1
    BY <1>2, <1>4 DEF FirstOnly
  <2>2. BodyRead \/ Disagreed
    BY <1>1, <2>1 DEF FirstInv, Stage, Ahead, HeadersRead, BodyComes
  <2>3. CASE BodyRead
    <3>1. request.body_tmpfile => FileDone'
      BY <1>2, <2>3 DEF BodyRead, FileDone, NothingYet, FileKept
    <3>2. BodyRead'
      BY <1>1, <1>2, <2>1, <2>3, <3>1 DEF BodyRead, FileKept
    <3> QED
      BY <3>2 DEF Stage
  <2>4. CASE Disagreed
    <3>1. Disagreed'
      BY <1>2, <2>1, <2>4 DEF Disagreed
    <3> QED
      BY <3>1 DEF Stage
  <2> QED
    BY <2>2, <2>3, <2>4
<1> QED
  BY <1>3, <1>4

LEMMA ChunksKeep ==
  ASSUME FirstInv, clax_http_parse, seen' = Noted, ReadsChunks
  PROVE  Stage'
<1>1. /\ parser.state \in InChunk
      /\ parser.state \notin Outside \cup LineStates \cup HeaderStates
      /\ parser.state \notin {"s_headers_done", "s_body_identity", "s_message_done"}
      /\ parser'.state \notin Outside
      /\ \/ parser'.state \notin Outside \cup LineStates \cup HeaderStates
         \/ parser'.state \in HeaderStates /\ Trailing'
  BY StatesApart DEF ReadsChunks
<1>2. seen'.completed = seen.completed /\ seen'.agreed = seen.agreed
  <2>1. CASE event' = NoEvent
    BY <2>1, QuietCallback DEF SeenKept
  <2>2. CASE event'.cb = "body"
    BY <2>2, FormCallback, FileCallback DEF FirstInv, SeenKept
  <2> QED
    BY <2>1, <2>2 DEF ReadsChunks
<1>3. CASE ~FirstOnly'
  BY <1>3 DEF Stage
<1>4. CASE FirstOnly'
  <2>1. seen.completed = 0 /\ FirstOnly
    BY <1>1, <1>2, <1>4 DEF FirstOnly, Outside
  <2>2. Disagreed
    BY <1>1, <2>1 DEF FirstInv, Stage, Ahead, HeadersRead, BodyComes, BodyRead
  <2>3. Disagreed'
    BY <1>1, <1>2, <2>2 DEF Disagreed
  <2> QED
    BY <2>3 DEF Stage
<1> QED
  BY <1>3, <1>4

\* Every step of the parser.
LEMMA ParseKeeps ==
  ASSUME FirstInv, Parse
  PROVE  IInv' /\ Marked' /\ IsRequest(request') /\ IsSeen(seen') /\ Stage'
<1>1. /\ IInv /\ Marked /\ IsRequest(request) /\ IsSeen(seen)
      /\ clax_http_parse /\ http_parser_execute /\ seen' = Noted
  BY DEF FirstInv, Parse, clax_http_parse
<1>2. IInv'
  BY <1>1, ExecuteKeeps
<1>3. \/ StandsStill \/ Begins \/ Reads \/ EndsHeaders \/ LeavesHeaders
      \/ ReadsBody \/ EndsMessage \/ ReadsChunks \/ HandsOutRest
  BY <1>1, StepKinds
<1>4. Marked'
  BY <1>3 DEF StandsStill, Begins, Reads, EndsHeaders, LeavesHeaders,
              ReadsBody, EndsMessage, ReadsChunks, HandsOutRest
<1>5. Stage'
  BY <1>1, <1>3, StillKeeps, HeadKeeps, EndOfHeadersKeeps, BehindHeadersKeeps,
     BodyKeeps, RestKeeps, EndKeeps, ChunksKeep
<1>6. Told \/ event'.cb \in {"headers_complete", "message_complete", "body"}
  <2>1. HandsOutRest => event'.cb \in Texts \cup {"body"}
    BY <1>1 DEF HandsOutRest, Marked
  <2> QED
    BY <1>3, <2>1 DEF StandsStill, Begins, Reads, EndsHeaders, LeavesHeaders,
                      ReadsBody, EndsMessage, ReadsChunks, Told
<1>7. IsRequest(request') /\ IsSeen(seen')
  <2>1. CASE Told
    BY <1>1, <2>1, TextCallback, TextNoted
  <2>2. CASE event'.cb = "headers_complete"
    BY <1>1, <2>2, HeadersCallback
  <2>3. CASE event'.cb = "message_complete"
    BY <1>1, <2>3, CompleteCallback
  <2>4. CASE event'.cb = "body"
    BY <1>1, <2>4, FormCallback, FileCallback
  <2> QED
    BY <1>6, <2>1, <2>2, <2>3, <2>4
<1> QED
  BY <1>2, <1>4, <1>5, <1>7

LEMMA ReadBufferKeeps ==
  ASSUME FirstInv, ReadBuffer
  PROVE  IInv' /\ Marked' /\ IsRequest(request') /\ IsSeen(seen') /\ Stage'
<1>1. /\ BufferStart /\ request' = request /\ closing' = closing
      /\ dispatched' = dispatched /\ seen' = seen
  BY DEF ReadBuffer
<1>2. IInv'
  BY <1>1, BufferKeeps DEF FirstInv
<1>3. /\ Marked'
      /\ parser'.state = parser.state /\ parser'.flags = parser.flags
      /\ parser'.content_length = parser.content_length
      /\ mark = NoMark /\ mark'.of \in {"none"} \cup Texts
  BY <1>1, BufferMarks DEF FirstInv
<1>4. Given = 0 /\ Given' = 0
  BY <1>3 DEF Given, NoMark, Texts
<1>5. Stage'
  BY <1>1, <1>3, <1>4, StageStays DEF FileKept, SeenKept
<1> QED
  BY <1>1, <1>2, <1>3, <1>5 DEF FirstInv

\* The request whose file is closed is dispatched.
LEMMA ClosedKeeps ==
  ASSUME FirstInv, clax_http_request_body_closed_cb
  PROVE  Stage'
<1>1. /\ closing > 0 /\ closing' = closing - 1
      /\ dispatched' = Append(dispatched, request)
      /\ UNCHANGED <<input, at, left, buffers, parser, mark, event, request, seen>>
  BY DEF clax_http_request_body_closed_cb, parserVars
<1>2. ~NothingYet
  BY <1>1 DEF NothingYet
<1>3. FirstOnly' = FirstOnly /\ Disagreed' = Disagreed
  BY <1>1 DEF FirstOnly, Disagreed, Trailing
<1>4. FirstOnly => BodyRead \/ Disagreed
  BY <1>2 DEF FirstInv, Stage, Ahead, HeadersRead, BodyComes, Untouched
<1>5. ASSUME BodyRead
      PROVE  BodyRead'
  <2>1. ASSUME request.body_tmpfile
        PROVE  FileDone'
    <3>1. /\ ~seen.failed /\ closing = 1 /\ dispatched = << >> /\ request.stored = seen.length
      BY <1>1, <1>2, <1>5, <2>1 DEF BodyRead, FileDone
    <3>2. closing' = 0 /\ dispatched' = <<request>>
      BY <1>1, <3>1
    <3> QED
      BY <1>1, <3>1, <3>2 DEF FileDone
  <2> QED
    BY <1>1, <1>5, <2>1 DEF BodyRead
<1> QED
  BY <1>3, <1>4, <1>5 DEF Stage

LEMMA FirstInvariant == Spec => []FirstInv
<1>1. Init => FirstInv
  <2> SUFFICES ASSUME Init
               PROVE  FirstInv
    OBVIOUS
  <2>1. IInv
    BY InitFine
  <2>2. /\ mark = NoMark /\ parser.state = "s_start_req" /\ parser.flags = {}
        /\ request = clax_http_request_init /\ seen = NothingSeen
        /\ closing = 0 /\ dispatched = << >>
    BY DEF Init, ParserInit, http_parser_init
  <2>3. Marked
    BY <2>2 DEF Marked, NoMark
  <2>4. IsRequest(request) /\ ~request.body_tmpfile /\ request.stored = 0
    BY <2>2 DEF IsRequest, RequestFields, clax_http_request_init
  <2>5. IsSeen(seen) /\ ~seen.failed /\ seen.completed = 0 /\ seen.agreed
    BY <2>2 DEF IsSeen, SeenFields, NothingSeen
  <2>6. Ahead
    BY <2>2, <2>4, <2>5 DEF Ahead, Untouched, NothingYet, Outside, Trailing
  <2> QED
    BY <2>1, <2>3, <2>4, <2>5, <2>6 DEF FirstInv, Stage
<1>2. FirstInv /\ [Next]_vars => FirstInv'
  <2> SUFFICES ASSUME FirstInv, [Next]_vars
               PROVE  FirstInv'
    OBVIOUS
  <2>1. CASE Parse
    BY <2>1, ParseKeeps DEF FirstInv
  <2>2. CASE ReadBuffer
    BY <2>2, ReadBufferKeeps DEF FirstInv
  <2>3. CASE clax_http_request_body_closed_cb
    <3>1. Stage'
      BY <2>3, ClosedKeeps
    <3>2. UNCHANGED <<input, at, left, buffers, parser, mark, event, request, seen>>
      BY <2>3 DEF clax_http_request_body_closed_cb, parserVars
    <3> QED
      BY <3>1, <3>2 DEF FirstInv, IInv, Placed, Fine, Marked, IsRequest, IsSeen
  <2>4. CASE UNCHANGED vars
    <3>1. UNCHANGED <<input, at, left, buffers, parser, mark, event,
                      request, closing, dispatched, seen>>
      BY <2>4 DEF vars, parserVars
    <3>2. Stage'
      BY <3>1, StageStays DEF FileKept, SeenKept, Given
    <3> QED
      BY <3>1, <3>2 DEF FirstInv, IInv, Placed, Fine, Marked, IsRequest, IsSeen
  <2> QED
    BY <2>1, <2>2, <2>3, <2>4 DEF Next
<1> QED
  BY <1>1, <1>2, PTL DEF Spec

\* However the body of the first request is cut into buffers, and wherever a write
\* of it fails: the request is dispatched once the whole of the announced body is
\* in the temporary file, once only, and not at all when some of it is missing
\* (on_http_parser_body, clax_http_request_body_written_cb).
THEOREM BodyStoredWhole == Spec => []StoredWhole
<1>1. FirstInv => StoredWhole
  <2> SUFFICES ASSUME FirstInv, FirstOnly, seen.agreed, request.body_tmpfile
               PROVE  /\ \A i \in DOMAIN dispatched : dispatched[i].stored = seen.length
                      /\ Len(dispatched) + closing <= IF seen.failed THEN 0 ELSE 1
                      /\ seen.completed = 1 /\ ~seen.failed => Len(dispatched) + closing = 1
    BY DEF StoredWhole
  <2>1. BodyComes \/ BodyRead
    BY DEF FirstInv, Stage, Ahead, HeadersRead, Untouched, Disagreed
  <2>2. CASE NothingYet /\ (seen.completed = 0 \/ seen.failed)
    BY <2>2 DEF NothingYet
  <2>3. CASE ~seen.failed /\ FileDone
    <3>1. CASE closing = 1 /\ dispatched = << >>
      BY <2>3, <3>1
    <3>2. CASE /\ closing = 0 /\ dispatched = <<dispatched[1]>>
               /\ dispatched[1].stored = seen.length
      <4>1. DOMAIN dispatched = {1} /\ Len(dispatched) = 1
        BY <3>2
      <4> QED
        BY <2>3, <3>2, <4>1
    <3> QED
      BY <2>3, <3>1, <3>2 DEF FileDone
  <2> QED
    BY <2>1, <2>2, <2>3 DEF BodyComes, BodyRead, FileDone
<1> QED
  BY <1>1, FirstInvariant, PTL
=============================================================================
