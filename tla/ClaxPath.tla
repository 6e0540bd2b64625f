------------------------------ MODULE ClaxPath ------------------------------
(***************************************************************************)
(* The functions of clax_util.c that put paths together and tidy them, and *)
(* the one that reads a hexadecimal number.                                *)
(***************************************************************************)
EXTENDS Chars, SequencesExt

Failed == [ok |-> FALSE, dst |-> << >>]
Joined(dst) == [ok |-> TRUE, dst |-> dst]

\* dst is a buffer of max characters, one of them for the zero byte at its end.
clax_strcat(dst, max, src) ==
  IF src # << >> /\ Len(dst) + Len(src) > max - 1 THEN Failed ELSE Joined(dst \o src)

\* Variant: a slash is always put between.
strcatfile_adds_slash(dst, max, src) ==
  IF dst = << >> THEN clax_strcat(dst, max, src) ELSE clax_strcat(dst, max, <<"/">> \o src)

\* dst and src with one slash between them, if dst is not empty.
clax_strcatfile(dst, max, src) ==
  LET starts == src # << >> /\ Head(src) = "/"
  IN  CASE dst = << >> -> clax_strcat(dst, max, src)
        [] dst # << >> /\ Last(dst) # "/" /\ starts -> clax_strcat(dst, max, src)
        [] dst # << >> /\ Last(dst) # "/" /\ ~starts -> clax_strcat(dst, max, <<"/">> \o src)
        [] OTHER -> clax_strcat(dst, max, IF starts THEN Tail(src) ELSE src)

\* The same, with a slash at the end.  src is not empty.
clax_strcatdir(dst, max, src) ==
  LET d == clax_strcatfile(dst, max, src)
  IN  IF d.ok /\ Last(src) # "/" THEN clax_strcatfile(d.dst, max, <<"/">>) ELSE d

-----------------------------------------------------------------------------
At(buf, i, s) == i + Len(s) - 1 <= Len(buf) /\ SubSeq(buf, i, i + Len(s) - 1) = s

Holds(buf, s) == \E i \in DOMAIN buf : At(buf, i, s)

\* The n characters from the first s on are removed.
CutFirst(buf, s, n) ==
  LET i == CHOOSE i \in DOMAIN buf : At(buf, i, s) /\ \A j \in 1..(i - 1) : ~At(buf, j, s)
  IN  SubSeq(buf, 1, i - 1) \o SubSeq(buf, i + n, Len(buf))

Up == <<"/", ".", ".", "/">>
Here == <<"/", ".", "/">>
Twice == <<"/", "/">>

\* One round of the loop: of the four things it looks for the first it finds.
SanStep(buf) ==
  CASE Holds(buf, Up) -> CutFirst(buf, Up, 3)
    [] ~Holds(buf, Up) /\ Holds(buf, Here) -> CutFirst(buf, Here, 2)
    [] ~Holds(buf, Up) /\ ~Holds(buf, Here) /\ Holds(buf, Twice) -> CutFirst(buf, Twice, 1)
    [] OTHER ->
         LET b == {i \in DOMAIN buf : buf[i] = "\\"}
         IN  IF b = {} THEN buf ELSE [buf EXCEPT ![CHOOSE i \in b : \A j \in b : i <= j] = "/"]

\* Every round but the last removes a character or a backslash.
clax_san_path(buf) == FoldLeft(LAMBDA s, i : SanStep(s), buf, [i \in 1..(2 * Len(buf)) |-> i])

-----------------------------------------------------------------------------
\* The bits of a number, as the set of their places, written in hexadecimal with
\* n digits, and read again.  What is not a digit in lower case reads as -1, all
\* the bits of a long.
Nibble(w, k) ==
  LET bit(i) == IF 4 * k + i \in w THEN 2^i ELSE 0
  IN  bit(0) + bit(1) + bit(2) + bit(3)

LowerDigit == [n \in 0..15 |-> CHOOSE c \in Hex \ Upper : HexValue[c] = n]

ToHex(w, n) == [k \in 1..n |-> LowerDigit[Nibble(w, n - k)]]

AllBits == 0..63

clax_htol(buf) ==
  IF \E i \in DOMAIN buf : buf[i] \notin Hex \ Upper THEN AllBits
  ELSE {b \in AllBits : b \div 4 < Len(buf)
                        /\ (HexValue[buf[Len(buf) - (b \div 4)]] \div 2^(b % 4)) % 2 = 1}
=============================================================================
