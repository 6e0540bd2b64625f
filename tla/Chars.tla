------------------------------- MODULE Chars --------------------------------
(***************************************************************************)
(* Characters, as strings of length one, and the classes of them that      *)
(* http_parser.c and clax_http_util.c tell apart.                          *)
(***************************************************************************)
EXTENDS Integers, Sequences, FiniteSets

\* The printable ones in the order of their codes, from 32 on, with a space for
\* the two that are named below.
Printable ==
  " ! #$%&'()*+,-./0123456789:;<=>?@ABCDEFGHIJKLMNOPQRSTUVWXYZ[\\]^_ abcdefghijklmnopqrstuvwxyz{|}~"

Named == {<<0, "NUL">>, <<9, "TAB">>, <<10, "LF">>, <<13, "CR">>, <<34, "quote">>,
          <<96, "grave">>}

\* The character with a code; the ones that have no name here are all "other".
Char ==
  [n \in 0..255 |->
     IF \E p \in Named : p[1] = n THEN (CHOOSE p \in Named : p[1] = n)[2]
     ELSE IF n \in 32..126 THEN SubSeq(Printable, n - 31, n - 31) ELSE "other"]

Between(m, n) == {Char[i] : i \in m..n}

Known == {Char[i] : i \in 0..255} \ {"other"}

Code == [c \in Known |-> CHOOSE n \in 0..255 : Char[n] = c]

Num == Between(48, 57)
Upper == Between(65, 90)
Lower == Between(97, 122)
Alpha == Upper \cup Lower
AlphaNum == Alpha \cup Num
Hex == Num \cup Between(65, 70) \cup Between(97, 102)

\* What a hexadecimal digit is worth.
HexValue ==
  [c \in Hex |-> CASE c \in Num -> Code[c] - 48
                   [] c \in Upper -> Code[c] - 55
                   [] OTHER -> Code[c] - 87]

\* Facts, which take looking into Printable.
ASSUME HexAssumption == \A c \in Hex : HexValue[c] \in 0..15
ASSUME DigitAssumption ==
  \A n \in 0..15, s \in {Upper, Lower} : \E c \in Hex \ s : HexValue[c] = n
ASSUME SignAssumption ==
  /\ {"=", "&", "%", "+", "-", " ", "/", "?", "#", ":"} \cap AlphaNum = {}
  /\ {"x", "X"} \cap Hex = {}

\* A text as C sees it: up to its first zero byte.
CStr(s) ==
  IF \E i \in DOMAIN s : s[i] = "NUL"
  THEN SubSeq(s, 1, (CHOOSE i \in DOMAIN s :
                       s[i] = "NUL" /\ \A j \in 1..(i - 1) : s[j] # "NUL") - 1)
  ELSE s
=============================================================================
