------------------------------ MODULE ClaxText ------------------------------
(***************************************************************************)
(* The functions of clax on texts, over every text of some alphabets, each *)
(* against what it should do: decoding undoes encoding, a URL gives the    *)
(* path that was asked for, credentials are compared whole, a path comes   *)
(* out tidy, and a checksum is the remainder of a polynomial division.     *)
(***************************************************************************)
EXTENDS ClaxHttpUtil, ClaxPath, ClaxCrc32

CONSTANTS
  Alphabets,   \* sets of characters
  MaxText,     \* how long a text of an alphabet gets
  Codes        \* what the variable code of clax_http_url_decode may hold

ASSUME AlphabetsAssumption == \A a \in Alphabets : a \subseteq Known
ASSUME MaxTextAssumption == MaxText \in [Alphabets -> Nat]
ASSUME CodesAssumption == Codes \subseteq 0..255

VARIABLES alphabet, text, code

vars == <<alphabet, text, code>>

Init == alphabet \in Alphabets /\ text = << >> /\ code \in Codes

\* One more character.
Next ==
  /\ Len(text) < MaxText[alphabet]
  /\ \E c \in alphabet : text' = Append(text, c)
  /\ UNCHANGED <<alphabet, code>>

Spec == Init /\ [][Next]_vars

-----------------------------------------------------------------------------
(* What a client does, which is the other way round.                       *)

HexDigit == [n \in 0..15 |-> CHOOSE c \in Hex \ Lower : HexValue[c] = n]

\* All but letters and digits in hexadecimal.
Encoded(s) ==
  FlattenSeq([i \in DOMAIN s |->
    IF s[i] \in AlphaNum THEN <<s[i]>>
    ELSE <<"%", HexDigit[Code[s[i]] \div 16], HexDigit[Code[s[i]] % 16]>>])

\* base64, from the bits: six of them at a time, the highest first.
Base64(s) ==
  LET bit(k) == (Code[s[(k \div 8) + 1]] \div 2^(7 - (k % 8))) % 2
      at(k) == IF k < 8 * Len(s) THEN bit(k) ELSE 0
      six(n) == 32 * at(6*n) + 16 * at(6*n + 1) + 8 * at(6*n + 2)
                  + 4 * at(6*n + 3) + 2 * at(6*n + 4) + at(6*n + 5)
      chars == (8 * Len(s) + 5) \div 6
  IN  [n \in 1..chars |-> Char64[six(n - 1)]] \o [n \in 1..((4 - (chars % 4)) % 4) |-> "="]

\* The bits of a text in the order they are sent, and the division by the
\* polynomial, a bit at a time.
Bytes(s) == [i \in DOMAIN s |-> {b \in 0..7 : (Code[s[i]] \div 2^b) % 2 = 1}]

Remainder(s) ==
  FoldLeft(LAMBDA w, k : LET odd == (0 \in w) # (k % 8 \in Bytes(s)[(k \div 8) + 1])
                         IN  IF odd THEN Xor(Right(w, 1), poly) ELSE Right(w, 1),
           Word, [k \in 1..(8 * Len(s)) |-> k - 1])

Crc32(s) == clax_crc32_finalize(clax_crc32_calc(clax_crc32_init, Bytes(s)))

-----------------------------------------------------------------------------
(* Properties.                                                             *)

\* A form of two pairs, encoded as a client encodes it, is read as those pairs,
\* whatever their texts are, zero bytes aside (clax_http_parse_urlencoded,
\* clax_http_url_decode).
FormUndone ==
  text # << >> /\ "NUL" \notin alphabet =>
    \A k \in 0..Len(text) :
      LET a == SubSeq(text, 1, k)
          b == SubSeq(text, k + 1, Len(text))
          form == Encoded(a) \o <<"=">> \o Encoded(b) \o <<"&">> \o Encoded(b) \o <<"=">> \o Encoded(a)
      IN  clax_http_parse_urlencoded(<< >>, form, code) = <<Item(a, b), Item(b, a)>>

\* The place of the first of some characters from place i on, or the one after
\* the end.
FirstOf(s, chars, i) ==
  LET p == {k \in i..Len(s) : s[k] \in chars}
  IN  IF p = {} THEN Len(s) + 1 ELSE CHOOSE k \in p : \A m \in p : k <= m

\* The path and the query of a URL, from the place where the path would begin:
\* what stands before the first ? or #, and between the two.
PathOf(url, i) == SubSeq(url, i, FirstOf(url, {"?", "#"}, i) - 1)
QueryOf(url, i) ==
  IF FirstOf(url, {"?"}, i) > FirstOf(url, {"#"}, i) THEN << >>
  ELSE SubSeq(url, FirstOf(url, {"?"}, i) + 1, FirstOf(url, {"#"}, i) - 1)

ReadAs(url, i) ==
  [status |-> "ok", path_info |-> clax_http_url_decode(PathOf(url, i), code),
   query_params |-> clax_http_parse_urlencoded(<< >>, QueryOf(url, i), code)]

Decodable(path) ==
  LET d == clax_http_url_decode(path, code) IN "NUL" \notin {d[i] : i \in DOMAIN d}

\* A URL that begins with a slash gives the path and the parameters that were asked
\* for; it is refused if the path has a zero byte, if it is no URL, and not else.  A
\* URL with a host gives the path after that, or is refused, unless it has none: then
\* the path is not initialized (on_http_parser_url, http_parser_parse_url,
\* http_parse_host).
UrlRead ==
  /\ LET url == <<"/">> \o text
         right == \A i \in DOMAIN url : url[i] \in UrlChar \cup {"?", "#"}
     IN  on_http_parser_url(url, code) =
           IF right /\ Decodable(PathOf(url, 1)) THEN ReadAs(url, 1) ELSE Refused
  /\ \A rest \in {<< >>, <<"/", "p">>} :
       LET url == <<"a", ":", "/", "/">> \o text \o rest
           from == FirstOf(url, {"/", "?", "#"}, 5)
       IN  on_http_parser_url(url, code)
             \in {Refused, IF PathOf(url, from) = << >> THEN Undefined ELSE ReadAs(url, from)}

\* Of the user names and passwords that a header could stand for, the one is
\* accepted whose name ends at the first colon, and no other; and none is when
\* there is a zero byte, where a C string would end
\* (clax_http_check_basic_auth, base64_decode).
OnlyTheRight ==
  \A k \in 1..(Len(text) + 1) :
    clax_http_check_basic_auth(Basic \o Base64(text), CStr(SubSeq(text, 1, k - 1)),
                               CStr(SubSeq(text, k + 1, Len(text))))
      <=> /\ "NUL" \notin {text[i] : i \in DOMAIN text}
          /\ k <= Len(text) /\ text[k] = ":" /\ \A j \in 1..(k - 1) : text[j] # ":"

\* What is tidied has nothing left to tidy, and tidying comes to an end
\* (clax_san_path); and two paths are joined by one slash, or not at all when
\* there is no room (clax_strcatfile).
PathClean ==
  /\ LET p == clax_san_path(text)
     IN  \A s \in {Up, Here, Twice, <<"\\">>} : ~Holds(p, s)
  /\ \A k \in 0..Len(text) :
       LET p == clax_san_path(SubSeq(text, 1, k))
           f == clax_san_path(SubSeq(text, k + 1, Len(text)))
           j == clax_strcatfile(p, 5, f)
       IN  j.ok /\ Len(p) <= 4 => Len(j.dst) <= 4 /\ ~Holds(j.dst, Twice)

\* The checksum with the table is the remainder of the division, whatever pieces
\* the text was read in, and what a download writes of it is the number an upload
\* reads (clax_crc32_calc, clax_dispatch_download_crc32_, clax_htol).
CrcAsDivided ==
  LET crc == Crc32(text)
  IN  /\ crc = clax_crc32_finalize(Remainder(text))
      /\ \A k \in 0..Len(text) :
           clax_crc32_calc(clax_crc32_calc(clax_crc32_init, Bytes(SubSeq(text, 1, k))),
                           Bytes(SubSeq(text, k + 1, Len(text)))) = clax_crc32_finalize(crc)
      /\ clax_htol(ToHex(crc, 8)) = crc
=============================================================================
