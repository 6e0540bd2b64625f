---------------------------- MODULE ClaxHttpUtil ----------------------------
(***************************************************************************)
(* The functions of clax_http_util.c on texts: decoding of URLs and forms, *)
(* basic authorization, and the base64 it needs (contrib/base64); and what *)
(* on_http_parser_url (clax_http_parser.c) makes of a URL with them.       *)
(*                                                                         *)
(* code is what the variable of that name holds when a decoding begins: it *)
(* is not initialized, and sscanf leaves it alone when it reads no number. *)
(***************************************************************************)
EXTENDS HttpUrl, ClaxKv

\* sscanf of "%x" on two characters; a sign or a space may come before a digit.
\* "0x" is not read as a number.
Scanned(a, b, code) ==
  CASE a = "0" /\ b \in {"x", "X"} -> code
    [] a \in Hex /\ b \in Hex -> 16 * HexValue[a] + HexValue[b]
    [] a \in Hex /\ b \notin Hex \cup {"x", "X"} -> HexValue[a]
    [] a \in Hex \ {"0"} /\ b \in {"x", "X"} -> HexValue[a]
    [] a \in {"+", " "} /\ b \in Hex -> HexValue[b]
    [] a = "-" /\ b \in Hex -> (256 - HexValue[b]) % 256
    [] OTHER -> code

\* str decoded from its start, with what the loop knows: the text so far, code, and how
\* many characters were read with a percent sign before them; ahead is how much must
\* follow one.
DecodedWith(str, code, ahead) ==
  LET step(a, j) ==
        CASE a.skip # 0 -> [a EXCEPT !.skip = @ - 1]
          [] a.skip = 0 /\ str[j] = "+" -> [a EXCEPT !.out = Append(@, " ")]
          [] a.skip = 0 /\ str[j] = "%" /\ j <= Len(str) - ahead ->
               LET n == Scanned(str[j + 1], str[j + 2], a.code)
               IN  [out |-> Append(a.out, Char[n]), code |-> n, skip |-> 2]
          [] OTHER -> [a EXCEPT !.out = Append(@, str[j])]
  IN  FoldLeft(step, [out |-> << >>, code |-> code, skip |-> 0], [j \in DOMAIN str |-> j]).out

\* Variant: a code at the end of the text is not decoded.
url_decode_stops_early(str, code) == DecodedWith(str, code, 3)

\* The text it leaves in place, zero bytes included; the length of that is what
\* the code returns.
clax_http_url_decode(str, code) == DecodedWith(str, code, 2)

-----------------------------------------------------------------------------
(* Forms.  A key and a value are kept as a place and a length.  A = in a   *)
(* value is skipped but not counted, so that the text ends too early.      *)

Field(buf, from, len, code) ==
  CStr(clax_http_url_decode(IF from = 0 THEN << >> ELSE SubSeq(buf, from, from + len - 1), code))

KeyMode == [mode |-> "key", key |-> 0, key_len |-> 0, val |-> 0, val_len |-> 0]

Pair(buf, f, code) ==
  IF f.key_len = 0 /\ f.val_len = 0 THEN << >>
  ELSE <<Item(Field(buf, f.key, f.key_len, code), Field(buf, f.val, f.val_len, code))>>

Scan(buf, f, j) ==
  CASE buf[j] = "=" -> [f EXCEPT !.mode = "val"]
    [] buf[j] # "=" /\ f.mode = "key" ->
         [f EXCEPT !.key = IF @ = 0 THEN j ELSE @, !.key_len = @ + 1]
    [] OTHER -> [f EXCEPT !.val = IF @ = 0 THEN j ELSE @, !.val_len = @ + 1]

\* What of a text was read up to its end: the pairs, and f, the one under way.
ScanAll(params, buf, code) ==
  LET step(a, j) ==
        IF buf[j] = "&" THEN [f |-> KeyMode, params |-> a.params \o Pair(buf, a.f, code)]
        ELSE [a EXCEPT !.f = Scan(buf, @, j)]
  IN  FoldLeft(step, [f |-> KeyMode, params |-> params], [j \in DOMAIN buf |-> j])

\* Variant: the last pair has no & after it and is lost.
parse_loses_last(params, buf, code) == ScanAll(params, buf, code).params

clax_http_parse_urlencoded(params, buf, code) ==
  LET a == ScanAll(params, buf, code) IN a.params \o Pair(buf, a.f, code)

-----------------------------------------------------------------------------
(* on_http_parser_url: a URL with fields that cannot be decoded to a path  *)
(* is refused.  When the URL has no path the place and length of it are    *)
(* not initialized.                                                        *)

Refused == [status |-> "refused", path_info |-> << >>, query_params |-> << >>]
Undefined == [Refused EXCEPT !.status = "undefined"]

\* Variant: only the text up to the zero byte is searched.
nul_in_string(path) == "NUL" \in {CStr(path)[i] : i \in DOMAIN CStr(path)}

HasNul(path) == "NUL" \in {path[i] : i \in DOMAIN path}

UrlWith(path, query, code) ==
  IF HasNul(path) THEN Refused
  ELSE [status |-> "ok", path_info |-> path,
        query_params |-> clax_http_parse_urlencoded(<< >>, query, code)]

UrlTaken(u, code) ==
  CASE ~u.ok -> Refused
    [] u.ok /\ u.field.path = << >> -> Undefined
    [] OTHER -> UrlWith(clax_http_url_decode(u.field.path, code), u.field.query, code)

on_http_parser_url(buf, code) == UrlTaken(http_parser_parse_url(buf), code)

-----------------------------------------------------------------------------
(* base64.                                                                 *)

Alphabet64 == "ABCDEFGHIJKLMNOPQRSTUVWXYZabcdefghijklmnopqrstuvwxyz0123456789+/"
Char64 == [n \in 0..63 |-> SubSeq(Alphabet64, n + 1, n + 1)]
b64 == [c \in {Char64[n] : n \in 0..63} |-> CHOOSE n \in 0..63 : Char64[n] = c]
isbase64(c) == c \in DOMAIN b64

\* A fact, which takes looking into Alphabet64.
ASSUME Char64Assumption ==
  \A m, n \in 0..63 : Char64[m] # "=" /\ (Char64[m] = Char64[n] => m = n)

\* The bytes of a group of four characters: with one = less by one, with two by
\* two.
Group(a, b, c, d) ==
  <<4 * b64[a] + (b64[b] \div 16)>>
    \o (IF c = "=" THEN << >> ELSE <<((16 * b64[b]) % 256) + (b64[c] \div 4)>>)
    \o (IF d = "=" THEN << >> ELSE <<((64 * b64[c]) % 256) + b64[d]>>)

\* Padding ends the text.
GroupOk(a, b, c, d, last) ==
  /\ isbase64(a) /\ isbase64(b)
  /\ isbase64(c) \/ (c = "=" /\ d = "=" /\ last)
  /\ isbase64(d) \/ (d = "=" /\ last)

\* Was it base64, and the text it stood for.
base64_decode(in) ==
  LET groups == 1..(Len(in) \div 4)
      at(g, k) == in[4 * g - 4 + k]
      ok == /\ Len(in) % 4 = 0
            /\ \A g \in groups :
                 GroupOk(at(g, 1), at(g, 2), at(g, 3), at(g, 4), g = Len(in) \div 4)
      bytes == FlattenSeq([g \in groups |-> Group(at(g, 1), at(g, 2), at(g, 3), at(g, 4))])
  IN  [ok |-> ok, out |-> IF ok THEN [i \in DOMAIN bytes |-> Char[bytes[i]]] ELSE << >>]

Basic == <<"B", "a", "s", "i", "c", " ">>

\* Variant: a password that begins with the right one is accepted.
auth_prefix(header, username, password) ==
  /\ Len(header) > Len(Basic) /\ IsPrefix(Basic, header)
  /\ LET d == base64_decode(SubSeq(header, Len(Basic) + 1, Len(header)))
     IN  d.ok /\ IsPrefix(username \o <<":">> \o password, d.out)

\* The user name ends at the first colon.
clax_http_check_basic_auth(header, username, password) ==
  /\ Len(header) > Len(Basic) /\ IsPrefix(Basic, header)
  /\ LET d == base64_decode(SubSeq(header, Len(Basic) + 1, Len(header)))
         colons == {i \in DOMAIN CStr(d.out) : d.out[i] = ":"}
         sep == CHOOSE i \in colons : \A j \in colons : i <= j
     IN  /\ d.ok /\ colons # {}
         /\ SubSeq(d.out, 1, sep - 1) = username
         /\ SubSeq(d.out, sep + 1, Len(d.out)) = password
=============================================================================
