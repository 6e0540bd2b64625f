---------------------------- MODULE ClaxHeaders ----------------------------
(***************************************************************************)
(* The headers of a request, put together from the callbacks of            *)
(* http_parser (clax_http_parser.c).  http_parser hands out a name or a    *)
(* value when it ends, and also when the piece of input it was given does, *)
(* so that either may come in several callbacks.                           *)
(*                                                                         *)
(* A name and a value are sequences of fragments, and a callback brings    *)
(* one or more of them; the value may be empty.  Names that differ in case *)
(* are different names, as they are to strcmp.                             *)
(***************************************************************************)
EXTENDS ClaxKv, Integers

CONSTANTS
  Messages,       \* what may be sent, sequences of headers
  ContentLength,  \* the names the parser looks for, as sequences of fragments
  Expect,
  Continue,       \* the value 100-continue
  atoi(_)         \* the number at the start of a value

Header == [name : Seq(STRING) \ {<< >>}, value : Seq(STRING)]

ASSUME MessagesAssumption == Messages \subseteq Seq(Header)
ASSUME NamesAssumption ==
  ContentLength \in Seq(STRING) /\ Expect \in Seq(STRING) /\ ContentLength # Expect
ASSUME ContinueAssumption == Continue # << >>
ASSUME NumberAssumption ==
  /\ atoi(<< >>) = 0
  /\ \A m \in Messages : \A i \in DOMAIN m :
       \A j \in 1..(Len(m[i].value) + 1), k \in 0..Len(m[i].value) :
         atoi(SubSeq(m[i].value, j, k)) \in Int

VARIABLES
  message,
  part,               \* which of its names and values is next, or under way
  taken,              \* how many fragments of that were handed out
  headers,
  content_length,
  continue_expected,
  whole               \* was every name and value handed out at once (a history)

vars == <<message, part, taken, headers, content_length, continue_expected, whole>>

TypeOK ==
  /\ message \in Messages
  /\ part \in 0..(2 * Len(message)) /\ taken \in Nat
  /\ headers \in Seq([key : Seq(STRING), val : Seq(STRING)])
  /\ content_length \in Int
  /\ continue_expected \in BOOLEAN /\ whole \in BOOLEAN

Init ==
  /\ message \in Messages
  /\ part = 0 /\ taken = 0
  /\ headers = << >>
  /\ content_length = 0
  /\ continue_expected = FALSE
  /\ whole = TRUE

-----------------------------------------------------------------------------
(* http_parser.                                                            *)

\* The header that is next, and what is handed out of it: its name, then its
\* value.
Current == message[part \div 2 + 1]
Text == IF part % 2 = 0 THEN Current.name ELSE Current.value

Piece(n) == SubSeq(Text, taken + 1, taken + n)

\* The next n fragments are handed out.  ends: what ends the text was seen too;
\* otherwise another callback comes, with what is left, be it nothing: the input
\* has ended, or a line, with which a value may go on.
HandsOut(n, ends) ==
  /\ taken + n <= Len(Text)
  /\ ends => taken + n = Len(Text)
  /\ n = 0 => ends \/ part % 2 = 1
  /\ whole' = (whole /\ ends /\ n = Len(Text))
  /\ part' = IF ends THEN part + 1 ELSE part
  /\ taken' = IF ends THEN 0 ELSE taken + n

-----------------------------------------------------------------------------
on_http_parser_header_field(buf) ==
  /\ headers' = clax_kv_list_push(headers, buf, << >>)
  /\ UNCHANGED <<message, content_length, continue_expected>>

\* Variant: a length that is there already is not read again.
value_reads_length_once(buf) ==
  LET key == clax_kv_list_at(headers, Len(headers)).key
  IN  /\ headers' = clax_kv_list_set(headers, key, buf)
      /\ content_length' = IF key = ContentLength /\ content_length = 0 THEN atoi(buf)
                           ELSE content_length
      /\ continue_expected' = (continue_expected \/ (key = Expect /\ buf = Continue))
      /\ UNCHANGED message

\* Variant: every header decides whether a 100 is expected.
value_expects_last(buf) ==
  LET key == clax_kv_list_at(headers, Len(headers)).key
  IN  /\ headers' = clax_kv_list_set(headers, key, buf)
      /\ content_length' = IF key = ContentLength THEN atoi(buf) ELSE content_length
      /\ continue_expected' = (key = Expect /\ buf = Continue)
      /\ UNCHANGED message

\* The value is set by name, not in the item it belongs to.
on_http_parser_header_value(buf) ==
  LET key == clax_kv_list_at(headers, Len(headers)).key
  IN  /\ headers' = clax_kv_list_set(headers, key, buf)
      /\ content_length' = IF key = ContentLength THEN atoi(buf) ELSE content_length
      /\ continue_expected' = (continue_expected \/ (key = Expect /\ buf = Continue))
      /\ UNCHANGED message

Read == part < 2 * Len(message)

Field ==
  /\ Read /\ part % 2 = 0
  /\ \E n \in 0..Len(Text), ends \in BOOLEAN :
       HandsOut(n, ends) /\ on_http_parser_header_field(Piece(n))

Value ==
  /\ Read /\ part % 2 = 1
  /\ \E n \in 0..Len(Text), ends \in BOOLEAN :
       HandsOut(n, ends) /\ on_http_parser_header_value(Piece(n))

Next == Field \/ Value

Spec == Init /\ [][Next]_vars

-----------------------------------------------------------------------------
(* Properties.                                                             *)

Found(k) == clax_kv_list_find(headers, k)

\* The length the body is counted with is the one the list of headers has,
\* however the headers were cut and repeated.
LengthAgrees ==
  content_length = IF Has(headers, ContentLength) THEN atoi(Found(ContentLength)) ELSE 0

Done == part = 2 * Len(message)

\* Of the headers of one name the last is found, unless one was cut.
LastValueFound ==
  whole /\ Done =>
    \A i \in DOMAIN message :
      (\A j \in (i + 1)..Len(message) : message[j].name # message[i].name)
        => Has(headers, message[i].name) /\ Found(message[i].name) = message[i].value

\* A 100 is expected if and only if a header said so, unless one was cut.
ExpectAsSent ==
  whole =>
    (continue_expected <=>
       \E i \in 1..(part \div 2) :
         message[i].name = Expect /\ message[i].value = Continue)
=============================================================================
