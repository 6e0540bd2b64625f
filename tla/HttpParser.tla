----------------------------- MODULE HttpParser -----------------------------
(***************************************************************************)
(* http_parser_execute of contrib/http-parser, for requests: a state       *)
(* machine over the input that calls back with what it finds, whatever     *)
(* buffers the input comes in.                                             *)
(*                                                                         *)
(* The input is a sequence of units: a word that has one role (a method    *)
(* with the space behind it, a version, a part of a name or of a value), a *)
(* character, a line end, or a byte of a body.  Buffers are cut between    *)
(* units.  A step is one round of the loop over the characters; where the  *)
(* code executes a character again the step takes none.  The states are    *)
(* those of the code, but a word is one step where the code has one per    *)
(* letter: of a known header the parser keeps how far the name matches,    *)
(* here it keeps the units of the name.                                    *)
(***************************************************************************)
EXTENDS HttpUrl, TLC

CONSTANTS
  Inputs,                \* what a client may send, sequences of units
  ULLONG_MAX,            \* no length is given; the lengths are below it
  HTTP_MAX_HEADER_SIZE,  \* in units
  MaxBuffers             \* bound: the buffers an input may come in

ASSUME InputsAssumption == Inputs \subseteq Seq(STRING)
ASSUME SizesAssumption ==
  ULLONG_MAX \in Nat /\ ULLONG_MAX > 16 /\ HTTP_MAX_HEADER_SIZE \in Nat /\ MaxBuffers \in Nat

VARIABLES
  input,
  at,       \* how much of it is taken
  left,     \* how much of the buffer at hand is not
  buffers,  \* how many there were
  parser,   \* http_parser
  mark,     \* the text that is being collected: which, and where it began
  event     \* the callback a step makes: which, with what text, and did it succeed

parserVars == <<input, at, left, buffers, parser, mark, event>>

NoMark == [of |-> "none", from |-> 0]
NoEvent == [cb |-> "none", buf |-> << >>, ok |-> TRUE]

http_parser_init ==
  [state |-> "s_start_req", name |-> << >>, header_state |-> "h_general", flags |-> {},
   content_length |-> 0, nread |-> 0, method |-> "", http |-> "", upgrade |-> FALSE,
   exited |-> FALSE, error |-> FALSE]

ParserInit ==
  /\ input \in Inputs
  /\ at = 0 /\ left = 0 /\ buffers = 0
  /\ parser = http_parser_init
  /\ mark = NoMark
  /\ event = NoEvent

-----------------------------------------------------------------------------
(* Units.                                                                  *)

Methods == {"GET ", "POST ", "CONNECT "}
Versions == {"HTTP/1.0", "HTTP/1.1"}
LineEnds == {"CR", "LF"}

ch == input[at + 1]

\* What ends a name; a name is made of the others.
Separators == LineEnds \cup {" ", ":", ",", "/", "?"}
IsToken(u) == u \notin Separators

LowerCase(u) ==
  CASE u = "Content-" -> "content-" [] u = "Length" -> "length"
    [] u = "Transfer-Encoding" -> "transfer-encoding" [] u = "Connection" -> "connection"
    [] u = "Upgrade" -> "upgrade" [] OTHER -> u

KnownNames ==
  (<<"content-", "length">> :> "h_content_length")
    @@ (<<"transfer-encoding">> :> "h_transfer_encoding")
    @@ (<<"connection">> :> "h_connection") @@ (<<"proxy-connection">> :> "h_connection")
    @@ (<<"upgrade">> :> "h_upgrade")

\* Is a name one of those the parser acts on?
HeaderState(name) ==
  LET n == [i \in DOMAIN name |-> LowerCase(name[i])]
  IN  IF n \in DOMAIN KnownNames THEN KnownNames[n] ELSE "h_general"

ConnectionWords ==
  [u \in {"keep-alive", "close", "upgrade"} |->
     CASE u = "keep-alive" -> "h_connection_keep_alive"
       [] u = "close" -> "h_connection_close"
       [] u = "upgrade" -> "h_connection_upgrade"]

ConnectionWord(u) ==
  IF LowerCase(u) \in DOMAIN ConnectionWords THEN ConnectionWords[LowerCase(u)]
  ELSE "h_matching_connection_token"

Found == {ConnectionWords[u] : u \in DOMAIN ConnectionWords}

\* Variant: a word that is none of those looked for changes nothing.
value_first_keeps_state(h, u) ==
  CASE h = "h_connection" /\ LowerCase(u) \in DOMAIN ConnectionWords -> ConnectionWord(u)
    [] h = "h_transfer_encoding" /\ LowerCase(u) = "chunked" -> "h_transfer_encoding_chunked"
    [] OTHER -> h

\* The first unit of a value, and the ones after it.
ValueFirst(h, u) ==
  CASE h = "h_content_length" -> h
    [] h = "h_transfer_encoding" ->
         IF LowerCase(u) = "chunked" THEN "h_transfer_encoding_chunked" ELSE "h_general"
    [] h = "h_connection" -> ConnectionWord(u)
    [] h = "h_matching_connection_token_start" -> h
    [] OTHER -> "h_general"

ValueNext(h, u) ==
  CASE u = " " \/ h \in {"h_general", "h_content_length"} -> h
    [] u # " " /\ h \in Found \cup {"h_matching_connection_token"} ->
         IF u = "," THEN "h_matching_connection_token_start" ELSE "h_matching_connection_token"
    [] u # " " /\ h = "h_matching_connection_token_start" ->
         IF IsToken(u) THEN ConnectionWord(u) ELSE "h_general"
    [] OTHER -> "h_general"

\* What has been found is noted at a comma, or at the end of the header.
Flag ==
  [h \in Found \cup {"h_transfer_encoding_chunked"} |->
     CASE h = "h_connection_keep_alive" -> {"F_CONNECTION_KEEP_ALIVE"}
       [] h = "h_connection_close" -> {"F_CONNECTION_CLOSE"}
       [] h = "h_connection_upgrade" -> {"F_CONNECTION_UPGRADE"}
       [] h = "h_transfer_encoding_chunked" -> {"F_CHUNKED"}]

Flagged(p) ==
  IF p.header_state \in DOMAIN Flag THEN [p EXCEPT !.flags = @ \cup Flag[p.header_state]] ELSE p

\* Variant: the test leaves no room.
fits_exactly(n, base) == n <= ULLONG_MAX \div base

\* A number is read digit by digit; more than fits is an error.  The test leaves
\* some room.
Fits(n, base) == n <= (ULLONG_MAX - base) \div base
WithDigit(n, base, u) == (n * base + HexValue[u]) % (ULLONG_MAX + 1)

-----------------------------------------------------------------------------
(* What a step can do.                                                     *)

InServer == {"s_req_server", "s_req_server_with_at"}
NoSpace == {"s_req_schema", "s_req_schema_slash", "s_req_schema_slash_slash", "s_req_server_start"}
InUrl == InServer \cup {"s_req_path", "s_req_query_string_start", "s_req_query_string",
                        "s_req_fragment_start", "s_req_fragment"}

\* The states that wait for the second character of a line end.
AlmostDone == {"s_req_line_almost_done", "s_header_almost_done",
               "s_header_value_discard_ws_almost_done", "s_headers_almost_done",
               "s_headers_done", "s_chunk_size_almost_done", "s_chunk_data_done"}

\* Outside of these a unit counts as one of a header.
Body == {"s_body_identity", "s_chunk_data", "s_chunk_data_almost_done", "s_chunk_data_done",
         "s_message_done"}

Counting == parser.state \notin Body
counted == IF Counting THEN [parser EXCEPT !.nread = @ + 1] ELSE parser

Running == left > 0 /\ ~parser.error /\ ~parser.exited
Overflows == Counting /\ counted.nread > HTTP_MAX_HEADER_SIZE

\* There is a unit for the state s.
On(s) == Running /\ ~Overflows /\ parser.state = s

To(s) == [counted EXCEPT !.state = s]

Take(n) == at' = at + n /\ left' = left - n /\ UNCHANGED <<input, buffers>>

\* The unit is looked at again, which does not count.
Again == UNCHANGED <<input, at, left, buffers>>

Quietly(p) == parser' = p /\ event' = NoEvent

\* The parser is p when it calls back; it stops when the callback fails.
Calls(cb, buf, p) ==
  \E ok \in BOOLEAN :
    /\ event' = [cb |-> cb, buf |-> buf, ok |-> ok]
    /\ parser' = [p EXCEPT !.error = @ \/ ~ok]

Notifies(cb, p) == Calls(cb, << >>, p) /\ UNCHANGED mark

MarkAt(of) == mark' = IF mark.of = of THEN mark ELSE [of |-> of, from |-> at]

\* What was marked is handed out, up to a place.
HandsOut(to, p) ==
  /\ IF mark.of = "none" THEN Quietly(p) ELSE Calls(mark.of, SubSeq(input, mark.from + 1, to), p)
  /\ mark' = NoMark

Stops == Again /\ Quietly([parser EXCEPT !.error = TRUE]) /\ UNCHANGED mark

-----------------------------------------------------------------------------
(* The request line.                                                       *)

UrlStateFrom(s, u) ==
  parse_url_char(IF s = "s_req_spaces_before_url" /\ parser.method = "CONNECT "
                 THEN "s_req_server_start" ELSE s, u)

\* Does the state s know what to do with u?  The others find out on their way.
Expected(s, u) ==
  CASE s = "s_dead" -> u \in LineEnds
    [] s = "s_start_req" -> u \in LineEnds \cup Methods
    [] s \in NoSpace -> UrlStateFrom(s, u) # "s_dead"
    [] s = "s_req_spaces_before_url" -> u = " " \/ UrlStateFrom(s, u) # "s_dead"
    [] s \in InUrl -> u \in {" "} \cup LineEnds \/ UrlStateFrom(s, u) # "s_dead"
    [] s = "s_req_http_start" -> u \in {" "} \cup Versions
    [] s = "s_req_http_minor" -> u \in LineEnds
    [] s \in AlmostDone -> u = "LF"
    [] s = "s_header_field_start" -> u \in LineEnds \/ IsToken(u)
    [] s = "s_chunk_size_start" -> u \in Hex
    [] s = "s_chunk_size" -> u \in Hex \cup {"CR", ";", " "}
    [] s = "s_chunk_data_almost_done" -> u = "CR"
    [] OTHER -> TRUE

Unexpected == Running /\ (Overflows \/ ~Expected(parser.state, ch)) /\ Stops

BetweenMessages ==
  /\ On("s_dead") \/ On("s_start_req")
  /\ ch \in LineEnds
  /\ Take(1) /\ Quietly(counted) /\ UNCHANGED mark

Method ==
  /\ On("s_start_req")
  /\ ch \in Methods
  /\ Take(1)
  /\ Quietly([To("s_req_spaces_before_url") EXCEPT
                !.method = ch, !.flags = {}, !.content_length = ULLONG_MAX])
  /\ UNCHANGED mark

Blanks ==
  /\ On("s_req_spaces_before_url") \/ On("s_req_http_start") \/ On("s_header_value_discard_ws")
  /\ ch = " "
  /\ Take(1) /\ Quietly(counted) /\ UNCHANGED mark

\* MARK is repeated for every character, here and in the state before, and keeps
\* the first.
Url ==
  /\ \E s \in {"s_req_spaces_before_url"} \cup NoSpace \cup InUrl :
       On(s) /\ UrlStateFrom(s, ch) # "s_dead"
  /\ Take(1)
  /\ Quietly(To(UrlStateFrom(parser.state, ch)))
  /\ MarkAt("url")

UrlEnd ==
  /\ \E s \in InUrl : On(s)
  /\ ch \in {" "} \cup LineEnds
  /\ Take(1)
  /\ HandsOut(at, CASE ch = " " -> To("s_req_http_start")
                    [] ch = "CR" -> [To("s_req_line_almost_done") EXCEPT !.http = "HTTP/0.9"]
                    [] OTHER -> [To("s_header_field_start") EXCEPT !.http = "HTTP/0.9"])

Version ==
  /\ On("s_req_http_start")
  /\ ch \in Versions
  /\ Take(1) /\ Quietly([To("s_req_http_minor") EXCEPT !.http = ch]) /\ UNCHANGED mark

\* A line ends in CR and LF, or in LF alone.
VersionEnd ==
  /\ On("s_req_http_minor")
  /\ ch \in LineEnds
  /\ Take(1)
  /\ Quietly(To(IF ch = "CR" THEN "s_req_line_almost_done" ELSE "s_header_field_start"))
  /\ UNCHANGED mark

LineEnd ==
  /\ left > 0 /\ ch = "LF"
  /\ Take(1)
  /\ \/ On("s_req_line_almost_done") /\ Quietly(To("s_header_field_start"))
     \/ On("s_header_almost_done") /\ Quietly(To("s_header_value_lws"))
     \/ On("s_header_value_discard_ws_almost_done") /\ Quietly(To("s_header_value_discard_lws"))
  /\ UNCHANGED mark

-----------------------------------------------------------------------------
(* Headers.  A name or a value is taken up to its end or that of the       *)
(* buffer.                                                                 *)

\* How many units of the buffer come before the first of these.
Before(stops) ==
  CHOOSE n \in 0..left :
    (\A i \in 1..n : input[at + i] \notin stops) /\ (n < left => input[at + n + 1] \in stops)

\* The next n units, and the one after them.
These(n) == SubSeq(input, at + 1, at + n)
After(n) == input[at + n + 1]
TooMany(p) == p.nread > HTTP_MAX_HEADER_SIZE

\* More than is allowed was taken; no callback is made of it.
TakesTooMany(n, p) == Take(n) /\ Quietly([p EXCEPT !.error = TRUE]) /\ mark' = NoMark

HeadersEnd ==
  /\ On("s_header_field_start")
  /\ \/ ch = "CR" /\ Take(1) /\ Quietly(To("s_headers_almost_done"))
     \/ ch = "LF" /\ Again /\ Quietly([parser EXCEPT !.state = "s_headers_almost_done"])
  /\ UNCHANGED mark

NameStart ==
  /\ On("s_header_field_start")
  /\ IsToken(ch)
  /\ Take(1)
  /\ Quietly([To("s_header_field") EXCEPT !.name = <<ch>>])
  /\ MarkAt("header_field")

\* p has taken the n units that belong to a name.
NameTaken(n, p) ==
  \/ TooMany(p) /\ TakesTooMany(n, p)
  \/ ~TooMany(p) /\ n = left /\ Take(n) /\ Quietly(p) /\ UNCHANGED mark
  \/ /\ ~TooMany(p) /\ n < left /\ After(n) = ":"
     /\ Take(n + 1)
     /\ HandsOut(at + n, [p EXCEPT !.state = "s_header_value_discard_ws", !.name = << >>,
                                   !.header_state = HeaderState(p.name)])
  \/ ~TooMany(p) /\ n < left /\ After(n) # ":" /\ Stops

\* What is taken in one go is counted after the first unit, which was counted.
Name ==
  /\ On("s_header_field")
  /\ LET n == Before(Separators)
     IN  NameTaken(n, [counted EXCEPT !.nread = @ + n, !.name = @ \o These(n)])

ValueStart ==
  /\ \/ On("s_header_value_discard_ws") /\ ch \notin {" "} \cup LineEnds
     \/ On("s_header_value_start")
  /\ \/ parser.header_state = "h_content_length" /\ ch \notin Num /\ Stops
     \/ /\ parser.header_state = "h_content_length" => ch \in Num
        /\ Take(1)
        /\ Quietly([To("s_header_value") EXCEPT
              !.header_state = ValueFirst(@, ch),
              !.flags = IF parser.header_state = "h_upgrade" THEN @ \cup {"F_UPGRADE"} ELSE @,
              !.content_length = IF parser.header_state = "h_content_length" THEN HexValue[ch] ELSE @])
        /\ MarkAt("header_value")

BadDigit(p, u) == u \notin Num \/ ~Fits(p.content_length, 10)

\* One more unit of a value.
ValueUnit(p, u) ==
  CASE p.error -> p
    [] ~p.error /\ p.header_state = "h_content_length" /\ u # " " ->
         IF BadDigit(p, u) THEN [p EXCEPT !.error = TRUE]
         ELSE [p EXCEPT !.content_length = WithDigit(@, 10, u)]
    [] OTHER ->
         [IF u = "," /\ p.header_state \in Found THEN Flagged(p) ELSE p
            EXCEPT !.header_state = ValueNext(@, u)]

\* p has taken the n units that belong to a value.
ValueTaken(n, p) ==
  \/ p.error /\ Stops
  \/ ~p.error /\ n = left /\ TooMany(p) /\ TakesTooMany(n, p)
  \/ ~p.error /\ n = left /\ ~TooMany(p) /\ Take(n) /\ Quietly(p) /\ UNCHANGED mark
  \/ /\ ~p.error /\ n < left /\ After(n) = "CR"
     /\ Take(IF TooMany(p) THEN n ELSE n + 1)
     /\ HandsOut(at + n, [p EXCEPT !.state = "s_header_almost_done", !.error = TooMany(p)])
  \/ ~p.error /\ n < left /\ After(n) = "LF" /\ TooMany(p) /\ TakesTooMany(n, p)
  \/ /\ ~p.error /\ n < left /\ After(n) = "LF" /\ ~TooMany(p)
     /\ Take(n)
     /\ HandsOut(at + n, [p EXCEPT !.state = "s_header_almost_done", !.nread = @ - 1])

Value ==
  /\ On("s_header_value")
  /\ LET n == Before(LineEnds)
     IN  ValueTaken(n, FoldLeft(ValueUnit, [counted EXCEPT !.nread = @ + n], These(n)))

\* A line that begins with a blank goes on with the value before it.
NextLine ==
  /\ On("s_header_value_lws")
  /\ Again
  /\ \/ ch = " " /\ Quietly([parser EXCEPT !.state = "s_header_value_start"])
     \/ ch # " " /\ Quietly([Flagged(parser) EXCEPT !.state = "s_header_field_start"])
  /\ UNCHANGED mark

NoValueYet ==
  /\ On("s_header_value_discard_ws")
  /\ ch \in LineEnds
  /\ Take(1)
  /\ Quietly(To(IF ch = "CR" THEN "s_header_value_discard_ws_almost_done"
                ELSE "s_header_value_discard_lws"))
  /\ UNCHANGED mark

\* A value that is on the next line, or empty.
NoValue ==
  /\ On("s_header_value_discard_lws")
  /\ \/ ch = " " /\ Take(1) /\ Quietly(To("s_header_value_discard_ws"))
     \/ /\ ch # " "
        /\ Again
        /\ Calls("header_value", << >>, [Flagged(parser) EXCEPT !.state = "s_header_field_start"])
  /\ UNCHANGED mark

\* The headers of a request, or those behind its last chunk.
HeadersAlmostDone ==
  /\ On("s_headers_almost_done")
  /\ ch = "LF"
  /\ Again
  /\ \/ "F_TRAILING" \in parser.flags /\ Quietly(To("s_message_done")) /\ UNCHANGED mark
     \/ /\ "F_TRAILING" \notin parser.flags
        /\ Notifies("headers_complete",
             [parser EXCEPT !.state = "s_headers_done",
                            !.upgrade = \/ {"F_UPGRADE", "F_CONNECTION_UPGRADE"} \subseteq parser.flags
                                        \/ parser.method = "CONNECT "])

-----------------------------------------------------------------------------
(* The body.                                                               *)

\* Variant: the version does not matter.
keep_alive_if_asked == "F_CONNECTION_KEEP_ALIVE" \in parser.flags

http_should_keep_alive ==
  IF parser.http = "HTTP/1.1" THEN "F_CONNECTION_CLOSE" \notin parser.flags
  ELSE "F_CONNECTION_KEEP_ALIVE" \in parser.flags

\* A request ends without waiting for the end of the input.
NewMessage == IF http_should_keep_alive THEN "s_start_req" ELSE "s_dead"

NoLength == parser.content_length \in {0, ULLONG_MAX}

\* Where there is another protocol behind the headers the parser returns at once.
HeadersDone ==
  /\ On("s_headers_done")
  /\ ch = "LF"
  /\ Take(1)
  /\ LET p == [parser EXCEPT !.nread = 0]
         chunked == "F_CHUNKED" \in p.flags
         over == p.upgrade /\ (p.method = "CONNECT " \/ (~chunked /\ NoLength))
     IN  \/ /\ over \/ (~chunked /\ NoLength)
            /\ Notifies("message_complete", [p EXCEPT !.state = NewMessage, !.exited = over])
         \/ /\ ~over /\ (chunked \/ ~NoLength)
            /\ Quietly([p EXCEPT !.state = IF chunked THEN "s_chunk_size_start" ELSE "s_body_identity"])
            /\ UNCHANGED mark

ToRead == IF parser.content_length < left THEN parser.content_length ELSE left

\* The last byte is looked at again, for the end of the message.
BodyIdentity ==
  /\ On("s_body_identity")
  /\ LET p == [parser EXCEPT !.content_length = @ - ToRead]
     IN  \/ /\ p.content_length = 0
            /\ Take(ToRead - 1)
            /\ Calls("body", These(ToRead), [p EXCEPT !.state = "s_message_done"])
            /\ UNCHANGED mark
         \/ p.content_length > 0 /\ Take(ToRead) /\ Quietly(p) /\ MarkAt("body")

MessageDone ==
  /\ On("s_message_done")
  /\ Take(1)
  /\ Notifies("message_complete", [parser EXCEPT !.state = NewMessage, !.exited = parser.upgrade])

ChunkSize ==
  /\ Take(1)
  /\ \/ /\ On("s_chunk_size_start") /\ ch \in Hex
        /\ Quietly([To("s_chunk_size") EXCEPT !.content_length = HexValue[ch]])
     \/ /\ On("s_chunk_size") /\ ch \in Hex /\ Fits(parser.content_length, 16)
        /\ Quietly([counted EXCEPT !.content_length = WithDigit(@, 16, ch)])
     \/ On("s_chunk_size") /\ ch \in {";", " "} /\ Quietly(To("s_chunk_parameters"))
     \/ On("s_chunk_parameters") /\ ch # "CR" /\ Quietly(counted)
     \/ /\ On("s_chunk_size") \/ On("s_chunk_parameters")
        /\ ch = "CR"
        /\ Quietly(To("s_chunk_size_almost_done"))
  /\ UNCHANGED mark

ChunkTooLong ==
  On("s_chunk_size") /\ ch \in Hex /\ ~Fits(parser.content_length, 16) /\ Stops

ChunkSizeAlmostDone ==
  /\ On("s_chunk_size_almost_done")
  /\ ch = "LF"
  /\ Take(1)
  /\ LET p == [parser EXCEPT !.nread = 0]
     IN  Quietly(IF p.content_length = 0
                 THEN [p EXCEPT !.flags = @ \cup {"F_TRAILING"}, !.state = "s_header_field_start"]
                 ELSE [p EXCEPT !.state = "s_chunk_data"])
  /\ UNCHANGED mark

ChunkData ==
  /\ On("s_chunk_data")
  /\ Take(ToRead)
  /\ LET p == [parser EXCEPT !.content_length = @ - ToRead]
     IN  Quietly(IF p.content_length = 0 THEN [p EXCEPT !.state = "s_chunk_data_almost_done"] ELSE p)
  /\ MarkAt("body")

ChunkDataAlmostDone ==
  /\ On("s_chunk_data_almost_done")
  /\ ch = "CR"
  /\ Take(1)
  /\ HandsOut(at, To("s_chunk_data_done"))

ChunkDataDone ==
  /\ On("s_chunk_data_done")
  /\ ch = "LF"
  /\ Take(1)
  /\ Quietly([parser EXCEPT !.nread = 0, !.state = "s_chunk_size_start"])
  /\ UNCHANGED mark

-----------------------------------------------------------------------------
(* Buffers.                                                                *)

\* Variant: a value that goes on in this buffer is not marked.
marked_at_start_but_values ==
  CASE parser.state = "s_header_field" -> [of |-> "header_field", from |-> at]
    [] parser.state \in NoSpace \cup InUrl -> [of |-> "url", from |-> at]
    [] OTHER -> NoMark

\* A text that goes on in this buffer is marked at its start.
MarkedAtStart ==
  CASE parser.state = "s_header_field" -> [of |-> "header_field", from |-> at]
    [] parser.state = "s_header_value" -> [of |-> "header_value", from |-> at]
    [] parser.state \in NoSpace \cup InUrl -> [of |-> "url", from |-> at]
    [] OTHER -> NoMark

BufferStart ==
  /\ left = 0 /\ mark = NoMark
  /\ at < Len(input) /\ buffers < MaxBuffers
  /\ \E n \in 1..(Len(input) - at) :
       /\ buffers + 1 = MaxBuffers => n = Len(input) - at
       /\ left' = n
  /\ buffers' = buffers + 1
  /\ mark' = MarkedAtStart
  /\ Quietly([parser EXCEPT !.exited = FALSE])
  /\ UNCHANGED <<input, at>>

\* What is marked at the end of a buffer is handed out as far as it goes.
BufferEnd ==
  /\ left = 0 /\ mark # NoMark /\ ~parser.error
  /\ HandsOut(at, parser)
  /\ Again

RequestLine ==
  BetweenMessages \/ Method \/ Blanks \/ Url \/ UrlEnd \/ Version \/ VersionEnd \/ LineEnd

HeaderStep ==
  \/ HeadersEnd \/ NameStart \/ Name \/ ValueStart \/ Value \/ NextLine
  \/ NoValueYet \/ NoValue \/ HeadersAlmostDone

BodyStep ==
  \/ HeadersDone \/ BodyIdentity \/ MessageDone
  \/ ChunkSize \/ ChunkTooLong \/ ChunkSizeAlmostDone
  \/ ChunkData \/ ChunkDataAlmostDone \/ ChunkDataDone

http_parser_execute == BufferEnd \/ Unexpected \/ RequestLine \/ HeaderStep \/ BodyStep
=============================================================================
