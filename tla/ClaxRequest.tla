----------------------------- MODULE ClaxRequest ----------------------------
(***************************************************************************)
(* The callbacks of clax_http_parser.c on top of http_parser: what becomes *)
(* of the messages of a connection on their way through the buffers they   *)
(* are read in, up to the call that dispatches them.  HttpParser leaves    *)
(* open whether a callback succeeds; here the callbacks decide.            *)
(*                                                                         *)
(* A message is kept as its parts, and the input is their units.  rest is  *)
(* what the client sends after its messages, or instead of one: no more    *)
(* messages, as far as the parser is concerned, but more headers maybe.    *)
(*                                                                         *)
(* A buffer that ends exactly behind a URL is followed by a call of on_url *)
(* with no text: place and length of the path are then what the memory     *)
(* held.  Some text is taken for the path (Leftovers), or the copy is out  *)
(* of bounds and nothing follows.  A URL that was sent fits the 2048 bytes *)
(* there are for one.                                                      *)
(***************************************************************************)
EXTENDS HttpParser, ClaxHttpUtil

CONSTANTS
  Talks,    \* what clients say: messages, and what follows them
  Writes,   \* how a write to the temporary file may end: "ok", "short", "failed"
  Leftovers,  \* the texts that a place and a length nobody set may stand for
  ContentLength, ContentType, Expect,  \* names, as sequences of units
  Form, Continue,                      \* values
  atoi(_)

ASSUME WritesAssumption == Writes \subseteq {"ok", "short", "failed"}
ASSUME LeftoversAssumption == Leftovers # {}

VARIABLES
  talk,
  request,     \* clax_http_request_t
  closing,     \* closes of the temporary file that are under way
  dispatched,  \* the calls of done_cb, with the request as it was then
  conn,        \* "open", "closed" because of a buffer, or "undefined"
  seen         \* history: what was cut, what was announced, which headers were handed out

vars == <<parserVars, talk, request, closing, dispatched, conn, seen>>

EOL == <<"CR", "LF">>

Lines(headers) ==
  FlattenSeq([i \in DOMAIN headers |-> headers[i].name \o <<":", " ">> \o headers[i].value \o EOL])

Chunk(text) == <<ToString(Len(text))>> \o EOL \o text \o EOL

\* A message as it is sent; chunks is empty when it has a length, or no body.
Units(m) ==
  <<m.method>> \o m.url \o <<" ", m.version>> \o EOL \o Lines(m.headers) \o EOL \o m.body
    \o (IF m.chunks = << >> THEN << >>
        ELSE FlattenSeq([i \in DOMAIN m.chunks |-> Chunk(m.chunks[i])])
               \o <<"0">> \o EOL \o Lines(m.trailers) \o EOL)

Sent(t) == FlattenSeq([i \in DOMAIN t.messages |-> Units(t.messages[i])]) \o t.rest

clax_http_request_init ==
  [path_info |-> << >>, query_params |-> << >>, headers |-> << >>, content_length |-> 0,
   continue_expected |-> FALSE, method |-> "", body |-> << >>, body_params |-> << >>,
   body_tmpfile |-> FALSE, to_read |-> 0, stored |-> 0]

\* part and taken: which name or value of the headers is next, and how much of it
\* was handed out.
NothingSeen ==
  [cut |-> {}, failed |-> FALSE, completed |-> 0, length |-> 0, agreed |-> TRUE,
   part |-> 0, taken |-> 0, whole |-> TRUE]

Init ==
  /\ ParserInit
  /\ talk \in Talks
  /\ input = Sent(talk)
  /\ request = clax_http_request_init
  /\ closing = 0
  /\ dispatched = << >>
  /\ conn = "open"
  /\ seen = NothingSeen

-----------------------------------------------------------------------------
(* The callbacks.                                                          *)

Find(r, k) == IF Has(r.headers, k) THEN clax_kv_list_find(r.headers, k) ELSE << >>

on_http_parser_header_field(r, buf) ==
  [r EXCEPT !.headers = clax_kv_list_push(@, buf, << >>)]

on_http_parser_header_value(r, buf) ==
  LET key == clax_kv_list_at(r.headers, Len(r.headers)).key
  IN  [r EXCEPT !.headers = clax_kv_list_set(@, key, buf),
                !.content_length = IF key = ContentLength THEN atoi(buf) ELSE @,
                !.continue_expected = @ \/ (key = Expect /\ buf = Continue)]

\* A URL is taken for a whole one, and replaces the one before.
WithUrl(r, u) ==
  [r EXCEPT !.path_info = u.path_info, !.query_params = @ \o u.query_params]

IsForm(r) == Find(r, ContentType) = Form

\* Variant: only the last piece of a form is kept.
form_body_last(r, buf) == [r EXCEPT !.body = buf]

FormBody(r, buf) == [r EXCEPT !.body = @ \o buf]

\* Variant: every piece sets the count.
file_body_counts_anew(r, n) ==
  [r EXCEPT !.body_tmpfile = TRUE, !.to_read = r.content_length - n, !.stored = @ + n]

\* The first piece opens the temporary file; every piece is written at once.
FileBody(r, n) ==
  LET o == IF r.body_tmpfile THEN r
           ELSE [r EXCEPT !.body_tmpfile = TRUE, !.to_read = r.content_length]
  IN  [o EXCEPT !.to_read = @ - n, !.stored = @ + n]

on_http_parser_message_complete(r) ==
  IF IsForm(r)
  THEN [r EXCEPT !.body_params = clax_http_parse_urlencoded(@, r.body, 0)]
  ELSE r

-----------------------------------------------------------------------------
(* One step of the parser, with the callback it makes.                     *)

Keep == UNCHANGED <<request, closing, dispatched>>

\* A URL without a path, an empty one too: neither its place nor its length is set.
PathUnset(buf) == on_http_parser_url(buf, 0).status = "undefined"

UrlOutcomes(buf) ==
  IF PathUnset(buf)
  THEN {UrlWith(clax_http_url_decode(t, 0), http_parser_parse_url(buf).field.query, 0) :
          t \in Leftovers}
  ELSE {on_http_parser_url(buf, 0)}

OnUrl ==
  /\ event'.cb = "url"
  /\ \E u \in UrlOutcomes(event'.buf) :
       \/ u.status = "refused" /\ ~event'.ok /\ Keep
       \/ /\ u.status = "ok" /\ event'.ok
          /\ request' = WithUrl(request, u)
          /\ UNCHANGED <<closing, dispatched>>

OnHeader ==
  /\ event'.ok
  /\ \/ /\ event'.cb = "header_field"
        /\ request' = on_http_parser_header_field(request, event'.buf)
     \/ /\ event'.cb = "header_value"
        /\ request' = on_http_parser_header_value(request, event'.buf)
     \/ /\ event'.cb = "headers_complete"
        /\ request' = [request EXCEPT !.method = parser.method]
  /\ UNCHANGED <<closing, dispatched>>

OnFormBody ==
  /\ event'.cb = "body" /\ event'.ok
  /\ IsForm(request)
  /\ request' = FormBody(request, event'.buf)
  /\ UNCHANGED <<closing, dispatched>>

\* The file is closed whenever the count is down to zero, or below.
Closes(r) == IF r.to_read <= 0 THEN closing + 1 ELSE closing

\* A write that fails makes the callback fail; a short one does not, and what is
\* left of the piece is lost.
OnFileBody ==
  /\ event'.cb = "body"
  /\ ~IsForm(request)
  /\ \E w \in Writes :
       /\ event'.ok <=> w # "failed"
       /\ LET r == FileBody(request, IF w = "ok" THEN Len(event'.buf) ELSE 0)
          IN  /\ request' = r
              /\ closing' = IF w = "failed" THEN closing ELSE Closes(r)
  /\ UNCHANGED dispatched

OnMessageComplete ==
  /\ event'.cb = "message_complete" /\ event'.ok
  /\ LET r == on_http_parser_message_complete(request)
     IN  /\ request' = r
         /\ dispatched' = IF r.body_tmpfile THEN dispatched ELSE Append(dispatched, r)
  /\ UNCHANGED closing

clax_http_parse ==
  /\ http_parser_execute
  /\ \/ event' = NoEvent /\ Keep
     \/ OnUrl
     \/ OnHeader
     \/ OnFormBody
     \/ OnFileBody
     \/ OnMessageComplete

-----------------------------------------------------------------------------
(* Histories.                                                              *)

\* The text ends with this callback: it is not cut by the end of a buffer, and no
\* line goes on with it.
TextEnds ==
  /\ left > 0
  /\ ~(at' + 1 < Len(input) /\ input[at' + 1] = "LF" /\ input[at' + 2] = " ")

Noted ==
  LET s == IF left = 0 THEN [seen EXCEPT !.cut = @ \cup {mark.of}] ELSE seen
      chunked == "F_CHUNKED" \in parser.flags
      length == IF chunked \/ parser.content_length = ULLONG_MAX THEN 0 ELSE parser.content_length
  IN  CASE event'.cb \in {"header_field", "header_value"} ->
             [s EXCEPT !.part = IF TextEnds THEN @ + 1 ELSE @,
                       !.whole = @ /\ TextEnds /\ seen.taken = 0,
                       !.taken = IF TextEnds THEN 0 ELSE @ + Len(event'.buf)]
        [] event'.cb = "headers_complete" ->
             [s EXCEPT !.length = length, !.agreed = ~chunked /\ request.content_length = length]
        [] event'.cb = "body" ->
             [s EXCEPT !.failed = @ \/ (~IsForm(request)
                                        /\ request'.stored # request.stored + Len(event'.buf))]
        [] event'.cb = "message_complete" -> [s EXCEPT !.completed = @ + 1]
        [] OTHER -> s

-----------------------------------------------------------------------------
\* A buffer that is not parsed to its end closes the connection.  With a path that
\* is not set, the copy may have been out of bounds.
Parse ==
  /\ conn = "open"
  /\ clax_http_parse
  /\ \/ conn' = IF left' > 0 /\ (parser'.error \/ parser'.exited) THEN "closed" ELSE "open"
     \/ event'.cb = "url" /\ PathUnset(event'.buf) /\ conn' = "undefined"
  /\ seen' = Noted
  /\ UNCHANGED talk

\* The parser takes nothing once there was an error.
ReadBuffer ==
  /\ conn = "open"
  /\ BufferStart
  /\ conn' = IF parser.error THEN "closed" ELSE "open"
  /\ UNCHANGED <<talk, request, closing, dispatched, seen>>

\* It has to wait for the end of the buffer that is being parsed.
clax_http_request_body_closed_cb ==
  /\ conn = "open" /\ left = 0 /\ mark = NoMark
  /\ closing > 0
  /\ closing' = closing - 1
  /\ dispatched' = Append(dispatched, request)
  /\ UNCHANGED <<parserVars, talk, request, conn, seen>>

Next == Parse \/ ReadBuffer \/ clax_http_request_body_closed_cb

Spec == Init /\ [][Next]_vars

-----------------------------------------------------------------------------
(* Properties.                                                             *)

\* Where the messages of the input end.
Ends ==
  [t \in Talks |->
    {Len(Sent([t EXCEPT !.messages = SubSeq(t.messages, 1, i), !.rest = << >>])) :
       i \in DOMAIN t.messages}]

\* A message is complete when the last unit of it is taken, and at no other time,
\* wherever the buffers were cut (http_parser_execute), also behind a URL, unless that
\* left the connection undefined.
Framed == ~parser.error /\ conn # "undefined" => seen.completed = Cardinality({e \in Ends[talk] : e <= at})

\* Of messages in good order none is refused, unless a URL was cut in two or a
\* write failed (clax_http_parse).
Accepted == talk.rest = << >> /\ conn = "closed" => "url" \in seen.cut \/ seen.failed

\* No second request has begun: the request of a connection is not set back for one.
FirstOnly ==
  \/ seen.completed = 0
  \/ seen.completed = 1 /\ parser.state \in {"s_start_req", "s_dead"}

\* When clax and the parser agree on the length of a body, the whole of it is in
\* the temporary file before the request is dispatched, which then happens once,
\* and does happen (on_http_parser_body, clax_http_request_body_written_cb).
StoredWhole ==
  FirstOnly /\ seen.agreed /\ request.body_tmpfile =>
    /\ \A i \in DOMAIN dispatched : dispatched[i].stored = seen.length
    /\ Len(dispatched) + closing <= IF seen.failed THEN 0 ELSE 1
    /\ seen.completed = 1 /\ ~seen.failed => Len(dispatched) + closing = 1

\* d is the request m with the URL u.  Parameters are collected: those of the
\* first request stay.
IsAsSent(d, m, u, i) ==
  /\ d.path_info = u.path_info
  /\ i = 1 => d.query_params = u.query_params
  /\ i = 1 /\ IsForm(d) => d.body_params = clax_http_parse_urlencoded(<< >>, m.body, 0)

\* A request that is dispatched is the one that was sent: its path, its parameters
\* and those of its form, unless a URL or a header was cut in two, or its URL had no
\* path.  A form may be cut.
DispatchedAsSent ==
  \A i \in DOMAIN dispatched :
    i <= Len(talk.messages) /\ seen.cut \subseteq {"body"} /\ ~PathUnset(talk.messages[i].url) =>
      IsAsSent(dispatched[i], talk.messages[i], on_http_parser_url(talk.messages[i].url, 0), i)

\* The assertions of http_parser.c.
AssertsHold ==
  /\ parser.state = "s_header_value" =>
       parser.header_state \notin {"h_connection", "h_transfer_encoding"}
  /\ parser.state \in {"s_body_identity", "s_chunk_data"} =>
       parser.content_length \notin {0, ULLONG_MAX}
  /\ parser.state \in {"s_chunk_size_start", "s_chunk_size", "s_chunk_parameters",
                       "s_chunk_size_almost_done", "s_chunk_data", "s_chunk_data_almost_done",
                       "s_chunk_data_done"} => "F_CHUNKED" \in parser.flags
  /\ parser.state = "s_chunk_data_almost_done" => parser.content_length = 0
  /\ parser.state = "s_chunk_size_start" => parser.nread = 0

-----------------------------------------------------------------------------
(* What ClaxHeaders takes for granted of http_parser is what http_parser   *)
(* does: the names and values of all headers, in order, cut at the ends of *)
(* buffers and folds only.                                                 *)

\* A value without its line ends.
Text(v) == SelectSeq(v, LAMBDA u : u \notin LineEnds)

HeadersOf(t) ==
  LET hs == FlattenSeq([i \in DOMAIN t.messages |->
                          t.messages[i].headers \o t.messages[i].trailers]) \o t.more
  IN  [j \in DOMAIN hs |-> [name |-> hs[j].name, value |-> Text(hs[j].value)]]

AllHeaders == [t \in Talks |-> HeadersOf(t)]

H == INSTANCE ClaxHeaders WITH
  Messages <- {AllHeaders[t] : t \in Talks},
  message <- AllHeaders[talk], part <- seen.part, taken <- seen.taken,
  headers <- request.headers, content_length <- request.content_length,
  continue_expected <- request.continue_expected, whole <- seen.whole

\* The headers of the requests are put together as ClaxHeaders says.
HeadersKept == H!Spec
=============================================================================
