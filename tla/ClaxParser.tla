----------------------------- MODULE ClaxParser -----------------------------
(***************************************************************************)
(* The request side: the callbacks of http_parser (clax_http_parser.c) and *)
(* what they start (clax_http.c).                                          *)
(*                                                                         *)
(* A request reaches the server as a sequence of segments, one per parser  *)
(* event that changes the connection.  A read of the socket can deliver    *)
(* several segments; since reads follow one another freely, delivering     *)
(* them one per read has all those behaviours and more.  A body is counted *)
(* in pieces, of size 1.                                                   *)
(***************************************************************************)
EXTENDS ClaxDispatcher

CONSTANT AuthRequired    \* a user name and a password are configured

ASSUME AuthRequiredAssumption == AuthRequired \in BOOLEAN

\* authorized: the credentials, if asked for, are right; expect: the request has
\* Expect: 100-continue; command: the form has a command; crc: the query has a
\* checksum; bad: the last segment is not HTTP.
Request == [method : Methods, path : Paths, authorized : BOOLEAN, expect : BOOLEAN,
            type : {"form", "folder", "file"}, command : BOOLEAN, crc : BOOLEAN,
            framing : {"none", "length", "chunked"}, pieces : Nat, bad : BOOLEAN]

\* The results of the system calls a callback can make: does libuv accept an
\* asynchronous operation; does making the directories, creating an empty file,
\* opening the temporary file succeed; how did a write of the body and the
\* start of a command end.
SysResult == [submit : BOOLEAN, mkdir : BOOLEAN, create : BOOLEAN, tmp : BOOLEAN,
              write : {"ok", "short", "failed"}, spawn : {"ok", "failed", "unread"}]

Segment == {"head", "body", "lastbody", "end", "only", "bad"}

\* The segments of a well-formed request: headers without a body ("only"), or
\* headers, body pieces and, when they carry no length, the end of the body.
WellFormed(r) ==
  CASE r.framing = "length" /\ r.pieces > 0 ->
         <<"head">> \o [i \in 1..r.pieces |-> IF i = r.pieces THEN "lastbody" ELSE "body"]
    [] r.framing = "chunked" ->
         <<"head">> \o [i \in 1..r.pieces |-> "body"] \o <<"end">>
    [] OTHER -> <<"only">>

Segments(r) ==
  LET s == WellFormed(r)
  IN  IF r.bad THEN [s EXCEPT ![Len(s)] = "bad"] ELSE s

-----------------------------------------------------------------------------
content_length(r) == IF r.framing = "length" THEN r.pieces ELSE 0

clax_http_request_done_cb(c, r, sys) == clax_dispatch(c, r, sys)

\* A request without the right credentials is answered here; parsing goes on.
clax_http_request_headers_done_cb(c, r, sys) ==
  CASE AuthRequired /\ ~r.authorized -> clax_dispatch_not_authorized(c, r, sys)
    [] ~(AuthRequired /\ ~r.authorized) /\ c.continue_expected -> clax_dispatch(c, r, sys)
    [] OTHER -> c

on_http_parser_headers_complete(c, r, sys) ==
  clax_http_request_headers_done_cb([c EXCEPT !.continue_expected = r.expect], r, sys)

\* Variant: a body in a temporary file is not waited for.
message_complete_at_once(c, r, sys) == clax_http_request_done_cb(c, r, sys)

\* A body in a temporary file is waited for: the close of the file dispatches.
on_http_parser_message_complete(c, r, sys) ==
  IF c.body_tmpfile THEN c ELSE clax_http_request_done_cb(c, r, sys)

\* The first piece of a body opens the temporary file, unless it is a form.
OpenBody(c, r) ==
  IF c.body_tmpfile THEN c
  ELSE [c EXCEPT !.body_tmpfile = TRUE, !.to_read = content_length(r)]

BodyRefused(c, r, sys) ==
  r.type # "form" /\ (sys.write = "failed" \/ (~c.body_tmpfile /\ ~sys.tmp))

\* Variants: the file is closed after every piece, or only after a piece too many.
body_written_always_closes(c, n) == Submit([c EXCEPT !.to_read = @ - n], "body_close")

body_written_off_by_one(c, n) ==
  LET d == [c EXCEPT !.to_read = @ - n]
  IN  IF d.to_read < 0 THEN Submit(d, "body_close") ELSE d

clax_http_request_body_written_cb(c, n) ==
  LET d == [c EXCEPT !.to_read = @ - n]
  IN  IF d.to_read <= 0 THEN Submit(d, "body_close") ELSE d

\* Variant: the test of the content type is the wrong way round.
body_kept_for_forms_only(c, r, sys) ==
  IF r.type # "form" THEN c
  ELSE clax_http_request_body_written_cb(OpenBody(c, r), 1)

on_http_parser_body(c, r, sys) ==
  IF r.type = "form" THEN c
  ELSE clax_http_request_body_written_cb(OpenBody(c, r), IF sys.write = "ok" THEN 1 ELSE 0)

-----------------------------------------------------------------------------
\* The parser rejects the segment, or a callback does.
Rejected(c, r, seg, sys) ==
  \/ seg = "bad"
  \/ seg \in {"body", "lastbody"} /\ BodyRefused(c, r, sys)

clax_http_parse(c, r, seg, sys) ==
  CASE seg = "head" -> on_http_parser_headers_complete(c, r, sys)
    [] seg = "body" -> on_http_parser_body(c, r, sys)
    [] seg = "lastbody" ->
         on_http_parser_message_complete(on_http_parser_body(c, r, sys), r, sys)
    [] seg = "end" -> on_http_parser_message_complete(c, r, sys)
    [] OTHER ->
         on_http_parser_message_complete(on_http_parser_headers_complete(c, r, sys), r, sys)
=============================================================================
