------------------------------ MODULE ClaxHttp ------------------------------
(***************************************************************************)
(* The response writer of clax_http.c and the canned replies of            *)
(* clax_dispatcher.c.                                                      *)
(*                                                                         *)
(* r is the request, a record described in ClaxParser; the response writer *)
(* looks at its method only.  sys, described there too, holds the results  *)
(* of the system calls made during this callback; the response writer      *)
(* looks at sys.submit, whether libuv accepts an asynchronous operation.   *)
(***************************************************************************)
EXTENDS ClaxCtx

clax_http_response_status(c, s) == [c EXCEPT !.status_code = s]

clax_http_response_header(c, h) == [c EXCEPT !.headers = @ \cup {h}]

clax_http_write_response_headers(c) ==
  clax_conn_write_cb(c, HeadPiece(c.status_code, c.headers))

clax_http_finalize_response(c) == OnLive(c, [c EXCEPT !.finalized = TRUE])

\* A chunk, or (p is "last" or "trailer") the end of a chunked body.
clax_http_push_response(c, p) ==
  LET d == clax_conn_write_cb(c, BodyPiece(p))
  IN  IF p = "chunk" THEN d ELSE clax_http_finalize_response(d)

-----------------------------------------------------------------------------
\* The asynchronous read loop over body_handle.
clax_http_read_response_handle_chunk(c) == Submit(c, "read")

\* The read loop's callback, n the kind of result.  A read error ends the body like the end of the file does,
\* but leaves the file open; a read that cannot be submitted ends nothing.
clax_http_write_response_handle_(c, n, sys) ==
  IF n = "data"
  THEN LET d == clax_http_push_response(c, "chunk")
       IN  IF sys.submit THEN clax_http_read_response_handle_chunk(d) ELSE d
  ELSE clax_http_push_response(IF n = "eof" THEN [c EXCEPT !.fs_open = FALSE] ELSE c,
                               "last")

\* Variant: the file is not closed for a HEAD.
serve_head_keeps_file(c, r, sys) ==
  LET h == IF r.method = "HEAD" THEN "length" ELSE "chunked"
      d == clax_http_write_response_headers(clax_http_response_header(c, h))
  IN  IF r.method = "HEAD" THEN clax_http_finalize_response(d)
      ELSE clax_http_read_response_handle_chunk(d)

ServeHandle(c, r, sys) ==
  IF r.method = "HEAD"
  THEN clax_http_finalize_response(clax_http_write_response_headers(
         clax_http_response_header([c EXCEPT !.fs_open = FALSE], "length")))
  ELSE LET d == clax_http_write_response_headers(clax_http_response_header(c, "chunked"))
       IN  IF sys.submit THEN clax_http_read_response_handle_chunk(d) ELSE d

ServeBody(c) ==
  clax_http_push_response(
    clax_http_push_response(
      clax_http_write_response_headers(clax_http_response_header(c, "chunked")),
      "chunk"),
    "last")

\* Variant: the response is not ended.
serve_nothing_unended(c) ==
  clax_http_write_response_headers(clax_http_response_header(c, "length"))

ServeNothing(c) ==
  clax_http_finalize_response(
    clax_http_write_response_headers(clax_http_response_header(c, "length")))

\* A response is written once: finalized makes every later call return.
clax_http_write_response(c, r, sys) ==
  CASE c.finalized   -> c
    [] ~c.finalized /\ c.body_handle -> ServeHandle(c, r, sys)
    [] ~c.finalized /\ ~c.body_handle /\ c.has_body -> ServeBody(c)
    [] OTHER -> ServeNothing(c)

\* Variant: to_write is not kept.
reset_forgets_writes(c) ==
  OnLive(c, [c EXCEPT !.status_code = 0, !.headers = {}, !.has_body = FALSE,
                      !.body_handle = FALSE, !.finalized = FALSE, !.to_write = 0])

\* memset of the response after a 100, which keeps the count of bytes still
\* being written: their callbacks are yet to come.
ResetResponse(c) ==
  OnLive(c, [c EXCEPT !.status_code = 0, !.headers = {}, !.has_body = FALSE,
                      !.body_handle = FALSE, !.finalized = FALSE])

\* Variant: a 100 is not told from the final response.
dispatch_done_ignores_100(c, r, sys) ==
  IF c.continue_expected
  THEN clax_http_write_response(
         [clax_http_write_response_headers(c) EXCEPT !.continue_expected = FALSE], r, sys)
  ELSE clax_http_write_response(c, r, sys)

\* Every handler ends here.  While the client waits for a 100 the headers are
\* written at once, and a reply that is not a 100 is then written in full.
clax_http_dispatch_done_cb(c, r, sys) ==
  IF c.continue_expected
  THEN LET d == [clax_http_write_response_headers(c) EXCEPT !.continue_expected = FALSE]
       IN  IF d.status_code = 100 THEN ResetResponse(d)
           ELSE clax_http_write_response(d, r, sys)
  ELSE clax_http_write_response(c, r, sys)

-----------------------------------------------------------------------------
\* A reply with a status and no body.
ReplyStatus(c, r, s, sys) ==
  clax_http_dispatch_done_cb(clax_http_response_status(c, s), r, sys)

clax_http_response_body_str(c, r, sys) ==
  clax_http_dispatch_done_cb([c EXCEPT !.has_body = TRUE], r, sys)

\* A reply with a status and a text: the canned replies of the dispatcher.
ReplyText(c, r, s, sys) ==
  clax_http_response_body_str(clax_http_response_status(c, s), r, sys)

clax_dispatch_continue(c, r, sys) == ReplyStatus(c, r, 100, sys)
clax_dispatch_not_found(c, r, sys) == ReplyText(c, r, 404, sys)
clax_dispatch_method_not_allowed(c, r, sys) == ReplyText(c, r, 405, sys)
clax_dispatch_system_error(c, r, sys) == ReplyText(c, r, 500, sys)
clax_dispatch_bad_request(c, r, sys) == ReplyText(c, r, 400, sys)
clax_dispatch_not_authorized(c, r, sys) == ReplyText(c, r, 401, sys)
=============================================================================
