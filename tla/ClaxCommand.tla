----------------------------- MODULE ClaxCommand ----------------------------
(***************************************************************************)
(* The handler of /command (clax_dispatcher_command.c): a child process    *)
(* whose stdout is read through a pipe and pushed to the client chunk by   *)
(* chunk.  The response is ended by the close callback of the process, not *)
(* by the end of the output, and the pipe reaches the context through the  *)
(* process structure.  The command line itself is abstracted.              *)
(***************************************************************************)
EXTENDS ClaxHttp

\* sys.spawn is "failed" when the pipe or the process cannot be created, and
\* "unread" when the child runs and its pipe cannot be read.
clax_dispatch_command(c, r, sys) ==
  CASE ~r.command -> clax_dispatch_bad_request(c, r, sys)
    [] r.command /\ sys.spawn = "failed" -> clax_dispatch_system_error(c, r, sys)
    [] r.command /\ sys.spawn = "unread" ->
         clax_dispatch_system_error([c EXCEPT !.process = "running", !.pipe = "unread"], r, sys)
    [] OTHER ->
         clax_http_write_response_headers(
           clax_http_response_header(
             clax_http_response_status(
               [c EXCEPT !.process = "running", !.pipe = "open"], 200), "chunked"))

\* The loop learns that the child is gone and starts closing its handle.
exit_cb(c) == [c EXCEPT !.process = "closing"]

\* Variant: the response is not ended.
process_close_without_trailers(c) == [c EXCEPT !.process = "gone"]

\* The trailers end the response, and the process structure is freed.
process_close_cb(c) ==
  clax_http_push_response([c EXCEPT !.process = "gone"], "trailer")

\* Variant: output is read and not passed on.
on_read_drops(c) == [c EXCEPT !.output = @ - 1]

\* Output arrives.  The context is found through the process structure, which
\* may have been freed.
on_read(c) ==
  IF c.process = "gone" THEN [c EXCEPT !.stale = TRUE]
  ELSE clax_http_push_response([c EXCEPT !.output = @ - 1], "chunk")

\* End of the output: the pipe is closed, and nothing else follows from it.
OnReadEof(c) == [c EXCEPT !.pipe = "closed"]
=============================================================================
