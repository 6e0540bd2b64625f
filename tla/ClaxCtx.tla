------------------------------ MODULE ClaxCtx ------------------------------
(***************************************************************************)
(* The connection context clax_ctx_t and the write path of clax.c.         *)
(*                                                                         *)
(* clax is one libuv event loop.  Everything it knows of a connection      *)
(* hangs on one clax_ctx_t: the request being parsed, the response being   *)
(* built, and, through raw pointers kept in libuv requests, every          *)
(* operation still in flight.  The C code runs a callback to its end       *)
(* before the next one starts, so a callback is one atomic step and the    *)
(* functions it calls compose; they are operators from a context to a      *)
(* context here, named as in the source, and the modules that extend this  *)
(* one (ClaxHttp, ClaxTree, ClaxCommand, ClaxDispatcher, ClaxParser) add   *)
(* the functions of one C file each.  ClaxConn has the state machine.      *)
(*                                                                         *)
(* Abstractions.  The several sends that make up one piece of a response   *)
(* (a header block, a chunk, a last chunk) happen back to back in one      *)
(* callback; they are one write of size 1, which libuv takes or refuses.   *)
(* A piece keeps only what framing needs: a header block its status and    *)
(* its framing headers.                                                    *)
(* Using a context after it was freed is undefined behaviour in C: the     *)
(* flag stale records that it happened, and nothing follows it.            *)
(***************************************************************************)
EXTENDS Integers, Sequences

\* The asynchronous file operations that keep a pointer to the context, named
\* for what they do; fs counts those in flight (several can be, of one kind).
FsOps == {"body_close", "unlink", "stat", "open", "crc_download", "read",
          "copy", "crc_upload", "unlink_bad"}

\* The response headers that frame a body.
Framing == {"chunked", "length"}

Piece == [part : {"head", "chunk", "last", "trailer"},
          status : Nat, framing : SUBSET Framing]

HeadPiece(s, f) == [part |-> "head", status |-> s, framing |-> f]
BodyPiece(p) == [part |-> p, status |-> 0, framing |-> {}]

\* ctx: is the memory allocated; wire: the pieces libuv took; writes: how many of
\* them it has not yet reported finished; refuse_at: with how many taken uv_write
\* fails, -1 if it never does; refused: it did; fs_open: is the file of
\* body_handle open; process, pipe, output: the child of /command, our end of
\* its stdout, and what it printed that we have not read.
Ctx == [ctx : {"live", "freed"}, stale : BOOLEAN,
        continue_expected : BOOLEAN, body_tmpfile : BOOLEAN, to_read : Int,
        status_code : Nat, headers : SUBSET Framing, has_body : BOOLEAN,
        body_handle : BOOLEAN, finalized : BOOLEAN, to_write : Int,
        wire : Seq(Piece), writes : Nat, refuse_at : Int, refused : BOOLEAN, fs : [FsOps -> Nat], fs_open : BOOLEAN,
        process : {"none", "running", "exited", "closing", "gone"},
        pipe : {"none", "open", "unread", "closed"}, output : Nat]

clax_ctx_init ==
  [ctx |-> "live", stale |-> FALSE,
   continue_expected |-> FALSE, body_tmpfile |-> FALSE, to_read |-> 0,
   status_code |-> 0, headers |-> {}, has_body |-> FALSE,
   body_handle |-> FALSE, finalized |-> FALSE, to_write |-> 0,
   wire |-> << >>, writes |-> 0, refuse_at |-> -1, refused |-> FALSE, fs |-> [k \in FsOps |-> 0], fs_open |-> FALSE,
   process |-> "none", pipe |-> "none", output |-> 0]

\* d, or the mark of a use after free when the context c is gone.
OnLive(c, d) == IF c.ctx = "live" THEN d ELSE [c EXCEPT !.stale = TRUE]

\* An asynchronous file operation is handed to libuv with c as its data.
Submit(c, k) == [c EXCEPT !.fs[k] = @ + 1]

-----------------------------------------------------------------------------
\* Close both handles and free the context.  Closing is unconditional: what is
\* still in flight keeps its pointer.
clax_conn_done_cb(c) == OnLive(c, [c EXCEPT !.ctx = "freed"])

\* A write is queued on the socket.  One that uv_write refuses is counted all the
\* same, and closes the connection at once.  The last line is reached either way:
\* with something just queued its test can only succeed if to_write is wrong, and
\* after a refusal it reads the freed context.
clax_conn_write_cb(c, p) ==
  LET d == [c EXCEPT !.to_write = @ + 1]
      e == IF Len(c.wire) = c.refuse_at THEN clax_conn_done_cb([d EXCEPT !.refused = TRUE])
           ELSE [d EXCEPT !.writes = @ + 1, !.wire = Append(@, p)]
  IN  OnLive(c, OnLive(e, IF e.finalized /\ e.to_write = 0 THEN clax_conn_done_cb(e) ELSE e))

\* Variants of the next definition that a mistake could make of it: the test of
\* finalized is missing; the last write is not waited for; a write is counted
\* down twice.
write_finished_closes_unended(c) ==
  LET d == [c EXCEPT !.to_write = @ - 1, !.writes = @ - 1]
  IN  OnLive(c, IF d.to_write <= 0 THEN clax_conn_done_cb(d) ELSE d)

write_finished_off_by_one(c) ==
  LET d == [c EXCEPT !.to_write = @ - 1, !.writes = @ - 1]
  IN  OnLive(c, IF d.finalized /\ d.to_write <= 1 THEN clax_conn_done_cb(d) ELSE d)

write_finished_twice(c) ==
  LET d == [c EXCEPT !.to_write = @ - 2, !.writes = @ - 2]
  IN  OnLive(c, IF d.finalized /\ d.to_write <= 0 THEN clax_conn_done_cb(d) ELSE d)

\* libuv reports a write finished, or cancelled because the handle was closed:
\* the code looks at the status only to log it.
clax_conn_write_finished_cb(c) ==
  LET d == [c EXCEPT !.to_write = @ - 1, !.writes = @ - 1]
  IN  OnLive(c, IF d.finalized /\ d.to_write <= 0 THEN clax_conn_done_cb(d) ELSE d)
=============================================================================
