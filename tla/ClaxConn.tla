------------------------------ MODULE ClaxConn ------------------------------
(***************************************************************************)
(* One connection of clax, from accept to close: the callbacks libuv runs  *)
(* on its loop thread, in any order in which they can become ready.        *)
(*                                                                         *)
(* The environment is the client (which request it sends, and whether and  *)
(* when it hangs up), the kernel (the outcomes of system calls), the       *)
(* thread pool (when a file operation is done, and how it went) and the    *)
(* child process of a command.                                             *)
(***************************************************************************)
EXTENDS ClaxParser, FiniteSets

CONSTANTS
  Requests,     \* the requests the client may send, one per connection
  SysResults,   \* the combinations of system call results that may occur
  RefuseAt,     \* with how many pieces taken uv_write may refuse one; -1: it refuses none
  FsFails,      \* may an asynchronous file operation fail
  HangUp,       \* the client closes its side: "never", "after" its request, at "any" time
  OutputFirst,  \* is an exit reported only after the output was read (see ExitReported)
  MaxPieces,    \* bound: a file is read to its end once the response has so many pieces
  MaxOutput     \* bound: the chunks of output a command prints

ASSUME RequestsAssumption == Requests \subseteq Request
ASSUME SysResultsAssumption == SysResults \subseteq SysResult
ASSUME RefuseAtAssumption == RefuseAt \subseteq Int
ASSUME FsFailsAssumption == FsFails \in BOOLEAN
ASSUME HangUpAssumption == HangUp \in {"never", "after", "any"}
ASSUME OutputFirstAssumption == OutputFirst \in BOOLEAN
ASSUME BoundsAssumption == MaxPieces \in Nat /\ MaxOutput \in Nat

VARIABLES
  req,         \* the client's request
  unread,      \* its segments the server has not read yet
  conn,        \* the context, and what is in flight for it
  printed,     \* chunks of output the command has printed
  closed_by    \* who closed the connection: "none", "write", "parse" or "eof"

vars == <<req, unread, conn, printed, closed_by>>

TypeOK ==
  /\ req \in Requests
  /\ unread \in Seq(Segment)
  /\ conn \in Ctx
  /\ printed \in Nat
  /\ closed_by \in {"none", "write", "parse", "eof"}

Init ==
  /\ req \in Requests
  /\ unread = Segments(req)
  /\ \E n \in RefuseAt : conn = [clax_ctx_init EXCEPT !.refuse_at = n]
  /\ printed = 0
  /\ closed_by = "none"

\* A use after free is undefined: no step is modelled after one.
Defined == ~conn.stale

\* The context becomes c; by says who closes the connection, if this does.
Becomes(c, by) ==
  /\ conn' = c
  /\ closed_by' = IF conn.ctx = "live" /\ c.ctx = "freed" THEN by ELSE closed_by

-----------------------------------------------------------------------------
(* The socket.                                                             *)

\* clax_conn_uv_read_cb with data.  Nothing is read once the handle is closed.
\* A request that does not parse closes the connection: the reply clax_http.c
\* has for it is guarded by the negation of an address and never sent.
Read ==
  /\ Defined
  /\ conn.ctx = "live"
  /\ unread # << >>
  /\ unread' = Tail(unread)
  /\ \E sys \in SysResults :
       IF Rejected(conn, req, Head(unread), sys)
       THEN Becomes(clax_conn_done_cb(conn), "parse")
       ELSE Becomes(clax_http_parse(conn, req, Head(unread), sys), "write")
  /\ UNCHANGED <<req, printed>>

\* clax_conn_uv_read_cb at the end of the client's stream, or with an error.
ReadEof ==
  /\ Defined
  /\ conn.ctx = "live"
  /\ \/ HangUp = "any"
     \/ HangUp = "after" /\ unread = << >>
  /\ Becomes(clax_conn_done_cb(conn), "eof")
  /\ UNCHANGED <<req, unread, printed>>

WriteFinished ==
  /\ Defined
  /\ conn.writes > 0
  /\ Becomes(clax_conn_write_finished_cb(conn), "write")
  /\ UNCHANGED <<req, unread, printed>>

-----------------------------------------------------------------------------
(* File operations.  The callback of each uses the context first of all.   *)

Done(k) == [conn EXCEPT !.fs[k] = @ - 1]

\* An operation of kind k is done; d is what its callback makes of the context.
FsDone(k, d) ==
  /\ Defined
  /\ conn.fs[k] > 0
  /\ Becomes(OnLive(Done(k), d), "write")
  /\ UNCHANGED <<req, unread, printed>>

Outcomes == IF FsFails THEN BOOLEAN ELSE {TRUE}

clax_http_request_body_closed_cb ==
  \E sys \in SysResults :
    FsDone("body_close", clax_http_request_done_cb(Done("body_close"), req, sys))

Unlinked ==
  \E sys \in SysResults, res \in {"ok", "missing"} \cup (IF FsFails THEN {"failed"} ELSE {}) :
    FsDone("unlink", clax_dispatch_delete_(Done("unlink"), req, sys, res))

Statted ==
  \E sys \in SysResults, res \in {"file", "dir", "special", "missing"} :
    FsDone("stat", DownloadStat(Done("stat"), req, sys, res))

Opened ==
  \E sys \in SysResults, ok \in Outcomes :
    FsDone("open", DownloadOpen(Done("open"), req, sys, ok))

DownloadChecked ==
  \E sys \in SysResults, ok \in Outcomes :
    FsDone("crc_download", clax_dispatch_download_crc32_(Done("crc_download"), req, sys, ok))

FileRead ==
  \E sys \in SysResults,
     n \in {"eof"} \cup (IF FsFails THEN {"failed"} ELSE {})
                   \cup (IF Len(conn.wire) < MaxPieces THEN {"data"} ELSE {}) :
    FsDone("read", clax_http_write_response_handle_(Done("read"), n, sys))

Copied ==
  \E sys \in SysResults, ok \in Outcomes :
    FsDone("copy", clax_dispatch_upload_(Done("copy"), req, sys, ok))

UploadChecked ==
  \E sys \in SysResults, res \in {"match", "mismatch"} \cup (IF FsFails THEN {"failed"} ELSE {}) :
    FsDone("crc_upload", clax_dispatch_upload_crc32_(Done("crc_upload"), req, sys, res))

BadUnlinked ==
  \E sys \in SysResults, ok \in Outcomes :
    FsDone("unlink_bad", clax_dispatch_upload_crc32_invalid_(Done("unlink_bad"), req, sys, ok))

-----------------------------------------------------------------------------
(* The child process of a command.  Its output stays in the pipe until     *)
(* on_read takes it, also after the child is gone.                         *)

ChildPrints ==
  /\ Defined
  /\ conn.process = "running"
  /\ printed < MaxOutput
  /\ printed' = printed + 1
  /\ Becomes([conn EXCEPT !.output = @ + 1], "write")
  /\ UNCHANGED <<req, unread>>

ChildExits ==
  /\ Defined
  /\ conn.process = "running"
  /\ Becomes([conn EXCEPT !.process = "exited"], "write")
  /\ UNCHANGED <<req, unread, printed>>

\* libuv promises no order between an exit and the output before it.  On Unix
\* its loop runs signal watchers after the other watchers that are ready, so
\* the output of a child without descendants of its own is read first.
ExitReported ==
  /\ Defined
  /\ conn.process = "exited"
  /\ OutputFirst => conn.output = 0
  /\ Becomes(exit_cb(conn), "write")
  /\ UNCHANGED <<req, unread, printed>>

ProcessClosed ==
  /\ Defined
  /\ conn.process = "closing"
  /\ Becomes(process_close_cb(conn), "write")
  /\ UNCHANGED <<req, unread, printed>>

OutputRead ==
  /\ Defined
  /\ conn.pipe = "open"
  /\ conn.output > 0
  /\ Becomes(on_read(conn), "write")
  /\ UNCHANGED <<req, unread, printed>>

OutputEof ==
  /\ Defined
  /\ conn.pipe = "open"
  /\ conn.output = 0
  /\ conn.process \in {"exited", "closing", "gone"}
  /\ Becomes(OnReadEof(conn), "write")
  /\ UNCHANGED <<req, unread, printed>>

-----------------------------------------------------------------------------
FileStep ==
  \/ clax_http_request_body_closed_cb
  \/ Unlinked
  \/ Statted
  \/ Opened
  \/ DownloadChecked
  \/ FileRead
  \/ Copied
  \/ UploadChecked
  \/ BadUnlinked

CommandStep ==
  \/ ExitReported
  \/ ProcessClosed
  \/ OutputRead
  \/ OutputEof

\* What the loop does by itself as long as it runs, given that file operations
\* and commands come to an end and the client sends what it announced.
Progress ==
  \/ Read
  \/ WriteFinished
  \/ FileStep
  \/ CommandStep
  \/ ChildExits

Next ==
  \/ Progress
  \/ ReadEof
  \/ ChildPrints

Spec == Init /\ [][Next]_vars

FairSpec == Spec /\ WF_vars(Progress)

-----------------------------------------------------------------------------
(* Properties.                                                             *)

\* The count that decides when a finished response closes the connection is
\* exactly the number of writes in flight, whatever the handlers did and also
\* across the reset of the response after a 100 (clax_http.c:46-53).
ToWriteExact == conn.ctx = "live" => conn.to_write = conn.writes

\* The write path closes a connection only when the response has been ended and
\* its last write is done, or when uv_write refused a write (clax.c:496-502):
\* nothing else makes the write path cut an answer off.
ClosedFlushed == closed_by = "write" => conn.refused \/ (conn.finalized /\ conn.writes = 0)

\* No callback uses a context after conn_done_cb freed it.
NoUseAfterFree == ~conn.stale

\* Piece i of a response is legal after those before it: an interim 100 comes
\* first and only when asked for; one final header block comes first or after
\* it; chunks and one end follow a header block that announced them.
LegalPiece(w, i) ==
  \/ w[i].part = "head" /\ w[i].status = 100 /\ i = 1 /\ req.expect
  \/ w[i].part = "head" /\ w[i].status # 100
       /\ \/ i = 1
          \/ i = 2 /\ w[1].part = "head" /\ w[1].status = 100
  \/ w[i].part # "head"
       /\ \E j \in 1..(i - 1) :
            /\ w[j].part = "head"
            /\ w[j].framing = {"chunked"}
            /\ \A k \in (j + 1)..(i - 1) : w[k].part = "chunk"

\* What is written is always a prefix of one well-framed response: one status
\* line, nothing after the end of the body.
ResponseFramed == \A i \in DOMAIN conn.wire : LegalPiece(conn.wire, i)

\* The piece p is the last of a response: the end of a body, or the header block
\* of a response without one.
EndsResponse(p) ==
  \/ p.part \in {"last", "trailer"}
  \/ p.part = "head" /\ p.framing = {"length"}

\* A response is ended exactly when what is written is complete.
EndedWhenComplete ==
  conn.finalized <=> conn.wire # << >> /\ EndsResponse(conn.wire[Len(conn.wire)])

\* As long as a request that was read in full is not answered, something is
\* under way that will answer it.
NotForgotten ==
  unread = << >> /\ conn.ctx = "live" /\ ~conn.finalized =>
    \/ \E k \in FsOps : conn.fs[k] > 0
    \/ conn.process \in {"running", "exited", "closing"}

\* At most one operation is under way for a request: its chain never forks.
OneOperation ==
  \A j, k \in FsOps : conn.fs[j] > 0 /\ conn.fs[k] > 0 => j = k /\ conn.fs[j] = 1

\* An upload is copied into place only when its whole body is in the temporary
\* file and the file is closed.
CopiedWhole ==
  conn.fs["copy"] > 0 => unread = << >> /\ conn.to_read = 0 /\ conn.fs["body_close"] = 0

\* The file whose size a HEAD reports is closed when the connection is, whatever
\* failed on the way.  (A read error of a GET ends the response and leaves the
\* file open.)
FileReleased == closed_by = "write" /\ req.method = "HEAD" => ~conn.fs_open

\* When the trailers of a command are written, all it printed has been written.
OutputComplete ==
  LET w == conn.wire
  IN  \A i \in DOMAIN w :
        w[i].part = "trailer" => Cardinality({j \in DOMAIN w : w[j].part = "chunk"}) = printed

\* An upload with a body is reported created only if the body was stored.
UploadStored ==
  \A i \in DOMAIN conn.wire :
    conn.wire[i].status = 204 /\ req.method = "POST" /\ req.type # "folder" /\ req.pieces > 0
      => conn.body_tmpfile

\* A request that is not HTTP gets the status 400 before the connection closes.
BadRequestAnswered ==
  closed_by = "parse" => \E i \in DOMAIN conn.wire : conn.wire[i].status = 400

\* A response to HEAD has no body.
HeadHasNoBody ==
  req.method = "HEAD" => \A i \in DOMAIN conn.wire : conn.wire[i].part = "head"

\* A request that was read is answered in full and the connection closed.
Answered == (unread = << >>) ~> (closed_by = "write")

-----------------------------------------------------------------------------
(* The connection implements what ResponseStream promises: what the client *)
(* has seen are the pieces whose writes are done.  A connection closed on  *)
(* anything but the end of a response is cut off, which is no phase there. *)

Phase ==
  LET seen == Len(conn.wire) - conn.writes
      last == conn.wire[seen]
  IN  CASE closed_by # "none" -> IF seen > 0 /\ EndsResponse(last) THEN "closed" ELSE "cut off"
        [] closed_by = "none" /\ seen = 0 -> "start"
        [] closed_by = "none" /\ seen > 0 /\ last.part = "head" /\ last.status = 100 -> "interim"
        [] OTHER -> "body"

Stream == INSTANCE ResponseStream WITH phase <- Phase

\* The client receives an interim 100 or not, then one response, whose last
\* piece comes with the close of the connection.
StreamKept == Stream!Spec
=============================================================================
