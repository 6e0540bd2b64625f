------------------------------ MODULE ClaxTree ------------------------------
(***************************************************************************)
(* The handlers of /tree (clax_dispatcher_tree.c): download, upload and    *)
(* delete.  Each is a chain of asynchronous file operations: a handler or  *)
(* a callback submits the next operation, and ClaxConn runs its callback   *)
(* when libuv reports it done.  The three-step loop that computes a        *)
(* checksum (open, read until the end, close) keeps its state in a request *)
(* of its own and looks at the context only in its last callback, so it is *)
(* one operation here, with the outcome it reports.                        *)
(*                                                                         *)
(* File contents, paths and permissions are abstracted to the outcomes the *)
(* operations can have.                                                    *)
(***************************************************************************)
EXTENDS ClaxHttp

\* The end of a checksum for a download.  The file to serve is open already,
\* and is served with status 500 when the checksum failed.
clax_dispatch_download_crc32_(c, r, sys, ok) ==
  IF ok THEN ReplyStatus(c, r, 200, sys) ELSE clax_dispatch_system_error(c, r, sys)

\* The callback of stat.
DownloadStat(c, r, sys, res) ==
  CASE res = "file" /\ sys.submit -> Submit(c, "open")
    [] res = "file" /\ ~sys.submit -> clax_dispatch_system_error(c, r, sys)
    [] res = "dir" -> ReplyStatus(c, r, 200, sys)
    [] res = "special" -> clax_dispatch_bad_request(c, r, sys)
    [] OTHER -> clax_dispatch_not_found(c, r, sys)

\* The callback of open.  When the checksum cannot be started clax_uv_crc32 both
\* calls back, which frees the request, and returns an error, on which the
\* caller frees the same request: undefined.
DownloadOpen(c, r, sys, ok) ==
  LET d == [c EXCEPT !.body_handle = TRUE, !.fs_open = TRUE]
  IN  CASE ok /\ sys.submit -> Submit(d, "crc_download")
        [] ok /\ ~sys.submit -> [d EXCEPT !.stale = TRUE]
        [] OTHER -> clax_dispatch_system_error(c, r, sys)

\* A stat that cannot be submitted leaves the request without an answer.
clax_dispatch_download(c, sys) == IF sys.submit THEN Submit(c, "stat") ELSE c

-----------------------------------------------------------------------------
\* The removal of an upload whose checksum was wrong.
clax_dispatch_upload_crc32_invalid_(c, r, sys, ok) ==
  IF ok THEN ReplyStatus(c, r, 400, sys) ELSE clax_dispatch_system_error(c, r, sys)

clax_dispatch_upload_crc32_(c, r, sys, res) ==
  CASE res = "match" -> ReplyStatus(c, r, 204, sys)
    [] res = "mismatch" /\ sys.submit -> Submit(c, "unlink_bad")
    [] OTHER -> clax_dispatch_system_error(c, r, sys)

\* The file is in place, or could not be copied there.
clax_dispatch_upload_(c, r, sys, ok) ==
  CASE ok /\ r.crc /\ sys.submit -> Submit(c, "crc_upload")
    [] ok /\ r.crc /\ ~sys.submit -> clax_dispatch_upload_crc32_(c, r, sys, "failed")
    [] ok /\ ~r.crc -> ReplyStatus(c, r, 204, sys)
    [] OTHER -> clax_dispatch_system_error(c, r, sys)

\* An upload without a body creates the file at once; when that fails nothing
\* is answered.
UploadEmpty(c, r, sys) ==
  IF sys.create THEN clax_dispatch_upload_(c, r, sys, TRUE) ELSE c

clax_dispatch_upload(c, r, sys) ==
  CASE c.continue_expected -> clax_dispatch_continue(c, r, sys)
    [] ~c.continue_expected /\ ~sys.mkdir -> clax_dispatch_system_error(c, r, sys)
    [] ~c.continue_expected /\ sys.mkdir /\ r.type = "folder" -> ReplyStatus(c, r, 204, sys)
    [] ~c.continue_expected /\ sys.mkdir /\ r.type # "folder" /\ c.body_tmpfile ->
         IF sys.submit THEN Submit(c, "copy") ELSE clax_dispatch_system_error(c, r, sys)
    [] OTHER -> UploadEmpty(c, r, sys)

-----------------------------------------------------------------------------
clax_dispatch_delete_(c, r, sys, res) ==
  CASE res = "ok" -> ReplyStatus(c, r, 204, sys)
    [] res = "missing" -> clax_dispatch_not_found(c, r, sys)
    [] OTHER -> clax_dispatch_system_error(c, r, sys)

clax_dispatch_delete(c, r, sys) ==
  IF sys.submit THEN Submit(c, "unlink") ELSE clax_dispatch_system_error(c, r, sys)

clax_dispatch_tree(c, r, sys) ==
  CASE r.method \in {"HEAD", "GET"} -> clax_dispatch_download(c, sys)
    [] r.method = "POST" -> clax_dispatch_upload(c, r, sys)
    [] r.method = "DELETE" -> clax_dispatch_delete(c, r, sys)
    [] OTHER -> clax_dispatch_method_not_allowed(c, r, sys)
=============================================================================
