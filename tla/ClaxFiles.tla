----------------------------- MODULE ClaxFiles -----------------------------
(***************************************************************************)
(* Several clients of /tree on one file system (clax_dispatcher_tree.c,    *)
(* and clax_mkdir_p of clax_util.c).  ClaxConn has what one connection     *)
(* does with its context; here every request is parsed already, and the    *)
(* chain of operations its handler starts works on files others may be     *)
(* using.                                                                  *)
(*                                                                         *)
(* An operation of libuv's thread pool and the callback on the loop that   *)
(* follows it are one step: the callback touches only its own request and  *)
(* submits the next operation, which is a step of its own.  What a handler *)
(* does synchronously is one step.                                         *)
(*                                                                         *)
(* A content is a sequence of pieces, the amount one operation reads or    *)
(* writes; a piece is named for the client that wrote it.  A checksum is   *)
(* taken to identify a content.  A file is an inode, so that it lives on   *)
(* under the handles that are open when its name goes.  Times, and the     *)
(* limit of 254 characters clax_mkdir_p has for a path, are left out.      *)
(***************************************************************************)
EXTENDS Integers, Sequences

CONSTANTS
  Clients,
  Paths,       \* sequences of names, with the parents of each
  Requests,    \* what the clients may ask for
  OldFiles,    \* the files there are at the start, a sequence of paths
  DiskFails,   \* what may fail in the middle: "copy", "sum", "send"
  Alone        \* is a path used by one request at a time

\* crc: the checksum in the query, "documented" if it is wrong and in the
\* parameter the README documents.
Request == [op : {"upload", "folder", "download", "delete"}, path : Paths, size : Nat,
            crc : {"none", "right", "wrong", "documented"}]

Proper(p) == {SubSeq(p, 1, k) : k \in 1..(Len(p) - 1)}

ASSUME PathsAssumption ==
  /\ Paths \subseteq Seq(STRING)
  /\ \A p \in Paths : p # << >> /\ Proper(p) \subseteq Paths
ASSUME RequestsAssumption == Requests \subseteq Request
ASSUME OldFilesAssumption ==
  /\ OldFiles \in Seq(Paths)
  /\ \A i, j \in DOMAIN OldFiles : OldFiles[i] \notin Proper(OldFiles[j])
  /\ \A i, j \in DOMAIN OldFiles : OldFiles[i] = OldFiles[j] => i = j
ASSUME SwitchesAssumption == DiskFails \subseteq {"copy", "sum", "send"} /\ Alone \in BOOLEAN

VARIABLES
  folders,   \* the paths that are folders
  files,     \* the inode of every path that is a file
  data,      \* the content of every inode
  req,       \* the request of each client
  job        \* what clax is doing for each client:
             \*   pc: the operation under way; handle: the file being copied to or
             \*   sent; sum: the file being summed; pos: the pieces done of the file
             \*   in use; got: what was read for the checksum; reply: the status, and
             \*   the body so far; before: what was at the path when the request
             \*   arrived, if anything

vars == <<folders, files, data, req, job>>

Silence == [status |-> 0, body |-> << >>]

Init ==
  /\ folders = UNION {Proper(OldFiles[i]) : i \in DOMAIN OldFiles}
  /\ files = [p \in {OldFiles[i] : i \in DOMAIN OldFiles} |->
                CHOOSE i \in DOMAIN OldFiles : OldFiles[i] = p]
  /\ data = [i \in DOMAIN OldFiles |-> <<"old", "old", "old">>]
  /\ req \in [Clients -> Requests]
  /\ job = [c \in Clients |-> [pc |-> "idle", handle |-> 0, sum |-> 0, pos |-> 0, got |-> << >>,
                               reply |-> Silence, before |-> {}]]

-----------------------------------------------------------------------------
(* The file system.                                                        *)

path(c) == req[c].path
Sent(c) == [i \in 1..req[c].size |-> c]

IsFile(p) == p \in DOMAIN files
IsFolder(p) == p = << >> \/ p \in folders
Parent(p) == SubSeq(p, 1, Len(p) - 1)

\* Is there nothing at p: where a name on the way to p is a file, the system
\* says so (ENOTDIR) instead.
Gone(p) == ~IsFile(p) /\ ~IsFolder(p) /\ \A q \in Proper(p) : ~IsFile(q)

\* Can p be opened for writing, or created.
CanWrite(p) == IsFolder(Parent(p)) /\ ~IsFolder(p)

\* mkdir takes what exists already for a folder, also when it is a file: only
\* the next name shows the difference.
clax_mkdir_p_ok(p) == \A q \in Proper(p) : ~IsFile(q)

\* Variant: the last name of the path is not made.
mkdir_p_forgets_last(p) ==
  IF p # << >> /\ clax_mkdir_p_ok(p) /\ ~IsFile(p) THEN Proper(p) ELSE {}

clax_mkdir_p(p) == IF p # << >> /\ clax_mkdir_p_ok(p) /\ ~IsFile(p) THEN Proper(p) \cup {p} ELSE {}

Create(p) ==
  /\ files' = [q \in DOMAIN files \cup {p} |-> IF q = p THEN Len(data) + 1 ELSE files[q]]
  /\ data' = Append(data, << >>)
Unlink(p) == files' = [q \in DOMAIN files \ {p} |-> files[q]] /\ UNCHANGED data

\* A content with a piece written behind the first n; what was skipped is a hole.
Written(x, n, piece) ==
  [i \in 1..(IF Len(x) > n THEN Len(x) ELSE n + 1) |->
     IF i = n + 1 THEN piece ELSE IF i <= Len(x) THEN x[i] ELSE "hole"]

-----------------------------------------------------------------------------
(* The steps of a handler.                                                 *)

\* The operation of kind k is the next for c, and the file in use is reset.
Goes(c, k) ==
  job' = [job EXCEPT ![c] = [@ EXCEPT !.pc = k, !.sum = 0, !.pos = 0, !.got = << >>]]

Replies(c, s) == job' = [job EXCEPT ![c] = [@ EXCEPT !.pc = "done", !.reply.status = s]]

\* A request arrives.
Arrives(c, op) ==
  /\ job[c].pc = "idle"
  /\ req[c].op = op
  /\ Alone => \A d \in Clients \ {c} :
                job[d].pc \in {"idle", "silent", "done"} \/ path(d) # path(c)

\* The file is in place: clax_dispatch_upload_ checks it if the query has a crc.
NextAfterStore(c) == IF req[c].crc \in {"right", "wrong"} THEN "checking" ELSE "done"

Stored(c, before) ==
  job' = [job EXCEPT ![c] =
            [@ EXCEPT !.pc = NextAfterStore(c), !.handle = 0, !.pos = 0, !.before = before,
                      !.reply.status = IF NextAfterStore(c) = "done" THEN 204 ELSE 0]]

Before(c) == IF IsFile(path(c)) THEN {data[files[path(c)]]} ELSE {}

\* clax_dispatch_upload: the folders of the path are made in any case.
UploadFails(c) ==
  /\ Arrives(c, "upload")
  /\ ~clax_mkdir_p_ok(Parent(path(c)))
  /\ Replies(c, 500)
  /\ UNCHANGED <<folders, files, data, req>>

Upload(c) ==
  /\ Arrives(c, "upload")
  /\ clax_mkdir_p_ok(Parent(path(c)))
  /\ req[c].size > 0
  /\ folders' = folders \cup clax_mkdir_p(Parent(path(c)))
  /\ job' = [job EXCEPT ![c].pc = "copying", ![c].before = Before(c)]
  /\ UNCHANGED <<files, data, req>>

\* An empty body has no temporary file: the target is opened, in the folder just
\* made, and closed.  What is there already is kept; when it cannot be opened there
\* is no reply.
UploadEmpty(c) ==
  /\ Arrives(c, "upload")
  /\ clax_mkdir_p_ok(Parent(path(c)))
  /\ req[c].size = 0
  /\ UNCHANGED req
  /\ folders' = folders \cup clax_mkdir_p(Parent(path(c)))
  /\ \/ ~CanWrite(path(c))' /\ Goes(c, "silent") /\ UNCHANGED <<files, data>>
     \/ IsFile(path(c)) /\ Stored(c, Before(c)) /\ UNCHANGED <<files, data>>
     \/ CanWrite(path(c))' /\ ~IsFile(path(c)) /\ Stored(c, {}) /\ Create(path(c))

\* libuv's copy: the target is created or emptied, written piece by piece, and
\* removed again if that fails.
CopyOpen(c) ==
  /\ job[c].pc = "copying" /\ job[c].handle = 0
  /\ \/ ~CanWrite(path(c)) /\ Replies(c, 500) /\ UNCHANGED <<files, data>>
     \/ IsFile(path(c))
          /\ data' = [data EXCEPT ![files[path(c)]] = << >>]
          /\ job' = [job EXCEPT ![c].handle = files[path(c)]]
          /\ UNCHANGED files
     \/ CanWrite(path(c)) /\ ~IsFile(path(c))
          /\ Create(path(c))
          /\ job' = [job EXCEPT ![c].handle = Len(data) + 1]
  /\ UNCHANGED <<folders, req>>

CopyWrite(c) ==
  /\ job[c].pc = "copying" /\ job[c].handle # 0 /\ job[c].pos < req[c].size
  /\ data' = [data EXCEPT ![job[c].handle] = Written(@, job[c].pos, c)]
  /\ job' = [job EXCEPT ![c].pos = @ + 1]
  /\ UNCHANGED <<folders, files, req>>

CopyFails(c) ==
  /\ "copy" \in DiskFails
  /\ job[c].pc = "copying" /\ job[c].handle # 0
  /\ Unlink(path(c))
  /\ Replies(c, 500)
  /\ UNCHANGED <<folders, req>>

Copied(c) ==
  /\ job[c].pc = "copying" /\ job[c].handle # 0 /\ job[c].pos = req[c].size
  /\ Stored(c, job[c].before)
  /\ UNCHANGED <<folders, files, data, req>>

-----------------------------------------------------------------------------
(* clax_uv_crc32: the path is opened anew and read to its end.  k is what  *)
(* the checksum is for, "checking" an upload or "summing" a download.      *)

\* Variant: a file that cannot be opened is not reported.
sum_open_ignores_missing(c, k) ==
  /\ job[c].pc = k /\ job[c].sum = 0
  /\ IsFile(path(c)) /\ job' = [job EXCEPT ![c].sum = files[path(c)]]
  /\ UNCHANGED <<folders, files, data, req>>

SumOpen(c, k) ==
  /\ job[c].pc = k /\ job[c].sum = 0
  /\ \/ IsFile(path(c)) /\ job' = [job EXCEPT ![c].sum = files[path(c)]]
     \/ ~IsFile(path(c)) /\ Replies(c, 500)
  /\ UNCHANGED <<folders, files, data, req>>

SumRead(c, k) ==
  /\ job[c].pc = k /\ job[c].sum # 0 /\ job[c].pos < Len(data[job[c].sum])
  /\ job' = [job EXCEPT ![c].got = Append(@, data[job[c].sum][job[c].pos + 1]), ![c].pos = @ + 1]
  /\ UNCHANGED <<folders, files, data, req>>

SumFails(c, k) ==
  /\ "sum" \in DiskFails
  /\ job[c].pc = k /\ job[c].sum # 0
  /\ Replies(c, 500)
  /\ UNCHANGED <<folders, files, data, req>>

Summed(c, k) == job[c].pc = k /\ job[c].sum # 0 /\ job[c].pos >= Len(data[job[c].sum])

\* Variant: the checksum is not compared.
matches_anything(c) == TRUE

Matches(c) == req[c].crc = "right" /\ job[c].got = Sent(c)

\* clax_dispatch_upload_crc32_.
UploadChecked(c) ==
  /\ Summed(c, "checking")
  /\ IF Matches(c) THEN Replies(c, 204) ELSE Goes(c, "removing")
  /\ UNCHANGED <<folders, files, data, req>>

\* clax_dispatch_upload_crc32_invalid_: a file that is gone already is fine.
BadRemoved(c) ==
  /\ job[c].pc = "removing"
  /\ \/ IsFile(path(c)) /\ Unlink(path(c)) /\ Replies(c, 400)
     \/ ~IsFile(path(c)) /\ Replies(c, IF Gone(path(c)) THEN 400 ELSE 500) /\ UNCHANGED <<files, data>>
  /\ UNCHANGED <<folders, req>>

-----------------------------------------------------------------------------
Folder(c) ==
  /\ Arrives(c, "folder")
  /\ folders' = folders \cup clax_mkdir_p(path(c))
  /\ Replies(c, IF clax_mkdir_p_ok(path(c)) THEN 204 ELSE 500)
  /\ UNCHANGED <<files, data, req>>

Download(c) ==
  /\ Arrives(c, "download")
  /\ Goes(c, "stat")
  /\ UNCHANGED <<folders, files, data, req>>

Statted(c) ==
  /\ job[c].pc = "stat"
  /\ \/ IsFile(path(c)) /\ Goes(c, "opening")
     \/ IsFolder(path(c)) /\ Replies(c, 200)
     \/ ~IsFile(path(c)) /\ ~IsFolder(path(c)) /\ Replies(c, 404)
  /\ UNCHANGED <<folders, files, data, req>>

\* A folder can be opened too, and fails when it is read: the reply is the same.
Opened(c) ==
  /\ job[c].pc = "opening"
  /\ \/ IsFile(path(c)) /\ job' = [job EXCEPT ![c].pc = "summing", ![c].handle = files[path(c)]]
     \/ ~IsFile(path(c)) /\ Replies(c, 500)
  /\ UNCHANGED <<folders, files, data, req>>

\* Variant: the checksum is read through the handle of the body, which is at its
\* end then.
summed_through_body_handle(c) ==
  /\ Summed(c, "summing")
  /\ job' = [job EXCEPT ![c].pc = "sending"]
  /\ UNCHANGED <<folders, files, data, req>>

\* clax_dispatch_download_crc32_: the headers have the checksum now; the body is
\* read from the first handle.
DownloadSummed(c) ==
  /\ Summed(c, "summing")
  /\ job' = [job EXCEPT ![c].pc = "sending", ![c].pos = 0]
  /\ UNCHANGED <<folders, files, data, req>>

\* clax_http_write_response_handle_.
SendPiece(c) ==
  /\ job[c].pc = "sending" /\ job[c].pos < Len(data[job[c].handle])
  /\ job' = [job EXCEPT ![c].reply.body = Append(@, data[job[c].handle][job[c].pos + 1]),
                        ![c].pos = @ + 1]
  /\ UNCHANGED <<folders, files, data, req>>

SendEnd(c) ==
  /\ job[c].pc = "sending" /\ job[c].pos >= Len(data[job[c].handle])
  /\ Replies(c, 200)
  /\ UNCHANGED <<folders, files, data, req>>

\* A read error ends the body like the end of the file does.
SendFails(c) ==
  /\ "send" \in DiskFails
  /\ job[c].pc = "sending"
  /\ Replies(c, 200)
  /\ UNCHANGED <<folders, files, data, req>>

Delete(c) ==
  /\ Arrives(c, "delete")
  /\ Goes(c, "unlinking")
  /\ UNCHANGED <<folders, files, data, req>>

\* Only files are deleted.
Unlinked(c) ==
  /\ job[c].pc = "unlinking"
  /\ \/ IsFile(path(c)) /\ Unlink(path(c)) /\ Replies(c, 204)
     \/ ~IsFile(path(c)) /\ Replies(c, IF Gone(path(c)) THEN 404 ELSE 500) /\ UNCHANGED <<files, data>>
  /\ UNCHANGED <<folders, req>>

-----------------------------------------------------------------------------
Step(c) ==
  \/ UploadFails(c) \/ Upload(c) \/ UploadEmpty(c)
  \/ CopyOpen(c) \/ CopyWrite(c) \/ CopyFails(c) \/ Copied(c)
  \/ \E k \in {"checking", "summing"} : SumOpen(c, k) \/ SumRead(c, k) \/ SumFails(c, k)
  \/ UploadChecked(c) \/ BadRemoved(c)
  \/ Folder(c)
  \/ Download(c) \/ Statted(c) \/ Opened(c) \/ DownloadSummed(c) \/ SendPiece(c) \/ SendEnd(c)
  \/ SendFails(c)
  \/ Delete(c) \/ Unlinked(c)

Next == \E c \in Clients : Step(c)

Spec == Init /\ [][Next]_vars

\* Operations of the thread pool come to an end, whatever the others do.
FairSpec == Spec /\ \A c \in Clients : WF_vars(Step(c))

-----------------------------------------------------------------------------
(* Properties.                                                             *)

\* While nobody else uses the path, or a path on the way to it, a 500 before any
\* file was opened is given only if the path is a folder or has a file on the way:
\* clax_mkdir_p makes the rest.  (A file on the way that is gone again is not made
\* a folder: clax_mkdir_p took it for one.)
ErrorHasReason ==
  [][\A c \in Clients :
       /\ job'[c].reply.status = 500 /\ job[c].reply.status # 500
       /\ job[c].handle = 0 /\ job[c].sum = 0
       /\ \A d \in Clients : path(d) \notin Proper(path(c))
       => IsFolder(path(c)) \/ \E q \in Proper(path(c)) : IsFile(q)]_vars

\* Every request is answered, also when another request removes the file it is
\* working on.
EveryoneAnswered == \A c \in Clients : <>(job[c].pc = "done")

Done(c, op, s) == job[c].pc = "done" /\ req[c].op = op /\ job[c].reply.status = s

\* The checksum a download is sent with is that of its body, though the two are
\* read one after the other, through two handles.
BodyAsSummed ==
  \A c \in Clients : Done(c, "download", 200) /\ job[c].handle # 0 => job[c].reply.body = job[c].got

\* A download that is answered 200 has all of the file.
DownloadWhole ==
  \A c \in Clients :
    Done(c, "download", 200) /\ job[c].handle # 0 => job[c].reply.body = data[job[c].handle]

\* An upload that is answered 204 has left at its path what was sent.
StoredAsSent ==
  [][\A c \in Clients :
       ~Done(c, "upload", 204) /\ Done(c, "upload", 204)'
         => path(c) \in DOMAIN files' /\ data'[files'[path(c)]] = Sent(c)]_vars

\* A folder that is reported created is a folder.
FolderMade == \A c \in Clients : Done(c, "folder", 204) => IsFolder(path(c))

\* An upload with a wrong checksum is not accepted.
ChecksumChecked ==
  \A c \in Clients : Done(c, "upload", 204) => req[c].crc \notin {"wrong", "documented"}

\* An upload with the right checksum is not refused for it.
ValidAccepted == \A c \in Clients : Done(c, "upload", 400) => req[c].crc # "right"

-----------------------------------------------------------------------------
(* With each path used by one request at a time, the handlers implement    *)
(* FileStore: a request takes effect at its reply, so that until then the  *)
(* path of an upload counts as what it was before.                         *)

Uploading(p) == {c \in Clients : job[c].pc \in {"copying", "checking", "removing"} /\ path(c) = p}

Content_at(p) ==
  IF Uploading(p) # {} THEN UNION {job[c].before : c \in Uploading(p)}
  ELSE IF IsFile(p) THEN {data[files[p]]} ELSE {}

Store ==
  [p \in {q \in Paths : Content_at(q) # {}} |-> CHOOSE x \in Content_at(p) : TRUE]

Replied == [c \in Clients |-> IF job[c].pc = "done" THEN job[c].reply ELSE Silence]

Files == INSTANCE FileStore WITH store <- Store, reply <- Replied

\* Every request has the effect and the reply of one atomic operation.
StoreKept == Files!Spec
=============================================================================
