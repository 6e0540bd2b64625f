------------------------------- MODULE MCConn -------------------------------
(***************************************************************************)
(* Instances of ClaxConn for TLC: sets of requests and of system call      *)
(* results.                                                                *)
(***************************************************************************)
EXTENDS ClaxConn

Basic(m, p) ==
  [method |-> m, path |-> p, authorized |-> TRUE, expect |-> FALSE, type |-> "file",
   command |-> FALSE, crc |-> FALSE, framing |-> "none", pieces |-> 0, bad |-> FALSE]

\* Every path with every method, without a body.
Plain == {Basic(m, p) : m \in Methods, p \in Paths}

WithBody(rs, f, n) == {[r EXCEPT !.framing = f, !.pieces = n] : r \in rs}

Uploads == {[Basic("POST", "/tree/") EXCEPT !.type = t, !.crc = x] :
              t \in {"file", "folder"}, x \in BOOLEAN}

Files == {r \in Uploads : r.type = "file"}

\* Uploads that announce their length, of 0, 1 and 2 pieces, waiting for a 100
\* or not.
SizedUploads == Uploads \cup UNION {WithBody(Files, "length", n) : n \in {1, 2}}

Expecting(rs) == {[r EXCEPT !.expect = TRUE] : r \in rs}

Commands == {[Basic("POST", "/command") EXCEPT !.type = "form", !.command = b,
                !.framing = "length", !.pieces = 1] : b \in BOOLEAN}

\* Requests the server is made for, but for commands.
Ordinary == Plain \cup SizedUploads \cup Expecting(WithBody(Files, "length", 2))

\* The requests the server is made for.
Served == Ordinary \cup Commands

\* Requests that show a disagreement between the code and what is said of it.
NotHttp == {[Basic("GET", "/") EXCEPT !.bad = TRUE]}
EmptyUploads == {Basic("POST", "/tree/")}
ExpectingCommands == Expecting(Commands)
Heads == {Basic("HEAD", "/tree/")}
RunningCommands == {r \in Commands : r.command}
ChunkedUploads == WithBody(Files, "chunked", 2)
FormUploads == WithBody({[Basic("POST", "/tree/") EXCEPT !.type = "form"]}, "length", 1)
Refused == {[r EXCEPT !.authorized = FALSE] : r \in RunningCommands}

AllFine == [submit |-> TRUE, mkdir |-> TRUE, create |-> TRUE, tmp |-> TRUE,
            write |-> "ok", spawn |-> "ok"]

NoFailure == {AllFine}

\* No connection of the instances has more than seven pieces written.
NoRefusal == {-1}
Refusals == -1..6

\* Failures the handlers have an answer for.
Answerable ==
  {[AllFine EXCEPT !.mkdir = b, !.spawn = s] : b \in BOOLEAN, s \in {"ok", "failed"}}

CannotCreate == {[AllFine EXCEPT !.create = FALSE]}

\* Whatever can be sent and can fail.
Everything ==
  LET rs == Ordinary \cup Commands \cup WithBody(Files, "chunked", 2)
  IN  rs \cup Expecting(rs) \cup {[r EXCEPT !.authorized = FALSE] : r \in rs}
         \cup {[r EXCEPT !.bad = TRUE] : r \in rs}

AnyFailure == {AllFine} \cup
  {[AllFine EXCEPT !.submit = FALSE], [AllFine EXCEPT !.mkdir = FALSE],
   [AllFine EXCEPT !.create = FALSE], [AllFine EXCEPT !.tmp = FALSE],
   [AllFine EXCEPT !.write = "short"], [AllFine EXCEPT !.write = "failed"],
   [AllFine EXCEPT !.spawn = "failed"], [AllFine EXCEPT !.spawn = "unread"]}
=============================================================================
