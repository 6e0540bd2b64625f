----------------------------- MODULE FileStore -----------------------------
(***************************************************************************)
(* What the clients of /tree may rely on when nobody else works on the     *)
(* same path: every request takes effect at once, at the moment of its     *)
(* reply, whatever happens at other paths meanwhile.                       *)
(***************************************************************************)
EXTENDS Naturals, Sequences

CONSTANT Clients

VARIABLES
  req,      \* the request of each client
  store,    \* the content of each path that is a file
  reply     \* the replies: a status, and the body of a download

Silence == [status |-> 0, body |-> << >>]
Status(s) == [status |-> s, body |-> << >>]

\* What client c uploads: its own pieces.
Sent(c) == [i \in 1..req[c].size |-> c]

With(p, x) == [q \in DOMAIN store \cup {p} |-> IF q = p THEN x ELSE store[q]]
Without(p) == [q \in DOMAIN store \ {p} |-> store[q]]

Init == reply = [c \in Clients |-> Silence]

Reply(c, r) == reply[c] = Silence /\ reply' = [reply EXCEPT ![c] = r] /\ UNCHANGED req

Put(c) ==
  /\ req[c].op = "upload" /\ req[c].crc # "wrong"
  /\ store' = With(req[c].path, Sent(c))
  /\ Reply(c, Status(204))

\* An upload with a wrong checksum leaves nothing behind.
Refuse(c) ==
  /\ req[c].op = "upload" /\ req[c].crc = "wrong"
  /\ store' = Without(req[c].path)
  /\ Reply(c, Status(400))

Get(c) ==
  /\ req[c].op = "download"
  /\ req[c].path \in DOMAIN store
  /\ UNCHANGED store
  /\ Reply(c, [status |-> 200, body |-> store[req[c].path]])

Remove(c) ==
  /\ req[c].op = "delete"
  /\ req[c].path \in DOMAIN store
  /\ store' = Without(req[c].path)
  /\ Reply(c, Status(204))

Missing(c) ==
  /\ req[c].op \in {"download", "delete"}
  /\ req[c].path \notin DOMAIN store
  /\ UNCHANGED store
  /\ Reply(c, Status(404))

\* Folders are no files.
Folder(c) ==
  /\ \/ req[c].op = "folder" /\ Reply(c, Status(204))
     \/ req[c].op = "download" /\ req[c].path \notin DOMAIN store /\ Reply(c, Status(200))
  /\ UNCHANGED store

\* An error may cost the file at the path, and no other.
Fail(c) ==
  /\ \/ UNCHANGED store
     \/ req[c].op = "upload" /\ store' = Without(req[c].path)
     \/ req[c].op = "upload" /\ store' = With(req[c].path, Sent(c))
  /\ Reply(c, Status(500))

Next ==
  \E c \in Clients :
    \/ Put(c)
    \/ Refuse(c)
    \/ Get(c)
    \/ Remove(c)
    \/ Missing(c)
    \/ Folder(c)
    \/ Fail(c)

Spec == Init /\ [][Next]_<<req, store, reply>>
=============================================================================
