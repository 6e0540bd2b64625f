------------------------------- MODULE MCFiles -------------------------------
(***************************************************************************)
(* Instances of ClaxFiles for TLC.                                         *)
(***************************************************************************)
EXTENDS ClaxFiles

\* A file, and a folder with a file in a folder of its own.
F == <<"f">>
A == <<"a">>
AB == <<"a", "b">>
ABX == <<"a", "b", "x">>
AE == <<"a", "e">>
SomePaths == {F, A, AB, ABX, AE}

Ask(op, p, n, x) == [op |-> op, path |-> p, size |-> n, crc |-> x]

Nothing == << >>
OldFile == <<F>>

\* Requests for which clax keeps what it is said to do when a path is used by
\* one request at a time.
Careful ==
  {Ask("upload", p, 2, x) : p \in {F, ABX}, x \in {"none", "right", "wrong"}}
    \cup {Ask("download", F, 0, "none"), Ask("delete", F, 0, "none"),
          Ask("download", AB, 0, "none"), Ask("folder", AB, 0, "none"),
          Ask("upload", AB, 1, "none"), Ask("upload", A, 0, "none"),
          Ask("upload", AE, 0, "right")}

\* All kinds of requests, for paths that meet in every way.
Mixed ==
  {Ask("upload", p, n, x) : p \in {F, A}, n \in {1, 2}, x \in {"right", "wrong"}}
    \cup {Ask("upload", ABX, 1, "none"), Ask("upload", F, 0, "none"),
          Ask("folder", AB, 0, "none"), Ask("upload", AB, 1, "none")}
    \cup {Ask(op, p, 0, "none") : op \in {"download", "delete"}, p \in {F, AB, ABX}}

EmptyOnly == {Ask("upload", F, 0, "none")}
FolderOnly == {Ask("folder", F, 0, "none")}
DocumentedOnly == {Ask("upload", F, 1, "documented")}
Valid == {Ask("upload", F, 1, "right")}
Downloads == {Ask("download", F, 0, "none")}
=============================================================================
