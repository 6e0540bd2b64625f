------------------------------- MODULE MCText -------------------------------
(***************************************************************************)
(* Instances of ClaxText for TLC.                                          *)
(***************************************************************************)
EXTENDS ClaxText, TLC

\* What URLs, credentials and paths are made of, each with the characters its
\* functions look for.
Urls == {"a", "%", "0", "+", "=", "&", "?", "#", " "}
Credentials == {"u", ":", "NUL", "~"}
Paths == {"a", "/", ".", "\\"}

Hosts == {"h", ":", "@", "[", "]", "1", "/", "?"}

SomeAlphabets == {Urls, Hosts, Credentials, Paths}
SomeLengths == (Urls :> 4) @@ (Hosts :> 4) @@ (Credentials :> 5) @@ (Paths :> 5)

SomeCodes == {0, 97}
=============================================================================
