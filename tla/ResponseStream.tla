--------------------------- MODULE ResponseStream ---------------------------
(***************************************************************************)
(* What clax promises the client of one connection: it receives at most    *)
(* one interim 100, then one response.  The response is a header block     *)
(* alone, or a header block that announces chunks, chunks, and an end.     *)
(* With the last piece of the response the connection is closed.           *)
(*                                                                         *)
(* phase is what the client has seen so far.                               *)
(***************************************************************************)
VARIABLE phase

Init == phase = "start"

Interim == phase = "start" /\ phase' = "interim"

Headers == phase \in {"start", "interim"} /\ phase' = "body"

HeadersOnly == phase \in {"start", "interim"} /\ phase' = "closed"

Chunk == phase = "body" /\ phase' = "body"

End == phase = "body" /\ phase' = "closed"

Next == Interim \/ Headers \/ HeadersOnly \/ Chunk \/ End

Spec == Init /\ [][Next]_phase
=============================================================================
