------------------------------- MODULE MCTls --------------------------------
(***************************************************************************)
(* Instances of ClaxTls for TLC.                                           *)
(***************************************************************************)
EXTENDS ClaxTls

Rec(k, n) == [kind |-> k, size |-> n]
Hello == Rec("handshake", 1)
Finished == Rec("handshake", 2)
Closing == Rec("close", 1)

\* A handshake, one to three records of data, and a close or not.
Datas == {<<Rec("data", m)>> : m \in 1..3}
           \cup {<<Rec("data", m), Rec("data", n)>> : m, n \in 1..3}
           \cup {<<Rec("data", 1), Rec("data", 2), Rec("data", 1)>>}

SomeScripts ==
  {<<Hello, Finished>> \o d \o e : d \in Datas, e \in {<< >>, <<Closing>>}}

\* One record of data, longer than one call decodes.
LongRecord == {<<Hello, Finished, Rec("data", 3)>>}
=============================================================================
