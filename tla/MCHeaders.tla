----------------------------- MODULE MCHeaders ------------------------------
(***************************************************************************)
(* Instances of ClaxHeaders for TLC.                                       *)
(***************************************************************************)
EXTENDS ClaxHeaders, SequencesExt

Length == <<"Content-", "Length">>
Expecting == <<"Expect">>
OneHundred == <<"100-", "continue">>

\* A name that ends with another.
Other == <<"X-", "Content-", "Length">>

Digit == [d \in {"1", "2"} |-> IF d = "1" THEN 1 ELSE 2]
Number(v) ==
  FoldLeft(LAMBDA n, d : 10 * n + (IF d \in DOMAIN Digit THEN Digit[d] ELSE 0), 0, v)

Headers ==
  {[name |-> n, value |-> v] :
     n \in {Length, Other}, v \in {<< >>, <<"1">>, <<"1", "2">>}}
  \cup {[name |-> Expecting, value |-> v] : v \in {OneHundred, <<"continue">>}}

\* Up to three headers, in every order and repeated.
SomeMessages == UNION {[1..n -> Headers] : n \in 0..3}
=============================================================================
