---------------------------- MODULE MCHandshake -----------------------------
(***************************************************************************)
(* Instances of ClaxHandshake for TLC.                                     *)
(***************************************************************************)
EXTENDS ClaxHandshake

\* Two suites, so that a session may be offered with the wrong one.
SomeSuites == <<"ecdhe", "rsa">>
SomeOffers == {{}, {"rsa"}, {"rsa", "ecdhe"}}

Cert(subject, key, issuer, signed_by) ==
  [subject |-> subject, key |-> key, issuer |-> issuer, signed_by |-> signed_by,
   ca |-> FALSE, client_auth |-> TRUE, version |-> 3, max_pathlen |-> 0,
   valid_from |-> 0, valid_to |-> 9]
Ca(subject, key, issuer, signed_by) ==
  [Cert(subject, key, issuer, signed_by) EXCEPT !.ca = TRUE, !.client_auth = FALSE]

\* The CA of clax, with an older one of the same name, and an office below it.
OldRoot == [Ca("root", "old", "root", "old") EXCEPT !.valid_to = 0]
Root == [Ca("root", "root", "root", "root") EXCEPT !.max_pathlen = 2]
Office == Ca("office", "office", "root", "root")
Alice == Cert("alice", "alice", "office", "office")

\* What Bob can make of it: a certificate in the name of the office, one from Alice,
\* who has another from the CA, an office of his own.
BobsOwn == Cert("bob", "bob", "office", "bob")
BobByAlice == Cert("bob", "bob", "alice", "alice")
AliceOfRoot == Cert("alice", "alice", "root", "root")
BobsOffice == Ca("office", "bob", "root", "bob")

\* Further down than clax goes.
Branch == Ca("branch", "branch", "office", "office")
BobOfBranch == Cert("bob", "bob", "branch", "branch")

\* These are in the file of clax itself, and no more or not yet good.
BobOnce == [Cert("bob", "bob", "bob", "bob") EXCEPT !.valid_to = 0]
AliceHere == [Cert("guest", "alice", "guest", "alice") EXCEPT !.valid_from = 3]

SomeCertificates ==
  {OldRoot, Root, Office, Alice, BobsOwn, BobByAlice, AliceOfRoot, BobsOffice, Branch, BobOfBranch,
   BobOnce, AliceHere}
SomeCaChain == <<OldRoot, Root, BobOnce, AliceHere>>
OwnChains == [alice |-> <<Alice, Office>>, bob |-> <<BobsOwn, BobsOffice>>]
SomeChains ==
  {<< >>, <<Alice, Office>>, <<BobByAlice, AliceOfRoot>>, <<BobsOwn, Office>>,
   <<BobOfBranch, Branch, Office>>, <<BobOnce>>, <<AliceHere>>}

\* Somebody clax trusts twice, and somebody else between.
SomeOwners == {<<"alice", "bob", "alice">>}
=============================================================================
