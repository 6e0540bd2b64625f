-------------------------------- MODULE X509 --------------------------------
(***************************************************************************)
(* Who a chain of certificates is good for (contrib/mbedtls/x509_crt.c).   *)
(* clax trusts what is in its certificate file after its own certificate;  *)
(* it has no revocation list, no name to look for and no callback.         *)
(*                                                                         *)
(* A certificate binds a key to the name of its subject; a key is named    *)
(* for its holder, and a signature for the key it is made with.  May a     *)
(* certificate sign others, ca, is the bit and the key usage together; may *)
(* it be used by a client, client_auth, the two usages that are looked at. *)
(* The algorithms are all of those in the default profile.                 *)
(***************************************************************************)
EXTENDS Integers, Sequences

CONSTANTS
  Certificates, \* all there are, well-formed
  ca_chain,     \* what clax trusts
  MAX_INTERMEDIATE_CA

ASSUME CertificatesAssumption ==
  /\ ca_chain \in Seq(Certificates)
  /\ MAX_INTERMEDIATE_CA \in Nat

First(S) == CHOOSE i \in S : \A j \in S : i <= j

ValidAt(cert, t) == cert.valid_from <= t /\ t <= cert.valid_to

\* Variant: whoever has a certificate may sign others.
any_parent(child, parent, top, bottom) == child.issuer = parent.subject

\* What is trusted needs not be a CA if it is too old to say so, or if it is the
\* client's own certificate.
x509_crt_check_parent(child, parent, top, bottom) ==
  /\ child.issuer = parent.subject
  /\ \/ parent.ca
     \/ top /\ parent.version < 3
     \/ top /\ bottom /\ child = parent

\* The certificates further up that may be that of the issuer.
Parents(chain, i, path_cnt) ==
  {j \in DOMAIN chain : j > i /\ x509_crt_check_parent(chain[i], chain[j], FALSE, path_cnt = 0)}

\* max_pathlen is one more than in the certificate, and 0 for no limit.  The top of
\* the chain does not count if it is the trusted one; as many bytes of the subjects are
\* compared as the name of the issuer has, which is ca's.
PathFits(child, ca, path_cnt) ==
  \/ ca.max_pathlen <= 0
  \/ (IF child.subject = ca.subject THEN path_cnt ELSE path_cnt + 1) <= ca.max_pathlen

\* The trusted certificates that the top of a chain may be signed with.
Signers(child, path_cnt) ==
  {k \in DOMAIN ca_chain :
     /\ x509_crt_check_parent(child, ca_chain[k], TRUE, path_cnt = 0)
     /\ PathFits(child, ca_chain[k], path_cnt)
     /\ child.signed_by = ca_chain[k].key}

\* The first of them decides.
x509_crt_verify_top(child, path_cnt, t) ==
  LET ca == ca_chain[First(Signers(child, path_cnt))]
  IN  /\ ValidAt(child, t)
      /\ Signers(child, path_cnt) # {}
      /\ child.subject # ca.subject => ValidAt(ca, t)

\* What is wrong with one below the top; the rest is said of its parent.
ChildRight(child, parent, t) == ValidAt(child, t) /\ child.signed_by = parent.key

-----------------------------------------------------------------------------
(* Who clax means to let in, whatever way that is found out.               *)

Issued(ca, cert) == ca.ca /\ ca.subject = cert.issuer /\ ca.key = cert.signed_by

\* The top of a path of n is vouched for by what clax trusts, or is what it trusts.
Anchored(cert, ca, n, t) ==
  /\ ca.subject = cert.issuer /\ ca.key = cert.signed_by
  /\ ca.ca \/ ca.version < 3 \/ (n = 1 /\ cert = ca)
  /\ cert.subject = ca.subject \/ ValidAt(ca, t)
  /\ PathFits(cert, ca, n - 1)

\* From a client's certificate up to what clax trusts.
PathUp(path, n, t) ==
  /\ path[1].client_auth
  /\ \A i \in 1..n : ValidAt(path[i], t)
  /\ \A i \in 1..(n - 1) : Issued(path[i + 1], path[i])
  /\ \E k \in DOMAIN ca_chain : Anchored(path[n], ca_chain[k], n, t)

\* Somebody who has the key of such a certificate at a time.
Certified(p, t) ==
  \E n \in 1..(MAX_INTERMEDIATE_CA + 1) : \E path \in [1..n -> Certificates] :
    path[1].key = p /\ PathUp(path, n, t)

\* A chain that anybody must accept: in order, and with nothing else that clax trusts
\* in the way.
InOrder(chain, t) ==
  /\ chain # << >> /\ Len(chain) <= MAX_INTERMEDIATE_CA + 1
  /\ PathUp(chain, Len(chain), t)
  /\ \A i, j \in DOMAIN chain : chain[i].subject = chain[j].subject => i = j
  /\ \A k \in DOMAIN ca_chain :
       ca_chain[k].key = chain[Len(chain)].signed_by => ValidAt(ca_chain[k], t)
=============================================================================
