------------------------ MODULE ClaxHandshake_proofs ------------------------
(***************************************************************************)
(* ClaxHandshake lets nobody through who is not authenticated: for every   *)
(* number of connections, whoever makes them, whatever certificates there  *)
(* are and are trusted, every cache and every order of messages and hang   *)
(* ups.  And the cache of sessions keeps what it should.                   *)
(***************************************************************************)
EXTENDS ClaxHandshake, SequenceTheorems, FiniteSetTheorems,
        WellFoundedInduction, TLAPS

\* The order of the states.
LEMMA AfterEach ==
  /\ After("HELLO_REQUEST") = "CLIENT_HELLO"
  /\ After("CLIENT_HELLO") = "SERVER_HELLO"
  /\ After("SERVER_HELLO") = "SERVER_CERTIFICATE"
  /\ After("SERVER_CERTIFICATE") = "SERVER_KEY_EXCHANGE"
  /\ After("SERVER_KEY_EXCHANGE") = "CERTIFICATE_REQUEST"
  /\ After("CERTIFICATE_REQUEST") = "SERVER_HELLO_DONE"
  /\ After("SERVER_HELLO_DONE") = "CLIENT_CERTIFICATE"
  /\ After("CLIENT_CERTIFICATE") = "CLIENT_KEY_EXCHANGE"
  /\ After("CLIENT_KEY_EXCHANGE") = "CERTIFICATE_VERIFY"
  /\ After("CERTIFICATE_VERIFY") = "CLIENT_CHANGE_CIPHER_SPEC"
  /\ After("CLIENT_CHANGE_CIPHER_SPEC") = "CLIENT_FINISHED"
  /\ After("CLIENT_FINISHED") = "SERVER_CHANGE_CIPHER_SPEC"
  /\ After("SERVER_CHANGE_CIPHER_SPEC") = "SERVER_FINISHED"
  /\ After("SERVER_FINISHED") = "FLUSH_BUFFERS"
  /\ After("FLUSH_BUFFERS") = "HANDSHAKE_WRAPUP"
  /\ After("HANDSHAKE_WRAPUP") = "HANDSHAKE_OVER"
  BY DEF After, States

\* A set of numbers that is not empty has a first one.
LEMMA FirstIsLeast ==
  ASSUME NEW S \in SUBSET Nat, S # {}
  PROVE  First(S) \in S /\ \A x \in S : First(S) <= x
  <1>1. PICK x \in S : \A y \in S : <<y, x>> \notin OpToRel(<, Nat)
    BY NatLessThanWellFounded, WFMin, Zenon
  <1>2. \A y \in S : ~(y < x)
    BY <1>1, Zenon DEF OpToRel
  <1>3. \A y \in S : x <= y
    BY <1>2
  <1>. QED  BY <1>3 DEF First

LEMMA FirstIn ==
  ASSUME NEW S \in SUBSET Nat, S # {} PROVE First(S) \in S
  BY FirstIsLeast

-----------------------------------------------------------------------------
(* The inductive invariant.                                                *)

Names == Conns \cup {0}
Session ==
  [id : Names, ciphersuite : {""} \cup {Chosen(suites) : suites \in Offers},
   master : Names, peer_cert : Seq(Certificates)]
Entry == [session : Session, timestamp : Nat]
Context ==
  [state : {States[i] : i \in DOMAIN States}, resume : BOOLEAN, session : Session,
   path : [at : Nat, cnt : Nat, ok : BOOLEAN],
   done : BOOLEAN, open : BOOLEAN, messages : Nat, over_at : Nat]

TypeOK ==
  /\ time \in Nat \ {0}
  /\ cache \in Seq(Entry)
  /\ running \in Names
  /\ ssl \in [Conns -> Context]
  /\ client \in [Conns -> [owner : People, regular : BOOLEAN]]

\* What the message that was read can be: nobody signs for another, or knows the
\* secret of another's connection.
InboxOK ==
  /\ inbox.type = "client_hello" => inbox.id \in Names /\ inbox.suites \in Offers
  /\ inbox.type = "certificate" => inbox.cert \in Seq(Certificates)
  /\ inbox.type = "certificate_verify" => inbox.by = client[running].owner
  /\ inbox.type = "finished" => inbox.secret \in MadeBy(client[running].owner)

\* Somebody who may come in, or could some time before.
Allowed(p) == \E t \in 1..time : Certified(p, t)

\* The secret of a connection whose client may come in.
Vouched(master) == master \in Conns /\ (verify => Allowed(client[master].owner))

Shown(s) ==
  verify => s.session.peer_cert # << >> /\ Allowed(s.session.peer_cert[1].key)

\* A path from the first certificate of a chain to the i-th, by way of k - 1 others;
\* nothing is known of the i-th itself.
Leads(chain, i, k) ==
  \E path \in [1..(k + 1) -> Certificates] :
    /\ path[1] = chain[1] /\ path[k + 1] = chain[i]
    /\ \A j \in 1..k : ValidAt(path[j], time) /\ Issued(path[j + 1], path[j])

Knows(c, s) == s.session.master \in MadeBy(client[c].owner)

\* What is known of a client in each state of its handshake.  One that resumes a
\* session has shown nothing of itself before it finishes: only that the session
\* was made by somebody who may come in.
StateOK(c, s) ==
  /\ s.path.at # 0 =>
       /\ s.state = "CLIENT_KEY_EXCHANGE"
       /\ s.path.at \in DOMAIN s.session.peer_cert /\ s.path.cnt \in 0..MAX_INTERMEDIATE_CA
       /\ s.path.ok => Leads(s.session.peer_cert, s.path.at, s.path.cnt)
  /\ s.state \in {"CLIENT_KEY_EXCHANGE", "CERTIFICATE_VERIFY"} => s.path.at # 0 \/ Shown(s)
  /\ s.state = "CERTIFICATE_VERIFY" => s.session.master = c
  /\ s.state \in {"CLIENT_CHANGE_CIPHER_SPEC", "CLIENT_FINISHED",
                  "SERVER_CHANGE_CIPHER_SPEC", "SERVER_FINISHED", "FLUSH_BUFFERS",
                  "HANDSHAKE_WRAPUP", "HANDSHAKE_OVER"} => Vouched(s.session.master)
  /\ s.state \in {"SERVER_CHANGE_CIPHER_SPEC", "SERVER_FINISHED"} => s.resume \/ Knows(c, s)
  /\ s.state \in {"FLUSH_BUFFERS", "HANDSHAKE_WRAPUP", "HANDSHAKE_OVER"} => Knows(c, s)
  /\ s.done => s.state = "HANDSHAKE_OVER"

IInv ==
  /\ TypeOK
  /\ running # 0 => InboxOK
  /\ \A i \in DOMAIN cache : Vouched(cache[i].session.master)
  /\ \A c \in Conns : StateOK(c, ssl[c]) /\ (ssl[c].path.at # 0 => running = c)

\* The invariant says what is to be shown.
LEMMA IInvAuthenticated == IInv => Authenticated
  <1>. SUFFICES ASSUME IInv, NEW c \in Conns, ssl[c].done
                PROVE  /\ ssl[c].session.master \in MadeBy(client[c].owner)
                       /\ verify => \E t \in 1..time : Certified(client[c].owner, t)
    BY DEF Authenticated
  <1>1. ssl[c].state = "HANDSHAKE_OVER"
    BY DEF IInv, StateOK
  <1>2. Knows(c, ssl[c]) /\ Vouched(ssl[c].session.master)
    BY <1>1 DEF IInv, StateOK
  <1>. QED  BY <1>2 DEF Knows, Vouched, Allowed, MadeBy

\* A new context, and one that is freed, is in the first state.
LEMMA FreshContext ==
  /\ clax_ssl_init_ctx \in Context
  /\ \A s : Closed(s) \in Context
  /\ \A c, s : StateOK(c, clax_ssl_init_ctx) /\ StateOK(c, Closed(s))
  /\ clax_ssl_init_ctx.path.at = 0 /\ \A s : Closed(s).path.at = 0
  <1>1. "HELLO_REQUEST" = States[1] /\ 1 \in DOMAIN States
    BY DEF States
  <1>2. clax_ssl_init_ctx \in Context
    BY <1>1 DEF clax_ssl_init_ctx, Context, Session, NoSession, NoPath, Names
  <1>3. /\ clax_ssl_init_ctx.state = "HELLO_REQUEST" /\ ~clax_ssl_init_ctx.done
        /\ clax_ssl_init_ctx.path.at = 0
    BY DEF clax_ssl_init_ctx, NoPath
  <1>4. \A s : /\ Closed(s) \in Context /\ Closed(s).state = "HELLO_REQUEST" /\ ~Closed(s).done
               /\ Closed(s).path.at = 0
    BY <1>2, <1>3 DEF Closed, Context
  <1>. QED  BY <1>2, <1>3, <1>4 DEF StateOK

\* At the beginning nothing is known and nothing is cached.
LEMMA InitInv == Init => IInv
  <1>. SUFFICES ASSUME Init PROVE IInv
    OBVIOUS
  <1>1. PICK o \in Owners : client = [c \in Conns |-> [owner |-> o[c], regular |-> TRUE]]
    BY DEF Init
  <1>2. o \in [Conns -> People]
    BY PeopleAssumption
  <1>3. cache \in Seq(Entry) /\ DOMAIN cache = {}
    BY DEF Init
  <1>4. TypeOK
    BY <1>1, <1>2, <1>3, FreshContext DEF Init, TypeOK, Names
  <1>5. \A c \in Conns : StateOK(c, ssl[c]) /\ ssl[c].path.at = 0
    BY FreshContext DEF Init
  <1>. QED  BY <1>3, <1>4, <1>5 DEF Init, IInv

-----------------------------------------------------------------------------
(* Every step keeps the invariant, action by action.                       *)

\* The step of one connection, with or without a look at the message.
Step(c, s) ==
  /\ running = c
  /\ ssl' = [ssl EXCEPT ![c] = s]
  /\ inbox' = inbox \/ inbox' = NoMessage
  /\ running' = running \/ (running' = 0 /\ s.path.at = 0)
  /\ UNCHANGED <<verify, time, cache, client>>

\* It keeps the invariant, if what it makes of the context is right.
LEMMA StepInv ==
  ASSUME IInv, NEW c \in Conns, NEW s \in Context, StateOK(c, s), Step(c, s)
  PROVE  IInv'
  <1>1. TypeOK'
    BY DEF IInv, TypeOK, Step, Names
  <1>2. ASSUME running' # 0 PROVE InboxOK'
    <2>1. InboxOK /\ running' = running /\ client' = client
      BY <1>2 DEF IInv, Step
    <2>2. CASE inbox' = inbox
      BY <2>1, <2>2 DEF InboxOK, MadeBy
    <2>3. CASE inbox' = NoMessage
      <3>1. inbox'.type = ""
        BY <2>3 DEF NoMessage
      <3>. QED  BY <3>1 DEF InboxOK
    <2>. QED  BY <2>2, <2>3 DEF Step
  <1>3. (\A i \in DOMAIN cache : Vouched(cache[i].session.master))'
    BY DEF IInv, Vouched, Allowed, Step
  <1>4. ASSUME NEW d \in Conns PROVE StateOK(d, ssl[d])'
    <2>1. StateOK(d, ssl'[d])
      BY <1>4 DEF IInv, TypeOK, Step
    <2>. QED  BY <2>1 DEF Step, StateOK, Leads, Shown, Vouched, Allowed, Knows, MadeBy
  <1>5. ASSUME NEW d \in Conns, ssl'[d].path.at # 0 PROVE running' = d
    BY <1>5 DEF IInv, TypeOK, Step
  <1>. QED  BY <1>1, <1>2, <1>3, <1>4, <1>5 DEF IInv

\* What is known of a connection that is not through.
LEMMA AtFacts ==
  ASSUME IInv, NEW c \in Conns, NEW state, state # "HANDSHAKE_OVER", At(c, state)
  PROVE  /\ running = c /\ InboxOK
         /\ ssl[c] \in Context /\ ssl[c].state = state /\ ssl[c].path.at = 0
         /\ ~ssl[c].done /\ StateOK(c, ssl[c])
  <1>1. c # 0
    BY ConnsAssumption
  <1>. QED  BY <1>1 DEF At, IInv, TypeOK, StateOK

\* The states are those named.
LEMMA StateNames ==
  /\ {States[i] : i \in DOMAIN States} =
       {"HELLO_REQUEST", "CLIENT_HELLO", "SERVER_HELLO", "SERVER_CERTIFICATE",
        "SERVER_KEY_EXCHANGE", "CERTIFICATE_REQUEST", "SERVER_HELLO_DONE",
        "CLIENT_CERTIFICATE", "CLIENT_KEY_EXCHANGE", "CERTIFICATE_VERIFY",
        "CLIENT_CHANGE_CIPHER_SPEC", "CLIENT_FINISHED", "SERVER_CHANGE_CIPHER_SPEC",
        "SERVER_FINISHED", "FLUSH_BUFFERS", "HANDSHAKE_WRAPUP", "HANDSHAKE_OVER"}
  BY DEF States

\* A context moves on to the next state and is otherwise the same.
LEMMA MovedOn ==
  ASSUME IInv, NEW c \in Conns, NEW state \in {States[i] : i \in DOMAIN States},
         state # "HANDSHAKE_OVER", At(c, state)
  PROVE  /\ Moved(c) \in Context /\ Moved(c).state = After(state) /\ ~Moved(c).done
         /\ Moved(c).session = ssl[c].session /\ Moved(c).resume = ssl[c].resume
         /\ Moved(c).path.at = 0
  <1>1. ssl[c] \in Context /\ ssl[c].state = state /\ ssl[c].path.at = 0 /\ ~ssl[c].done
    BY AtFacts
  <1>2. After(state) \in {States[i] : i \in DOMAIN States}
    BY AfterEach, StateNames
  <1>3. Moved(c) = [ssl[c] EXCEPT !.state = After(state)]
    BY <1>1 DEF Moved
  <1>. QED  BY <1>1, <1>2, <1>3 DEF Context

\* Steps that only go to the next state, before anything is known of the client or
\* when all of it is.
Plain == {"HELLO_REQUEST", "SERVER_CERTIFICATE", "SERVER_KEY_EXCHANGE",
          "CERTIFICATE_REQUEST", "SERVER_HELLO_DONE", "SERVER_CHANGE_CIPHER_SPEC",
          "FLUSH_BUFFERS"}
LEMMA PlainInv ==
  ASSUME IInv, NEW c \in Conns, NEW state \in Plain, At(c, state), Advances(c)
  PROVE  IInv'
  <1>1. state \in {States[i] : i \in DOMAIN States} /\ state # "HANDSHAKE_OVER"
    BY StateNames DEF Plain
  <1>2. ssl[c].state = state /\ StateOK(c, ssl[c])
    BY <1>1, AtFacts
  <1>3. /\ Moved(c) \in Context /\ Moved(c).state = After(state) /\ ~Moved(c).done
        /\ Moved(c).session = ssl[c].session /\ Moved(c).resume = ssl[c].resume
        /\ Moved(c).path.at = 0
    BY <1>1, MovedOn
  <1>4. StateOK(c, Moved(c))
    BY <1>2, <1>3, AfterEach DEF StateOK, Plain, Knows
  <1>5. Step(c, Moved(c))
    BY DEF At, Advances, Goes, Step, Moved
  <1>. QED  BY <1>3, <1>4, <1>5, StepInv

\* A message that is refused: the context, in whatever state it was left, is freed.
LEMMA RefusesInv ==
  ASSUME IInv, NEW c \in Conns, NEW to, running = c, Refuses(c, to) PROVE IInv'
  <1>1. Step(c, Closed(to))
    BY FreshContext DEF Refuses, Step
  <1>. QED  BY <1>1, FreshContext, StepInv

LEMMA ClientHelloInv == ASSUME IInv, NEW c \in Conns, ssl_parse_client_hello(c) PROVE IInv'
  <1> DEFINE s == [Moved(c) EXCEPT !.session.id = inbox.id,
                                   !.session.ciphersuite = Chosen(inbox.suites)]
  <1>1. CASE inbox.type = "client_hello" /\ inbox.suites # {} /\ Takes(c, s)
    <2>1. At(c, "CLIENT_HELLO") /\ "CLIENT_HELLO" \in {States[i] : i \in DOMAIN States}
      BY StateNames DEF ssl_parse_client_hello
    <2>2. /\ Moved(c) \in Context /\ Moved(c).state = "SERVER_HELLO" /\ ~Moved(c).done
          /\ Moved(c).path.at = 0
      BY <2>1, MovedOn, AfterEach
    <2>3. inbox.id \in Names /\ inbox.suites \in Offers
      BY <1>1, <2>1, AtFacts DEF InboxOK
    <2>4. s \in Context /\ s.state = "SERVER_HELLO" /\ s.path.at = 0 /\ ~s.done
      BY <2>2, <2>3 DEF Context, Session
    <2>5. StateOK(c, s)
      BY <2>4 DEF StateOK
    <2>6. Step(c, s)
      BY <1>1, <2>1 DEF At, Takes, Step
    <2>. QED  BY <2>4, <2>5, <2>6, StepInv
  <1>2. CASE Refuses(c, ssl[c])
    BY <1>2, RefusesInv DEF ssl_parse_client_hello, At
  <1>. QED  BY <1>1, <1>2 DEF ssl_parse_client_hello

\* A session is resumed as it is in the cache.
LEMMA ServerHelloInv == ASSUME IInv, NEW c \in Conns, ssl_write_server_hello(c) PROVE IInv'
  <1> DEFINE session == ssl[c].session
             found == cache[First(Matching(session))].session
             got == mbedtls_ssl_cache_get(session)
             resumed == [ssl[c] EXCEPT !.resume = TRUE, !.session = got,
                                       !.state = "SERVER_CHANGE_CIPHER_SPEC"]
             new == [Moved(c) EXCEPT !.session.id = c]
  <1>1. At(c, "SERVER_HELLO") /\ "SERVER_HELLO" \in {States[i] : i \in DOMAIN States}
    BY StateNames DEF ssl_write_server_hello
  <1>2. ssl[c] \in Context /\ ssl[c].path.at = 0 /\ ~ssl[c].done
    BY <1>1, AtFacts
  <1>3. CASE Matching(session) # {} /\ Goes(c, resumed)
    <2>1. cache \in Seq(Entry)
      BY DEF IInv, TypeOK
    <2>2. Matching(session) \in SUBSET Nat /\ Matching(session) \subseteq DOMAIN cache
      BY <2>1 DEF Matching
    <2>3. First(Matching(session)) \in DOMAIN cache
      BY <1>3, <2>2, FirstIn
    <2>4. found \in Session /\ Vouched(found.master)
      <3>1. \A i \in DOMAIN cache : cache[i] \in Entry
        BY <2>1
      <3>2. \A i \in DOMAIN cache : cache[i].session \in Session
        BY <3>1 DEF Entry
      <3>. QED  BY <2>3, <3>2 DEF IInv
    <2>5. got = [session EXCEPT !.master = found.master, !.peer_cert = found.peer_cert]
      BY DEF mbedtls_ssl_cache_get
    <2>6. session \in Session
      BY <1>2 DEF Context
    <2>. HIDE DEF found, session
    <2>7. got \in Session /\ got.master = found.master
      BY <2>4, <2>5, <2>6 DEF Session
    <2>. HIDE DEF got
    <2>8. "SERVER_CHANGE_CIPHER_SPEC" \in {States[i] : i \in DOMAIN States}
      BY StateNames
    <2>9. /\ resumed \in Context /\ resumed.state = "SERVER_CHANGE_CIPHER_SPEC"
          /\ ~resumed.done /\ resumed.resume /\ resumed.session = got
          /\ resumed.path.at = 0
      BY <1>2, <2>7, <2>8 DEF Context
    <2>10. StateOK(c, resumed)
      BY <2>4, <2>7, <2>9 DEF StateOK
    <2>11. Step(c, resumed)
      BY <1>1, <1>3 DEF At, Goes, Step
    <2>. QED  BY <2>9, <2>10, <2>11, StepInv
  <1>4. CASE Goes(c, new)
    <2>1. /\ Moved(c) \in Context /\ Moved(c).state = "SERVER_CERTIFICATE" /\ ~Moved(c).done
          /\ Moved(c).path.at = 0
      BY <1>1, MovedOn, AfterEach
    <2>2. new \in Context /\ new.state = "SERVER_CERTIFICATE" /\ new.path.at = 0 /\ ~new.done
      BY <2>1 DEF Context, Session, Names
    <2>3. StateOK(c, new)
      BY <2>2 DEF StateOK
    <2>4. Step(c, new)
      BY <1>1, <1>4 DEF At, Goes, Step
    <2>. QED  BY <2>2, <2>3, <2>4, StepInv
  <1>. QED  BY <1>3, <1>4 DEF ssl_write_server_hello

\* The state has moved on when a certificate is refused; the context is freed.
LEMMA CertificateInv ==
  ASSUME IInv, NEW c \in Conns, mbedtls_ssl_parse_certificate(c) PROVE IInv'
  <1> DEFINE s == [Moved(c) EXCEPT !.session.peer_cert = inbox.cert,
                                   !.path = [NoPath EXCEPT !.at = 1]]
  <1>1. At(c, "CLIENT_CERTIFICATE") /\ "CLIENT_CERTIFICATE" \in {States[i] : i \in DOMAIN States}
    BY StateNames DEF mbedtls_ssl_parse_certificate
  <1>2. /\ Moved(c) \in Context /\ Moved(c).state = "CLIENT_KEY_EXCHANGE" /\ ~Moved(c).done
        /\ Moved(c).path.at = 0
    BY <1>1, MovedOn, AfterEach
  <1>3. CASE ~verify /\ Advances(c)
    <2>1. Step(c, Moved(c))
      BY <1>1, <1>3 DEF At, Advances, Goes, Step, Moved
    <2>2. StateOK(c, Moved(c))
      BY <1>2, <1>3 DEF StateOK, Shown
    <2>. QED  BY <1>2, <2>1, <2>2, StepInv
  <1>4. CASE inbox.type = "certificate" /\ inbox.cert # << >> /\ Takes(c, s)
    <2>1. inbox.cert \in Seq(Certificates)
      BY <1>1, <1>4, AtFacts DEF InboxOK
    <2>2. PICK path \in [at : Nat, cnt : Nat, ok : BOOLEAN] :
            path = [NoPath EXCEPT !.at = 1] /\ path.at = 1 /\ path.cnt = 0
      <3>1. NoPath \in [at : Nat, cnt : Nat, ok : BOOLEAN] /\ NoPath.cnt = 0
        BY DEF NoPath
      <3> DEFINE first == [NoPath EXCEPT !.at = 1]
      <3>2. first.at = 1 /\ first.cnt = 0 /\ first \in [at : Nat, cnt : Nat, ok : BOOLEAN]
        BY <3>1
      <3>. QED  BY <3>2, Zenon
    <2>3. /\ s \in Context /\ s.state = "CLIENT_KEY_EXCHANGE" /\ ~s.done
          /\ s.session.peer_cert = inbox.cert /\ s.path = path
      BY <1>2, <2>1, <2>2 DEF Context, Session
    <2>4. 1 \in DOMAIN inbox.cert /\ inbox.cert[1] \in Certificates
      BY <1>4, <2>1
    <2>5. Leads(inbox.cert, 1, 0)
      <3> DEFINE alone == [n \in 1..1 |-> inbox.cert[1]]
      <3>1. alone \in [1..(0 + 1) -> Certificates] /\ alone[1] = inbox.cert[1] /\ alone[0 + 1] = inbox.cert[1]
        BY <2>4
      <3>. HIDE DEF alone
      <3>. QED  BY <3>1 DEF Leads
    <2>6. StateOK(c, s)
      BY <2>2, <2>3, <2>4, <2>5, CertificatesAssumption DEF StateOK
    <2>7. Step(c, s)
      BY <1>1, <1>4 DEF At, Takes, Step
    <2>. QED  BY <2>3, <2>6, <2>7, StepInv
  <1>5. CASE Refuses(c, Moved(c))
    BY <1>1, <1>5, RefusesInv DEF At
  <1>. QED  BY <1>3, <1>4, <1>5 DEF mbedtls_ssl_parse_certificate

\* What is known of a chain that is being verified.
LEMMA VerifyingFacts ==
  ASSUME IInv, NEW c \in Conns, Verifying(c)
  PROVE  /\ running = c /\ ssl[c] \in Context /\ StateOK(c, ssl[c])
         /\ ssl[c].session.peer_cert \in Seq(Certificates)
         /\ ssl[c].state = "CLIENT_KEY_EXCHANGE" /\ ~ssl[c].done
         /\ ssl[c].path \in [at : Nat, cnt : Nat, ok : BOOLEAN]
         /\ ssl[c].path.at \in DOMAIN ssl[c].session.peer_cert
         /\ ssl[c].path.cnt \in 0..MAX_INTERMEDIATE_CA
         /\ ssl[c].path.ok => Leads(ssl[c].session.peer_cert, ssl[c].path.at, ssl[c].path.cnt)
  <1>1. running = c /\ ssl[c].path.at # 0 /\ ssl[c] \in Context /\ StateOK(c, ssl[c])
    BY DEF Verifying, IInv, TypeOK
  <1>2. ssl[c].session \in Session /\ ssl[c].path \in [at : Nat, cnt : Nat, ok : BOOLEAN]
    BY <1>1 DEF Context
  <1>. QED  BY <1>1, <1>2 DEF StateOK, Session

LEMMA FailsInv == ASSUME IInv, NEW c \in Conns, running = c, Fails(c) PROVE IInv'
  <1>1. ssl' = [ssl EXCEPT ![c] = Closed(ssl[c])]
    BY DEF Fails
  <1>2. Step(c, Closed(ssl[c]))
    BY <1>1, FreshContext DEF Fails, Step
  <1>. QED  BY <1>2, FreshContext, StepInv

\* The path goes on to the parent that was found.
LEMMA PathGoesOn ==
  ASSUME NEW chain \in Seq(Certificates), NEW i \in DOMAIN chain, NEW k \in Nat,
         Leads(chain, i, k), NEW p \in DOMAIN chain,
         x509_crt_check_parent(chain[i], chain[p], FALSE, k = 0),
         ChildRight(chain[i], chain[p], time)
  PROVE  Leads(chain, p, k + 1)
  <1>1. PICK path \in [1..(k + 1) -> Certificates] :
          /\ path[1] = chain[1] /\ path[k + 1] = chain[i]
          /\ \A j \in 1..k : ValidAt(path[j], time) /\ Issued(path[j + 1], path[j])
    BY DEF Leads
  <1>2. ValidAt(chain[i], time) /\ Issued(chain[p], chain[i])
    BY DEF x509_crt_check_parent, ChildRight, Issued
  <1> DEFINE longer == [n \in 1..(k + 2) |-> IF n = k + 2 THEN chain[p] ELSE path[n]]
  <1>3. longer \in [1..((k + 1) + 1) -> Certificates]
    <2>1. chain[p] \in Certificates
      OBVIOUS
    <2>2. \A n \in 1..(k + 2) : n # k + 2 => path[n] \in Certificates
      BY <1>1
    <2>. QED  BY <2>1, <2>2
  <1>4. longer[1] = chain[1] /\ longer[(k + 1) + 1] = chain[p] /\ longer[k + 1] = chain[i]
    BY <1>1
  <1>5. ASSUME NEW j \in 1..(k + 1)
        PROVE  ValidAt(longer[j], time) /\ Issued(longer[j + 1], longer[j])
    <2>1. CASE j = k + 1
      <3>1. longer[j] = chain[i] /\ longer[j + 1] = chain[p]
        BY <1>4, <2>1
      <3>. QED  BY <1>2, <3>1
    <2>2. CASE j \in 1..k
      <3>1. longer[j] = path[j] /\ longer[j + 1] = path[j + 1]
        BY <2>2
      <3>. QED  BY <1>1, <2>2, <3>1
    <2>. QED  BY <2>1, <2>2
  <1>. HIDE DEF longer
  <1>. QED  BY <1>3, <1>4, <1>5 DEF Leads

LEMMA VerifyChildInv == ASSUME IInv, NEW c \in Conns, x509_crt_verify_child(c) PROVE IInv'
  <1> DEFINE chain == ssl[c].session.peer_cert
             path == ssl[c].path
             above == Parents(chain, path.at, path.cnt)
             parent == First(above)
             right == ChildRight(chain[path.at], chain[parent], time)
             next == [at |-> parent, cnt |-> path.cnt + 1, ok |-> path.ok /\ right]
             s == [ssl[c] EXCEPT !.path = next]
  <1>1. /\ running = c /\ ssl[c] \in Context /\ chain \in Seq(Certificates)
        /\ ssl[c].state = "CLIENT_KEY_EXCHANGE" /\ ~ssl[c].done
        /\ path \in [at : Nat, cnt : Nat, ok : BOOLEAN]
        /\ path.at \in DOMAIN chain /\ path.cnt \in 0..MAX_INTERMEDIATE_CA
        /\ path.ok => Leads(chain, path.at, path.cnt)
    BY VerifyingFacts DEF x509_crt_verify_child
  <1>2. CASE Fails(c)
    BY <1>1, <1>2, FailsInv
  <1>3. CASE above # {} /\ path.cnt + 1 <= MAX_INTERMEDIATE_CA /\ Goes(c, s)
    <2>1. above \in SUBSET Nat /\ above \subseteq DOMAIN chain
      <3>1. above \subseteq DOMAIN chain
        BY Zenon DEF Parents
      <3>2. DOMAIN chain \subseteq Nat
        BY <1>1
      <3>. QED  BY <3>1, <3>2
    <2>2. parent \in above
      BY <1>3, <2>1, FirstIn
    <2>3. /\ parent \in DOMAIN chain /\ parent \in Nat /\ parent > path.at
          /\ x509_crt_check_parent(chain[path.at], chain[parent], FALSE, path.cnt = 0)
      BY <2>1, <2>2 DEF Parents
    <2>4. path.cnt \in Nat /\ path.cnt + 1 \in 0..MAX_INTERMEDIATE_CA
      <3>1. \A m \in Nat : \A n \in 0..m : n \in Nat /\ (n + 1 <= m => n + 1 \in 0..m)
        OBVIOUS
      <3>. QED  BY <1>1, <1>3, <3>1, CertificatesAssumption, Zenon
    <2>5. (path.ok /\ right) => Leads(chain, parent, path.cnt + 1)
      BY <1>1, <2>3, <2>4, PathGoesOn
    <2>6. /\ s \in Context /\ s.state = "CLIENT_KEY_EXCHANGE" /\ ~s.done
          /\ s.session.peer_cert = chain /\ s.path = next
      <3>1. right \in BOOLEAN
        BY DEF ChildRight
      <3>2. next \in [at : Nat, cnt : Nat, ok : BOOLEAN]
        <4>1. (path.ok /\ right) \in BOOLEAN
          OBVIOUS
        <4>2. path.cnt + 1 \in Nat
          BY <2>4
        <4>. HIDE DEF parent, path, right
        <4>. QED  BY <2>3, <4>1, <4>2, Zenon
      <3>. HIDE DEF next
      <3>3. ssl[c] \in Context /\ chain = ssl[c].session.peer_cert
        BY <1>1
      <3>4. ssl[c].state = "CLIENT_KEY_EXCHANGE" /\ ~ssl[c].done
        BY <1>1
      <3>. HIDE DEF chain, path, parent, right, above
      <3>. QED  BY <3>2, <3>3, <3>4 DEF Context
    <2>7. StateOK(c, s)
      <3>1. /\ s.path.at = parent /\ s.path.cnt = path.cnt + 1
            /\ s.path.ok => path.ok /\ right
        <4>1. next.at = parent /\ next.cnt = path.cnt + 1
          OBVIOUS
        <4>2. next.ok => path.ok /\ right
          BY Zenon
        <4>. HIDE DEF next, s
        <4>. QED  BY <2>6, <4>1, <4>2
      <3>. HIDE DEF s, parent, chain, path, right
      <3>2. s.path.at # 0
        <4>1. path.at \in Nat
          BY <1>1
        <4>. QED  BY <2>3, <3>1, <4>1
      <3>. QED  BY <2>3, <2>4, <2>5, <2>6, <3>1, <3>2 DEF StateOK
    <2>8. Step(c, s)
      BY <1>1, <1>3 DEF Goes, Step
    <2>. QED  BY <2>6, <2>7, <2>8, StepInv
  <1>. QED  BY <1>2, <1>3 DEF x509_crt_verify_child

\* A path that ends at what is trusted makes its holder one of those who may come in.
LEMMA PathEnds ==
  ASSUME NEW chain \in Seq(Certificates), NEW i \in DOMAIN chain,
         NEW k \in 0..MAX_INTERMEDIATE_CA, Leads(chain, i, k), time \in Nat \ {0},
         x509_crt_verify_top(chain[i], k, time), chain[1].client_auth
  PROVE  Allowed(chain[1].key)
  <1>1. PICK path \in [1..(k + 1) -> Certificates] :
          /\ path[1] = chain[1] /\ path[k + 1] = chain[i]
          /\ \A j \in 1..k : ValidAt(path[j], time) /\ Issued(path[j + 1], path[j])
    BY DEF Leads
  <1> DEFINE signer == First(Signers(chain[i], k))
             ca == ca_chain[signer]
  <1>2. /\ ValidAt(chain[i], time) /\ Signers(chain[i], k) # {}
        /\ chain[i].subject # ca.subject => ValidAt(ca, time)
    BY DEF x509_crt_verify_top
  <1>3. signer \in Signers(chain[i], k)
    <2>1. Signers(chain[i], k) \in SUBSET Nat
      <3>1. Signers(chain[i], k) \subseteq DOMAIN ca_chain
        BY Zenon DEF Signers
      <3>2. DOMAIN ca_chain \subseteq Nat
        BY CertificatesAssumption
      <3>. QED  BY <3>1, <3>2
    <2>. QED  BY <1>2, <2>1, FirstIn
  <1>4. /\ signer \in DOMAIN ca_chain
        /\ x509_crt_check_parent(chain[i], ca, TRUE, k = 0)
        /\ PathFits(chain[i], ca, k) /\ chain[i].signed_by = ca.key
    BY <1>3 DEF Signers
  <1>5. k \in Nat /\ (k + 1) - 1 = k /\ k + 1 \in 1..(MAX_INTERMEDIATE_CA + 1)
    BY CertificatesAssumption
  <1>. HIDE DEF ca
  <1>6. Anchored(chain[i], ca, k + 1, time)
    BY <1>2, <1>4, <1>5 DEF Anchored, x509_crt_check_parent
  <1>7. PathUp(path, k + 1, time)
    <2>1. \A j \in 1..(k + 1) : ValidAt(path[j], time)
      BY <1>1, <1>2, <1>5
    <2>2. \A j \in 1..((k + 1) - 1) : Issued(path[j + 1], path[j])
      BY <1>1, <1>5
    <2>3. \E n \in DOMAIN ca_chain : Anchored(path[k + 1], ca_chain[n], k + 1, time)
      BY <1>1, <1>4, <1>6 DEF ca
    <2>. QED  BY <1>1, <2>1, <2>2, <2>3 DEF PathUp
  <1>8. Certified(chain[1].key, time)
    BY <1>1, <1>5, <1>7 DEF Certified
  <1>. QED  BY <1>8 DEF Allowed

LEMMA VerifyTopInv == ASSUME IInv, NEW c \in Conns, VerifyTop(c) PROVE IInv'
  <1> DEFINE chain == ssl[c].session.peer_cert
             path == ssl[c].path
             good == /\ path.ok /\ x509_crt_verify_top(chain[path.at], path.cnt, time)
                     /\ chain[1].client_auth
             s == [ssl[c] EXCEPT !.path = NoPath]
  <1>1. /\ running = c /\ ssl[c] \in Context /\ chain \in Seq(Certificates)
        /\ ssl[c].state = "CLIENT_KEY_EXCHANGE" /\ ~ssl[c].done
        /\ path.at \in DOMAIN chain /\ path.cnt \in 0..MAX_INTERMEDIATE_CA
        /\ path.ok => Leads(chain, path.at, path.cnt)
    BY VerifyingFacts DEF VerifyTop
  <1>2. CASE Fails(c)
    BY <1>1, <1>2, FailsInv
  <1>3. CASE good /\ Goes(c, s)
    <2>1. time \in Nat \ {0}
      BY DEF IInv, TypeOK
    <2>2. Allowed(chain[1].key) /\ chain # << >>
      BY <1>1, <1>3, <2>1, PathEnds
    <2>3. /\ s \in Context /\ s.state = "CLIENT_KEY_EXCHANGE" /\ ~s.done
          /\ s.session = ssl[c].session /\ s.path.at = 0
      BY <1>1 DEF Context, NoPath
    <2>4. StateOK(c, s)
      BY <2>2, <2>3 DEF StateOK, Shown
    <2>5. Step(c, s)
      BY <1>1, <1>3 DEF Goes, Step
    <2>. QED  BY <2>3, <2>4, <2>5, StepInv
  <1>. QED  BY <1>2, <1>3 DEF VerifyTop

\* A new session has the secret of its own connection.
LEMMA KeyExchangeInv ==
  ASSUME IInv, NEW c \in Conns, ssl_parse_client_key_exchange(c) PROVE IInv'
  <1> DEFINE s == [Moved(c) EXCEPT !.session.master = c]
  <1>1. CASE Takes(c, s)
    <2>1. At(c, "CLIENT_KEY_EXCHANGE") /\ "CLIENT_KEY_EXCHANGE" \in {States[i] : i \in DOMAIN States}
      BY StateNames DEF ssl_parse_client_key_exchange
    <2>2. /\ Moved(c) \in Context /\ Moved(c).state = "CERTIFICATE_VERIFY" /\ ~Moved(c).done
          /\ Moved(c).session = ssl[c].session /\ Moved(c).path.at = 0
      BY <2>1, MovedOn, AfterEach
    <2>3. Shown(ssl[c])
      BY <2>1, AtFacts DEF StateOK
    <2>4. /\ s \in Context /\ s.state = "CERTIFICATE_VERIFY" /\ ~s.done
          /\ s.session.master = c /\ s.session.peer_cert = ssl[c].session.peer_cert /\ s.path.at = 0
      BY <2>2 DEF Context, Session, Names
    <2>5. StateOK(c, s)
      BY <2>3, <2>4 DEF StateOK, Shown
    <2>6. Step(c, s)
      BY <1>1, <2>1 DEF At, Takes, Step
    <2>. QED  BY <2>4, <2>5, <2>6, StepInv
  <1>2. CASE Refuses(c, ssl[c])
    BY <1>2, RefusesInv DEF ssl_parse_client_key_exchange, At
  <1>. QED  BY <1>1, <1>2 DEF ssl_parse_client_key_exchange

\* Who signs holds the key of the certificate; without one, none was asked for.
LEMMA CertificateVerifyInv ==
  ASSUME IInv, NEW c \in Conns, ssl_parse_certificate_verify(c) PROVE IInv'
  <1> DEFINE peer_cert == ssl[c].session.peer_cert
             right == inbox.type = "certificate_verify" /\ inbox.by = peer_cert[1].key
  <1>1. At(c, "CERTIFICATE_VERIFY") /\ "CERTIFICATE_VERIFY" \in {States[i] : i \in DOMAIN States}
    BY StateNames DEF ssl_parse_certificate_verify
  <1>2. /\ Moved(c) \in Context /\ Moved(c).state = "CLIENT_CHANGE_CIPHER_SPEC"
        /\ ~Moved(c).done /\ Moved(c).session = ssl[c].session /\ Moved(c).path.at = 0
    BY <1>1, MovedOn, AfterEach
  <1>3. running = c /\ InboxOK /\ Shown(ssl[c]) /\ ssl[c].session.master = c
    BY <1>1, AtFacts DEF StateOK
  <1>4. ASSUME peer_cert = << >> \/ right PROVE StateOK(c, Moved(c))
    <2>1. verify => Allowed(client[c].owner)
      BY <1>3, <1>4 DEF InboxOK, Shown
    <2>. QED  BY <1>2, <1>3, <2>1 DEF StateOK, Vouched
  <1>5. CASE peer_cert = << >> /\ Advances(c)
    <2>1. Step(c, Moved(c))
      BY <1>1, <1>5 DEF At, Advances, Goes, Step, Moved
    <2>. QED  BY <1>2, <1>4, <1>5, <2>1, StepInv
  <1>6. CASE right /\ Takes(c, Moved(c))
    <2>1. Step(c, Moved(c))
      BY <1>1, <1>6 DEF At, Takes, Step
    <2>. QED  BY <1>2, <1>4, <1>6, <2>1, StepInv
  <1>7. CASE Refuses(c, Moved(c))
    BY <1>1, <1>7, RefusesInv DEF At
  <1>. QED  BY <1>5, <1>6, <1>7 DEF ssl_parse_certificate_verify

LEMMA ChangeCipherSpecInv ==
  ASSUME IInv, NEW c \in Conns, mbedtls_ssl_parse_change_cipher_spec(c) PROVE IInv'
  <1>1. CASE Takes(c, Moved(c))
    <2>1. /\ At(c, "CLIENT_CHANGE_CIPHER_SPEC")
          /\ "CLIENT_CHANGE_CIPHER_SPEC" \in {States[i] : i \in DOMAIN States}
      BY StateNames DEF mbedtls_ssl_parse_change_cipher_spec
    <2>2. /\ Moved(c) \in Context /\ Moved(c).state = "CLIENT_FINISHED" /\ ~Moved(c).done
          /\ Moved(c).session = ssl[c].session /\ Moved(c).path.at = 0
      BY <2>1, MovedOn, AfterEach
    <2>3. Vouched(ssl[c].session.master)
      BY <2>1, AtFacts DEF StateOK
    <2>4. StateOK(c, Moved(c))
      BY <2>2, <2>3 DEF StateOK
    <2>5. Step(c, Moved(c))
      BY <1>1, <2>1 DEF At, Takes, Step
    <2>. QED  BY <2>2, <2>4, <2>5, StepInv
  <1>2. CASE Refuses(c, ssl[c])
    BY <1>2, RefusesInv DEF mbedtls_ssl_parse_change_cipher_spec, At
  <1>. QED  BY <1>1, <1>2 DEF mbedtls_ssl_parse_change_cipher_spec

\* Who finishes knows the secret; so it is theirs that the session is known by.
LEMMA FinishedInv ==
  ASSUME IInv, NEW c \in Conns, mbedtls_ssl_parse_finished(c) PROVE IInv'
  <1> DEFINE s == [ssl[c] EXCEPT !.state = AfterFinished(ssl[c])]
  <1>1. CASE /\ inbox.type = "finished" /\ inbox.secret = ssl[c].session.master
             /\ Takes(c, s)
    <2>1. At(c, "CLIENT_FINISHED")
      BY DEF mbedtls_ssl_parse_finished
    <2>2. /\ running = c /\ InboxOK /\ ssl[c] \in Context /\ ssl[c].state = "CLIENT_FINISHED"
          /\ ~ssl[c].done /\ ssl[c].path.at = 0 /\ Vouched(ssl[c].session.master)
      BY <2>1, AtFacts DEF StateOK
    <2>3. Knows(c, ssl[c])
      BY <1>1, <2>2 DEF InboxOK, Knows
    <2>4. AfterFinished(ssl[c]) \in {"HANDSHAKE_WRAPUP", "SERVER_CHANGE_CIPHER_SPEC"}
      BY <2>2, AfterEach DEF AfterFinished
    <2>5. /\ s \in Context /\ s.state \in {"HANDSHAKE_WRAPUP", "SERVER_CHANGE_CIPHER_SPEC"}
          /\ ~s.done /\ s.session = ssl[c].session /\ s.path.at = 0
      BY <2>2, <2>4, StateNames DEF Context
    <2>6. StateOK(c, s)
      BY <2>2, <2>3, <2>5 DEF StateOK, Knows
    <2>7. Step(c, s)
      BY <1>1, <2>1 DEF At, Takes, Step
    <2>. QED  BY <2>5, <2>6, <2>7, StepInv
  <1>2. CASE Refuses(c, ssl[c])
    BY <1>2, RefusesInv DEF mbedtls_ssl_parse_finished, At
  <1>. QED  BY <1>1, <1>2 DEF mbedtls_ssl_parse_finished

\* A session that is resumed is still to be finished by the client.
LEMMA WriteFinishedInv ==
  ASSUME IInv, NEW c \in Conns, mbedtls_ssl_write_finished(c) PROVE IInv'
  <1> DEFINE to == IF ssl[c].resume THEN "CLIENT_CHANGE_CIPHER_SPEC" ELSE "FLUSH_BUFFERS"
             s == [ssl[c] EXCEPT !.state = to]
  <1>1. At(c, "SERVER_FINISHED")
    BY DEF mbedtls_ssl_write_finished
  <1>2. /\ ssl[c] \in Context /\ ssl[c].state = "SERVER_FINISHED" /\ ~ssl[c].done /\ ssl[c].path.at = 0
        /\ Vouched(ssl[c].session.master) /\ (ssl[c].resume \/ Knows(c, ssl[c]))
    BY <1>1, AtFacts DEF StateOK
  <1>3. Step(c, s)
    BY <1>1, <1>2, AfterEach DEF mbedtls_ssl_write_finished, At, Goes, Step
  <1>4. /\ s \in Context /\ s.state = to /\ ~s.done /\ s.path.at = 0 /\ s.session = ssl[c].session
    BY <1>2, StateNames DEF Context
  <1>5. StateOK(c, s)
    BY <1>2, <1>4 DEF StateOK, Knows
  <1>. QED  BY <1>3, <1>4, <1>5, StepInv

\* What is in the cache after a session was put there was in it before, or is that
\* session; wherever it went.
LEMMA CacheSet ==
  ASSUME NEW entries \in Seq(Entry), NEW s \in Session, time \in Nat
  PROVE  /\ mbedtls_ssl_cache_set(entries, s) \in Seq(Entry)
         /\ \A i \in DOMAIN mbedtls_ssl_cache_set(entries, s) :
              \/ mbedtls_ssl_cache_set(entries, s)[i].session = s
              \/ \E j \in DOMAIN entries :
                   mbedtls_ssl_cache_set(entries, s)[i].session = entries[j].session
  <1> DEFINE entry == [session |-> s, timestamp |-> time]
             Good(new) == /\ new \in Seq(Entry)
                          /\ \A i \in DOMAIN new :
                               \/ new[i].session = s
                               \/ \E j \in DOMAIN entries : new[i].session = entries[j].session
  <1>1. entry \in Entry /\ entry.session = s
    BY DEF Entry
  <1>2. Good(entries)
    OBVIOUS
  <1>3. ASSUME NEW k, NEW e \in Entry, e.session = s PROVE Good([entries EXCEPT ![k] = e])
    <2> DEFINE new == [entries EXCEPT ![k] = e]
    <2>1. CASE k \in 1..Len(entries)
      <3>1. new \in Seq(Entry) /\ Len(new) = Len(entries)
              /\ \A j \in 1..Len(entries) : new[j] = IF j = k THEN e ELSE entries[j]
        BY <1>3, <2>1, ExceptSeq
      <3>. QED  BY <1>3, <3>1
    <2>2. CASE k \notin 1..Len(entries)
      <3>1. new = entries
        BY <2>2
      <3>. QED  BY <1>2, <3>1
    <2>. QED  BY <2>1, <2>2
  <1>4. ASSUME NEW k PROVE Good([entries EXCEPT ![k].session = s])
    <2>1. CASE k \in DOMAIN entries
      <3> DEFINE e == [entries[k] EXCEPT !.session = s]
      <3>1. entries[k] \in Entry
        BY <2>1
      <3>2. e \in Entry /\ e.session = s
        BY <3>1 DEF Entry
      <3>3. [entries EXCEPT ![k].session = s] = [entries EXCEPT ![k] = e]
        OBVIOUS
      <3>. HIDE DEF e, Good
      <3>. QED  BY <1>3, <3>2, <3>3
    <2>2. CASE k \notin DOMAIN entries
      <3>1. [entries EXCEPT ![k].session = s] = entries
        BY <2>2
      <3>. QED  BY <1>2, <3>1
    <2>. QED  BY <2>1, <2>2
  <1>5. Good(Append(entries, entry))
    <2>1. /\ Append(entries, entry) \in Seq(Entry)
          /\ Len(Append(entries, entry)) = Len(entries) + 1
          /\ \A i \in 1..Len(entries) : Append(entries, entry)[i] = entries[i]
          /\ Append(entries, entry)[Len(entries) + 1] = entry
      BY <1>1, AppendProperties
    <2>2. DOMAIN Append(entries, entry) = 1..(Len(entries) + 1)
      BY <2>1
    <2>. QED  BY <1>1, <2>1, <2>2
  <1>. HIDE DEF Good
  <1>6. Good(mbedtls_ssl_cache_set(entries, s))
    BY <1>1, <1>2, <1>3, <1>4, <1>5 DEF mbedtls_ssl_cache_set
  <1>. QED  BY <1>6 DEF Good

\* What goes to the cache was made by somebody who may come in.
LEMMA WrapupInv ==
  ASSUME IInv, NEW c \in Conns, mbedtls_ssl_handshake_wrapup(c) PROVE IInv'
  <1> DEFINE s == [Moved(c) EXCEPT !.resume = FALSE, !.over_at = time]
             session == ssl[c].session
             kept == Kept(session)
  <1>1. At(c, "HANDSHAKE_WRAPUP") /\ "HANDSHAKE_WRAPUP" \in {States[i] : i \in DOMAIN States}
    BY StateNames DEF mbedtls_ssl_handshake_wrapup
  <1>2. /\ running = c /\ InboxOK /\ Vouched(session.master) /\ Knows(c, ssl[c])
        /\ session \in Session
    BY <1>1, AtFacts DEF StateOK, Context
  <1>13. kept \in Session /\ kept.master = session.master
    <2>1. CASE session.peer_cert = << >>
      BY <1>2, <2>1 DEF Kept
    <2>2. CASE session.peer_cert # << >>
      <3>1. session.peer_cert \in Seq(Certificates)
        BY <1>2 DEF Session
      <3>2. <<Head(session.peer_cert)>> \in Seq(Certificates)
        BY <2>2, <3>1
      <3>. QED  BY <1>2, <2>2, <3>2 DEF Kept, Session
    <2>. QED  BY <2>1, <2>2
  <1>3. /\ Moved(c) \in Context /\ Moved(c).state = "HANDSHAKE_OVER" /\ ~Moved(c).done
        /\ Moved(c).session = session /\ Moved(c).path.at = 0
    BY <1>1, MovedOn, AfterEach
  <1>4. time \in Nat /\ cache \in Seq(Entry)
    BY DEF IInv, TypeOK
  <1>5. s \in Context /\ s.state = "HANDSHAKE_OVER" /\ ~s.done /\ s.session = session
        /\ s.path.at = 0
    BY <1>3, <1>4 DEF Context
  <1>6. StateOK(c, s)
    BY <1>2, <1>5 DEF StateOK, Knows
  <1>7. /\ cache' = mbedtls_ssl_cache_set(cache, kept) \/ cache' = cache
        /\ ssl' = [ssl EXCEPT ![c] = s] /\ UNCHANGED <<verify, time, running, inbox, client>>
    BY DEF mbedtls_ssl_handshake_wrapup
  <1>8. /\ cache' \in Seq(Entry)
        /\ \A i \in DOMAIN cache' :
             cache'[i].session = kept
               \/ \E j \in DOMAIN cache : cache'[i].session = cache[j].session
    BY <1>4, <1>7, <1>13, CacheSet
  <1>. HIDE DEF s, session, kept
  <1>9. TypeOK'
    BY <1>5, <1>7, <1>8 DEF IInv, TypeOK
  <1>10. InboxOK'
    BY <1>2, <1>7 DEF InboxOK, MadeBy
  <1>11. ASSUME NEW i \in DOMAIN cache' PROVE Vouched(cache[i].session.master)'
    <2>1. Vouched(cache'[i].session.master)
      BY <1>2, <1>8, <1>11, <1>13 DEF IInv
    <2>. QED  BY <1>7, <2>1 DEF Vouched, Allowed
  <1>12. ASSUME NEW d \in Conns PROVE StateOK(d, ssl[d])'
    <2>1. StateOK(d, ssl'[d])
      BY <1>6, <1>7, <1>12 DEF IInv, TypeOK
    <2>. QED  BY <1>7, <2>1 DEF StateOK, Leads, Shown, Vouched, Allowed, Knows, MadeBy
  <1>14. ASSUME NEW d \in Conns, ssl'[d].path.at # 0 PROVE running' = d
    BY <1>5, <1>7, <1>14 DEF IInv, TypeOK
  <1>. QED  BY <1>9, <1>10, <1>11, <1>12, <1>14 DEF IInv

LEMMA DoneInv == ASSUME IInv, NEW c \in Conns, HandshakeDone(c) PROVE IInv'
  <1> DEFINE s == [ssl[c] EXCEPT !.done = TRUE]
  <1>1. ssl[c] \in Context /\ ssl[c].state = "HANDSHAKE_OVER" /\ StateOK(c, ssl[c])
        /\ ssl[c].path.at = 0
    BY DEF HandshakeDone, At, IInv, TypeOK
  <1>2. /\ s \in Context /\ s.state = "HANDSHAKE_OVER" /\ s.session = ssl[c].session
        /\ s.path.at = 0
    BY <1>1 DEF Context
  <1>3. StateOK(c, s)
    BY <1>1, <1>2 DEF StateOK, Knows
  <1>4. Step(c, s)
    BY <1>2 DEF HandshakeDone, At, Step
  <1>. QED  BY <1>2, <1>3, <1>4, StepInv

\* The callback has nothing more to read.
LEMMA WantReadInv == ASSUME IInv, NEW c \in Conns, WantRead(c) PROVE IInv'
  <1>1. ssl[c] \in Context /\ StateOK(c, ssl[c]) /\ ssl \in [Conns -> Context]
    BY DEF IInv, TypeOK
  <1>2. Step(c, ssl[c])
    BY <1>1 DEF WantRead, Step
  <1>. QED  BY <1>1, <1>2, StepInv

LEMMA StepsInv == ASSUME IInv, NEW c \in Conns, HandshakeStep(c) PROVE IInv'
  <1>1. CASE \E state \in Plain : At(c, state) /\ Advances(c)
    BY <1>1, PlainInv
  <1>2. CASE \/ HelloRequest(c) \/ mbedtls_ssl_write_certificate(c)
             \/ ssl_write_server_key_exchange(c) \/ ssl_write_certificate_request(c)
             \/ ssl_write_server_hello_done(c) \/ mbedtls_ssl_write_change_cipher_spec(c)
             \/ FlushBuffers(c)
    <2>1. \E state \in Plain : At(c, state) /\ Advances(c)
      BY <1>2 DEF Plain, HelloRequest, mbedtls_ssl_write_certificate,
                  ssl_write_server_key_exchange, ssl_write_certificate_request,
                  ssl_write_server_hello_done, mbedtls_ssl_write_change_cipher_spec,
                  FlushBuffers
    <2>. QED  BY <1>1, <2>1
  <1>. QED  BY <1>2, WantReadInv, ClientHelloInv, ServerHelloInv, CertificateInv, VerifyChildInv,
               VerifyTopInv, KeyExchangeInv, CertificateVerifyInv, ChangeCipherSpecInv,
               FinishedInv, WriteFinishedInv, WrapupInv, DoneInv DEF HandshakeStep

\* What a message of a client can be.
MessageOK(c, m) ==
  /\ m.type = "client_hello" => m.id \in Names /\ m.suites \in Offers
  /\ m.type = "certificate" => m.cert \in Seq(Certificates)
  /\ m.type = "certificate_verify" => m.by = client[c].owner
  /\ m.type = "finished" => m.secret \in MadeBy(client[c].owner)

LEMMA HelloMessages == ASSUME NEW c \in Conns, NEW m \in Hellos PROVE MessageOK(c, m)
  <1>1. /\ m.type = "client_hello" /\ m.id \in Names /\ m.suites \in Offers
    BY DEF Hellos, Names
  <1>. QED  BY <1>1 DEF MessageOK

\* One that keeps to the protocol sends nothing it is not able to.
LEMMA RegularMessages ==
  ASSUME IInv, NEW c \in Conns, NEW n \in 1..Len(Regular(c)), Able(c, Regular(c)[n])
  PROVE  MessageOK(c, Regular(c)[n])
  <1> DEFINE certificate == [type |-> "certificate", cert |-> chain_of[client[c].owner]]
             key_exchange == [type |-> "client_key_exchange"]
             signed == [type |-> "certificate_verify", by |-> client[c].owner]
             ccs == [type |-> "change_cipher_spec"]
             finished == [type |-> "finished",
                          secret |-> IF ssl[c].resume THEN ssl[c].session.id ELSE c]
  <1>1. chain_of[client[c].owner] \in Seq(Certificates)
    BY PeopleAssumption DEF IInv, TypeOK
  <1>2. MessageOK(c, certificate) /\ MessageOK(c, key_exchange) /\ MessageOK(c, signed)
          /\ MessageOK(c, ccs)
    BY <1>1 DEF MessageOK
  <1>3. Able(c, finished) => MessageOK(c, finished)
    BY DEF MessageOK, Able
  <1>4. \/ Regular(c) = <<ccs, finished>>
        \/ Regular(c) = <<certificate, key_exchange, signed, ccs, finished>>
        \/ Regular(c) = <<key_exchange, ccs, finished>>
    BY DEF Regular
  <1>. HIDE DEF certificate, key_exchange, signed, ccs, finished
  <1>5. Regular(c)[n] \in {certificate, key_exchange, signed, ccs, finished}
    <2>1. CASE Regular(c) = <<ccs, finished>>
      BY <2>1
    <2>2. CASE Regular(c) = <<certificate, key_exchange, signed, ccs, finished>>
      BY <2>2
    <2>3. CASE Regular(c) = <<key_exchange, ccs, finished>>
      BY <2>3
    <2>. QED  BY <1>4, <2>1, <2>2, <2>3
  <1>. QED  BY <1>2, <1>3, <1>5

LEMMA OtherMessages ==
  ASSUME IInv, NEW c \in Conns, NEW m \in Others(c) PROVE MessageOK(c, m)
  <1>1. CASE m \in {[type |-> "certificate", cert |-> chain] : chain \in Chains}
    <2>1. m.type = "certificate" /\ m.cert \in Seq(Certificates)
      BY <1>1, PeopleAssumption
    <2>. QED  BY <2>1 DEF MessageOK
  <1>2. CASE m \in {[type |-> "client_key_exchange"], [type |-> "other"]}
    BY <1>2 DEF MessageOK
  <1>3. CASE m \in {[type |-> "finished", secret |-> o] : o \in MadeBy(client[c].owner)}
    <2>1. m.type = "finished" /\ m.secret \in MadeBy(client[c].owner)
      BY <1>3
    <2>. QED  BY <2>1 DEF MessageOK
  <1>. QED  BY <1>1, <1>2, <1>3 DEF Others

\* Who may come in may also come in later.
LEMMA SameOwners ==
  ASSUME IInv, verify' = verify, time' \in {time, time + 1},
         \A d \in Conns : client'[d].owner = client[d].owner
  PROVE  /\ \A p : Allowed(p) => Allowed(p)'
         /\ \A m : Vouched(m) => Vouched(m)'
         /\ \A d \in Conns : MadeBy(client[d].owner)' = MadeBy(client[d].owner)
  <1>1. 1..time \subseteq 1..time'
    BY DEF IInv, TypeOK
  <1>2. \A p : Allowed(p) => Allowed(p)'
    BY <1>1 DEF Allowed
  <1>3. ASSUME NEW m, Vouched(m) PROVE Vouched(m)'
    <2>1. m \in Conns /\ (verify' => Allowed(client[m].owner))
      BY <1>3 DEF Vouched
    <2>2. client'[m].owner = client[m].owner
      BY <2>1
    <2>3. verify' => \E t \in 1..time' : Certified(client'[m].owner, t)
      BY <1>1, <2>1, <2>2 DEF Allowed
    <2>. QED  BY <2>1, <2>3 DEF Vouched, Allowed
  <1>4. \A d \in Conns : MadeBy(client[d].owner)' = MadeBy(client[d].owner)
    BY DEF MadeBy
  <1>. QED  BY <1>2, <1>3, <1>4

\* What is known of a context is still so, if its certificates are not being verified
\* while the clock goes on.
LEMMA StillOK ==
  ASSUME IInv, verify' = verify, time' \in {time, time + 1},
         \A d \in Conns : client'[d].owner = client[d].owner,
         NEW d \in Conns, NEW s, s = ssl'[d], StateOK(d, s),
         time' = time \/ s.path.at = 0
  PROVE  StateOK(d, ssl[d])'
  <1>1. Shown(s) => Shown(s)'
    BY SameOwners DEF Shown
  <1>2. Vouched(s.session.master) => Vouched(s.session.master)'
    BY SameOwners
  <1>3. Knows(d, s) => Knows(d, s)'
    BY SameOwners DEF Knows
  <1>4. s.path.at # 0 /\ Leads(s.session.peer_cert, s.path.at, s.path.cnt)
          => Leads(s.session.peer_cert, s.path.at, s.path.cnt)'
    BY DEF Leads
  <1>5. StateOK(d, s)'
    BY <1>1, <1>2, <1>3, <1>4 DEF StateOK
  <1>. QED  BY <1>5 DEF StateOK, Shown, Vouched, Allowed, Knows, MadeBy, Leads

LEMMA ReadInv == ASSUME IInv, NEW c \in Conns, Read(c) PROVE IInv'
  <1>1. PICK m : \E regular \in BOOLEAN : Receives(c, m, regular) /\ MessageOK(c, m)
    <2>1. ASSUME NEW m \in Hellos, Receives(c, m, RegularHello(c, m))
          PROVE  \E regular \in BOOLEAN : Receives(c, m, regular) /\ MessageOK(c, m)
      <3>1. RegularHello(c, m) \in BOOLEAN
        BY DEF RegularHello
      <3>. QED  BY <2>1, <3>1, HelloMessages
    <2>2. ASSUME NEW n \in 1..Len(Regular(c)), Able(c, Regular(c)[n]),
                 Receives(c, Regular(c)[n], TRUE)
          PROVE  \E m : \E regular \in BOOLEAN : Receives(c, m, regular) /\ MessageOK(c, m)
      BY <2>2, RegularMessages
    <2>3. ASSUME NEW m \in Others(c), Receives(c, m, FALSE)
          PROVE  \E regular \in BOOLEAN : Receives(c, m, regular) /\ MessageOK(c, m)
      BY <2>3, OtherMessages
    <2>. QED  BY <2>1, <2>2, <2>3 DEF Read
  <1>0. PICK regular \in BOOLEAN : Receives(c, m, regular) /\ MessageOK(c, m)
    BY <1>1
  <1>2. /\ running' = c /\ inbox' = m /\ UNCHANGED <<verify, time, cache>>
        /\ ssl' = [ssl EXCEPT ![c].messages = @ + 1]
        /\ client' = [client EXCEPT ![c].regular = @ /\ regular]
    BY <1>0 DEF Receives, Read
  <1>3. /\ ssl \in [Conns -> Context] /\ client \in [Conns -> [owner : People, regular : BOOLEAN]]
    BY DEF IInv, TypeOK
  <1>4. /\ client' \in [Conns -> [owner : People, regular : BOOLEAN]]
        /\ \A d \in Conns : client'[d].owner = client[d].owner
    BY <1>0, <1>2, <1>3
  <1>5. ssl' \in [Conns -> Context]
    BY <1>2, <1>3 DEF Context
  <1>10. running = 0
    BY DEF Read
  <1>6. ASSUME NEW d \in Conns PROVE StateOK(d, ssl[d])' /\ ssl'[d].path.at = 0
    <2>1. /\ ssl'[d].state = ssl[d].state /\ ssl'[d].session = ssl[d].session
          /\ ssl'[d].resume = ssl[d].resume /\ ssl'[d].done = ssl[d].done
          /\ ssl'[d].path = ssl[d].path
      BY <1>2, <1>3 DEF Context
    <2>2. StateOK(d, ssl[d]) /\ ssl[d].path.at = 0
      BY <1>10, ConnsAssumption DEF IInv
    <2>3. StateOK(d, ssl'[d])
      BY <2>1, <2>2 DEF StateOK, Shown, Knows
    <2>. QED  BY <1>2, <1>4, <2>1, <2>2, <2>3, StillOK
  <1>7. TypeOK'
    BY <1>2, <1>4, <1>5 DEF IInv, TypeOK, Names
  <1>8. InboxOK'
    <2>1. MadeBy(client[c].owner)' = MadeBy(client[c].owner)
      BY <1>2, <1>4 DEF MadeBy
    <2>. QED  BY <1>0, <1>2, <1>4, <2>1 DEF InboxOK, MessageOK
  <1>9. (\A i \in DOMAIN cache : Vouched(cache[i].session.master))'
    BY <1>2, <1>4, SameOwners DEF IInv
  <1>. QED  BY <1>6, <1>7, <1>8, <1>9 DEF IInv

LEMMA ReadEofInv == ASSUME IInv, NEW c \in Conns, ReadEof(c) PROVE IInv'
  <1>1. /\ ssl' = [ssl EXCEPT ![c] = Closed(@)] /\ UNCHANGED <<verify, time, cache, running, inbox>>
        /\ client' = [client EXCEPT ![c].regular = FALSE] /\ running = 0
    BY DEF ReadEof
  <1>2. /\ ssl \in [Conns -> Context] /\ client \in [Conns -> [owner : People, regular : BOOLEAN]]
    BY DEF IInv, TypeOK
  <1>3. /\ client' \in [Conns -> [owner : People, regular : BOOLEAN]]
        /\ \A d \in Conns : client'[d].owner = client[d].owner
    BY <1>1, <1>2
  <1>4. ssl' \in [Conns -> Context]
    BY <1>1, <1>2, FreshContext
  <1>5. ASSUME NEW d \in Conns PROVE StateOK(d, ssl[d])' /\ ssl'[d].path.at = 0
    <2>1. StateOK(d, ssl[d]) /\ ssl[d].path.at = 0
      BY <1>1, ConnsAssumption DEF IInv
    <2>2. StateOK(d, ssl'[d]) /\ ssl'[d].path.at = 0
      BY <1>1, <1>2, <2>1, FreshContext
    <2>. QED  BY <1>1, <1>3, <2>2, StillOK
  <1>6. TypeOK'
    BY <1>1, <1>3, <1>4 DEF IInv, TypeOK
  <1>7. (\A i \in DOMAIN cache : Vouched(cache[i].session.master))'
    BY <1>1, <1>3, SameOwners DEF IInv
  <1>. QED  BY <1>1, <1>5, <1>6, <1>7 DEF IInv

\* The clock goes on, or nothing happens.
LEMMA TickInv == ASSUME IInv, Tick \/ UNCHANGED vars PROVE IInv'
  <1>1. /\ UNCHANGED <<verify, cache, running, inbox, ssl, client>>
        /\ time' = time \/ time' = time + 1
    BY DEF Tick, vars
  <1>2. TypeOK'
    BY <1>1 DEF IInv, TypeOK
  <1>3. ASSUME running # 0 PROVE InboxOK'
    BY <1>1, <1>3 DEF IInv, InboxOK, MadeBy
  <1>4. (\A i \in DOMAIN cache : Vouched(cache[i].session.master))'
    BY <1>1, SameOwners DEF IInv
  <1>5. ASSUME NEW d \in Conns
        PROVE  StateOK(d, ssl[d])' /\ (ssl'[d].path.at # 0 => running' = d)
    <2>1. StateOK(d, ssl'[d]) /\ (ssl'[d].path.at # 0 => running = d)
      BY <1>1 DEF IInv
    <2>2. time' = time \/ ssl'[d].path.at = 0
      BY <1>1, <2>1, ConnsAssumption DEF Tick, vars
    <2>. QED  BY <1>1, <2>1, <2>2, StillOK
  <1>. QED  BY <1>1, <1>2, <1>3, <1>4, <1>5 DEF IInv

LEMMA NextInv == ASSUME IInv, [Next]_vars PROVE IInv'
  BY TickInv, ReadInv, ReadEofInv, StepsInv DEF Next

-----------------------------------------------------------------------------
\* A connection that carries requests is with somebody who knows the secret of its
\* session and, if clax verifies, holds the key of a certificate from which a path leads,
\* or led, to what clax trusts: whichever sessions are resumed, whatever is sent along,
\* however the messages come and whatever is refused
\* (mbedtls_ssl_handshake_server_step, mbedtls_x509_crt_verify_with_profile,
\* mbedtls_ssl_cache_get, clax_conn_uv_read_cb).
THEOREM AlwaysAuthenticated == Spec => []Authenticated
  <1>1. IInv /\ [Next]_vars => IInv'
    BY NextInv
  <1>. QED  BY InitInv, <1>1, IInvAuthenticated, PTL DEF Spec

-----------------------------------------------------------------------------
(* The cache of sessions.                                                  *)

Resuming == {"SERVER_CHANGE_CIPHER_SPEC", "SERVER_FINISHED", "CLIENT_CHANGE_CIPHER_SPEC",
             "CLIENT_FINISHED", "HANDSHAKE_WRAPUP"}
Keyed == Resuming \cup {"CERTIFICATE_VERIFY", "FLUSH_BUFFERS"}
Named == Keyed \cup {"SERVER_CERTIFICATE", "SERVER_KEY_EXCHANGE", "CERTIFICATE_REQUEST",
                     "SERVER_HELLO_DONE", "CLIENT_CERTIFICATE", "CLIENT_KEY_EXCHANGE"}

\* A session that is not resumed is named for its connection, and later has its secret.
SessionOK(c, s) ==
  /\ s.resume => s.state \in Resuming
  /\ ~s.resume /\ s.state \in Named => s.session.id = c
  /\ ~s.resume /\ s.state \in Keyed => s.session.master = c

\* A cached session is that of a handshake which is over, and as old as that.
EntryOK(e) ==
  /\ e.session.id \in Conns /\ e.session.master = e.session.id
  /\ ssl[e.session.id].state = "HANDSHAKE_OVER" /\ ssl[e.session.id].over_at = e.timestamp

CInv ==
  /\ Len(cache) <= MAX_ENTRIES
  /\ \A i, j \in DOMAIN cache : cache[i].session.id = cache[j].session.id => i = j
  /\ \A i \in DOMAIN cache : EntryOK(cache[i])
  /\ \A c \in Conns : SessionOK(c, ssl[c])
  /\ \A c \in Conns : ssl[c].state = "HANDSHAKE_OVER" => ssl[c].done \/ running = c

\* Both invariants.
BInv == IInv /\ CInv

\* What a step does to the cache, and to whom it resumes a session.
Remembers ==
  \A i \in DOMAIN cache :
    cache[i].session.id \in IdsOf(cache') \/ IsOutdated(cache[i], time)
      \/ (Len(cache) = MAX_ENTRIES /\ IsOldest(cache[i]))
ResumesFresh ==
  \A c \in Conns : ssl'[c].resume /\ ~ssl[c].resume =>
    TIMEOUT = 0 \/ time - ssl[ssl'[c].session.master].over_at <= TIMEOUT

LEMMA InitCInv == Init => CInv
  <1>. SUFFICES ASSUME Init PROVE CInv
    OBVIOUS
  <1>1. Len(cache) = 0 /\ DOMAIN cache = {}
    BY DEF Init
  <1>2. Len(cache) <= MAX_ENTRIES
    BY <1>1, CacheAssumption
  <1>3. ~clax_ssl_init_ctx.resume /\ clax_ssl_init_ctx.state = "HELLO_REQUEST"
    BY DEF clax_ssl_init_ctx
  <1>4. \A c \in Conns : SessionOK(c, ssl[c]) /\ ssl[c].state # "HANDSHAKE_OVER"
    BY <1>3 DEF Init, SessionOK, Named, Keyed, Resuming
  <1>. QED  BY <1>1, <1>2, <1>4 DEF CInv

\* A step of a connection whose handshake is not over, or stays so, leaves the cache as
\* it is and knows its session.
LEMMA StepCInv ==
  ASSUME IInv, CInv, NEW c \in Conns, NEW s \in Context, Step(c, s), SessionOK(c, s),
         ssl[c].state = "HANDSHAKE_OVER"
           => s.state = "HANDSHAKE_OVER" /\ s.over_at = ssl[c].over_at,
         s.state = "HANDSHAKE_OVER" => s.done
  PROVE  CInv'
  <1>1. /\ cache' = cache /\ ssl \in [Conns -> Context] /\ ssl' = [ssl EXCEPT ![c] = s]
        /\ running = c /\ running' \in {c, 0} /\ ssl'[c] = s
    BY DEF Step, IInv, TypeOK
  <1>2. ASSUME NEW i \in DOMAIN cache PROVE EntryOK(cache[i])'
    <2>1. EntryOK(cache[i])
      BY <1>2 DEF CInv
    <2>. QED  BY <1>1, <2>1 DEF EntryOK
  <1>3. ASSUME NEW d \in Conns PROVE SessionOK(d, ssl'[d])
    BY <1>1, <1>3 DEF CInv
  <1>4. ASSUME NEW d \in Conns, ssl'[d].state = "HANDSHAKE_OVER" PROVE ssl'[d].done
    <2>1. CASE d = c
      BY <1>1, <1>4, <2>1
    <2>2. CASE d # c
      BY <1>1, <1>4, <2>2 DEF CInv
    <2>. QED  BY <2>1, <2>2
  <1>. QED  BY <1>1, <1>2, <1>3, <1>4 DEF CInv, SessionOK

\* It resumes nothing, unless it says so.
LEMMA StepResumes ==
  ASSUME IInv, NEW c \in Conns, NEW s, Step(c, s), s.resume => ssl[c].resume
  PROVE  ResumesFresh
  BY DEF Step, IInv, TypeOK, ResumesFresh

\* What a step of HandshakeStep but the last keeps.
Keeps == cache' = cache /\ CInv' /\ ResumesFresh

\* A context that goes on to another state with the session it had.
LEMMA GoesOnKeeps ==
  ASSUME BInv, NEW c \in Conns, NEW s \in Context, Step(c, s), SessionOK(c, s),
         ssl[c].state # "HANDSHAKE_OVER", s.state # "HANDSHAKE_OVER",
         s.resume => ssl[c].resume
  PROVE  Keeps
  BY StepCInv, StepResumes DEF BInv, Keeps, Step

\* One that is freed.
LEMMA ClosedKeeps ==
  ASSUME BInv, NEW c \in Conns, NEW to, Step(c, Closed(to)), ssl[c].state # "HANDSHAKE_OVER"
  PROVE  Keeps
  <1>1. ~Closed(to).resume /\ Closed(to).state = "HELLO_REQUEST" /\ Closed(to) \in Context
    BY FreshContext DEF Closed, clax_ssl_init_ctx
  <1>2. SessionOK(c, Closed(to))
    BY <1>1 DEF SessionOK, Named, Keyed, Resuming
  <1>. QED  BY <1>1, <1>2, GoesOnKeeps

LEMMA RefusesKeeps ==
  ASSUME BInv, NEW c \in Conns, NEW to, running = c, ssl[c].state # "HANDSHAKE_OVER",
         Refuses(c, to) \/ Fails(c)
  PROVE  Keeps
  <1>1. CASE Refuses(c, to)
    <2>1. Step(c, Closed(to))
      BY <1>1, FreshContext DEF Refuses, Step
    <2>. QED  BY <2>1, ClosedKeeps
  <1>2. CASE Fails(c)
    <2>1. ssl' = [ssl EXCEPT ![c] = Closed(ssl[c])]
      BY <1>2 DEF Fails
    <2>2. Step(c, Closed(ssl[c]))
      BY <1>2, <2>1, FreshContext DEF Fails, Step
    <2>. QED  BY <2>2, ClosedKeeps
  <1>. QED  BY <1>1, <1>2

\* What is known of a connection in the middle of its handshake.
LEMMA AtSession ==
  ASSUME BInv, NEW c \in Conns, NEW state \in {States[i] : i \in DOMAIN States},
         state # "HANDSHAKE_OVER", At(c, state)
  PROVE  /\ running = c /\ ssl[c] \in Context /\ ssl[c].session \in Session
         /\ ssl[c].state = state /\ SessionOK(c, ssl[c])
         /\ Moved(c) \in Context /\ Moved(c).state = After(state)
         /\ Moved(c).session = ssl[c].session /\ Moved(c).resume = ssl[c].resume
  BY AtFacts, MovedOn DEF BInv, CInv, Context

\* The states in which a new session has nothing yet or keeps what it has.
LEMMA MovedKeeps ==
  ASSUME BInv, NEW c \in Conns, NEW state \in {States[i] : i \in DOMAIN States},
         state \notin {"HANDSHAKE_OVER", "HANDSHAKE_WRAPUP", "SERVER_HELLO", "CLIENT_KEY_EXCHANGE"},
         At(c, state), Advances(c) \/ Takes(c, Moved(c)),
         ssl[c].resume => state \in {"CLIENT_CHANGE_CIPHER_SPEC", "SERVER_CHANGE_CIPHER_SPEC"}
  PROVE  Keeps
  <1>1. /\ running = c /\ ssl[c].state = state /\ SessionOK(c, ssl[c])
        /\ Moved(c) \in Context /\ Moved(c).state = After(state)
        /\ Moved(c).session = ssl[c].session /\ Moved(c).resume = ssl[c].resume
    BY AtSession
  <1>2. Step(c, Moved(c))
    BY <1>1 DEF Advances, Goes, Takes, Step, Moved
  <1>3. SessionOK(c, Moved(c)) /\ Moved(c).state # "HANDSHAKE_OVER"
    BY <1>1, AfterEach, StateNames DEF SessionOK, Named, Keyed, Resuming
  <1>. QED  BY <1>1, <1>2, <1>3, GoesOnKeeps

\* The name a client says hello with is not yet that of the session.
LEMMA ClientHelloKeeps == ASSUME BInv, NEW c \in Conns, ssl_parse_client_hello(c) PROVE Keeps
  <1> DEFINE s == [Moved(c) EXCEPT !.session.id = inbox.id,
                                   !.session.ciphersuite = Chosen(inbox.suites)]
  <1>1. At(c, "CLIENT_HELLO") /\ "CLIENT_HELLO" \in {States[i] : i \in DOMAIN States}
    BY StateNames DEF ssl_parse_client_hello
  <1>2. /\ running = c /\ ssl[c].state = "CLIENT_HELLO" /\ SessionOK(c, ssl[c])
        /\ Moved(c) \in Context /\ Moved(c).state = "SERVER_HELLO"
        /\ Moved(c).resume = ssl[c].resume
    BY <1>1, AtSession, AfterEach
  <1>3. ~ssl[c].resume
    BY <1>2 DEF SessionOK, Resuming
  <1>4. CASE inbox.type = "client_hello" /\ inbox.suites # {} /\ Takes(c, s)
    <2>1. inbox.id \in Names /\ inbox.suites \in Offers
      BY <1>1, <1>4, AtFacts DEF InboxOK, BInv
    <2>2. s \in Context /\ s.state = "SERVER_HELLO" /\ ~s.resume
      BY <1>2, <1>3, <2>1 DEF Context, Session
    <2>3. SessionOK(c, s)
      BY <2>2 DEF SessionOK, Named, Keyed, Resuming
    <2>4. Step(c, s)
      BY <1>2, <1>4 DEF Takes, Step
    <2>. QED  BY <1>2, <2>2, <2>3, <2>4, GoesOnKeeps
  <1>5. CASE Refuses(c, ssl[c])
    BY <1>2, <1>5, RefusesKeeps
  <1>. QED  BY <1>4, <1>5 DEF ssl_parse_client_hello

\* What mbedtls_ssl_cache_get finds is in the cache, and not outdated.
LEMMA CacheGet ==
  ASSUME IInv, NEW session \in Session, Matching(session) # {}
  PROVE  \E i \in DOMAIN cache :
           /\ ~IsOutdated(cache[i], time) /\ cache[i].session.id = session.id
           /\ cache[i] \in Entry
           /\ mbedtls_ssl_cache_get(session) \in Session
           /\ mbedtls_ssl_cache_get(session).master = cache[i].session.master
  <1> DEFINE i == First(Matching(session))
             got == mbedtls_ssl_cache_get(session)
  <1>1. cache \in Seq(Entry)
    BY DEF IInv, TypeOK
  <1>2. Matching(session) \in SUBSET Nat /\ Matching(session) \subseteq DOMAIN cache
    BY <1>1 DEF Matching
  <1>3. i \in Matching(session)
    BY <1>2, FirstIn
  <1>4. /\ i \in DOMAIN cache /\ ~IsOutdated(cache[i], time)
        /\ cache[i].session.id = session.id
    BY <1>3 DEF Matching
  <1>5. got = [session EXCEPT !.master = cache[i].session.master,
                              !.peer_cert = cache[i].session.peer_cert]
    BY DEF mbedtls_ssl_cache_get
  <1>. HIDE DEF i, got
  <1>6. cache[i] \in Entry
    BY <1>1, <1>4
  <1>7. got \in Session /\ got.master = cache[i].session.master
    BY <1>5, <1>6 DEF Session, Entry
  <1>. QED  BY <1>4, <1>6, <1>7 DEF got

\* A session is resumed only while it is fresh, and has the secret of its handshake.
LEMMA ServerHelloKeeps == ASSUME BInv, NEW c \in Conns, ssl_write_server_hello(c) PROVE Keeps
  <1> DEFINE session == ssl[c].session
             got == mbedtls_ssl_cache_get(session)
             resumed == [ssl[c] EXCEPT !.resume = TRUE, !.session = got,
                                       !.state = "SERVER_CHANGE_CIPHER_SPEC"]
             new == [Moved(c) EXCEPT !.session.id = c]
  <1>1. At(c, "SERVER_HELLO") /\ "SERVER_HELLO" \in {States[i] : i \in DOMAIN States}
    BY StateNames DEF ssl_write_server_hello
  <1>2. /\ running = c /\ ssl[c] \in Context /\ session \in Session
        /\ ssl[c].state = "SERVER_HELLO" /\ SessionOK(c, ssl[c])
        /\ Moved(c) \in Context /\ Moved(c).state = "SERVER_CERTIFICATE"
        /\ Moved(c).resume = ssl[c].resume
    BY <1>1, AtSession, AfterEach
  <1>3. ~ssl[c].resume
    BY <1>2 DEF SessionOK, Resuming
  <1>4. CASE Matching(session) # {} /\ Goes(c, resumed)
    <2>1. PICK i \in DOMAIN cache :
            /\ ~IsOutdated(cache[i], time) /\ cache[i].session.id = session.id
            /\ cache[i] \in Entry
            /\ got \in Session /\ got.master = cache[i].session.master
      BY <1>2, <1>4, CacheGet DEF BInv
    <2>. HIDE DEF got
    <2>2. /\ resumed \in Context /\ resumed.state = "SERVER_CHANGE_CIPHER_SPEC"
          /\ resumed.resume /\ resumed.session = got
      BY <1>2, <2>1, StateNames DEF Context
    <2>. HIDE DEF resumed
    <2>3. Step(c, resumed)
      <3>1. resumed.path.at = 0 \/ running' = running
        BY <1>4 DEF Goes
      <3>. QED  BY <1>2, <1>4, <3>1 DEF Goes, Step
    <2>4. SessionOK(c, resumed)
      BY <2>2 DEF SessionOK, Resuming
    <2>5. CInv'
      BY <1>2, <2>2, <2>3, <2>4, StepCInv DEF BInv
    <2>6. TIMEOUT = 0 \/ time - ssl[got.master].over_at <= TIMEOUT
      <3>1. ssl[got.master].over_at = cache[i].timestamp
        BY <2>1 DEF BInv, CInv, EntryOK
      <3>2. time \in Nat /\ cache[i].timestamp \in Nat /\ TIMEOUT \in Nat
        BY <2>1, CacheAssumption DEF BInv, IInv, TypeOK, Entry
      <3>. QED  BY <2>1, <3>1, <3>2 DEF IsOutdated
    <2>7. ssl \in [Conns -> Context] /\ ssl' = [ssl EXCEPT ![c] = resumed] /\ cache' = cache
      BY <2>3 DEF BInv, IInv, TypeOK, Step
    <2>8. ResumesFresh
      <3>1. ASSUME NEW d \in Conns, ssl'[d].resume, ~ssl[d].resume
            PROVE  ssl'[d].session = got
        BY <2>2, <2>7, <3>1
      <3>. QED  BY <2>6, <3>1 DEF ResumesFresh
    <2>. QED  BY <2>5, <2>7, <2>8 DEF Keeps
  <1>5. CASE Goes(c, new)
    <2>1. new \in Context /\ new.state = "SERVER_CERTIFICATE" /\ ~new.resume /\ new.session.id = c
      BY <1>2, <1>3 DEF Context, Session, Names
    <2>2. Step(c, new)
      BY <1>2, <1>5 DEF Goes, Step
    <2>3. SessionOK(c, new)
      BY <2>1 DEF SessionOK, Named, Keyed, Resuming
    <2>. QED  BY <1>2, <2>1, <2>2, <2>3, GoesOnKeeps
  <1>. QED  BY <1>4, <1>5 DEF ssl_write_server_hello

LEMMA CertificateKeeps ==
  ASSUME BInv, NEW c \in Conns, mbedtls_ssl_parse_certificate(c) PROVE Keeps
  <1> DEFINE s == [Moved(c) EXCEPT !.session.peer_cert = inbox.cert,
                                   !.path = [NoPath EXCEPT !.at = 1]]
  <1>1. At(c, "CLIENT_CERTIFICATE") /\ "CLIENT_CERTIFICATE" \in {States[i] : i \in DOMAIN States}
    BY StateNames DEF mbedtls_ssl_parse_certificate
  <1>2. /\ running = c /\ ssl[c].state = "CLIENT_CERTIFICATE" /\ SessionOK(c, ssl[c])
        /\ Moved(c) \in Context /\ Moved(c).state = "CLIENT_KEY_EXCHANGE"
        /\ Moved(c).session = ssl[c].session /\ Moved(c).resume = ssl[c].resume
    BY <1>1, AtSession, AfterEach
  <1>3. ~ssl[c].resume /\ ssl[c].session.id = c
    BY <1>2 DEF SessionOK, Named, Keyed, Resuming
  <1>4. CASE Advances(c)
    BY <1>1, <1>3, <1>4, MovedKeeps
  <1>5. CASE inbox.type = "certificate" /\ Takes(c, s)
    <2>1. inbox.cert \in Seq(Certificates)
      BY <1>1, <1>5, AtFacts DEF InboxOK, BInv
    <2>2. [NoPath EXCEPT !.at = 1] \in [at : Nat, cnt : Nat, ok : BOOLEAN]
      BY DEF NoPath
    <2>3. /\ s \in Context /\ s.state = "CLIENT_KEY_EXCHANGE" /\ ~s.resume
          /\ s.session.id = c
      BY <1>2, <1>3, <2>1, <2>2 DEF Context, Session
    <2>4. Step(c, s)
      BY <1>2, <1>5 DEF Takes, Step
    <2>5. SessionOK(c, s)
      BY <2>3 DEF SessionOK, Named, Keyed, Resuming
    <2>. QED  BY <1>2, <2>3, <2>4, <2>5, GoesOnKeeps
  <1>6. CASE Refuses(c, Moved(c))
    BY <1>2, <1>6, RefusesKeeps
  <1>. QED  BY <1>4, <1>5, <1>6 DEF mbedtls_ssl_parse_certificate

\* The walk up a chain changes the path and nothing else.
LEMMA PathKeeps ==
  ASSUME BInv, NEW c \in Conns, Verifying(c), NEW path \in [at : Nat, cnt : Nat, ok : BOOLEAN],
         Goes(c, [ssl[c] EXCEPT !.path = path])
  PROVE  Keeps
  <1> DEFINE s == [ssl[c] EXCEPT !.path = path]
  <1>1. running = c /\ ssl[c] \in Context /\ ssl[c].state = "CLIENT_KEY_EXCHANGE"
    BY VerifyingFacts DEF BInv
  <1>2. SessionOK(c, ssl[c])
    BY DEF BInv, CInv
  <1>3. /\ s \in Context /\ s.state = ssl[c].state /\ s.resume = ssl[c].resume
        /\ s.session = ssl[c].session
    BY <1>1 DEF Context
  <1>4. Step(c, s)
    BY <1>1 DEF Goes, Step
  <1>. HIDE DEF s
  <1>5. SessionOK(c, s)
    BY <1>2, <1>3 DEF SessionOK
  <1>. QED  BY <1>1, <1>3, <1>4, <1>5, GoesOnKeeps

LEMMA VerifyChildKeeps == ASSUME BInv, NEW c \in Conns, x509_crt_verify_child(c) PROVE Keeps
  <1> DEFINE chain == ssl[c].session.peer_cert
             path == ssl[c].path
             above == Parents(chain, path.at, path.cnt)
             parent == First(above)
             right == ChildRight(chain[path.at], chain[parent], time)
             next == [at |-> parent, cnt |-> path.cnt + 1, ok |-> path.ok /\ right]
  <1>1. Verifying(c) /\ running = c /\ ssl[c].state = "CLIENT_KEY_EXCHANGE"
        /\ chain \in Seq(Certificates) /\ path \in [at : Nat, cnt : Nat, ok : BOOLEAN]
    BY VerifyingFacts DEF x509_crt_verify_child, BInv
  <1>2. CASE Fails(c)
    BY <1>1, <1>2, RefusesKeeps
  <1>3. CASE above # {} /\ Goes(c, [ssl[c] EXCEPT !.path = next])
    <2>1. above \in SUBSET Nat
      <3>1. above \subseteq DOMAIN chain
        BY Zenon DEF Parents
      <3>2. DOMAIN chain \subseteq Nat
        BY <1>1
      <3>. QED  BY <3>1, <3>2
    <2>2. parent \in Nat
      BY <1>3, <2>1, FirstIn
    <2>3. next \in [at : Nat, cnt : Nat, ok : BOOLEAN]
      <3>1. (path.ok /\ right) \in BOOLEAN
        OBVIOUS
      <3>2. path.cnt + 1 \in Nat
        BY <1>1
      <3>. HIDE DEF parent, path, right
      <3>. QED  BY <2>2, <3>1, <3>2, Zenon
    <2>. HIDE DEF next
    <2>. QED  BY <1>1, <1>3, <2>3, PathKeeps
  <1>. QED  BY <1>2, <1>3 DEF x509_crt_verify_child

LEMMA VerifyTopKeeps == ASSUME BInv, NEW c \in Conns, VerifyTop(c) PROVE Keeps
  <1>1. Verifying(c) /\ running = c /\ ssl[c].state = "CLIENT_KEY_EXCHANGE"
    BY VerifyingFacts DEF VerifyTop, BInv
  <1>2. CASE Fails(c)
    BY <1>1, <1>2, RefusesKeeps
  <1>3. CASE Goes(c, [ssl[c] EXCEPT !.path = NoPath])
    <2>1. NoPath \in [at : Nat, cnt : Nat, ok : BOOLEAN]
      BY DEF NoPath
    <2>. QED  BY <1>1, <1>3, <2>1, PathKeeps
  <1>. QED  BY <1>2, <1>3 DEF VerifyTop

LEMMA KeyExchangeKeeps ==
  ASSUME BInv, NEW c \in Conns, ssl_parse_client_key_exchange(c) PROVE Keeps
  <1> DEFINE s == [Moved(c) EXCEPT !.session.master = c]
  <1>1. At(c, "CLIENT_KEY_EXCHANGE") /\ "CLIENT_KEY_EXCHANGE" \in {States[i] : i \in DOMAIN States}
    BY StateNames DEF ssl_parse_client_key_exchange
  <1>2. /\ running = c /\ ssl[c].state = "CLIENT_KEY_EXCHANGE" /\ SessionOK(c, ssl[c])
        /\ Moved(c) \in Context /\ Moved(c).state = "CERTIFICATE_VERIFY"
        /\ Moved(c).session = ssl[c].session /\ Moved(c).resume = ssl[c].resume
    BY <1>1, AtSession, AfterEach
  <1>3. ~ssl[c].resume /\ ssl[c].session.id = c
    BY <1>2 DEF SessionOK, Named, Keyed, Resuming
  <1>4. CASE Takes(c, s)
    <2>1. /\ s \in Context /\ s.state = "CERTIFICATE_VERIFY" /\ ~s.resume
          /\ s.session.id = c /\ s.session.master = c
      BY <1>2, <1>3 DEF Context, Session, Names
    <2>2. Step(c, s)
      BY <1>2, <1>4 DEF Takes, Step
    <2>3. SessionOK(c, s)
      BY <2>1 DEF SessionOK
    <2>. QED  BY <1>2, <2>1, <2>2, <2>3, GoesOnKeeps
  <1>5. CASE Refuses(c, ssl[c])
    BY <1>2, <1>5, RefusesKeeps
  <1>. QED  BY <1>4, <1>5 DEF ssl_parse_client_key_exchange

LEMMA CertificateVerifyKeeps ==
  ASSUME BInv, NEW c \in Conns, ssl_parse_certificate_verify(c) PROVE Keeps
  <1>1. At(c, "CERTIFICATE_VERIFY") /\ "CERTIFICATE_VERIFY" \in {States[i] : i \in DOMAIN States}
    BY StateNames DEF ssl_parse_certificate_verify
  <1>2. running = c /\ ssl[c].state = "CERTIFICATE_VERIFY" /\ SessionOK(c, ssl[c])
    BY <1>1, AtSession
  <1>3. ~ssl[c].resume
    BY <1>2 DEF SessionOK, Resuming
  <1>4. CASE Advances(c) \/ Takes(c, Moved(c))
    BY <1>1, <1>3, <1>4, MovedKeeps
  <1>5. CASE Refuses(c, Moved(c))
    BY <1>2, <1>5, RefusesKeeps
  <1>. QED  BY <1>4, <1>5 DEF ssl_parse_certificate_verify

LEMMA ChangeCipherSpecKeeps ==
  ASSUME BInv, NEW c \in Conns, mbedtls_ssl_parse_change_cipher_spec(c) PROVE Keeps
  <1>1. /\ At(c, "CLIENT_CHANGE_CIPHER_SPEC")
        /\ "CLIENT_CHANGE_CIPHER_SPEC" \in {States[i] : i \in DOMAIN States}
    BY StateNames DEF mbedtls_ssl_parse_change_cipher_spec
  <1>2. running = c /\ ssl[c].state = "CLIENT_CHANGE_CIPHER_SPEC"
    BY <1>1, AtSession
  <1>3. CASE Takes(c, Moved(c))
    BY <1>1, <1>3, MovedKeeps
  <1>4. CASE Refuses(c, ssl[c])
    BY <1>2, <1>4, RefusesKeeps
  <1>. QED  BY <1>3, <1>4 DEF mbedtls_ssl_parse_change_cipher_spec

\* From one of the last states to another.
LEMMA LastKeeps ==
  ASSUME BInv, NEW c \in Conns, NEW state \in Resuming, At(c, state),
         NEW to \in Resuming \cup {"FLUSH_BUFFERS"}, ssl[c].resume => to \in Resuming,
         LET s == [ssl[c] EXCEPT !.state = to] IN Goes(c, s) \/ Takes(c, s)
  PROVE  Keeps
  <1> DEFINE s == [ssl[c] EXCEPT !.state = to]
  <1>1. state \in {States[i] : i \in DOMAIN States} /\ to \in {States[i] : i \in DOMAIN States}
        /\ state # "HANDSHAKE_OVER" /\ to # "HANDSHAKE_OVER"
    BY StateNames DEF Resuming
  <1>2. running = c /\ ssl[c] \in Context /\ ssl[c].state = state /\ SessionOK(c, ssl[c])
    BY <1>1, AtSession
  <1>3. s \in Context /\ s.state = to /\ s.resume = ssl[c].resume /\ s.session = ssl[c].session
    BY <1>1, <1>2 DEF Context
  <1>4. Step(c, s)
    BY <1>2 DEF Goes, Takes, Step
  <1>. HIDE DEF s
  <1>5. SessionOK(c, s)
    BY <1>2, <1>3 DEF SessionOK, Named, Keyed
  <1>. QED  BY <1>1, <1>2, <1>3, <1>4, <1>5, GoesOnKeeps

LEMMA FinishedKeeps ==
  ASSUME BInv, NEW c \in Conns, mbedtls_ssl_parse_finished(c) PROVE Keeps
  <1> DEFINE to == AfterFinished(ssl[c])
  <1>1. At(c, "CLIENT_FINISHED") /\ "CLIENT_FINISHED" \in {States[i] : i \in DOMAIN States}
    BY StateNames DEF mbedtls_ssl_parse_finished
  <1>2. running = c /\ ssl[c].state = "CLIENT_FINISHED"
    BY <1>1, AtSession
  <1>3. CASE Takes(c, [ssl[c] EXCEPT !.state = to])
    <2>1. to \in Resuming
      BY <1>2, AfterEach DEF AfterFinished, Resuming
    <2>2. "CLIENT_FINISHED" \in Resuming
      BY DEF Resuming
    <2>. HIDE DEF to
    <2>. QED  BY <1>1, <1>3, <2>1, <2>2, LastKeeps
  <1>4. CASE Refuses(c, ssl[c])
    BY <1>2, <1>4, RefusesKeeps
  <1>. QED  BY <1>3, <1>4 DEF mbedtls_ssl_parse_finished

LEMMA WriteFinishedKeeps ==
  ASSUME BInv, NEW c \in Conns, mbedtls_ssl_write_finished(c) PROVE Keeps
  <1> DEFINE to == IF ssl[c].resume THEN "CLIENT_CHANGE_CIPHER_SPEC" ELSE "FLUSH_BUFFERS"
  <1>1. At(c, "SERVER_FINISHED") /\ "SERVER_FINISHED" \in {States[i] : i \in DOMAIN States}
    BY StateNames DEF mbedtls_ssl_write_finished
  <1>2. ssl[c].state = "SERVER_FINISHED"
    BY <1>1, AtSession
  <1>3. Goes(c, [ssl[c] EXCEPT !.state = to])
    BY <1>2, AfterEach DEF mbedtls_ssl_write_finished
  <1>4. /\ to \in Resuming \cup {"FLUSH_BUFFERS"} /\ (ssl[c].resume => to \in Resuming)
        /\ "SERVER_FINISHED" \in Resuming
    BY DEF Resuming
  <1>. HIDE DEF to
  <1>. QED  BY <1>1, <1>3, <1>4, LastKeeps

\* The callback has nothing more to read.
LEMMA WantReadKeeps == ASSUME BInv, NEW c \in Conns, WantRead(c) PROVE Keeps
  <1>1. ssl[c] \in Context /\ SessionOK(c, ssl[c]) /\ ssl \in [Conns -> Context]
    BY DEF BInv, IInv, CInv, TypeOK
  <1>2. Step(c, ssl[c]) /\ ssl[c].state # "HANDSHAKE_OVER"
    BY <1>1 DEF WantRead, Step
  <1>. QED  BY <1>1, <1>2, GoesOnKeeps

\* A connection whose handshake is over stays as it is.
LEMMA DoneKeeps == ASSUME BInv, NEW c \in Conns, HandshakeDone(c) PROVE Keeps
  <1> DEFINE s == [ssl[c] EXCEPT !.done = TRUE]
  <1>1. /\ running = c /\ ssl[c] \in Context /\ ssl[c].state = "HANDSHAKE_OVER"
        /\ ssl[c].path.at = 0 /\ SessionOK(c, ssl[c])
    BY DEF HandshakeDone, At, BInv, IInv, CInv, TypeOK
  <1>2. /\ s \in Context /\ s.state = "HANDSHAKE_OVER" /\ s.done /\ s.resume = ssl[c].resume
        /\ s.session = ssl[c].session /\ s.over_at = ssl[c].over_at /\ s.path.at = 0
    BY <1>1 DEF Context
  <1>3. Step(c, s)
    BY <1>1, <1>2 DEF HandshakeDone, Step
  <1>. HIDE DEF s
  <1>4. SessionOK(c, s)
    BY <1>1, <1>2 DEF SessionOK
  <1>. QED  BY <1>1, <1>2, <1>3, <1>4, StepCInv, StepResumes DEF BInv, Keeps, Step

\* Where mbedtls_ssl_cache_set puts a session with a name of its own: over an outdated
\* one, at the end, or over the oldest if there is no more room.
LEMMA CacheSetNew ==
  ASSUME cache \in Seq(Entry), Len(cache) <= MAX_ENTRIES, time \in Nat, NEW s \in Session,
         \A i \in DOMAIN cache : cache[i].session.id # s.id
  PROVE  LET new == mbedtls_ssl_cache_set(cache, s)
             entry == [session |-> s, timestamp |-> time]
         IN  \/ \E k \in DOMAIN cache :
                  /\ new = [cache EXCEPT ![k] = entry]
                  /\ IsOutdated(cache[k], time) \/ (Len(cache) = MAX_ENTRIES /\ IsOldest(cache[k]))
             \/ new = Append(cache, entry) /\ Len(cache) < MAX_ENTRIES
             \/ new = cache
  <1> DEFINE new == mbedtls_ssl_cache_set(cache, s)
             entry == [session |-> s, timestamp |-> time]
             free == {i \in DOMAIN cache : IsOutdated(cache[i], time) \/ cache[i].session.id = s.id}
             Result == \/ \E k \in DOMAIN cache :
                            /\ new = [cache EXCEPT ![k] = entry]
                            /\ \/ IsOutdated(cache[k], time)
                               \/ Len(cache) = MAX_ENTRIES /\ IsOldest(cache[k])
                       \/ new = Append(cache, entry) /\ Len(cache) < MAX_ENTRIES
                       \/ new = cache
  <1>1. DOMAIN cache = 1..Len(cache) /\ Len(cache) \in Nat /\ MAX_ENTRIES \in Nat
    BY CacheAssumption
  <1>2. \A i \in free : i \in DOMAIN cache /\ IsOutdated(cache[i], time)
    OBVIOUS
  <1>3. ASSUME free # {} PROVE Result
    <2>1. free \in SUBSET Nat
      BY <1>1, <1>2
    <2>2. First(free) \in free
      BY <1>3, <2>1, FirstIn
    <2>3. IsOutdated(cache[First(free)], time) /\ First(free) \in DOMAIN cache
      BY <1>2, <2>2
    <2>4. new = [cache EXCEPT ![First(free)] = entry]
      BY <1>3, <2>3 DEF mbedtls_ssl_cache_set
    <2> DEFINE k == First(free)
    <2>. HIDE DEF new, entry, free, k
    <2>. QED  BY <2>3, <2>4 DEF k
  <1>4. ASSUME free = {}, Len(cache) < MAX_ENTRIES PROVE Result
    <2>1. new = Append(cache, entry)
      <3>1. ~(Len(cache) >= MAX_ENTRIES)
        BY <1>1, <1>4
      <3>. QED  BY <1>4, <3>1 DEF mbedtls_ssl_cache_set
    <2>. HIDE DEF new, entry, free
    <2>. QED  BY <1>4, <2>1
  <1>5. ASSUME free = {}, Len(cache) >= MAX_ENTRIES, cache # << >> PROVE Result
    <2> DEFINE ages == {cache[i].timestamp : i \in DOMAIN cache}
               oldest == {i \in DOMAIN cache :
                            \A j \in DOMAIN cache : cache[i].timestamp <= cache[j].timestamp}
    <2>1. \A i \in DOMAIN cache : cache[i].timestamp \in Nat
      <3>1. \A i \in DOMAIN cache : cache[i] \in Entry
        OBVIOUS
      <3>. QED  BY <3>1 DEF Entry
    <2>2. ages \in SUBSET Nat /\ ages # {}
      BY <1>1, <1>5, <2>1
    <2>3. First(ages) \in ages /\ \A x \in ages : First(ages) <= x
      BY <2>2, FirstIsLeast
    <2>4. PICK i \in DOMAIN cache : cache[i].timestamp = First(ages)
      BY <2>3
    <2>5. i \in oldest
      BY <2>3, <2>4
    <2>6. oldest \in SUBSET Nat
      BY <1>1
    <2>7. First(oldest) \in oldest
      BY <2>5, <2>6, FirstIn
    <2>8. Oldest(cache) \in DOMAIN cache /\ IsOldest(cache[Oldest(cache)])
      BY <2>7 DEF Oldest, IsOldest
    <2>9. new = [cache EXCEPT ![Oldest(cache)] = entry]
      <3>1. ~(Len(cache) < MAX_ENTRIES)
        BY <1>1, <1>5
      <3>. QED  BY <1>5, <3>1 DEF mbedtls_ssl_cache_set
    <2>. HIDE DEF new, entry, free, ages, oldest
    <2>10. Len(cache) = MAX_ENTRIES
      <3>1. \A m, n \in Nat : m <= n /\ m >= n => m = n
        OBVIOUS
      <3>. QED  BY <1>1, <1>5, <3>1, Zenon
    <2>. QED  BY <2>8, <2>9, <2>10
  <1>6. ASSUME free = {}, Len(cache) >= MAX_ENTRIES, cache = << >> PROVE Result
    <2>1. ~(Len(cache) < MAX_ENTRIES)
      BY <1>1, <1>6
    <2>. QED  BY <1>6, <2>1 DEF mbedtls_ssl_cache_set
  <1>7. Len(cache) < MAX_ENTRIES \/ Len(cache) >= MAX_ENTRIES
    BY <1>1
  <1>8. Result
    <2>. HIDE DEF Result, free
    <2>. QED  BY <1>3, <1>4, <1>5, <1>6, <1>7
  <1>. QED  BY <1>8

\* What a change of the cache keeps if the session is that of a handshake which ends.
LEMMA NewEntry ==
  ASSUME BInv, NEW c \in Conns, NEW s \in Session, NEW x \in Context,
         s.id = c, s.master = c, ssl' = [ssl EXCEPT ![c] = x],
         x.state = "HANDSHAKE_OVER", x.over_at = time, ssl[c].state # "HANDSHAKE_OVER",
         cache' = mbedtls_ssl_cache_set(cache, s)
  PROVE  /\ Len(cache') <= MAX_ENTRIES
         /\ \A i, j \in DOMAIN cache' : cache'[i].session.id = cache'[j].session.id => i = j
         /\ \A i \in DOMAIN cache' : EntryOK(cache[i])'
         /\ Remembers
  <1> DEFINE entry == [session |-> s, timestamp |-> time]
  <1>1. /\ cache \in Seq(Entry) /\ time \in Nat /\ Len(cache) <= MAX_ENTRIES
        /\ ssl \in [Conns -> Context] /\ MAX_ENTRIES \in Nat
        /\ \A i, j \in DOMAIN cache : cache[i].session.id = cache[j].session.id => i = j
    BY CacheAssumption DEF BInv, IInv, CInv, TypeOK
  <1>2. ASSUME NEW i \in DOMAIN cache
        PROVE  /\ cache[i].session.id # c /\ EntryOK(cache[i])
               /\ ssl'[cache[i].session.id] = ssl[cache[i].session.id]
    <2>1. EntryOK(cache[i])
      BY <1>2 DEF BInv, CInv
    <2>2. cache[i].session.id # c
      BY <2>1 DEF EntryOK
    <2>. QED  BY <1>1, <2>1, <2>2 DEF EntryOK
  <1>3. entry.session.id = c /\ entry.session.master = c /\ entry.timestamp = time
        /\ entry \in Entry
    BY <1>1 DEF Entry
  <1>4. ssl'[c].state = "HANDSHAKE_OVER" /\ ssl'[c].over_at = time
    BY <1>1
  <1>5. \/ \E k \in DOMAIN cache :
             /\ cache' = [cache EXCEPT ![k] = entry]
             /\ IsOutdated(cache[k], time) \/ (Len(cache) = MAX_ENTRIES /\ IsOldest(cache[k]))
        \/ cache' = Append(cache, entry) /\ Len(cache) < MAX_ENTRIES
        \/ cache' = cache
    BY <1>1, <1>2, CacheSetNew
  <1>. HIDE DEF entry
  <1>6. ASSUME NEW i, cache'[i] = entry PROVE EntryOK(cache[i])'
    BY <1>3, <1>4, <1>6 DEF EntryOK
  <1>7. ASSUME NEW i, NEW j \in DOMAIN cache, cache'[i] = cache[j] PROVE EntryOK(cache[i])'
    BY <1>2, <1>7 DEF EntryOK
  <1>8. ASSUME NEW k \in DOMAIN cache, cache' = [cache EXCEPT ![k] = entry],
               IsOutdated(cache[k], time) \/ (Len(cache) = MAX_ENTRIES /\ IsOldest(cache[k]))
        PROVE  /\ Len(cache') <= MAX_ENTRIES
               /\ \A i, j \in DOMAIN cache' : cache'[i].session.id = cache'[j].session.id => i = j
               /\ \A i \in DOMAIN cache' : EntryOK(cache[i])'
               /\ Remembers
    <2>1. /\ DOMAIN cache' = DOMAIN cache /\ Len(cache') = Len(cache)
          /\ cache'[k] = entry /\ \A i \in DOMAIN cache : i # k => cache'[i] = cache[i]
      <3>1. /\ cache' \in Seq(Entry) /\ Len(cache') = Len(cache)
            /\ \A j \in 1..Len(cache) : cache'[j] = IF j = k THEN entry ELSE cache[j]
        BY <1>1, <1>3, <1>8, ExceptSeq
      <3>. QED  BY <1>1, <3>1
    <2>2. \A i \in DOMAIN cache' : EntryOK(cache[i])'
      BY <1>6, <1>7, <2>1
    <2>3. \A i, j \in DOMAIN cache' : cache'[i].session.id = cache'[j].session.id => i = j
      BY <1>1, <1>2, <1>3, <2>1
    <2>4. ASSUME NEW i \in DOMAIN cache, i # k PROVE cache[i].session.id \in IdsOf(cache')
      BY <2>1, <2>4 DEF IdsOf
    <2>5. Remembers
      BY <1>8, <2>4 DEF Remembers
    <2>. QED  BY <1>1, <2>1, <2>2, <2>3, <2>5
  <1>9. CASE cache' = Append(cache, entry) /\ Len(cache) < MAX_ENTRIES
    <2>1. /\ Len(cache') = Len(cache) + 1 /\ DOMAIN cache' = 1..(Len(cache) + 1)
          /\ cache'[Len(cache) + 1] = entry
          /\ \A i \in 1..Len(cache) : cache'[i] = cache[i]
      BY <1>1, <1>3, <1>9, AppendProperties
    <2>2. DOMAIN cache = 1..Len(cache) /\ Len(cache) \in Nat
      BY <1>1
    <2>3. \A i \in DOMAIN cache' : i \in DOMAIN cache \/ i = Len(cache) + 1
      BY <2>1, <2>2
    <2>4. \A i \in DOMAIN cache' : EntryOK(cache[i])'
      BY <1>6, <1>7, <2>1, <2>2, <2>3
    <2>5. \A i, j \in DOMAIN cache' : cache'[i].session.id = cache'[j].session.id => i = j
      BY <1>1, <1>2, <1>3, <2>1, <2>2, <2>3
    <2>6. Remembers
      BY <2>1, <2>2 DEF Remembers, IdsOf
    <2>7. Len(cache') <= MAX_ENTRIES
      BY <1>1, <1>9, <2>1, <2>2
    <2>. QED  BY <2>4, <2>5, <2>6, <2>7
  <1>10. CASE cache' = cache
    <2>1. \A i \in DOMAIN cache' : EntryOK(cache[i])'
      BY <1>7, <1>10
    <2>2. Remembers
      BY <1>10 DEF Remembers, IdsOf
    <2>. QED  BY <1>1, <1>10, <2>1, <2>2
  <1>. QED  BY <1>5, <1>8, <1>9, <1>10

\* What goes to the cache has the name and the secret of its connection, which no
\* session in the cache has.
LEMMA WrapupKeeps ==
  ASSUME BInv, NEW c \in Conns, mbedtls_ssl_handshake_wrapup(c)
  PROVE  CInv' /\ Remembers /\ ResumesFresh
  <1> DEFINE s == [Moved(c) EXCEPT !.resume = FALSE, !.over_at = time]
             session == ssl[c].session
             kept == Kept(session)
  <1>1. At(c, "HANDSHAKE_WRAPUP") /\ "HANDSHAKE_WRAPUP" \in {States[i] : i \in DOMAIN States}
    BY StateNames DEF mbedtls_ssl_handshake_wrapup
  <1>2. /\ running = c /\ session \in Session /\ ssl[c].state = "HANDSHAKE_WRAPUP"
        /\ SessionOK(c, ssl[c]) /\ Moved(c) \in Context /\ Moved(c).state = "HANDSHAKE_OVER"
    BY <1>1, AtSession, AfterEach
  <1>3. time \in Nat /\ ssl \in [Conns -> Context]
    BY DEF BInv, IInv, TypeOK
  <1>4. s \in Context /\ s.state = "HANDSHAKE_OVER" /\ ~s.resume /\ s.over_at = time
    BY <1>2, <1>3 DEF Context
  <1>5. ssl' = [ssl EXCEPT ![c] = s] /\ running' = running /\ time' = time
    BY DEF mbedtls_ssl_handshake_wrapup
  <1>6. kept \in Session /\ kept.id = session.id /\ kept.master = session.master
    <2>1. CASE session.peer_cert = << >>
      BY <1>2, <2>1 DEF Kept
    <2>2. CASE session.peer_cert # << >>
      <3>1. session.peer_cert \in Seq(Certificates)
        BY <1>2 DEF Session
      <3>2. <<Head(session.peer_cert)>> \in Seq(Certificates)
        BY <2>2, <3>1
      <3>. QED  BY <1>2, <2>2, <3>2 DEF Kept, Session
    <2>. QED  BY <2>1, <2>2
  <1>. HIDE DEF s, kept
  <1>7. \A d \in Conns : SessionOK(d, ssl'[d])
    <2>1. SessionOK(c, s)
      BY <1>4 DEF SessionOK, Named, Keyed, Resuming
    <2>. QED  BY <1>3, <1>5, <2>1 DEF BInv, CInv
  <1>8. \A d \in Conns : ssl'[d].state = "HANDSHAKE_OVER" => ssl'[d].done \/ running' = d
    BY <1>2, <1>3, <1>5 DEF BInv, CInv
  <1>9. ResumesFresh
    BY <1>3, <1>4, <1>5 DEF ResumesFresh
  <1>10. CASE session.id # 0 /\ ~ssl[c].resume /\ cache' = mbedtls_ssl_cache_set(cache, kept)
    <2>1. kept.id = c /\ kept.master = c
      BY <1>2, <1>6, <1>10 DEF SessionOK, Named, Keyed, Resuming
    <2>2. /\ Len(cache') <= MAX_ENTRIES
          /\ \A i, j \in DOMAIN cache' : cache'[i].session.id = cache'[j].session.id => i = j
          /\ \A i \in DOMAIN cache' : EntryOK(cache[i])'
          /\ Remembers
      BY <1>2, <1>4, <1>5, <1>6, <1>10, <2>1, NewEntry
    <2>. QED  BY <1>7, <1>8, <1>9, <2>2 DEF CInv, SessionOK
  <1>11. CASE cache' = cache
    <2>1. ASSUME NEW i \in DOMAIN cache PROVE EntryOK(cache[i])'
      <3>1. EntryOK(cache[i])
        BY <2>1 DEF BInv, CInv
      <3>. QED  BY <1>2, <1>3, <1>5, <1>11, <3>1 DEF EntryOK
    <2>2. Remembers
      BY <1>11 DEF Remembers, IdsOf
    <2>. QED  BY <1>7, <1>8, <1>9, <1>11, <2>1, <2>2 DEF BInv, CInv, SessionOK
  <1>. QED  BY <1>10, <1>11 DEF mbedtls_ssl_handshake_wrapup, kept

-----------------------------------------------------------------------------
(* All steps.                                                              *)

\* What a step does to the cache and with it.
Good == CInv' /\ Remembers /\ ResumesFresh

LEMMA KeepsGood == ASSUME BInv, Keeps PROVE Good
  <1>1. Remembers
    BY DEF Keeps, Remembers, IdsOf
  <1>. QED  BY <1>1 DEF Keeps, Good

LEMMA PlainKeeps ==
  ASSUME BInv, NEW c \in Conns, NEW state \in Plain, At(c, state), Advances(c)
  PROVE  Keeps
  <1>1. /\ state \in {States[i] : i \in DOMAIN States}
        /\ state \notin {"HANDSHAKE_OVER", "HANDSHAKE_WRAPUP", "SERVER_HELLO", "CLIENT_KEY_EXCHANGE"}
    BY StateNames DEF Plain
  <1>2. ssl[c].state = state /\ SessionOK(c, ssl[c])
    BY <1>1, AtSession
  <1>3. ssl[c].resume => state = "SERVER_CHANGE_CIPHER_SPEC"
    BY <1>2 DEF SessionOK, Plain, Resuming
  <1>. QED  BY <1>1, <1>3, MovedKeeps

LEMMA HandshakeGood == ASSUME BInv, NEW c \in Conns, HandshakeStep(c) PROVE Good
  <1>1. CASE \/ HelloRequest(c) \/ mbedtls_ssl_write_certificate(c)
             \/ ssl_write_server_key_exchange(c) \/ ssl_write_certificate_request(c)
             \/ ssl_write_server_hello_done(c) \/ mbedtls_ssl_write_change_cipher_spec(c)
             \/ FlushBuffers(c)
    <2>1. \E state \in Plain : At(c, state) /\ Advances(c)
      BY <1>1 DEF Plain, HelloRequest, mbedtls_ssl_write_certificate,
                  ssl_write_server_key_exchange, ssl_write_certificate_request,
                  ssl_write_server_hello_done, mbedtls_ssl_write_change_cipher_spec,
                  FlushBuffers
    <2>. QED  BY <2>1, PlainKeeps, KeepsGood
  <1>2. CASE mbedtls_ssl_handshake_wrapup(c)
    BY <1>2, WrapupKeeps DEF Good
  <1>3. CASE \/ WantRead(c) \/ ssl_parse_client_hello(c) \/ ssl_write_server_hello(c)
             \/ mbedtls_ssl_parse_certificate(c) \/ x509_crt_verify_child(c) \/ VerifyTop(c)
             \/ ssl_parse_client_key_exchange(c) \/ ssl_parse_certificate_verify(c)
             \/ mbedtls_ssl_parse_change_cipher_spec(c) \/ mbedtls_ssl_parse_finished(c)
             \/ mbedtls_ssl_write_finished(c) \/ HandshakeDone(c)
    <2>1. Keeps
      BY <1>3, WantReadKeeps, ClientHelloKeeps, ServerHelloKeeps, CertificateKeeps,
         VerifyChildKeeps, VerifyTopKeeps, KeyExchangeKeeps, CertificateVerifyKeeps,
         ChangeCipherSpecKeeps, FinishedKeeps, WriteFinishedKeeps, DoneKeeps
    <2>. QED  BY <2>1, KeepsGood
  <1>. QED  BY <1>1, <1>2, <1>3 DEF HandshakeStep

\* What a client does leaves the handshakes that are over alone.
LEMMA ClientGood ==
  ASSUME BInv, NEW c \in Conns, NEW x \in Context, running = 0, ~ssl[c].done,
         ssl' = [ssl EXCEPT ![c] = x], SessionOK(c, x), x.state # "HANDSHAKE_OVER",
         x.resume => ssl[c].resume, UNCHANGED <<time, cache>>
  PROVE  Good
  <1>1. ssl \in [Conns -> Context] /\ ssl'[c] = x
    BY DEF BInv, IInv, TypeOK
  <1>2. \A d \in Conns : ssl[d].state = "HANDSHAKE_OVER" => ssl[d].done
    BY ConnsAssumption DEF BInv, CInv
  <1>3. ssl[c].state # "HANDSHAKE_OVER"
    BY <1>2
  <1>4. ASSUME NEW i \in DOMAIN cache PROVE EntryOK(cache[i])'
    <2>1. EntryOK(cache[i])
      BY <1>4 DEF BInv, CInv
    <2>. QED  BY <1>1, <1>3, <2>1 DEF EntryOK
  <1>5. \A d \in Conns : SessionOK(d, ssl'[d])
    BY <1>1 DEF BInv, CInv
  <1>6. \A d \in Conns : ssl'[d].state = "HANDSHAKE_OVER" => ssl'[d].done
    BY <1>1, <1>2
  <1>7. CInv'
    BY <1>4, <1>5, <1>6 DEF BInv, CInv, SessionOK
  <1>8. ResumesFresh
    BY <1>1 DEF ResumesFresh
  <1>. QED  BY <1>7, <1>8, KeepsGood DEF Keeps

LEMMA ReadGood == ASSUME BInv, NEW c \in Conns, Read(c) PROVE Good
  <1> DEFINE x == [ssl[c] EXCEPT !.messages = @ + 1]
  <1>1. ssl \in [Conns -> Context] /\ ssl[c] \in Context /\ SessionOK(c, ssl[c])
    BY DEF BInv, IInv, CInv, TypeOK
  <1>2. ssl[c].state # "HANDSHAKE_OVER" /\ running = 0 /\ ~ssl[c].done
    BY ConnsAssumption DEF Read, BInv, CInv
  <1>3. ssl' = [ssl EXCEPT ![c] = x] /\ UNCHANGED <<time, cache>>
    BY <1>1 DEF Read, Receives
  <1>4. /\ x \in Context /\ x.state = ssl[c].state /\ x.resume = ssl[c].resume
        /\ x.session = ssl[c].session
    BY <1>1 DEF Context
  <1>. HIDE DEF x
  <1>5. SessionOK(c, x)
    BY <1>1, <1>4 DEF SessionOK
  <1>. QED  BY <1>2, <1>3, <1>4, <1>5, ClientGood

LEMMA ReadEofGood == ASSUME BInv, NEW c \in Conns, ReadEof(c) PROVE Good
  <1> DEFINE x == Closed(ssl[c])
  <1>1. ssl' = [ssl EXCEPT ![c] = x] /\ running = 0 /\ ~ssl[c].done /\ UNCHANGED <<time, cache>>
    BY DEF ReadEof
  <1>2. x \in Context /\ ~x.resume /\ x.state = "HELLO_REQUEST"
    BY FreshContext DEF Closed, clax_ssl_init_ctx
  <1>. HIDE DEF x
  <1>3. SessionOK(c, x)
    BY <1>2 DEF SessionOK, Named, Keyed, Resuming
  <1>. QED  BY <1>1, <1>2, <1>3, ClientGood

LEMMA TickGood == ASSUME BInv, Tick \/ UNCHANGED vars PROVE Good
  <1>1. cache' = cache /\ ssl' = ssl /\ running' = running
    BY DEF Tick, vars
  <1>2. CInv'
    BY <1>1 DEF BInv, CInv, EntryOK, SessionOK
  <1>3. ResumesFresh
    BY <1>1 DEF ResumesFresh
  <1>. QED  BY <1>1, <1>2, <1>3, KeepsGood DEF Keeps

LEMMA NextGood == ASSUME BInv, [Next]_vars PROVE Good
  BY TickGood, ReadGood, ReadEofGood, HandshakeGood DEF Next

\* Entries of different names are as many as their names.
LEMMA NamesCounted ==
  ASSUME NEW entries \in Seq(Entry),
         \A i, j \in DOMAIN entries : entries[i].session.id = entries[j].session.id => i = j
  PROVE  Cardinality(IdsOf(entries)) = Len(entries)
  <1> DEFINE n == Len(entries)
             name == [i \in 1..n |-> entries[i].session.id]
  <1>1. n \in Nat /\ DOMAIN entries = 1..n
    OBVIOUS
  <1>2. name \in [1..n -> IdsOf(entries)]
    BY <1>1 DEF IdsOf
  <1>3. name \in Bijection(1..n, IdsOf(entries))
    <2>1. IsInjective(name)
      BY <1>1 DEF IsInjective
    <2>2. \A x \in IdsOf(entries) : \E i \in 1..n : name[i] = x
      BY <1>1 DEF IdsOf
    <2>. HIDE DEF name
    <2>. QED  BY <1>2, <2>1, <2>2 DEF Bijection, Injection, Surjection
  <1>4. ExistsBijection(1..n, IdsOf(entries))
    BY <1>3 DEF ExistsBijection
  <1>. HIDE DEF name
  <1>. QED  BY <1>1, <1>4, FS_CountingElements

\* The cache forgets what is outdated or, when it is full, what is oldest; it has room
\* for MAX_ENTRIES and each name once; and no session is resumed when it is outdated
\* (SessionsKept; mbedtls_ssl_cache_get, mbedtls_ssl_cache_set).
THEOREM CacheKeeps == Spec => SessionsKept
  <1> DEFINE A ==
        /\ \A i \in DOMAIN cache :
             cache[i].session.id \in IdsOf(cache') \/ IsOutdated(cache[i], time)
               \/ (Len(cache) = MAX_ENTRIES /\ IsOldest(cache[i]))
        /\ Len(cache') <= MAX_ENTRIES /\ Cardinality(IdsOf(cache')) = Len(cache')
        /\ \A c \in Conns : ssl'[c].resume /\ ~ssl[c].resume =>
             TIMEOUT = 0 \/ time - ssl[ssl'[c].session.master].over_at <= TIMEOUT
  <1>1. Init => BInv
    BY InitInv, InitCInv DEF BInv
  <1>2. BInv /\ [Next]_vars => BInv'
    BY NextInv, NextGood DEF BInv, Good
  <1>3. BInv /\ [Next]_vars => [A]_vars
    <2>1. ASSUME BInv, [Next]_vars PROVE A
      <3>1. BInv' /\ Good
        BY <1>2, <2>1, NextGood
      <3>2. /\ cache' \in Seq(Entry) /\ Len(cache') <= MAX_ENTRIES
            /\ \A i, j \in DOMAIN cache' : cache'[i].session.id = cache'[j].session.id => i = j
        BY <3>1 DEF BInv, IInv, CInv, TypeOK
      <3>3. Cardinality(IdsOf(cache')) = Len(cache')
        BY <3>2, NamesCounted
      <3>. QED  BY <3>1, <3>2, <3>3 DEF Good, Remembers, ResumesFresh
    <2>. QED  BY <2>1
  <1>. QED  BY <1>1, <1>2, <1>3, PTL DEF Spec, SessionsKept
=============================================================================
