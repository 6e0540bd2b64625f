--------------------------- MODULE ClaxHandshake ----------------------------
(***************************************************************************)
(* The server's side of the TLS handshakes of several connections, step by *)
(* step (contrib/mbedtls/ssl_srv.c, ssl_tls.c), with the cache of sessions *)
(* they share (ssl_cache.c), as clax sets them up and drives them from its *)
(* read callback: client certificates asked for and verified, or not asked *)
(* for; the session cache; no tickets, no renegotiation, no PSK, TLS only. *)
(*                                                                         *)
(* The read callback runs alone: running is the connection it is at work   *)
(* for, whose handshake goes on until it wants more to read.  One message  *)
(* comes with a read; several make no difference, as nothing else runs     *)
(* between them.  Cryptography is taken at its word: a signature is known  *)
(* by who made it, and a secret is named for the connection it was made    *)
(* on.                                                                     *)
(***************************************************************************)
EXTENDS X509, FiniteSets

CONSTANTS
  Conns,        \* connections, numbered as they come: 1, 2, ...
  People,       \* who connects, each with a key
  chain_of,     \* their certificates, and those of who signed them
  Owners,       \* which of them make the connections
  Chains,       \* any chains that clients may send
  Verifies,     \* what ssl.verify may be
  Preference,   \* the ciphersuites of the server, the preferred first
  Offers,       \* sets of ciphersuites that clients know
  MAX_ENTRIES, TIMEOUT, \* of the cache; TIMEOUT = 0 for none
  MaxTime       \* bound: of the clock

ASSUME ConnsAssumption == Conns \subseteq Nat \ {0}
ASSUME PeopleAssumption ==
  /\ Owners \subseteq [Conns -> People]
  /\ chain_of \in [People -> Seq(Certificates)]
  /\ Chains \subseteq Seq(Certificates)
ASSUME CacheAssumption == MAX_ENTRIES \in Nat /\ TIMEOUT \in Nat

VARIABLES
  verify,   \* authmode REQUIRED, or NONE
  time,
  cache,    \* the chain of entries
  running,  \* 0 if the event loop is idle
  inbox,    \* the message that was read, while nobody has looked at it
  ssl,      \* the TLS context of each connection
  client    \* what is at the other end of each

vars == <<verify, time, cache, running, inbox, ssl, client>>

States == <<"HELLO_REQUEST", "CLIENT_HELLO", "SERVER_HELLO", "SERVER_CERTIFICATE",
            "SERVER_KEY_EXCHANGE", "CERTIFICATE_REQUEST", "SERVER_HELLO_DONE",
            "CLIENT_CERTIFICATE", "CLIENT_KEY_EXCHANGE", "CERTIFICATE_VERIFY",
            "CLIENT_CHANGE_CIPHER_SPEC", "CLIENT_FINISHED", "SERVER_CHANGE_CIPHER_SPEC",
            "SERVER_FINISHED", "FLUSH_BUFFERS", "HANDSHAKE_WRAPUP", "HANDSHAKE_OVER">>

After(state) ==
  LET i == CHOOSE i \in DOMAIN States : States[i] = state IN States[i + 1]

\* id and master name the connection the session was made on, 0 for none yet.
NoSession == [id |-> 0, ciphersuite |-> "", master |-> 0, peer_cert |-> << >>]

\* The certificate of peer_cert that is being verified, 0 for none, the intermediate
\* ones before it, and whether there are no flags so far.
NoPath == [at |-> 0, cnt |-> 0, ok |-> TRUE]

clax_ssl_init_ctx ==
  [state |-> "HELLO_REQUEST", resume |-> FALSE, session |-> NoSession, path |-> NoPath,
   done |-> FALSE, open |-> TRUE, messages |-> 0, over_at |-> 0]

NoMessage == [type |-> ""]

Init ==
  /\ verify \in Verifies
  /\ time = 1
  /\ cache = << >>
  /\ running = 0
  /\ inbox = NoMessage
  /\ ssl = [c \in Conns |-> clax_ssl_init_ctx]
  /\ client \in {[c \in Conns |-> [owner |-> o[c], regular |-> TRUE]] : o \in Owners}

-----------------------------------------------------------------------------
(* The clients.  One knows the secrets of the connections it made and the  *)
(* certificates of all; it can sign with its own key only.                 *)

MadeBy(p) == {o \in Conns : client[o].owner = p}

\* Any name that is not, or no more, in the cache is as good as any other.
Hellos ==
  {[type |-> "client_hello", id |-> o, suites |-> s] :
     o \in {0} \cup {o \in Conns : ssl[o].done}, s \in Offers}

\* What a client that keeps to the protocol sends in answer to the server.
Regular(c) ==
  LET session == ssl[c].session
      resumes == ssl[c].resume
      certificate == [type |-> "certificate", cert |-> chain_of[client[c].owner]]
      key_exchange == [type |-> "client_key_exchange"]
      signed == [type |-> "certificate_verify", by |-> client[c].owner]
      ccs == [type |-> "change_cipher_spec"]
      finished == [type |-> "finished", secret |-> IF resumes THEN session.id ELSE c]
  IN  CASE resumes -> <<ccs, finished>>
        [] ~resumes /\ verify -> <<certificate, key_exchange, signed, ccs, finished>>
        [] OTHER -> <<key_exchange, ccs, finished>>

RegularHello(c, m) ==
  m.suites # {} /\ m.id \in {0} \cup MadeBy(client[c].owner)

\* Anything else it may send instead: another certificate or none, something later or
\* out of place, the end of another handshake.
Others(c) ==
  {[type |-> "certificate", cert |-> chain] : chain \in Chains}
    \cup {[type |-> "client_key_exchange"], [type |-> "other"]}
    \cup {[type |-> "finished", secret |-> o] : o \in MadeBy(client[c].owner)}

Able(c, m) == m.type = "finished" => m.secret \in MadeBy(client[c].owner)

Receives(c, m, regular) ==
  /\ running' = c
  /\ inbox' = m
  /\ ssl' = [ssl EXCEPT ![c].messages = @ + 1]
  /\ client' = [client EXCEPT ![c].regular = @ /\ regular]

\* A client says hello, or what comes next, or something else.
Read(c) ==
  /\ running = 0 /\ ssl[c].open /\ ~ssl[c].done
  /\ LET n == ssl[c].messages
     IN  \/ /\ n = 0 /\ \A o \in 1..(c - 1) : ssl[o].open => ssl[o].messages > 0
            /\ \E m \in Hellos : Receives(c, m, RegularHello(c, m))
         \/ /\ n \in 1..Len(Regular(c))
            /\ Able(c, Regular(c)[n])
            /\ Receives(c, Regular(c)[n], TRUE)
         \/ /\ n \in 1..Len(Regular(c))
            /\ \E m \in Others(c) \ {Regular(c)[n]} : Receives(c, m, FALSE)
  /\ UNCHANGED <<verify, time, cache>>

\* Any other result of mbedtls_ssl_handshake closes the connection, and the context
\* is freed.
Closed(to) == [clax_ssl_init_ctx EXCEPT !.open = FALSE]

\* A client hangs up.
ReadEof(c) ==
  /\ running = 0 /\ ssl[c].open /\ ~ssl[c].done /\ ssl[c].messages > 0
  /\ ssl' = [ssl EXCEPT ![c] = Closed(@)]
  /\ client' = [client EXCEPT ![c].regular = FALSE]
  /\ UNCHANGED <<verify, time, cache, running, inbox>>

Tick ==
  /\ running = 0 /\ time < MaxTime
  /\ time' = time + 1
  /\ UNCHANGED <<verify, cache, running, inbox, ssl, client>>

-----------------------------------------------------------------------------
(* The cache.                                                              *)

IsOutdated(entry, t) == TIMEOUT # 0 /\ t - entry.timestamp > TIMEOUT

\* Variant: an entry is good for ever.
get_at_any_age(s) ==
  {i \in DOMAIN cache : cache[i].session.ciphersuite = s.ciphersuite /\ cache[i].session.id = s.id}

\* The entries that mbedtls_ssl_cache_get would take for a session.
Matching(s) ==
  {i \in DOMAIN cache : /\ ~IsOutdated(cache[i], time)
                        /\ cache[i].session.ciphersuite = s.ciphersuite
                        /\ cache[i].session.id = s.id}

mbedtls_ssl_cache_get(s) ==
  LET found == cache[First(Matching(s))].session
  IN  [s EXCEPT !.master = found.master, !.peer_cert = found.peer_cert]

Oldest(entries) ==
  First({i \in DOMAIN entries : \A j \in DOMAIN entries : entries[i].timestamp <= entries[j].timestamp})

\* Of its certificates a session keeps the client's own.
Kept(session) ==
  IF session.peer_cert = << >> THEN session
  ELSE [session EXCEPT !.peer_cert = <<Head(@)>>]

\* The place of the first entry that is outdated or has the same name, else a new
\* one, else that of the oldest.
mbedtls_ssl_cache_set(entries, s) ==
  LET entry == [session |-> s, timestamp |-> time]
      free == {i \in DOMAIN entries : IsOutdated(entries[i], time) \/ entries[i].session.id = s.id}
  IN  CASE free # {} /\ IsOutdated(entries[First(free)], time) ->
             [entries EXCEPT ![First(free)] = entry]
        [] free # {} /\ ~IsOutdated(entries[First(free)], time) ->
             [entries EXCEPT ![First(free)].session = s]
        [] free = {} /\ Len(entries) < MAX_ENTRIES -> Append(entries, entry)
        [] free = {} /\ Len(entries) >= MAX_ENTRIES /\ entries # << >> ->
             [entries EXCEPT ![Oldest(entries)] = entry]
        [] OTHER -> entries

-----------------------------------------------------------------------------
(* mbedtls_ssl_handshake_server_step, one action for each state.           *)

At(c, state) == running = c /\ ssl[c].open /\ ssl[c].path.at = 0 /\ ssl[c].state = state

\* A step of the connection alone, without a look at the message.
Goes(c, to) ==
  /\ ssl' = [ssl EXCEPT ![c] = to]
  /\ UNCHANGED <<verify, time, cache, running, inbox, client>>

Advances(c) == Goes(c, [ssl[c] EXCEPT !.state = After(@)])

\* The message is read; the handshake goes on.
Takes(c, to) ==
  /\ inbox # NoMessage
  /\ inbox' = NoMessage
  /\ ssl' = [ssl EXCEPT ![c] = to]
  /\ UNCHANGED <<verify, time, cache, running, client>>

\* The message is read, and refused in a state the context is left in.
Refuses(c, to) ==
  /\ inbox # NoMessage
  /\ inbox' = NoMessage
  /\ running' = 0
  /\ ssl' = [ssl EXCEPT ![c] = Closed(to)]
  /\ UNCHANGED <<verify, time, cache, client>>

Moved(c) == [ssl[c] EXCEPT !.state = After(@)]

WantRead(c) ==
  /\ running = c /\ inbox = NoMessage /\ ssl[c].path.at = 0
  /\ \/ ssl[c].state \in {"CLIENT_HELLO", "CLIENT_KEY_EXCHANGE", "CLIENT_CHANGE_CIPHER_SPEC",
                          "CLIENT_FINISHED"}
     \/ ssl[c].state = "CLIENT_CERTIFICATE" /\ verify
     \/ ssl[c].state = "CERTIFICATE_VERIFY" /\ ssl[c].session.peer_cert # << >>
  /\ running' = 0
  /\ UNCHANGED <<verify, time, cache, inbox, ssl, client>>

HelloRequest(c) == At(c, "HELLO_REQUEST") /\ Advances(c)

Chosen(suites) ==
  Preference[First({i \in DOMAIN Preference : Preference[i] \in suites})]

ssl_parse_client_hello(c) ==
  /\ At(c, "CLIENT_HELLO")
  /\ \/ /\ inbox.type = "client_hello" /\ inbox.suites # {}
        /\ Takes(c, [Moved(c) EXCEPT !.session.id = inbox.id,
                                     !.session.ciphersuite = Chosen(inbox.suites)])
     \/ /\ inbox.type = "client_hello" => inbox.suites = {}
        /\ Refuses(c, ssl[c])

\* Resumed, if the cache has the session; else a new one, with a name of its own.
ssl_write_server_hello(c) ==
  /\ At(c, "SERVER_HELLO")
  /\ LET session == ssl[c].session
         resumes == session.id # 0 /\ Matching(session) # {}
     IN  \/ resumes /\ Goes(c, [ssl[c] EXCEPT !.resume = TRUE,
                                              !.session = mbedtls_ssl_cache_get(session),
                                              !.state = "SERVER_CHANGE_CIPHER_SPEC"])
         \/ ~resumes /\ Goes(c, [Moved(c) EXCEPT !.session.id = c])

mbedtls_ssl_write_certificate(c) == At(c, "SERVER_CERTIFICATE") /\ Advances(c)

\* Whether there is a message or not; the same is true of the request.
ssl_write_server_key_exchange(c) == At(c, "SERVER_KEY_EXCHANGE") /\ Advances(c)

ssl_write_certificate_request(c) == At(c, "CERTIFICATE_REQUEST") /\ Advances(c)

ssl_write_server_hello_done(c) == At(c, "SERVER_HELLO_DONE") /\ Advances(c)

\* The state has moved on when the certificate is looked at.
mbedtls_ssl_parse_certificate(c) ==
  /\ At(c, "CLIENT_CERTIFICATE")
  /\ LET sent == inbox.type = "certificate" /\ inbox.cert # << >>
     IN  \/ ~verify /\ Advances(c)
         \/ verify /\ sent /\ Takes(c, [Moved(c) EXCEPT !.session.peer_cert = inbox.cert,
                                                        !.path = [NoPath EXCEPT !.at = 1]])
         \/ verify /\ ~sent /\ Refuses(c, Moved(c))

\* mbedtls_x509_crt_verify_with_profile, one step for each certificate.
Verifying(c) == running = c /\ ssl[c].open /\ ssl[c].path.at # 0

Fails(c) ==
  /\ running' = 0
  /\ ssl' = [ssl EXCEPT ![c] = Closed(@)]
  /\ UNCHANGED <<verify, time, cache, inbox, client>>

x509_crt_verify_child(c) ==
  /\ Verifying(c)
  /\ LET chain == ssl[c].session.peer_cert
         path == ssl[c].path
         above == Parents(chain, path.at, path.cnt)
         parent == First(above)
         right == ChildRight(chain[path.at], chain[parent], time)
     IN  /\ above # {}
         /\ \/ path.cnt + 1 > MAX_INTERMEDIATE_CA /\ Fails(c)
            \/ /\ path.cnt + 1 <= MAX_INTERMEDIATE_CA
               /\ Goes(c, [ssl[c] EXCEPT !.path = [at |-> parent, cnt |-> path.cnt + 1,
                                                   ok |-> path.ok /\ right]])

\* The end of the chain; what is found, and what the client's certificate is for,
\* decides.
VerifyTop(c) ==
  /\ Verifying(c)
  /\ LET chain == ssl[c].session.peer_cert
         path == ssl[c].path
         good == /\ path.ok /\ x509_crt_verify_top(chain[path.at], path.cnt, time)
                 /\ chain[1].client_auth
     IN  /\ Parents(chain, path.at, path.cnt) = {}
         /\ \/ good /\ Goes(c, [ssl[c] EXCEPT !.path = NoPath])
            \/ ~good /\ Fails(c)

ssl_parse_client_key_exchange(c) ==
  /\ At(c, "CLIENT_KEY_EXCHANGE")
  /\ \/ inbox.type = "client_key_exchange" /\ Takes(c, [Moved(c) EXCEPT !.session.master = c])
     \/ inbox.type # "client_key_exchange" /\ Refuses(c, ssl[c])

\* A signature is expected if there was a certificate.
ssl_parse_certificate_verify(c) ==
  /\ At(c, "CERTIFICATE_VERIFY")
  /\ LET peer_cert == ssl[c].session.peer_cert
         right == inbox.type = "certificate_verify" /\ inbox.by = peer_cert[1].key
     IN  \/ peer_cert = << >> /\ Advances(c)
         \/ peer_cert # << >> /\ right /\ Takes(c, Moved(c))
         \/ peer_cert # << >> /\ ~right /\ Refuses(c, Moved(c))

mbedtls_ssl_parse_change_cipher_spec(c) ==
  /\ At(c, "CLIENT_CHANGE_CIPHER_SPEC")
  /\ \/ inbox.type = "change_cipher_spec" /\ Takes(c, Moved(c))
     \/ inbox.type # "change_cipher_spec" /\ Refuses(c, ssl[c])

\* Variant: a resumed handshake goes on like a new one.
finished_goes_on(s) == After(s.state)

\* Whoever resumes a session finishes first, and is at the end of it.
AfterFinished(s) == IF s.resume THEN "HANDSHAKE_WRAPUP" ELSE After(s.state)

\* What is finished with another secret can neither be decrypted nor compared.
mbedtls_ssl_parse_finished(c) ==
  /\ At(c, "CLIENT_FINISHED")
  /\ LET right == inbox.type = "finished" /\ inbox.secret = ssl[c].session.master
     IN  \/ right /\ Takes(c, [ssl[c] EXCEPT !.state = AfterFinished(ssl[c])])
         \/ ~right /\ Refuses(c, ssl[c])

mbedtls_ssl_write_change_cipher_spec(c) == At(c, "SERVER_CHANGE_CIPHER_SPEC") /\ Advances(c)

mbedtls_ssl_write_finished(c) ==
  /\ At(c, "SERVER_FINISHED")
  /\ Goes(c, [ssl[c] EXCEPT !.state = IF ssl[c].resume THEN "CLIENT_CHANGE_CIPHER_SPEC" ELSE After(@)])

FlushBuffers(c) == At(c, "FLUSH_BUFFERS") /\ Advances(c)

\* A new session goes to the cache.
mbedtls_ssl_handshake_wrapup(c) ==
  /\ At(c, "HANDSHAKE_WRAPUP")
  /\ ssl' = [ssl EXCEPT ![c] = [Moved(c) EXCEPT !.resume = FALSE, !.over_at = time]]
  /\ cache' = IF ssl[c].session.id # 0 /\ ~ssl[c].resume
              THEN mbedtls_ssl_cache_set(cache, Kept(ssl[c].session)) ELSE cache
  /\ UNCHANGED <<verify, time, running, inbox, client>>

\* mbedtls_ssl_handshake returns 0: from now on the connection carries requests.
HandshakeDone(c) ==
  /\ At(c, "HANDSHAKE_OVER")
  /\ ssl' = [ssl EXCEPT ![c].done = TRUE]
  /\ running' = 0
  /\ UNCHANGED <<verify, time, cache, inbox, client>>

HandshakeStep(c) ==
  \/ WantRead(c) \/ HelloRequest(c) \/ ssl_parse_client_hello(c) \/ ssl_write_server_hello(c)
  \/ mbedtls_ssl_write_certificate(c) \/ ssl_write_server_key_exchange(c)
  \/ ssl_write_certificate_request(c) \/ ssl_write_server_hello_done(c)
  \/ mbedtls_ssl_parse_certificate(c) \/ x509_crt_verify_child(c) \/ VerifyTop(c)
  \/ ssl_parse_client_key_exchange(c)
  \/ ssl_parse_certificate_verify(c) \/ mbedtls_ssl_parse_change_cipher_spec(c)
  \/ mbedtls_ssl_parse_finished(c) \/ mbedtls_ssl_write_change_cipher_spec(c)
  \/ mbedtls_ssl_write_finished(c) \/ FlushBuffers(c) \/ mbedtls_ssl_handshake_wrapup(c)
  \/ HandshakeDone(c)

Next == Tick \/ \E c \in Conns : Read(c) \/ ReadEof(c) \/ HandshakeStep(c)

Spec == Init /\ [][Next]_vars

\* A client that keeps to the protocol sends what comes next.
ReadRegular(c) == Read(c) /\ client'[c].regular

\* What was sent arrives, and a callback runs to its end.
FairSpec ==
  /\ Spec
  /\ WF_vars(\E c \in Conns : HandshakeStep(c))
  /\ \A c \in Conns : WF_vars(ReadRegular(c))

-----------------------------------------------------------------------------
(* Properties.                                                             *)

\* A connection that carries requests is with somebody who knows the secret of its
\* session and, if clax verifies, holds the key of a certificate from which a path of
\* certificates, each signed by a CA, leads to one that clax trusts, and did so at some
\* time up to now; also when the session is from an earlier connection, whatever else
\* was sent along, and although a message that is refused leaves the context in the
\* next state (mbedtls_ssl_parse_certificate, ssl_parse_certificate_verify,
\* mbedtls_x509_crt_verify_with_profile, clax_conn_uv_read_cb).
Authenticated ==
  \A c \in Conns : ssl[c].done =>
    /\ ssl[c].session.master \in MadeBy(client[c].owner)
    /\ verify => \E t \in 1..time : Certified(client[c].owner, t)

IdsOf(entries) == {entries[i].session.id : i \in DOMAIN entries}

IsOldest(entry) == \A i \in DOMAIN cache : entry.timestamp <= cache[i].timestamp

\* The cache forgets a session only when it is outdated or, if there is no more room
\* for another, the oldest; it never has more than it may, nor two of one name; and no
\* session is resumed that is outdated (ssl_cache.c).
SessionsKept ==
  [][/\ \A i \in DOMAIN cache :
         cache[i].session.id \in IdsOf(cache') \/ IsOutdated(cache[i], time)
           \/ (Len(cache) = MAX_ENTRIES /\ IsOldest(cache[i]))
     /\ Len(cache') <= MAX_ENTRIES /\ Cardinality(IdsOf(cache')) = Len(cache')
     /\ \A c \in Conns : ssl'[c].resume /\ ~ssl[c].resume =>
         TIMEOUT = 0 \/ time - ssl[ssl'[c].session.master].over_at <= TIMEOUT]_vars

\* Those whose chain is in order for as long as the clock goes on.
WellCertified == {p \in People : \A t \in 1..MaxTime : InOrder(chain_of[p], t)}

\* A client that keeps to the protocol and, if clax verifies, has its chain of
\* certificates in order, gets through the handshake, new or resumed: neither waits for
\* the other for ever.
RegularServed ==
  \A c \in Conns :
    <>(ssl[c].done \/ ~client[c].regular \/ (verify /\ client[c].owner \notin WellCertified))
=============================================================================
