------------------------------ MODULE ClaxTls ------------------------------
(***************************************************************************)
(* The receiving side of a TLS connection (clax.c): what a read of the     *)
(* socket brings is lent to mbedTLS, which asks clax_recv for the bytes it *)
(* wants, and what it decodes goes to the parser.                          *)
(*                                                                         *)
(* A callback runs alone, so that its steps are actions of their own here  *)
(* and pc tells how far it is.  Bytes are counted in units: a record is a  *)
(* header of one unit and its body.  mbedTLS wants the header first, then  *)
(* the body, and keeps what it has of a record from one call to the next.  *)
(* It takes nothing but a header for a header, and a record that is not    *)
(* the next in order has a wrong MAC.  The sending side is that of         *)
(* ClaxConn: clax_send is its clax_conn_write_cb.                          *)
(***************************************************************************)
EXTENDS Integers, Sequences, SequencesExt

CONSTANTS
  Scripts,   \* what a client may send, sequences of records
  Limit,     \* how much of a record one call decodes, 1024 bytes in the code
  Room       \* how much mbedTLS has room for

Record == [kind : {"handshake", "data", "close"}, size : Nat \ {0}]

\* The clients are those that do not ask for a second handshake: clax leaves
\* renegotiation disabled, and how mbedTLS refuses it is not modelled.
ASSUME ScriptsAssumption ==
  /\ Scripts \subseteq Seq(Record)
  /\ \A s \in Scripts : \A i, j \in DOMAIN s :
       i < j /\ s[j].kind = "handshake" => s[i].kind = "handshake"
ASSUME LimitAssumption == Limit \in Nat \ {0}
ASSUME RoomAssumption == Room \in Nat

VARIABLES
  script,      \* the records of this client
  wire,        \* the units sent that were not read from the socket
  ssl,         \* the buffer lent to mbedTLS: ssl.buf is buf from at on, ssl.len is len
  record,      \* the units mbedTLS has of the record it is at
  decoded,     \* the units it has decoded and not handed out
  records,     \* the number of records it has taken
  ssl_handshake_done,
  pc,          \* what the read callback is doing
  delivered,   \* the units the parser was given
  conn,
  gentle       \* were all reads such as the code expects them (a history)

vars == <<script, wire, ssl, record, decoded, records, ssl_handshake_done, pc, delivered,
          conn, gentle>>

\* The units of record i of a script, its header first.
Units(s, i) == [k \in 1..(s[i].size + 1) |-> [rec |-> i, at |-> k - 1]]
Body(s, i) == Tail(Units(s, i))

Stream(s) == FlattenSeq([i \in DOMAIN s |-> Units(s, i)])
Plaintext(s) == FlattenSeq([i \in DOMAIN s |-> IF s[i].kind = "data" THEN Body(s, i) ELSE << >>])

Init ==
  /\ script \in Scripts
  /\ wire = Stream(script)
  /\ ssl = [buf |-> << >>, at |-> 0, len |-> 0]
  /\ record = << >> /\ decoded = << >> /\ records = 0
  /\ ssl_handshake_done = FALSE
  /\ pc = "idle"
  /\ delivered = << >>
  /\ conn = "open"
  /\ gentle = TRUE

Least(a, b) == IF a < b THEN a ELSE b

-----------------------------------------------------------------------------
(* A read of the socket.                                                   *)

\* The reads the code can cope with end with a record, bring at most one that
\* is not of the handshake, and nothing that one call does not decode or that
\* mbedTLS has no room for.
Copes(n) ==
  LET last == wire[n]
      others == {i \in DOMAIN script : script[i].kind # "handshake"
                                         /\ \E k \in 1..n : wire[k].rec = i}
  IN  /\ last.at = script[last.rec].size
      /\ n <= Room
      /\ \A i, j \in others : i = j
      /\ \A i \in others : script[i].size <= Limit

\* clax_conn_uv_read_cb: the buffer replaces the one before, whatever was left
\* of that.
Read(n) ==
  /\ conn = "open" /\ pc = "idle"
  /\ n \in 1..Len(wire)
  /\ ssl' = [buf |-> SubSeq(wire, 1, n), at |-> 0, len |-> n]
  /\ wire' = SubSeq(wire, n + 1, Len(wire))
  /\ pc' = IF ssl_handshake_done THEN "read" ELSE "handshake"
  /\ gentle' = (gentle /\ Copes(n))
  /\ UNCHANGED <<script, record, decoded, records, ssl_handshake_done, delivered, conn>>

\* The end of the client's stream.
ReadEof ==
  /\ conn = "open" /\ pc = "idle" /\ wire = << >>
  /\ conn' = "closed"
  /\ UNCHANGED <<script, wire, ssl, record, decoded, records, ssl_handshake_done, pc,
                 delivered, gentle>>

-----------------------------------------------------------------------------
(* clax_recv: what it returns, and what it leaves of the buffer.  The      *)
(* comparison with len is unsigned, so that a negative ssl.len counts as a *)
(* large one.                                                              *)

Have(len) == IF ssl.len < 0 THEN len ELSE Least(len, ssl.len)

\* Variant: what was taken is not subtracted.
recv_keeps_len(len) == [ssl EXCEPT !.at = @ + len]

\* Both move by what was asked for, not by what there was.
Advanced(len) == [ssl EXCEPT !.at = @ + len, !.len = @ - len]

\* It copies ssl.len bytes, however many were asked for: is this defined, with
\* so much of the record there before?
CopyDefined ==
  /\ ssl.len >= 0
  /\ ssl.at + ssl.len <= Len(ssl.buf) \/ ssl.len = 0
  /\ Len(record) + ssl.len <= Room

-----------------------------------------------------------------------------
(* mbedTLS in the handshake and in the read.                               *)

Running == conn = "open" /\ pc # "idle" /\ decoded = << >>

Wanted == IF record = << >> THEN 1 ELSE 1 + script[record[1].rec].size

\* What it has begins with a header.
Framed == record # << >> => Head(record).at = 0

\* What it has is of the next record.
InSequence == \A k \in DOMAIN record : record[k] = [rec |-> records + 1, at |-> k - 1]

Fetch ==
  LET len == Wanted - Len(record)
      have == Have(len)
  IN  /\ Running /\ Framed
      /\ len > 0
      /\ CopyDefined
      /\ record' = record \o SubSeq(ssl.buf, ssl.at + 1, ssl.at + have)
      /\ ssl' = Advanced(len)
      /\ pc' = IF have = 0 THEN "idle" ELSE pc
      /\ UNCHANGED <<script, wire, decoded, records, ssl_handshake_done, delivered, conn, gentle>>

\* A copy out of bounds: nothing is known any more.
FetchUndefined ==
  /\ Running /\ Framed
  /\ Wanted > Len(record)
  /\ ~CopyDefined
  /\ conn' = "undefined" /\ pc' = "idle"
  /\ UNCHANGED <<script, wire, ssl, record, decoded, records, ssl_handshake_done, delivered,
                 gentle>>

\* A unit that no client sent: memory that was allocated and not written.
Garbage == [rec |-> 0, at |-> 0]

\* No header, or not the next record.  A failed handshake closes the connection.  A
\* failed read passes its negative result on as the length of what was read, and the
\* parser runs over the buffer nothing was decoded into: what it takes for a request
\* there, where it stops, and whether it leaves the buffer depend on what the memory
\* held.
BadRecord ==
  /\ Running
  /\ Framed => Wanted = Len(record) /\ ~InSequence
  /\ pc' = "idle"
  /\ \/ /\ pc = "handshake" /\ conn' = "closed"
        /\ delivered' = delivered
     \/ /\ pc = "read" /\ conn' = "undefined"
        /\ \E n \in 1..Limit : delivered' = delivered \o [k \in 1..n |-> Garbage]
  /\ UNCHANGED <<script, wire, ssl, record, decoded, records, ssl_handshake_done, gentle>>

Whole(kind) ==
  /\ Running /\ InSequence
  /\ record # << >> /\ Len(record) = Wanted
  /\ script[records + 1].kind = kind

\* Variant: the callback returns when the handshake is over.
handshake_returns(last) == IF last THEN "idle" ELSE "handshake"

AfterHandshakeRecord(last) == IF last THEN "read" ELSE "handshake"

\* The handshake is over with the last record of its kind, and the callback
\* goes on to read what may have come with it.
Handshake ==
  LET last == records + 1 = Len(script) \/ script[records + 2].kind # "handshake"
  IN  /\ Whole("handshake") /\ pc = "handshake"
      /\ ssl_handshake_done' = last
      /\ pc' = AfterHandshakeRecord(last)
      /\ record' = << >> /\ records' = records + 1
      /\ UNCHANGED <<script, wire, ssl, decoded, delivered, conn, gentle>>

Decode ==
  /\ Whole("data") /\ pc = "read"
  /\ decoded' = Tail(record)
  /\ record' = << >> /\ records' = records + 1
  /\ UNCHANGED <<script, wire, ssl, ssl_handshake_done, pc, delivered, conn, gentle>>

CloseNotify ==
  /\ Whole("close") /\ pc = "read"
  /\ conn' = "closed" /\ pc' = "idle"
  /\ record' = << >> /\ records' = records + 1
  /\ UNCHANGED <<script, wire, ssl, decoded, ssl_handshake_done, delivered, gentle>>

\* Variant: the length of what was read from the socket is passed on.
deliver_socket_count(n) ==
  SubSeq(decoded, 1, n) \o [k \in 1..(Len(ssl.buf) - n) |-> Garbage]

Decoded(n) == SubSeq(decoded, 1, n)

\* One piece of a record is decoded and parsed; then the callback ends.
Deliver ==
  LET n == Least(Limit, Len(decoded))
  IN  /\ conn = "open" /\ pc = "read" /\ decoded # << >>
      /\ delivered' = delivered \o Decoded(n)
      /\ decoded' = SubSeq(decoded, n + 1, Len(decoded))
      /\ pc' = "idle"
      /\ UNCHANGED <<script, wire, ssl, record, records, ssl_handshake_done, conn, gentle>>

-----------------------------------------------------------------------------
Callback ==
  Fetch \/ FetchUndefined \/ BadRecord \/ Handshake \/ Decode \/ CloseNotify \/ Deliver

Next == (\E n \in 1..Len(wire) : Read(n)) \/ ReadEof \/ Callback

Spec == Init /\ [][Next]_vars

\* What was sent arrives, and a callback runs to its end; no client need hang
\* up.
FairSpec == Spec /\ WF_vars((\E n \in 1..Len(wire) : Read(n)) \/ Callback)

-----------------------------------------------------------------------------
(* Properties.                                                             *)

\* However a record is cut into reads, and whatever part of it clax_recv loses
\* (clax.c:111-126), the parser is given what the client wrote, in order and without a
\* gap, until a copy is out of bounds or an error of mbedTLS is passed on as a length
\* (clax.c:558-572).  With that error it is given what no client sent.
InOrder == conn # "undefined" => IsPrefix(delivered, Plaintext(script))

\* With reads it can cope with, clax_recv copies nothing out of bounds, and no
\* error is taken for a length.
GentleDefined == gentle => conn # "undefined"

\* With such reads, all the client wrote is parsed.
GentleDelivered == []gentle => <>(delivered = Plaintext(script))

\* All the client wrote is parsed.
Delivered == <>(delivered = Plaintext(script))
=============================================================================
