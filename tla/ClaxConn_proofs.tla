-------------------------- MODULE ClaxConn_proofs --------------------------
(***************************************************************************)
(* ClaxConn keeps its type, counts the writes in flight exactly, and does  *)
(* not cut off a response itself unless libuv refuses one of its writes:   *)
(* for every set of requests, every failure of the system calls, every     *)
(* order of the callbacks and whenever the client hangs up.                *)
(*                                                                         *)
(* A client that waits for its answer is served: what clax writes is one   *)
(* well-framed response, ended when it is complete; a request that was     *)
(* read is always being worked on, by one operation at a time; no callback *)
(* meets a freed context; and what the client sees is ResponseStream.      *)
(*                                                                         *)
(* The second argument is a division into stages (Stage below): a          *)
(* connection is about to read the request, receives its body, works for   *)
(* it with one file operation, sends a file, runs a command or has ended,  *)
(* and each stage fixes what is on the wire, which operations are in       *)
(* flight and what the temporary file holds.  First comes what every       *)
(* client's connection keeps; then what the response writer does to the    *)
(* context and to the wire; then, callback by callback, that every step    *)
(* leads from a stage to a stage.                                          *)
(***************************************************************************)
EXTENDS ClaxConn, SequenceTheorems, FiniteSetTheorems, TLAPS

-----------------------------------------------------------------------------
(* What every function of the request and response side keeps true of a    *)
(* context, function by function, from the write path up to the parser.    *)

\* A context whose count of unfinished writes is right, and that had a write
\* refused only if one is refused.
Good(c) ==
  /\ c \in Ctx
  /\ c.ctx = "live" => c.to_write = c.writes
  /\ c.refused => c.refuse_at \in Nat

\* d has what c has on the wire, and what it adds is being written.
Extends(c, d) ==
  /\ Len(d.wire) - d.writes = Len(c.wire) - c.writes
  /\ Len(c.wire) <= Len(d.wire)
  /\ \A i \in 1..Len(c.wire) : d.wire[i] = c.wire[i]

\* d is what a function may make of a good c: it is good, and freed only if c was
\* or a write was refused.  Of a freed c the function leaves the response alone;
\* what was written stays.
Step(c, d) ==
  /\ Good(c) /\ Good(d) /\ Extends(c, d)
  /\ d.refuse_at = c.refuse_at /\ (c.refused => d.refused)
  /\ d.ctx = c.ctx \/ (d.ctx = "freed" /\ d.refused)
  /\ c.ctx = "freed" => d.writes = c.writes /\ d.finalized = c.finalized

\* d differs from c in what the count and the wire do not depend on, and in
\* finalized only if c is live.
Alike(c, d) ==
  /\ d \in Ctx /\ d.ctx = c.ctx
  /\ d.refuse_at = c.refuse_at /\ d.refused = c.refused
  /\ d.to_write = c.to_write /\ d.writes = c.writes /\ d.wire = c.wire
  /\ c.ctx = "freed" => d.finalized = c.finalized

\* The wire is a sequence of pieces.
LEMMA WireTyped ==
  ASSUME NEW c, Good(c) PROVE c.wire \in Seq(Piece) /\ Len(c.wire) \in Nat /\ c.writes \in Nat
  <1>1. c.wire \in Seq(Piece) /\ c.writes \in Nat
    BY DEF Good, Ctx
  <1>. QED  BY <1>1, LenProperties

\* Such an assignment is a step.
LEMMA AlikeStep == ASSUME NEW c, Good(c), NEW d, Alike(c, d) PROVE Step(c, d)
  <1>1. Len(c.wire) \in Nat
    BY WireTyped
  <1>2. d.wire = c.wire /\ d.writes = c.writes
    BY DEF Alike
  <1>3. Extends(c, d)
    <2>1. /\ Len(d.wire) - d.writes = Len(c.wire) - c.writes
          /\ \A i \in 1..Len(c.wire) : d.wire[i] = c.wire[i]
      BY <1>2, Zenon
    <2>2. Len(c.wire) <= Len(d.wire)
      BY <1>1, <1>2
    <2>. QED  BY <2>1, <2>2, Zenon DEF Extends
  <1>. QED  BY <1>3 DEF Alike, Step, Good

\* Doing nothing is a step.
LEMMA StepRefl == ASSUME NEW c, Good(c) PROVE Step(c, c)
  BY AlikeStep DEF Alike, Good

\* Callbacks compose.
LEMMA StepTrans ==
  ASSUME NEW c, NEW d, NEW e, Step(c, d), Step(d, e)
  PROVE  Step(c, e)
  <1>1. Len(c.wire) \in Nat /\ Len(d.wire) \in Nat
    BY WireTyped DEF Step
  <1>2. Extends(c, e)
    BY <1>1 DEF Step, Extends
  <1>. QED  BY <1>2 DEF Step

\* A step leads to a good context.
LEMMA StepGood == ASSUME NEW c, NEW d, Step(c, d) PROVE Good(d)
  BY DEF Step

-----------------------------------------------------------------------------
\* The initial context is good.
LEMMA InitGood == Good(clax_ctx_init)
  BY DEF Good, clax_ctx_init, Ctx, FsOps, Framing, Piece

\* Assignments to fields the response does not depend on.
LEMMA SetStatus ==
  ASSUME NEW c, Good(c), NEW s \in Nat PROVE Step(c, clax_http_response_status(c, s))
  <1>1. Alike(c, clax_http_response_status(c, s))
    BY DEF clax_http_response_status, Alike, Good, Ctx
  <1>. QED  BY <1>1, AlikeStep

\* A header is added.
LEMMA SetHeader ==
  ASSUME NEW c, Good(c), NEW h \in Framing PROVE Step(c, clax_http_response_header(c, h))
  <1>1. Alike(c, clax_http_response_header(c, h))
    BY DEF clax_http_response_header, Alike, Good, Ctx
  <1>. QED  BY <1>1, AlikeStep

\* The response gets a body in memory.
LEMMA SetBody ==
  ASSUME NEW c, Good(c) PROVE Step(c, [c EXCEPT !.has_body = TRUE])
  <1> DEFINE d == [c EXCEPT !.has_body = TRUE]
  <1>1. Alike(c, d)
    BY DEF Alike, Good, Ctx
  <1>. HIDE DEF d
  <1>2. Step(c, d)
    BY <1>1, AlikeStep
  <1>. QED  BY <1>2 DEF d

\* The file of the response is closed.
LEMMA SetFileClosed ==
  ASSUME NEW c, Good(c) PROVE Step(c, [c EXCEPT !.fs_open = FALSE])
  <1> DEFINE d == [c EXCEPT !.fs_open = FALSE]
  <1>1. Alike(c, d)
    BY DEF Alike, Good, Ctx
  <1>. HIDE DEF d
  <1>2. Step(c, d)
    BY <1>1, AlikeStep
  <1>. QED  BY <1>2 DEF d

\* The response gets a file.
LEMMA SetFileOpen ==
  ASSUME NEW c, Good(c)
  PROVE  Step(c, [c EXCEPT !.body_handle = TRUE, !.fs_open = TRUE])
  <1> DEFINE d == [c EXCEPT !.body_handle = TRUE, !.fs_open = TRUE]
  <1>1. Alike(c, d)
    BY DEF Alike, Good, Ctx
  <1>. HIDE DEF d
  <1>2. Step(c, d)
    BY <1>1, AlikeStep
  <1>. QED  BY <1>2 DEF d

\* The wait for a 100 begins or ends.
LEMMA SetExpected ==
  ASSUME NEW c, Good(c), NEW b \in BOOLEAN PROVE Step(c, [c EXCEPT !.continue_expected = b])
  <1> DEFINE d == [c EXCEPT !.continue_expected = b]
  <1>1. Alike(c, d)
    BY DEF Alike, Good, Ctx
  <1>. HIDE DEF d
  <1>2. Step(c, d)
    BY <1>1, AlikeStep
  <1>. QED  BY <1>2 DEF d

\* A use after free is recorded.
LEMMA SetStale ==
  ASSUME NEW c, Good(c) PROVE Step(c, [c EXCEPT !.stale = TRUE])
  <1> DEFINE d == [c EXCEPT !.stale = TRUE]
  <1>1. Alike(c, d)
    BY DEF Alike, Good, Ctx
  <1>. HIDE DEF d
  <1>2. Step(c, d)
    BY <1>1, AlikeStep
  <1>. QED  BY <1>2 DEF d

\* A child is started, or its handles change their state.
LEMMA SetCommand ==
  ASSUME NEW c, Good(c), NEW q \in {"open", "unread"}
  PROVE  Step(c, [c EXCEPT !.process = "running", !.pipe = q])
  <1> DEFINE d == [c EXCEPT !.process = "running", !.pipe = q]
  <1>1. Alike(c, d)
    BY DEF Alike, Good, Ctx
  <1>. HIDE DEF d
  <1>2. Step(c, d)
    BY <1>1, AlikeStep
  <1>. QED  BY <1>2 DEF d

\* A function that is undefined on a freed context is a step if it is one on a
\* live context.
LEMMA OnLiveStep ==
  ASSUME NEW c, Good(c), NEW d, c.ctx = "live" => Step(c, d)
  PROVE  Step(c, OnLive(c, d))
  BY SetStale DEF OnLive, Good, Ctx

\* An operation is handed to libuv.
LEMMA SubmitStep ==
  ASSUME NEW c, Good(c), NEW k \in FsOps
  PROVE  Step(c, Submit(c, k))
  <1>1. c \in Ctx /\ c.fs \in [FsOps -> Nat]
    BY DEF Good, Ctx
  <1>2. ASSUME NEW f \in [FsOps -> Nat] PROVE Step(c, [c EXCEPT !.fs = f])
    <2>1. Alike(c, [c EXCEPT !.fs = f])
      BY <1>1, <1>2 DEF Alike, Good, Ctx
    <2>. QED  BY <2>1, AlikeStep
  <1>3. [c.fs EXCEPT ![k] = @ + 1] \in [FsOps -> Nat]
    BY <1>1
  <1>. QED  BY <1>2, <1>3 DEF Submit

-----------------------------------------------------------------------------
\* A write that libuv takes never closes the connection: with the count right, the
\* test at the end of clax_conn_write_cb cannot succeed.  One that it refuses does.
LEMMA WriteStep ==
  ASSUME NEW c, Good(c), NEW p \in Piece
  PROVE  Step(c, clax_conn_write_cb(c, p))
  <1> DEFINE d == [c EXCEPT !.to_write = @ + 1]
             q == [d EXCEPT !.writes = @ + 1, !.wire = Append(@, p)]
             f == [d EXCEPT !.refused = TRUE]
             g == [f EXCEPT !.ctx = "freed"]
             h == [g EXCEPT !.stale = TRUE]
  <1>1. c \in Ctx /\ c.to_write \in Int /\ c.writes \in Nat /\ c.wire \in Seq(Piece)
    BY DEF Good, Ctx
  <1>2. ASSUME NEW n \in Int PROVE [c EXCEPT !.to_write = n] \in Ctx
    BY <1>1 DEF Ctx
  <1>3. /\ d \in Ctx /\ d.ctx = c.ctx /\ d.to_write = c.to_write + 1 /\ d.writes = c.writes
        /\ d.wire = c.wire /\ d.refuse_at = c.refuse_at /\ d.refused = c.refused
        /\ d.finalized = c.finalized
    <2>1. d \in Ctx
      BY <1>1, <1>2
    <2>. QED  BY <1>1, <2>1 DEF Ctx
  <1>. HIDE DEF d
  <1>4. ASSUME c.ctx = "live" PROVE q.ctx = "live" /\ q.to_write # 0 /\ Step(c, q)
    <2>1. Append(c.wire, p) \in Seq(Piece) /\ c.writes + 1 \in Nat
      BY <1>1
    <2>2. ASSUME NEW m \in Nat, NEW w \in Seq(Piece)
          PROVE  [d EXCEPT !.writes = m, !.wire = w] \in Ctx
      BY <1>3 DEF Ctx
    <2>3. /\ q \in Ctx /\ q.ctx = "live" /\ q.to_write = c.to_write + 1
          /\ q.writes = c.writes + 1 /\ q.wire = Append(c.wire, p)
          /\ q.refuse_at = c.refuse_at /\ q.refused = c.refused /\ q.finalized = c.finalized
      <3>1. q \in Ctx
        BY <1>3, <2>1, <2>2
      <3>. QED  BY <1>3, <1>4, <3>1 DEF Ctx
    <2>4. /\ Len(c.wire) \in Nat /\ Len(q.wire) = Len(c.wire) + 1
          /\ \A i \in 1..Len(c.wire) : q.wire[i] = c.wire[i]
      BY <1>1, <2>3, AppendProperties
    <2>. HIDE DEF q
    <2>5. Extends(c, q)
      <3>1. \A i \in 1..Len(c.wire) : q.wire[i] = c.wire[i]
        BY <2>4
      <3>2. Len(c.wire) <= Len(q.wire)
        BY <2>4
      <3>3. Len(q.wire) - q.writes = Len(c.wire) - c.writes
        <4>1. Len(c.wire) \in Nat /\ c.writes \in Nat
          BY <1>1, <2>4
        <4>2. Len(q.wire) = Len(c.wire) + 1 /\ q.writes = c.writes + 1
          BY <2>3, <2>4
        <4>. QED  BY <4>1, <4>2
      <3>. QED  BY <3>1, <3>2, <3>3 DEF Extends
    <2>6. q.to_write = q.writes /\ q.to_write # 0 /\ (q.refused => q.refuse_at \in Nat)
      BY <1>1, <1>4, <2>3 DEF Good
    <2>. QED  BY <1>4, <2>3, <2>5, <2>6 DEF Step, Good
  <1>5. ASSUME c.ctx = "live", Len(c.wire) = c.refuse_at
        PROVE  f.ctx = "live" /\ g.ctx = "freed" /\ Step(c, h)
    <2>1. f \in Ctx /\ g \in Ctx /\ h \in Ctx
      BY <1>3 DEF Ctx
    <2>2. f.ctx = "live" /\ g.ctx = "freed" /\ h.ctx = "freed" /\ h.refused
      BY <1>3, <1>5, <2>1 DEF Ctx
    <2>3. h.wire = c.wire /\ h.writes = c.writes /\ h.refuse_at = c.refuse_at
      BY <1>3, <2>1 DEF Ctx
    <2>4. Len(c.wire) \in Nat
      BY <1>1
    <2>. HIDE DEF h
    <2>5. Extends(c, h)
      BY <1>1, <2>3, <2>4 DEF Extends
    <2>. QED  BY <1>5, <2>1, <2>2, <2>3, <2>4, <2>5 DEF Step, Good
  <1>6. ASSUME c.ctx = "live", Len(c.wire) = c.refuse_at
        PROVE  clax_conn_write_cb(c, p) = h
    BY <1>5, <1>6 DEF clax_conn_write_cb, clax_conn_done_cb, OnLive, d
  <1>7. ASSUME c.ctx = "live", Len(c.wire) # c.refuse_at
        PROVE  clax_conn_write_cb(c, p) = q
    BY <1>4, <1>7 DEF clax_conn_write_cb, OnLive, d
  <1>8. ASSUME c.ctx # "live" PROVE Step(c, clax_conn_write_cb(c, p))
    BY <1>8, SetStale DEF clax_conn_write_cb, OnLive
  <1>. QED  BY <1>4, <1>5, <1>6, <1>7, <1>8

\* A header block is written.
LEMMA HeadersStep ==
  ASSUME NEW c, Good(c) PROVE Step(c, clax_http_write_response_headers(c))
  <1>1. HeadPiece(c.status_code, c.headers) \in Piece
    BY DEF Good, Ctx, HeadPiece, Piece
  <1>. QED  BY <1>1, WriteStep DEF clax_http_write_response_headers

\* The response is ended after a write.
LEMMA FinalizeStep ==
  ASSUME NEW c, Good(c) PROVE Step(c, clax_http_finalize_response(c))
  <1> DEFINE d == [c EXCEPT !.finalized = TRUE]
  <1>1. c.ctx = "live" => Alike(c, d)
    BY DEF Alike, Good, Ctx
  <1>2. clax_http_finalize_response(c) = OnLive(c, d)
    BY DEF clax_http_finalize_response
  <1>. HIDE DEF d
  <1>. QED  BY <1>1, <1>2, AlikeStep, OnLiveStep

\* The response is reset after a 100: the count is kept.
LEMMA ResetStep ==
  ASSUME NEW c, Good(c) PROVE Step(c, ResetResponse(c))
  <1> DEFINE d == [c EXCEPT !.status_code = 0, !.headers = {}, !.has_body = FALSE,
                            !.body_handle = FALSE, !.finalized = FALSE]
  <1>1. c.ctx = "live" => Alike(c, d)
    BY DEF Alike, Good, Ctx
  <1>2. ResetResponse(c) = OnLive(c, d)
    BY DEF ResetResponse
  <1>. HIDE DEF d
  <1>. QED  BY <1>1, <1>2, AlikeStep, OnLiveStep

\* A piece of the body is pushed.
LEMMA PushStep ==
  ASSUME NEW c, Good(c), NEW p \in {"chunk", "last", "trailer"}
  PROVE  Step(c, clax_http_push_response(c, p))
  <1> DEFINE d == clax_conn_write_cb(c, BodyPiece(p))
  <1>1. BodyPiece(p) \in Piece
    BY DEF BodyPiece, Piece, Framing
  <1>2. Step(c, d)
    BY <1>1, WriteStep
  <1>3. Step(c, clax_http_finalize_response(d))
    BY <1>2, StepGood, FinalizeStep, StepTrans
  <1>. QED  BY <1>2, <1>3 DEF clax_http_push_response

-----------------------------------------------------------------------------
\* The response writer.
LEMMA ReadNextStep ==
  ASSUME NEW c, Good(c) PROVE Step(c, clax_http_read_response_handle_chunk(c))
  BY SubmitStep DEF clax_http_read_response_handle_chunk, FsOps

\* The callback of the read loop.
LEMMA ReadLoopStep ==
  ASSUME NEW c, Good(c), NEW n, NEW sys
  PROVE  Step(c, clax_http_write_response_handle_(c, n, sys))
  <1> DEFINE d == clax_http_push_response(c, "chunk")
             e == IF n = "eof" THEN [c EXCEPT !.fs_open = FALSE] ELSE c
  <1>1. Step(c, d)
    BY PushStep
  <1>2. Step(c, clax_http_read_response_handle_chunk(d))
    BY <1>1, StepGood, ReadNextStep, StepTrans
  <1>3. Step(c, e)
    BY SetFileClosed, StepRefl
  <1>. HIDE DEF e
  <1>4. Step(c, clax_http_push_response(e, "last"))
    BY <1>3, StepGood, PushStep, StepTrans
  <1>. QED  BY <1>1, <1>2, <1>4 DEF clax_http_write_response_handle_, e

\* A file is served.
LEMMA ServeHandleStep ==
  ASSUME NEW c, Good(c), NEW r, NEW sys PROVE Step(c, ServeHandle(c, r, sys))
  <1> DEFINE a == [c EXCEPT !.fs_open = FALSE]
             b == clax_http_response_header(a, "length")
             h == clax_http_write_response_headers(b)
             d == clax_http_response_header(c, "chunked")
             e == clax_http_write_response_headers(d)
  <1>1. Step(c, a)
    BY SetFileClosed
  <1>2. Step(c, b)
    BY <1>1, StepGood, SetHeader, StepTrans DEF Framing
  <1>3. Step(c, h)
    BY <1>2, StepGood, HeadersStep, StepTrans
  <1>4. Step(c, clax_http_finalize_response(h))
    BY <1>3, StepGood, FinalizeStep, StepTrans
  <1>5. Step(c, d)
    BY SetHeader DEF Framing
  <1>6. Step(c, e)
    BY <1>5, StepGood, HeadersStep, StepTrans
  <1>7. Step(c, clax_http_read_response_handle_chunk(e))
    BY <1>6, StepGood, ReadNextStep, StepTrans
  <1>. QED  BY <1>4, <1>6, <1>7 DEF ServeHandle

\* A body in memory is served.
LEMMA ServeBodyStep ==
  ASSUME NEW c, Good(c) PROVE Step(c, ServeBody(c))
  <1> DEFINE a == clax_http_response_header(c, "chunked")
             b == clax_http_write_response_headers(a)
             d == clax_http_push_response(b, "chunk")
  <1>1. Step(c, a)
    BY SetHeader DEF Framing
  <1>2. Step(c, b)
    BY <1>1, StepGood, HeadersStep, StepTrans
  <1>3. Step(c, d)
    BY <1>2, StepGood, PushStep, StepTrans
  <1>4. Step(c, clax_http_push_response(d, "last"))
    BY <1>3, StepGood, PushStep, StepTrans
  <1>. QED  BY <1>4 DEF ServeBody

\* A response without a body is written.
LEMMA ServeNothingStep ==
  ASSUME NEW c, Good(c) PROVE Step(c, ServeNothing(c))
  <1> DEFINE a == clax_http_response_header(c, "length")
             b == clax_http_write_response_headers(a)
  <1>1. Step(c, a)
    BY SetHeader DEF Framing
  <1>2. Step(c, b)
    BY <1>1, StepGood, HeadersStep, StepTrans
  <1>3. Step(c, clax_http_finalize_response(b))
    BY <1>2, StepGood, FinalizeStep, StepTrans
  <1>. QED  BY <1>3 DEF ServeNothing

\* A response is written, from whatever source.
LEMMA ResponseStep ==
  ASSUME NEW c, Good(c), NEW r, NEW sys PROVE Step(c, clax_http_write_response(c, r, sys))
  BY StepRefl, ServeHandleStep, ServeBodyStep, ServeNothingStep DEF clax_http_write_response

\* Every handler ends here, so this is the lemma the handlers rest on: also the
\* reset after a 100 keeps the count right.
LEMMA DoneStep ==
  ASSUME NEW c, Good(c), NEW r, NEW sys PROVE Step(c, clax_http_dispatch_done_cb(c, r, sys))
  <1> DEFINE h == clax_http_write_response_headers(c)
             d == [h EXCEPT !.continue_expected = FALSE]
  <1>1. Step(c, d)
    BY HeadersStep, StepGood, SetExpected, StepTrans
  <1>. HIDE DEF d
  <1>2. Step(c, ResetResponse(d)) /\ Step(c, clax_http_write_response(d, r, sys))
    BY <1>1, StepGood, ResetStep, ResponseStep, StepTrans
  <1>3. Step(c, clax_http_write_response(c, r, sys))
    BY ResponseStep
  <1>. QED  BY <1>2, <1>3 DEF clax_http_dispatch_done_cb, d

\* A reply with a status.
LEMMA StatusStep ==
  ASSUME NEW c, Good(c), NEW r, NEW sys, NEW s \in Nat PROVE Step(c, ReplyStatus(c, r, s, sys))
  BY SetStatus, StepGood, DoneStep, StepTrans DEF ReplyStatus

\* A reply with a status and a text.
LEMMA TextStep ==
  ASSUME NEW c, Good(c), NEW r, NEW sys, NEW s \in Nat PROVE Step(c, ReplyText(c, r, s, sys))
  <1> DEFINE d == clax_http_response_status(c, s)
             e == [d EXCEPT !.has_body = TRUE]
  <1>1. Step(c, e)
    BY SetStatus, StepGood, SetBody, StepTrans
  <1>. HIDE DEF e
  <1>2. Step(c, clax_http_dispatch_done_cb(e, r, sys))
    BY <1>1, StepGood, DoneStep, StepTrans
  <1>. QED  BY <1>2 DEF ReplyText, clax_http_response_body_str, e

\* The canned replies.
LEMMA ReplyStep ==
  ASSUME NEW c, Good(c), NEW r, NEW sys
  PROVE  /\ Step(c, clax_dispatch_continue(c, r, sys))
         /\ Step(c, clax_dispatch_not_found(c, r, sys))
         /\ Step(c, clax_dispatch_method_not_allowed(c, r, sys))
         /\ Step(c, clax_dispatch_system_error(c, r, sys))
         /\ Step(c, clax_dispatch_bad_request(c, r, sys))
         /\ Step(c, clax_dispatch_not_authorized(c, r, sys))
  BY StatusStep, TextStep
     DEF clax_dispatch_continue, clax_dispatch_not_found, clax_dispatch_method_not_allowed,
         clax_dispatch_system_error, clax_dispatch_bad_request, clax_dispatch_not_authorized

-----------------------------------------------------------------------------
\* The handlers of /tree.
LEMMA DownloadStep ==
  ASSUME NEW c, Good(c), NEW r, NEW sys, NEW ok, NEW res
  PROVE  /\ Step(c, clax_dispatch_download(c, sys))
         /\ Step(c, DownloadStat(c, r, sys, res))
         /\ Step(c, DownloadOpen(c, r, sys, ok))
         /\ Step(c, clax_dispatch_download_crc32_(c, r, sys, ok))
  <1> DEFINE d == [c EXCEPT !.body_handle = TRUE, !.fs_open = TRUE]
  <1>1. Step(c, clax_dispatch_download(c, sys))
    BY SubmitStep, StepRefl DEF clax_dispatch_download, FsOps
  <1>2. Step(c, DownloadStat(c, r, sys, res))
    BY SubmitStep, ReplyStep, StatusStep DEF DownloadStat, FsOps
  <1>3. Step(c, Submit(d, "crc_download")) /\ Step(c, [d EXCEPT !.stale = TRUE])
    <2>1. Step(c, d)
      BY SetFileOpen
    <2>2. Good(d)
      BY <2>1, StepGood
    <2>. HIDE DEF d
    <2>3. Step(d, Submit(d, "crc_download"))
      BY <2>2, SubmitStep DEF FsOps
    <2>4. Step(d, [d EXCEPT !.stale = TRUE])
      BY <2>2, SetStale
    <2>. QED  BY <2>1, <2>3, <2>4, StepTrans
  <1>4. Step(c, DownloadOpen(c, r, sys, ok))
    BY <1>3, ReplyStep DEF DownloadOpen
  <1>5. Step(c, clax_dispatch_download_crc32_(c, r, sys, ok))
    BY StatusStep, ReplyStep DEF clax_dispatch_download_crc32_
  <1>. QED  BY <1>1, <1>2, <1>4, <1>5

\* The callbacks of an upload.
LEMMA UploadStep ==
  ASSUME NEW c, Good(c), NEW r, NEW sys, NEW ok, NEW res
  PROVE  /\ Step(c, clax_dispatch_upload(c, r, sys))
         /\ Step(c, clax_dispatch_upload_(c, r, sys, ok))
         /\ Step(c, clax_dispatch_upload_crc32_(c, r, sys, res))
         /\ Step(c, clax_dispatch_upload_crc32_invalid_(c, r, sys, ok))
  <1>1. ASSUME NEW x PROVE Step(c, clax_dispatch_upload_crc32_(c, r, sys, x))
    BY SubmitStep, StatusStep, ReplyStep DEF clax_dispatch_upload_crc32_, FsOps
  <1>2. ASSUME NEW x PROVE Step(c, clax_dispatch_upload_(c, r, sys, x))
    BY <1>1, SubmitStep, StatusStep, ReplyStep DEF clax_dispatch_upload_, FsOps
  <1>3. Step(c, UploadEmpty(c, r, sys))
    BY <1>2, StepRefl DEF UploadEmpty
  <1>4. Step(c, clax_dispatch_upload(c, r, sys))
    BY <1>3, SubmitStep, StatusStep, ReplyStep DEF clax_dispatch_upload, FsOps
  <1>5. Step(c, clax_dispatch_upload_crc32_invalid_(c, r, sys, ok))
    BY StatusStep, ReplyStep DEF clax_dispatch_upload_crc32_invalid_
  <1>. QED  BY <1>1, <1>2, <1>4, <1>5

\* The callbacks of a delete.
LEMMA DeleteStep ==
  ASSUME NEW c, Good(c), NEW r, NEW sys, NEW res
  PROVE  /\ Step(c, clax_dispatch_delete(c, r, sys))
         /\ Step(c, clax_dispatch_delete_(c, r, sys, res))
  BY SubmitStep, StatusStep, ReplyStep DEF clax_dispatch_delete, clax_dispatch_delete_, FsOps

\* Every method of /tree.
LEMMA TreeStep ==
  ASSUME NEW c, Good(c), NEW r, NEW sys PROVE Step(c, clax_dispatch_tree(c, r, sys))
  BY DownloadStep, UploadStep, DeleteStep, ReplyStep DEF clax_dispatch_tree

-----------------------------------------------------------------------------
\* The handler of /command.
LEMMA CommandStart ==
  ASSUME NEW c, Good(c), NEW r, NEW sys PROVE Step(c, clax_dispatch_command(c, r, sys))
  <1> DEFINE u == [c EXCEPT !.process = "running", !.pipe = "unread"]
             o == [c EXCEPT !.process = "running", !.pipe = "open"]
             s == clax_http_response_status(o, 200)
             h == clax_http_response_header(s, "chunked")
  <1>1. Step(c, u) /\ Step(c, o)
    BY SetCommand
  <1>. HIDE DEF u, o
  <1>2. Step(c, clax_dispatch_system_error(u, r, sys))
    BY <1>1, StepGood, ReplyStep, StepTrans
  <1>3. Step(c, s)
    BY <1>1, StepGood, SetStatus, StepTrans
  <1>4. Step(c, h)
    BY <1>3, StepGood, SetHeader, StepTrans DEF Framing
  <1>5. Step(c, clax_http_write_response_headers(h))
    BY <1>4, StepGood, HeadersStep, StepTrans
  <1>. QED  BY <1>2, <1>5, ReplyStep DEF clax_dispatch_command, u, o

\* The callbacks of a child process.
LEMMA CommandCallbacks ==
  ASSUME NEW c, Good(c)
  PROVE  /\ Step(c, exit_cb(c))
         /\ Step(c, process_close_cb(c))
         /\ c.output > 0 => Step(c, on_read(c))
         /\ Step(c, OnReadEof(c))
  <1> DEFINE g == [c EXCEPT !.process = "gone"]
             t == [c EXCEPT !.output = @ - 1]
  <1>1. Step(c, exit_cb(c)) /\ Step(c, g) /\ Step(c, OnReadEof(c))
    <2>1. Alike(c, exit_cb(c)) /\ Alike(c, g) /\ Alike(c, OnReadEof(c))
      BY DEF exit_cb, OnReadEof, Alike, Good, Ctx
    <2>. HIDE DEF g
    <2>. QED  BY <2>1, AlikeStep
  <1>2. c.output > 0 => Step(c, t)
    <2>1. c \in Ctx /\ c.output \in Nat
      BY DEF Good, Ctx
    <2>2. ASSUME NEW n \in Nat PROVE Alike(c, [c EXCEPT !.output = n])
      BY <2>1 DEF Alike, Ctx
    <2>3. c.output > 0 => Alike(c, t)
      BY <2>1, <2>2
    <2>. HIDE DEF t
    <2>. QED  BY <2>3, AlikeStep
  <1>. HIDE DEF g, t
  <1>3. Step(c, process_close_cb(c))
    <2>1. Step(c, clax_http_push_response(g, "trailer"))
      BY <1>1, StepGood, PushStep, StepTrans
    <2>. QED  BY <2>1 DEF process_close_cb, g
  <1>4. c.output > 0 => Step(c, on_read(c))
    <2>1. c.output > 0 => Step(c, clax_http_push_response(t, "chunk"))
      BY <1>2, StepGood, PushStep, StepTrans
    <2>. QED  BY <2>1, SetStale DEF on_read, t
  <1>. QED  BY <1>1, <1>3, <1>4

-----------------------------------------------------------------------------
\* The dispatcher and the parser.
LEMMA DispatchStep ==
  ASSUME NEW c, Good(c), NEW r, NEW sys PROVE Step(c, clax_dispatch(c, r, sys))
  <1>1. Step(c, Handler(c, r, sys))
    BY TextStep, CommandStart, TreeStep DEF Handler, clax_dispatch_index
  <1>2. Step(c, clax_http_response_status(c, 400))
    BY SetStatus
  <1>. QED  BY <1>1, <1>2, ReplyStep DEF clax_dispatch

\* The headers are complete.
LEMMA HeadersDoneStep ==
  ASSUME NEW c, Good(c), NEW r \in Request, NEW sys
  PROVE  Step(c, on_http_parser_headers_complete(c, r, sys))
  <1> DEFINE d == [c EXCEPT !.continue_expected = r.expect]
  <1>1. Step(c, d)
    BY SetExpected DEF Request
  <1>. HIDE DEF d
  <1>2. Step(d, clax_http_request_headers_done_cb(d, r, sys))
    BY <1>1, StepGood, ReplyStep, DispatchStep, StepRefl DEF clax_http_request_headers_done_cb
  <1>. QED  BY <1>1, <1>2, StepTrans DEF on_http_parser_headers_complete, d

\* The message is complete.
LEMMA MessageDoneStep ==
  ASSUME NEW c, Good(c), NEW r, NEW sys
  PROVE  Step(c, on_http_parser_message_complete(c, r, sys))
  BY DispatchStep, StepRefl DEF on_http_parser_message_complete, clax_http_request_done_cb

\* A piece of the body is stored.
LEMMA BodyStep ==
  ASSUME NEW c, Good(c), NEW r \in Request, NEW sys
  PROVE  Step(c, on_http_parser_body(c, r, sys))
  <1> DEFINE o == OpenBody(c, r)
  <1>1. Step(c, o)
    <2>1. content_length(r) \in Int
      BY DEF content_length, Request
    <2>2. CASE c.body_tmpfile
      BY <2>2, StepRefl, Zenon DEF OpenBody
    <2>3. CASE ~c.body_tmpfile
      <3> DEFINE x == [c EXCEPT !.to_read = content_length(r)]
                 y == [x EXCEPT !.body_tmpfile = TRUE]
      <3>1. x \in Ctx /\ x.ctx = c.ctx /\ x.to_write = c.to_write
            /\ x.refuse_at = c.refuse_at /\ x.refused = c.refused
            /\ x.writes = c.writes /\ x.finalized = c.finalized /\ x.wire = c.wire
        BY <2>1 DEF Good, Ctx
      <3>2. y = [c EXCEPT !.body_tmpfile = TRUE, !.to_read = content_length(r)]
        BY DEF Good, Ctx
      <3>. HIDE DEF x
      <3>3. y \in Ctx /\ y.ctx = c.ctx /\ y.to_write = c.to_write
            /\ y.refuse_at = c.refuse_at /\ y.refused = c.refused
            /\ y.writes = c.writes /\ y.finalized = c.finalized /\ y.wire = c.wire
        BY <3>1 DEF Ctx
      <3>4. o = y
        BY <2>3, <3>2, Zenon DEF OpenBody
      <3>. HIDE DEF y, o
      <3>. QED  BY <3>3, <3>4, AlikeStep DEF Alike
    <2>. QED  BY <2>2, <2>3
  <1>. HIDE DEF o
  <1>2. ASSUME NEW x, Good(x), NEW n \in {0, 1}
        PROVE  Step(x, clax_http_request_body_written_cb(x, n))
    <2> DEFINE d == [x EXCEPT !.to_read = @ - n]
    <2>1. Step(x, d)
      <3>1. x.to_read - n \in Int
        BY <1>2 DEF Good, Ctx
      <3>2. ASSUME NEW m \in Int PROVE Step(x, [x EXCEPT !.to_read = m])
        <4>1. Alike(x, [x EXCEPT !.to_read = m])
          BY <1>2 DEF Alike, Good, Ctx
        <4>. QED  BY <1>2, <4>1, AlikeStep
      <3>. QED  BY <3>1, <3>2
    <2>. HIDE DEF d
    <2>2. Step(x, Submit(d, "body_close"))
      BY <2>1, StepGood, SubmitStep, StepTrans DEF FsOps
    <2>. QED  BY <2>1, <2>2 DEF clax_http_request_body_written_cb, d
  <1>3. Step(o, clax_http_request_body_written_cb(o, IF sys.write = "ok" THEN 1 ELSE 0))
    BY <1>1, <1>2, StepGood
  <1>. QED  BY <1>1, <1>3, StepTrans, StepRefl DEF on_http_parser_body, o

\* A segment of the request is parsed.
LEMMA ParseStep ==
  ASSUME NEW c, Good(c), NEW r \in Request, NEW seg, NEW sys
  PROVE  Step(c, clax_http_parse(c, r, seg, sys))
  <1> DEFINE b == on_http_parser_body(c, r, sys)
             h == on_http_parser_headers_complete(c, r, sys)
  <1>1. Step(c, b) /\ Step(c, h)
    BY BodyStep, HeadersDoneStep
  <1>. HIDE DEF b, h
  <1>2. /\ Step(c, on_http_parser_message_complete(b, r, sys))
        /\ Step(c, on_http_parser_message_complete(h, r, sys))
        /\ Step(c, on_http_parser_message_complete(c, r, sys))
    BY <1>1, StepGood, MessageDoneStep, StepTrans
  <1>. QED  BY <1>1, <1>2 DEF clax_http_parse, b, h

-----------------------------------------------------------------------------
(* Callbacks.                                                              *)


\* The inductive invariant.  Neither ToWriteExact nor ClosedFlushed is
\* inductive alone: that a close by the write path finds no write in flight
\* follows from the count, and that it stays so from the context being gone.
IInv ==
  /\ TypeOK
  /\ ToWriteExact
  /\ ClosedFlushed
  /\ closed_by = "none" <=> conn.ctx = "live"
  /\ conn.refuse_at \in RefuseAt
  /\ conn.refused => conn.refuse_at \in Nat

\* The invariant says that the context is good.
LEMMA IInvGood == IInv => Good(conn)
  BY DEF IInv, TypeOK, ToWriteExact, Good

\* A step that closes nothing, unless a write is refused, and adds to what is on the
\* wire at most.
Stays ==
  /\ IInv' /\ Step(conn, conn')
  /\ closed_by' = closed_by \/ (conn'.refused /\ closed_by' = "write")

\* A callback that does what Step allows keeps the invariant.
LEMMA StepKeeps ==
  ASSUME IInv, NEW c, Step(conn, c), Becomes(c, "write"),
         req' \in Requests, unread' \in Seq(Segment), printed' \in Nat
  PROVE  Stays
  <1>1. c \in Ctx /\ conn \in Ctx /\ conn' = c
    BY DEF Step, Good, Becomes, IInv, TypeOK
  <1>2. c.ctx = "live" => c.to_write = c.writes
    BY DEF Step, Good
  <1>3. conn.ctx = "live" \/ conn.ctx = "freed"
    BY <1>1 DEF Ctx
  <1>4. /\ c.refuse_at = conn.refuse_at /\ (conn.refused => c.refused)
        /\ c.refused => c.refuse_at \in Nat
    BY DEF Step, Good
  <1>5. CASE c.ctx = conn.ctx
    <2>1. closed_by' = closed_by
      BY <1>5 DEF Becomes
    <2>2. conn.ctx = "freed" => c.writes = conn.writes /\ c.finalized = conn.finalized
      BY DEF Step
    <2>3. IInv'
      BY <1>1, <1>2, <1>3, <1>4, <1>5, <2>1, <2>2 DEF IInv, TypeOK, ToWriteExact, ClosedFlushed
    <2>. QED  BY <1>1, <2>1, <2>3 DEF Stays
  <1>6. CASE c.ctx # conn.ctx
    <2>1. conn.ctx = "live" /\ c.ctx = "freed" /\ c.refused
      BY <1>3, <1>6 DEF Step
    <2>2. closed_by' = "write"
      BY <2>1 DEF Becomes
    <2>3. IInv'
      BY <1>1, <1>4, <2>1, <2>2 DEF IInv, TypeOK, ToWriteExact, ClosedFlushed
    <2>. QED  BY <1>1, <2>1, <2>2, <2>3 DEF Stays
  <1>. QED  BY <1>5, <1>6

\* The segments of a request are a sequence of segments.
LEMMA SegmentsType ==
  ASSUME NEW r \in Request PROVE Segments(r) \in Seq(Segment)
  <1> DEFINE b == [i \in 1..r.pieces |-> IF i = r.pieces THEN "lastbody" ELSE "body"]
             p == [i \in 1..r.pieces |-> "body"]
  <1>1. r.pieces \in Nat
    BY DEF Request
  <1>2. b \in Seq(Segment) /\ p \in Seq(Segment)
    BY <1>1 DEF Segment
  <1>3. <<"head">> \in Seq(Segment) /\ <<"end">> \in Seq(Segment) /\ <<"only">> \in Seq(Segment)
    BY DEF Segment
  <1>. HIDE DEF b, p
  <1>4. <<"head">> \o b \in Seq(Segment) /\ <<"head">> \o p \o <<"end">> \in Seq(Segment)
    BY <1>2, <1>3
  <1>5. WellFormed(r) \in Seq(Segment)
    BY <1>3, <1>4 DEF WellFormed, b, p
  <1>6. ASSUME NEW s \in Seq(Segment) PROVE [s EXCEPT ![Len(s)] = "bad"] \in Seq(Segment)
    <2>1. Len(s) \in Nat /\ s \in [1..Len(s) -> Segment]
      BY <1>6, LenProperties
    <2>2. [s EXCEPT ![Len(s)] = "bad"] \in [1..Len(s) -> Segment]
      BY <2>1 DEF Segment
    <2>. QED  BY <2>1, <2>2, IsASeq
  <1>. QED  BY <1>5, <1>6 DEF Segments

\* A new connection satisfies the invariant.
LEMMA InitInv == Init => IInv
  <1>. SUFFICES ASSUME Init PROVE IInv
    OBVIOUS
  <1>1. unread \in Seq(Segment)
    BY SegmentsType, RequestsAssumption DEF Init
  <1>2. PICK n \in RefuseAt : conn = [clax_ctx_init EXCEPT !.refuse_at = n]
    BY DEF Init
  <1>3. conn \in Ctx
    BY <1>2, InitGood, RefuseAtAssumption DEF Good, Ctx
  <1>4. /\ conn.ctx = "live" /\ conn.to_write = 0 /\ conn.writes = 0
        /\ conn.refuse_at \in RefuseAt /\ ~conn.refused
    BY <1>2 DEF clax_ctx_init
  <1>. QED  BY <1>1, <1>3, <1>4 DEF Init, IInv, TypeOK, ToWriteExact, ClosedFlushed

-----------------------------------------------------------------------------
\* Every step keeps the invariant, action by action.
LEMMA ReadInv == ASSUME IInv, Read PROVE IInv' /\ (closed_by' # "parse" => Stays)
  <1>1. req \in Request /\ req' \in Requests /\ unread' \in Seq(Segment) /\ printed' \in Nat
    BY RequestsAssumption, HeadTailProperties DEF IInv, TypeOK, Read
  <1>2. PICK sys \in SysResults :
          IF Rejected(conn, req, Head(unread), sys)
          THEN Becomes(clax_conn_done_cb(conn), "parse")
          ELSE Becomes(clax_http_parse(conn, req, Head(unread), sys), "write")
    BY DEF Read
  <1>3. CASE Rejected(conn, req, Head(unread), sys)
    <2>1. conn' = [conn EXCEPT !.ctx = "freed"] /\ conn \in Ctx
      BY <1>2, <1>3 DEF Read, Becomes, clax_conn_done_cb, OnLive, IInv, TypeOK
    <2>2. /\ conn' \in Ctx /\ conn'.ctx = "freed"
          /\ conn'.refuse_at = conn.refuse_at /\ conn'.refused = conn.refused
      BY <2>1 DEF Ctx
    <2>3. closed_by' = "parse"
      BY <1>2, <1>3, <2>1, <2>2 DEF Read, Becomes
    <2>. QED  BY <1>1, <2>2, <2>3 DEF IInv, TypeOK, ToWriteExact, ClosedFlushed
  <1>4. CASE ~Rejected(conn, req, Head(unread), sys)
    <2>1. Step(conn, clax_http_parse(conn, req, Head(unread), sys))
      BY <1>1, IInvGood, ParseStep
    <2>. QED  BY <1>1, <1>2, <1>4, <2>1, StepKeeps DEF Stays
  <1>. QED  BY <1>3, <1>4

\* The end of the client's stream frees the context; what is in flight stays.
LEMMA EofInv == ASSUME IInv, ReadEof PROVE IInv'
  <1>1. conn' = [conn EXCEPT !.ctx = "freed"] /\ conn \in Ctx
    BY DEF ReadEof, Becomes, clax_conn_done_cb, OnLive, IInv, TypeOK
  <1>2. /\ conn' \in Ctx /\ conn'.ctx = "freed"
        /\ conn'.refuse_at = conn.refuse_at /\ conn'.refused = conn.refused
    BY <1>1 DEF Ctx
  <1>3. closed_by' = "eof"
    BY <1>1, <1>2 DEF ReadEof, Becomes
  <1>. QED  BY <1>2, <1>3 DEF ReadEof, IInv, TypeOK, ToWriteExact, ClosedFlushed

\* The step the invariant is about: the last write of an ended response closes
\* the connection, and the exact count says that it is the last one.
LEMMA WriteFinishedInv == ASSUME IInv, WriteFinished PROVE IInv'
  <1> DEFINE d == [conn EXCEPT !.to_write = @ - 1, !.writes = @ - 1]
             f == [d EXCEPT !.ctx = "freed"]
  <1>1. conn \in Ctx /\ conn.writes \in Nat /\ conn.to_write \in Int /\ conn.writes > 0
    BY DEF WriteFinished, IInv, TypeOK, Ctx
  <1>2. ASSUME NEW n \in Int, NEW m \in Nat
        PROVE  [conn EXCEPT !.to_write = n, !.writes = m] \in Ctx
    BY <1>1 DEF Ctx
  <1>3. d \in Ctx /\ d.ctx = conn.ctx /\ d.finalized = conn.finalized
          /\ d.to_write = conn.to_write - 1 /\ d.writes = conn.writes - 1
          /\ d.refuse_at = conn.refuse_at /\ d.refused = conn.refused
    <2>1. conn.to_write - 1 \in Int /\ conn.writes - 1 \in Nat
      BY <1>1
    <2>2. d \in Ctx
      BY <1>2, <2>1
    <2>. QED  BY <1>1, <2>2 DEF Ctx
  <1>. HIDE DEF d
  <1>4. /\ f \in Ctx /\ f.ctx = "freed" /\ f.finalized = d.finalized /\ f.writes = d.writes
        /\ f.refuse_at = d.refuse_at /\ f.refused = d.refused
    BY <1>3 DEF Ctx
  <1>5. CASE conn.ctx = "live"
    <2>1. d.to_write = d.writes
      BY <1>1, <1>3, <1>5 DEF IInv, ToWriteExact
    <2>2. conn' = IF d.finalized /\ d.to_write <= 0 THEN f ELSE d
      BY <1>3, <1>5 DEF WriteFinished, Becomes, clax_conn_write_finished_cb, OnLive,
                        clax_conn_done_cb, d
    <2>3. CASE d.finalized /\ d.to_write <= 0
      <3>1. conn' = f /\ closed_by' = "write"
        BY <1>4, <1>5, <2>2, <2>3 DEF WriteFinished, Becomes, clax_conn_write_finished_cb,
                                       OnLive, clax_conn_done_cb
      <3>2. d.writes = 0
        BY <1>1, <1>3, <2>1, <2>3
      <3>. QED  BY <1>3, <1>4, <2>3, <3>1, <3>2
                DEF WriteFinished, IInv, TypeOK, ToWriteExact, ClosedFlushed
    <2>4. CASE ~(d.finalized /\ d.to_write <= 0)
      <3>1. conn' = d /\ closed_by' = closed_by
        BY <1>3, <1>5, <2>2, <2>4 DEF WriteFinished, Becomes
      <3>. QED  BY <1>3, <1>5, <2>1, <3>1
                DEF WriteFinished, IInv, TypeOK, ToWriteExact, ClosedFlushed
    <2>. QED  BY <2>3, <2>4
  <1>6. CASE conn.ctx = "freed"
    <2>1. Step(conn, conn')
      <3>1. conn' = [conn EXCEPT !.stale = TRUE]
        BY <1>6 DEF WriteFinished, Becomes, clax_conn_write_finished_cb, OnLive
      <3>. QED  BY <3>1, IInvGood, SetStale
    <2>. QED  BY <2>1, StepKeeps DEF WriteFinished, Becomes, Stays, IInv, TypeOK
  <1>. QED  BY <1>1, <1>5, <1>6 DEF Ctx

\* A file operation is done and its callback does what Step allows.
LEMMA FsDoneInv ==
  ASSUME IInv, NEW k \in FsOps, NEW d, FsDone(k, d),
         Good(Done(k)) => Step(Done(k), d)
  PROVE  Stays
  <1>1. conn \in Ctx /\ conn.fs \in [FsOps -> Nat] /\ conn.fs[k] > 0
    BY DEF FsDone, IInv, TypeOK, Ctx
  <1>2. [conn.fs EXCEPT ![k] = @ - 1] \in [FsOps -> Nat]
    BY <1>1
  <1>3. ASSUME NEW f \in [FsOps -> Nat] PROVE Step(conn, [conn EXCEPT !.fs = f])
    <2>1. Alike(conn, [conn EXCEPT !.fs = f])
      BY <1>1, <1>3, IInvGood DEF Alike, Good, Ctx
    <2>. QED  BY <2>1, IInvGood, AlikeStep
  <1>4. Step(conn, Done(k))
    BY <1>2, <1>3 DEF Done
  <1>5. Step(conn, OnLive(Done(k), d))
    BY <1>4, StepGood, OnLiveStep, StepTrans
  <1>. QED  BY <1>5, StepKeeps DEF FsDone, IInv, TypeOK

\* Every callback of a file operation keeps the invariant.
LEMMA FileInv == ASSUME IInv, FileStep PROVE Stays
  <1>1. CASE clax_http_request_body_closed_cb
    BY <1>1, FsDoneInv, DispatchStep
       DEF clax_http_request_body_closed_cb, clax_http_request_done_cb, FsOps
  <1>2. CASE Unlinked
    BY <1>2, FsDoneInv, DeleteStep DEF Unlinked, FsOps
  <1>3. CASE Statted
    BY <1>3, FsDoneInv, DownloadStep DEF Statted, FsOps
  <1>4. CASE Opened
    BY <1>4, FsDoneInv, DownloadStep DEF Opened, FsOps
  <1>5. CASE DownloadChecked
    BY <1>5, FsDoneInv, DownloadStep DEF DownloadChecked, FsOps
  <1>6. CASE FileRead
    BY <1>6, FsDoneInv, ReadLoopStep DEF FileRead, FsOps
  <1>7. CASE Copied
    BY <1>7, FsDoneInv, UploadStep DEF Copied, FsOps
  <1>8. CASE UploadChecked
    BY <1>8, FsDoneInv, UploadStep DEF UploadChecked, FsOps
  <1>9. CASE BadUnlinked
    BY <1>9, FsDoneInv, UploadStep DEF BadUnlinked, FsOps
  <1>. QED  BY <1>1, <1>2, <1>3, <1>4, <1>5, <1>6, <1>7, <1>8, <1>9 DEF FileStep

\* Every callback and every event of a child process keeps the invariant.
LEMMA CommandInv == ASSUME IInv, CommandStep \/ ChildExits \/ ChildPrints PROVE Stays
  <1>1. Good(conn) /\ conn \in Ctx
    BY IInvGood DEF Good
  <1>2. CASE ExitReported
    BY <1>1, <1>2, CommandCallbacks, StepKeeps DEF ExitReported, IInv, TypeOK
  <1>3. CASE ProcessClosed
    BY <1>1, <1>3, CommandCallbacks, StepKeeps DEF ProcessClosed, IInv, TypeOK
  <1>4. CASE OutputRead
    BY <1>1, <1>4, CommandCallbacks, StepKeeps DEF OutputRead, IInv, TypeOK
  <1>5. CASE OutputEof
    BY <1>1, <1>5, CommandCallbacks, StepKeeps DEF OutputEof, IInv, TypeOK
  <1>6. CASE ChildExits
    <2> DEFINE d == [conn EXCEPT !.process = "exited"]
    <2>1. Alike(conn, d)
      BY <1>1 DEF Alike, Good, Ctx
    <2>. HIDE DEF d
    <2>2. Step(conn, d)
      BY <1>1, <2>1, AlikeStep
    <2>. USE DEF d
    <2>. QED  BY <1>6, <2>2, StepKeeps DEF ChildExits, IInv, TypeOK
  <1>7. CASE ChildPrints
    <2> DEFINE d == [conn EXCEPT !.output = @ + 1]
    <2>1. Alike(conn, d)
      <3>1. conn.output + 1 \in Nat
        BY <1>1 DEF Ctx
      <3>2. ASSUME NEW n \in Nat PROVE Alike(conn, [conn EXCEPT !.output = n])
        BY <1>1 DEF Alike, Ctx
      <3>. QED  BY <3>1, <3>2
    <2>. HIDE DEF d
    <2>2. Step(conn, d)
      BY <1>1, <2>1, AlikeStep
    <2>. USE DEF d
    <2>. QED  BY <1>7, <2>2, StepKeeps DEF ChildPrints, IInv, TypeOK
  <1>. QED  BY <1>2, <1>3, <1>4, <1>5, <1>6, <1>7 DEF CommandStep

\* Every step keeps the invariant.
LEMMA NextInv == ASSUME IInv, [Next]_vars PROVE IInv'
  <1>1. CASE UNCHANGED vars
    BY <1>1 DEF vars, IInv, TypeOK, ToWriteExact, ClosedFlushed
  <1>. QED  BY <1>1, ReadInv, EofInv, WriteFinishedInv, FileInv, CommandInv
            DEF Next, Progress, Stays

\* The inductive invariant holds of clax's connection in every reachable state.
THEOREM Invariance == Spec => []IInv
  BY InitInv, NextInv, PTL DEF Spec

\* The state of a connection keeps its type: in particular every count of
\* operations in flight stays a natural number.
THEOREM TypeCorrect == Spec => []TypeOK
  <1>1. IInv => TypeOK
    BY DEF IInv
  <1>. QED  BY <1>1, Invariance, PTL

\* The count kept by clax_conn_write_cb and clax_conn_write_finished_cb is the
\* number of writes in flight as long as the context lives, also after a 100.
THEOREM WritesCounted == Spec => []ToWriteExact
  <1>1. IInv => ToWriteExact
    BY DEF IInv
  <1>. QED  BY <1>1, Invariance, PTL

\* The server closes a connection of its own accord only after an ended response
\* whose writes are all done, or because libuv refused one of the writes.
THEOREM NeverCutOff == Spec => []ClosedFlushed
  <1>1. IInv => ClosedFlushed
    BY DEF IInv
  <1>. QED  BY <1>1, Invariance, PTL

-----------------------------------------------------------------------------
(* A client that waits: the response writer.                               *)

\* What the response writer leaves alone, and what a write leaves alone as well.
Frame(c, d) ==
  /\ d.ctx = c.ctx /\ d.stale = c.stale /\ d.refuse_at = c.refuse_at
  /\ d.body_tmpfile = c.body_tmpfile /\ d.to_read = c.to_read /\ d.process = c.process /\ d.pipe = c.pipe /\ d.output = c.output

Rest(c, d) ==
  /\ Frame(c, d)
  /\ d.continue_expected = c.continue_expected /\ d.status_code = c.status_code
  /\ d.headers = c.headers /\ d.has_body = c.has_body /\ d.body_handle = c.body_handle
  /\ d.fs_open = c.fs_open /\ d.fs = c.fs

\* A good context that is in use, and whose writes libuv takes.
Live(c) == Good(c) /\ c.ctx = "live" /\ c.refuse_at = -1

\* Queueing a write only appends to the wire and counts.
LEMMA WriteIs ==
  ASSUME NEW c, Live(c), NEW p \in Piece
  PROVE  LET d == clax_conn_write_cb(c, p)
         IN  /\ Live(d) /\ Rest(c, d) /\ d.finalized = c.finalized
             /\ d.wire = Append(c.wire, p) /\ d.writes = c.writes + 1
  <1> DEFINE e == [c EXCEPT !.to_write = @ + 1]
             d == [e EXCEPT !.writes = @ + 1, !.wire = Append(@, p)]
  <1>1. /\ c \in Ctx /\ c.to_write = c.writes /\ c.writes \in Nat /\ c.ctx = "live"
        /\ c.wire \in Seq(Piece) /\ c.refuse_at = -1
    BY DEF Live, Good, Ctx
  <1>2. Rest(c, d) /\ d.finalized = c.finalized /\ d.wire = Append(c.wire, p)
        /\ d.writes = c.writes + 1 /\ d.to_write = c.to_write + 1 /\ d.ctx = "live"
    BY <1>1 DEF Ctx, Rest, Frame
  <1>3. clax_conn_write_cb(c, p) = d
    <2>1. Len(c.wire) # c.refuse_at
      BY <1>1
    <2>2. clax_conn_write_cb(c, p)
            = OnLive(c, OnLive(d, IF d.finalized /\ d.to_write = 0
                                  THEN clax_conn_done_cb(d) ELSE d))
      BY <2>1 DEF clax_conn_write_cb
    <2>. HIDE DEF d
    <2>3. d.to_write # 0
      BY <1>1, <1>2
    <2>. QED  BY <1>1, <1>2, <2>2, <2>3 DEF OnLive
  <1>. HIDE DEF d
  <1>4. Live(d)
    BY <1>1, <1>2, <1>3, WriteStep DEF Live, Step
  <1>. QED  BY <1>2, <1>3, <1>4

\* The response is ended.
LEMMA FinalizeIs ==
  ASSUME NEW c, Live(c)
  PROVE  LET d == clax_http_finalize_response(c)
         IN  /\ Live(d) /\ Rest(c, d) /\ d.finalized
             /\ d.wire = c.wire /\ d.writes = c.writes
  <1> DEFINE d == [c EXCEPT !.finalized = TRUE]
  <1>1. c \in Ctx /\ c.ctx = "live"
    BY DEF Live, Good
  <1>2. Rest(c, d) /\ d.finalized /\ d.wire = c.wire /\ d.writes = c.writes /\ d.ctx = "live"
    BY <1>1 DEF Ctx, Rest, Frame
  <1>3. clax_http_finalize_response(c) = d
    BY <1>1 DEF clax_http_finalize_response, OnLive
  <1>. HIDE DEF d
  <1>4. Live(d)
    BY <1>2, <1>3, FinalizeStep DEF Live, Step
  <1>. QED  BY <1>2, <1>3, <1>4

\* A piece of the body goes out; the last one ends the response.
LEMMA PushIs ==
  ASSUME NEW c, Live(c), NEW p \in {"chunk", "last", "trailer"}
  PROVE  LET d == clax_http_push_response(c, p)
         IN  /\ Live(d) /\ Rest(c, d)
             /\ p = "chunk" => d.finalized = c.finalized
             /\ p # "chunk" => d.finalized
             /\ d.wire = Append(c.wire, BodyPiece(p)) /\ d.writes = c.writes + 1
  <1>1. BodyPiece(p) \in Piece
    BY DEF BodyPiece, Piece
  <1> DEFINE e == clax_conn_write_cb(c, BodyPiece(p))
             f == clax_http_finalize_response(e)
  <1>2. /\ Live(e) /\ Rest(c, e) /\ e.finalized = c.finalized
        /\ e.wire = Append(c.wire, BodyPiece(p)) /\ e.writes = c.writes + 1
    BY <1>1, WriteIs
  <1>3. Live(f) /\ Rest(e, f) /\ f.finalized /\ f.wire = e.wire /\ f.writes = e.writes
    BY <1>2, FinalizeIs
  <1>4. clax_http_push_response(c, p) = IF p = "chunk" THEN e ELSE f
    BY DEF clax_http_push_response
  <1>. HIDE DEF e, f
  <1>5. Rest(c, f)
    BY <1>2, <1>3 DEF Rest, Frame
  <1>. QED  BY <1>2, <1>3, <1>4, <1>5

\* The header block of a response, with the header that frames the body.
LEMMA HeadersIs ==
  ASSUME NEW c, Live(c), NEW h \in Framing, c.headers = {}
  PROVE  LET d == clax_http_write_response_headers(clax_http_response_header(c, h))
         IN  /\ Live(d) /\ Frame(c, d) /\ d.fs = c.fs /\ d.fs_open = c.fs_open
             /\ d.finalized = c.finalized
             /\ d.wire = Append(c.wire, HeadPiece(c.status_code, {h}))
             /\ d.writes = c.writes + 1
  <1> DEFINE e == clax_http_response_header(c, h)
             d == clax_http_write_response_headers(e)
  <1>1. c \in Ctx /\ c.ctx = "live"
    BY DEF Live, Good
  <1>2. /\ Frame(c, e) /\ e.fs = c.fs /\ e.fs_open = c.fs_open /\ e.finalized = c.finalized
        /\ e.wire = c.wire /\ e.writes = c.writes /\ e.status_code = c.status_code
        /\ e.headers = {h}
    BY <1>1 DEF clax_http_response_header, Ctx, Frame
  <1>3. Live(e)
    BY <1>1, <1>2, SetHeader DEF Live, Step, Frame
  <1>4. HeadPiece(e.status_code, e.headers) \in Piece
    BY <1>3 DEF Live, Good, Ctx, HeadPiece, Piece
  <1>5. d = clax_conn_write_cb(e, HeadPiece(e.status_code, e.headers))
    BY DEF clax_http_write_response_headers
  <1>. HIDE DEF e, d
  <1>6. /\ Live(d) /\ Rest(e, d) /\ d.finalized = e.finalized
        /\ d.wire = Append(e.wire, HeadPiece(e.status_code, e.headers)) /\ d.writes = e.writes + 1
    BY <1>3, <1>4, <1>5, WriteIs
  <1>7. Frame(c, d) /\ d.fs = c.fs /\ d.fs_open = c.fs_open /\ d.finalized = c.finalized
    BY <1>2, <1>6 DEF Rest, Frame
  <1>. QED  BY <1>2, <1>6, <1>7 DEF d, e

-----------------------------------------------------------------------------
(* A reply, from the state in which the response is not begun.             *)

Unbegun(c) == Live(c) /\ ~c.finalized /\ c.headers = {} /\ ~c.continue_expected

\* The wire v is w with all of a response with status s behind it.
Whole(w, v, s) ==
  \/ v = Append(w, HeadPiece(s, {"length"}))
  \/ v = Append(Append(Append(w, HeadPiece(s, {"chunked"})), BodyPiece("chunk")), BodyPiece("last"))

\* The response with status s is written in full; or, where there is a file, its
\* headers are, and the read loop begins.
Replied(c, d, s) ==
  /\ d.finalized /\ d.fs = c.fs /\ Whole(c.wire, d.wire, s)
  /\ d.fs_open => c.fs_open /\ ~c.body_handle

Serves(c, d, s) ==
  /\ c.body_handle /\ ~d.finalized /\ d.fs = [c.fs EXCEPT !["read"] = @ + 1]
  /\ d.wire = Append(c.wire, HeadPiece(s, {"chunked"}))

\* Every piece added to the wire is a write in flight.
Counted(c, d) == d.writes > c.writes /\ d.writes - c.writes = Len(d.wire) - Len(c.wire)

\* d is c with a response of status s, written or begun, to the request r.
Responds(c, r, d, s) ==
  /\ Live(d) /\ Frame(c, d) /\ Counted(c, d)
  /\ Replied(c, d, s) \/ (r.method # "HEAD" /\ Serves(c, d, s))

\* A response without a body.
LEMMA NothingIs ==
  ASSUME NEW c, Live(c), c.headers = {}, ~c.body_handle, NEW r
  PROVE  Responds(c, r, ServeNothing(c), c.status_code)
  <1> DEFINE d == clax_http_write_response_headers(clax_http_response_header(c, "length"))
             e == clax_http_finalize_response(d)
  <1>1. "length" \in Framing /\ c.wire \in Seq(Piece) /\ c.writes \in Nat
    BY DEF Framing, Live, Good, Ctx
  <1>2. /\ Live(d) /\ Frame(c, d) /\ d.fs = c.fs /\ d.fs_open = c.fs_open
        /\ d.wire = Append(c.wire, HeadPiece(c.status_code, {"length"}))
        /\ d.writes = c.writes + 1
    BY <1>1, HeadersIs
  <1>. HIDE DEF d
  <1>3. Live(e) /\ Rest(d, e) /\ e.finalized /\ e.wire = d.wire /\ e.writes = d.writes
    BY <1>2, FinalizeIs
  <1>4. ServeNothing(c) = e
    BY DEF ServeNothing, d
  <1>. HIDE DEF e
  <1>5. Len(e.wire) = Len(c.wire) + 1 /\ Len(c.wire) \in Nat
    BY <1>1, <1>2, <1>3
  <1>6. Frame(c, e) /\ e.fs = c.fs /\ e.fs_open = c.fs_open
    BY <1>2, <1>3 DEF Rest, Frame
  <1>7. Counted(c, e)
    BY <1>1, <1>2, <1>3, <1>5 DEF Counted
  <1>8. Replied(c, e, c.status_code)
    BY <1>2, <1>3, <1>6, Zenon DEF Replied, Whole
  <1>. QED  BY <1>3, <1>4, <1>6, <1>7, <1>8, Zenon DEF Responds

\* A response whose body is in memory.
LEMMA BodyIs ==
  ASSUME NEW c, Live(c), c.headers = {}, ~c.body_handle, NEW r
  PROVE  Responds(c, r, ServeBody(c), c.status_code)
  <1> DEFINE h == HeadPiece(c.status_code, {"chunked"})
             d == clax_http_write_response_headers(clax_http_response_header(c, "chunked"))
             e == clax_http_push_response(d, "chunk")
             f == clax_http_push_response(e, "last")
  <1>1. /\ "chunked" \in Framing /\ c.wire \in Seq(Piece) /\ c.writes \in Nat
        /\ h \in Piece /\ BodyPiece("chunk") \in Piece
    BY DEF Framing, Live, Good, Ctx, HeadPiece, BodyPiece, Piece
  <1>2. /\ Live(d) /\ Frame(c, d) /\ d.fs = c.fs /\ d.fs_open = c.fs_open
        /\ d.wire = Append(c.wire, h)
        /\ d.writes = c.writes + 1
    BY <1>1, HeadersIs
  <1>. HIDE DEF d
  <1>3. /\ Live(e) /\ Rest(d, e) /\ e.wire = Append(d.wire, BodyPiece("chunk"))
        /\ e.writes = d.writes + 1
    BY <1>2, PushIs
  <1>. HIDE DEF e
  <1>4. /\ Live(f) /\ Rest(e, f) /\ f.finalized /\ f.wire = Append(e.wire, BodyPiece("last"))
        /\ f.writes = e.writes + 1
    BY <1>3, PushIs
  <1>5. ServeBody(c) = f
    BY DEF ServeBody, d, e
  <1>. HIDE DEF f, h
  <1>6. Len(f.wire) = Len(c.wire) + 3 /\ Len(c.wire) \in Nat /\ f.writes = c.writes + 3
    BY <1>1, <1>2, <1>3, <1>4
  <1>7. Frame(c, f) /\ f.fs = c.fs /\ f.fs_open = c.fs_open
    BY <1>2, <1>3, <1>4 DEF Rest, Frame
  <1>8. Whole(c.wire, f.wire, c.status_code)
    BY <1>2, <1>3, <1>4 DEF Whole, h
  <1>9. Counted(c, f)
    BY <1>1, <1>6 DEF Counted
  <1>10. Replied(c, f, c.status_code)
    BY <1>4, <1>7, <1>8, Zenon DEF Replied
  <1>. QED  BY <1>4, <1>5, <1>7, <1>9, <1>10, Zenon DEF Responds

\* An operation is handed to libuv: the response is as it was.
LEMMA SubmitIs ==
  ASSUME NEW c, Live(c), NEW k \in FsOps
  PROVE  LET d == Submit(c, k)
         IN  /\ Live(d) /\ Frame(c, d) /\ d.fs = [c.fs EXCEPT ![k] = @ + 1]
             /\ d.continue_expected = c.continue_expected /\ d.headers = c.headers
             /\ d.has_body = c.has_body /\ d.body_handle = c.body_handle /\ d.fs_open = c.fs_open
             /\ d.finalized = c.finalized /\ d.wire = c.wire /\ d.writes = c.writes
  <1> DEFINE d == Submit(c, k)
  <1>1. c \in Ctx /\ c.ctx = "live"
    BY DEF Live, Good
  <1>2. /\ Frame(c, d) /\ d.fs = [c.fs EXCEPT ![k] = @ + 1]
        /\ d.continue_expected = c.continue_expected /\ d.headers = c.headers
        /\ d.has_body = c.has_body /\ d.body_handle = c.body_handle /\ d.fs_open = c.fs_open
        /\ d.finalized = c.finalized /\ d.wire = c.wire /\ d.writes = c.writes
    BY <1>1 DEF Submit, Ctx, Frame
  <1>3. Live(d)
    BY <1>1, <1>2, SubmitStep DEF Live, Step, Frame
  <1>. QED  BY <1>2, <1>3

\* A response whose body is a file: headers alone for a HEAD, else the read loop
\* begins.
LEMMA HandleIs ==
  ASSUME NEW c, Live(c), ~c.finalized, c.headers = {}, c.body_handle, NEW r, NEW sys, sys.submit
  PROVE  Responds(c, r, ServeHandle(c, r, sys), c.status_code)
  <1>1. /\ "length" \in Framing /\ "chunked" \in Framing /\ "read" \in FsOps
        /\ c \in Ctx /\ c.wire \in Seq(Piece) /\ c.writes \in Nat /\ Len(c.wire) \in Nat
    BY DEF Framing, FsOps, Live, Good, Ctx
  <1>2. CASE r.method = "HEAD"
    <2> DEFINE a == [c EXCEPT !.fs_open = FALSE]
               d == clax_http_write_response_headers(clax_http_response_header(a, "length"))
               e == clax_http_finalize_response(d)
    <2>1. /\ Live(a) /\ Frame(c, a) /\ a.fs = c.fs /\ ~a.fs_open /\ a.headers = {}
          /\ a.status_code = c.status_code /\ a.wire = c.wire /\ a.writes = c.writes
      <3>1. /\ Frame(c, a) /\ a.fs = c.fs /\ ~a.fs_open /\ a.headers = {} /\ a.ctx = "live"
            /\ a.status_code = c.status_code /\ a.wire = c.wire /\ a.writes = c.writes
        BY <1>1 DEF Ctx, Frame, Live
      <3>. QED  BY <3>1, SetFileClosed DEF Live, Step
    <2>. HIDE DEF a
    <2>2. /\ Live(d) /\ Frame(a, d) /\ d.fs = a.fs /\ d.fs_open = a.fs_open
          /\ d.wire = Append(a.wire, HeadPiece(a.status_code, {"length"}))
          /\ d.writes = a.writes + 1
      BY <1>1, <2>1, HeadersIs
    <2>. HIDE DEF d
    <2>3. Live(e) /\ Rest(d, e) /\ e.finalized /\ e.wire = d.wire /\ e.writes = d.writes
      BY <2>2, FinalizeIs
    <2>4. ServeHandle(c, r, sys) = e
      BY <1>2 DEF ServeHandle, d, a
    <2>. HIDE DEF e
    <2>5. Len(e.wire) = Len(c.wire) + 1
      BY <1>1, <2>1, <2>2, <2>3
    <2>6. Frame(c, e) /\ e.fs = c.fs /\ ~e.fs_open
      BY <2>1, <2>2, <2>3 DEF Rest, Frame
    <2>7. Counted(c, e)
      BY <1>1, <2>1, <2>2, <2>3, <2>5 DEF Counted
    <2>8. Replied(c, e, c.status_code)
      BY <2>1, <2>2, <2>3, <2>6, Zenon DEF Replied, Whole
    <2>. QED  BY <2>3, <2>4, <2>6, <2>7, <2>8, Zenon DEF Responds
  <1>3. CASE r.method # "HEAD"
    <2> DEFINE d == clax_http_write_response_headers(clax_http_response_header(c, "chunked"))
               e == Submit(d, "read")
    <2>1. /\ Live(d) /\ Frame(c, d) /\ d.fs = c.fs
          /\ d.finalized = c.finalized
          /\ d.wire = Append(c.wire, HeadPiece(c.status_code, {"chunked"}))
          /\ d.writes = c.writes + 1
      BY <1>1, HeadersIs
    <2>. HIDE DEF d
    <2>2. /\ Live(e) /\ Frame(d, e) /\ e.fs = [d.fs EXCEPT !["read"] = @ + 1]
          /\ e.finalized = d.finalized /\ e.wire = d.wire /\ e.writes = d.writes
      BY <1>1, <2>1, SubmitIs
    <2>3. ServeHandle(c, r, sys) = e
      BY <1>3 DEF ServeHandle, clax_http_read_response_handle_chunk, d
    <2>. HIDE DEF e
    <2>4. Len(e.wire) = Len(c.wire) + 1
      BY <1>1, <2>1, <2>2
    <2>5. Frame(c, e)
      BY <2>1, <2>2 DEF Frame
    <2>6. Counted(c, e)
      BY <1>1, <2>1, <2>2, <2>4 DEF Counted
    <2>7. Serves(c, e, c.status_code)
      BY <2>1, <2>2, Zenon DEF Serves
    <2>. QED  BY <1>3, <2>2, <2>3, <2>5, <2>6, <2>7, Zenon DEF Responds
  <1>. QED  BY <1>2, <1>3

\* clax_http_dispatch_done_cb responds with the status that is set.
LEMMA DoneIs ==
  ASSUME NEW c, Unbegun(c), NEW r, NEW sys, sys.submit
  PROVE  Responds(c, r, clax_http_dispatch_done_cb(c, r, sys), c.status_code)
  BY HandleIs, BodyIs, NothingIs DEF Unbegun, clax_http_dispatch_done_cb, clax_http_write_response

\* Every canned reply responds with its status.
LEMMA ReplyIs ==
  ASSUME NEW c, Unbegun(c), NEW r, NEW sys, sys.submit, NEW s \in Nat
  PROVE  Responds(c, r, ReplyStatus(c, r, s, sys), s) /\ Responds(c, r, ReplyText(c, r, s, sys), s)
  <1> DEFINE d == clax_http_response_status(c, s)
             e == [d EXCEPT !.has_body = TRUE]
  <1>1. c \in Ctx /\ c.ctx = "live"
    BY DEF Unbegun, Live, Good
  <1>2. /\ Unbegun(d) /\ Frame(c, d) /\ d.fs = c.fs /\ d.fs_open = c.fs_open /\ d.status_code = s
        /\ d.wire = c.wire /\ d.writes = c.writes /\ d.body_handle = c.body_handle
    BY <1>1 DEF clax_http_response_status, Unbegun, Live, Good, Ctx, Frame
  <1>. HIDE DEF d
  <1>3. /\ Unbegun(e) /\ Frame(c, e) /\ e.fs = c.fs /\ e.fs_open = c.fs_open /\ e.status_code = s
        /\ e.wire = c.wire /\ e.writes = c.writes /\ e.body_handle = c.body_handle
    BY <1>2 DEF Unbegun, Live, Good, Ctx, Frame
  <1>. HIDE DEF e
  <1>4. ASSUME NEW x, Unbegun(x), Frame(c, x), x.fs = c.fs, x.fs_open = c.fs_open, x.status_code = s,
               x.wire = c.wire, x.writes = c.writes, x.body_handle = c.body_handle
        PROVE  Responds(c, r, clax_http_dispatch_done_cb(x, r, sys), s)
    <2> DEFINE y == clax_http_dispatch_done_cb(x, r, sys)
    <2>1. Responds(x, r, y, s)
      BY <1>4, DoneIs
    <2>. HIDE DEF y
    <2>2. Frame(c, y)
      BY <1>4, <2>1 DEF Responds, Frame
    <2>3. Replied(c, y, s) <=> Replied(x, y, s)
      BY <1>4 DEF Replied
    <2>4. Serves(c, y, s) <=> Serves(x, y, s)
      BY <1>4 DEF Serves
    <2>5. Counted(c, y) <=> Counted(x, y)
      BY <1>4 DEF Counted
    <2>. QED  BY <1>4, <2>1, <2>2, <2>3, <2>4, <2>5, Zenon DEF Responds, y
  <1>. QED  BY <1>2, <1>3, <1>4 DEF ReplyStatus, ReplyText, clax_http_response_body_str, d, e

\* The interim 100: the response is unbegun again.
LEMMA ContinueIs ==
  ASSUME NEW c, Live(c), ~c.finalized, c.headers = {}, c.continue_expected, NEW r, NEW sys
  PROVE  LET d == clax_dispatch_continue(c, r, sys)
         IN  /\ Unbegun(d) /\ Frame(c, d) /\ d.fs = c.fs /\ d.fs_open = c.fs_open
             /\ ~d.has_body /\ ~d.body_handle
             /\ d.wire = Append(c.wire, HeadPiece(100, {})) /\ d.writes = c.writes + 1
  <1> DEFINE a == clax_http_response_status(c, 100)
             h == clax_http_write_response_headers(a)
             e == [h EXCEPT !.continue_expected = FALSE]
             f == ResetResponse(e)
  <1>1. c \in Ctx /\ c.ctx = "live"
    BY DEF Live, Good
  <1>2. /\ Live(a) /\ Frame(c, a) /\ a.fs = c.fs /\ a.fs_open = c.fs_open /\ a.status_code = 100
        /\ a.headers = {} /\ a.wire = c.wire /\ a.writes = c.writes /\ a.continue_expected
    BY <1>1 DEF clax_http_response_status, Live, Good, Ctx, Frame
  <1>. HIDE DEF a
  <1>3. /\ Live(h) /\ Rest(a, h) /\ h.wire = Append(a.wire, HeadPiece(100, {}))
        /\ h.writes = a.writes + 1
    <2>1. HeadPiece(100, {}) \in Piece
      BY DEF HeadPiece, Piece
    <2>. QED  BY <1>2, <2>1, WriteIs DEF clax_http_write_response_headers
  <1>. HIDE DEF h
  <1>4. /\ Live(e) /\ Frame(h, e) /\ e.fs = h.fs /\ e.fs_open = h.fs_open
        /\ e.status_code = h.status_code
        /\ e.wire = h.wire /\ e.writes = h.writes /\ ~e.continue_expected
    BY <1>3 DEF Live, Good, Ctx, Frame
  <1>. HIDE DEF e
  <1>5. /\ f.ctx = "live" /\ Frame(e, f) /\ f.fs = e.fs /\ f.fs_open = e.fs_open
        /\ f.wire = e.wire /\ f.writes = e.writes /\ ~f.continue_expected
        /\ ~f.finalized /\ f.headers = {} /\ ~f.has_body /\ ~f.body_handle
    BY <1>4 DEF ResetResponse, OnLive, Live, Good, Ctx, Frame
  <1>6. Live(f)
    BY <1>4, <1>5, ResetStep DEF Live, Step
  <1>7. clax_dispatch_continue(c, r, sys) = f
    <2>1. e.status_code = 100 /\ a.continue_expected
      BY <1>2, <1>3, <1>4 DEF Rest
    <2>. QED  BY <1>2, <2>1 DEF clax_dispatch_continue, ReplyStatus, clax_http_dispatch_done_cb, a, h, e
  <1>. HIDE DEF f
  <1>8. Frame(c, f) /\ f.fs = c.fs /\ f.fs_open = c.fs_open
    BY <1>2, <1>3, <1>4, <1>5 DEF Rest, Frame
  <1>. QED  BY <1>2, <1>3, <1>4, <1>5, <1>6, <1>7, <1>8 DEF Unbegun

-----------------------------------------------------------------------------
(* The invariant of a connection on which everything goes as it should.    *)

\* Requests that are served as they should be: authorized, with a body that has a
\* length if there is one, and asking for a 100 only where that is known.
Regular(r) ==
  /\ AuthRequired => r.authorized
  /\ ~r.bad
  /\ r.framing = "length" \/ (r.framing = "none" /\ r.pieces = 0)
  /\ r.expect => r.method = "POST" /\ r.path = "/tree/"

\* System calls that succeed, or whose failure is answered.
Fine(s) == s.submit /\ s.create /\ s.tmp /\ s.write = "ok" /\ s.spawn # "unread"

\* The client waits for its answer, and output is read before an exit is reported.
Patient ==
  /\ \A r \in Requests : Regular(r)
  /\ \A s \in SysResults : Fine(s)
  /\ HangUp = "never" /\ OutputFirst /\ RefuseAt = {-1}

\* No piece but the last ends the response.
WireOK(w) ==
  /\ \A i \in DOMAIN w : LegalPiece(w, i)
  /\ \A i \in DOMAIN w : w[i].status = 100 => w[i].framing = {}
  /\ \A i \in 1..(Len(w) - 1) : ~EndsResponse(w[i])

\* Nothing is written but an interim 100; or the headers that announce chunks, and
\* chunks.
Interim(w) == w = << >> \/ (req.expect /\ w = <<HeadPiece(100, {})>>)

Announced(w) ==
  \E j \in DOMAIN w :
    /\ w[j].part = "head" /\ w[j].framing = {"chunked"}
    /\ \A k \in (j + 1)..Len(w) : w[k].part = "chunk"

\* What is written is in order, and an open connection with an ended response has a
\* write in flight, whose callback will close it.
Written ==
  /\ WireOK(conn.wire) /\ EndedWhenComplete
  /\ conn.writes <= Len(conn.wire)
  /\ conn.ctx = "live" /\ conn.finalized => conn.writes > 0

\* The operations in flight: none, or one of kind k.
NoOps == [j \in FsOps |-> 0]
Only(k) == [j \in FsOps |-> IF j = k THEN 1 ELSE 0]

\* The request has a body; one that is kept in a temporary file (a form is not).
HasBody == req.framing = "length" /\ req.pieces > 0
Kept == HasBody /\ req.type # "form"

\* No command runs.
Calm(c) == c.process = "none" /\ c.pipe = "none" /\ c.output = 0

\* The response is not begun, and can be.
Ready(c) ==
  /\ Unbegun(c) /\ ~c.stale /\ Interim(c.wire) /\ Calm(c) /\ c.writes <= Len(c.wire)
  /\ c.fs_open => c.body_handle

\* The stages of a request.
Beginning == unread = Segments(req) /\ conn = clax_ctx_init /\ printed = 0

\* The last m segments of a body.
BodyLeft(m) == [i \in 1..m |-> IF i = m THEN "lastbody" ELSE "body"]

\* The headers are read and the body is on its way.
Receiving ==
  /\ HasBody /\ Ready(conn) /\ conn.fs = NoOps /\ ~conn.body_handle /\ printed = 0
  /\ \E m \in 1..req.pieces :
       /\ unread = BodyLeft(m)
       /\ conn.body_tmpfile => Kept /\ conn.to_read = m
       /\ ~conn.body_tmpfile => req.type = "form" \/ m = req.pieces

\* The request is read, and one file operation is in flight for it.
Working ==
  /\ unread = << >> /\ Ready(conn) /\ printed = 0
  /\ Kept => conn.body_tmpfile
  /\ \E k \in FsOps \ {"read"} :
       /\ conn.fs = Only(k)
       /\ k \in {"body_close", "copy"} => conn.to_read = 0
       /\ k # "body_close" => req.path = "/tree/"
       /\ k = "unlink" => req.method # "POST"
       /\ conn.body_handle <=> k = "crc_download"

\* A file is sent, a read at a time.
Sending ==
  /\ unread = << >> /\ Live(conn) /\ ~conn.finalized /\ Calm(conn) /\ printed = 0
  /\ Announced(conn.wire) /\ conn.fs = Only("read") /\ req.method # "HEAD"

\* The chunks on a wire.
Chunks(w) == {j \in DOMAIN w : w[j].part = "chunk"}

\* A command runs: its chunks and what is still in the pipe are what it printed.
Running ==
  /\ unread = << >> /\ Live(conn) /\ ~conn.finalized /\ conn.fs = NoOps
  /\ Announced(conn.wire) /\ ~conn.fs_open
  /\ conn.process \in {"running", "exited", "closing"}
  /\ IsFiniteSet(Chunks(conn.wire))
  /\ Cardinality(Chunks(conn.wire)) + conn.output = printed
  /\ conn.process = "closing" => conn.output = 0

\* The response has ended.
Ended ==
  /\ unread = << >> /\ conn.finalized /\ conn.fs = NoOps
  /\ conn.process \in {"none", "gone"} /\ conn.output = 0
  /\ req.method = "HEAD" => ~conn.fs_open

Stage == Beginning \/ Receiving \/ Working \/ Sending \/ Running \/ Ended

\* Nobody posts a form to a file: it would not be stored.
NoForms == \A r \in Requests : r.type = "form" => r.path # "/tree/"

\* What holds at every moment of a patient client's connection.
Fits ==
  /\ ~conn.stale
  /\ Written /\ OutputComplete /\ (NoForms => UploadStored)
  /\ Stage

\* The inductive invariant.
SInv == IInv /\ closed_by \in {"none", "write"} /\ Fits /\ conn.refuse_at = -1

\* No write has been refused then.
LEMMA NotRefused == SInv => ~conn.refused
  <1>1. -1 \notin Nat
    OBVIOUS
  <1>. QED  BY <1>1 DEF SInv, IInv

-----------------------------------------------------------------------------
(* The wire.                                                               *)

\* A wire without trailers; one that holds a whole response.
NoTrailer(w) == \A i \in DOMAIN w : w[i].part # "trailer"
Complete(w) == w # << >> /\ EndsResponse(w[Len(w)])

\* An announced body has neither ended nor trailers.
LEMMA AnnouncedOpen ==
  ASSUME NEW w \in Seq(Piece), Announced(w)
  PROVE  w # << >> /\ ~Complete(w) /\ (WireOK(w) => NoTrailer(w))
  <1>1. PICK j \in DOMAIN w :
          /\ w[j].part = "head" /\ w[j].framing = {"chunked"}
          /\ \A k \in (j + 1)..Len(w) : w[k].part = "chunk"
    BY DEF Announced
  <1>2. DOMAIN w = 1..Len(w) /\ Len(w) \in Nat
    BY LenProperties
  <1>3. w[Len(w)].part = "chunk" \/ (w[Len(w)].part = "head" /\ w[Len(w)].framing = {"chunked"})
    <2>1. CASE j = Len(w)
      BY <1>1, <2>1
    <2>2. CASE j # Len(w)
      <3>1. Len(w) \in (j + 1)..Len(w)
        BY <1>2, <2>2
      <3>. QED  BY <1>1, <3>1
    <2>. QED  BY <2>1, <2>2
  <1>4. {"chunked"} # {"length"}
    OBVIOUS
  <1>5. w # << >>
    BY <1>2
  <1>7. ~Complete(w)
    BY <1>3, <1>4 DEF Complete, EndsResponse
  <1>6. ASSUME WireOK(w), NEW i \in DOMAIN w PROVE w[i].part # "trailer"
    <2>1. CASE i = Len(w)
      BY <1>3, <2>1
    <2>2. CASE i # Len(w)
      <3>1. i \in 1..(Len(w) - 1)
        BY <1>2, <2>2
      <3>. QED  BY <1>6, <3>1 DEF WireOK, EndsResponse
    <2>. QED  BY <2>1, <2>2
  <1>. QED  BY <1>5, <1>6, <1>7 DEF NoTrailer

\* Every piece but the last of w does not end it, and the last does not either:
\* then a piece can follow.
LEMMA AppendWire ==
  ASSUME NEW w \in Seq(Piece), WireOK(w), ~Complete(w), NEW p \in Piece,
         NEW v, v = Append(w, p), LegalPiece(v, Len(w) + 1),
         p.status = 100 => p.framing = {}
  PROVE  WireOK(v)
  <1>1. /\ v \in Seq(Piece) /\ Len(v) = Len(w) + 1 /\ DOMAIN v = 1..(Len(w) + 1)
        /\ Len(w) \in Nat /\ DOMAIN w = 1..Len(w) /\ v[Len(w) + 1] = p
        /\ \A i \in 1..Len(w) : v[i] = w[i]
    BY LenProperties, AppendProperties
  <1>2. ASSUME NEW i \in 1..Len(w) PROVE LegalPiece(v, i)
    <2>1. LegalPiece(w, i)
      BY <1>1, <1>2 DEF WireOK
    <2>2. v[i] = w[i] /\ v[1] = w[1]
      BY <1>1, <1>2
    <2>3. ASSUME NEW j \in 1..(i - 1) PROVE v[j] = w[j] /\ \A k \in (j + 1)..(i - 1) : v[k] = w[k]
      BY <1>1, <1>2, <2>3
    <2>. QED  BY <2>1, <2>2, <2>3 DEF LegalPiece
  <1>3. ASSUME NEW i \in 1..(Len(v) - 1) PROVE ~EndsResponse(v[i])
    <2>1. i \in 1..Len(w) /\ v[i] = w[i]
      BY <1>1, <1>3
    <2>2. CASE i = Len(w)
      BY <2>1, <2>2 DEF Complete
    <2>3. CASE i # Len(w)
      <3> DEFINE n == Len(w)
      <3>1. n \in Nat /\ i \in 1..n /\ i # n
        BY <1>1, <2>1, <2>3
      <3>. HIDE DEF n
      <3>2. i \in 1..(n - 1)
        BY <3>1
      <3>. USE DEF n
      <3>3. i \in 1..(Len(w) - 1)
        BY <3>2
      <3>. QED  BY <2>1, <3>3 DEF WireOK
    <2>. QED  BY <2>2, <2>3
  <1>4. ASSUME NEW i \in DOMAIN v PROVE LegalPiece(v, i) /\ (v[i].status = 100 => v[i].framing = {})
    <2>1. CASE i = Len(w) + 1
      BY <1>1, <2>1
    <2>2. CASE i # Len(w) + 1
      <3>1. i \in 1..Len(w)
        BY <1>1, <1>4, <2>2
      <3>. QED  BY <1>1, <1>2, <3>1 DEF WireOK
    <2>. QED  BY <2>1, <2>2
  <1>. QED  BY <1>3, <1>4 DEF WireOK

\* Before the response is begun the wire is fine and open.
LEMMA InterimOpen ==
  ASSUME NEW w, Interim(w)
  PROVE  /\ w \in Seq(Piece) /\ WireOK(w) /\ ~Complete(w) /\ NoTrailer(w) /\ Chunks(w) = {}
         /\ Len(w) = 0 \/ (Len(w) = 1 /\ w[1] = HeadPiece(100, {}))
  <1>1. CASE w = << >>
    BY <1>1 DEF WireOK, Complete, NoTrailer, Chunks
  <1>2. CASE req.expect /\ w = <<HeadPiece(100, {})>>
    <2>1. HeadPiece(100, {}) \in Piece
      BY DEF HeadPiece, Piece
    <2>2. w \in Seq(Piece) /\ DOMAIN w = {1} /\ Len(w) = 1 /\ w[1] = HeadPiece(100, {})
      BY <1>2, <2>1
    <2>3. /\ w[1].part = "head" /\ w[1].status = 100 /\ w[1].framing = {}
      BY <2>2 DEF HeadPiece
    <2>4. {} # {"length"}
      OBVIOUS
    <2>5. LegalPiece(w, 1)
      BY <1>2, <2>3 DEF LegalPiece
    <2>6. WireOK(w)
      <3>1. 1..(Len(w) - 1) = {}
        BY <2>2
      <3>. QED  BY <2>2, <2>3, <2>5, <3>1 DEF WireOK
    <2>. QED  BY <2>2, <2>3, <2>4, <2>6 DEF Complete, EndsResponse, NoTrailer, Chunks
  <1>. QED  BY <1>1, <1>2 DEF Interim

\* The header block of the response.
LEMMA WireHead ==
  ASSUME NEW w, Interim(w), NEW p \in Piece, p.part = "head", p.status # 100,
         NEW v, v = Append(w, p)
  PROVE  /\ v \in Seq(Piece) /\ WireOK(v) /\ NoTrailer(v) /\ Chunks(v) = {}
         /\ p.framing = {"length"} => Complete(v)
         /\ p.framing = {"chunked"} => Announced(v)
         /\ \A i \in DOMAIN v : v[i].status \in {100, p.status}
  <1>1. /\ w \in Seq(Piece) /\ WireOK(w) /\ ~Complete(w) /\ NoTrailer(w) /\ Chunks(w) = {}
        /\ Len(w) = 0 \/ (Len(w) = 1 /\ w[1] = HeadPiece(100, {}))
    BY InterimOpen
  <1>3. /\ v \in Seq(Piece) /\ Len(v) = Len(w) + 1 /\ DOMAIN v = 1..(Len(w) + 1)
        /\ v[Len(w) + 1] = p /\ DOMAIN w = 1..Len(w)
        /\ \A i \in 1..Len(w) : v[i] = w[i]
    BY <1>1, LenProperties, AppendProperties
  <1>4. LegalPiece(v, Len(w) + 1)
    <2>1. CASE Len(w) = 0
      BY <1>3, <2>1 DEF LegalPiece
    <2>2. CASE Len(w) = 1 /\ w[1] = HeadPiece(100, {})
      <3>1. v[1] = HeadPiece(100, {}) /\ v[2] = p
        BY <1>3, <2>2
      <3>2. v[1].part = "head" /\ v[1].status = 100
        BY <3>1 DEF HeadPiece
      <3>. QED  BY <2>2, <3>1, <3>2 DEF LegalPiece
    <2>. QED  BY <1>1, <2>1, <2>2
  <1>5. WireOK(v)
    BY <1>1, <1>4, AppendWire
  <1>6. ASSUME NEW i \in DOMAIN v
        PROVE  v[i].part = "head" /\ v[i].status \in {100, p.status}
    <2>1. CASE i = Len(w) + 1
      BY <1>3, <2>1
    <2>2. CASE i # Len(w) + 1
      <3>1. i = 1 /\ Len(w) = 1 /\ v[i] = HeadPiece(100, {})
        BY <1>1, <1>3, <1>6, <2>2
      <3>. QED  BY <3>1 DEF HeadPiece
    <2>. QED  BY <2>1, <2>2
  <1>7. ASSUME p.framing = {"chunked"} PROVE Announced(v)
    <2>1. Len(w) + 1 \in DOMAIN v /\ (Len(w) + 1 + 1)..Len(v) = {}
      BY <1>1, <1>3
    <2>. QED  BY <1>3, <1>7, <2>1 DEF Announced
  <1>8. ASSUME p.framing = {"length"} PROVE Complete(v)
    <2>1. Len(v) # 0
      BY <1>1, <1>3
    <2>. QED  BY <1>3, <1>8, <2>1 DEF Complete, EndsResponse
  <1>. QED  BY <1>3, <1>5, <1>6, <1>7, <1>8 DEF NoTrailer, Chunks

\* The header block with one header that frames the body.
LEMMA HeadIs ==
  ASSUME NEW s \in Nat \ {100}, NEW h \in Framing
  PROVE  LET p == HeadPiece(s, {h})
         IN  p \in Piece /\ p.part = "head" /\ p.status = s /\ p.framing = {h}
  BY DEF HeadPiece, Piece

\* The header block that announces chunks.
Announces(w, v, s) == v = Append(w, HeadPiece(s, {"chunked"}))

\* Then chunks can follow.
LEMMA WireChunked ==
  ASSUME NEW w, Interim(w), NEW s \in Nat \ {100}, NEW v, Announces(w, v, s)
  PROVE  /\ v \in Seq(Piece) /\ WireOK(v) /\ NoTrailer(v) /\ Chunks(v) = {} /\ Announced(v)
         /\ \A i \in DOMAIN v : v[i].status \in {100, s}
  <1> DEFINE p == HeadPiece(s, {"chunked"})
  <1>1. p \in Piece /\ p.part = "head" /\ p.status = s /\ p.framing = {"chunked"}
    BY HeadIs DEF Framing
  <1>2. p.status # 100 /\ v = Append(w, p)
    BY <1>1 DEF Announces
  <1>. HIDE DEF p
  <1>3. v \in Seq(Piece) /\ WireOK(v) /\ NoTrailer(v) /\ Chunks(v) = {}
    BY <1>1, <1>2, WireHead
  <1>4. Announced(v)
    BY <1>1, <1>2, WireHead
  <1>5. \A i \in DOMAIN v : v[i].status \in {100, s}
    BY <1>1, <1>2, WireHead
  <1>. QED  BY <1>3, <1>4, <1>5

\* A chunk of an announced body, or its end.
LEMMA WireBody ==
  ASSUME NEW w \in Seq(Piece), WireOK(w), Announced(w), NEW p \in {"chunk", "last", "trailer"},
         NEW v, v = Append(w, BodyPiece(p))
  PROVE  /\ v \in Seq(Piece) /\ WireOK(v)
         /\ p = "chunk" => Announced(v)
         /\ p # "chunk" => Complete(v)
         /\ \A i \in DOMAIN v : v[i].status = 0 \/ (i \in DOMAIN w /\ v[i].status = w[i].status)
         /\ NoTrailer(w) /\ p # "trailer" => NoTrailer(v)
         /\ p = "chunk" => Chunks(v) = Chunks(w) \cup {Len(w) + 1}
         /\ p # "chunk" => Chunks(v) = Chunks(w)
         /\ Len(w) + 1 \notin Chunks(w)
  <1> DEFINE b == BodyPiece(p)
  <1>1. ~Complete(w)
    BY AnnouncedOpen
  <1>2. b \in Piece /\ b.part = p /\ b.status = 0 /\ b.framing = {}
    BY DEF BodyPiece, Piece
  <1>3. /\ v \in Seq(Piece) /\ Len(v) = Len(w) + 1 /\ DOMAIN v = 1..(Len(w) + 1)
        /\ v[Len(w) + 1] = b /\ DOMAIN w = 1..Len(w) /\ Len(w) \in Nat
        /\ \A i \in 1..Len(w) : v[i] = w[i]
    BY <1>2, LenProperties, AppendProperties
  <1>. HIDE DEF b
  <1>4. PICK j \in DOMAIN w :
          /\ w[j].part = "head" /\ w[j].framing = {"chunked"}
          /\ \A k \in (j + 1)..Len(w) : w[k].part = "chunk"
    BY DEF Announced
  <1>5. v[j] = w[j] /\ \A k \in (j + 1)..Len(w) : v[k] = w[k]
    BY <1>3, <1>4
  <1>6. LegalPiece(v, Len(w) + 1)
    <2>1. p # "head" /\ (Len(w) + 1) - 1 = Len(w) /\ j \in 1..Len(w)
      BY <1>3
    <2>. QED  BY <1>2, <1>3, <1>4, <1>5, <2>1 DEF LegalPiece
  <1>7. WireOK(v)
    BY <1>1, <1>2, <1>6, AppendWire DEF b
  <1>8. ASSUME p = "chunk" PROVE Announced(v)
    <2>1. j \in DOMAIN v
      BY <1>3
    <2>2. ASSUME NEW k \in (j + 1)..Len(v) PROVE v[k].part = "chunk"
      <3>1. k = Len(w) + 1 \/ k \in (j + 1)..Len(w)
        BY <1>3, <2>2
      <3>. QED  BY <1>2, <1>3, <1>4, <1>5, <1>8, <3>1
    <2>. QED  BY <1>4, <1>5, <2>1, <2>2 DEF Announced
  <1>9. ASSUME p # "chunk" PROVE Complete(v)
    <2>1. Len(v) # 0
      BY <1>3
    <2>. QED  BY <1>2, <1>3, <1>9, <2>1 DEF Complete, EndsResponse
  <1>10. Len(w) + 1 \notin DOMAIN w /\ DOMAIN v = DOMAIN w \cup {Len(w) + 1}
    BY <1>3
  <1>11. \A i \in DOMAIN w : v[i] = w[i]
    BY <1>3
  <1>12. \A i \in DOMAIN v : v[i].status = 0 \/ (i \in DOMAIN w /\ v[i].status = w[i].status)
    BY <1>2, <1>3, <1>10, <1>11
  <1>13. NoTrailer(w) /\ p # "trailer" => NoTrailer(v)
    BY <1>2, <1>3, <1>10, <1>11 DEF NoTrailer
  <1>14. /\ p = "chunk" => Chunks(v) = Chunks(w) \cup {Len(w) + 1}
         /\ p # "chunk" => Chunks(v) = Chunks(w)
    BY <1>2, <1>3, <1>10, <1>11 DEF Chunks
  <1>15. Len(w) + 1 \notin Chunks(w)
    BY <1>10 DEF Chunks
  <1>. QED  BY <1>3, <1>7, <1>8, <1>9, <1>12, <1>13, <1>14, <1>15

\* All of a response at once.
LEMMA WireWhole ==
  ASSUME NEW w, Interim(w), NEW s \in Nat \ {100}, NEW v, Whole(w, v, s)
  PROVE  /\ v \in Seq(Piece) /\ WireOK(v) /\ Complete(v) /\ NoTrailer(v)
         /\ \A i \in DOMAIN v : v[i].status \in {0, 100, s}
  <1>1. CASE v = Append(w, HeadPiece(s, {"length"}))
    <2> DEFINE p == HeadPiece(s, {"length"})
    <2>1. p \in Piece /\ p.part = "head" /\ p.status = s /\ p.framing = {"length"}
      BY HeadIs DEF Framing
    <2>2. p.status # 100 /\ v = Append(w, p)
      BY <1>1, <2>1
    <2>. HIDE DEF p
    <2>3. v \in Seq(Piece) /\ WireOK(v) /\ NoTrailer(v)
      BY <2>1, <2>2, WireHead
    <2>4. Complete(v)
      BY <2>1, <2>2, WireHead
    <2>5. \A i \in DOMAIN v : v[i].status \in {100, s}
      BY <2>1, <2>2, WireHead
    <2>. QED  BY <2>3, <2>4, <2>5
  <1>2. CASE v = Append(Append(Append(w, HeadPiece(s, {"chunked"})), BodyPiece("chunk")), BodyPiece("last"))
    <2> DEFINE h == Append(w, HeadPiece(s, {"chunked"}))
               b == Append(h, BodyPiece("chunk"))
    <2>1. /\ h \in Seq(Piece) /\ WireOK(h) /\ NoTrailer(h) /\ Announced(h)
          /\ \A i \in DOMAIN h : h[i].status \in {100, s}
      <3>1. Announces(w, h, s)
        BY DEF Announces
      <3>. HIDE DEF h
      <3>. QED  BY <3>1, WireChunked
    <2>. HIDE DEF h
    <2>2. /\ b \in Seq(Piece) /\ WireOK(b) /\ NoTrailer(b) /\ Announced(b)
          /\ \A i \in DOMAIN b : b[i].status = 0 \/ (i \in DOMAIN h /\ b[i].status = h[i].status)
      <3> DEFINE p == "chunk"
      <3>1. p \in {"chunk", "last", "trailer"} /\ p = "chunk" /\ p # "trailer"
            /\ b = Append(h, BodyPiece(p))
        OBVIOUS
      <3>. HIDE DEF p, b
      <3>2. b \in Seq(Piece) /\ WireOK(b) /\ Announced(b)
        BY <2>1, <3>1, WireBody
      <3>3. NoTrailer(b)
        BY <2>1, <3>1, WireBody
      <3>4. \A i \in DOMAIN b : b[i].status = 0 \/ (i \in DOMAIN h /\ b[i].status = h[i].status)
        BY <2>1, <3>1, WireBody
      <3>. QED  BY <3>2, <3>3, <3>4
    <2>. HIDE DEF b
    <2>3. v = Append(b, BodyPiece("last"))
      BY <1>2 DEF b, h
    <2>4. /\ v \in Seq(Piece) /\ WireOK(v) /\ NoTrailer(v) /\ Complete(v)
          /\ \A i \in DOMAIN v : v[i].status = 0 \/ (i \in DOMAIN b /\ v[i].status = b[i].status)
      <3>1. "last" \in {"chunk", "last", "trailer"} /\ "last" # "chunk" /\ "last" # "trailer"
        OBVIOUS
      <3> DEFINE q == "last"
      <3>2. v = Append(b, BodyPiece(q)) /\ q \in {"chunk", "last", "trailer"} /\ q # "chunk" /\ q # "trailer"
        BY <2>3, <3>1
      <3>. HIDE DEF q
      <3>3. v \in Seq(Piece) /\ WireOK(v) /\ Complete(v)
        BY <2>2, <3>2, WireBody
      <3>4. NoTrailer(v)
        BY <2>2, <3>2, WireBody
      <3>5. \A i \in DOMAIN v : v[i].status = 0 \/ (i \in DOMAIN b /\ v[i].status = b[i].status)
        BY <2>2, <3>2, WireBody
      <3>. QED  BY <3>3, <3>4, <3>5
    <2>. QED  BY <2>1, <2>2, <2>4
  <1>. QED  BY <1>1, <1>2 DEF Whole

\* A chunk more is one more to count.
LEMMA ChunkCount ==
  ASSUME NEW S, IsFiniteSet(S), NEW n, n \notin S
  PROVE  /\ IsFiniteSet(S \cup {n}) /\ Cardinality(S) \in Nat
         /\ Cardinality(S \cup {n}) = Cardinality(S) + 1
  BY FS_AddElement, FS_CardinalityType

-----------------------------------------------------------------------------
(* What a callback leaves behind fits.                                     *)

\* Written, from facts on the next wire.
LEMMA WrittenNext ==
  ASSUME req' = req, WireOK(conn'.wire), conn'.finalized <=> Complete(conn'.wire),
         conn'.writes <= Len(conn'.wire),
         conn'.ctx = "live" /\ conn'.finalized => conn'.writes > 0
  PROVE  Written'
  <1>1. \A i \in DOMAIN conn'.wire : LegalPiece(conn.wire, i)'
    BY DEF WireOK, LegalPiece
  <1>2. WireOK(conn.wire)'
    BY <1>1 DEF WireOK, EndsResponse
  <1>3. EndedWhenComplete'
    BY DEF EndedWhenComplete, Complete, EndsResponse
  <1>. QED  BY <1>2, <1>3 DEF Written

\* Without trailers there is nothing to complete.
LEMMA NoTrailerNext ==
  ASSUME NoTrailer(conn'.wire) PROVE OutputComplete'
  BY DEF NoTrailer, OutputComplete

\* An upload that is reported created was stored.
Warranted(c) ==
  NoForms => (req.method = "POST" /\ req.type # "folder" /\ req.pieces > 0 => c.body_tmpfile)

\* A 204 is on the wire only where it is warranted.
LEMMA StoredNext ==
  ASSUME req' = req, NEW s,
         \A i \in DOMAIN conn'.wire : conn'.wire[i].status \in {0, 100, s},
         s = 204 => Warranted(conn')
  PROVE  (NoForms => UploadStored)'
  <1>1. NoForms' <=> NoForms
    BY DEF NoForms
  <1>. QED  BY <1>1 DEF UploadStored, Warranted

\* As long as the response can still begin, nothing is wrong.
LEMMA ReadyFits ==
  ASSUME req' = req, Ready(conn')
  PROVE  Written' /\ OutputComplete' /\ (NoForms => UploadStored)'
  <1> DEFINE w == conn'.wire
  <1>1. Interim(w) /\ ~conn'.finalized /\ conn'.writes <= Len(w)
    BY DEF Ready, Unbegun
  <1>. HIDE DEF w
  <1>2. /\ w \in Seq(Piece) /\ WireOK(w) /\ ~Complete(w) /\ NoTrailer(w)
        /\ Len(w) = 0 \/ (Len(w) = 1 /\ w[1] = HeadPiece(100, {}))
    BY <1>1, InterimOpen
  <1>3. \A i \in DOMAIN w : w[i].status = 100
    <2>1. \A i \in DOMAIN w : i = 1 /\ w[i] = HeadPiece(100, {})
      BY <1>2, LenProperties
    <2>. QED  BY <2>1 DEF HeadPiece
  <1>4. Written'
    BY <1>1, <1>2, WrittenNext DEF w
  <1>5. OutputComplete'
    BY <1>2, NoTrailerNext DEF w
  <1>6. (NoForms => UploadStored)'
    BY <1>3, StoredNext DEF w
  <1>. QED  BY <1>4, <1>5, <1>6

\* A piece of an announced body is written.
LEMMA PushFits ==
  ASSUME req' = req, Written, Announced(conn.wire), NoForms => UploadStored, conn \in Ctx,
         NEW p \in {"chunk", "last", "trailer"},
         conn'.wire = Append(conn.wire, BodyPiece(p)), conn'.writes = conn.writes + 1,
         conn'.finalized <=> p # "chunk", conn'.body_tmpfile = conn.body_tmpfile
  PROVE  /\ Written' /\ (NoForms => UploadStored)'
         /\ p # "trailer" => OutputComplete'
         /\ p = "chunk" => Announced(conn'.wire)
         /\ p = "chunk" => Chunks(conn'.wire) = Chunks(conn.wire) \cup {Len(conn.wire) + 1}
         /\ p # "chunk" => Chunks(conn'.wire) = Chunks(conn.wire)
         /\ Len(conn.wire) + 1 \notin Chunks(conn.wire)
  <1> DEFINE w == conn.wire
             v == conn'.wire
  <1>1. /\ w \in Seq(Piece) /\ WireOK(w) /\ Announced(w)
        /\ conn.writes \in Nat /\ conn.writes <= Len(w)
    BY DEF Written, Ctx
  <1>2. v = Append(w, BodyPiece(p)) /\ BodyPiece(p) \in Piece
    BY DEF BodyPiece, Piece
  <1>3. Len(v) = Len(w) + 1 /\ Len(w) \in Nat
    BY <1>1, <1>2
  <1>4. conn'.writes <= Len(v) /\ conn'.writes > 0
    BY <1>1, <1>3
  <1>5. NoTrailer(w)
    BY <1>1, AnnouncedOpen
  <1>. HIDE DEF w, v
  <1>6. /\ v \in Seq(Piece) /\ WireOK(v)
        /\ p = "chunk" => Announced(v)
        /\ p # "chunk" => Complete(v)
        /\ \A i \in DOMAIN v : v[i].status = 0 \/ (i \in DOMAIN w /\ v[i].status = w[i].status)
        /\ NoTrailer(w) /\ p # "trailer" => NoTrailer(v)
    <2>1. v \in Seq(Piece) /\ WireOK(v)
      BY <1>1, <1>2, WireBody
    <2>2. (p = "chunk" => Announced(v)) /\ (p # "chunk" => Complete(v))
      BY <1>1, <1>2, WireBody
    <2>3. ASSUME NEW i \in DOMAIN v
          PROVE  v[i].status = 0 \/ (i \in DOMAIN w /\ v[i].status = w[i].status)
      BY <1>1, <1>2, <2>3, WireBody
    <2>4. NoTrailer(w) /\ p # "trailer" => NoTrailer(v)
      BY <1>1, <1>2, WireBody
    <2>. QED  BY <2>1, <2>2, <2>3, <2>4
  <1>7. /\ p = "chunk" => Chunks(v) = Chunks(w) \cup {Len(w) + 1}
        /\ p # "chunk" => Chunks(v) = Chunks(w)
        /\ Len(w) + 1 \notin Chunks(w)
    BY <1>1, <1>2, WireBody
  <1>8. conn'.finalized <=> Complete(v)
    BY <1>6, AnnouncedOpen
  <1>9. Written'
    BY <1>4, <1>6, <1>8, WrittenNext DEF v
  <1>10. (NoForms => UploadStored)'
    BY <1>6 DEF UploadStored, NoForms, v, w
  <1>11. p # "trailer" => OutputComplete'
    BY <1>5, <1>6, NoTrailerNext DEF v
  <1>. QED  BY <1>6, <1>7, <1>9, <1>10, <1>11 DEF v, w

\* An operation is handed to libuv.
LEMMA SubmitFits ==
  ASSUME req' = req, unread' = << >>, printed' = 0,
         NEW c, Ready(c), c.fs = NoOps, Kept => c.body_tmpfile,
         NEW k \in FsOps \ {"read"}, conn' = Submit(c, k),
         k \in {"body_close", "copy"} => c.to_read = 0,
         k # "body_close" => req.path = "/tree/",
         k = "unlink" => req.method # "POST",
         c.body_handle <=> k = "crc_download"
  PROVE  Fits'
  <1>1. Live(c) /\ ~c.stale /\ Calm(c)
    BY DEF Ready, Unbegun
  <1>2. /\ Live(conn') /\ Frame(c, conn') /\ conn'.fs = [c.fs EXCEPT ![k] = @ + 1]
        /\ conn'.continue_expected = c.continue_expected /\ conn'.headers = c.headers
        /\ conn'.has_body = c.has_body /\ conn'.body_handle = c.body_handle
        /\ conn'.fs_open = c.fs_open /\ conn'.finalized = c.finalized
        /\ conn'.wire = c.wire /\ conn'.writes = c.writes
    <2> DEFINE d == Submit(c, k)
    <2>1. conn' = d
      OBVIOUS
    <2>2. Live(d) /\ Frame(c, d) /\ d.fs = [c.fs EXCEPT ![k] = @ + 1]
      BY <1>1, SubmitIs, Zenon
    <2>4. c \in Ctx
      BY <1>1 DEF Live, Good
    <2>3. /\ d.continue_expected = c.continue_expected /\ d.headers = c.headers
          /\ d.has_body = c.has_body /\ d.body_handle = c.body_handle
          /\ d.fs_open = c.fs_open /\ d.finalized = c.finalized
          /\ d.wire = c.wire /\ d.writes = c.writes
      BY <2>4 DEF Submit, Ctx
    <2>. HIDE DEF d
    <2>. QED  BY <2>1, <2>2, <2>3, Zenon
  <1>3. conn'.fs = Only(k)
    BY <1>2 DEF NoOps, Only
  <1>4. Ready(conn')
    BY <1>2 DEF Ready, Unbegun, Calm, Frame
  <1>5. conn'.to_read = c.to_read /\ conn'.body_tmpfile = c.body_tmpfile /\ ~conn'.stale
    BY <1>1, <1>2 DEF Frame
  <1>6. Working'
    <2>1. Ready(conn)'
      BY <1>4 DEF Ready, Unbegun, Live, Good, Interim, Calm
    <2>2. (Kept => conn.body_tmpfile)'
      BY <1>5 DEF Kept, HasBody
    <2>3. /\ conn'.fs = Only(k)
          /\ k \in {"body_close", "copy"} => conn'.to_read = 0
          /\ k # "body_close" => req'.path = "/tree/"
          /\ k = "unlink" => req'.method # "POST"
          /\ conn'.body_handle <=> k = "crc_download"
      BY <1>2, <1>3, <1>5
    <2>4. \E h \in FsOps \ {"read"} :
            /\ conn'.fs = Only(h)
            /\ h \in {"body_close", "copy"} => conn'.to_read = 0
            /\ h # "body_close" => req'.path = "/tree/"
            /\ h = "unlink" => req'.method # "POST"
            /\ conn'.body_handle <=> h = "crc_download"
      BY <2>3
    <2>. QED  BY <2>1, <2>2, <2>4, Zenon DEF Working, FsOps, Only
  <1>. QED  BY <1>4, <1>5, <1>6, ReadyFits DEF Fits, Stage

\* A response is written: the connection has ended, or the read loop begins.
LEMMA RespondsFits ==
  ASSUME req' = req, unread' = << >>, printed' = 0,
         NEW c, Ready(c), c.fs = NoOps,
         NEW s \in Nat \ {100}, Responds(c, req, conn', s), s = 204 => Warranted(c)
  PROVE  Fits'
  <1> DEFINE v == conn'.wire
  <1>1. /\ Interim(c.wire) /\ ~c.stale /\ Calm(c) /\ c.writes <= Len(c.wire) /\ c.writes \in Nat
        /\ c.fs_open => c.body_handle
    BY DEF Ready, Unbegun, Live, Good, Ctx
  <1>2. Live(conn') /\ Frame(c, conn') /\ Counted(c, conn')
    BY DEF Responds
  <1>3. ~conn'.stale /\ Calm(conn') /\ conn'.body_tmpfile = c.body_tmpfile
    BY <1>1, <1>2 DEF Frame, Calm
  <1>4. conn'.writes <= Len(v) /\ conn'.writes > 0
    <2>1. c.wire \in Seq(Piece) /\ Len(c.wire) \in Nat
      BY <1>1, InterimOpen
    <2>2. v \in Seq(Piece) /\ Len(v) \in Nat /\ conn'.writes \in Nat
      BY <1>2 DEF Live, Good, Ctx
    <2>3. ASSUME NEW m \in Nat, NEW n \in Nat, NEW x \in Nat, NEW y \in Nat,
                 m <= x, n > m, n - m = y - x
          PROVE  n <= y /\ n > 0
      BY <2>3
    <2>4. conn'.writes > c.writes /\ conn'.writes - c.writes = Len(v) - Len(c.wire)
      BY <1>2 DEF Counted
    <2>. HIDE DEF v
    <2>. QED  BY <1>1, <2>1, <2>2, <2>3, <2>4
  <1>5. s = 204 => Warranted(conn')
    BY <1>3 DEF Warranted
  <1>6. CASE Replied(c, conn', s)
    <2>1. /\ WireOK(v) /\ Complete(v) /\ NoTrailer(v)
          /\ \A i \in DOMAIN v : v[i].status \in {0, 100, s}
      BY <1>1, <1>6, WireWhole DEF Replied
    <2>2. conn'.finalized /\ conn'.fs = NoOps /\ ~conn'.fs_open
      BY <1>1, <1>6 DEF Replied
    <2>3. Written'
      BY <1>4, <2>1, <2>2, WrittenNext
    <2>4. OutputComplete' /\ (NoForms => UploadStored)'
      BY <1>5, <2>1, NoTrailerNext, StoredNext
    <2>5. Ended'
      BY <1>3, <2>2 DEF Ended, Calm, NoOps, FsOps
    <2>. QED  BY <1>3, <2>3, <2>4, <2>5 DEF Fits, Stage
  <1>7. CASE req.method # "HEAD" /\ Serves(c, conn', s)
    <2>1. /\ ~conn'.finalized /\ conn'.fs = [c.fs EXCEPT !["read"] = @ + 1]
          /\ v = Append(c.wire, HeadPiece(s, {"chunked"}))
      BY <1>7 DEF Serves
    <2>2. /\ v \in Seq(Piece) /\ WireOK(v) /\ NoTrailer(v) /\ Announced(v)
          /\ \A i \in DOMAIN v : v[i].status \in {100, s}
      <3> DEFINE w == c.wire
      <3>1. Announces(w, v, s) /\ Interim(w)
        BY <1>1, <2>1 DEF Announces
      <3>. HIDE DEF v, w
      <3>2. v \in Seq(Piece) /\ WireOK(v) /\ NoTrailer(v) /\ Announced(v)
        BY <3>1, WireChunked
      <3>3. \A i \in DOMAIN v : v[i].status \in {100, s}
        BY <3>1, WireChunked
      <3>. QED  BY <3>2, <3>3
    <2>3. ~Complete(v)
      BY <2>2, AnnouncedOpen
    <2>4. conn'.fs = Only("read")
      BY <2>1 DEF NoOps, Only
    <2>. HIDE DEF v
    <2>5. Written'
      BY <1>4, <2>1, <2>2, <2>3, WrittenNext DEF v
    <2>6. OutputComplete' /\ (NoForms => UploadStored)'
      BY <1>5, <2>2, NoTrailerNext, StoredNext DEF v
    <2>7. Sending'
      <3>1. Announced(conn.wire)'
        BY <2>2 DEF Announced, v
      <3>2. Live(conn)' /\ Calm(conn)'
        BY <1>2, <1>3 DEF Live, Good, Calm
      <3>. QED  BY <1>7, <2>1, <2>4, <3>1, <3>2 DEF Sending, Only, FsOps
    <2>. QED  BY <1>3, <2>5, <2>6, <2>7 DEF Fits, Stage
  <1>. QED  BY <1>6, <1>7 DEF Responds

\* The canned replies, and those with a status alone.
LEMMA ReplyFits ==
  ASSUME req' = req, unread' = << >>, printed' = 0,
         NEW c, Ready(c), c.fs = NoOps, NEW sys, sys.submit,
         NEW s \in Nat \ {100}, s = 204 => Warranted(c),
         conn' = ReplyStatus(c, req, s, sys) \/ conn' = ReplyText(c, req, s, sys)
  PROVE  Fits'
  BY ReplyIs, RespondsFits DEF Ready

\* The handlers of /tree.
LEMMA TreeFits ==
  ASSUME req' = req, unread' = << >>, printed' = 0, req \in Requests,
         NEW c, Ready(c), c.fs = NoOps, ~c.body_handle,
         Kept => c.body_tmpfile, c.body_tmpfile => c.to_read = 0,
         Regular(req), NEW sys, Fine(sys), req.path = "/tree/", req.pieces \in Nat,
         req.method \in {"HEAD", "GET", "POST", "DELETE"},
         conn' = clax_dispatch_tree(c, req, sys)
  PROVE  Fits'
  <1>1. sys.submit /\ sys.create /\ ~c.continue_expected
    BY DEF Fine, Ready, Unbegun
  <1>2. CASE req.method \in {"HEAD", "GET"}
    <2>1. conn' = Submit(c, "stat")
      BY <1>1, <1>2 DEF clax_dispatch_tree, clax_dispatch_download
    <2>. QED  BY <2>1, SubmitFits DEF FsOps
  <1>3. CASE req.method = "DELETE"
    <2>1. conn' = Submit(c, "unlink")
      BY <1>1, <1>3 DEF clax_dispatch_tree, clax_dispatch_delete
    <2>. QED  BY <1>3, <2>1, SubmitFits DEF FsOps
  <1>4. CASE req.method = "POST"
    <2>1. conn' = clax_dispatch_upload(c, req, sys)
      BY <1>4 DEF clax_dispatch_tree
    <2>2. CASE ~sys.mkdir
      BY <1>1, <2>1, <2>2, ReplyFits DEF clax_dispatch_upload, clax_dispatch_system_error
    <2>3. CASE sys.mkdir /\ req.type = "folder"
      <3>1. Warranted(c)
        BY <2>3 DEF Warranted
      <3>. QED  BY <1>1, <2>1, <2>3, <3>1, ReplyFits DEF clax_dispatch_upload
    <2>4. CASE sys.mkdir /\ req.type # "folder" /\ c.body_tmpfile
      <3>1. conn' = Submit(c, "copy")
        BY <1>1, <2>1, <2>4 DEF clax_dispatch_upload
      <3>. QED  BY <2>4, <3>1, SubmitFits DEF FsOps
    <2>5. CASE sys.mkdir /\ req.type # "folder" /\ ~c.body_tmpfile
      <3>1. conn' = clax_dispatch_upload_(c, req, sys, TRUE)
        BY <1>1, <2>1, <2>5 DEF clax_dispatch_upload, UploadEmpty
      <3>2. Warranted(c)
        BY DEF Warranted, NoForms, Kept, HasBody, Regular
      <3>3. CASE req.crc
        <4>1. conn' = Submit(c, "crc_upload")
          BY <1>1, <3>1, <3>3 DEF clax_dispatch_upload_
        <4>. QED  BY <4>1, SubmitFits DEF FsOps
      <3>4. CASE ~req.crc
        BY <1>1, <3>1, <3>2, <3>4, ReplyFits DEF clax_dispatch_upload_
      <3>. QED  BY <3>3, <3>4
    <2>. QED  BY <2>2, <2>3, <2>4, <2>5
  <1>. QED  BY <1>2, <1>3, <1>4

\* The handler of /command: a refusal, or a command that runs.
LEMMA CommandFits ==
  ASSUME req' = req, unread' = << >>, printed' = 0,
         NEW c, Ready(c), c.fs = NoOps, ~c.body_handle,
         NEW sys \in SysResult, Fine(sys),
         conn' = clax_dispatch_command(c, req, sys)
  PROVE  Fits'
  <1>1. sys.submit /\ sys.spawn \in {"ok", "failed"}
    BY DEF Fine, SysResult
  <1>2. CASE ~req.command
    BY <1>1, <1>2, ReplyFits DEF clax_dispatch_command, clax_dispatch_bad_request
  <1>3. CASE req.command /\ sys.spawn = "failed"
    BY <1>1, <1>3, ReplyFits DEF clax_dispatch_command, clax_dispatch_system_error
  <1>4. CASE req.command /\ sys.spawn = "ok"
    <2> DEFINE a == [c EXCEPT !.process = "running", !.pipe = "open"]
               b == clax_http_response_status(a, 200)
               h == clax_http_write_response_headers(clax_http_response_header(b, "chunked"))
               w == c.wire
               v == conn'.wire
               s == 200
    <2>1. conn' = h
      BY <1>4 DEF clax_dispatch_command
    <2>2. /\ Live(c) /\ ~c.finalized /\ c.headers = {} /\ ~c.stale /\ Interim(w) /\ c.writes <= Len(w)
          /\ ~c.fs_open /\ Calm(c) /\ c.writes \in Nat
      BY DEF Ready, Unbegun, Live, Good, Ctx
    <2>3. /\ Live(b) /\ ~b.finalized /\ b.headers = {} /\ ~b.stale /\ b.wire = w /\ b.writes = c.writes
          /\ ~b.fs_open /\ b.process = "running" /\ b.output = 0
          /\ b.fs = c.fs /\ b.status_code = s
      <3>1. /\ Live(a) /\ ~a.finalized /\ a.headers = {} /\ ~a.stale /\ a.wire = w
            /\ a.writes = c.writes /\ ~a.fs_open /\ a.process = "running" /\ a.output = 0
            /\ a.fs = c.fs
        BY <2>2 DEF Live, Good, Ctx, Calm
      <3>. HIDE DEF a
      <3>2. b = [a EXCEPT !.status_code = s]
        BY DEF clax_http_response_status
      <3>. HIDE DEF b, w
      <3>3. s \in Nat /\ a \in Ctx
        BY <3>1 DEF Live, Good
      <3>. HIDE DEF s
      <3>4. /\ b \in Ctx /\ b.ctx = a.ctx /\ b.to_write = a.to_write /\ b.writes = a.writes
            /\ b.refuse_at = a.refuse_at /\ b.refused = a.refused
        BY <3>2, <3>3 DEF Ctx
      <3>5. /\ ~b.finalized /\ b.headers = {} /\ ~b.stale /\ b.wire = w
            /\ ~b.fs_open /\ b.process = "running" /\ b.output = 0
            /\ b.fs = c.fs /\ b.status_code = s
        BY <3>1, <3>2, <3>3 DEF Ctx
      <3>. QED  BY <3>1, <3>4, <3>5 DEF Live, Good
    <2>. HIDE DEF b
    <2>4. s \in Nat \ {100} /\ s # 204
      OBVIOUS
    <2>5. /\ Live(h) /\ Frame(b, h) /\ h.fs = b.fs /\ h.fs_open = b.fs_open
          /\ h.finalized = b.finalized
          /\ h.wire = Append(b.wire, HeadPiece(b.status_code, {"chunked"})) /\ h.writes = b.writes + 1
      <3>1. "chunked" \in Framing
        BY DEF Framing
      <3>. HIDE DEF v, w, s
      <3>. QED  BY <2>3, <3>1, HeadersIs
    <2>. HIDE DEF h
    <2>6. v = Append(w, HeadPiece(s, {"chunked"}))
      BY <2>1, <2>3, <2>5
    <2>. HIDE DEF v, w, s
    <2>15. Announces(w, v, s)
      BY <2>6 DEF Announces
    <2>7. /\ v \in Seq(Piece) /\ WireOK(v) /\ NoTrailer(v) /\ Chunks(v) = {}
      BY <2>2, <2>4, <2>15, WireChunked
    <2>8. Announced(v) /\ \A i \in DOMAIN v : v[i].status \in {100, s}
      BY <2>2, <2>4, <2>15, WireChunked
    <2>9. /\ Live(conn') /\ ~conn'.stale /\ ~conn'.finalized /\ conn'.fs = NoOps /\ ~conn'.fs_open
          /\ conn'.process = "running" /\ conn'.output = 0
      BY <2>1, <2>3, <2>5 DEF Frame
    <2>10. conn'.writes <= Len(v)
      <3>1. w \in Seq(Piece) /\ HeadPiece(s, {"chunked"}) \in Piece
        BY <2>2, <2>4, InterimOpen DEF HeadPiece, Piece, Framing
      <3>2. Len(v) = Len(w) + 1 /\ Len(w) \in Nat
        BY <2>6, <3>1
      <3>3. conn'.writes = c.writes + 1
        BY <2>1, <2>3, <2>5
      <3>. QED  BY <2>2, <3>2, <3>3
    <2>11. ~Complete(v)
      BY <2>7, <2>8, AnnouncedOpen
    <2>12. Written'
      BY <2>7, <2>9, <2>10, <2>11, WrittenNext DEF v
    <2>13. OutputComplete' /\ (NoForms => UploadStored)'
      BY <2>4, <2>7, <2>8, NoTrailerNext, StoredNext DEF v
    <2>14. Running'
      <3>1. Announced(conn.wire)' /\ Chunks(conn.wire)' = {}
        BY <2>7, <2>8 DEF Announced, Chunks, v
      <3>2. IsFiniteSet({}) /\ Cardinality({}) = 0
        BY FS_EmptySet
      <3>3. Live(conn)'
        BY <2>9 DEF Live, Good
      <3>4. /\ IsFiniteSet(Chunks(conn'.wire))
            /\ Cardinality(Chunks(conn'.wire)) + conn'.output = printed'
        BY <2>7, <2>9, <3>2 DEF v
      <3>. QED  BY <2>9, <3>1, <3>3, <3>4 DEF Running, NoOps, FsOps, Chunks
    <2>. QED  BY <2>9, <2>12, <2>13, <2>14 DEF Fits, Stage
  <1>. QED  BY <1>1, <1>2, <1>3, <1>4

\* The request is complete.
LEMMA DispatchFits ==
  ASSUME req' = req, unread' = << >>, printed' = 0, req \in Requests,
         NEW c, Ready(c), c.fs = NoOps, ~c.body_handle,
         Kept => c.body_tmpfile, c.body_tmpfile => c.to_read = 0,
         Regular(req), NEW sys \in SysResult, Fine(sys),
         conn' = clax_dispatch(c, req, sys)
  PROVE  Fits'
  <1>1. /\ sys.submit /\ ~c.continue_expected
        /\ req.path \in Paths /\ req.method \in Methods /\ req.pieces \in Nat
    BY RequestsAssumption DEF Fine, Ready, Unbegun, Request
  <1>2. CASE req.path = "other"
    BY <1>1, <1>2, ReplyFits DEF clax_dispatch, clax_dispatch_not_found
  <1>3. CASE req.path # "other" /\ req.method \notin clax_dispatcher_actions[req.path]
    BY <1>1, <1>3, ReplyFits DEF clax_dispatch, clax_dispatch_method_not_allowed
  <1>4. CASE req.path # "other" /\ req.method \in clax_dispatcher_actions[req.path]
    <2>1. conn' = Handler(c, req, sys)
      BY <1>1, <1>4 DEF clax_dispatch
    <2>2. CASE req.path = "/"
      BY <1>1, <2>1, <2>2, ReplyFits DEF Handler, clax_dispatch_index
    <2>3. CASE req.path = "/command"
      BY <2>1, <2>3, CommandFits DEF Handler
    <2>4. CASE req.path = "/tree/"
      <3>1. req.method \in {"HEAD", "GET", "POST", "DELETE"}
        BY <1>4, <2>4 DEF clax_dispatcher_actions, Paths
      <3>2. conn' = clax_dispatch_tree(c, req, sys)
        BY <2>1, <2>4 DEF Handler
      <3>. QED  BY <1>1, <2>4, <3>1, <3>2, TreeFits
    <2>. QED  BY <1>1, <1>4, <2>2, <2>3, <2>4 DEF Paths
  <1>. QED  BY <1>2, <1>3, <1>4

-----------------------------------------------------------------------------
(* The callbacks of file operations.                                       *)

\* The only operation is done.
LEMMA OnlyDone == ASSUME NEW k \in FsOps PROVE [Only(k) EXCEPT ![k] = @ - 1] = NoOps
  <1> DEFINE f == [Only(k) EXCEPT ![k] = @ - 1]
  <1>1. ASSUME NEW j \in FsOps PROVE f[j] = 0
    <2>1. CASE j = k
      BY <2>1 DEF Only
    <2>2. CASE j # k
      BY <2>2 DEF Only
    <2>. QED  BY <2>1, <2>2
  <1>2. f = [j \in FsOps |-> f[j]]
    BY DEF Only
  <1>. QED  BY <1>1, <1>2, Zenon DEF NoOps

\* When an operation other than a read is done, the response can begin.
LEMMA DoneReady ==
  ASSUME SInv, NEW k \in FsOps \ {"read"}, NEW d, FsDone(k, d)
  PROVE  LET c == Done(k)
         IN  /\ req' = req /\ unread' = << >> /\ printed' = 0 /\ conn' = d
             /\ Ready(c) /\ c.fs = NoOps
             /\ Kept => c.body_tmpfile
             /\ k \in {"body_close", "copy"} => c.to_read = 0
             /\ k # "body_close" => req.path = "/tree/"
             /\ k = "unlink" => req.method # "POST"
             /\ c.body_handle <=> k = "crc_download"
  <1> DEFINE c == Done(k)
  <1>1. conn.fs[k] > 0 /\ req' = req /\ unread' = unread /\ printed' = printed
    BY DEF FsDone
  <1>2. Working
    <2>1. conn.fs # NoOps
      BY <1>1 DEF NoOps
    <2>2. ~Beginning
      BY <2>1 DEF Beginning, clax_ctx_init, NoOps
    <2>3. ~Sending
      BY <1>1 DEF Sending, Only
    <2>. QED  BY <2>1, <2>2, <2>3 DEF SInv, Fits, Stage, Receiving, Running, Ended
  <1>3. /\ conn.fs = Only(k) /\ unread = << >> /\ Ready(conn) /\ printed = 0
        /\ Kept => conn.body_tmpfile
        /\ k \in {"body_close", "copy"} => conn.to_read = 0
        /\ k # "body_close" => req.path = "/tree/"
        /\ k = "unlink" => req.method # "POST"
        /\ conn.body_handle <=> k = "crc_download"
    <2>1. ASSUME NEW h \in FsOps \ {"read"}, conn.fs = Only(h) PROVE h = k
      BY <1>1, <2>1 DEF Only
    <2>. QED  BY <1>2, <2>1 DEF Working
  <1>4. conn \in Ctx /\ conn.ctx = "live"
    BY <1>3 DEF Ready, Unbegun, Live, Good
  <1>5. c = [conn EXCEPT !.fs = [Only(k) EXCEPT ![k] = @ - 1]]
    BY <1>3 DEF Done
  <1>6. [Only(k) EXCEPT ![k] = @ - 1] = NoOps /\ NoOps \in [FsOps -> Nat]
    BY OnlyDone DEF NoOps
  <1>7. c = [conn EXCEPT !.fs = NoOps]
    BY <1>5, <1>6
  <1>. HIDE DEF c
  <1>8. /\ c.fs = NoOps /\ Frame(conn, c)
        /\ c.continue_expected = conn.continue_expected /\ c.headers = conn.headers
        /\ c.has_body = conn.has_body /\ c.body_handle = conn.body_handle
        /\ c.fs_open = conn.fs_open /\ c.finalized = conn.finalized
        /\ c.wire = conn.wire /\ c.writes = conn.writes /\ c.to_write = conn.to_write
        /\ c.refused = conn.refused
    BY <1>4, <1>7 DEF Ctx, Frame
  <1>9. c \in Ctx
    BY <1>4, <1>6, <1>7 DEF Ctx
  <1>10. Ready(c)
    BY <1>3, <1>8, <1>9 DEF Ready, Unbegun, Live, Good, Calm, Frame
  <1>11. conn' = d
    BY <1>4, <1>8 DEF FsDone, Becomes, OnLive, Frame, c
  <1>12. c.to_read = conn.to_read /\ c.body_tmpfile = conn.body_tmpfile
    BY <1>8 DEF Frame
  <1>. QED  BY <1>1, <1>3, <1>8, <1>10, <1>11, <1>12 DEF c

\* What Patient says of this request and these system calls.
LEMMA Allowed ==
  ASSUME Patient, SInv
  PROVE  /\ req \in Requests /\ Regular(req)
         /\ \A sys \in SysResults : sys \in SysResult /\ Fine(sys) /\ sys.submit
  BY SysResultsAssumption DEF Patient, SInv, IInv, TypeOK, Fine

\* The temporary file of the body is closed: the request is dispatched.
LEMMA BodyClosedFits == ASSUME Patient, SInv, clax_http_request_body_closed_cb PROVE Fits'
  <1> DEFINE c == Done("body_close")
  <1>1. PICK sys \in SysResults : FsDone("body_close", clax_dispatch(c, req, sys))
    BY DEF clax_http_request_body_closed_cb, clax_http_request_done_cb
  <1>2. /\ req' = req /\ unread' = << >> /\ printed' = 0 /\ conn' = clax_dispatch(c, req, sys)
        /\ Ready(c) /\ c.fs = NoOps /\ (Kept => c.body_tmpfile) /\ c.to_read = 0 /\ ~c.body_handle
    BY <1>1, DoneReady DEF FsOps
  <1>. HIDE DEF c
  <1>. QED  BY <1>2, Allowed, DispatchFits

\* A file is deleted, or is not.
LEMMA UnlinkedFits == ASSUME Patient, SInv, Unlinked PROVE Fits'
  <1> DEFINE c == Done("unlink")
  <1>1. PICK sys \in SysResults, res \in {"ok", "missing", "failed"} :
          FsDone("unlink", clax_dispatch_delete_(c, req, sys, res))
    BY DEF Unlinked
  <1>2. /\ req' = req /\ unread' = << >> /\ printed' = 0
        /\ conn' = clax_dispatch_delete_(c, req, sys, res)
        /\ Ready(c) /\ c.fs = NoOps /\ req.method # "POST"
    BY <1>1, DoneReady DEF FsOps
  <1>. HIDE DEF c
  <1>3. Warranted(c)
    BY <1>2 DEF Warranted
  <1>. QED  BY <1>2, <1>3, Allowed, ReplyFits
            DEF clax_dispatch_delete_, clax_dispatch_not_found, clax_dispatch_system_error

\* A download knows what its path is.
LEMMA StattedFits == ASSUME Patient, SInv, Statted PROVE Fits'
  <1> DEFINE c == Done("stat")
  <1>1. PICK sys \in SysResults, res \in {"file", "dir", "special", "missing"} :
          FsDone("stat", DownloadStat(c, req, sys, res))
    BY DEF Statted
  <1>2. /\ req' = req /\ unread' = << >> /\ printed' = 0
        /\ conn' = DownloadStat(c, req, sys, res)
        /\ Ready(c) /\ c.fs = NoOps /\ (Kept => c.body_tmpfile) /\ req.path = "/tree/" /\ ~c.body_handle
    BY <1>1, DoneReady DEF FsOps
  <1>. HIDE DEF c
  <1>3. CASE res = "file"
    <2>1. conn' = Submit(c, "open")
      BY <1>2, <1>3, Allowed DEF DownloadStat
    <2>. QED  BY <1>2, <2>1, SubmitFits DEF FsOps
  <1>4. CASE res # "file"
    BY <1>2, <1>4, Allowed, ReplyFits
       DEF DownloadStat, clax_dispatch_not_found, clax_dispatch_bad_request
  <1>. QED  BY <1>3, <1>4

\* The file of a download is open, or is not.
LEMMA OpenedFits == ASSUME Patient, SInv, Opened PROVE Fits'
  <1> DEFINE c == Done("open")
             d == [c EXCEPT !.body_handle = TRUE, !.fs_open = TRUE]
  <1>1. PICK sys \in SysResults, ok \in Outcomes : FsDone("open", DownloadOpen(c, req, sys, ok))
    BY DEF Opened
  <1>2. /\ req' = req /\ unread' = << >> /\ printed' = 0 /\ conn' = DownloadOpen(c, req, sys, ok)
        /\ Ready(c) /\ c.fs = NoOps /\ (Kept => c.body_tmpfile) /\ req.path = "/tree/"
    BY <1>1, DoneReady DEF FsOps
  <1>. HIDE DEF c
  <1>3. CASE ok
    <2>1. conn' = Submit(d, "crc_download")
      BY <1>2, <1>3, Allowed DEF DownloadOpen
    <2>2. Ready(d) /\ d.fs = NoOps /\ (Kept => d.body_tmpfile) /\ d.body_handle
      BY <1>2 DEF Ready, Unbegun, Live, Good, Ctx, Calm
    <2>. HIDE DEF d
    <2>. QED  BY <1>2, <2>1, <2>2, SubmitFits DEF FsOps
  <1>4. CASE ~ok
    BY <1>2, <1>4, Allowed, ReplyFits DEF DownloadOpen, clax_dispatch_system_error
  <1>. QED  BY <1>3, <1>4

\* The checksum of a download is known: the response begins.
LEMMA CheckedFits == ASSUME Patient, SInv, DownloadChecked PROVE Fits'
  <1> DEFINE c == Done("crc_download")
  <1>1. PICK sys \in SysResults, ok \in Outcomes :
          FsDone("crc_download", clax_dispatch_download_crc32_(c, req, sys, ok))
    BY DEF DownloadChecked
  <1>2. /\ req' = req /\ unread' = << >> /\ printed' = 0
        /\ conn' = clax_dispatch_download_crc32_(c, req, sys, ok)
        /\ Ready(c) /\ c.fs = NoOps
    BY <1>1, DoneReady DEF FsOps
  <1>. HIDE DEF c
  <1>. QED  BY <1>2, Allowed, ReplyFits
            DEF clax_dispatch_download_crc32_, clax_dispatch_system_error

\* An upload is in its place.
LEMMA CopiedFits == ASSUME Patient, SInv, Copied PROVE Fits'
  <1> DEFINE c == Done("copy")
  <1>1. PICK sys \in SysResults, ok \in Outcomes :
          FsDone("copy", clax_dispatch_upload_(c, req, sys, ok))
    BY DEF Copied
  <1>2. /\ req' = req /\ unread' = << >> /\ printed' = 0
        /\ conn' = clax_dispatch_upload_(c, req, sys, ok)
        /\ Ready(c) /\ c.fs = NoOps /\ (Kept => c.body_tmpfile) /\ req.path = "/tree/"
        /\ ~c.body_handle
    BY <1>1, DoneReady DEF FsOps
  <1>. HIDE DEF c
  <1>3. Warranted(c)
    BY <1>2, Allowed DEF Warranted, NoForms, Kept, HasBody, Regular
  <1>4. CASE ok /\ req.crc
    <2>1. conn' = Submit(c, "crc_upload")
      BY <1>2, <1>4, Allowed DEF clax_dispatch_upload_
    <2>. QED  BY <1>2, <2>1, SubmitFits DEF FsOps
  <1>5. CASE ok /\ ~req.crc
    BY <1>2, <1>3, <1>5, Allowed, ReplyFits DEF clax_dispatch_upload_
  <1>6. CASE ~ok
    BY <1>2, <1>6, Allowed, ReplyFits DEF clax_dispatch_upload_, clax_dispatch_system_error
  <1>. QED  BY <1>4, <1>5, <1>6

\* The checksum of an upload is known.
LEMMA UploadCheckedFits == ASSUME Patient, SInv, UploadChecked PROVE Fits'
  <1> DEFINE c == Done("crc_upload")
  <1>1. PICK sys \in SysResults, res \in {"match", "mismatch", "failed"} :
          FsDone("crc_upload", clax_dispatch_upload_crc32_(c, req, sys, res))
    BY DEF UploadChecked
  <1>2. /\ req' = req /\ unread' = << >> /\ printed' = 0
        /\ conn' = clax_dispatch_upload_crc32_(c, req, sys, res)
        /\ Ready(c) /\ c.fs = NoOps /\ (Kept => c.body_tmpfile) /\ req.path = "/tree/"
        /\ ~c.body_handle
    BY <1>1, DoneReady DEF FsOps
  <1>. HIDE DEF c
  <1>3. Warranted(c)
    BY <1>2, Allowed DEF Warranted, NoForms, Kept, HasBody, Regular
  <1>4. CASE res = "mismatch"
    <2>1. conn' = Submit(c, "unlink_bad")
      BY <1>2, <1>4, Allowed DEF clax_dispatch_upload_crc32_
    <2>. QED  BY <1>2, <2>1, SubmitFits DEF FsOps
  <1>5. CASE res # "mismatch"
    BY <1>2, <1>3, <1>5, Allowed, ReplyFits
       DEF clax_dispatch_upload_crc32_, clax_dispatch_system_error
  <1>. QED  BY <1>4, <1>5

\* A bad upload is deleted.
LEMMA BadUnlinkedFits == ASSUME Patient, SInv, BadUnlinked PROVE Fits'
  <1> DEFINE c == Done("unlink_bad")
  <1>1. PICK sys \in SysResults, ok \in Outcomes :
          FsDone("unlink_bad", clax_dispatch_upload_crc32_invalid_(c, req, sys, ok))
    BY DEF BadUnlinked
  <1>2. /\ req' = req /\ unread' = << >> /\ printed' = 0
        /\ conn' = clax_dispatch_upload_crc32_invalid_(c, req, sys, ok)
        /\ Ready(c) /\ c.fs = NoOps
    BY <1>1, DoneReady DEF FsOps
  <1>. HIDE DEF c
  <1>. QED  BY <1>2, Allowed, ReplyFits
            DEF clax_dispatch_upload_crc32_invalid_, clax_dispatch_system_error

\* The read loop: a chunk and the next read, or the end of the body.
LEMMA FileReadFits == ASSUME Patient, SInv, FileRead PROVE Fits'
  <1> DEFINE c == Done("read")
  <1>1. PICK sys \in SysResults, n \in {"eof", "failed", "data"} :
          FsDone("read", clax_http_write_response_handle_(c, n, sys))
    BY DEF FileRead
  <1>2. /\ conn.fs["read"] > 0 /\ req' = req /\ unread' = unread /\ printed' = printed
        /\ sys.submit /\ "read" \in FsOps
    BY <1>1, Allowed DEF FsDone, FsOps
  <1>3. Sending
    <2>1. conn.fs # NoOps
      BY <1>2 DEF NoOps
    <2>2. ~Beginning
      BY <2>1 DEF Beginning, clax_ctx_init, NoOps
    <2>3. ASSUME NEW k \in FsOps \ {"read"}, conn.fs = Only(k) PROVE FALSE
      <3>1. Only(k)["read"] = 0
        BY <1>2 DEF Only
      <3>. QED  BY <1>2, <2>3, <3>1
    <2>4. ~Working
      BY <2>3 DEF Working
    <2>. QED  BY <2>1, <2>2, <2>4 DEF SInv, Fits, Stage, Receiving, Running, Ended
  <1>4. /\ unread = << >> /\ Live(conn) /\ ~conn.finalized /\ Calm(conn) /\ printed = 0
        /\ Announced(conn.wire) /\ conn.fs = Only("read") /\ req.method # "HEAD" /\ ~conn.stale
        /\ WireOK(conn.wire) /\ conn.writes <= Len(conn.wire) /\ conn.wire \in Seq(Piece) /\ conn.writes \in Nat
        /\ OutputComplete /\ (NoForms => UploadStored)
    BY <1>3 DEF Sending, SInv, Fits, Written, Live, Good, Ctx
  <1>5. /\ Live(c) /\ Frame(conn, c) /\ c.fs = NoOps /\ c.wire = conn.wire /\ c.writes = conn.writes
        /\ c.finalized = conn.finalized
    <2>1. [Only("read") EXCEPT !["read"] = @ - 1] = NoOps /\ NoOps \in [FsOps -> Nat]
      BY OnlyDone, <1>2 DEF NoOps
    <2>2. c = [conn EXCEPT !.fs = NoOps]
      BY <1>4, <2>1 DEF Done
    <2>. HIDE DEF c
    <2>. QED  BY <1>4, <2>1, <2>2 DEF Live, Good, Ctx, Frame
  <1>. HIDE DEF c
  <1>6. conn' = clax_http_write_response_handle_(c, n, sys)
    BY <1>1, <1>5 DEF FsDone, Becomes, OnLive, Live, c
  <1>7. conn \in Ctx /\ Written /\ ~c.stale /\ Calm(c) /\ c.body_tmpfile = conn.body_tmpfile
    BY <1>4, <1>5 DEF Live, Good, SInv, Fits, Frame, Calm
  <1>8. CASE n = "data"
    <2> DEFINE d == clax_http_push_response(c, "chunk")
               e == Submit(d, "read")
    <2>1. /\ Live(d) /\ Rest(c, d) /\ d.finalized = c.finalized
          /\ d.wire = Append(c.wire, BodyPiece("chunk")) /\ d.writes = c.writes + 1
      BY <1>5, PushIs
    <2>2. conn' = e
      BY <1>2, <1>6, <1>8 DEF clax_http_write_response_handle_, clax_http_read_response_handle_chunk
    <2>. HIDE DEF d
    <2>3. /\ Live(e) /\ Frame(d, e) /\ e.fs = [d.fs EXCEPT !["read"] = @ + 1]
          /\ e.finalized = d.finalized /\ e.wire = d.wire /\ e.writes = d.writes
      BY <1>2, <2>1, SubmitIs
    <2>. HIDE DEF e
    <2>4. /\ Live(conn') /\ ~conn'.finalized /\ conn'.body_tmpfile = conn.body_tmpfile
          /\ ~conn'.stale /\ Calm(conn')
          /\ conn'.wire = Append(conn.wire, BodyPiece("chunk")) /\ conn'.writes = conn.writes + 1
      BY <1>4, <1>5, <1>7, <2>1, <2>2, <2>3 DEF Rest, Frame, Calm
    <2>5. conn'.fs = Only("read")
      <3>1. d.fs = NoOps
        BY <1>5, <2>1 DEF Rest
      <3>. QED  BY <2>2, <2>3, <3>1 DEF NoOps, Only
    <2> DEFINE p == "chunk"
    <2>6. /\ p \in {"chunk", "last", "trailer"} /\ p = "chunk"
          /\ conn'.wire = Append(conn.wire, BodyPiece(p)) /\ (conn'.finalized <=> p # "chunk")
      BY <2>4
    <2>. HIDE DEF p
    <2>7. Written' /\ (NoForms => UploadStored)' /\ OutputComplete' /\ Announced(conn'.wire)
      BY <1>2, <1>4, <1>7, <2>4, <2>6, PushFits
    <2>8. Sending'
      <3>1. Announced(conn.wire)' /\ Live(conn)' /\ Calm(conn)'
        BY <2>4, <2>7 DEF Announced, Live, Good, Calm
      <3>. QED  BY <1>2, <1>4, <2>4, <2>5, <3>1 DEF Sending, Only, FsOps
    <2>. QED  BY <2>4, <2>7, <2>8 DEF Fits, Stage
  <1>9. CASE n # "data"
    <2> DEFINE d == IF n = "eof" THEN [c EXCEPT !.fs_open = FALSE] ELSE c
               e == clax_http_push_response(d, "last")
    <2>1. /\ Live(d) /\ Frame(c, d) /\ d.fs = c.fs /\ d.wire = c.wire /\ d.writes = c.writes
          /\ d.finalized = c.finalized
      <3>1. CASE n = "eof"
        BY <1>5, <3>1 DEF Live, Good, Ctx, Frame
      <3>2. CASE n # "eof"
        BY <1>5, <3>2 DEF Frame
      <3>. QED  BY <3>1, <3>2
    <2>2. conn' = e
      BY <1>6, <1>9 DEF clax_http_write_response_handle_
    <2>. HIDE DEF d
    <2>3. /\ Live(e) /\ Rest(d, e) /\ e.finalized
          /\ e.wire = Append(d.wire, BodyPiece("last")) /\ e.writes = d.writes + 1
      BY <2>1, PushIs
    <2>. HIDE DEF e
    <2>4. /\ Live(conn') /\ conn'.finalized /\ conn'.body_tmpfile = conn.body_tmpfile
          /\ ~conn'.stale /\ Calm(conn') /\ conn'.fs = NoOps
          /\ conn'.wire = Append(conn.wire, BodyPiece("last")) /\ conn'.writes = conn.writes + 1
      BY <1>5, <1>7, <2>1, <2>2, <2>3 DEF Rest, Frame, Calm
    <2> DEFINE p == "last"
    <2>5. /\ p \in {"chunk", "last", "trailer"} /\ p # "trailer"
          /\ conn'.wire = Append(conn.wire, BodyPiece(p)) /\ (conn'.finalized <=> p # "chunk")
      BY <2>4
    <2>. HIDE DEF p
    <2>6. Written' /\ (NoForms => UploadStored)' /\ OutputComplete'
      BY <1>2, <1>4, <1>7, <2>4, <2>5, PushFits
    <2>7. Ended'
      BY <1>2, <1>4, <2>4 DEF Ended, Calm, NoOps, FsOps
    <2>. QED  BY <2>4, <2>6, <2>7 DEF Fits, Stage
  <1>. QED  BY <1>8, <1>9

\* Every callback of a file operation.
LEMMA FileFits == ASSUME Patient, SInv, FileStep PROVE Fits'
  BY BodyClosedFits, UnlinkedFits, StattedFits, OpenedFits, CheckedFits, FileReadFits,
     CopiedFits, UploadCheckedFits, BadUnlinkedFits DEF FileStep

-----------------------------------------------------------------------------
(* The child process of a command.                                         *)

\* A child runs in one stage only.
LEMMA OnlyRunning ==
  ASSUME SInv, conn.process \notin {"none", "gone"} \/ conn.output > 0 PROVE Running
  BY DEF SInv, Fits, Stage, Beginning, clax_ctx_init, Receiving, Working, Sending, Ended, Ready, Calm

\* What is written stays as it is.
LEMMA SameWire ==
  ASSUME SInv, req' = req, conn'.wire = conn.wire, conn'.writes = conn.writes,
         conn'.finalized = conn.finalized, conn'.ctx = conn.ctx,
         conn'.body_tmpfile = conn.body_tmpfile
  PROVE  /\ Written' /\ (NoForms => UploadStored)'
         /\ printed' = printed \/ Announced(conn.wire) => OutputComplete'
  <1>1. Written
    BY DEF SInv, Fits
  <1>2. Written'
    <2>1. WireOK(conn'.wire) /\ (conn'.finalized <=> Complete(conn'.wire))
      BY <1>1 DEF Written, EndedWhenComplete, Complete
    <2>2. /\ conn'.writes <= Len(conn'.wire)
          /\ conn'.ctx = "live" /\ conn'.finalized => conn'.writes > 0
      BY <1>1 DEF Written
    <2>. QED  BY <2>1, <2>2, WrittenNext
  <1>3. (NoForms => UploadStored)'
    BY DEF SInv, Fits, NoForms, UploadStored
  <1>4. ASSUME printed' = printed PROVE OutputComplete'
    BY <1>4 DEF SInv, Fits, OutputComplete
  <1>5. ASSUME Announced(conn.wire) PROVE OutputComplete'
    <2>1. NoTrailer(conn.wire)
      BY <1>1, <1>5, AnnouncedOpen DEF Written, SInv, IInv, TypeOK, Ctx
    <2>. QED  BY <2>1, NoTrailerNext
  <1>. QED  BY <1>2, <1>3, <1>4, <1>5

\* The child prints.
LEMMA PrintsFits == ASSUME SInv, ChildPrints PROVE Fits'
  <1>1. /\ conn.process = "running" /\ req' = req /\ unread' = unread /\ printed' = printed + 1
        /\ conn' = [conn EXCEPT !.output = @ + 1]
    BY DEF ChildPrints, Becomes
  <1>2. Running
    BY <1>1, OnlyRunning
  <1>3. Live(conn) /\ conn \in Ctx /\ ~conn.stale /\ conn.output \in Nat /\ printed \in Nat
    BY <1>2 DEF Running, Live, Good, SInv, Fits, Ctx, IInv, TypeOK
  <1> DEFINE n == conn.output + 1
  <1>8. n \in Nat /\ conn' = [conn EXCEPT !.output = n]
    BY <1>1, <1>3
  <1>. HIDE DEF n
  <1>4. /\ Live(conn')
        /\ conn'.output = n /\ conn'.process = "running"
        /\ conn'.wire = conn.wire /\ conn'.writes = conn.writes
        /\ conn'.finalized = conn.finalized /\ conn'.ctx = conn.ctx
        /\ conn'.body_tmpfile = conn.body_tmpfile /\ ~conn'.stale
        /\ conn'.fs = conn.fs /\ conn'.fs_open = conn.fs_open
    BY <1>1, <1>3, <1>8 DEF Live, Good, Ctx
  <1>5. Announced(conn.wire) /\ Cardinality(Chunks(conn.wire)) + conn.output = printed
        /\ IsFiniteSet(Chunks(conn.wire))
    BY <1>2 DEF Running
  <1>6. Cardinality(Chunks(conn.wire)) + conn'.output = printed'
    BY <1>1, <1>3, <1>4, <1>5, FS_CardinalityType DEF n
  <1>7. Running'
    BY <1>1, <1>2, <1>4, <1>6 DEF Running, Live, Good, Announced, Chunks, NoOps, FsOps
  <1>. QED  BY <1>1, <1>4, <1>5, <1>7, SameWire DEF Fits, Stage

\* The child ends, and that is reported when its output has been read.
LEMMA ExitsFits == ASSUME Patient, SInv, ChildExits \/ ExitReported PROVE Fits'
  <1> DEFINE p == IF conn.process = "running" THEN "exited" ELSE "closing"
  <1>1. /\ conn.process \in {"running", "exited"}
        /\ req' = req /\ unread' = unread /\ printed' = printed
        /\ conn' = [conn EXCEPT !.process = p]
        /\ p = "closing" => conn.output = 0
    BY DEF ChildExits, ExitReported, exit_cb, Becomes, Patient
  <1>2. Running
    BY <1>1, OnlyRunning
  <1>3. Live(conn) /\ conn \in Ctx /\ ~conn.stale
    BY <1>2 DEF Running, Live, Good, SInv, Fits
  <1>4. p \in {"exited", "closing"}
    OBVIOUS
  <1>. HIDE DEF p
  <1>5. /\ Live(conn')
        /\ conn'.output = conn.output /\ conn'.process = p
        /\ conn'.wire = conn.wire /\ conn'.writes = conn.writes
        /\ conn'.finalized = conn.finalized /\ conn'.ctx = conn.ctx
        /\ conn'.body_tmpfile = conn.body_tmpfile /\ ~conn'.stale
        /\ conn'.fs = conn.fs /\ conn'.fs_open = conn.fs_open
    BY <1>1, <1>3, <1>4 DEF Live, Good, Ctx
  <1>6. Running'
    BY <1>1, <1>2, <1>4, <1>5 DEF Running, Live, Good, Announced, Chunks, NoOps, FsOps
  <1>. QED  BY <1>1, <1>5, <1>6, SameWire DEF Fits, Stage

\* The pipe has ended.
LEMMA EofFits == ASSUME SInv, OutputEof PROVE Fits'
  <1>1. /\ conn.process \in {"exited", "closing", "gone"}
        /\ req' = req /\ unread' = unread /\ printed' = printed
        /\ conn' = [conn EXCEPT !.pipe = "closed"]
    BY DEF OutputEof, OnReadEof, Becomes
  <1>2. conn \in Ctx /\ ~conn.stale /\ Good(conn)
    BY IInvGood DEF SInv, Fits, Good
  <1>3. /\ Good(conn')
        /\ conn'.output = conn.output /\ conn'.process = conn.process
        /\ conn'.wire = conn.wire /\ conn'.writes = conn.writes
        /\ conn'.finalized = conn.finalized /\ conn'.ctx = conn.ctx
        /\ conn'.body_tmpfile = conn.body_tmpfile /\ ~conn'.stale
        /\ conn'.fs = conn.fs /\ conn'.fs_open = conn.fs_open
    BY <1>1, <1>2 DEF Good, Ctx
  <1>4. CASE Running
    <2>1. Running'
      BY <1>1, <1>3, <1>4 DEF Running, Live, Good, Announced, Chunks, NoOps, FsOps
    <2>. QED  BY <1>1, <1>3, <2>1, SameWire DEF Fits, Stage
  <1>5. CASE ~Running
    <2>1. Ended
      BY <1>1, <1>5
         DEF SInv, Fits, Stage, Beginning, clax_ctx_init, Receiving, Working, Sending, Ready, Calm
    <2>2. Ended'
      BY <1>1, <1>3, <2>1 DEF Ended, NoOps, FsOps
    <2>. QED  BY <1>1, <1>3, <2>2, SameWire DEF Fits, Stage
  <1>. QED  BY <1>4, <1>5

\* Output is passed on as a chunk.
LEMMA OutputReadFits == ASSUME SInv, OutputRead PROVE Fits'
  <1> DEFINE n == conn.output - 1
             c == [conn EXCEPT !.output = n]
             p == "chunk"
             d == clax_http_push_response(c, p)
  <1>1. conn.output > 0 /\ req' = req /\ unread' = unread /\ printed' = printed /\ conn' = on_read(conn)
    BY DEF OutputRead, Becomes
  <1>2. Running
    BY <1>1, OnlyRunning
  <1>3. /\ Live(conn) /\ conn \in Ctx /\ ~conn.stale /\ conn.output \in Nat /\ printed \in Nat
        /\ Announced(conn.wire) /\ Written /\ (NoForms => UploadStored)
    BY <1>2 DEF Running, Live, Good, SInv, Fits, Ctx, IInv, TypeOK
  <1>4. conn' = d
    BY <1>1, <1>2 DEF on_read, Running
  <1>5. p \in {"chunk", "last", "trailer"} /\ p = "chunk"
    OBVIOUS
  <1>13. n \in Nat /\ n = conn.output - 1
    BY <1>1, <1>3
  <1>. HIDE DEF p, n
  <1>6. /\ Live(c) /\ c.output = n /\ c.process = conn.process
        /\ c.wire = conn.wire /\ c.writes = conn.writes
        /\ c.finalized = conn.finalized /\ c.body_tmpfile = conn.body_tmpfile /\ ~c.stale
        /\ c.fs = conn.fs /\ c.fs_open = conn.fs_open
    BY <1>3, <1>13 DEF Live, Good, Ctx
  <1>. HIDE DEF c
  <1>7. /\ Live(d) /\ Rest(c, d) /\ d.finalized = c.finalized
        /\ d.wire = Append(c.wire, BodyPiece(p)) /\ d.writes = c.writes + 1
    BY <1>5, <1>6, PushIs
  <1>. HIDE DEF d
  <1>8. /\ Live(conn') /\ conn'.output = n /\ conn'.process = conn.process
        /\ conn'.finalized = conn.finalized /\ conn'.body_tmpfile = conn.body_tmpfile
        /\ ~conn'.stale /\ conn'.fs = conn.fs /\ conn'.fs_open = conn.fs_open
        /\ conn'.wire = Append(conn.wire, BodyPiece(p)) /\ conn'.writes = conn.writes + 1
    BY <1>4, <1>6, <1>7 DEF Rest, Frame
  <1>9. conn'.finalized <=> p # "chunk"
    BY <1>2, <1>5, <1>8 DEF Running
  <1>10. /\ Written' /\ (NoForms => UploadStored)' /\ OutputComplete' /\ Announced(conn'.wire)
         /\ Chunks(conn'.wire) = Chunks(conn.wire) \cup {Len(conn.wire) + 1}
         /\ Len(conn.wire) + 1 \notin Chunks(conn.wire)
    BY <1>1, <1>3, <1>5, <1>8, <1>9, PushFits
  <1>11. IsFiniteSet(Chunks(conn'.wire)) /\ Cardinality(Chunks(conn'.wire)) + conn'.output = printed'
    <2> DEFINE S == Chunks(conn.wire)
               T == Chunks(conn'.wire)
               m == Len(conn.wire) + 1
    <2>1. IsFiniteSet(S) /\ Cardinality(S) + conn.output = printed
      BY <1>2 DEF Running
    <2>2. T = S \cup {m} /\ m \notin S
      BY <1>10
    <2>. HIDE DEF S, T, m
    <2>3. IsFiniteSet(T) /\ Cardinality(T) = Cardinality(S) + 1 /\ Cardinality(S) \in Nat
      BY <2>1, <2>2, ChunkCount
    <2>4. conn'.output = conn.output - 1 /\ conn.output \in Nat /\ printed' = printed
      BY <1>1, <1>3, <1>8, <1>13
    <2>5. Cardinality(T) + conn'.output = printed'
      BY <2>1, <2>3, <2>4
    <2>. QED  BY <2>3, <2>5 DEF T
  <1>12. Running'
    <2>1. Announced(conn.wire)'
      BY <1>10 DEF Announced
    <2>2. /\ conn.process \in {"running", "exited"} /\ conn.fs = NoOps /\ ~conn.fs_open
          /\ ~conn.finalized /\ unread = << >>
      BY <1>1, <1>2 DEF Running
    <2>3. Live(conn)'
      BY <1>8 DEF Live, Good
    <2>. QED  BY <1>1, <1>8, <1>11, <2>1, <2>2, <2>3 DEF Running, Chunks, NoOps, FsOps
  <1>. QED  BY <1>8, <1>10, <1>12 DEF Fits, Stage

\* The trailers: everything printed has been written.
LEMMA ClosedFits == ASSUME SInv, ProcessClosed PROVE Fits'
  <1> DEFINE c == [conn EXCEPT !.process = "gone"]
             p == "trailer"
             d == clax_http_push_response(c, p)
  <1>1. /\ conn.process = "closing" /\ req' = req /\ unread' = unread /\ printed' = printed
        /\ conn' = d
    BY DEF ProcessClosed, Becomes, process_close_cb
  <1>2. Running
    BY <1>1, OnlyRunning
  <1>3. /\ Live(conn) /\ conn \in Ctx /\ ~conn.stale /\ conn.output = 0 /\ printed \in Nat
        /\ Announced(conn.wire) /\ Written /\ (NoForms => UploadStored)
    BY <1>1, <1>2 DEF Running, Live, Good, SInv, Fits, Ctx, IInv, TypeOK
  <1>4. p \in {"chunk", "last", "trailer"} /\ p # "chunk"
    OBVIOUS
  <1>. HIDE DEF p
  <1>5. /\ Live(c) /\ c.output = 0 /\ c.process = "gone"
        /\ c.wire = conn.wire /\ c.writes = conn.writes
        /\ c.finalized = conn.finalized /\ c.body_tmpfile = conn.body_tmpfile /\ ~c.stale
        /\ c.fs = conn.fs /\ c.fs_open = conn.fs_open
    BY <1>1, <1>3 DEF Live, Good, Ctx
  <1>. HIDE DEF c
  <1>6. /\ Live(d) /\ Rest(c, d) /\ d.finalized
        /\ d.wire = Append(c.wire, BodyPiece(p)) /\ d.writes = c.writes + 1
    BY <1>4, <1>5, PushIs
  <1>. HIDE DEF d
  <1>7. /\ conn'.output = 0 /\ conn'.process = "gone" /\ conn'.finalized
        /\ conn'.body_tmpfile = conn.body_tmpfile
        /\ ~conn'.stale /\ conn'.fs = conn.fs /\ conn'.fs_open = conn.fs_open
        /\ conn'.wire = Append(conn.wire, BodyPiece(p)) /\ conn'.writes = conn.writes + 1
    BY <1>1, <1>5, <1>6 DEF Rest, Frame
  <1>8. conn'.finalized <=> p # "chunk"
    BY <1>4, <1>7
  <1>9. Written' /\ (NoForms => UploadStored)' /\ Chunks(conn'.wire) = Chunks(conn.wire)
    BY <1>1, <1>3, <1>4, <1>7, <1>8, PushFits
  <1>10. OutputComplete'
    <2>1. Cardinality(Chunks(conn.wire)) = printed
      <3>1. /\ IsFiniteSet(Chunks(conn.wire))
            /\ Cardinality(Chunks(conn.wire)) + conn.output = printed
        BY <1>2 DEF Running
      <3>2. Cardinality(Chunks(conn.wire)) \in Nat
        BY <3>1, FS_CardinalityType
      <3>. QED  BY <1>3, <3>1, <3>2
    <2>2. Cardinality(Chunks(conn'.wire)) = printed'
      BY <1>1, <1>9, <2>1
    <2>. QED  BY <2>2 DEF OutputComplete, Chunks
  <1>11. Ended'
    BY <1>1, <1>2, <1>7 DEF Ended, Running, NoOps, FsOps
  <1>. QED  BY <1>7, <1>9, <1>10, <1>11 DEF Fits, Stage

\* Every step of a command keeps the stage.
LEMMA CommandFitsAll == ASSUME Patient, SInv, CommandStep \/ ChildExits \/ ChildPrints PROVE Fits'
  BY PrintsFits, ExitsFits, EofFits, OutputReadFits, ClosedFits DEF CommandStep

-----------------------------------------------------------------------------
(* A write is done.  It closes the connection only when the response has   *)
(* ended, which is the last stage.                                         *)
\* The end of a write counts, and may close the connection; it changes nothing else.
LEMMA WriteFinishedIs ==
  ASSUME SInv, WriteFinished
  PROVE  /\ conn.ctx = "live" /\ closed_by = "none" /\ conn.writes \in Nat \ {0}
         /\ conn'.stale = conn.stale /\ conn'.body_tmpfile = conn.body_tmpfile
         /\ conn'.to_read = conn.to_read /\ conn'.process = conn.process
         /\ conn'.output = conn.output /\ conn'.pipe = conn.pipe
         /\ conn'.continue_expected = conn.continue_expected /\ conn'.headers = conn.headers
         /\ conn'.body_handle = conn.body_handle /\ conn'.fs_open = conn.fs_open
         /\ conn'.fs = conn.fs /\ conn'.finalized = conn.finalized /\ conn'.wire = conn.wire
         /\ conn'.writes = conn.writes - 1
         /\ ~conn.finalized => Live(conn')
         /\ conn'.ctx = "live" /\ conn'.finalized => conn'.writes > 0
  <1> DEFINE n == conn.writes - 1
             d == [conn EXCEPT !.to_write = n, !.writes = n]
  <1>1. /\ conn.writes > 0 /\ req' = req /\ unread' = unread /\ printed' = printed
        /\ conn' = clax_conn_write_finished_cb(conn)
    BY DEF WriteFinished, Becomes
  <1>2. /\ conn \in Ctx /\ Good(conn) /\ ~conn.stale /\ Written /\ Stage
        /\ conn.refuse_at = -1 /\ ~conn.refused
    BY IInvGood, NotRefused DEF Good, SInv, Fits
  <1>3. conn.ctx = "live" /\ conn.to_write = conn.writes
    <2>1. closed_by # "write"
      BY <1>1, NotRefused DEF SInv, IInv, ClosedFlushed
    <2>. QED  BY <1>2, <2>1 DEF SInv, IInv, Good
  <1>4. n \in Nat /\ n \in Int /\ n = conn.writes - 1 /\ conn.writes \in Nat
    BY <1>1, <1>2 DEF Ctx
  <1>5. clax_conn_write_finished_cb(conn)
          = IF d.finalized /\ d.to_write <= 0 THEN [d EXCEPT !.ctx = "freed"] ELSE d
    <2>1. d = [conn EXCEPT !.to_write = @ - 1, !.writes = @ - 1]
      BY <1>3
    <2>2. d.ctx = "live"
      BY <1>2, <1>3 DEF Ctx
    <2>. QED  BY <1>3, <2>1, <2>2 DEF clax_conn_write_finished_cb, clax_conn_done_cb, OnLive
  <1>. HIDE DEF n
  <1>6. /\ d \in Ctx /\ d.finalized = conn.finalized /\ d.to_write = n /\ d.writes = n
        /\ d.ctx = "live" /\ d.refuse_at = -1 /\ ~d.refused
    <2>1. ASSUME NEW k \in Int, NEW m \in Nat
          PROVE  [conn EXCEPT !.to_write = k, !.writes = m] \in Ctx
      BY <1>2 DEF Ctx
    <2>2. d \in Ctx
      BY <1>4, <2>1
    <2>. QED  BY <1>2, <1>3, <2>2 DEF Ctx
  <1>7. /\ conn'.stale = conn.stale /\ conn'.body_tmpfile = conn.body_tmpfile
        /\ conn'.to_read = conn.to_read /\ conn'.process = conn.process
        /\ conn'.output = conn.output /\ conn'.pipe = conn.pipe
        /\ conn'.continue_expected = conn.continue_expected /\ conn'.headers = conn.headers
        /\ conn'.body_handle = conn.body_handle /\ conn'.fs_open = conn.fs_open
        /\ conn'.fs = conn.fs /\ conn'.finalized = conn.finalized /\ conn'.wire = conn.wire
        /\ conn'.writes = n
    BY <1>1, <1>2, <1>5, <1>6 DEF Ctx
  <1>8. /\ ~conn.finalized => Live(conn')
        /\ conn'.ctx = "live" /\ conn'.finalized => n > 0
    <2>1. CASE conn.finalized /\ n <= 0
      BY <1>1, <1>5, <1>6, <2>1 DEF Ctx
    <2>2. CASE ~(conn.finalized /\ n <= 0)
      <3>1. conn' = d
        BY <1>1, <1>5, <1>6, <2>2
      <3>. QED  BY <1>4, <1>6, <2>2, <3>1 DEF Live, Good
    <2>. QED  BY <2>1, <2>2
  <1>9. closed_by = "none"
    BY <1>3 DEF SInv, IInv
  <1>. HIDE DEF d
  <1>. QED  BY <1>1, <1>3, <1>4, <1>7, <1>8, <1>9

\* It keeps the stage.
LEMMA WriteFinishedFits == ASSUME SInv, WriteFinished PROVE Fits'
  <1>1. req' = req /\ unread' = unread /\ printed' = printed /\ conn.writes > 0
    BY DEF WriteFinished
  <1>2. conn \in Ctx /\ Good(conn) /\ ~conn.stale /\ Written /\ Stage
    BY IInvGood DEF Good, SInv, Fits
  <1>4. conn.writes \in Nat \ {0} /\ conn'.writes = conn.writes - 1
    BY WriteFinishedIs
  <1>7. /\ conn'.stale = conn.stale /\ conn'.body_tmpfile = conn.body_tmpfile
        /\ conn'.to_read = conn.to_read /\ conn'.process = conn.process
        /\ conn'.output = conn.output /\ conn'.pipe = conn.pipe
        /\ conn'.continue_expected = conn.continue_expected /\ conn'.headers = conn.headers
        /\ conn'.body_handle = conn.body_handle /\ conn'.fs_open = conn.fs_open
        /\ conn'.fs = conn.fs /\ conn'.finalized = conn.finalized /\ conn'.wire = conn.wire
    BY WriteFinishedIs
  <1>8. /\ ~conn.finalized => Live(conn')
        /\ conn'.ctx = "live" /\ conn'.finalized => conn'.writes > 0
    BY WriteFinishedIs
  <1>9. Written'
    <2>1. /\ WireOK(conn'.wire) /\ (conn'.finalized <=> Complete(conn'.wire))
          /\ conn.writes <= Len(conn'.wire)
      BY <1>2, <1>7 DEF Written, EndedWhenComplete, Complete
    <2>2. conn'.writes <= Len(conn'.wire)
      <3>1. Len(conn'.wire) \in Nat
        BY <1>2, <1>7 DEF Ctx
      <3>2. conn'.writes = conn.writes - 1
        BY <1>4, <1>7
      <3>. QED  BY <1>4, <2>1, <3>1, <3>2
    <2>. QED  BY <1>1, <1>7, <1>8, <2>1, <2>2, WrittenNext
  <1>10. OutputComplete' /\ (NoForms => UploadStored)' /\ ~conn'.stale
    BY <1>1, <1>2, <1>7 DEF SInv, Fits, OutputComplete, NoForms, UploadStored
  <1>11. ASSUME Ready(conn) PROVE Ready(conn)' /\ conn'.fs = conn.fs
    <2>1. Live(conn') /\ ~conn'.finalized /\ conn'.headers = {} /\ ~conn'.continue_expected
      BY <1>7, <1>8, <1>11 DEF Ready, Unbegun
    <2>2. Interim(conn'.wire) /\ Calm(conn') /\ conn'.writes <= Len(conn'.wire)
      BY <1>7, <1>9, <1>11 DEF Ready, Calm, Written
    <2>. QED  BY <1>1, <1>7, <1>10, <1>11, <2>1, <2>2 DEF Ready, Unbegun, Live, Good, Interim, Calm
  <1>12. CASE Beginning
    BY <1>1, <1>12 DEF Beginning, clax_ctx_init
  <1>13. CASE Receiving
    <2>1. Receiving'
      BY <1>1, <1>7, <1>11, <1>13 DEF Receiving, HasBody, Kept, BodyLeft, NoOps, FsOps
    <2>. QED  BY <1>9, <1>10, <2>1 DEF Fits, Stage
  <1>14. CASE Working
    <2>1. Working'
      BY <1>1, <1>7, <1>11, <1>14 DEF Working, HasBody, Kept, Only, FsOps
    <2>. QED  BY <1>9, <1>10, <2>1 DEF Fits, Stage
  <1>15. CASE Sending
    <2>1. Live(conn)' /\ ~conn'.finalized
      BY <1>7, <1>8, <1>15 DEF Sending, Live, Good
    <2>2. Sending'
      BY <1>1, <1>7, <1>15, <2>1 DEF Sending, Announced, Calm, Only, FsOps
    <2>. QED  BY <1>9, <1>10, <2>2 DEF Fits, Stage
  <1>16. CASE Running
    <2>1. Live(conn)' /\ ~conn'.finalized
      BY <1>7, <1>8, <1>16 DEF Running, Live, Good
    <2>2. Running'
      BY <1>1, <1>7, <1>16, <2>1 DEF Running, Announced, Chunks, NoOps, FsOps
    <2>. QED  BY <1>9, <1>10, <2>2 DEF Fits, Stage
  <1>17. CASE Ended
    <2>1. Ended'
      BY <1>1, <1>7, <1>17 DEF Ended, NoOps, FsOps
    <2>. QED  BY <1>9, <1>10, <2>1 DEF Fits, Stage
  <1>. QED  BY <1>2, <1>12, <1>13, <1>14, <1>15, <1>16, <1>17 DEF Stage

-----------------------------------------------------------------------------
(* Data arrives.                                                           *)

\* The segments of a body, the first and the others.
LEMMA BodyLeftIs ==
  ASSUME NEW m \in Nat \ {0}
  PROVE  /\ BodyLeft(m) # << >>
         /\ Head(BodyLeft(m)) = IF m = 1 THEN "lastbody" ELSE "body"
         /\ Tail(BodyLeft(m)) = BodyLeft(m - 1)
         /\ BodyLeft(0) = << >>
         /\ BodyLeft(m) \in Seq(Segment)
  <1>1. BodyLeft(m) \in Seq(Segment) /\ Len(BodyLeft(m)) = m /\ BodyLeft(m)[1] = IF m = 1 THEN "lastbody" ELSE "body"
    BY DEF BodyLeft, Segment
  <1>2. BodyLeft(m) # << >>
    BY <1>1
  <1>3. Head(BodyLeft(m)) = IF m = 1 THEN "lastbody" ELSE "body"
    BY <1>1, <1>2
  <1>4. Tail(BodyLeft(m)) = BodyLeft(m - 1)
    <2> DEFINE t == Tail(BodyLeft(m))
               b == BodyLeft(m - 1)
    <2>1. t \in Seq(Segment) /\ Len(t) = m - 1 /\ \A i \in 1..(m - 1) : t[i] = BodyLeft(m)[i + 1]
      BY <1>1, <1>2, HeadTailProperties
    <2>2. ASSUME NEW i \in 1..(m - 1) PROVE BodyLeft(m)[i + 1] = b[i]
      <3>1. i + 1 \in 1..m /\ (i + 1 = m <=> i = m - 1)
        OBVIOUS
      <3>. QED  BY <3>1 DEF BodyLeft
    <2>3. b \in Seq(Segment) /\ Len(b) = m - 1
      BY DEF BodyLeft, Segment
    <2>. HIDE DEF t, b
    <2>4. \A i \in 1..Len(t) : t[i] = b[i]
      BY <2>1, <2>2
    <2>5. t = b
      BY <2>1, <2>3, <2>4, SeqEqual
    <2>. QED  BY <2>5 DEF t, b
  <1>5. BodyLeft(0) = << >>
    BY DEF BodyLeft
  <1>. QED  BY <1>1, <1>2, <1>3, <1>4, <1>5

\* What a regular request is sent as.
LEMMA SegmentsAre ==
  ASSUME Regular(req), req \in Request
  PROVE  /\ HasBody => Head(Segments(req)) = "head" /\ Tail(Segments(req)) = BodyLeft(req.pieces)
         /\ ~HasBody => Segments(req) = <<"only">>
  <1>1. Segments(req) = WellFormed(req)
    BY DEF Segments, Regular
  <1>2. ASSUME HasBody
        PROVE  Head(Segments(req)) = "head" /\ Tail(Segments(req)) = BodyLeft(req.pieces)
    <2> DEFINE b == BodyLeft(req.pieces)
    <2>1. WellFormed(req) = <<"head">> \o b
      BY <1>2 DEF WellFormed, HasBody, BodyLeft
    <2>2. b \in Seq(Segment) /\ "head" \in Segment
      BY <1>2, BodyLeftIs DEF HasBody, Request, Segment
    <2>. HIDE DEF b
    <2>3. Head(<<"head">> \o b) = "head" /\ Tail(<<"head">> \o b) = b
      BY <2>2
    <2>. QED  BY <1>1, <2>1, <2>3 DEF b
  <1>3. ASSUME ~HasBody PROVE Segments(req) = <<"only">>
    BY <1>1, <1>3 DEF WellFormed, HasBody, Regular, Request
  <1>. QED  BY <1>2, <1>3

\* After the headers the response is yet to begin.
LEMMA HeadersFit ==
  ASSUME Regular(req), req \in Request, NEW sys, Fine(sys)
  PROVE  LET c == on_http_parser_headers_complete(clax_ctx_init, req, sys)
         IN  Ready(c) /\ c.fs = NoOps /\ ~c.body_handle /\ ~c.body_tmpfile
  <1> DEFINE e == [clax_ctx_init EXCEPT !.continue_expected = req.expect]
             c == on_http_parser_headers_complete(clax_ctx_init, req, sys)
  <1>1. /\ Live(e) /\ ~e.finalized /\ e.headers = {} /\ e.continue_expected = req.expect
        /\ ~e.stale /\ Calm(e) /\ e.wire = << >> /\ e.writes = 0 /\ ~e.fs_open
        /\ e.fs = NoOps /\ ~e.body_handle /\ ~e.body_tmpfile
    <2>1. Good(clax_ctx_init) /\ req.expect \in BOOLEAN
      BY InitGood DEF Request
    <2>2. clax_ctx_init.ctx = "live" /\ clax_ctx_init.to_write = 0 /\ clax_ctx_init.writes = 0
          /\ ~clax_ctx_init.finalized /\ clax_ctx_init.headers = {} /\ ~clax_ctx_init.stale
          /\ Calm(clax_ctx_init) /\ clax_ctx_init.wire = << >> /\ ~clax_ctx_init.fs_open
          /\ clax_ctx_init.fs = NoOps /\ ~clax_ctx_init.body_handle /\ ~clax_ctx_init.body_tmpfile
          /\ clax_ctx_init.refuse_at = -1 /\ ~clax_ctx_init.refused
      BY DEF clax_ctx_init, Calm, NoOps
    <2>. QED  BY <2>1, <2>2 DEF Live, Good, Ctx, Calm
  <1>. HIDE DEF e
  <1>2. c = IF req.expect THEN clax_dispatch(e, req, sys) ELSE e
    BY <1>1 DEF on_http_parser_headers_complete, clax_http_request_headers_done_cb, Regular, e
  <1>. HIDE DEF c
  <1>3. ASSUME ~req.expect
        PROVE  Ready(c) /\ c.fs = NoOps /\ ~c.body_handle /\ ~c.body_tmpfile
    <2>1. Len(<< >>) = 0 /\ Interim(<< >>)
      BY DEF Interim
    <2>. QED  BY <1>1, <1>2, <1>3, <2>1 DEF Ready, Unbegun
  <1>4. ASSUME req.expect
        PROVE  Ready(c) /\ c.fs = NoOps /\ ~c.body_handle /\ ~c.body_tmpfile
    <2>1. req.method = "POST" /\ req.path = "/tree/"
      BY <1>4 DEF Regular
    <2>2. c = clax_dispatch_continue(e, req, sys)
      <3>1. "POST" \in clax_dispatcher_actions["/tree/"]
        BY DEF clax_dispatcher_actions, Paths
      <3>. QED  BY <1>1, <1>2, <1>4, <2>1, <3>1
                DEF clax_dispatch, Handler, clax_dispatch_tree, clax_dispatch_upload,
                    CLAX_DISPATCHER_FLAG_100_CONTINUE
    <2>3. /\ Unbegun(c) /\ Frame(e, c) /\ c.fs = e.fs /\ c.fs_open = e.fs_open /\ ~c.body_handle
          /\ c.wire = Append(e.wire, HeadPiece(100, {})) /\ c.writes = e.writes + 1
      <3>1. Live(e) /\ ~e.finalized /\ e.headers = {} /\ e.continue_expected
        BY <1>1, <1>4
      <3>. QED  BY <2>2, <3>1, ContinueIs
    <2>4. c.wire = <<HeadPiece(100, {})>> /\ Len(c.wire) = 1 /\ c.writes = 1
      BY <1>1, <2>3
    <2>5. Interim(c.wire) /\ c.writes <= Len(c.wire)
      BY <1>4, <2>4 DEF Interim
    <2>6. Calm(c) /\ ~c.stale /\ ~c.body_tmpfile /\ ~c.fs_open /\ c.fs = NoOps
      BY <1>1, <2>3 DEF Calm, Frame
    <2>. QED  BY <2>3, <2>5, <2>6 DEF Ready
  <1>. QED  BY <1>3, <1>4 DEF c

\* A piece of the body, of which m pieces are left.
LEMMA BodyStored ==
  ASSUME Regular(req), req \in Request, NEW sys, Fine(sys),
         HasBody, req.type # "form", Ready(conn), conn.fs = NoOps, ~conn.body_handle,
         NEW m \in 1..req.pieces,
         conn.body_tmpfile => conn.to_read = m, ~conn.body_tmpfile => m = req.pieces
  PROVE  LET d == [OpenBody(conn, req) EXCEPT !.to_read = m - 1]
         IN  /\ on_http_parser_body(conn, req, sys)
                  = IF m = 1 THEN Submit(d, "body_close") ELSE d
             /\ Ready(d) /\ d.fs = NoOps /\ ~d.body_handle /\ d.body_tmpfile /\ d.to_read = m - 1
  <1> DEFINE o == OpenBody(conn, req)
             n == m - 1
             d == [o EXCEPT !.to_read = n]
  <1>1. /\ Live(conn) /\ ~conn.finalized /\ conn.headers = {} /\ ~conn.continue_expected
        /\ ~conn.stale /\ Interim(conn.wire) /\ Calm(conn) /\ conn.writes <= Len(conn.wire)
        /\ conn.fs_open => conn.body_handle
    BY DEF Ready, Unbegun
  <1>2. req.pieces \in Nat /\ content_length(req) = req.pieces /\ m \in Nat
    BY DEF HasBody, content_length, Request
  <1>3. o = IF conn.body_tmpfile THEN conn
            ELSE [conn EXCEPT !.body_tmpfile = TRUE, !.to_read = req.pieces]
    BY <1>2 DEF OpenBody
  <1>. HIDE DEF o
  <1>4. /\ Live(o) /\ ~o.finalized /\ o.headers = {} /\ ~o.continue_expected
        /\ ~o.stale /\ o.wire = conn.wire /\ Calm(o) /\ o.writes = conn.writes
        /\ o.fs_open = conn.fs_open /\ o.body_handle = conn.body_handle
        /\ o.fs = conn.fs /\ o.body_tmpfile /\ o.to_read = m
    <2>1. CASE conn.body_tmpfile
      BY <1>1, <1>3, <2>1
    <2>2. CASE ~conn.body_tmpfile
      <3> DEFINE x == [conn EXCEPT !.to_read = req.pieces]
                 y == [x EXCEPT !.body_tmpfile = TRUE]
      <3>1. req.pieces \in Int /\ m = req.pieces
        BY <1>2, <2>2
      <3>2. /\ Live(x) /\ ~x.finalized /\ x.headers = {} /\ ~x.continue_expected
            /\ ~x.stale /\ x.wire = conn.wire /\ Calm(x) /\ x.writes = conn.writes
            /\ x.fs_open = conn.fs_open /\ x.body_handle = conn.body_handle
            /\ x.fs = conn.fs /\ x.to_read = m
        BY <1>1, <3>1 DEF Live, Good, Ctx, Calm
      <3>3. o = y
        BY <1>1, <1>3, <2>2 DEF Live, Good, Ctx
      <3>. HIDE DEF x
      <3>4. /\ Live(y) /\ ~y.finalized /\ y.headers = {} /\ ~y.continue_expected
            /\ ~y.stale /\ y.wire = x.wire /\ Calm(y) /\ y.writes = x.writes
            /\ y.fs_open = x.fs_open /\ y.body_handle = x.body_handle
            /\ y.fs = x.fs /\ y.body_tmpfile /\ y.to_read = x.to_read
        BY <3>2 DEF Live, Good, Ctx, Calm
      <3>. HIDE DEF y
      <3>. QED  BY <3>2, <3>3, <3>4
    <2>. QED  BY <2>1, <2>2
  <1>5. n \in Int /\ n = m - 1 /\ (n <= 0 <=> m = 1)
    BY <1>2
  <1>6. on_http_parser_body(conn, req, sys) = IF m = 1 THEN Submit(d, "body_close") ELSE d
    <2>1. on_http_parser_body(conn, req, sys) = clax_http_request_body_written_cb(o, 1)
      BY DEF on_http_parser_body, Fine, o
    <2>2. [o EXCEPT !.to_read = @ - 1] = d
      BY <1>4
    <2>3. d.to_read = n
      BY <1>4 DEF Live, Good, Ctx
    <2>. QED  BY <1>5, <2>1, <2>2, <2>3 DEF clax_http_request_body_written_cb
  <1>. HIDE DEF n
  <1>7. Ready(d) /\ d.fs = NoOps /\ ~d.body_handle /\ d.body_tmpfile /\ d.to_read = n
    BY <1>1, <1>4, <1>5 DEF Ready, Unbegun, Live, Good, Ctx, Calm
  <1>. QED  BY <1>6, <1>7 DEF n, o

\* A piece of the body is read.
LEMMA BodyReadFits ==
  ASSUME Patient, SInv, Receiving, req' = req, printed' = printed, unread' = Tail(unread),
         NEW sys \in SysResults, conn' = clax_http_parse(conn, req, Head(unread), sys)
  PROVE  Fits'
  <1>1. /\ HasBody /\ Ready(conn) /\ conn.fs = NoOps /\ ~conn.body_handle /\ printed = 0
    BY DEF Receiving
  <1>2. PICK m \in 1..req.pieces :
          /\ unread = BodyLeft(m)
          /\ conn.body_tmpfile => Kept /\ conn.to_read = m
          /\ ~conn.body_tmpfile => req.type = "form" \/ m = req.pieces
    BY DEF Receiving
  <1>3. req \in Request /\ req.pieces \in Nat /\ m \in Nat \ {0}
    BY RequestsAssumption, Allowed DEF Request
  <1>4. /\ Head(unread) = IF m = 1 THEN "lastbody" ELSE "body"
        /\ unread' = BodyLeft(m - 1) /\ BodyLeft(0) = << >>
    BY <1>2, <1>3, BodyLeftIs
  <1>5. CASE req.type = "form"
    <2>1. ~conn.body_tmpfile /\ ~Kept /\ on_http_parser_body(conn, req, sys) = conn
      BY <1>2, <1>5 DEF Kept, on_http_parser_body
    <2>2. CASE m = 1
      <3>1. conn' = clax_dispatch(conn, req, sys)
        BY <1>4, <2>1, <2>2
           DEF clax_http_parse, on_http_parser_message_complete, clax_http_request_done_cb
      <3>2. unread' = << >>
        BY <1>4, <2>2
      <3>. QED  BY <1>1, <2>1, <3>1, <3>2, Allowed, DispatchFits
    <2>3. CASE m # 1
      <3>1. conn' = conn
        BY <1>4, <2>1, <2>3 DEF clax_http_parse
      <3>2. m - 1 \in 1..req.pieces
        BY <1>3, <2>3
      <3>3. Ready(conn)'
        BY <1>1, <3>1 DEF Ready, Unbegun, Live, Good, Interim, Calm
      <3>4. Receiving'
        <4>1. /\ conn'.fs = NoOps /\ ~conn'.body_handle /\ printed' = 0
              /\ ~conn'.body_tmpfile /\ unread' = BodyLeft(m - 1)
          BY <1>1, <1>4, <2>1, <3>1
        <4>. QED  BY <1>1, <1>5, <3>2, <3>3, <4>1 DEF Receiving, HasBody, Kept, BodyLeft, NoOps, FsOps
      <3>5. Ready(conn')
        BY <1>1, <3>1
      <3>6. ~conn'.stale
        BY <3>5 DEF Ready
      <3>. QED  BY <3>4, <3>5, <3>6, ReadyFits DEF Fits, Stage
    <2>. QED  BY <2>2, <2>3
  <1>6. CASE req.type # "form"
    <2> DEFINE d == [OpenBody(conn, req) EXCEPT !.to_read = m - 1]
    <2>1. /\ on_http_parser_body(conn, req, sys) = IF m = 1 THEN Submit(d, "body_close") ELSE d
          /\ Ready(d) /\ d.fs = NoOps /\ ~d.body_handle /\ d.body_tmpfile /\ d.to_read = m - 1
      BY <1>1, <1>2, <1>3, <1>6, Allowed, BodyStored
    <2>. HIDE DEF d
    <2>2. CASE m = 1
      <3>1. conn' = Submit(d, "body_close")
        <4>1. Submit(d, "body_close").body_tmpfile
          BY <2>1, SubmitIs DEF Ready, Unbegun, Frame, FsOps
        <4>2. on_http_parser_body(conn, req, sys) = Submit(d, "body_close")
          BY <2>1, <2>2
        <4>3. clax_http_parse(conn, req, Head(unread), sys)
                = on_http_parser_message_complete(Submit(d, "body_close"), req, sys)
          BY <1>4, <2>2, <4>2 DEF clax_http_parse
        <4>. QED  BY <4>1, <4>3 DEF on_http_parser_message_complete
      <3>2. unread' = << >> /\ printed' = 0
        BY <1>1, <1>4, <2>2
      <3>3. d.to_read = 0
        BY <2>1, <2>2
      <3>. QED  BY <2>1, <3>1, <3>2, <3>3, SubmitFits DEF FsOps
    <2>3. CASE m # 1
      <3>1. conn' = d
        BY <1>4, <2>1, <2>3 DEF clax_http_parse
      <3>2. m - 1 \in 1..req.pieces
        BY <1>3, <2>3
      <3>3. Ready(conn)'
        BY <2>1, <3>1 DEF Ready, Unbegun, Live, Good, Interim, Calm
      <3>4. Receiving'
        <4>1. /\ conn'.fs = NoOps /\ ~conn'.body_handle /\ printed' = 0
              /\ conn'.body_tmpfile /\ conn'.to_read = m - 1 /\ unread' = BodyLeft(m - 1)
          BY <1>1, <1>4, <2>1, <3>1
        <4>. QED  BY <1>1, <1>6, <3>2, <3>3, <4>1 DEF Receiving, HasBody, Kept, BodyLeft, NoOps, FsOps
      <3>5. Ready(conn')
        BY <2>1, <3>1
      <3>6. ~conn'.stale
        BY <3>5 DEF Ready
      <3>. QED  BY <3>4, <3>5, <3>6, ReadyFits DEF Fits, Stage
    <2>. QED  BY <2>2, <2>3
  <1>. QED  BY <1>5, <1>6

\* The headers are read, and maybe the whole request with them.
LEMMA HeadReadFits ==
  ASSUME Patient, SInv, Beginning, req' = req, printed' = printed, unread' = Tail(unread),
         NEW sys \in SysResults, conn' = clax_http_parse(conn, req, Head(unread), sys)
  PROVE  Fits'
  <1> DEFINE c == on_http_parser_headers_complete(clax_ctx_init, req, sys)
  <1>1. unread = Segments(req) /\ conn = clax_ctx_init /\ printed = 0
    BY DEF Beginning
  <1>2. req \in Request /\ Regular(req) /\ req.pieces \in Nat
    BY RequestsAssumption, Allowed DEF Request
  <1>3. Ready(c) /\ c.fs = NoOps /\ ~c.body_handle /\ ~c.body_tmpfile
    BY <1>2, Allowed, HeadersFit
  <1>4. CASE HasBody
    <2>1. Head(unread) = "head" /\ unread' = BodyLeft(req.pieces)
      BY <1>1, <1>2, <1>4, SegmentsAre
    <2>2. conn' = c
      BY <1>1, <2>1 DEF clax_http_parse
    <2>. HIDE DEF c
    <2>3. Ready(conn)'
      BY <1>3, <2>2 DEF Ready, Unbegun, Live, Good, Interim, Calm
    <2>4. Receiving'
      <3>1. req.pieces \in 1..req.pieces
        BY <1>2, <1>4 DEF HasBody
      <3>2. conn'.fs = NoOps /\ ~conn'.body_handle /\ printed' = 0 /\ ~conn'.body_tmpfile
        BY <1>1, <1>3, <2>2
      <3>. QED  BY <1>4, <2>1, <2>3, <3>1, <3>2 DEF Receiving, HasBody, BodyLeft, NoOps, FsOps
    <2>5. Ready(conn') /\ ~conn'.stale
      BY <1>3, <2>2 DEF Ready
    <2>. QED  BY <2>4, <2>5, ReadyFits DEF Fits, Stage
  <1>5. CASE ~HasBody
    <2>1. Head(unread) = "only" /\ unread' = << >>
      BY <1>1, <1>2, <1>5, SegmentsAre
    <2>2. conn' = clax_dispatch(c, req, sys)
      BY <1>1, <1>3, <2>1
         DEF clax_http_parse, on_http_parser_message_complete, clax_http_request_done_cb
    <2>3. ~Kept /\ printed' = 0
      BY <1>1, <1>5 DEF Kept
    <2>. HIDE DEF c
    <2>. QED  BY <1>2, <1>3, <2>1, <2>2, <2>3, Allowed, DispatchFits
  <1>. QED  BY <1>4, <1>5

\* Whatever segment is read, the connection fits and stays open.
LEMMA ReadFits == ASSUME Patient, SInv, Read PROVE Fits' /\ closed_by' \in {"none", "write"}
  <1>1. unread # << >> /\ req' = req /\ printed' = printed /\ unread' = Tail(unread)
    BY DEF Read
  <1>2. PICK sys \in SysResults :
          IF Rejected(conn, req, Head(unread), sys)
          THEN Becomes(clax_conn_done_cb(conn), "parse")
          ELSE Becomes(clax_http_parse(conn, req, Head(unread), sys), "write")
    BY DEF Read
  <1>3. Beginning \/ Receiving
    BY <1>1 DEF SInv, Fits, Stage, Working, Sending, Running, Ended
  <1>4. Head(unread) # "bad"
    <2>1. req \in Request /\ Regular(req) /\ req.pieces \in Nat
      BY RequestsAssumption, Allowed DEF Request
    <2>2. CASE Beginning
      <3>1. unread = Segments(req)
        BY <2>2 DEF Beginning
      <3>2. Head(unread) \in {"head", "only"}
        BY <2>1, <3>1, SegmentsAre
      <3>. QED  BY <3>2
    <2>3. CASE Receiving
      <3>1. PICK m \in 1..req.pieces : unread = BodyLeft(m)
        BY <2>3 DEF Receiving
      <3>2. m \in Nat \ {0}
        BY <2>1
      <3>3. Head(unread) \in {"lastbody", "body"}
        BY <3>1, <3>2, BodyLeftIs
      <3>. QED  BY <3>3
    <2>. QED  BY <1>3, <2>2, <2>3
  <1>5. ~Rejected(conn, req, Head(unread), sys)
    BY <1>4, Allowed DEF Rejected, BodyRefused, Fine
  <1>6. /\ conn' = clax_http_parse(conn, req, Head(unread), sys)
        /\ closed_by' \in {closed_by, "write"}
    BY <1>2, <1>5 DEF Becomes
  <1>7. closed_by' \in {"none", "write"}
    BY <1>6 DEF SInv
  <1>. QED  BY <1>1, <1>3, <1>6, <1>7, HeadReadFits, BodyReadFits

-----------------------------------------------------------------------------
\* A new connection fits.
LEMMA SInit == ASSUME Patient, Init PROVE SInv
  <1>1. /\ conn = clax_ctx_init /\ unread = Segments(req) /\ printed = 0 /\ closed_by = "none"
        /\ conn.refuse_at = -1
    <2>1. conn = [clax_ctx_init EXCEPT !.refuse_at = -1]
      BY DEF Init, Patient
    <2>2. conn = clax_ctx_init
      BY <2>1 DEF clax_ctx_init
    <2>3. conn.refuse_at = -1
      BY <2>2 DEF clax_ctx_init
    <2>. QED  BY <2>2, <2>3 DEF Init
  <1>2. conn.wire = << >> /\ conn.writes = 0 /\ ~conn.finalized /\ ~conn.stale
    BY <1>1 DEF clax_ctx_init
  <1>3. Written
    BY <1>2 DEF Written, WireOK, EndedWhenComplete
  <1>4. OutputComplete /\ UploadStored
    BY <1>2 DEF OutputComplete, UploadStored
  <1>. QED  BY <1>1, <1>2, <1>3, <1>4, InitInv DEF SInv, Fits, Stage, Beginning

\* Every step of a patient client's connection keeps it so.
LEMMA SNext == ASSUME Patient, SInv, [Next]_vars PROVE SInv'
  <1>1. IInv' /\ conn'.refuse_at = -1
    <2>1. IInv'
      BY NextInv DEF SInv
    <2>. QED  BY <2>1 DEF IInv, Patient
  <1>2. CASE UNCHANGED vars
    <2>1. UNCHANGED <<req, unread, conn, printed, closed_by>>
      BY <1>2 DEF vars
    <2>2. Written' /\ OutputComplete' /\ (NoForms => UploadStored)' /\ ~conn'.stale
      BY <2>1, SameWire DEF SInv, Fits
    <2>3. Beginning => Beginning'
      BY <2>1 DEF Beginning
    <2>4. Ready(conn) => Ready(conn)'
      BY <2>1 DEF Ready, Unbegun, Live, Good, Interim, Calm
    <2>5. Receiving => Receiving'
      BY <2>1, <2>4 DEF Receiving, HasBody, Kept, BodyLeft, NoOps, FsOps
    <2>6. Working => Working'
      BY <2>1, <2>4 DEF Working, HasBody, Kept, Only, FsOps
    <2>7. Sending => Sending'
      BY <2>1 DEF Sending, Live, Good, Calm, Announced, Only, FsOps
    <2>8. Running => Running'
      BY <2>1 DEF Running, Live, Good, Announced, Chunks, NoOps, FsOps
    <2>9. Ended => Ended'
      BY <2>1 DEF Ended, NoOps, FsOps
    <2>. QED  BY <1>1, <2>1, <2>2, <2>3, <2>5, <2>6, <2>7, <2>8, <2>9 DEF SInv, Fits, Stage
  <1>3. CASE Read
    BY <1>1, <1>3, ReadFits DEF SInv
  <1>4. ASSUME FileStep \/ CommandStep \/ ChildExits \/ ChildPrints \/ WriteFinished PROVE SInv'
    <2>1. closed_by' \in {closed_by, "write"}
      BY <1>4 DEF FileStep, CommandStep, ChildExits, ChildPrints, WriteFinished, ExitReported,
                  ProcessClosed, OutputRead, OutputEof, clax_http_request_body_closed_cb, Unlinked,
                  Statted, Opened, DownloadChecked, FileRead, Copied, UploadChecked, BadUnlinked,
                  FsDone, Becomes
    <2>2. Fits'
      BY <1>4, FileFits, CommandFitsAll, WriteFinishedFits
    <2>. QED  BY <1>1, <2>1, <2>2 DEF SInv
  <1>5. ~ReadEof
    BY DEF ReadEof, Patient
  <1>. QED  BY <1>2, <1>3, <1>4, <1>5 DEF Next, Progress

-----------------------------------------------------------------------------
(* What follows.                                                           *)

\* A patient client is served: SInv is an invariant of its connection.
LEMMA AlwaysServed == Patient /\ Spec => []SInv
  <1>1. CASE Patient
    BY <1>1, SInit, SNext, PTL DEF Spec
  <1>. QED  BY <1>1

\* In every stage but the first there is nothing under way but what the stage says.
LEMMA StageOps ==
  ASSUME Fits
  PROVE  \/ conn.fs = NoOps
         \/ Working \/ Sending
  BY DEF Fits, Stage, Beginning, Receiving, Running, Ended, NoOps, clax_ctx_init

\* A request is sent as one segment at least.
LEMMA SegmentsSome ==
  ASSUME Patient, IInv PROVE Segments(req) # << >>
  <1>1. Regular(req) /\ req \in Request
    BY RequestsAssumption DEF Patient, IInv, TypeOK
  <1>2. CASE HasBody
    <2>1. Segments(req) \in Seq(Segment) /\ Tail(Segments(req)) = BodyLeft(req.pieces)
      BY <1>1, <1>2, SegmentsAre, SegmentsType
    <2>2. req.pieces \in Nat \ {0}
      BY <1>1, <1>2 DEF HasBody, Request
    <2>3. WellFormed(req) = <<"head">> \o BodyLeft(req.pieces) /\ Segments(req) = WellFormed(req)
      BY <1>1, <1>2 DEF WellFormed, HasBody, BodyLeft, Segments, Regular
    <2>4. BodyLeft(req.pieces) \in Seq(Segment) /\ <<"head">> \in Seq(Segment)
      BY <2>2, BodyLeftIs DEF Segment
    <2>. HIDE DEF Segments
    <2>5. Len(<<"head">> \o BodyLeft(req.pieces)) = 1 + Len(BodyLeft(req.pieces))
      BY <2>4
    <2>. QED  BY <2>3, <2>4, <2>5, EmptySeq
  <1>3. CASE ~HasBody
    BY <1>1, <1>3, SegmentsAre
  <1>. QED  BY <1>2, <1>3

\* No callback of a request that is waited for meets a freed context: clax_conn_done_cb
\* runs when nothing else is in flight.
THEOREM NeverStale == Patient /\ Spec => []NoUseAfterFree
  <1>1. SInv => NoUseAfterFree
    BY DEF SInv, Fits, NoUseAfterFree
  <1>. QED  BY <1>1, AlwaysServed, PTL

\* What clax_http.c writes is at every moment a prefix of one well-framed response.
THEOREM AlwaysFramed == Patient /\ Spec => []ResponseFramed
  <1>1. SInv => ResponseFramed
    BY DEF SInv, Fits, Written, WireOK, ResponseFramed
  <1>. QED  BY <1>1, AlwaysServed, PTL

\* clax_http_finalize_response is called when, and only when, the end of the response
\* was written.
THEOREM EndsComplete == Patient /\ Spec => []EndedWhenComplete
  <1>1. SInv => EndedWhenComplete
    BY DEF SInv, Fits, Written
  <1>. QED  BY <1>1, AlwaysServed, PTL

\* No callback drops a request: until the response is ended there is an operation or
\* a child whose callback goes on with it.
THEOREM NeverForgotten == Patient /\ Spec => []NotForgotten
  <1>1. Patient /\ SInv => NotForgotten
    <2>. SUFFICES ASSUME Patient, SInv, unread = << >>, ~conn.finalized
         PROVE  \/ \E k \in FsOps : conn.fs[k] > 0
                \/ conn.process \in {"running", "exited", "closing"}
      BY DEF NotForgotten
    <2>1. ~Beginning
      BY SegmentsSome DEF Beginning, SInv
    <2>2. ~Receiving
      <3>. SUFFICES ASSUME Receiving PROVE FALSE
        OBVIOUS
      <3>1. PICK m \in 1..req.pieces : unread = BodyLeft(m)
        BY DEF Receiving
      <3>2. m \in Nat \ {0}
        BY RequestsAssumption DEF SInv, IInv, TypeOK, Request
      <3>. QED  BY <3>1, <3>2, BodyLeftIs
    <2>3. ~Ended
      BY DEF Ended
    <2>4. CASE Working
      <3>1. PICK k \in FsOps : conn.fs = Only(k)
        BY <2>4 DEF Working
      <3>2. conn.fs[k] = 1
        BY <3>1 DEF Only
      <3>. QED  BY <3>2
    <2>5. CASE Sending
      <3>1. conn.fs["read"] = 1
        BY <2>5 DEF Sending, Only, FsOps
      <3>2. "read" \in FsOps
        BY DEF FsOps
      <3>. QED  BY <3>1, <3>2
    <2>6. CASE Running
      BY <2>6 DEF Running
    <2>. QED  BY <2>1, <2>2, <2>3, <2>4, <2>5, <2>6 DEF SInv, Fits, Stage
  <1>2. CASE Patient
    BY <1>1, <1>2, AlwaysServed, PTL
  <1>. QED  BY <1>2

\* The callbacks of a request are one chain: each hands over at most one operation.
THEOREM ChainNeverForks == Patient /\ Spec => []OneOperation
  <1>1. SInv => OneOperation
    <2>. SUFFICES ASSUME SInv PROVE OneOperation
      OBVIOUS
    <2>1. conn.fs = NoOps \/ \E k \in FsOps : conn.fs = Only(k)
      <3>1. "read" \in FsOps
        BY DEF FsOps
      <3>. QED  BY <3>1, StageOps DEF SInv, Working, Sending
    <2>2. CASE conn.fs = NoOps
      BY <2>2 DEF OneOperation, NoOps
    <2>3. CASE \E k \in FsOps : conn.fs = Only(k)
      <3>1. PICK k \in FsOps : conn.fs = Only(k)
        BY <2>3
      <3>. QED  BY <3>1 DEF OneOperation, Only
    <2>. QED  BY <2>1, <2>2, <2>3
  <1>. QED  BY <1>1, AlwaysServed, PTL

\* clax_dispatch_upload copies the temporary file when the whole body is in it and it
\* is closed.
THEOREM AlwaysCopiedWhole == Patient /\ Spec => []CopiedWhole
  <1>1. SInv => CopiedWhole
    <2>. SUFFICES ASSUME SInv, conn.fs["copy"] > 0
         PROVE  unread = << >> /\ conn.to_read = 0 /\ conn.fs["body_close"] = 0
      BY DEF CopiedWhole
    <2>1. {"copy", "read", "body_close"} \subseteq FsOps
      BY DEF FsOps
    <2>2. conn.fs # NoOps
      BY <2>1 DEF NoOps
    <2>3. ~Sending
      BY <2>1 DEF Sending, Only
    <2>4. Working
      BY <2>2, <2>3, StageOps DEF SInv
    <2>5. PICK k \in FsOps : conn.fs = Only(k) /\ (k \in {"body_close", "copy"} => conn.to_read = 0)
      BY <2>4 DEF Working
    <2>6. k = "copy"
      BY <2>1, <2>5 DEF Only
    <2>7. conn.fs["body_close"] = 0
      BY <2>1, <2>5, <2>6 DEF Only
    <2>. QED  BY <2>4, <2>5, <2>6, <2>7 DEF Working
  <1>. QED  BY <1>1, AlwaysServed, PTL

\* All a command printed is sent before its trailers (process_close_cb), given that
\* the loop reads the output before it reports the exit.
THEOREM OutputSent == Patient /\ Spec => []OutputComplete
  <1>1. SInv => OutputComplete
    BY DEF SInv, Fits
  <1>. QED  BY <1>1, AlwaysServed, PTL

\* The file a HEAD looked at is closed when the connection is.
THEOREM HeadReleases == Patient /\ Spec => []FileReleased
  <1>1. SInv => FileReleased
    <2>. SUFFICES ASSUME SInv, closed_by = "write", req.method = "HEAD" PROVE ~conn.fs_open
      BY DEF FileReleased
    <2>1. conn.ctx # "live"
      BY DEF SInv, IInv
    <2>2. Ended
      BY <2>1 DEF SInv, Fits, Stage, Beginning, Receiving, Working, Sending, Running,
                  Ready, Unbegun, Live, clax_ctx_init
    <2>. QED  BY <2>2 DEF Ended
  <1>. QED  BY <1>1, AlwaysServed, PTL

\* A 204 to an upload means that the body is in the file (clax_dispatch_upload_).  A
\* form posted to a file is acknowledged and not stored: there must be none.
THEOREM CreatedStored == Patient /\ NoForms /\ Spec => []UploadStored
  <1>1. CASE NoForms
    <2>1. SInv => UploadStored
      BY <1>1 DEF SInv, Fits
    <2>. QED  BY <2>1, AlwaysServed, PTL
  <1>. QED  BY <1>1

-----------------------------------------------------------------------------
(* The connection implements ResponseStream.                               *)

\* How much of the wire the client has, and the phase for that.
Seen == Len(conn.wire) - conn.writes

PhaseOf(by, n, p) ==
  CASE by # "none" -> IF n > 0 /\ EndsResponse(p) THEN "closed" ELSE "cut off"
    [] by = "none" /\ n = 0 -> "start"
    [] by = "none" /\ n > 0 /\ p.part = "head" /\ p.status = 100 -> "interim"
    [] OTHER -> "body"

\* Phase and its next value are what PhaseOf says.
LEMMA PhaseIs ==
  /\ Phase = PhaseOf(closed_by, Seen, conn.wire[Seen])
  /\ Phase' = PhaseOf(closed_by', Seen', conn'.wire[Seen'])
  BY DEF Phase, PhaseOf, Seen

\* The client of an open connection has seen some of the wire; that of a
\* connection the write path closed has seen a whole response.
LEMMA SeenIs ==
  ASSUME SInv
  PROVE  /\ conn.wire \in Seq(Piece) /\ Len(conn.wire) \in Nat /\ conn.writes \in Nat
         /\ Seen \in 0..Len(conn.wire)
         /\ closed_by # "none" => Seen > 0 /\ EndsResponse(conn.wire[Seen])
  <1>1. conn.wire \in Seq(Piece) /\ Len(conn.wire) \in Nat /\ conn.writes \in Nat
    BY IInvGood, WireTyped DEF SInv
  <1>2. Seen \in 0..Len(conn.wire)
    BY <1>1 DEF SInv, Fits, Written, Seen
  <1>3. ASSUME closed_by # "none" PROVE Seen > 0 /\ EndsResponse(conn.wire[Seen])
    <2>1. conn.finalized /\ conn.writes = 0
      BY <1>3, NotRefused DEF SInv, IInv, ClosedFlushed
    <2>2. conn.wire # << >> /\ EndsResponse(conn.wire[Len(conn.wire)])
      BY <2>1 DEF SInv, Fits, Written, EndedWhenComplete
    <2>3. Len(conn.wire) # 0
      BY <1>1, <2>2, EmptySeq
    <2>4. Seen = Len(conn.wire)
      BY <1>1, <2>1 DEF Seen
    <2>. QED  BY <1>1, <2>2, <2>3, <2>4
  <1>. QED  BY <1>1, <1>2, <1>3

\* The same as a formula, for its next value.
LEMMA ClosedSeen == SInv => (closed_by # "none" => EndsResponse(conn.wire[Seen]))
  BY SeenIs

\* What is added to the wire the client has not seen.
LEMMA PhaseStays ==
  ASSUME SInv, Extends(conn, conn'), closed_by' = closed_by
  PROVE  Phase' = Phase
  <1>1. Seen' = Seen
    BY DEF Extends, Seen
  <1>2. Seen \in Nat /\ Seen <= Len(conn.wire) /\ Len(conn.wire) \in Nat
    BY SeenIs
  <1>3. CASE Seen > 0
    <2>1. conn'.wire[Seen] = conn.wire[Seen]
      BY <1>2, <1>3 DEF Extends
    <2>. QED  BY <1>1, <2>1, PhaseIs
  <1>4. CASE Seen = 0
    <2>1. closed_by = "none"
      BY <1>4, SeenIs
    <2>2. Phase = "start" /\ Phase' = "start"
      BY <1>1, <1>4, <2>1, PhaseIs DEF PhaseOf
    <2>. QED  BY <2>2
  <1>. QED  BY <1>2, <1>3, <1>4

\* The end of a write shows the client the next piece, or the last one with the close.
LEMMA WriteShown ==
  ASSUME SInv, SInv', WriteFinished
  PROVE  [Stream!Next]_Phase
  <1> DEFINE n == Seen + 1
             p == conn.wire[n]
  <1>1. /\ closed_by = "none" /\ conn.writes \in Nat \ {0}
        /\ conn'.wire = conn.wire /\ conn'.writes = conn.writes - 1
    BY WriteFinishedIs
  <1>2. /\ Len(conn.wire) \in Nat /\ Seen \in 0..Len(conn.wire) /\ DOMAIN conn.wire = 1..Len(conn.wire)
    BY SeenIs, LenProperties
  <1>3. Seen' = n /\ n \in DOMAIN conn.wire /\ n > 0 /\ n \in Nat
    BY <1>1, <1>2 DEF Seen
  <1>4. closed_by' # "none" => EndsResponse(p)
    <2>1. (closed_by # "none" => EndsResponse(conn.wire[Seen]))'
      BY ClosedSeen, PTL
    <2>. QED  BY <1>1, <1>3, <2>1 DEF EndsResponse
  <1>5. p.part = "head" /\ p.status = 100 => n = 1
    BY <1>3 DEF SInv, Fits, Written, WireOK, LegalPiece
  <1>6. Phase' = PhaseOf(closed_by', n, p)
    BY <1>1, <1>3, PhaseIs
  <1>7. Phase = PhaseOf("none", Seen, conn.wire[Seen])
    BY <1>1, PhaseIs
  <1>8. n = 1 => Phase = "start"
    BY <1>2, <1>7 DEF PhaseOf
  <1>. HIDE DEF n, p
  <1>9. Phase' \in {"interim", "body", "closed"} /\ (Phase' = "interim" => n = 1)
    <2>1. CASE closed_by' # "none"
      BY <1>3, <1>4, <1>6, <2>1 DEF PhaseOf
    <2>2. CASE closed_by' = "none"
      BY <1>3, <1>5, <1>6, <2>2 DEF PhaseOf
    <2>. QED  BY <2>1, <2>2
  <1>10. Phase \in {"start", "interim", "body"}
    BY <1>7 DEF PhaseOf
  <1>. QED  BY <1>8, <1>9, <1>10
            DEF Stream!Next, Stream!Interim, Stream!Headers, Stream!HeadersOnly, Stream!Chunk,
                Stream!End

\* The client of a patient connection is shown what ResponseStream promises, by every
\* step: an interim 100 or none, then one response, closed with its last piece.
THEOREM StreamImplemented == Patient /\ Spec => StreamKept
  <1>1. Init => Stream!Init
    BY DEF Init, clax_ctx_init, Stream!Init, Phase
  <1>2. Patient /\ SInv /\ SInv' /\ [Next]_vars => [Stream!Next]_Phase
    <2>. SUFFICES ASSUME Patient, SInv, SInv', [Next]_vars PROVE [Stream!Next]_Phase
      OBVIOUS
    <2>1. CASE UNCHANGED vars
      BY <2>1 DEF vars, Phase
    <2>2. CASE WriteFinished
      BY <2>2, WriteShown
    <2>3. CASE Read \/ FileStep \/ CommandStep \/ ChildExits \/ ChildPrints
      <3>1. IInv /\ closed_by' # "parse"
        BY DEF SInv
      <3>2. Stays
        BY <2>3, <3>1, ReadInv, FileInv, CommandInv
      <3>3. -1 \notin Nat /\ conn'.refuse_at = -1
        BY DEF SInv
      <3>4. closed_by' = closed_by
        BY <3>2, <3>3 DEF Stays, IInv
      <3>. QED  BY <3>2, <3>4, PhaseStays DEF Stays, Step
    <2>4. ~ReadEof
      BY DEF ReadEof, Patient
    <2>. QED  BY <2>1, <2>2, <2>3, <2>4 DEF Next, Progress
  <1>3. CASE Patient
    BY <1>1, <1>2, <1>3, AlwaysServed, PTL DEF Spec, StreamKept, Stream!Spec
  <1>. QED  BY <1>3
=============================================================================
