-------------------------- MODULE ClaxFiles_proofs --------------------------
(***************************************************************************)
(* While each path is used by one request at a time, the chains of         *)
(* operations of /tree keep what they promise, for every number of         *)
(* clients, whatever the paths, the sizes and the files there are: a       *)
(* checksum is that of the body it is sent with, an error has a reason,    *)
(* and every request is one atomic operation of FileStore.                 *)
(***************************************************************************)
EXTENDS ClaxFiles, SequenceTheorems, TLAPS

-----------------------------------------------------------------------------
(* The inductive invariant.                                                *)

Marks == Clients \cup {"old", "hole"}
Contents == Seq(Marks)

Job ==
  [pc : {"idle", "copying", "checking", "removing", "stat", "opening", "summing", "sending",
         "unlinking", "silent", "done"},
   handle : Nat, sum : Nat, pos : Nat, got : Contents,
   reply : [status : Nat, body : Contents], before : SUBSET Contents]

TypeOK ==
  /\ folders \in SUBSET Paths
  /\ data \in Seq(Contents)
  /\ DOMAIN files \subseteq Paths
  /\ files \in [DOMAIN files -> DOMAIN data]
  /\ req \in [Clients -> Requests]
  /\ job \in [Clients -> Job]

\* Nothing is a file and a folder, and no inode has two names.
TreeOK ==
  /\ \A p \in DOMAIN files : p \notin folders
  /\ \A p, q \in DOMAIN files : files[p] = files[q] => p = q

\* No two requests under way are for one path.
Busy(c) == job[c].pc \notin {"idle", "silent", "done"}

Apart == \A c, d \in Clients : c # d /\ Busy(c) /\ Busy(d) => path(c) # path(d)

\* Nothing was read for the checksum yet, or the file at the path is being read
\* and what was read is what stands before the position.
Reading(c) ==
  /\ IsFile(path(c))
  /\ \/ job[c].sum = 0 /\ job[c].pos = 0 /\ job[c].got = << >>
     \/ /\ job[c].sum = files[path(c)]
        /\ job[c].pos \in 0..Len(data[job[c].sum])
        /\ job[c].got = SubSeq(data[job[c].sum], 1, job[c].pos)

Fresh(c) == job[c].sum = 0 /\ job[c].pos = 0 /\ job[c].got = << >>

\* Where the request of c has got to, and what it has in its hands then.
IdleOK(c) ==
  job[c].pc = "idle" => Fresh(c) /\ job[c].handle = 0 /\ job[c].reply = Silence
CopyingOK(c) ==
  job[c].pc = "copying" =>
    /\ req[c].op = "upload" /\ req[c].size > 0 /\ job[c].reply = Silence
    /\ job[c].sum = 0 /\ job[c].got = << >>
    /\ job[c].before \in {{}} \cup {{x} : x \in job[c].before}
    /\ job[c].handle = 0 => job[c].pos = 0 /\ job[c].before = Before(c)
    /\ job[c].handle # 0 =>
         /\ IsFile(path(c)) /\ files[path(c)] = job[c].handle
         /\ job[c].pos \in 0..req[c].size
         /\ data[job[c].handle] = [i \in 1..job[c].pos |-> c]
CheckingOK(c) ==
  job[c].pc = "checking" =>
    /\ req[c].op = "upload" /\ req[c].crc \in {"right", "wrong"} /\ job[c].reply = Silence
    /\ job[c].before \in {{}} \cup {{x} : x \in job[c].before}
    /\ job[c].handle = 0 /\ Reading(c)
RemovingOK(c) ==
  job[c].pc = "removing" =>
    /\ req[c].op = "upload" /\ job[c].reply = Silence
    /\ job[c].before \in {{}} \cup {{x} : x \in job[c].before}
    /\ job[c].handle = 0 /\ job[c].sum = 0 /\ IsFile(path(c))
LookingOK(c) ==
  job[c].pc \in {"stat", "opening"} =>
    /\ req[c].op = "download" /\ job[c].reply = Silence
    /\ Fresh(c) /\ job[c].handle = 0
    /\ job[c].pc = "opening" => IsFile(path(c))
SummingOK(c) ==
  job[c].pc = "summing" =>
    /\ req[c].op = "download" /\ job[c].reply = Silence
    /\ Reading(c) /\ job[c].handle = files[path(c)]
SendingOK(c) ==
  job[c].pc = "sending" =>
    /\ req[c].op = "download" /\ job[c].reply.status = 0
    /\ IsFile(path(c)) /\ job[c].handle = files[path(c)]
    /\ job[c].got = data[job[c].handle]
    /\ job[c].pos \in 0..Len(data[job[c].handle])
    /\ job[c].reply.body = SubSeq(data[job[c].handle], 1, job[c].pos)
UnlinkingOK(c) ==
  job[c].pc = "unlinking" =>
    req[c].op = "delete" /\ job[c].reply = Silence /\ Fresh(c) /\ job[c].handle = 0
SilentOK(c) == job[c].pc = "silent" => job[c].reply = Silence

JobOK(c) ==
  /\ IdleOK(c) /\ CopyingOK(c) /\ CheckingOK(c) /\ RemovingOK(c)
  /\ LookingOK(c) /\ SummingOK(c) /\ SendingOK(c)
  /\ UnlinkingOK(c) /\ SilentOK(c)

IInv == TypeOK /\ TreeOK /\ Apart /\ \A c \in Clients : JobOK(c)

-----------------------------------------------------------------------------
(* Paths and the file system.                                              *)

\* The folder of a path is the root, or on the way to the path.
LEMMA ParentOnTheWay ==
  ASSUME NEW p \in Paths
  PROVE  /\ p \in Seq(STRING) /\ p # << >> /\ Proper(p) \subseteq Paths
         /\ Parent(p) = << >> \/ Parent(p) \in Proper(p)
         /\ Parent(p) # << >> => Proper(Parent(p)) \subseteq Proper(p)
  <1>1. p \in Seq(STRING) /\ p # << >> /\ Proper(p) \subseteq Paths
    BY PathsAssumption
  <1>2. CASE Len(p) = 1
    BY <1>1, <1>2, SubSeqEmpty DEF Parent
  <1>3. CASE Len(p) # 1
    <2>1. Len(p) - 1 \in 1..(Len(p) - 1)
      <3>1. \A s \in Seq(STRING) : s # << >> => Len(s) \in Nat \ {0}
        BY EmptySeq, Zenon
      <3>2. Len(p) \in Nat \ {0}
        BY <1>1, <3>1, Zenon
      <3>3. \A n \in Nat \ {0} : n # 1 => n - 1 \in 1..(n - 1)
        OBVIOUS
      <3>. QED  BY <1>3, <3>2, <3>3, Zenon
    <2>2. Parent(p) \in Proper(p)
      BY <2>1 DEF Parent, Proper
    <2>3. Proper(Parent(p)) \subseteq Proper(p)
      <3>1. Len(Parent(p)) = Len(p) - 1
        BY <1>1, <2>1, SubSeqProperties DEF Parent
      <3>2. ASSUME NEW k \in 1..(Len(Parent(p)) - 1)
            PROVE  SubSeq(Parent(p), 1, k) = SubSeq(p, 1, k)
        BY <1>1, <2>1, <3>1, SubSeqOfSubSeq DEF Parent
      <3>. QED  BY <2>1, <3>1, <3>2 DEF Proper
    <2>. QED  BY <1>1, <2>2, <2>3
  <1>. QED  BY <1>2, <1>3, <1>1

\* What clax_mkdir_p makes are paths, and no files.
LEMMA MadeFolders ==
  ASSUME TypeOK, NEW p \in Paths
  PROVE  /\ clax_mkdir_p(p) \subseteq Paths /\ clax_mkdir_p(Parent(p)) \subseteq Paths
         /\ \A q \in clax_mkdir_p(p) \cup clax_mkdir_p(Parent(p)) : ~IsFile(q)
         /\ p \notin clax_mkdir_p(Parent(p))
  <1>1. clax_mkdir_p(p) \subseteq Paths /\ \A q \in clax_mkdir_p(p) : ~IsFile(q)
    BY ParentOnTheWay DEF clax_mkdir_p, clax_mkdir_p_ok
  <1>2. /\ clax_mkdir_p(Parent(p)) \subseteq Proper(p)
        /\ \A q \in clax_mkdir_p(Parent(p)) : ~IsFile(q)
    BY ParentOnTheWay DEF clax_mkdir_p, clax_mkdir_p_ok
  <1>3. p \notin Proper(p)
    <2>1. \A k \in 1..(Len(p) - 1) : Len(SubSeq(p, 1, k)) = k
      BY ParentOnTheWay, SubSeqProperties
    <2>. QED  BY <2>1, ParentOnTheWay DEF Proper
  <1>. QED  BY <1>1, <1>2, <1>3, ParentOnTheWay

-----------------------------------------------------------------------------
(* What a step of one request does to the files and to the others.         *)

\* The four things a step of c may do to the files: nothing, to remove the file
\* at the path, to create it, or to change what is in it.
Touches(c) ==
  \/ UNCHANGED <<files, data>>
  \/ IsFile(path(c)) /\ Unlink(path(c))
  \/ ~IsFile(path(c)) /\ path(c) \notin folders' /\ Create(path(c))
  \/ /\ IsFile(path(c)) /\ UNCHANGED files
     /\ \E x \in Contents : data' = [data EXCEPT ![files[path(c)]] = x]

\* Folders are only made, where nothing is.
Makes(c) ==
  /\ folders \subseteq folders' /\ folders' \subseteq Paths
  /\ \A q \in folders' \ folders : ~IsFile(q)

\* A step of c is about its own path, and its own job.
Own(c) ==
  /\ UNCHANGED req
  /\ Touches(c) /\ Makes(c)
  /\ \A d \in Clients \ {c} : job'[d] = job[d]

\* The files at other paths stay as they are.
OthersKept(c) ==
  /\ \A q : q # path(c) => (IsFile(q) <=> IsFile(q)')
  /\ \A q \in DOMAIN files :
       q # path(c) => /\ files'[q] = files[q]
                      /\ files[q] \in DOMAIN data /\ data'[files[q]] = data[files[q]]

LEMMA TouchesFrame ==
  ASSUME TypeOK, TreeOK, NEW c \in Clients, Own(c)
  PROVE  /\ OthersKept(c) /\ TreeOK'
         /\ data' \in Seq(Contents) /\ DOMAIN files' \subseteq Paths
         /\ files' \in [DOMAIN files' -> DOMAIN data']
         /\ folders' \in SUBSET Paths
  <1>1. path(c) \in Paths /\ path(c)' = path(c)
    BY RequestsAssumption DEF TypeOK, path, Own, Request
  <1>2. folders' \in SUBSET Paths
    BY DEF Own, Makes
  <1>3. CASE UNCHANGED <<files, data>>
    BY <1>1, <1>2, <1>3 DEF TypeOK, TreeOK, OthersKept, Own, Makes, IsFile
  <1>4. CASE IsFile(path(c)) /\ Unlink(path(c))
    BY <1>1, <1>2, <1>4 DEF TypeOK, TreeOK, OthersKept, Own, Makes, IsFile, Unlink
  <1>5. CASE ~IsFile(path(c)) /\ path(c) \notin folders' /\ Create(path(c))
    <2> DEFINE n == Len(data) + 1
    <2>1. /\ DOMAIN files' = DOMAIN files \cup {path(c)}
          /\ files'[path(c)] = n
          /\ \A q \in DOMAIN files : files'[q] = files[q]
          /\ files' = [q \in DOMAIN files' |-> files'[q]]
      BY <1>5 DEF Create, IsFile
    <2>2. /\ data' \in Seq(Contents) /\ DOMAIN data' = DOMAIN data \cup {n}
          /\ n \notin DOMAIN data
          /\ \A i \in DOMAIN data : data'[i] = data[i]
      BY <1>5 DEF Create, TypeOK, Contents
    <2>. HIDE DEF n
    <2>3. files' \in [DOMAIN files' -> DOMAIN data']
      BY <2>1, <2>2 DEF TypeOK
    <2>4. OthersKept(c)
      BY <1>1, <1>5, <2>1, <2>2 DEF TypeOK, OthersKept, IsFile
    <2>5. TreeOK'
      BY <1>5, <2>1, <2>2 DEF TypeOK, TreeOK, Own, Makes, IsFile
    <2>. QED  BY <1>1, <1>2, <2>1, <2>2, <2>3, <2>4, <2>5 DEF TypeOK
  <1>6. CASE /\ IsFile(path(c)) /\ UNCHANGED files
             /\ \E x \in Contents : data' = [data EXCEPT ![files[path(c)]] = x]
    BY <1>1, <1>2, <1>6 DEF TypeOK, TreeOK, OthersKept, Own, Makes, IsFile
  <1>. QED  BY <1>3, <1>4, <1>5, <1>6 DEF Own, Touches

\* A request under way at another path does not notice.
LEMMA OthersOK ==
  ASSUME TypeOK, TreeOK, NEW c \in Clients, Own(c),
         NEW d \in Clients \ {c}, JobOK(d), Busy(d) => path(d) # path(c)
  PROVE  JobOK(d)'
  <1>1. OthersKept(c)
    BY TouchesFrame
  <1>2. job'[d] = job[d] /\ req' = req /\ path(d)' = path(d)
    BY DEF Own, path
  <1>3. CASE ~Busy(d)
    BY <1>2, <1>3 DEF Busy, JobOK, IdleOK, CopyingOK, CheckingOK, RemovingOK, LookingOK,
         SummingOK, SendingOK, UnlinkingOK, SilentOK, Fresh
  <1>4. CASE Busy(d)
    <2> DEFINE p == path(d)
    <2>1. IsFile(p) <=> IsFile(p)'
      BY <1>1, <1>2, <1>4 DEF OthersKept, IsFile
    <2>2. IsFile(p) => files'[p] = files[p] /\ data'[files[p]] = data[files[p]]
      BY <1>1, <1>4 DEF OthersKept, IsFile
    <2>3. Before(d)' = Before(d)
      BY <1>2, <2>1, <2>2 DEF Before
    <2>4. Reading(d) => Reading(d)'
      BY <1>2, <2>1, <2>2 DEF Reading
    <2>5. /\ IdleOK(d)' /\ LookingOK(d)' /\ RemovingOK(d)'
          /\ UnlinkingOK(d)' /\ SilentOK(d)'
      BY <1>2, <2>1 DEF JobOK, IdleOK, LookingOK, RemovingOK, UnlinkingOK, SilentOK, Fresh
    <2>6. CopyingOK(d)'
      BY <1>2, <2>1, <2>2, <2>3 DEF JobOK, CopyingOK
    <2>7. CheckingOK(d)' /\ SummingOK(d)'
      BY <1>2, <2>1, <2>2, <2>4 DEF JobOK, CheckingOK, SummingOK, Reading
    <2>8. SendingOK(d)'
      BY <1>2, <2>1, <2>2 DEF JobOK, SendingOK
    <2>. QED  BY <2>5, <2>6, <2>7, <2>8 DEF JobOK
  <1>. QED  BY <1>3, <1>4

-----------------------------------------------------------------------------
(* The job of a request after a step of its own.                           *)

LEMMA RepliesIs ==
  ASSUME TypeOK, NEW c \in Clients, NEW s \in Nat, Replies(c, s)
  PROVE  /\ job' \in [Clients -> Job]
         /\ \A d \in Clients \ {c} : job'[d] = job[d]
         /\ job'[c].pc = "done" /\ job'[c].handle = job[c].handle /\ job'[c].sum = job[c].sum
         /\ job'[c].got = job[c].got
         /\ job'[c].reply = [job[c].reply EXCEPT !.status = s]
         /\ JobOK(c)'
  <1> DEFINE x == [job[c] EXCEPT !.pc = "done", !.reply.status = s]
  <1>1. job[c] \in Job
    BY DEF TypeOK
  <1>2. /\ x \in Job /\ x.pc = "done" /\ x.handle = job[c].handle /\ x.sum = job[c].sum
        /\ x.got = job[c].got /\ x.reply = [job[c].reply EXCEPT !.status = s]
    BY <1>1 DEF Job
  <1>. HIDE DEF x
  <1>3. /\ job' \in [Clients -> Job]
        /\ \A d \in Clients \ {c} : job'[d] = job[d]
        /\ job'[c] = x
    BY <1>2 DEF Replies, TypeOK, x
  <1>4. JobOK(c)'
    BY <1>2, <1>3 DEF JobOK, IdleOK, CopyingOK, CheckingOK, RemovingOK, LookingOK,
         SummingOK, SendingOK, UnlinkingOK, SilentOK
  <1>. QED  BY <1>2, <1>3, <1>4

LEMMA GoesIs ==
  ASSUME TypeOK, NEW c \in Clients, NEW k \in {"removing", "stat", "opening", "unlinking", "silent"},
         Goes(c, k)
  PROVE  /\ job' \in [Clients -> Job]
         /\ \A d \in Clients \ {c} : job'[d] = job[d]
         /\ job'[c].pc = k /\ job'[c].handle = job[c].handle /\ Fresh(c)'
         /\ job'[c].reply = job[c].reply /\ job'[c].before = job[c].before
  <1> DEFINE x == [job[c] EXCEPT !.pc = k, !.sum = 0, !.pos = 0, !.got = << >>]
  <1>1. job[c] \in Job /\ << >> \in Contents
    BY DEF TypeOK, Contents
  <1>2. /\ x \in Job /\ x.pc = k /\ x.handle = job[c].handle
        /\ x.sum = 0 /\ x.pos = 0 /\ x.got = << >>
        /\ x.reply = job[c].reply /\ x.before = job[c].before
    BY <1>1 DEF Job
  <1>. HIDE DEF x
  <1>3. /\ job' \in [Clients -> Job]
        /\ \A d \in Clients \ {c} : job'[d] = job[d]
        /\ job'[c] = x
    BY <1>2 DEF Goes, TypeOK, x
  <1>. QED  BY <1>2, <1>3 DEF Fresh

LEMMA StoredIs ==
  ASSUME TypeOK, NEW c \in Clients, NEW b \in SUBSET Contents, Stored(c, b)
  PROVE  /\ job' \in [Clients -> Job]
         /\ \A d \in Clients \ {c} : job'[d] = job[d]
         /\ job'[c].pc = NextAfterStore(c) /\ job'[c].handle = 0 /\ job'[c].pos = 0
         /\ job'[c].sum = job[c].sum /\ job'[c].got = job[c].got
         /\ job'[c].reply.status = (IF NextAfterStore(c) = "done" THEN 204 ELSE 0)
         /\ job'[c].reply.body = job[c].reply.body /\ job'[c].before = b
         /\ job[c].reply = Silence /\ job'[c].pc = "checking" => job'[c].reply = Silence
  <1> DEFINE s == IF NextAfterStore(c) = "done" THEN 204 ELSE 0
             x == [job[c] EXCEPT !.pc = NextAfterStore(c), !.handle = 0, !.pos = 0,
                                 !.before = b, !.reply.status = s]
  <1>1. job[c] \in Job /\ s \in Nat /\ NextAfterStore(c) \in {"checking", "done"}
    BY DEF TypeOK, NextAfterStore
  <1>2. s = IF NextAfterStore(c) = "done" THEN 204 ELSE 0
    OBVIOUS
  <1>. HIDE DEF s
  <1>3. /\ x \in Job /\ x.pc = NextAfterStore(c) /\ x.handle = 0 /\ x.pos = 0
        /\ x.sum = job[c].sum /\ x.got = job[c].got
        /\ x.reply = [job[c].reply EXCEPT !.status = s] /\ x.before = b
    BY <1>1 DEF Job
  <1>4. x.reply.status = s /\ x.reply.body = job[c].reply.body
    BY <1>1, <1>3 DEF Job
  <1>5. /\ job' \in [Clients -> Job]
        /\ \A d \in Clients \ {c} : job'[d] = job[d]
        /\ job'[c] = x
    BY <1>1, <1>3 DEF Stored, TypeOK, s
  <1>. HIDE DEF x
  <1>6. job[c].reply = Silence /\ s = 0 => x.reply = Silence
    BY <1>1, <1>3 DEF Job, Silence
  <1>. QED  BY <1>1, <1>2, <1>3, <1>4, <1>5, <1>6

-----------------------------------------------------------------------------
(* Every operation is about its own path, and leaves its job right.        *)

Good(c) == Own(c) /\ job' \in [Clients -> Job] /\ JobOK(c)'

\* A request is one of the requests.
LEMMA RequestOf ==
  ASSUME TypeOK, NEW c \in Clients
  PROVE  /\ req[c] \in Request /\ path(c) \in Paths /\ job[c] \in Job
         /\ req[c].size \in Nat
  BY RequestsAssumption DEF TypeOK, path, Request

\* Only the job changes.
LEMMA StillOwn ==
  ASSUME TypeOK, NEW c \in Clients, UNCHANGED <<folders, files, data, req>>,
         \A d \in Clients \ {c} : job'[d] = job[d]
  PROVE  Own(c)
  BY DEF Own, Touches, Makes, TypeOK

\* A reply, whatever happens to the files.
LEMMA RepliesGood ==
  ASSUME IInv, NEW c \in Clients, NEW s \in Nat, Replies(c, s),
         UNCHANGED req, Touches(c), Makes(c)
  PROVE  Good(c)
  <1>1. /\ job' \in [Clients -> Job] /\ JobOK(c)'
        /\ \A d \in Clients \ {c} : job'[d] = job[d]
    BY RepliesIs DEF IInv
  <1>. QED  BY <1>1 DEF Good, Own

\* A reply that leaves the files alone.
LEMMA RepliesOnlyGood ==
  ASSUME IInv, NEW c \in Clients, NEW s \in Nat, Replies(c, s),
         UNCHANGED <<folders, files, data, req>>
  PROVE  Good(c)
  BY RepliesGood DEF Touches, Makes, IInv, TypeOK

LEMMA UploadFailsGood ==
  ASSUME IInv, NEW c \in Clients,
         UploadFails(c) \/ SumFails(c, "checking") \/ SumFails(c, "summing")
  PROVE  Good(c)
  BY RepliesOnlyGood DEF UploadFails, SumFails

LEMMA UploadGood ==
  ASSUME IInv, NEW c \in Clients, Upload(c)
  PROVE  Good(c)
  <1> DEFINE x == [job[c] EXCEPT !.pc = "copying", !.before = Before(c)]
  <1>1. /\ job[c].pc = "idle" /\ req[c].op = "upload" /\ req[c].size > 0
        /\ Fresh(c) /\ job[c].handle = 0 /\ job[c].reply = Silence
    BY DEF Upload, Arrives, IInv, JobOK, IdleOK
  <1>2. job[c] \in Job /\ Before(c) \in SUBSET Contents
    BY DEF IInv, TypeOK, Before, IsFile
  <1>3. Before(c) \in {{}} \cup {{y} : y \in Before(c)}
    BY DEF Before
  <1>. HIDE DEF Before
  <1>4. /\ x \in Job /\ x.pc = "copying" /\ x.handle = 0 /\ x.sum = 0 /\ x.pos = 0
        /\ x.got = << >> /\ x.reply = Silence /\ x.before = Before(c)
    BY <1>1, <1>2 DEF Job, Fresh
  <1>5. /\ job' \in [Clients -> Job] /\ job'[c] = x
        /\ \A d \in Clients \ {c} : job'[d] = job[d]
    <2>1. job' = [job EXCEPT ![c] = x]
      BY DEF Upload, IInv, TypeOK, Job
    <2>. HIDE DEF x
    <2>. QED  BY <1>4, <2>1 DEF IInv, TypeOK
  <1>. HIDE DEF x
  <1>6. UNCHANGED <<files, data, req>> /\ Before(c)' = Before(c)
    BY DEF Upload, Before, path, IsFile
  <1>7. Own(c)
    BY <1>5, <1>6, MadeFolders, RequestOf DEF Upload, Own, Touches, Makes, IInv, TypeOK
  <1>8. JobOK(c)'
    BY <1>1, <1>3, <1>4, <1>5, <1>6 DEF JobOK, IdleOK, CopyingOK, CheckingOK, RemovingOK,
         LookingOK, SummingOK, SendingOK, UnlinkingOK, SilentOK
  <1>. QED  BY <1>5, <1>7, <1>8 DEF Good

\* A file is stored: its check, if there is one, begins with nothing read.
LEMMA StoredGood ==
  ASSUME IInv, NEW c \in Clients, NEW b \in SUBSET Contents, Stored(c, b), Own(c),
         b \in {{}} \cup {{x} : x \in b}, IsFile(path(c))', req[c].op = "upload",
         job[c].sum = 0, job[c].got = << >>, job[c].reply = Silence
  PROVE  Good(c)
  <1>1. /\ job' \in [Clients -> Job]
        /\ job'[c].pc = NextAfterStore(c) /\ job'[c].handle = 0 /\ job'[c].pos = 0
        /\ job'[c].sum = job[c].sum /\ job'[c].got = job[c].got
        /\ job'[c].before = b
        /\ job[c].reply = Silence /\ job'[c].pc = "checking" => job'[c].reply = Silence
    BY StoredIs DEF IInv
  <1>2. req' = req
    BY DEF Own
  <1>3. CASE job'[c].pc = "done"
    BY <1>1, <1>3 DEF Good, JobOK, IdleOK, CopyingOK, CheckingOK, RemovingOK,
         LookingOK, SummingOK, SendingOK, UnlinkingOK, SilentOK
  <1>4. CASE job'[c].pc = "checking"
    <2>1. req[c].crc \in {"right", "wrong"}
      BY <1>1, <1>4 DEF NextAfterStore
    <2>2. Reading(c)'
      BY <1>1 DEF Reading
    <2>3. CheckingOK(c)'
      BY <1>1, <1>2, <1>4, <2>1, <2>2 DEF CheckingOK
    <2>. QED  BY <1>1, <1>4, <2>3 DEF Good, JobOK, IdleOK, CopyingOK, RemovingOK,
                LookingOK, SummingOK, SendingOK, UnlinkingOK, SilentOK
  <1>. QED  BY <1>1, <1>3, <1>4 DEF NextAfterStore

LEMMA UploadEmptyGood ==
  ASSUME IInv, NEW c \in Clients, UploadEmpty(c)
  PROVE  Good(c)
  <1>1. /\ job[c].pc = "idle" /\ req[c].op = "upload" /\ Fresh(c) /\ job[c].reply = Silence
        /\ job[c].handle = 0 /\ req' = req /\ path(c)' = path(c)
    BY DEF UploadEmpty, Arrives, IInv, JobOK, IdleOK, path
  <1>2. /\ folders' = folders \cup clax_mkdir_p(Parent(path(c)))
        /\ Makes(c)
    BY MadeFolders, RequestOf DEF UploadEmpty, Makes, IInv, TypeOK
  <1>3. CASE Goes(c, "silent") /\ UNCHANGED <<files, data>>
    <2>1. /\ job' \in [Clients -> Job] /\ job'[c].pc = "silent"
          /\ \A d \in Clients \ {c} : job'[d] = job[d]
          /\ job'[c].reply = job[c].reply
      BY <1>3, GoesIs DEF IInv
    <2>. QED  BY <1>1, <1>2, <1>3, <2>1 DEF Good, Own, Touches, JobOK, IdleOK, CopyingOK,
                CheckingOK, RemovingOK, LookingOK, SummingOK, SendingOK, UnlinkingOK, SilentOK
  <1>4. CASE IsFile(path(c)) /\ Stored(c, Before(c)) /\ UNCHANGED <<files, data>>
    <2>1. Before(c) \in SUBSET Contents /\ Before(c) \in {{}} \cup {{y} : y \in Before(c)}
      BY DEF IInv, TypeOK, Before, IsFile
    <2>2. \A d \in Clients \ {c} : job'[d] = job[d]
      BY <1>4, <2>1, StoredIs DEF IInv
    <2>3. Own(c) /\ IsFile(path(c))'
      BY <1>1, <1>2, <1>4, <2>2 DEF Own, Touches, IsFile
    <2>. QED  BY <1>1, <1>4, <2>1, <2>3, StoredGood DEF Fresh
  <1>5. CASE CanWrite(path(c))' /\ ~IsFile(path(c)) /\ Stored(c, {}) /\ Create(path(c))
    <2>1. path(c) \notin folders'
      BY <1>1, <1>5 DEF CanWrite, IsFolder
    <2>2. \A d \in Clients \ {c} : job'[d] = job[d]
      BY <1>5, StoredIs DEF IInv
    <2>3. Own(c) /\ IsFile(path(c))'
      BY <1>1, <1>2, <1>5, <2>1, <2>2 DEF Own, Touches, IsFile, Create
    <2>. QED  BY <1>1, <1>5, <2>3, StoredGood DEF Fresh
  <1>. QED  BY <1>3, <1>4, <1>5 DEF UploadEmpty

LEMMA CopyOpenGood ==
  ASSUME IInv, NEW c \in Clients, CopyOpen(c)
  PROVE  Good(c)
  <1>1. /\ job[c].pc = "copying" /\ job[c].handle = 0 /\ CopyingOK(c) /\ job[c] \in Job
        /\ req' = req /\ folders' = folders /\ path(c)' = path(c)
    BY RequestOf DEF CopyOpen, IInv, JobOK, path
  <1>2. Makes(c)
    BY <1>1 DEF Makes, IInv, TypeOK
  <1>3. CASE Replies(c, 500) /\ UNCHANGED <<files, data>>
    BY <1>1, <1>3, RepliesOnlyGood
  <1>4. ASSUME NEW h \in Nat \ {0}, job' = [job EXCEPT ![c].handle = h], Touches(c),
               IsFile(path(c))', files'[path(c)] = h, data'[h] = << >>
        PROVE  Good(c)
    <2> DEFINE x == [job[c] EXCEPT !.handle = h]
    <2>1. /\ x \in Job /\ x.pc = "copying" /\ x.handle = h /\ x.sum = job[c].sum
          /\ x.pos = job[c].pos /\ x.got = job[c].got /\ x.reply = job[c].reply
          /\ x.before = job[c].before
      BY <1>1 DEF Job
    <2>2. job' \in [Clients -> Job] /\ job'[c] = x /\ \A d \in Clients \ {c} : job'[d] = job[d]
      BY <1>4, <2>1 DEF IInv, TypeOK
    <2>. HIDE DEF x
    <2>3. CopyingOK(c)'
      <3>1. job'[c].pos = 0 /\ req[c].size \in Nat /\ req[c].size > 0
        BY <1>1, <2>1, <2>2, RequestOf DEF CopyingOK, IInv
      <3>2. data'[h] = [i \in 1..0 |-> c]
        BY <1>4
      <3>. QED  BY <1>1, <1>4, <2>1, <2>2, <3>1, <3>2 DEF CopyingOK
    <2>4. Own(c)
      BY <1>1, <1>2, <1>4, <2>2 DEF Own
    <2>. QED  BY <2>1, <2>2, <2>3, <2>4 DEF Good, JobOK, IdleOK, CheckingOK, RemovingOK,
                LookingOK, SummingOK, SendingOK, UnlinkingOK, SilentOK
  <1>5. CASE /\ IsFile(path(c)) /\ data' = [data EXCEPT ![files[path(c)]] = << >>]
             /\ job' = [job EXCEPT ![c].handle = files[path(c)]] /\ UNCHANGED files
    <2>1. files[path(c)] \in DOMAIN data /\ files[path(c)] \in Nat \ {0} /\ << >> \in Contents
      BY <1>5 DEF IInv, TypeOK, IsFile, Contents
    <2>2. Touches(c) /\ data'[files[path(c)]] = << >> /\ IsFile(path(c))'
      BY <1>1, <1>5, <2>1 DEF Touches, IInv, TypeOK, IsFile
    <2>. QED  BY <1>4, <1>5, <2>1, <2>2
  <1>6. CASE /\ CanWrite(path(c)) /\ ~IsFile(path(c)) /\ Create(path(c))
             /\ job' = [job EXCEPT ![c].handle = Len(data) + 1]
    <2>1. Len(data) + 1 \in Nat \ {0} /\ data'[Len(data) + 1] = << >>
      BY <1>6 DEF IInv, TypeOK, Create
    <2>2. /\ Touches(c) /\ IsFile(path(c))' /\ files'[path(c)] = Len(data) + 1
      BY <1>1, <1>6 DEF Touches, Create, CanWrite, IsFolder, IsFile
    <2>. QED  BY <1>4, <1>6, <2>1, <2>2
  <1>. QED  BY <1>3, <1>5, <1>6 DEF CopyOpen

\* A piece written behind the others of its sender leaves no hole.
LEMMA WrittenBehind ==
  ASSUME NEW c \in Clients, NEW n \in Nat
  PROVE  /\ Written([i \in 1..n |-> c], n, c) = [i \in 1..(n + 1) |-> c]
         /\ [i \in 1..(n + 1) |-> c] \in Contents
  <1> DEFINE x == [i \in 1..n |-> c]
  <1>1. x \in Contents /\ Len(x) = n /\ \A i \in 1..n : x[i] = c
    BY DEF Contents, Marks
  <1>. HIDE DEF x
  <1>2. Written(x, n, c) = [i \in 1..(n + 1) |-> c]
    BY <1>1 DEF Written
  <1>. QED  BY <1>2 DEF x, Contents, Marks

LEMMA CopyWriteGood ==
  ASSUME IInv, NEW c \in Clients, CopyWrite(c)
  PROVE  Good(c)
  <1>1. /\ job[c].pc = "copying" /\ CopyingOK(c) /\ job[c] \in Job /\ req[c].size \in Nat
        /\ job[c].pos < req[c].size /\ job[c].handle # 0
        /\ req' = req /\ folders' = folders /\ files' = files /\ path(c)' = path(c)
    BY RequestOf DEF CopyWrite, IInv, JobOK, path
  <1> DEFINE h == job[c].handle
             n == job[c].pos
             y == [i \in 1..(n + 1) |-> c]
             x == [job[c] EXCEPT !.pos = n + 1]
  <1>2. /\ n \in Nat /\ n + 1 \in 0..req[c].size
        /\ IsFile(path(c)) /\ files[path(c)] = h /\ data[h] = [i \in 1..n |-> c]
    BY <1>1 DEF CopyingOK
  <1>3. h \in DOMAIN data
    BY <1>2 DEF IInv, TypeOK, IsFile
  <1>4. data' = [data EXCEPT ![h] = y] /\ y \in Contents
    BY <1>2, <1>3, WrittenBehind DEF CopyWrite
  <1>5. /\ x \in Job /\ x.pc = "copying" /\ x.handle = h /\ x.sum = job[c].sum
        /\ x.pos = n + 1 /\ x.got = job[c].got /\ x.reply = job[c].reply
        /\ x.before = job[c].before
    BY <1>1, <1>2 DEF Job
  <1>6. job' \in [Clients -> Job] /\ job'[c] = x /\ \A d \in Clients \ {c} : job'[d] = job[d]
    BY <1>5 DEF CopyWrite, IInv, TypeOK
  <1>7. data'[h] = y
    BY <1>3, <1>4 DEF IInv, TypeOK
  <1>8. Own(c)
    <2>1. Makes(c)
      BY <1>1 DEF Makes, IInv, TypeOK
    <2>2. Touches(c)
      BY <1>1, <1>2, <1>4 DEF Touches
    <2>. QED  BY <1>1, <1>6, <2>1, <2>2 DEF Own
  <1>. HIDE DEF x, y, n
  <1>9. CopyingOK(c)'
    <2>1. y = [i \in 1..job'[c].pos |-> c]
      BY <1>5, <1>6 DEF y
    <2>2. IsFile(path(c))'
      BY <1>1, <1>2 DEF IsFile
    <2>. QED  BY <1>1, <1>2, <1>5, <1>6, <1>7, <2>1, <2>2 DEF CopyingOK
  <1>. QED  BY <1>5, <1>6, <1>8, <1>9 DEF Good, JobOK, IdleOK, CheckingOK, RemovingOK,
              LookingOK, SummingOK, SendingOK, UnlinkingOK, SilentOK

LEMMA CopyFailsGood ==
  ASSUME IInv, NEW c \in Clients, CopyFails(c)
  PROVE  Good(c)
  <1>1. IsFile(path(c))
    BY DEF CopyFails, IInv, JobOK, CopyingOK
  <1>2. Touches(c) /\ Makes(c)
    BY <1>1 DEF CopyFails, Touches, Makes, IInv, TypeOK
  <1>. QED  BY <1>2, RepliesGood DEF CopyFails

LEMMA CopiedGood ==
  ASSUME IInv, NEW c \in Clients, Copied(c)
  PROVE  Good(c)
  <1>1. /\ job[c].pc = "copying" /\ CopyingOK(c) /\ job[c] \in Job /\ job[c].handle # 0
        /\ UNCHANGED <<folders, files, data, req>> /\ path(c)' = path(c)
    BY RequestOf DEF Copied, IInv, JobOK, path
  <1>2. job[c].before \in SUBSET Contents
    BY <1>1 DEF Job
  <1>3. \A d \in Clients \ {c} : job'[d] = job[d]
    BY <1>2, StoredIs DEF Copied, IInv
  <1>4. Own(c) /\ IsFile(path(c))'
    BY <1>1, <1>3, StillOwn DEF CopyingOK, IsFile, IInv
  <1>. QED  BY <1>1, <1>2, <1>4, StoredGood DEF Copied, CopyingOK

-----------------------------------------------------------------------------
LEMMA SumOpenGood ==
  ASSUME IInv, NEW c \in Clients, NEW k \in {"checking", "summing"}, SumOpen(c, k)
  PROVE  Good(c)
  <1>1. /\ job[c].pc = k /\ JobOK(c) /\ job[c] \in Job /\ job[c].sum = 0
        /\ UNCHANGED <<folders, files, data, req>> /\ path(c)' = path(c)
    BY RequestOf DEF SumOpen, IInv, path
  <1>2. IsFile(path(c)) /\ job[c].pos = 0 /\ job[c].got = << >>
    BY <1>1 DEF JobOK, CheckingOK, SummingOK, Reading, IInv, TypeOK, IsFile
  <1> DEFINE n == files[path(c)]
             x == [job[c] EXCEPT !.sum = n]
  <1>3. n \in DOMAIN data /\ n \in Nat \ {0}
    BY <1>2 DEF IInv, TypeOK, IsFile
  <1>. HIDE DEF n
  <1>4. /\ x \in Job /\ x.pc = k /\ x.handle = job[c].handle /\ x.sum = n
        /\ x.pos = 0 /\ x.got = << >> /\ x.reply = job[c].reply
        /\ x.before = job[c].before
    BY <1>1, <1>2, <1>3 DEF Job
  <1>5. job' \in [Clients -> Job] /\ job'[c] = x /\ \A d \in Clients \ {c} : job'[d] = job[d]
    <2>1. job' = [job EXCEPT ![c] = x]
      BY <1>2 DEF SumOpen, n, IInv, TypeOK
    <2>. HIDE DEF x
    <2>. QED  BY <1>4, <2>1 DEF IInv, TypeOK
  <1>. HIDE DEF x
  <1>6. Own(c)
    BY <1>1, <1>5, StillOwn DEF IInv
  <1>7. Reading(c)'
    <2>1. data[n] \in Contents
      BY <1>3 DEF IInv, TypeOK
    <2>2. 0 \in 0..Len(data[n]) /\ SubSeq(data[n], 1, 0) = << >>
      BY <2>1, SubSeqEmpty DEF Contents
    <2>. QED  BY <1>1, <1>2, <1>4, <1>5, <2>2 DEF Reading, IsFile, n
  <1>8. CheckingOK(c)' /\ SummingOK(c)'
    BY <1>1, <1>2, <1>4, <1>5, <1>7 DEF JobOK, CheckingOK, SummingOK
  <1>. QED  BY <1>1, <1>4, <1>5, <1>6, <1>8 DEF Good, JobOK, IdleOK, CopyingOK, RemovingOK,
              LookingOK, SendingOK, UnlinkingOK, SilentOK

\* The first i + 1 elements are the first i and one more.
LEMMA OneMore ==
  ASSUME NEW s \in Contents, NEW i \in Nat, i < Len(s)
  PROVE  /\ Append(SubSeq(s, 1, i), s[i + 1]) = SubSeq(s, 1, i + 1)
         /\ SubSeq(s, 1, i + 1) \in Contents /\ i + 1 \in 0..Len(s)
  <1>1. s \in Seq(Marks) /\ Len(s) \in Nat
    BY DEF Contents
  <1>2. \A j \in 1..(i + 1) : s[j] \in Marks
    BY <1>1
  <1> DEFINE a == SubSeq(s, 1, i)
             b == SubSeq(s, 1, i + 1)
  <1>3. a \in Seq(Marks) /\ Len(a) = i /\ \A j \in 1..i : a[j] = s[j]
    <2>1. \A j \in 1..i : s[j] \in Marks
      BY <1>2
    <2>2. /\ SubSeq(s, 1, i) \in Seq(Marks)
          /\ Len(SubSeq(s, 1, i)) = (IF 1 <= i THEN i - 1 + 1 ELSE 0)
          /\ \A j \in 1..(i - 1 + 1) : SubSeq(s, 1, i)[j] = s[1 + j - 1]
      BY <2>1, SubSeqProperties
    <2>. QED  BY <2>2
  <1>4. b \in Seq(Marks) /\ Len(b) = i + 1 /\ \A j \in 1..(i + 1) : b[j] = s[j]
    <2>1. /\ SubSeq(s, 1, i + 1) \in Seq(Marks)
          /\ Len(SubSeq(s, 1, i + 1)) = (IF 1 <= i + 1 THEN i + 1 - 1 + 1 ELSE 0)
          /\ \A j \in 1..(i + 1 - 1 + 1) : SubSeq(s, 1, i + 1)[j] = s[1 + j - 1]
      BY <1>2, SubSeqProperties
    <2>. QED  BY <2>1
  <1>. HIDE DEF a, b
  <1>5. s[i + 1] \in Marks
    BY <1>2
  <1>6. Append(a, s[i + 1]) = b
    BY <1>3, <1>4, <1>5
  <1>. QED  BY <1>1, <1>4, <1>6 DEF a, b, Contents

LEMMA SumReadGood ==
  ASSUME IInv, NEW c \in Clients, NEW k \in {"checking", "summing"}, SumRead(c, k)
  PROVE  Good(c)
  <1>1. /\ job[c].pc = k /\ JobOK(c) /\ job[c] \in Job /\ job[c].sum # 0
        /\ job[c].pos < Len(data[job[c].sum])
        /\ UNCHANGED <<folders, files, data, req>> /\ path(c)' = path(c)
    BY RequestOf DEF SumRead, IInv, path
  <1> DEFINE n == job[c].sum
             i == job[c].pos
             g == Append(job[c].got, data[n][i + 1])
             x == [job[c] EXCEPT !.got = g, !.pos = i + 1]
  <1>2. /\ IsFile(path(c)) /\ n = files[path(c)] /\ i \in 0..Len(data[n])
        /\ job[c].got = SubSeq(data[n], 1, i)
    BY <1>1 DEF JobOK, CheckingOK, SummingOK, Reading
  <1>3. n \in DOMAIN data /\ data[n] \in Contents /\ Len(data[n]) \in Nat
    BY <1>2 DEF IInv, TypeOK, IsFile, Contents
  <1>4. i + 1 \in 1..Len(data[n])
    BY <1>1, <1>2, <1>3
  <1>5. g \in Contents /\ g = SubSeq(data[n], 1, i + 1) /\ i + 1 \in Nat
    <2>1. i \in Nat /\ i < Len(data[n])
      BY <1>1, <1>2
    <2>2. /\ Append(SubSeq(data[n], 1, i), data[n][i + 1]) = SubSeq(data[n], 1, i + 1)
          /\ SubSeq(data[n], 1, i + 1) \in Contents
      BY <1>3, <2>1, OneMore
    <2>3. g = Append(SubSeq(data[n], 1, i), data[n][i + 1])
      BY <1>2, Zenon
    <2>4. i + 1 \in Nat
      BY <2>1
    <2>. HIDE DEF g, n, i
    <2>. QED  BY <2>2, <2>3, <2>4
  <1>. HIDE DEF g
  <1>6. /\ x \in Job /\ x.pc = k /\ x.handle = job[c].handle /\ x.sum = n
        /\ x.pos = i + 1 /\ x.got = g /\ x.reply = job[c].reply
        /\ x.before = job[c].before
    BY <1>1, <1>5 DEF Job
  <1>7. job' \in [Clients -> Job] /\ job'[c] = x /\ \A d \in Clients \ {c} : job'[d] = job[d]
    <2>1. job' = [job EXCEPT ![c] = x]
      BY DEF SumRead, IInv, TypeOK, Job, g
    <2>. HIDE DEF x
    <2>. QED  BY <1>6, <2>1 DEF IInv, TypeOK
  <1>. HIDE DEF x
  <1>8. Own(c)
    BY <1>1, <1>7, StillOwn DEF IInv
  <1>9. Reading(c)'
    BY <1>1, <1>2, <1>3, <1>4, <1>5, <1>6, <1>7 DEF Reading, IsFile
  <1>10. CheckingOK(c)' /\ SummingOK(c)'
    BY <1>1, <1>6, <1>7, <1>9 DEF JobOK, CheckingOK, SummingOK
  <1>. QED  BY <1>1, <1>6, <1>7, <1>8, <1>10 DEF Good, JobOK, IdleOK, CopyingOK, RemovingOK,
              LookingOK, SendingOK, UnlinkingOK, SilentOK

\* clax_dispatch_upload_crc32_ and clax_dispatch_upload_crc32_invalid_.
LEMMA UploadCheckedGood ==
  ASSUME IInv, NEW c \in Clients, UploadChecked(c)
  PROVE  Good(c)
  <1>1. /\ job[c].pc = "checking" /\ CheckingOK(c)
        /\ UNCHANGED <<folders, files, data, req>> /\ path(c)' = path(c)
    BY DEF UploadChecked, Summed, IInv, JobOK, path
  <1>2. CASE Replies(c, 204)
    BY <1>1, <1>2, RepliesOnlyGood
  <1>3. CASE Goes(c, "removing")
    <2>1. /\ job' \in [Clients -> Job] /\ job'[c].pc = "removing"
          /\ \A d \in Clients \ {c} : job'[d] = job[d]
          /\ job'[c].handle = job[c].handle /\ job'[c].sum = 0
          /\ job'[c].reply = job[c].reply /\ job'[c].before = job[c].before
      BY <1>3, GoesIs DEF IInv, Fresh
    <2>2. RemovingOK(c)'
      BY <1>1, <2>1 DEF RemovingOK, CheckingOK, Reading, IsFile
    <2>3. Own(c)
      BY <1>1, <2>1, StillOwn DEF IInv
    <2>. QED  BY <2>1, <2>2, <2>3 DEF Good, JobOK, IdleOK, CopyingOK, CheckingOK,
                LookingOK, SummingOK, SendingOK, UnlinkingOK, SilentOK
  <1>. QED  BY <1>2, <1>3 DEF UploadChecked

\* A file is removed, or is not there.
LEMMA RemovedGood ==
  ASSUME IInv, NEW c \in Clients, BadRemoved(c) \/ Unlinked(c)
  PROVE  Good(c)
  <1>1. PICK s \in {204, 400, 404, 500} : Replies(c, s)
    BY DEF BadRemoved, Unlinked
  <1>2. Touches(c) /\ Makes(c) /\ req' = req
    BY DEF BadRemoved, Unlinked, Touches, Makes, IInv, TypeOK
  <1>. QED  BY <1>1, <1>2, RepliesGood

LEMMA FolderGood ==
  ASSUME IInv, NEW c \in Clients, Folder(c)
  PROVE  Good(c)
  <1>1. PICK s \in {204, 500} : Replies(c, s)
    BY DEF Folder
  <1>2. Touches(c) /\ Makes(c) /\ req' = req
    BY MadeFolders, RequestOf DEF Folder, Touches, Makes, IInv, TypeOK
  <1>. QED  BY <1>1, <1>2, RepliesGood

\* A download or a removal begins.
LEMMA BeginsGood ==
  ASSUME IInv, NEW c \in Clients, Download(c) \/ Delete(c)
  PROVE  Good(c)
  <1>1. PICK k \in {"stat", "unlinking"} :
          Goes(c, k) /\ req[c].op = (IF k = "stat" THEN "download" ELSE "delete")
    BY DEF Download, Delete, Arrives
  <1>2. /\ UNCHANGED <<folders, files, data, req>>
        /\ job[c].reply = Silence /\ job[c].handle = 0
    BY DEF Download, Delete, Arrives, IInv, JobOK, IdleOK
  <1>3. /\ job' \in [Clients -> Job] /\ job'[c].pc = k
        /\ \A d \in Clients \ {c} : job'[d] = job[d]
        /\ job'[c].handle = 0 /\ Fresh(c)' /\ job'[c].reply = Silence
    BY <1>1, <1>2, GoesIs DEF IInv
  <1>4. LookingOK(c)' /\ UnlinkingOK(c)'
    BY <1>1, <1>2, <1>3 DEF LookingOK, UnlinkingOK
  <1>5. Own(c)
    BY <1>2, <1>3, StillOwn DEF IInv
  <1>. QED  BY <1>3, <1>4, <1>5 DEF Good, JobOK, IdleOK, CopyingOK, CheckingOK, RemovingOK,
              SummingOK, SendingOK, SilentOK

LEMMA StattedGood ==
  ASSUME IInv, NEW c \in Clients, Statted(c)
  PROVE  Good(c)
  <1>1. /\ job[c].pc = "stat" /\ LookingOK(c)
        /\ UNCHANGED <<folders, files, data, req>> /\ path(c)' = path(c)
    BY DEF Statted, IInv, JobOK, path
  <1>2. CASE IsFile(path(c)) /\ Goes(c, "opening")
    <2>1. /\ job' \in [Clients -> Job] /\ job'[c].pc = "opening"
          /\ \A d \in Clients \ {c} : job'[d] = job[d]
          /\ job'[c].handle = job[c].handle /\ Fresh(c)' /\ job'[c].reply = job[c].reply
      BY <1>2, GoesIs DEF IInv
    <2>2. LookingOK(c)'
      BY <1>1, <1>2, <2>1 DEF LookingOK, IsFile
    <2>3. Own(c)
      BY <1>1, <2>1, StillOwn DEF IInv
    <2>. QED  BY <2>1, <2>2, <2>3 DEF Good, JobOK, IdleOK, CopyingOK, CheckingOK,
                RemovingOK, SummingOK, SendingOK, UnlinkingOK, SilentOK
  <1>3. CASE Replies(c, 200) \/ Replies(c, 404)
    BY <1>1, <1>3, RepliesOnlyGood
  <1>. QED  BY <1>2, <1>3 DEF Statted

LEMMA OpenedGood ==
  ASSUME IInv, NEW c \in Clients, Opened(c)
  PROVE  Good(c)
  <1>1. /\ job[c].pc = "opening" /\ LookingOK(c) /\ job[c] \in Job
        /\ UNCHANGED <<folders, files, data, req>> /\ path(c)' = path(c)
    BY RequestOf DEF Opened, IInv, JobOK, path
  <1> DEFINE n == files[path(c)]
             x == [job[c] EXCEPT !.pc = "summing", !.handle = n]
  <1>2. IsFile(path(c)) /\ n \in Nat
    BY <1>1 DEF LookingOK, IInv, TypeOK, IsFile
  <1>3. job' = [job EXCEPT ![c] = x]
    BY <1>2 DEF Opened, IInv, TypeOK, Job
  <1>. HIDE DEF n
  <1>4. /\ x \in Job /\ x.pc = "summing" /\ x.handle = n /\ x.sum = job[c].sum
        /\ x.pos = job[c].pos /\ x.got = job[c].got /\ x.reply = job[c].reply
    BY <1>1, <1>2 DEF Job
  <1>. HIDE DEF x
  <1>5. job' \in [Clients -> Job] /\ job'[c] = x /\ \A d \in Clients \ {c} : job'[d] = job[d]
    BY <1>3, <1>4 DEF IInv, TypeOK
  <1>6. SummingOK(c)'
    BY <1>1, <1>2, <1>4, <1>5 DEF SummingOK, LookingOK, Fresh, Reading, IsFile, n
  <1>7. Own(c)
    BY <1>1, <1>5, StillOwn DEF IInv
  <1>. QED  BY <1>4, <1>5, <1>6, <1>7 DEF Good, JobOK, IdleOK, CopyingOK, CheckingOK,
              RemovingOK, LookingOK, SendingOK, UnlinkingOK, SilentOK

LEMMA DownloadSummedGood ==
  ASSUME IInv, NEW c \in Clients, DownloadSummed(c)
  PROVE  Good(c)
  <1>1. /\ job[c].pc = "summing" /\ SummingOK(c) /\ job[c] \in Job
        /\ job[c].sum # 0 /\ job[c].pos >= Len(data[job[c].sum])
        /\ UNCHANGED <<folders, files, data, req>> /\ path(c)' = path(c)
    BY RequestOf DEF DownloadSummed, Summed, IInv, JobOK, path
  <1> DEFINE n == files[path(c)]
             x == [job[c] EXCEPT !.pc = "sending", !.pos = 0]
  <1>2. /\ IsFile(path(c)) /\ job[c].handle = n /\ job[c].sum = n
        /\ job[c].got = SubSeq(data[n], 1, job[c].pos) /\ job[c].pos \in 0..Len(data[n])
    BY <1>1 DEF SummingOK, Reading
  <1>3. data[n] \in Contents /\ data[n] \in Seq(Marks) /\ Len(data[n]) \in Nat
    BY <1>2 DEF IInv, TypeOK, IsFile, Contents
  <1>4. job[c].got = data[n]
    <2>1. job[c].pos = Len(data[n])
      BY <1>1, <1>2, <1>3
    <2>. QED  BY <1>2, <1>3, <2>1, SubSeqFull
  <1>5. SubSeq(data[n], 1, 0) = << >> /\ 0 \in 0..Len(data[n])
    BY <1>3, SubSeqEmpty
  <1>6. job' = [job EXCEPT ![c] = x]
    BY DEF DownloadSummed, IInv, TypeOK, Job
  <1>7. /\ x \in Job /\ x.pc = "sending" /\ x.handle = job[c].handle
        /\ x.pos = 0 /\ x.got = job[c].got /\ x.reply = job[c].reply
    BY <1>1 DEF Job
  <1>. HIDE DEF x
  <1>8. job' \in [Clients -> Job] /\ job'[c] = x /\ \A d \in Clients \ {c} : job'[d] = job[d]
    BY <1>6, <1>7 DEF IInv, TypeOK
  <1>9. SendingOK(c)'
    <2>1. x.reply.status = 0 /\ x.reply.body = << >> /\ req[c].op = "download"
      BY <1>1, <1>7 DEF SummingOK, Silence
    <2>. QED  BY <1>1, <1>2, <1>4, <1>5, <1>7, <1>8, <2>1 DEF SendingOK, IsFile
  <1>10. Own(c)
    BY <1>1, <1>8, StillOwn DEF IInv
  <1>. QED  BY <1>7, <1>8, <1>9, <1>10 DEF Good, JobOK, IdleOK, CopyingOK, CheckingOK,
              RemovingOK, LookingOK, SummingOK, UnlinkingOK, SilentOK

LEMMA SendPieceGood ==
  ASSUME IInv, NEW c \in Clients, SendPiece(c)
  PROVE  Good(c)
  <1>1. /\ job[c].pc = "sending" /\ SendingOK(c) /\ job[c] \in Job
        /\ job[c].pos < Len(data[job[c].handle])
        /\ UNCHANGED <<folders, files, data, req>> /\ path(c)' = path(c)
    BY RequestOf DEF SendPiece, IInv, JobOK, path
  <1> DEFINE s == data[job[c].handle]
             i == job[c].pos
             b == Append(job[c].reply.body, s[i + 1])
             x == [job[c] EXCEPT !.reply.body = b, !.pos = i + 1]
  <1>2. /\ IsFile(path(c)) /\ job[c].handle = files[path(c)]
        /\ i \in Nat /\ i < Len(s) /\ job[c].reply.body = SubSeq(s, 1, i)
    BY <1>1 DEF SendingOK
  <1>3. s \in Contents
    BY <1>2 DEF IInv, TypeOK, IsFile
  <1>4. b = SubSeq(s, 1, i + 1) /\ b \in Contents /\ i + 1 \in 0..Len(s) /\ i + 1 \in Nat
    <2>1. /\ Append(SubSeq(s, 1, i), s[i + 1]) = SubSeq(s, 1, i + 1)
          /\ SubSeq(s, 1, i + 1) \in Contents /\ i + 1 \in 0..Len(s)
      BY <1>2, <1>3, OneMore
    <2>2. b = Append(SubSeq(s, 1, i), s[i + 1])
      BY <1>2, Zenon
    <2>3. i + 1 \in Nat
      BY <1>2
    <2>. HIDE DEF b, s, i
    <2>. QED  BY <2>1, <2>2, <2>3
  <1>5. job' = [job EXCEPT ![c] = x]
    BY DEF SendPiece, IInv, TypeOK, Job
  <1>. HIDE DEF b, s
  <1>6. /\ x \in Job /\ x.pc = "sending" /\ x.handle = job[c].handle
        /\ x.pos = i + 1 /\ x.got = job[c].got
        /\ x.reply = [job[c].reply EXCEPT !.body = b]
    BY <1>1, <1>4 DEF Job
  <1>7. x.reply.status = job[c].reply.status /\ x.reply.body = b
    BY <1>1, <1>6 DEF Job
  <1>. HIDE DEF x, i
  <1>8. job' \in [Clients -> Job] /\ job'[c] = x /\ \A d \in Clients \ {c} : job'[d] = job[d]
    BY <1>5, <1>6 DEF IInv, TypeOK
  <1>9. SendingOK(c)'
    BY <1>1, <1>2, <1>4, <1>6, <1>7, <1>8 DEF SendingOK, IsFile, s
  <1>10. Own(c)
    BY <1>1, <1>8, StillOwn DEF IInv
  <1>. QED  BY <1>6, <1>8, <1>9, <1>10 DEF Good, JobOK, IdleOK, CopyingOK, CheckingOK,
              RemovingOK, LookingOK, SummingOK, UnlinkingOK, SilentOK

\* Every step of a request.
LEMMA StepGood ==
  ASSUME IInv, NEW c \in Clients, Step(c)
  PROVE  Good(c)
  <1>1. CASE UploadFails(c) \/ SumFails(c, "checking") \/ SumFails(c, "summing")
    BY <1>1, UploadFailsGood
  <1>2. CASE Upload(c)
    BY <1>2, UploadGood
  <1>3. CASE UploadEmpty(c)
    BY <1>3, UploadEmptyGood
  <1>4. CASE CopyOpen(c) \/ CopyWrite(c) \/ CopyFails(c) \/ Copied(c)
    BY <1>4, CopyOpenGood, CopyWriteGood, CopyFailsGood, CopiedGood
  <1>5. ASSUME NEW k \in {"checking", "summing"}, SumOpen(c, k) \/ SumRead(c, k)
        PROVE  Good(c)
    BY <1>5, SumOpenGood, SumReadGood
  <1>6. CASE UploadChecked(c)
    BY <1>6, UploadCheckedGood
  <1>7. CASE BadRemoved(c) \/ Unlinked(c)
    BY <1>7, RemovedGood
  <1>8. CASE Folder(c)
    BY <1>8, FolderGood
  <1>9. CASE Download(c) \/ Delete(c)
    BY <1>9, BeginsGood
  <1>10. CASE Statted(c) \/ Opened(c) \/ DownloadSummed(c) \/ SendPiece(c)
    BY <1>10, StattedGood, OpenedGood, DownloadSummedGood, SendPieceGood
  <1>11. CASE SendEnd(c) \/ SendFails(c)
    BY <1>11, RepliesOnlyGood DEF SendEnd, SendFails
  <1>. QED  BY <1>1, <1>2, <1>3, <1>4, <1>5, <1>6, <1>7, <1>8, <1>9, <1>10, <1>11 DEF Step

\* With one request at a time at a path, the others under way are elsewhere.
LEMMA OthersElsewhere ==
  ASSUME IInv, Alone, NEW c \in Clients, Step(c), NEW d \in Clients \ {c}, Busy(d)
  PROVE  path(d) # path(c)
  <1>1. CASE Busy(c)
    BY <1>1 DEF IInv, Apart
  <1>2. CASE ~Busy(c)
    <2>1. /\ ~CopyOpen(c) /\ ~CopyWrite(c) /\ ~CopyFails(c) /\ ~Copied(c)
          /\ ~UploadChecked(c) /\ ~BadRemoved(c)
      BY <1>2 DEF Busy, CopyOpen, CopyWrite, CopyFails, Copied, UploadChecked, Summed, BadRemoved
    <2>2. \A k \in {"checking", "summing"} : ~SumOpen(c, k) /\ ~SumRead(c, k) /\ ~SumFails(c, k)
      BY <1>2 DEF Busy, SumOpen, SumRead, SumFails
    <2>3. /\ ~Statted(c) /\ ~Opened(c) /\ ~DownloadSummed(c) /\ ~SendPiece(c) /\ ~SendEnd(c)
          /\ ~SendFails(c) /\ ~Unlinked(c)
      BY <1>2 DEF Busy, Statted, Opened, DownloadSummed, Summed, SendPiece, SendEnd, SendFails,
           Unlinked
    <2>4. \E op \in {"upload", "folder", "download", "delete"} : Arrives(c, op)
      BY <2>1, <2>2, <2>3 DEF Step, UploadFails, Upload, UploadEmpty, Folder, Download, Delete
    <2>. QED  BY <2>4 DEF Arrives, Busy
  <1>. QED  BY <1>1, <1>2

LEMMA StepInv == IInv /\ Alone /\ [Next]_vars => IInv'
  <1>1. ASSUME IInv, UNCHANGED vars
        PROVE  IInv'
    <2>1. /\ folders' = folders /\ files' = files /\ data' = data /\ req' = req /\ job' = job
      BY <1>1 DEF vars
    <2>2. TypeOK' /\ TreeOK' /\ Apart'
      BY <1>1, <2>1 DEF IInv, TypeOK, TreeOK, Apart, Busy, path
    <2>3. ASSUME NEW c \in Clients
          PROVE  JobOK(c)'
      <3>1. JobOK(c) /\ Before(c)' = Before(c) /\ (Reading(c) => Reading(c)')
        BY <1>1, <2>1 DEF IInv, Before, Reading, IsFile, path
      <3>2. IdleOK(c)' /\ LookingOK(c)' /\ RemovingOK(c)' /\ UnlinkingOK(c)' /\ SilentOK(c)'
        BY <2>1, <3>1 DEF JobOK, IdleOK, LookingOK, RemovingOK, UnlinkingOK, SilentOK, Fresh,
             IsFile, path
      <3>3. CopyingOK(c)'
        BY <2>1, <3>1 DEF JobOK, CopyingOK, IsFile, path
      <3>4. CheckingOK(c)' /\ SummingOK(c)'
        BY <2>1, <3>1 DEF JobOK, CheckingOK, SummingOK, path
      <3>5. SendingOK(c)'
        BY <2>1, <3>1 DEF JobOK, SendingOK, IsFile, path
      <3>. QED  BY <3>2, <3>3, <3>4, <3>5 DEF JobOK
    <2>. QED  BY <2>2, <2>3 DEF IInv
  <1>2. ASSUME IInv, Alone, NEW c \in Clients, Step(c)
        PROVE  IInv'
    <2>1. Good(c) /\ Own(c) /\ UNCHANGED req
      BY <1>2, StepGood DEF Good, Own
    <2>2. TypeOK' /\ TreeOK'
      BY <1>2, <2>1, TouchesFrame DEF IInv, TypeOK, Good
    <2>3. \A d \in Clients \ {c} : (Busy(d) => path(d) # path(c)) /\ job'[d] = job[d]
      BY <1>2, <2>1, OthersElsewhere DEF Own
    <2>4. \A d \in Clients \ {c} : JobOK(d)'
      BY <1>2, <2>1, <2>3, OthersOK DEF IInv
    <2>5. Apart'
      BY <1>2, <2>1, <2>3 DEF IInv, Apart, Busy, path
    <2>. QED  BY <2>1, <2>2, <2>4, <2>5 DEF IInv, Good
  <1>. QED  BY <1>1, <1>2 DEF Next

-----------------------------------------------------------------------------
(* At the start every file has an inode of its own.                        *)

LEMMA InitInv == Init => IInv
  <1>. SUFFICES ASSUME Init PROVE IInv
    OBVIOUS
  <1> DEFINE S == {OldFiles[i] : i \in DOMAIN OldFiles}
  <1>1. OldFiles \in Seq(Paths) /\ S \subseteq Paths
    BY OldFilesAssumption
  <1>2. ASSUME NEW p \in S
        PROVE  files[p] \in DOMAIN OldFiles /\ OldFiles[files[p]] = p
    <2>1. \E i \in DOMAIN OldFiles : OldFiles[i] = p
      OBVIOUS
    <2>. QED  BY <2>1 DEF Init
  <1>3. DOMAIN files = S
    BY DEF Init
  <1>4. data \in Seq(Contents) /\ DOMAIN data = DOMAIN OldFiles
    <2> DEFINE old == <<"old", "old", "old">>
    <2>1. old \in Contents
      BY DEF Contents, Marks
    <2>2. data = [i \in 1..Len(OldFiles) |-> old]
      BY <1>1 DEF Init
    <2>. HIDE DEF old
    <2>3. Len(OldFiles) \in Nat /\ DOMAIN OldFiles = 1..Len(OldFiles)
      BY <1>1
    <2>. QED  BY <2>1, <2>2, <2>3
  <1>5. folders \in SUBSET Paths
    BY <1>1, PathsAssumption DEF Init
  <1>6. job \in [Clients -> Job]
    BY DEF Init, Job, Silence, Contents
  <1>7. files \in [S -> DOMAIN data]
    BY <1>2, <1>4 DEF Init
  <1>8. TypeOK
    BY <1>1, <1>3, <1>4, <1>5, <1>6, <1>7 DEF TypeOK, Init
  <1>9. TreeOK
    <2>1. \A p \in S : p \notin folders
      BY OldFilesAssumption DEF Init
    <2>. QED  BY <1>2, <1>3, <2>1 DEF TreeOK
  <1>10. \A c \in Clients : /\ job[c].pc = "idle" /\ Fresh(c) /\ job[c].handle = 0
                             /\ job[c].reply = Silence
    BY DEF Init, Fresh
  <1>11. Apart /\ \A c \in Clients : JobOK(c)
    BY <1>10 DEF Apart, Busy, JobOK, IdleOK, CopyingOK, CheckingOK, RemovingOK, LookingOK,
         SummingOK, SendingOK, UnlinkingOK, SilentOK
  <1>. QED  BY <1>8, <1>9, <1>11 DEF IInv

LEMMA AlwaysIInv == Alone /\ Spec => []IInv
  <1>1. CASE Alone
    BY <1>1, InitInv, StepInv, PTL DEF Spec
  <1>. QED  BY <1>1

-----------------------------------------------------------------------------
(* What follows.                                                           *)

\* The state is what clax_dispatcher_tree.c takes it for: nothing is a file and a
\* folder at once (clax_mkdir_p makes no folder over a file, and no upload a file over
\* a folder), and every name has an inode of its own.
THEOREM FilesTyped == Alone /\ Spec => [](TypeOK /\ TreeOK)
  BY AlwaysIInv, PTL DEF IInv

\* Only the end of the file completes a download of a file.
LEMMA OnlySendEnd ==
  ASSUME IInv, "send" \notin DiskFails, NEW c \in Clients, Step(c), ~SendEnd(c),
         Done(c, "download", 200)'
  PROVE  job'[c].handle = 0
  <1>1. /\ JobOK(c) /\ job[c] \in Job /\ req' = req /\ req[c].op = "download"
        /\ job'[c].pc = "done" /\ job'[c].reply.status = 200
    BY StepGood, RequestOf DEF IInv, Good, Own, Done
  <1>2. ~Replies(c, 500)
    <2>1. ASSUME Replies(c, 500)
          PROVE  job'[c].reply.status = 500
      <3>1. job'[c].reply = [job[c].reply EXCEPT !.status = 500]
        BY <2>1, RepliesIs DEF IInv
      <3>. QED  BY <1>1, <3>1 DEF Job
    <2>. QED  BY <1>1, <2>1
  <1>3. \A k \in {"removing", "stat", "opening", "unlinking", "silent"} : ~Goes(c, k)
    BY <1>1, GoesIs DEF IInv
  <1>4. /\ job[c].pc \notin {"copying", "checking", "removing", "unlinking"}
        /\ ~Arrives(c, "upload") /\ ~Arrives(c, "folder") /\ ~Arrives(c, "delete")
    BY <1>1 DEF JobOK, CopyingOK, CheckingOK, RemovingOK, UnlinkingOK, Arrives
  <1>5. \/ Statted(c)
        \/ SumOpen(c, "summing") \/ SumRead(c, "summing")
        \/ Opened(c) \/ DownloadSummed(c) \/ SendPiece(c)
    BY <1>2, <1>3, <1>4 DEF Step, UploadFails, Upload, UploadEmpty, CopyOpen, CopyWrite, CopyFails,
         Copied, SumOpen, SumRead, SumFails, Summed, UploadChecked, BadRemoved, Folder, Download,
         SendFails, Delete, Unlinked
  <1>7. CASE Statted(c)
    <2>1. job[c].handle = 0 /\ \E s \in Nat : Replies(c, s)
      BY <1>1, <1>3, <1>7 DEF JobOK, LookingOK, Statted
    <2>. QED  BY <2>1, RepliesIs DEF IInv
  <1>8. CASE SumOpen(c, "summing") \/ SumRead(c, "summing") \/ SendPiece(c)
    <2>1. job'[c].pc = job[c].pc /\ job[c].pc # "done"
      BY <1>1, <1>2, <1>8 DEF SumOpen, SumRead, SendPiece, IInv, TypeOK, Job
    <2>. QED  BY <1>1, <2>1
  <1>9. CASE Opened(c) \/ DownloadSummed(c)
    <2>1. job'[c].pc \in {"summing", "sending"}
      BY <1>1, <1>2, <1>9 DEF Opened, DownloadSummed, IInv, TypeOK, Job
    <2>. QED  BY <1>1, <2>1
  <1>. QED  BY <1>5, <1>7, <1>8, <1>9

LEMMA SentKept == IInv /\ "send" \notin DiskFails /\ BodyAsSummed /\ [Next]_vars => BodyAsSummed'
  <1>1. CASE UNCHANGED vars
    BY <1>1 DEF vars, BodyAsSummed, Done
  <1>2. ASSUME IInv, "send" \notin DiskFails, BodyAsSummed, NEW c \in Clients, Step(c)
        PROVE  BodyAsSummed'
    <2>1. Good(c)
      BY <1>2, StepGood
    <2>2. \A d \in Clients \ {c} :
            Done(d, "download", 200)' /\ job'[d].handle # 0 => job'[d].reply.body = job'[d].got
      BY <1>2, <2>1 DEF Good, Own, BodyAsSummed, Done
    <2>3. ASSUME Done(c, "download", 200)', job'[c].handle # 0
          PROVE  job'[c].reply.body = job'[c].got
      <3>1. CASE SendEnd(c)
        <4>1. /\ SendingOK(c) /\ job[c].pc = "sending" /\ Replies(c, 200)
              /\ job[c].pos >= Len(data[job[c].handle]) /\ job[c] \in Job
          BY <1>2, <3>1, RequestOf DEF SendEnd, IInv, JobOK
        <4> DEFINE s == data[job[c].handle]
        <4>2. s \in Seq(Marks) /\ Len(s) \in Nat
          BY <1>2, <4>1 DEF SendingOK, IInv, TypeOK, IsFile, Contents
        <4>3. job[c].pos = Len(s)
          BY <4>1, <4>2 DEF SendingOK
        <4>4. job[c].reply.body = s /\ job[c].got = s
          BY <4>1, <4>2, <4>3, SubSeqFull DEF SendingOK
        <4>5. job'[c].got = job[c].got /\ job'[c].reply = [job[c].reply EXCEPT !.status = 200]
          BY <1>2, <4>1, RepliesIs DEF IInv
        <4>6. job'[c].reply.body = job[c].reply.body
          BY <4>1, <4>5 DEF Job
        <4>. QED  BY <4>4, <4>5, <4>6
      <3>2. CASE ~SendEnd(c)
        BY <1>2, <2>3, <3>2, OnlySendEnd
      <3>. QED  BY <3>1, <3>2
    <2>. QED  BY <2>2, <2>3 DEF BodyAsSummed
  <1>. QED  BY <1>1, <1>2 DEF Next

\* The checksum a download is sent with is that of its body (BodyAsSummed): what
\* the first pass over the file read is what the second one sends.  A read error
\* in the second pass ends the body like the end of the file
\* (clax_http_write_response_handle_), so that there must be none.
THEOREM SentAsSummed == Alone /\ "send" \notin DiskFails /\ Spec => []BodyAsSummed
  <1>1. Init => BodyAsSummed
    BY DEF Init, BodyAsSummed, Done
  <1>2. CASE "send" \notin DiskFails
    BY <1>1, <1>2, AlwaysIInv, SentKept, PTL DEF Spec
  <1>. QED  BY <1>2

-----------------------------------------------------------------------------
(* An error has a reason: the folder of an upload is there when the copy   *)
(* begins, unless somebody removed a file that clax_mkdir_p took for one.  *)

\* Nobody works on the way to the path of c.
Unhindered(c) == \A d \in Clients : path(d) \notin Proper(path(c))

HasParent(c) ==
  LET p == Parent(path(c)) IN IsFolder(p) \/ (p \in Proper(path(c)) /\ IsFile(p))

FolderReady ==
  \A c \in Clients :
    job[c].pc = "copying" /\ job[c].handle = 0 /\ Unhindered(c) => HasParent(c)

\* What is on the way stays there.
LEMMA ParentKept ==
  ASSUME IInv, NEW e \in Clients, Own(e), NEW c \in Clients, HasParent(c), Unhindered(c)
  PROVE  HasParent(c)'
  <1>1. OthersKept(e) /\ folders \subseteq folders' /\ path(c)' = path(c)
    BY TouchesFrame DEF IInv, Own, Makes, path
  <1> DEFINE p == Parent(path(c))
  <1>2. CASE IsFolder(p)
    BY <1>1, <1>2 DEF HasParent, IsFolder
  <1>3. CASE p \in Proper(path(c)) /\ IsFile(p)
    BY <1>1, <1>3 DEF HasParent, Unhindered, OthersKept, IsFile
  <1>. QED  BY <1>2, <1>3 DEF HasParent

LEMMA UploadReady ==
  ASSUME IInv, NEW c \in Clients, Upload(c)
  PROVE  HasParent(c)'
  <1> DEFINE p == Parent(path(c))
  <1>1. p = << >> \/ p \in Proper(path(c))
    BY RequestOf, ParentOnTheWay DEF Upload, path, IInv
  <1>2. /\ clax_mkdir_p_ok(p) /\ folders' = folders \cup clax_mkdir_p(p)
        /\ path(c)' = path(c) /\ files' = files
    BY DEF Upload, path
  <1>. HIDE DEF p
  <1>3. CASE p = << >>
    BY <1>2, <1>3 DEF HasParent, IsFolder, p
  <1>4. CASE p # << >> /\ IsFile(p)
    BY <1>1, <1>2, <1>4 DEF HasParent, IsFile, p
  <1>5. CASE p # << >> /\ ~IsFile(p)
    <2>1. p \in folders'
      BY <1>2, <1>5 DEF clax_mkdir_p
    <2>. QED  BY <1>2, <2>1 DEF HasParent, IsFolder, p
  <1>. QED  BY <1>3, <1>4, <1>5

\* Only an upload that arrives starts a copy.
LEMMA CopyingFromUpload ==
  ASSUME IInv, NEW c \in Clients, Step(c), job'[c].pc = "copying", job'[c].handle = 0
  PROVE  Upload(c)
  <1>1. /\ job[c] \in Job /\ \A s \in Nat : ~Replies(c, s)
        /\ \A k \in {"removing", "stat", "opening", "unlinking", "silent"} : ~Goes(c, k)
    BY RequestOf, RepliesIs, GoesIs DEF IInv
  <1>2. ASSUME NEW b \in SUBSET Contents, Stored(c, b)
        PROVE  FALSE
    BY <1>2, StoredIs DEF IInv, NextAfterStore
  <1>3. ~UploadEmpty(c) /\ ~Copied(c)
    <2>1. Before(c) \in SUBSET Contents /\ {} \in SUBSET Contents /\ job[c].before \in SUBSET Contents
      BY <1>1 DEF IInv, TypeOK, Before, IsFile, Job
    <2>. QED  BY <1>1, <1>2, <2>1 DEF UploadEmpty, Copied
  <1>4. ~CopyOpen(c)
    <2>1. /\ IsFile(path(c)) => files[path(c)] # 0
          /\ Len(data) + 1 # 0
      BY DEF IInv, TypeOK, IsFile
    <2>2. ASSUME NEW h, job' = [job EXCEPT ![c].handle = h]
          PROVE  h = 0
      BY <2>2 DEF IInv, TypeOK, Job
    <2>3. ~Replies(c, 500)
      BY <1>1
    <2>4. ~(IsFile(path(c)) /\ job' = [job EXCEPT ![c].handle = files[path(c)]])
      BY <2>1, <2>2
    <2>5. ~(job' = [job EXCEPT ![c].handle = Len(data) + 1])
      BY <2>1, <2>2
    <2>. QED  BY <2>3, <2>4, <2>5, Zenon DEF CopyOpen
  <1>5. ~CopyWrite(c) /\ \A k \in {"checking", "summing"} : ~SumOpen(c, k) /\ ~SumRead(c, k)
    <2>1. ASSUME NEW n, job' = [job EXCEPT ![c].pos = n]
          PROVE  job'[c].handle = job[c].handle
      BY <2>1 DEF IInv, TypeOK, Job
    <2>2. ASSUME NEW n, job' = [job EXCEPT ![c].sum = n]
          PROVE  job'[c].pc = job[c].pc
      BY <2>2 DEF IInv, TypeOK, Job
    <2>3. ASSUME NEW n, NEW g, job' = [job EXCEPT ![c].got = g, ![c].pos = n]
          PROVE  job'[c].pc = job[c].pc
      BY <2>3 DEF IInv, TypeOK, Job
    <2>4. ~CopyWrite(c)
      BY <2>1 DEF CopyWrite
    <2>5. ASSUME NEW k \in {"checking", "summing"}
          PROVE  ~SumOpen(c, k) /\ ~SumRead(c, k)
      BY <1>1, <2>2, <2>3 DEF SumOpen, SumRead
    <2>. QED  BY <2>4, <2>5
  <1>6. ~Opened(c) /\ ~DownloadSummed(c) /\ ~SendPiece(c)
    BY <1>1 DEF Opened, DownloadSummed, Summed, SendPiece, IInv, TypeOK, Job
  <1>. QED  BY <1>1, <1>3, <1>4, <1>5, <1>6 DEF Step, UploadFails, CopyFails, SumFails,
              UploadChecked, BadRemoved, Folder, Download, Statted, SendEnd, SendFails, Delete, Unlinked

LEMMA FolderReadyInv == IInv /\ FolderReady /\ [Next]_vars => FolderReady'
  <1>1. CASE UNCHANGED vars
    BY <1>1 DEF vars, FolderReady, Unhindered, HasParent, IsFolder, IsFile, path
  <1>2. ASSUME IInv, FolderReady, NEW e \in Clients, Step(e), NEW c \in Clients,
               job'[c].pc = "copying", job'[c].handle = 0, Unhindered(c)'
        PROVE  HasParent(c)'
    <2>1. Own(e) /\ Unhindered(c)
      BY <1>2, StepGood DEF Good, Own, Unhindered, path
    <2>2. CASE c = e
      BY <1>2, <2>2, CopyingFromUpload, UploadReady
    <2>3. CASE c # e
      BY <1>2, <2>1, <2>3, ParentKept DEF FolderReady, Own
    <2>. QED  BY <2>2, <2>3
  <1>. QED  BY <1>1, <1>2 DEF Next, FolderReady

\* What an error that comes before any file was opened tells.
Reason(c) == IsFolder(path(c)) \/ \E q \in Proper(path(c)) : IsFile(q)

LEMMA ErrorReason ==
  ASSUME IInv, FolderReady, NEW c \in Clients, Step(c), Unhindered(c),
         job'[c].reply.status = 500, job[c].reply.status # 500,
         job[c].handle = 0, job[c].sum = 0
  PROVE  Reason(c)
  <1>1. job[c] \in Job /\ JobOK(c) /\ path(c) \in Paths
    BY RequestOf DEF IInv
  <1>2. ASSUME NEW s \in Nat, Replies(c, s)
        PROVE  s = 500
    <2>1. job'[c].reply = [job[c].reply EXCEPT !.status = s]
      BY <1>2, RepliesIs DEF IInv
    <2>. QED  BY <1>1, <2>1 DEF Job
  <1>3. \A k \in {"removing", "stat", "opening", "unlinking", "silent"} : ~Goes(c, k)
    BY GoesIs DEF IInv
  <1>4. ASSUME NEW b \in SUBSET Contents, Stored(c, b)
        PROVE  FALSE
    <2>1. job'[c].reply.status = (IF NextAfterStore(c) = "done" THEN 204 ELSE 0)
      BY <1>4, StoredIs DEF IInv
    <2>. QED  BY <2>1
  <1>5. ~UploadEmpty(c) /\ ~Copied(c)
    <2>1. Before(c) \in SUBSET Contents /\ {} \in SUBSET Contents /\ job[c].before \in SUBSET Contents
      BY <1>1 DEF IInv, TypeOK, Before, IsFile, Job
    <2>. QED  BY <1>3, <1>4, <2>1 DEF UploadEmpty, Copied
  <1>6. ~Upload(c)
    <2>1. ASSUME NEW b, job' = [job EXCEPT ![c].pc = "copying", ![c].before = b]
          PROVE  job'[c].reply = job[c].reply
      BY <2>1 DEF IInv, TypeOK, Job
    <2>. QED  BY <2>1 DEF Upload
  <1>7. /\ ~CopyWrite(c) /\ ~CopyFails(c) /\ ~SendPiece(c) /\ ~SendEnd(c) /\ ~SendFails(c)
        /\ ~UploadChecked(c) /\ ~DownloadSummed(c)
        /\ \A k \in {"checking", "summing"} : ~SumRead(c, k) /\ ~SumFails(c, k)
    <2>1. IsFile(path(c)) => files[path(c)] # 0
      BY DEF IInv, TypeOK, IsFile
    <2>2. job[c].pc \notin {"sending", "summing"}
      BY <1>1, <2>1 DEF JobOK, SendingOK, SummingOK, Reading
    <2>. QED  BY <2>2 DEF CopyWrite, CopyFails, SendPiece, SendEnd, SendFails, UploadChecked,
                Summed, DownloadSummed, SumRead, SumFails
  <1>8. CASE UploadFails(c)
    <2>1. Parent(path(c)) # << >> => Proper(Parent(path(c))) \subseteq Proper(path(c))
      BY <1>1, ParentOnTheWay
    <2>2. Parent(path(c)) = << >> => Proper(Parent(path(c))) = {}
      BY DEF Proper
    <2>. QED  BY <1>8, <2>1, <2>2 DEF UploadFails, clax_mkdir_p_ok, Reason
  <1>9. CASE CopyOpen(c)
    <2>1. HasParent(c)
      BY <1>9 DEF CopyOpen, FolderReady
    <2>2. ASSUME NEW h, job' = [job EXCEPT ![c].handle = h]
          PROVE  job'[c].reply = job[c].reply
      BY <2>2 DEF IInv, TypeOK, Job
    <2>3. ~CanWrite(path(c))
      BY <1>9, <2>2 DEF CopyOpen
    <2>. QED  BY <2>1, <2>3 DEF HasParent, CanWrite, Reason
  <1>10. CASE \E k \in {"checking", "summing"} : SumOpen(c, k)
    <2>1. IsFile(path(c))
      BY <1>1, <1>10 DEF SumOpen, JobOK, CheckingOK, SummingOK, Reading
    <2>2. ASSUME NEW n, job' = [job EXCEPT ![c].sum = n]
          PROVE  job'[c].reply = job[c].reply
      BY <2>2 DEF IInv, TypeOK, Job
    <2>. QED  BY <1>10, <2>1, <2>2 DEF SumOpen
  <1>11. CASE BadRemoved(c)
    BY <1>1, <1>2, <1>11 DEF BadRemoved, JobOK, RemovingOK
  <1>12. CASE Folder(c)
    BY <1>2, <1>12 DEF Folder, clax_mkdir_p_ok, Reason
  <1>13. CASE Statted(c) \/ Download(c) \/ Delete(c)
    BY <1>2, <1>3, <1>13 DEF Statted, Download, Delete
  <1>14. CASE Opened(c)
    <2>1. IsFile(path(c))
      BY <1>1, <1>14 DEF Opened, JobOK, LookingOK
    <2>2. ASSUME NEW h, job' = [job EXCEPT ![c].pc = "summing", ![c].handle = h]
          PROVE  job'[c].reply = job[c].reply
      BY <2>2 DEF IInv, TypeOK, Job
    <2>. QED  BY <1>14, <2>1, <2>2 DEF Opened
  <1>15. CASE Unlinked(c)
    BY <1>2, <1>15 DEF Unlinked, Gone, Reason
  <1>. QED  BY <1>5, <1>6, <1>7, <1>8, <1>9, <1>10, <1>11, <1>12, <1>13, <1>14, <1>15 DEF Step

\* While each path is used by one request at a time, and nobody works on the way
\* to the path, a 500 that comes before any file was opened means that the path is
\* a folder, or that a file is on the way: clax_mkdir_p makes the rest
\* (ErrorHasReason).
THEOREM ErrorsExplained == Alone /\ Spec => ErrorHasReason
  <1> DEFINE A ==
        \A c \in Clients :
          /\ job'[c].reply.status = 500 /\ job[c].reply.status # 500
          /\ job[c].handle = 0 /\ job[c].sum = 0
          /\ \A d \in Clients : path(d) \notin Proper(path(c))
          => IsFolder(path(c)) \/ \E q \in Proper(path(c)) : IsFile(q)
  <1>1. Init => FolderReady
    BY DEF Init, FolderReady
  <1>2. IInv /\ FolderReady /\ [Next]_vars => [A]_vars
    <2>1. ASSUME IInv, FolderReady, NEW e \in Clients, Step(e), NEW c \in Clients,
                 job'[c].reply.status = 500, job[c].reply.status # 500,
                 job[c].handle = 0, job[c].sum = 0, Unhindered(c)
          PROVE  Reason(c)
      <3>1. c = e
        BY <2>1, StepGood DEF Good, Own
      <3>. QED  BY <2>1, <3>1, ErrorReason
    <2>. QED  BY <2>1 DEF Next, Unhindered, Reason
  <1>3. CASE Alone
    BY <1>1, <1>2, <1>3, AlwaysIInv, FolderReadyInv, PTL DEF Spec, ErrorHasReason
  <1>. QED  BY <1>3

-----------------------------------------------------------------------------
(* The refinement: every request is one operation of FileStore.            *)

\* Empty uploads go where no other content ever is: clax keeps what is at the path
\* (clax_dispatch_upload opens the target and does not truncate it).
EmptyPath(p) == \E r \in Requests : r.op = "upload" /\ r.size = 0 /\ r.path = p

EmptiesApart ==
  /\ \A i \in DOMAIN OldFiles : ~EmptyPath(OldFiles[i])
  /\ \A r \in Requests : r.op = "upload" /\ r.size > 0 => ~EmptyPath(r.path)

\* What was uploaded is at the path until the reply, and what is removed had a wrong
\* checksum.
EmptyKept == \A p \in DOMAIN files : EmptyPath(p) => data[files[p]] = << >>

ContentOK(c) ==
  /\ job[c].pc \in {"checking", "removing"} => data[files[path(c)]] = Sent(c)
  /\ job[c].pc = "removing" => req[c].crc = "wrong"

RInv == EmptyKept /\ \A c \in Clients : ContentOK(c)

Uploads == {"copying", "checking", "removing"}

\* What FileStore has at the path of c, before and after a step of c.
LEMMA OwnContent ==
  ASSUME IInv, Alone, NEW c \in Clients, Step(c)
  PROVE  /\ Content_at(path(c)) = (IF job[c].pc \in Uploads THEN job[c].before ELSE Before(c))
         /\ Content_at(path(c))' = (IF job'[c].pc \in Uploads THEN job'[c].before ELSE Before(c)')
  <1>1. Own(c)
    BY StepGood DEF Good
  <1>2. \A d \in Clients \ {c} : Busy(d) => path(d) # path(c)
    BY OthersElsewhere
  <1>3. Uploading(path(c)) = IF job[c].pc \in Uploads THEN {c} ELSE {}
    BY <1>2 DEF Uploading, Uploads, Busy
  <1>4. Uploading(path(c))' = IF job'[c].pc \in Uploads THEN {c} ELSE {}
    BY <1>1, <1>2 DEF Uploading, Uploads, Busy, Own, path
  <1>. QED  BY <1>3, <1>4 DEF Content_at, Before

\* At other paths it stays the same.
LEMMA OtherContent ==
  ASSUME IInv, NEW c \in Clients, Own(c), NEW q, q # path(c)
  PROVE  Content_at(q)' = Content_at(q)
  <1>1. OthersKept(c) /\ req' = req /\ \A d \in Clients : path(d)' = path(d)
    BY TouchesFrame DEF IInv, Own, path
  <1>2. \A d \in Clients : path(d) = q => job'[d] = job[d]
    BY DEF Own
  <1>3. Uploading(q)' = Uploading(q)
    BY <1>1, <1>2 DEF Uploading
  <1>4. \A d \in Uploading(q) : job'[d].before = job[d].before
    BY <1>2 DEF Uploading
  <1>5. UNION {job'[d].before : d \in Uploading(q)'} = UNION {job[d].before : d \in Uploading(q)}
    BY <1>3, <1>4
  <1>6. /\ IsFile(q)' <=> IsFile(q)
        /\ IsFile(q) => data'[files'[q]] = data[files[q]]
    BY <1>1 DEF OthersKept, IsFile
  <1>. QED  BY <1>3, <1>5, <1>6 DEF Content_at

\* What FileStore has is at most one content at a path.
LEMMA OneContent ==
  ASSUME IInv, NEW q
  PROVE  Content_at(q) \in {{}} \cup {{x} : x \in Content_at(q)}
  <1>1. CASE Uploading(q) = {}
    BY <1>1 DEF Content_at
  <1>2. CASE Uploading(q) # {}
    <2>1. PICK c \in Clients : c \in Uploading(q)
      BY <1>2 DEF Uploading
    <2>2. Uploading(q) = {c}
      BY <2>1 DEF Uploading, IInv, Apart, Busy
    <2>3. job[c].before \in {{}} \cup {{x} : x \in job[c].before}
      BY <2>1 DEF Uploading, IInv, JobOK, CopyingOK, CheckingOK, RemovingOK
    <2>4. Content_at(q) = job[c].before
      BY <2>2 DEF Content_at
    <2>. QED  BY <2>3, <2>4
  <1>. QED  BY <1>1, <1>2

-----------------------------------------------------------------------------
(* What a step of a request does to the content of its path.               *)

Status(s) == [status |-> s, body |-> << >>]

\* The request goes on, and nobody sees a difference; or it is answered, and the
\* content changes as one operation of FileStore changes it.
GoesOn(c, old, new) == job'[c].pc # "done" /\ new = old

Answered(c, old, new, reply) ==
  \/ reply = Status(204) /\ req[c].op = "upload" /\ req[c].crc # "wrong" /\ new = {Sent(c)}
  \/ reply = Status(400) /\ req[c].op = "upload" /\ req[c].crc = "wrong" /\ new = {}
  \/ /\ reply.status = 200 /\ req[c].op = "download" /\ new = old /\ old = {reply.body}
     /\ reply = [status |-> 200, body |-> reply.body]
  \/ reply = Status(204) /\ req[c].op = "delete" /\ old # {} /\ new = {}
  \/ reply = Status(404) /\ req[c].op \in {"download", "delete"} /\ old = {} /\ new = old
  \/ reply = Status(204) /\ req[c].op = "folder" /\ new = old
  \/ reply = Status(200) /\ req[c].op = "download" /\ old = {} /\ new = old
  \/ /\ reply = Status(500)
     /\ new = old \/ (req[c].op = "upload" /\ new \in {{}, {Sent(c)}})

Outcome(c) ==
  LET old == Content_at(path(c)) new == Content_at(path(c))'
  IN  GoesOn(c, old, new) \/ (job'[c].pc = "done" /\ Answered(c, old, new, job'[c].reply))

\* One request at a time at a path, and what clax does not notice does not happen: an
\* empty upload over other content, and a file that fails while it is sent.
Undisturbed == Alone /\ EmptiesApart /\ "send" \notin DiskFails

\* A reply whose body is empty yet.
LEMMA RepliesStatus ==
  ASSUME IInv, NEW c \in Clients, NEW s \in Nat, Replies(c, s), job[c].reply = Silence
  PROVE  job'[c].pc = "done" /\ job'[c].reply = Status(s)
  BY RepliesIs DEF IInv, Silence, Status

\* A reply that leaves the content as it is: what was at the path of an upload
\* counts until then.
LEMMA KeptOutcome ==
  ASSUME IInv, Alone, NEW c \in Clients, Step(c), UNCHANGED <<files, data, req>>,
         job'[c].pc \notin Uploads,
         job[c].pc \in Uploads => job[c].before = Before(c)
  PROVE  Content_at(path(c))' = Content_at(path(c)) /\ Content_at(path(c)) = Before(c)
  <1>1. Before(c)' = Before(c)
    BY DEF Before, path, IsFile
  <1>. QED  BY <1>1, OwnContent

LEMMA ArrivesOutcome ==
  ASSUME IInv, Undisturbed, NEW c \in Clients, Step(c),
         UploadFails(c) \/ Folder(c) \/ Download(c) \/ Delete(c)
  PROVE  Outcome(c)
  <1>1. job[c].pc = "idle" /\ job[c].reply = Silence
    BY DEF UploadFails, Folder, Download, Delete, Arrives, IInv, JobOK, IdleOK
  <1>2. UNCHANGED <<files, data, req>>
    BY DEF UploadFails, Folder, Download, Delete
  <1>3. CASE Goes(c, "stat") \/ Goes(c, "unlinking")
    <2>1. job'[c].pc \in {"stat", "unlinking"}
      BY <1>3, GoesIs DEF IInv
    <2>. QED  BY <1>1, <1>2, <2>1, KeptOutcome DEF Uploads, Undisturbed, Outcome, GoesOn
  <1>4. CASE Replies(c, 500) \/ (Replies(c, 204) /\ req[c].op = "folder")
    <2>1. /\ job'[c].pc = "done"
          /\ job'[c].reply = Status(500) \/ (job'[c].reply = Status(204) /\ req[c].op = "folder")
      BY <1>1, <1>4, RepliesStatus
    <2>. QED  BY <1>1, <1>2, <2>1, KeptOutcome DEF Uploads, Undisturbed, Outcome, Answered
  <1>. QED  BY <1>3, <1>4 DEF UploadFails, Folder, Download, Delete, Arrives

LEMMA UploadOutcome ==
  ASSUME IInv, Undisturbed, NEW c \in Clients, Step(c), Upload(c)
  PROVE  Outcome(c)
  <1>1. job[c].pc = "idle" /\ job'[c].pc = "copying" /\ job'[c].before = Before(c)
    BY DEF Upload, Arrives, IInv, TypeOK, Job
  <1>. QED  BY <1>1, OwnContent DEF Uploads, Undisturbed, Outcome, GoesOn

\* A request that is still at work, and the content that counts stays.
LEMMA WorkingOutcome ==
  ASSUME IInv, Undisturbed, NEW c \in Clients, Step(c),
         \/ /\ job[c].pc \notin Uploads /\ job'[c].pc \notin Uploads \cup {"done"}
            /\ UNCHANGED <<files, data, req>>
         \/ /\ job[c].pc \in Uploads /\ job'[c].pc \in Uploads
            /\ job'[c].before = job[c].before
  PROVE  Outcome(c)
  <1>1. CASE job[c].pc \notin Uploads
    BY <1>1, KeptOutcome DEF Undisturbed, Outcome, GoesOn
  <1>2. CASE job[c].pc \in Uploads
    BY <1>2, OwnContent DEF Undisturbed, Outcome, GoesOn, Uploads
  <1>. QED  BY <1>1, <1>2

\* A file that is stored and not checked is answered.
LEMMA StoredStatus ==
  ASSUME IInv, NEW c \in Clients, NEW b \in SUBSET Contents, Stored(c, b), job[c].reply = Silence,
         NextAfterStore(c) = "done"
  PROVE  job'[c].pc = "done" /\ job'[c].reply = Status(204)
  <1>1. /\ job' \in [Clients -> Job] /\ job'[c].pc = "done"
        /\ job'[c].reply.status = 204 /\ job'[c].reply.body = << >>
    BY StoredIs DEF IInv, Silence
  <1>2. job'[c].reply \in [status : Nat, body : Contents]
    BY <1>1 DEF Job
  <1>. QED  BY <1>1, <1>2 DEF Status

\* An empty upload finds an empty file, or makes one.
LEMMA UploadEmptyOutcome ==
  ASSUME IInv, EmptyKept, Undisturbed, NEW c \in Clients, Step(c), UploadEmpty(c)
  PROVE  Outcome(c)
  <1>1. /\ job[c].pc = "idle" /\ req[c].op = "upload" /\ req[c].size = 0
        /\ job[c].reply = Silence /\ req' = req /\ path(c)' = path(c)
    BY DEF UploadEmpty, Arrives, IInv, JobOK, IdleOK, path
  <1>2. Sent(c) = << >> /\ EmptyPath(path(c))
    <2>1. req[c] \in Requests
      BY DEF IInv, TypeOK
    <2>. QED  BY <1>1, <2>1 DEF Sent, EmptyPath, path
  <1>3. CASE Goes(c, "silent") /\ UNCHANGED <<files, data>>
    <2>1. job'[c].pc = "silent"
      BY <1>3, GoesIs DEF IInv
    <2>. QED  BY <1>1, <1>3, <2>1, WorkingOutcome DEF Uploads
  <1>4. ASSUME NEW b \in SUBSET Contents, Stored(c, b), b = Before(c),
               Before(c)' = {<< >>}
        PROVE  Outcome(c)
    <2>1. CASE NextAfterStore(c) = "done"
      <3>1. job'[c].pc = "done" /\ job'[c].reply = Status(204)
        BY <1>1, <1>4, <2>1, StoredStatus
      <3>2. req[c].crc # "wrong"
        BY <2>1 DEF NextAfterStore
      <3>3. Content_at(path(c))' = {Sent(c)}
        BY <1>1, <1>2, <1>4, <3>1, OwnContent DEF Undisturbed, Uploads
      <3>. QED  BY <1>1, <3>1, <3>2, <3>3 DEF Outcome, Answered
    <2>2. CASE NextAfterStore(c) = "checking"
      <3>1. job'[c].pc = "checking" /\ job'[c].before = Before(c)
        BY <1>1, <1>4, <2>2, StoredIs DEF IInv
      <3>2. Content_at(path(c))' = Before(c) /\ Content_at(path(c)) = Before(c)
        BY <1>1, <3>1, OwnContent DEF Undisturbed, Uploads
      <3>. QED  BY <3>1, <3>2 DEF Outcome, GoesOn
    <2>. QED  BY <2>1, <2>2 DEF NextAfterStore
  <1>5. CASE IsFile(path(c)) /\ Stored(c, Before(c)) /\ UNCHANGED <<files, data>>
    <2>1. Before(c) \in SUBSET Contents
      BY DEF IInv, TypeOK, Before, IsFile
    <2>2. Before(c)' = {<< >>}
      BY <1>1, <1>2, <1>5 DEF Before, IsFile, EmptyKept
    <2>. QED  BY <1>4, <1>5, <2>1, <2>2
  <1>6. CASE ~IsFile(path(c)) /\ Stored(c, {}) /\ Create(path(c))
    <2>1. Before(c) = {}
      BY <1>6 DEF Before
    <2>2. Before(c)' = {<< >>}
      <3>1. IsFile(path(c))' /\ files'[path(c)] = Len(data) + 1
        BY <1>1, <1>6 DEF Create, IsFile
      <3>2. data'[Len(data) + 1] = << >>
        BY <1>6 DEF Create, IInv, TypeOK, Contents
      <3>. QED  BY <1>1, <3>1, <3>2 DEF Before
    <2>. QED  BY <1>4, <1>6, <2>1, <2>2
  <1>. QED  BY <1>3, <1>5, <1>6 DEF UploadEmpty

LEMMA CopyOutcome ==
  ASSUME IInv, Undisturbed, NEW c \in Clients, Step(c), CopyOpen(c) \/ CopyWrite(c)
  PROVE  Outcome(c)
  <1>1. /\ job[c].pc = "copying" /\ job[c] \in Job /\ job[c].reply = Silence
        /\ job[c].handle = 0 => job[c].before = Before(c)
    BY RequestOf DEF CopyOpen, CopyWrite, IInv, JobOK, CopyingOK
  <1>2. CASE CopyOpen(c) /\ Replies(c, 500) /\ UNCHANGED <<files, data>>
    <2>1. job'[c].pc = "done" /\ job'[c].reply = Status(500)
      BY <1>1, <1>2, RepliesStatus
    <2>2. UNCHANGED <<files, data, req>> /\ job[c].before = Before(c)
      BY <1>1, <1>2 DEF CopyOpen
    <2>. QED  BY <2>1, <2>2, KeptOutcome DEF Uploads, Undisturbed, Outcome, Answered
  <1>3. ASSUME NEW h, job' = [job EXCEPT ![c].handle = h] \/ job' = [job EXCEPT ![c].pos = h]
        PROVE  Outcome(c)
    <2>1. job'[c].pc = "copying" /\ job'[c].before = job[c].before
      BY <1>1, <1>3 DEF IInv, TypeOK, Job
    <2>. QED  BY <1>1, <2>1, WorkingOutcome DEF Uploads
  <1>. QED  BY <1>2, <1>3 DEF CopyOpen, CopyWrite

LEMMA CopyFailsOutcome ==
  ASSUME IInv, Undisturbed, NEW c \in Clients, Step(c), CopyFails(c)
  PROVE  Outcome(c)
  <1>1. job[c].reply = Silence /\ req[c].op = "upload" /\ path(c)' = path(c)
    BY DEF CopyFails, IInv, JobOK, CopyingOK, path
  <1>2. job'[c].pc = "done" /\ job'[c].reply = Status(500)
    BY <1>1, RepliesStatus DEF CopyFails
  <1>3. Content_at(path(c))' = {}
    BY <1>1, <1>2, OwnContent DEF Undisturbed, Uploads, Before, IsFile, CopyFails, Unlink
  <1>. QED  BY <1>1, <1>2, <1>3 DEF Outcome, Answered

LEMMA CopiedOutcome ==
  ASSUME IInv, Undisturbed, NEW c \in Clients, Step(c), Copied(c)
  PROVE  Outcome(c)
  <1>1. /\ job[c].pc = "copying" /\ job[c].reply = Silence /\ req[c].op = "upload"
        /\ job[c].before \in SUBSET Contents /\ path(c)' = path(c)
        /\ UNCHANGED <<files, data, req>> /\ Stored(c, job[c].before)
    BY RequestOf DEF Copied, IInv, JobOK, CopyingOK, path, Job
  <1>2. IsFile(path(c)) /\ data[files[path(c)]] = Sent(c)
    BY DEF Copied, IInv, JobOK, CopyingOK, Sent
  <1>3. CASE NextAfterStore(c) = "done"
    <2>1. job'[c].pc = "done" /\ job'[c].reply = Status(204) /\ req[c].crc # "wrong"
      BY <1>1, <1>3, StoredStatus DEF NextAfterStore
    <2>2. Content_at(path(c))' = {Sent(c)}
      BY <1>1, <1>2, <2>1, OwnContent DEF Undisturbed, Uploads, Before, IsFile
    <2>. QED  BY <1>1, <2>1, <2>2 DEF Outcome, Answered
  <1>4. CASE NextAfterStore(c) = "checking"
    <2>1. job'[c].pc = "checking" /\ job'[c].before = job[c].before
      BY <1>1, <1>4, StoredIs DEF IInv
    <2>. QED  BY <1>1, <2>1, WorkingOutcome DEF Uploads
  <1>. QED  BY <1>3, <1>4 DEF NextAfterStore

LEMMA SumOutcome ==
  ASSUME IInv, \A d \in Clients : ContentOK(d), Undisturbed, NEW c \in Clients, Step(c),
         NEW k \in {"checking", "summing"}, SumOpen(c, k) \/ SumRead(c, k) \/ SumFails(c, k)
  PROVE  Outcome(c)
  <1>1. /\ job[c].pc = k /\ UNCHANGED <<files, data, req>> /\ path(c)' = path(c)
        /\ job[c].reply = Silence /\ IsFile(path(c)) /\ job[c] \in Job
        /\ k = "checking" => req[c].op = "upload"
    BY RequestOf DEF SumOpen, SumRead, SumFails, IInv, JobOK, CheckingOK, SummingOK, Reading, path
  <1>2. CASE SumFails(c, k)
    <2>1. job'[c].pc = "done" /\ job'[c].reply = Status(500)
      BY <1>1, <1>2, RepliesStatus DEF SumFails
    <2>2. Content_at(path(c))' = Before(c)
      BY <1>1, <2>1, OwnContent DEF Undisturbed, Uploads, Before, IsFile
    <2>3. CASE k = "checking"
      <3>1. Content_at(path(c))' = {Sent(c)}
        BY <1>1, <2>2, <2>3 DEF Before, ContentOK
      <3>. QED  BY <1>1, <2>1, <2>3, <3>1 DEF Outcome, Answered
    <2>4. CASE k = "summing"
      <3>1. Content_at(path(c)) = Before(c)
        BY <1>1, <2>4, OwnContent DEF Undisturbed, Uploads
      <3>. QED  BY <2>1, <2>2, <3>1 DEF Outcome, Answered
    <2>. QED  BY <2>3, <2>4
  <1>3. CASE SumOpen(c, k) \/ SumRead(c, k)
    <2>1. job'[c].pc = k /\ job'[c].before = job[c].before
      BY <1>1, <1>3 DEF SumOpen, SumRead, IInv, TypeOK, Job
    <2>2. CASE k = "checking"
      BY <1>1, <2>1, <2>2, WorkingOutcome DEF Uploads
    <2>3. CASE k = "summing"
      BY <1>1, <2>1, <2>3, WorkingOutcome DEF Uploads
    <2>. QED  BY <2>2, <2>3
  <1>. QED  BY <1>2, <1>3

\* What was read to the end is all of the file.
LEMMA ReadAll ==
  ASSUME IInv, NEW c \in Clients, NEW k \in {"checking", "summing"}, Summed(c, k)
  PROVE  IsFile(path(c)) /\ job[c].got = data[files[path(c)]]
  <1>1. /\ IsFile(path(c)) /\ job[c].sum = files[path(c)]
        /\ job[c].pos = Len(data[job[c].sum])
        /\ job[c].got = SubSeq(data[job[c].sum], 1, job[c].pos)
    <2>1. Reading(c) /\ job[c].sum # 0 /\ job[c].pos >= Len(data[job[c].sum]) /\ job[c] \in Job
      BY RequestOf DEF Summed, IInv, JobOK, CheckingOK, SummingOK
    <2>2. data[files[path(c)]] \in Seq(Marks)
      BY <2>1 DEF IInv, TypeOK, IsFile, Reading, Contents
    <2>3. Len(data[files[path(c)]]) \in Nat
      BY <2>2
    <2>. QED  BY <2>1, <2>3 DEF Reading, Job
  <1>2. data[files[path(c)]] \in Seq(Marks)
    BY <1>1 DEF IInv, TypeOK, IsFile, Contents
  <1>. QED  BY <1>1, <1>2, SubSeqFull

LEMMA UploadCheckedOutcome ==
  ASSUME IInv, \A d \in Clients : ContentOK(d), Undisturbed, NEW c \in Clients, Step(c), UploadChecked(c)
  PROVE  Outcome(c)
  <1>1. /\ job[c].pc = "checking" /\ job[c].reply = Silence /\ req[c].op = "upload"
        /\ UNCHANGED <<files, data, req>> /\ path(c)' = path(c) /\ IsFile(path(c))
        /\ data[files[path(c)]] = Sent(c)
    BY DEF UploadChecked, Summed, IInv, JobOK, CheckingOK, Reading, path, ContentOK
  <1>2. CASE Matches(c) /\ Replies(c, 204)
    <2>1. job'[c].pc = "done" /\ job'[c].reply = Status(204) /\ req[c].crc # "wrong"
      BY <1>1, <1>2, RepliesStatus DEF Matches
    <2>2. Content_at(path(c))' = {Sent(c)}
      BY <1>1, <2>1, OwnContent DEF Undisturbed, Uploads, Before, IsFile
    <2>. QED  BY <1>1, <2>1, <2>2 DEF Outcome, Answered
  <1>3. CASE Goes(c, "removing")
    <2>1. job'[c].pc = "removing" /\ job'[c].before = job[c].before
      BY <1>3, GoesIs DEF IInv
    <2>. QED  BY <1>1, <2>1, WorkingOutcome DEF Uploads
  <1>. QED  BY <1>2, <1>3 DEF UploadChecked

LEMMA RemovedOutcome ==
  ASSUME IInv, \A d \in Clients : ContentOK(d), Undisturbed, NEW c \in Clients, Step(c),
         BadRemoved(c) \/ Unlinked(c)
  PROVE  Outcome(c)
  <1>1. /\ job[c].reply = Silence /\ req' = req /\ path(c)' = path(c)
        /\ job[c].pc \in {"removing", "unlinking"}
        /\ job[c].pc = "removing" =>
             IsFile(path(c)) /\ req[c].op = "upload" /\ req[c].crc = "wrong"
        /\ job[c].pc = "unlinking" => req[c].op = "delete"
    BY DEF BadRemoved, Unlinked, IInv, JobOK, RemovingOK, UnlinkingOK, path, ContentOK
  <1>2. ASSUME NEW s \in Nat, Replies(c, s)
        PROVE  /\ job'[c].pc = "done" /\ job'[c].reply = Status(s)
               /\ Content_at(path(c))' = Before(c)'
               /\ job[c].pc = "unlinking" => Content_at(path(c)) = Before(c)
    <2>1. job'[c].pc = "done" /\ job'[c].reply = Status(s)
      BY <1>1, <1>2, RepliesStatus
    <2>. QED  BY <1>1, <2>1, OwnContent DEF Undisturbed, Uploads
  <1>3. Unlink(path(c)) => Before(c)' = {}
    BY <1>1 DEF Unlink, Before, IsFile
  <1>4. ~IsFile(path(c)) /\ UNCHANGED <<files, data>> => Before(c)' = {}
    BY <1>1 DEF Before, IsFile
  <1>5. CASE BadRemoved(c)
    <2>1. Replies(c, 400) /\ Unlink(path(c)) /\ job[c].pc = "removing"
      BY <1>1, <1>5 DEF BadRemoved
    <2>. QED  BY <1>1, <1>2, <1>3, <2>1 DEF Outcome, Answered
  <1>6. CASE Unlinked(c) /\ IsFile(path(c)) /\ Unlink(path(c)) /\ Replies(c, 204)
    <2>1. job[c].pc = "unlinking" /\ Before(c) # {}
      BY <1>6 DEF Unlinked, Before
    <2>. QED  BY <1>1, <1>2, <1>3, <1>6, <2>1 DEF Outcome, Answered
  <1>7. CASE Unlinked(c) /\ ~IsFile(path(c))
    <2>1. job[c].pc = "unlinking" /\ UNCHANGED <<files, data>> /\ Before(c) = {}
      BY <1>7 DEF Unlinked, Before
    <2>2. Replies(c, 404) \/ Replies(c, 500)
      BY <1>7 DEF Unlinked
    <2>. QED  BY <1>1, <1>2, <1>4, <1>7, <2>1, <2>2 DEF Outcome, Answered
  <1>. QED  BY <1>5, <1>6, <1>7 DEF Unlinked

LEMMA DownloadOutcome ==
  ASSUME IInv, Undisturbed, NEW c \in Clients, Step(c),
         Statted(c) \/ Opened(c) \/ DownloadSummed(c) \/ SendPiece(c) \/ SendEnd(c)
  PROVE  Outcome(c)
  <1>1. /\ job[c].pc \in {"stat", "opening", "summing", "sending"}
        /\ req[c].op = "download" /\ job[c] \in Job
        /\ UNCHANGED <<files, data, req>>
    BY RequestOf DEF Statted, Opened, DownloadSummed, Summed, SendPiece, SendEnd, IInv, JobOK,
         LookingOK, SummingOK, SendingOK
  <1>2. ASSUME job'[c].pc \in {"opening", "summing", "sending"}
        PROVE  Outcome(c)
    BY <1>1, <1>2, WorkingOutcome DEF Uploads
  <1>3. ASSUME job'[c].pc = "done"
        PROVE  Content_at(path(c))' = Content_at(path(c)) /\ Content_at(path(c)) = Before(c)
    BY <1>1, <1>3, KeptOutcome DEF Undisturbed, Uploads
  <1>4. CASE Statted(c)
    <2>1. job[c].reply = Silence
      BY <1>4 DEF Statted, IInv, JobOK, LookingOK
    <2>2. CASE Goes(c, "opening")
      BY <1>2, <2>2, GoesIs DEF IInv
    <2>3. CASE ~IsFile(path(c)) /\ (Replies(c, 200) \/ Replies(c, 404))
      <3>1. /\ job'[c].pc = "done"
            /\ job'[c].reply = Status(200) \/ job'[c].reply = Status(404)
        BY <2>1, <2>3, RepliesStatus
      <3>2. Content_at(path(c)) = {}
        BY <1>3, <2>3, <3>1 DEF Before
      <3>. QED  BY <1>1, <1>3, <3>1, <3>2 DEF Outcome, Answered
    <2>4. IsFolder(path(c)) => ~IsFile(path(c))
      BY RequestOf, ParentOnTheWay DEF IsFolder, IsFile, IInv, TreeOK
    <2>. QED  BY <1>4, <2>2, <2>3, <2>4 DEF Statted
  <1>5. CASE Opened(c)
    <2>1. IsFile(path(c))
      BY <1>5 DEF Opened, IInv, JobOK, LookingOK
    <2>2. job'[c].pc = "summing"
      BY <1>1, <1>5, <2>1 DEF Opened, IInv, TypeOK, Job
    <2>. QED  BY <1>2, <2>2
  <1>6. CASE DownloadSummed(c) \/ SendPiece(c)
    <2>1. DownloadSummed(c) => job'[c].pc = "sending"
      BY <1>1 DEF DownloadSummed, IInv, TypeOK, Job
    <2>2. SendPiece(c) => job'[c].pc = "sending"
      BY <1>1 DEF SendPiece, IInv, TypeOK, Job
    <2>. QED  BY <1>2, <1>6, <2>1, <2>2
  <1>7. CASE SendEnd(c)
    <2> DEFINE x == data[files[path(c)]]
    <2>1. /\ IsFile(path(c)) /\ job[c].handle = files[path(c)]
          /\ job[c].pos = Len(x) /\ job[c].reply.body = SubSeq(x, 1, job[c].pos)
      <3>1. /\ SendingOK(c) /\ job[c].pc = "sending" /\ job[c].pos >= Len(data[job[c].handle])
        BY <1>7 DEF SendEnd, IInv, JobOK
      <3>2. x \in Seq(Marks)
        BY <3>1 DEF SendingOK, IInv, TypeOK, IsFile, Contents
      <3>3. Len(x) \in Nat
        BY <3>2
      <3>. QED  BY <3>1, <3>3 DEF SendingOK
    <2>2. x \in Seq(Marks)
      BY <2>1 DEF IInv, TypeOK, IsFile, Contents
    <2>3. job[c].reply.body = x
      BY <2>1, <2>2, SubSeqFull
    <2>4. job'[c].pc = "done" /\ job'[c].reply = [job[c].reply EXCEPT !.status = 200]
      BY <1>7, RepliesIs DEF SendEnd, IInv
    <2>5. job'[c].reply = [status |-> 200, body |-> x] /\ job'[c].reply.body = x
      BY <1>1, <2>3, <2>4 DEF Job
    <2>6. Content_at(path(c)) = {x}
      BY <1>3, <2>1, <2>4 DEF Before
    <2>. HIDE DEF x
    <2>. QED  BY <1>1, <1>3, <2>4, <2>5, <2>6 DEF Outcome, Answered
  <1>. QED  BY <1>4, <1>5, <1>6, <1>7

LEMMA StepOutcome ==
  ASSUME IInv, RInv, Undisturbed, NEW c \in Clients, Step(c)
  PROVE  Outcome(c)
  BY ArrivesOutcome, UploadOutcome, UploadEmptyOutcome, CopyOutcome, CopyFailsOutcome,
     CopiedOutcome, SumOutcome, UploadCheckedOutcome, RemovedOutcome, DownloadOutcome
     DEF Step, SendFails, Undisturbed, RInv

-----------------------------------------------------------------------------
(* What was stored is at the path until the reply.                         *)

\* Where empty uploads go, nothing is copied.
LEMMA EmptyStep ==
  ASSUME IInv, Undisturbed, NEW c \in Clients, Step(c), EmptyPath(path(c))
  PROVE  UNCHANGED <<files, data>> \/ Unlink(path(c)) \/ Create(path(c))
  <1>1. job[c].pc # "copying"
    <2>1. req[c] \in Requests
      BY DEF IInv, TypeOK
    <2>. QED  BY <2>1 DEF IInv, JobOK, CopyingOK, Undisturbed, EmptiesApart, path
  <1>. QED  BY <1>1 DEF Step, UploadFails, Upload, UploadEmpty, CopyOpen, CopyWrite, CopyFails,
           Copied, SumOpen, SumRead, SumFails, UploadChecked, BadRemoved, Folder, Download,
           Statted, Opened, DownloadSummed, SendPiece, SendEnd, SendFails, Delete, Unlinked

LEMMA EmptyKeptStep ==
  ASSUME IInv, EmptyKept, Undisturbed, NEW c \in Clients, Step(c)
  PROVE  EmptyKept'
  <1>1. Own(c) /\ OthersKept(c)
    BY StepGood, TouchesFrame DEF Good, IInv
  <1>. SUFFICES ASSUME NEW p \in DOMAIN files', EmptyPath(p) PROVE data'[files'[p]] = << >>
    BY DEF EmptyKept, EmptyPath
  <1>2. CASE p # path(c)
    BY <1>1, <1>2 DEF OthersKept, IsFile, EmptyKept
  <1>3. CASE p = path(c)
    <2>1. CASE UNCHANGED <<files, data>> \/ Unlink(path(c))
      BY <1>3, <2>1 DEF EmptyKept, Unlink
    <2>2. CASE Create(path(c))
      BY <1>3, <2>2 DEF Create, IInv, TypeOK, Contents
    <2>. QED  BY <1>3, <2>1, <2>2, EmptyStep
  <1>. QED  BY <1>2, <1>3

LEMMA OwnContentOK ==
  ASSUME IInv, RInv, Undisturbed, NEW c \in Clients, Step(c)
  PROVE  ContentOK(c)'
  <1>1. /\ job[c] \in Job /\ path(c)' = path(c) /\ Sent(c)' = Sent(c) /\ req' = req
        /\ ContentOK(c) /\ JobOK(c)
    BY RequestOf, StepGood DEF Good, Own, path, Sent, RInv, IInv
  <1>2. ASSUME NEW s \in Nat, Replies(c, s)
        PROVE  ContentOK(c)'
    BY <1>2, RepliesIs DEF IInv, ContentOK
  <1>3. ASSUME NEW k \in {"stat", "opening", "unlinking", "silent"}, Goes(c, k)
        PROVE  ContentOK(c)'
    BY <1>3, GoesIs DEF IInv, ContentOK
  <1>4. ASSUME NEW b \in SUBSET Contents, Stored(c, b), data'[files'[path(c)]] = Sent(c)
        PROVE  ContentOK(c)'
    BY <1>1, <1>4, StoredIs DEF IInv, ContentOK, NextAfterStore
  <1>5. CASE Upload(c) \/ CopyOpen(c) \/ CopyWrite(c) \/ Opened(c) \/ DownloadSummed(c)
             \/ SendPiece(c) \/ SumOpen(c, "summing") \/ SumRead(c, "summing")
    <2>1. CASE Replies(c, 500)
      BY <1>2, <2>1
    <2>2. CASE ~Replies(c, 500)
      <3>1. (Upload(c) \/ CopyOpen(c) \/ CopyWrite(c)) => job'[c].pc = "copying"
        BY <1>1, <2>2 DEF Upload, CopyOpen, CopyWrite, IInv, TypeOK, Job
      <3>2. (Opened(c) \/ SumOpen(c, "summing") \/ SumRead(c, "summing"))
              => job'[c].pc = "summing"
        BY <1>1, <2>2 DEF Opened, SumOpen, SumRead, IInv, TypeOK, Job
      <3>3. (DownloadSummed(c) \/ SendPiece(c)) => job'[c].pc = "sending"
        BY <1>1 DEF DownloadSummed, SendPiece, IInv, TypeOK, Job
      <3>. QED  BY <1>5, <3>1, <3>2, <3>3 DEF ContentOK
    <2>. QED  BY <2>1, <2>2
  <1>6. CASE UploadEmpty(c)
    <2>1. req[c].size = 0 /\ EmptyPath(path(c)) /\ Sent(c) = << >>
      <3>1. req[c].size = 0 /\ req[c].op = "upload" /\ req[c] \in Requests
        BY <1>6 DEF UploadEmpty, Arrives, IInv, TypeOK
      <3>. QED  BY <3>1 DEF EmptyPath, Sent, path
    <2>2. Before(c) \in SUBSET Contents /\ {} \in SUBSET Contents
      BY DEF IInv, TypeOK, Before, IsFile
    <2>3. CASE IsFile(path(c)) /\ Stored(c, Before(c)) /\ UNCHANGED <<files, data>>
      BY <1>4, <2>1, <2>2, <2>3 DEF RInv, EmptyKept, IsFile
    <2>4. CASE Stored(c, {}) /\ Create(path(c))
      <3>1. data'[files'[path(c)]] = << >>
        BY <2>4 DEF Create, IInv, TypeOK, Contents
      <3>. QED  BY <1>4, <2>1, <2>2, <2>4, <3>1
    <2>. QED  BY <1>3, <1>6, <2>3, <2>4 DEF UploadEmpty
  <1>7. CASE Copied(c)
    <2>1. data'[files'[path(c)]] = Sent(c) /\ job[c].before \in SUBSET Contents
      BY <1>1, <1>7 DEF Copied, JobOK, CopyingOK, Sent, Job
    <2>. QED  BY <1>4, <1>7, <2>1 DEF Copied
  <1>8. CASE SumOpen(c, "checking") \/ SumRead(c, "checking")
    <2>1. (\E s \in {500} : Replies(c, s)) \/ job'[c].pc = "checking"
      BY <1>1, <1>8 DEF SumOpen, SumRead, IInv, TypeOK, Job
    <2>2. UNCHANGED <<files, data>> /\ job[c].pc = "checking"
      BY <1>8 DEF SumOpen, SumRead
    <2>. QED  BY <1>1, <1>2, <2>1, <2>2 DEF ContentOK
  <1>9. CASE UploadChecked(c) /\ Goes(c, "removing")
    <2>1. /\ job[c].pc = "checking" /\ ~Matches(c) /\ UNCHANGED <<files, data, req>>
          /\ req[c].crc \in {"right", "wrong"}
      <3>1. ~Replies(c, 204)
        <4>1. TypeOK /\ "removing" \in {"removing", "stat", "opening", "unlinking", "silent"}
          BY DEF IInv
        <4>2. job'[c].pc = "removing"
          BY <1>9, <4>1, GoesIs, Zenon
        <4>3. ASSUME Replies(c, 204)
              PROVE  job'[c].pc = "done"
          <5>1. 204 \in Nat
            OBVIOUS
          <5>. QED  BY <4>1, <4>3, <5>1, RepliesIs, Zenon
        <4>. QED  BY <4>2, <4>3
      <3>2. job[c].pc = "checking" /\ ~Matches(c) /\ UNCHANGED <<files, data, req>>
        BY <1>9, <3>1 DEF UploadChecked, Summed
      <3>. QED  BY <1>1, <3>2 DEF JobOK, CheckingOK
    <2>2. job[c].got = Sent(c)
      BY <1>1, <1>9, <2>1, ReadAll DEF UploadChecked, ContentOK
    <2>3. req[c].crc = "wrong"
      BY <2>1, <2>2 DEF Matches
    <2>. QED  BY <1>1, <2>1, <2>3 DEF ContentOK
  <1>10. CASE UploadChecked(c) /\ Replies(c, 204)
    BY <1>2, <1>10
  <1>11. CASE UploadFails(c) \/ CopyFails(c) \/ BadRemoved(c) \/ Folder(c) \/ Unlinked(c)
              \/ SendEnd(c) \/ SendFails(c) \/ \E k \in {"checking", "summing"} : SumFails(c, k)
    BY <1>2, <1>11 DEF UploadFails, CopyFails, BadRemoved, Folder, Unlinked, SendEnd, SendFails,
         SumFails
  <1>12. CASE Download(c) \/ Delete(c) \/ Statted(c)
    BY <1>2, <1>3, <1>12 DEF Download, Delete, Statted
  <1>. QED  BY <1>5, <1>6, <1>7, <1>8, <1>9, <1>10, <1>11, <1>12 DEF Step, UploadChecked

LEMMA OtherContentOK ==
  ASSUME IInv, RInv, Undisturbed, NEW c \in Clients, Step(c), NEW d \in Clients \ {c}
  PROVE  ContentOK(d)'
  <1>1. Own(c) /\ OthersKept(c)
    BY StepGood, TouchesFrame DEF Good, IInv
  <1>2. job'[d] = job[d] /\ path(d)' = path(d) /\ Sent(d)' = Sent(d) /\ req' = req
    BY <1>1 DEF Own, path, Sent
  <1>3. CASE job[d].pc \in {"checking", "removing"}
    <2>1. path(d) # path(c)
      BY <1>3, OthersElsewhere DEF Busy, Undisturbed
    <2>2. IsFile(path(d))
      BY <1>3 DEF IInv, JobOK, CheckingOK, RemovingOK, Reading
    <2>. QED  BY <1>1, <1>2, <2>1, <2>2 DEF OthersKept, IsFile, ContentOK, RInv
  <1>. QED  BY <1>2, <1>3 DEF ContentOK

LEMMA RInvStep == IInv /\ RInv /\ Undisturbed /\ [Next]_vars => RInv'
  <1>1. CASE UNCHANGED vars
    BY <1>1 DEF vars, RInv, EmptyKept, EmptyPath, ContentOK, path, Sent
  <1>2. ASSUME IInv, RInv, Undisturbed, NEW c \in Clients, Step(c)
        PROVE  RInv'
    BY <1>2, EmptyKeptStep, OwnContentOK, OtherContentOK DEF RInv
  <1>. QED  BY <1>1, <1>2 DEF Next

LEMMA InitRInv == Init /\ Undisturbed => RInv
  <1>1. Init => \A p \in DOMAIN files : \E i \in DOMAIN OldFiles : OldFiles[i] = p
    BY DEF Init
  <1>. QED  BY <1>1 DEF Init, RInv, EmptyKept, ContentOK, Undisturbed, EmptiesApart

-----------------------------------------------------------------------------
(* The files of FileStore.                                                 *)

Member(S) == CHOOSE x \in S : TRUE

LEMMA StoreIs ==
  /\ Store = [p \in {q \in Paths : Content_at(q) # {}} |-> Member(Content_at(p))]
  /\ Store' = [p \in {q \in Paths : Content_at(q)' # {}} |-> Member(Content_at(p)')]
  /\ \A x : Member({x}) = x
  BY DEF Store, Member

\* A step of c changes the store as it changes the content at its path.
LEMMA StoreStep ==
  ASSUME IInv, NEW c \in Clients, Own(c)
  PROVE  /\ Content_at(path(c))' = Content_at(path(c)) => Store' = Store
         /\ Content_at(path(c))' = {} => Store' = Files!Without(path(c))
         /\ \A x : Content_at(path(c))' = {x} => Store' = Files!With(path(c), x)
         /\ path(c) \in DOMAIN Store <=> Content_at(path(c)) # {}
         /\ \A x : Content_at(path(c)) = {x} => Store[path(c)] = x
  <1> DEFINE p == path(c)
             K == [q \in Paths |-> Content_at(q)]
             L == [q \in Paths |-> Content_at(q)']
  <1>1. p \in Paths /\ \A q \in Paths : q # p => L[q] = K[q]
    BY RequestOf, OtherContent DEF IInv
  <1>2. /\ Store = [q \in {r \in Paths : K[r] # {}} |-> Member(K[q])]
        /\ Store' = [q \in {r \in Paths : L[r] # {}} |-> Member(L[q])]
        /\ \A x : Member({x}) = x
    BY StoreIs
  <1>3. K[p] = Content_at(path(c)) /\ L[p] = Content_at(path(c))'
    BY <1>1, StepGood DEF Own, path
  <1>. HIDE DEF p, K, L
  <1>4. L[p] = K[p] => Store' = Store
    BY <1>1, <1>2
  <1>5. L[p] = {} => Store' = [q \in DOMAIN Store \ {p} |-> Store[q]]
    BY <1>1, <1>2
  <1>6. \A x : L[p] = {x} => Store' = [q \in DOMAIN Store \cup {p} |-> IF q = p THEN x ELSE Store[q]]
    BY <1>1, <1>2
  <1>7. (p \in DOMAIN Store <=> K[p] # {}) /\ \A x : K[p] = {x} => Store[p] = x
    BY <1>1, <1>2
  <1>. QED  BY <1>3, <1>4, <1>5, <1>6, <1>7 DEF Files!Without, Files!With, p

\* The replies that were given.
LEMMA RepliedStep ==
  ASSUME IInv, NEW c \in Clients, Step(c)
  PROVE  /\ job'[c].pc # "done" => Replied' = Replied
         /\ job'[c].pc = "done" =>
              Replied[c] = Silence /\ Replied' = [Replied EXCEPT ![c] = job'[c].reply]
  <1>1. \A d \in Clients \ {c} : job'[d] = job[d]
    BY StepGood DEF Good, Own
  <1>2. job[c].pc # "done"
    BY DEF Step, UploadFails, Upload, UploadEmpty, Arrives, CopyOpen, CopyWrite, CopyFails, Copied,
       SumOpen, SumRead, SumFails, Summed, UploadChecked, BadRemoved, Folder, Download, Statted,
       Opened, DownloadSummed, SendPiece, SendEnd, SendFails, Delete, Unlinked
  <1>. QED  BY <1>1, <1>2 DEF Replied

\* Every step is an operation of FileStore, or changes nothing there.
LEMMA StepStored ==
  ASSUME IInv, RInv, Undisturbed, NEW c \in Clients, Step(c)
  PROVE  Files!Next \/ UNCHANGED <<req, Store, Replied>>
  <1> DEFINE old == Content_at(path(c))
             new == Content_at(path(c))'
             reply == job'[c].reply
  <1>1. Own(c) /\ req' = req
    BY StepGood DEF Good, Own
  <1>2. /\ new = old => Store' = Store
        /\ new = {} => Store' = Files!Without(path(c))
        /\ \A x : new = {x} => Store' = Files!With(path(c), x)
        /\ path(c) \in DOMAIN Store <=> old # {}
        /\ \A x : old = {x} => Store[path(c)] = x
    BY <1>1, StoreStep
  <1>3. CASE GoesOn(c, old, new)
    BY <1>1, <1>2, <1>3, RepliedStep DEF GoesOn
  <1>4. CASE job'[c].pc = "done" /\ Answered(c, old, new, reply)
    <2>1. /\ Replied[c] = Files!Silence /\ Replied' = [Replied EXCEPT ![c] = reply]
          /\ path(c) = req[c].path /\ Sent(c) = Files!Sent(c)
          /\ \A s : Status(s) = Files!Status(s)
      BY <1>4, RepliedStep DEF Silence, Files!Silence, path, Sent, Files!Sent, Status, Files!Status
    <2>. HIDE DEF old, new, reply
    <2>2. ASSUME NEW r, reply = r
          PROVE  Files!Reply(c, r)
      BY <1>1, <2>1, <2>2 DEF Files!Reply
    <2>3. CASE /\ reply = Status(204) /\ req[c].op = "upload" /\ req[c].crc # "wrong"
               /\ new = {Sent(c)}
      BY <1>2, <2>1, <2>2, <2>3 DEF Files!Put, Files!Next
    <2>4. CASE reply = Status(400) /\ req[c].op = "upload" /\ req[c].crc = "wrong" /\ new = {}
      BY <1>2, <2>1, <2>2, <2>4 DEF Files!Refuse, Files!Next
    <2>5. CASE /\ reply.status = 200 /\ req[c].op = "download" /\ new = old /\ old = {reply.body}
               /\ reply = [status |-> 200, body |-> reply.body]
      <3>1. path(c) \in DOMAIN Store /\ Store[path(c)] = reply.body /\ Store' = Store
        BY <1>2, <2>5
      <3>2. Files!Reply(c, [status |-> 200, body |-> Store[path(c)]])
        BY <2>2, <2>5, <3>1, Zenon
      <3>. QED  BY <2>1, <2>5, <3>1, <3>2 DEF Files!Get, Files!Next
    <2>6. CASE reply = Status(204) /\ req[c].op = "delete" /\ old # {} /\ new = {}
      BY <1>2, <2>1, <2>2, <2>6 DEF Files!Remove, Files!Next
    <2>7. CASE /\ reply = Status(404) /\ req[c].op \in {"download", "delete"}
               /\ old = {} /\ new = old
      BY <1>2, <2>1, <2>2, <2>7 DEF Files!Missing, Files!Next
    <2>8. CASE /\ new = old
               /\ \/ reply = Status(204) /\ req[c].op = "folder"
                  \/ reply = Status(200) /\ req[c].op = "download" /\ old = {}
      BY <1>2, <2>1, <2>2, <2>8 DEF Files!Folder, Files!Next
    <2>9. CASE /\ reply = Status(500)
               /\ new = old \/ (req[c].op = "upload" /\ new \in {{}, {Sent(c)}})
      BY <1>2, <2>1, <2>2, <2>9 DEF Files!Fail, Files!Next
    <2>. QED  BY <1>4, <2>3, <2>4, <2>5, <2>6, <2>7, <2>8, <2>9 DEF Answered
  <1>. QED  BY <1>3, <1>4, StepOutcome DEF Outcome

LEMMA NothingReplied == Init => Files!Init
  BY DEF Init, Files!Init, Replied, Files!Silence, Silence

\* With each path used by one request at a time, with empty uploads at paths of their
\* own, and as long as no file fails while it is sent, every request of /tree takes
\* effect at once, at its reply, and is answered as FileStore says (StoreKept): no
\* operation of the others, no failing copy and no failing checksum shows.
THEOREM StoreImplemented == Undisturbed /\ Spec => StoreKept
  <1>1. IInv /\ RInv /\ Undisturbed /\ [Next]_vars => [Files!Next]_<<req, Store, Replied>>
    <2>1. UNCHANGED vars => UNCHANGED <<req, Store, Replied>>
      <3>1. UNCHANGED vars => \A q : Content_at(q)' = Content_at(q)
        BY DEF vars, Content_at, Uploading, IsFile, path
      <3>2. UNCHANGED vars => Store' = Store
        BY <3>1, StoreIs
      <3>. QED  BY <3>2 DEF vars, Replied
    <2>. QED  BY <2>1, StepStored DEF Next
  <1>2. CASE Undisturbed
    <2>1. Alone
      BY <1>2 DEF Undisturbed
    <2>. QED  BY <1>1, <1>2, <2>1, AlwaysIInv, InitRInv, RInvStep, NothingReplied, PTL
              DEF Spec, StoreKept, Files!Spec
  <1>. QED  BY <1>2

\* The replies to an upload: 204 says that what was sent is at the path, and 400 that
\* the checksum was wrong.
LEMMA UploadReply ==
  ASSUME IInv, RInv, Undisturbed, NEW c \in Clients, Step(c),
         job'[c].pc = "done", req[c].op = "upload"
  PROVE  /\ job'[c].reply.status = 204 =>
              path(c) \in DOMAIN files' /\ data'[files'[path(c)]] = Sent(c)
         /\ job'[c].reply.status = 400 => req[c].crc = "wrong"
  <1>1. Answered(c, Content_at(path(c)), Content_at(path(c))', job'[c].reply)
    BY StepOutcome DEF Outcome, GoesOn
  <1>2. Content_at(path(c))' = Before(c)' /\ path(c)' = path(c)
    BY StepGood, OwnContent DEF Undisturbed, Uploads, Good, Own, path
  <1>3. \A s : Status(s).status = s
    BY DEF Status
  <1>4. job'[c].reply.status = 204 => Before(c)' = {Sent(c)}
    BY <1>1, <1>2, <1>3 DEF Answered
  <1>5. job'[c].reply.status = 400 => req[c].crc = "wrong"
    BY <1>1, <1>3 DEF Answered
  <1>. QED  BY <1>2, <1>4, <1>5 DEF Before, IsFile

\* A request that is done stays as it is.
LEMMA DoneKept ==
  ASSUME IInv, NEW e \in Clients, Step(e), NEW c \in Clients, c # e \/ job[c].pc = "done"
  PROVE  c # e /\ job'[c] = job[c] /\ req' = req
  <1>1. job[e].pc # "done"
    BY DEF Step, UploadFails, Upload, UploadEmpty, Arrives, CopyOpen, CopyWrite, CopyFails, Copied,
       SumOpen, SumRead, SumFails, Summed, UploadChecked, BadRemoved, Folder, Download, Statted,
       Opened, DownloadSummed, SendPiece, SendEnd, SendFails, Delete, Unlinked
  <1>. QED  BY <1>1, StepGood DEF Good, Own

\* An upload that is answered 204 has left at its path what was sent (StoredAsSent).
THEOREM UploadsStored == Undisturbed /\ Spec => StoredAsSent
  <1> DEFINE A ==
        \A c \in Clients :
          ~Done(c, "upload", 204) /\ Done(c, "upload", 204)'
            => path(c) \in DOMAIN files' /\ data'[files'[path(c)]] = Sent(c)
  <1>1. IInv /\ RInv /\ Undisturbed /\ [Next]_vars => [A]_vars
    <2>1. ASSUME IInv, RInv, Undisturbed, NEW e \in Clients, Step(e), NEW c \in Clients,
                 ~Done(c, "upload", 204), Done(c, "upload", 204)'
          PROVE  path(c) \in DOMAIN files' /\ data'[files'[path(c)]] = Sent(c)
      <3>1. c = e
        BY <2>1, DoneKept DEF Done
      <3>2. req' = req
        BY <2>1, StepGood DEF Good, Own
      <3>. QED  BY <2>1, <3>1, <3>2, UploadReply DEF Done
    <2>. QED  BY <2>1 DEF Next
  <1>2. CASE Undisturbed
    <2>1. Alone
      BY <1>2 DEF Undisturbed
    <2>. QED  BY <1>1, <1>2, <2>1, AlwaysIInv, InitRInv, RInvStep, PTL DEF Spec, StoredAsSent
  <1>. QED  BY <1>2

\* An upload with the right checksum is not refused for it (ValidAccepted), though its
\* target is read again after the copy.
THEOREM ValidUploads == Undisturbed /\ Spec => []ValidAccepted
  <1>1. Init => ValidAccepted
    BY DEF Init, ValidAccepted, Done
  <1>2. IInv /\ RInv /\ Undisturbed /\ ValidAccepted /\ [Next]_vars => ValidAccepted'
    <2>1. CASE UNCHANGED vars
      BY <2>1 DEF vars, ValidAccepted, Done
    <2>2. ASSUME IInv, RInv, Undisturbed, ValidAccepted, NEW e \in Clients, Step(e),
                 NEW c \in Clients, Done(c, "upload", 400)'
          PROVE  req'[c].crc # "right"
      <3>1. req' = req
        BY <2>2, StepGood DEF Good, Own
      <3>2. CASE c = e
        BY <2>2, <3>1, <3>2, UploadReply DEF Done
      <3>3. CASE c # e
        BY <2>2, <3>1, <3>3, DoneKept DEF Done, ValidAccepted
      <3>. QED  BY <3>2, <3>3
    <2>. QED  BY <2>1, <2>2 DEF Next, ValidAccepted
  <1>3. CASE Undisturbed
    <2>1. Alone
      BY <1>3 DEF Undisturbed
    <2>. QED  BY <1>1, <1>2, <1>3, <2>1, AlwaysIInv, InitRInv, RInvStep, PTL DEF Spec
  <1>. QED  BY <1>3

=============================================================================
