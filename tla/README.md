# A TLA+ model of clax

clax is an HTTP(S) deployment agent: it runs commands and uploads, downloads and
deletes files for a remote client. It is one process, one thread and one libuv
event loop; the hard part is not computation but order. A request is parsed in
pieces, dispatched twice when it carries `Expect: 100-continue`, answered by
chains of asynchronous operations that all hold a raw pointer to the connection's
context, and the context is freed by whichever callback finds that the last byte
of a finished response has left. This directory models that, checks it with TLC
and proves part of it with TLAPS.

## Inventory

| Component | Source | State | Operations | Interacts with |
|---|---|---|---|---|
| Connection and event loop | `clax.c`, `clax_ctx.c` | a `clax_ctx_t` per connection: both handles, request, response; `to_write`, `finalized` | accept, read, end of stream, write, write finished, close and free | everything, through the context pointer |
| Request parser | `clax_http_parser.c` | method, path, headers, parameters, body (in memory for a form, in a temporary file otherwise), `to_read`, `continue_expected` | the callbacks of http_parser; body piece written; body file closed | starts the dispatcher at the end of the headers, of the message or of the body file |
| Response writer | `clax_http.c` | status, headers, `body_buf`, `body_handle`, `finalized` | header block, chunk, last chunk, trailers, reset after a 100, the loop that reads a file | the write path below, the handlers above |
| Dispatcher | `clax_dispatcher.c`, `_index.c` | the routing table (constant) | match path, method and Expect; canned replies | calls one handler |
| File tree | `clax_dispatcher_tree.c` | libuv requests in flight, each with a pointer to the context; the file system | download (stat, open, checksum), upload (directories, copy, time, checksum, removal), delete | thread pool of libuv, response writer |
| Command runner | `clax_dispatcher_command.c` | the process structure, its pipe | start, output, end of output, exit, close | child process, response writer |
| TLS | `clax.c`, of mbedTLS `ssl_srv.c`, `ssl_tls.c`, `ssl_cache.c`, `x509_crt.c` | the handshake flag, the buffer handed to mbedTLS; the state of the handshake; the cache of sessions, one for all connections | receive, send, handshake, verify a chain of certificates, resume | read callback, write path |
| HTTP utilities | `clax_http_util.c` | none | URL decoding, urlencoded forms, basic authorization | parser |
| Utilities | `clax_util.c` | none (key-value lists are values of their owners) | lists, buffers, paths, directories, temporary names | all |
| Checksum | `clax_crc32.c` | a table | init, calc, finalize | file tree |
| Options and start | `clax_options.c`, `clax.c`, `contrib/inih/ini.c` | the options, the current folder | command line, configuration file, set-up of TLS, listen or stdin | the first connection |
| http-parser | `contrib/http-parser/http_parser.c` | the state machine, its counts and marks | execute on a buffer, URL parser | the callbacks of the request parser |
| Service mode, logging, errors, platform | `clax.c`, `clax_log.c`, ... | | | |

### What is hard, and what correctness means

* **Several completions, one end.** Writes finish one callback at a time, and one
  counter (`to_write`) with one flag (`finalized`) decides when the connection
  closes. It must close after the last byte of a finished response, once, and not
  before. (`ToWriteExact`, `ClosedFlushed`, `Answered`)
* **A request is dispatched up to twice**, at the end of its headers and at the end of
  its message, and the response is reset in between while its bytes are in flight.
  The client must still see one interim response at most and then one response.
  (`ResponseFramed`, `EndedWhenComplete`, `StreamKept`)
* **Message complete races the body file.** The dispatch of an upload waits for the
  later of the two, by a signed count that starts at `Content-Length`.
  (`OneOperation`, `CopiedWhole`, `NotForgotten`)
* **Raw pointers outlive the context.** Whatever is in flight when the context is freed
  comes back later. (`NoUseAfterFree`)
* **Child process and pipe end independently**, and only one of the two ends the
  response. (`OutputComplete`)
* **Paths that answer nothing.** Every early return must leave something that answers.
  (`NotForgotten`, `Answered`)
* **Two requests meet in the file system.** An upload is a chain of operations in the
  thread pool (folders, copy, checksum, removal) and a download another (stat, open,
  checksum, read); between any two of them another client's request may replace or remove
  the file. (`StoreKept`, `BodyAsSummed`, `ErrorHasReason`, `EveryoneAnswered`)
* **TLS records and reads of the socket do not line up.** mbedTLS asks for bytes through
  `clax_recv`, which keeps the account of a buffer that each read replaces. (`InOrder`,
  `GentleDefined`, `GentleDelivered`)
* **Headers come in pieces and may be repeated**, while the length of the body is kept
  beside the list they are put in. (`LengthAgrees`, `LastValueFound`, `ExpectAsSent`)
* **Messages and buffers do not line up.** A name, a value, a URL, a body, a chunk can be
  cut anywhere, and clax keeps the pieces; two messages may be in one buffer. (`Framed`,
  `Accepted`, `StoredWhole`, `DispatchedAsSent`, `AssertsHold`, `HeadersKept`)
* **Texts that say one thing and are read as another**: codes that are no numbers, zero
  bytes, a colon in a password, `..` in a path. (`FormUndone`, `UrlRead`, `OnlyTheRight`,
  `PathClean`, `CrcAsDivided`)
* **A file of options is read line by line**, with lines that go on from others, and a
  mistake in it must not make clax talk in plain text. (`AsWritten`, `TalksAsTold`)
* **A handshake has sixteen states, two orders and a memory.** A refused message leaves the
  context in the state after it; a resumed session skips the certificate; the cache of
  sessions is shared, small and forgets; and the path from a client's certificate to what
  clax trusts is looked for in a chain that the client made up. (`Authenticated`, `SessionsKept`, `RegularServed`)

`PROJECT.json` lists every hazard at its line, with the properties that watch it.

## The modules

    ClaxCtx          the context, and the write path of clax.c
      ClaxHttp       the response writer and the canned replies
        ClaxTree     the handlers of /tree       ClaxCommand   the handler of /command
          ClaxDispatcher   the routing table and the dispatch
            ClaxParser     the request side
              ClaxConn     one connection as a state machine; the properties
                MCConn     instances for TLC
    ResponseStream   what a client is promised (abstract); ClaxConn implements it
    ClaxConn_proofs      theorems for every client, for a client that waits, and the refinement

    ClaxFiles        the handlers of /tree again, for several clients on one file system
      MCFiles        instances for TLC
      ClaxFiles_proofs   theorems, and the refinement
    FileStore        a store of files (abstract); ClaxFiles implements it

    ClaxTls          the receiving side of TLS, record by record
      MCTls          instances for TLC
      ClaxTls_proofs theorems
    X509             who a chain of certificates is good for
      ClaxHandshake  the handshakes of several connections and their cache of sessions
        MCHandshake  instances for TLC
        ClaxHandshake_proofs   theorems

    ClaxKv           the key-value list
      ClaxHeaders    the header callbacks of the parser
        MCHeaders    instances for TLC
        ClaxHeaders_proofs   theorems

    Chars            characters and their codes
      HttpUrl        the URL parser of http-parser
        ClaxHttpUtil   URLs, forms, base64, credentials (with ClaxKv)
    HttpParser       http_parser_execute as a state machine, unit by unit (with Chars)
      ClaxRequest    HttpParser with the callbacks of clax (with ClaxHttpUtil);
        MCRequest    implements ClaxHeaders; instances for TLC
        ClaxRequest_proofs   theorems about the parser, and the body
    ClaxPath         paths, and the text of a checksum
      ClaxStart      options, configuration file, start
        MCStart      instances for TLC
        ClaxStart_proofs   theorems
    ClaxCrc32        the checksum
      ClaxText       ClaxHttpUtil, ClaxPath and ClaxCrc32 against reference definitions
        MCText       instances for TLC
        ClaxText_proofs      theorems

### One connection: ClaxConn and what it is made of

**A callback is one atomic step.** The loop runs each callback to its end, and what a
callback calls runs inside it. So every C function is an *operator* from a context
(a record of type `Ctx`) to a context, with the name it has in the source, and the
*actions* of `ClaxConn` are the callbacks libuv can run: `Read` is
`clax_conn_uv_read_cb` with all that parsing and dispatching do inside it,
`WriteFinished` is `clax_conn_write_finished_cb`, `Statted` is the stat branch of
`clax_dispatch_download_`, and so on (`PROJECT.json`, "map"). Between two callbacks
anything may happen that libuv allows: which of the ready callbacks runs next is free.

**State.** `conn` is the context together with what holds a pointer to it: the number of
writes in flight, the file operations in flight by kind, the child process and its pipe.
`req` is the request, `unread` the part of it the server has not read, `printed` and
`closed_by` record history for the properties.

**Abstractions**, all of data and not of control:

* The sends that make up one piece of a response (a header block, a chunk, a last
  chunk) are one write of size 1; they are made back to back in one callback. libuv takes
  the piece or refuses it as a whole; one that is taken cannot close the connection, which
  `ToWriteExact` shows. `refuse_at` is the piece that is refused (`-1`: none), any of the
  constant `RefuseAt`: the refusal closes the connection from the write path (`clax.c:502`),
  and what the handler does with the context after that is a use of a freed one.
* A request body is counted in pieces; one read of the socket delivers one parser
  event. Reads can follow one another without anything between them, so that a read
  that delivers several events has the same outcomes.
* Of the headers of a response only those that frame its body are kept. Contents of
  files, paths below `/tree/`, forms and credentials are the outcomes they lead to.
* The loop that computes a checksum reads the context only in its last callback and is
  one operation with an outcome.
* A system call that a callback makes takes its result from `SysResults`.
* A use of the freed context is undefined in C. `OnLive` records it in `stale`, and no
  step follows it.
* One request per connection; the process neither starts nor stops; `malloc` succeeds.

`ResponseStream` is the abstract specification: start, an interim 100 or not, a header
block, chunks, an end. `Phase` in `ClaxConn` maps the pieces the client has seen (those
whose writes are done) to it, and `StreamKept` says that every step of the connection is
a step of the promise or a stutter.

### Several clients, one file system: ClaxFiles

`ClaxConn` reduces the file system to outcomes; `ClaxFiles` is the other half. A client
has one request, and `job[c]` is what clax is doing for it: the operation under way
(`pc`), the open files, the position in the one in use, what the checksum has read, the
reply. The *actions* are the operations that happen at one moment for the others: the
synchronous calls of a handler (`clax_mkdir_p`, the open of an empty upload), and in the
thread pool every open, every piece of a copy, every read of a checksum or a body, every
unlink, each together with the callback that follows it.

* The file system is `folders`, `files` (the inode of each path) and `data` (the content
  of each inode), so that a file that is removed lives on for who has it open. `Gone` is
  the difference between ENOENT and ENOTDIR, which the handlers answer with 404 and 500.
* The pieces of a content are named for who wrote them: contents of two uploads can be
  told apart, and mixtures of them too. A checksum is the content it was computed from.
* `uv_fs_copyfile` is external, and taken to create or empty its target, to write it piece
  by piece, and to unlink it if a write fails.
* `silent` is a request that gets no reply (an empty upload whose target cannot be opened).
* `Alone` restricts the clients, not clax: a request arrives only while no other is at work
  on the same path.

`FileStore` is the abstract specification: a store of files, in which an upload, a
download and a delete are one step each, a refused upload leaves nothing, and an upload
answered 500 leaves the old content, nothing, or all that was sent, and never a part of it. `Store` and `Replied` map `ClaxFiles` to it: a request takes effect when it is
answered, and until then the path of an upload counts as what it was `before`.

### TLS: ClaxTls

What one read of the socket brings is lent to mbedTLS (`ssl`), which asks `clax_recv` for
a record's header and then for its body. The callback runs alone, but its steps are
actions here (`Fetch` is one call of `clax_recv`; `Handshake`, `Decode`, `CloseNotify`,
`BadRecord` are what mbedTLS makes of a record; `Deliver` is the call of
`clax_http_dispatch`), because the account of the buffer goes through them.

* Bytes are counted in units, each with its place in what the client sent: a record is a
  header of one unit and a body. mbedTLS takes nothing but a header for a header, and a
  record out of order has a wrong MAC.
* `Have` compares as the code does, unsigned, and `Advanced` moves by what was asked for.
  A copy out of bounds makes the state `undefined`, and so does a negative result passed
  on as a length. The length of a failed read makes the parser run over a buffer nobody has
  written to: `BadRecord` then hands it units no client sent (`Garbage`), as many as it likes.
* `gentle` is a history: were all reads such as the code copes with (`Copes`: a read ends
  with a record, brings at most one after the handshake, of no more than `Limit` units).
  `GentleDefined` and `GentleDelivered` are about those; `InOrder` is about all, for as long
  as the connection is not undefined.

### Headers: ClaxKv and ClaxHeaders

`ClaxKv` has the list with its operations as operators. `ClaxHeaders` has one action per
callback, `Field` and `Value`; in each, http_parser hands out as much of the name or value
under way as it likes, and possibly nothing more of one whose end it had not seen. A name
and a value are sequences of fragments, so that a cut may make one name of another. The
history `whole` tells whether any was cut.

### Requests, unit by unit: HttpParser and ClaxRequest

`HttpParser` is the loop of `http_parser_execute` with one action for each state, or for
several that differ in nothing but the character they wait for. The input is a sequence of
*units*: a character where the parser looks at characters (a URL, a number, the ends of
lines), and otherwise a text it treats as one (`"GET "`, `"HTTP/1.1"`, a part of a name
that matters). `BufferStart` and `BufferEnd` are the beginning and the end of a call, so
that a buffer may end behind any unit; what was under way is handed out there, and marked
again at the next start. Whether a callback succeeds is free in `HttpParser` and is what
the callbacks of clax decide in `ClaxRequest`, which composes its actions with theirs.

* The largest numbers of the C types and the largest header are scaled down (`HTTP_MAX_HEADER_SIZE`,
  `ULLONG_MAX`) so that the tests for them are met.
* The parser keeps quirks a reader should know: the count of the size of the headers
  counts one too many for each cut and goes on behind the trailers of a message; a request
  with CONNECT is always refused by `on_http_parser_url`; `Content-Length: 1 2` is 12 to
  http_parser and 1 to `atoi`.
* `seen` is history: what was cut, what the length announced, and which header the
  callbacks have come to, which is how `HeadersKept` says that `ClaxRequest` implements
  `ClaxHeaders`: what that module takes for granted of http-parser is what it does.
* A buffer may end just behind a URL. http_parser then calls `on_http_parser_url` with
  nothing, and the place and length of the path it reads are uninitialized
  (`clax_http_parser.c:137`, `PathUnset`). They come to whatever was there (a member of
  `Leftovers`, taken for the path), or reach out of the buffer and leave the connection
  undefined; behind the former the request goes on, and the properties with it.
* The dispatch ends the model of the request; a second message of the connection is
  followed into the context of the first, where its parameters are added to those of the
  first.

### Texts: ClaxHttpUtil, ClaxPath, ClaxCrc32, ClaxText

Functions of the source as operators. `ClaxText` grows one text, character by character,
over each of four small alphabets, and its properties compare every text with a definition
that works the other way round (encoding for decoding), or states the result (where a path
begins and ends in a URL, the remainder of a polynomial division). `code` is the variable
`clax_http_url_decode` leaves uninitialized: the properties hold whatever it contains.

### Options and start: ClaxStart

A command line and a file are chosen at the start; each line that is read, each step of
`clax_parse_options` and `clax_main`, is an action, up to the moment the first client is
talked to (`client`). A line is what `ini_parse_stream` tells lines apart by.

* The properties read the file as its writer does, all at once (`Giving`, `Latest`).
* What the model shows of the code, and a reader of the documentation may not expect: a
  switch that was set cannot be reset; an indented line replaces the value before it and
  does not add to it; a value that is too long counts as a success; the number of the line
  with an error is looked at by nobody; a second `-c` or `-l` is appended to the first; a
  port without a host is ignored; `chdir = yes` does nothing unless the root is changed.
* The empty value of a path, for which `clax_strcatfile` reads before its buffer, is left
  out by `FilesAssumption`; so are a log file that cannot be written and the folder that
  is detected from `argv`.

### Handshakes: X509 and ClaxHandshake

One action for each state of `mbedtls_ssl_handshake_server_step`, as clax configures it:
TLS, the certificate of the client required or not (`verify`), a cache of sessions, no
tickets, no renegotiation, no PSK. `running` is the connection whose read callback is at
work; it runs until it wants to read (`WantRead`), the handshake is over, or a message is
refused (`Refuses`): then the callback closes the connection, and `to` is the state the
context is in, which matters to whoever does not close it.

* `X509` has what `x509_crt.c` asks of certificates as operators: may one be the parent of
  another (`x509_crt_check_parent`), which trusted one decides about the top of a chain
  (`x509_crt_verify_top`). A certificate binds a key to a name; a key is named for its
  holder, and a signature for its key. `ClaxHandshake` walks up a chain one certificate at a
  time (`x509_crt_verify_child`, `VerifyTop`), while the state of the handshake has moved on
  already; `path` is the certificate it is at, how many it has passed, and whether anything
  was wrong so far. The first parent by name is taken, and nothing is tried again; of the
  path lengths that CAs allow only that of the trusted one is looked at.
* What the properties call `Certified` is said without the walk: there is a path of
  certificates in order, whether or not the client sent it.
* A cached session keeps the client's certificate and not the chain (`Kept`), and is not
  verified again when it is resumed: `Authenticated` says that its client was certified at
  some time up to now, and no more.
* Clients know the secrets of the connections they made and the certificates of everybody
  (`MadeBy`, `Others`). At each point a client sends what comes next or something else; it
  is `regular` while it keeps to the protocol.
* A session is named for the connection it was made on. A client may offer any such name.
* The file of certificates holds a CA behind the certificate of clax: with a single
  certificate and `verify` on, every handshake fails, since there is no chain to verify with.
* What clax writes is taken to arrive. (If `uv_write` fails, `clax_conn_write_cb` closes the
  connection in the middle of a step, `clax.c:502`.) Time passes between callbacks only.

## The runs

`CHECK_DEADLOCK FALSE` throughout: a connection, a set of requests, a header block, a text or a start ends,
and nothing happens in the instance afterwards; that it does not end too early is
`Answered`, `EveryoneAnswered`, `GentleDelivered` and `RegularServed`.

| Run | Requests, failures, client | Shows |
|---|---|---|
| `served` (MCConn) | every path with every method; uploads of 0, 1, 2 pieces with and without checksum and Expect; folders; commands; `mkdir`, the start of a command and file operations may fail; the client stays and libuv takes every write | the nine invariants, the refinement of `ResponseStream` and the liveness property hold |
| `anything` (MCConn) | all of these, also unauthorized, not HTTP, in chunks, with Expect anywhere; any one kind of failure; any one write may be refused; the client may hang up at any time | the type, the count of writes and the rule for closing hold without any assumption |
| `alone` (MCFiles) | two clients, uploads, downloads, deletes and folders; no two at one path at a time, but at paths on each other's way; copies and checksums may fail | a download's checksum is that of its body, a 500 has a reason, and `ClaxFiles` implements `FileStore` |
| `shared` (MCFiles) | two clients at any path; every operation may fail in the middle | both are answered |
| `tls` (MCTls) | a handshake, one to three records of data, a close or not; every way to cut them into reads | bytes are never out of order until a copy out of bounds or a failed read taken for a length; with reads the code copes with neither happens and all is delivered |
| `headers` (MCHeaders) | up to three headers, repeated, cut anywhere | the counted length is the one in the list; uncut, the last value is found and a 100 is expected as sent |
| `text` (MCText) | every text of up to four or five characters of four alphabets, two values of the uninitialized code | forms, URLs, credentials, paths and checksums come out as the reference definitions say |
| `request` (MCRequest) | thirteen talks of one or two messages in good order, twelve that are not, in up to three buffers cut anywhere, an uninitialized path of three kinds; writes may be short or fail | messages end where they end; none in good order is refused; what is dispatched is what was sent; the assertions of http_parser.c; `ClaxRequest` implements `ClaxHeaders` |
| `start` (MCStart) | five command lines; files of up to four lines, from four sets of lines that interact | clax serves with the options the file states, or not at all |
| `handshake` (MCHandshake) | three connections, two by somebody whose chain is in order and one by somebody with certificates in other people's names, below others than CAs, too far down, or out of date; seven chains to send; `verify` on or off; a cache of two sessions that are good for one unit of time | who gets through is who should; the cache forgets the oldest and the outdated; a regular client gets through |
| two violation runs | one small set of requests or records each | what the code does and a document denies, see below |

**Bounds.** `MaxPieces = 4` ends the read loop of a download after four pieces: a header
block, two chunks, an end, which is enough for a chunk to be in flight behind another.
`MaxOutput = 2` chunks of output for a command let one be read before and one after the
exit. Bodies of two pieces have a first, which opens the temporary file, and a last,
which closes it. `Refusals` has every piece that may be refused: no connection of the instance
writes more than seven. A single connection is enough here: connections share nothing but the
loop, which interleaves callbacks, and the file system, which this model reduces to
outcomes and `ClaxFiles` does not.

In `MCFiles`, two clients make every pair of operations meet, and the five paths (a file;
a folder, a file or folder in it, a file in that, and another file beside) have every
relation two paths can have: the same, one on the way to the other, in one folder, unrelated. Two pieces per upload let a second
one begin, and a reader read, between them; the old file has three, longer than any new
one, so that a rest of it would show. In `MCTls`, `Limit = 2` with records of 1 to 3 units
has records shorter than, equal to and longer than what one call decodes; `Room = 9` is
more than any two records, and less than most scripts. In `MCHeaders`, three headers allow one
name twice with another between; fragments make a name that ends with another name, and a
value whose prefix is another value.

In `MCRequest`, three buffers make two cuts: one text cut twice, or two texts once; the
talks have, one or two at a time, every feature the parser has a state for, and `HTTP_MAX_HEADER_SIZE`
and `ULLONG_MAX` are a little larger than what the good ones need and smaller than what a
bad one has. `SomeLeftovers` are nothing, a path, and one that is refused. In `MCText`, four characters hold a code of three with one beside it, or a pair
of a form with two names; five hold two passwords in base64 with their padding, and `/../x`.
In `MCStart`, four lines are a name, what comes between, more of its value and another
value for it; buffers of 12 are shorter than one value and by one slash too short for
another. In `MCHandshake`, three connections are two sessions by one person with one of
somebody else before or after; two entries fill the cache, and the third needs the place of
one; three units of time let a session be fresh, at its limit and outdated. Of the eight
intermediate certificates mbedTLS goes through it is one, so that chains of one, two and
three are short of the limit, at it and beyond it; the trusted ones are a CA, an older one of
the same name, and two clients' own, of which one is no more and one not yet good.

**Fairness.** `FairSpec` of `ClaxConn` adds `WF_vars(Progress)`: while the loop can run a callback, it
runs one. That is what `uv_run` does. It assumes what the code cannot provide: file
operations end, a command ends, and the client sends what it announced. `ReadEof` and the
output of a child are not in `Progress`: a client need never hang up and a child need
never print. One weak fairness condition on the disjunction is enough: each connection
runs through finitely many callbacks. `ClaxFiles` has weak fairness per client: the
thread pool works on each request, whatever it does for the others. `ClaxTls` has weak
fairness of the reads and the steps of the callback together: what was sent arrives, and a
callback runs to its end; a client need not hang up. `ClaxHandshake` has weak fairness
of the steps of the callback, of which one runs at a time (it runs to its end), and, for each
connection, of the next message of a client that keeps to the protocol (`ReadRegular`);
nobody need send anything else.

**OutputFirst.** libuv documents no order between the exit of a process and its output.
On Unix the loop runs the watcher of child signals after the other ready watchers, which
gives the output first if no descendant of the child still writes. `served` assumes it
(`OutputFirst = TRUE`); `anything` does not.

## Where the code and what is said of it differ

Each of these is a run that violates one property; `PROJECT.json` quotes the lines.

| Run | What happens |
|---|---|
| `refused_command` | a refused request is dispatched all the same and answered twice |
| `any_reads` | a TLS record that arrives in two reads, or is longer than 1024 bytes, is not delivered |

Others were met on the way. They are smaller, and no run is kept for them; the model
shows each when the constants of a cfg of the module named are given the values below.

| Model | Values (else as in the cfg named) | Property | What happens |
|---|---|---|---|
| `MCConn_refused_command.cfg` | `Requests <- NotHttp` | `BadRequestAnswered` | a request that does not parse gets no 400 (README.md:177): the guard of the reply negates an address, `clax_http.c:123` |
| `MCConn_refused_command.cfg` | `Requests <- ChunkedUploads` | `CopiedWhole` | an upload without `Content-Length` is copied after its first piece: the count of bytes to wait for starts at 0, `clax_http_parser.c:224` |
| `MCConn_refused_command.cfg` | `Requests <- ExpectingCommands`, `SPECIFICATION FairSpec` | `Answered` | `Expect: 100-continue` on `/command` sets the status 400 and writes nothing |
| `MCConn_served.cfg` | `RefuseAt <- Refusals` | `NoUseAfterFree` | a write that libuv refuses frees the context in the middle of the handler that writes, `clax.c:502`, and in `clax_conn_write_cb` itself, which goes on to read it |
| `MCConn_served.cfg` | `OutputFirst = FALSE` | `OutputComplete` | trailers can be written before the output is complete |
| `MCConn_refused_command.cfg` | `SPECIFICATION FairSpec`, `Requests <- EmptyUploads`, `SysResults <- CannotCreate` | `Answered` | an empty upload whose file cannot be created is never answered, `clax_dispatcher_tree.c:577` |
| `MCConn_refused_command.cfg` | `Requests <- Heads`, `FsFails = TRUE` | `HeadHasNoBody` | the 404 to a HEAD has a body (README.md:209), `clax_dispatcher.c:79` |
| `MCConn_refused_command.cfg` | `SPECIFICATION FairSpec`, `Requests <- RunningCommands`, `HangUp = "after"` | `Answered` | the end of the client's stream closes the connection with the response pending, `clax.c:582` |
| `MCConn_served.cfg` | `Requests <- FormUploads` | `UploadStored` | an upload with a form's content type answers 204 and stores an empty file, `clax_http_parser.c:251` |
| `MCFiles_shared.cfg` | `Requests <- Valid`, `DiskFails = {}` | `ValidAccepted` | the check of one upload reads what another wrote to the path, and removes it (t/tree.t:124 expects a 204), `clax_dispatcher_tree.c:388` |
| `MCStart_start.cfg` | `Files <- TlsOnStdin`, `Args <- SomeArgs` | `Answerable` | with TLS enabled and no host to listen on, the connection on stdin has no TLS context and the read callback uses it (README.md:6), `clax.c:840` |
| `MCFiles_alone.cfg` | `Requests <- EmptyOnly` | `StoredAsSent` | an empty upload over a file keeps the old content, `clax_dispatcher_tree.c:574` |
| `MCFiles_alone.cfg` | `Requests <- FolderOnly` | `FolderMade` | a folder is reported created where a file is, `clax_util.c:719` |
| `MCFiles_alone.cfg` | `Requests <- DocumentedOnly` | `ChecksumChecked` | the checksum is looked for under `crc`, and documented as `crc32` (README.md:295), `clax_dispatcher_tree.c:438` |
| `MCFiles_alone.cfg` | `Requests <- Downloads`, `DiskFails = {"send"}` | `DownloadWhole` | a download whose file cannot be read to the end looks complete, `clax_http.c:343` |

## What is proved

`ClaxConn_proofs` proves, for every set of requests and of system call results, every
failure, whichever write libuv refuses, every order of the callbacks and whenever the
client hangs up,

* `TypeCorrect`: `Spec => []TypeOK`,
* `WritesCounted`: `Spec => []ToWriteExact`,
* `NeverCutOff`: `Spec => []ClosedFlushed`: the write path closes a connection when its
  response is ended and written, or when a write was refused, and else never.

The argument. Every C function is an operator on contexts, so `ClaxConn_proofs` first
proves one lemma per operator: from a *good* context (well-typed, with an exact count) it
makes a *step* to a good context, where a step does not revive a context, frees one only if
a write was refused, and leaves the writes and the end of a freed one alone. Steps compose
(`StepTrans`), which is how a lemma for a handler follows from those for what it calls. There
are two places where the write path could free the context in the middle of a callback, both in
`clax_conn_write_cb`. `WriteStep` shows that the test at its end never succeeds for a write that
was taken: something was just queued, so an exact count is positive. A write that is refused
does free it, and `refused` records it. Then comes the inductive
invariant `IInv`: the three properties, `closed_by = "none" <=> conn.ctx = "live"`, and that
a write was refused only if one is to be. `ClosedFlushed` alone is not inductive: that the
callback that closes leaves no write in flight needs the exact count, and that none is added
later needs the context to be gone. Apart from a refused write, which any handler can meet, only
three steps free a context (`Read` of a bad request, `ReadEof`, `WriteFinished`), and each has
a lemma of its own. A step also only appends to the wire (`Extends`), which the refinement
below needs.

The second half of `ClaxConn_proofs` proves the rest of what `served` checks. All but the first
hypothesis of each theorem are the same, `Patient`, and each part of it is needed:

* the requests are `Regular`: authorized, well-formed HTTP, with a length where there is a
  body, and `Expect` for an upload to a path only. An unauthorized one is answered
  twice, an upload in chunks is copied after its first piece, and a command with `Expect` is not
  answered at all (see the table above);
* the system calls are `Fine`: what the code does not answer when it fails does not fail.
  A folder that cannot be made, a command that cannot be started and every operation of the
  thread pool may;
* `HangUp = "never"`: the context is freed at the end of the client's stream, whatever is
  in flight;
* `OutputFirst`, see above;
* `RefuseAt = {-1}`: libuv takes every write. A refused one frees the context under the
  handler that writes.

| Theorem | Property |
|---|---|
| `NeverStale` | `NoUseAfterFree` |
| `AlwaysFramed` | `ResponseFramed` |
| `EndsComplete` | `EndedWhenComplete` |
| `NeverForgotten` | `NotForgotten` |
| `ChainNeverForks` | `OneOperation` |
| `AlwaysCopiedWhole` | `CopiedWhole` |
| `OutputSent` | `OutputComplete` |
| `HeadReleases` | `FileReleased` |
| `CreatedStored`, if in addition no form is posted to a file (`NoForms`) | `UploadStored` |
| `StreamImplemented` | `StreamKept`, the refinement of `ResponseStream` |

None of the properties is inductive alone: whether a callback may write a header block
depends on what was written, by whom, and what else is in flight. The invariant `SInv`
divides the life of a connection into six stages: `Beginning` (the request is unread),
`Receiving` (headers read, body under way), `Working` (one file operation under way),
`Sending` (the loop that reads a file), `Running` (a child or its pipe) and `Ended`; each
says what is on the wire, which operations are in flight, what the temporary file holds
and what is unread. There is a lemma for what each piece of the response writer does to the
wire (`WriteIs` to `PushIs`), one per reply, one per handler, and then one per callback: from
its stage it leads to a stage. The case with most in it is the end of an upload, where
the body's last piece, the end of the message and the closing of the temporary file come
together and `to_read` decides who dispatches. For the refinement the wire is cut at what has
left (`Phase`): the stages say that the whole wire has one form, and `Extends` that a
step changes either its end or how much of it has left.

`ClaxFiles_proofs` proves, for any number of clients, any paths, sizes, files and failures,

* `FilesTyped`: `Alone /\ Spec => [](TypeOK /\ TreeOK)`,
* `SentAsSummed`: `Alone /\ "send" \notin DiskFails /\ Spec => []BodyAsSummed`,
* `ErrorsExplained`: `Alone /\ Spec => ErrorHasReason`,
* `StoreImplemented`: `Undisturbed /\ Spec => StoreKept`, the refinement of `FileStore`,
* `UploadsStored` and `ValidUploads`: `Undisturbed` and `Spec` imply `StoredAsSent` and
  `[]ValidAccepted`, which TLC refutes without the hypothesis (see the table above).

`Alone` is what the code does not ensure and the run `shared` does without: one request at
a time at a path. A read error ends the body of a download like the end of the file does,
hence `"send" \notin DiskFails`; and `Undisturbed` adds `EmptiesApart`: empty uploads go
where no other content is, because clax does not truncate. The invariant `IInv` says for each
stage of a job what the client has in its hands, and ties that to the file system: that a
checksum has read what stands before its position (`Reading`), that the open file is the one at the
path, that a copy has written its own pieces and nothing else. Other clients keep it because
no two names share an inode (`TreeOK`) and no two busy ones a path (`Apart`); a file cannot
disappear by way of its folder, as clax removes no folders. `RInv` adds the contents that are
compared with what was sent. With both, each step is shown to leave the abstract store as
it is or to be the one step of its request (`Outcome`), and the steps of the others to be
invisible to it.

`ClaxHeaders_proofs` proves, for all messages and every way to cut them,

* `HeadersTyped`: `Spec => []TypeOK`,
* `LengthFollowsList`: `Spec => []LengthAgrees`,
* `LastIsFound`: `Spec => []LastValueFound`,
* `ExpectedAsSent`: `Spec => []ExpectAsSent`.

A list is searched from its start, and set in the item found; the model says so with a
CHOOSE of a first item. The lemmas `PushKeeps` and `SetKeeps` say what the two operations
keep: a pushed item is found if its key is new and hides nothing, and setting one key
changes what is found for no other. They need that every key of a list has a first item
(`HasFirsts`), which is therefore part of the inductive invariant, with `TypeOK`,
`LengthAgrees` and that the list is not empty once a name was handed out: else a value
would have no item to be set in. The step that is not obvious is a field named
`Content-Length` when there is one already: the new, empty item stands behind it, and the
length stays that of the first. That the number of an empty value is 0, as `atoi` has it,
is an assumption and is used where there was none. The last two theorems are about headers
none of which was cut in two. For these the invariant (`Whole`) relates the list to the
message: it has exactly the names sent so far, its last item is that of the header at
hand, and what is found for a name is the last value sent for it.

`ClaxHandshake_proofs` proves, for all connections and whoever makes them, every set of
certificates, of trusted ones and of chains, every cache and every order of messages,

* `AlwaysAuthenticated`: `Spec => []Authenticated`,
* `CacheKeeps`: `Spec => SessionsKept`.

`Authenticated` speaks of handshakes that are over; `StateOK` says what is known in each
state before. From the certificate to the signature, that a path leads from the first
certificate of the chain to the one the walk is at (`Leads`), and then that the holder of its
key may come in (`Shown`); after the signature, that the session was made by somebody who may
(`Vouched`); after the end of the client's messages, that the client is the one who made it
(`Knows`). A resumed session skips the first two, so the invariant also says of every entry
of the cache that it is vouched for, and of the message in hand that nobody signs for another
or knows the secret of another's connection (`InboxOK`). `PathGoesOn` and `PathEnds` are the
two steps of the walk; `CacheSet` says that a write to the cache brings in nothing but the
session written, wherever its place is. Since every state but the first is left with the
message refused, `RefusesInv` needs that the context is freed there. The clock may go on
between callbacks only, when no chain is being verified (`path.at # 0 => running = c`), and
who may come in then may still (`SameOwners`).

`SessionsKept` is about steps: what a write to the cache may forget. That an entry is as old
as the handshake it was made in, which is over (`EntryOK`), that a session which is not
resumed is named for its connection (`SessionOK`) and that a handshake ends once give that
a name is never written twice; `CInv` is that, and the size of the cache.

`ClaxTls_proofs` proves, for all scripts of records, all limits and sizes of the buffer, and
however the stream is cut into reads,

* `DeliveredInOrder`: `Spec => []InOrder`, that is, until the connection is undefined,
* `GentleIsDefined`: `Spec => []GentleDefined`.

For the first the invariant (`OInv`) is that what was delivered and what is decoded are the
first pieces of the script, as many as there were records. For the second, `GInv`, it is
that the lent buffer starts and ends with a record whenever the callback returns, and in
the middle of one holds a first part of what is left of the record. The wire is
numbered, and parts of it are compared by their numbers (`Consecutive`). Both need what
`FlattenSeq` does to a sequence that grows, which the community modules define as a
recursive function: `UpToExists` shows that there is one, `FirstOfStep` what it makes of one
more piece. The assumption on the scripts is that a client makes its handshake first and
no second one.

`ClaxRequest_proofs` proves, for all requests, cut in any way, and whatever the callbacks
return,

* `AssertionsHold`: `Spec => []AssertsHold`: no assertion of http-parser fails,
* `BodyStoredWhole`: `Spec => []StoredWhole`: the dispatch of the first request waits for
  the whole of its body.

For the first the invariant says what is known of the parser in each of its states (`Fine`): that the
length is neither 0 nor unknown in a body, fits its 64 bits everywhere and is 0 between a chunk
and its end, that the state of a header is one of those its value may be in, that
`F_CHUNKED` stands while there are chunks; and that the buffer at hand is a part of the
input. There is one lemma per group of actions. The two assertions with something to
them are the one on `header_state` where a value begins, and the one on `nread` where the size of a
chunk does: both steps that lead there reset it. A digit of a
length does not overflow because of the test before it (`DigitFits`).

For the second the steps of the parser are sorted by what they mean for a body
(`StandsStill`, `Begins`, `Reads`, `EndsHeaders`, `LeavesHeaders`, `ReadsBody`, `EndsMessage`,
`ReadsChunks`, `HandsOutRest`; `StepKinds` says that there is no other), and each action is shown to be
of its kind. The invariant `FirstInv` says how far the first request has come: its headers are
`Ahead`, or just read (`HeadersRead`), its body comes (`BodyComes`) or was read (`BodyRead`), or clax and the parser
did not agree on its length (`Disagreed`). While the body comes, `FileSums` keeps the account: what was
written, what was handed out, what the parser has left and what `to_read` waits for add up to the
announced length as long as no write was short. That `to_read` comes down to zero with the last
piece and not before gives the one dispatch; a short write leaves it above zero for good. `StoredWhole` speaks of
the first message of a connection, because clax does not set the request back for a second.

`ClaxText_proofs` proves, for texts of every length over any alphabets,

| Theorem | Property |
|---|---|
| `FormsAreUndone` | `FormUndone` |
| `UrlsAreRead` | `UrlRead` |
| `CredentialsCompared` | `OnlyTheRight` |
| `PathsAreTidied` | `PathClean` |
| `ChecksumIsRemainder` | `CrcAsDivided` |

and `TextIsText`, which says no more than that the text is one. `Spec` only lets the text
grow; the content of a theorem is its lemma about all texts (`AllForms`, `AllUrls`,
`AllCredentials`, `AllPaths`, `AllCrcs`). The functions are folds. A fold is defined by recursion
over the set of places; `FoldValues` turns it into the sequence of its values, one for
each prefix of the text, and `UpTo` is the induction along that sequence.

* *Forms.* The encodings of the prefixes are a sequence (`EncodedValues`), each the beginning of the whole
  (`EncodedGrows`). The decoder reads one piece of an encoding for one character (`PieceRead`), whatever the
  uninitialized code was, so decoding undoes encoding (`Undone`). The scan of a form knows the
  places and lengths of a pair when it has read it (`PairScanned`); what stands there is the encoding of the key
  and of the value (`FieldRead`).
* *URLs.* The table of moves is written out (`MovesAre`), and from it where each character leads
  (`PathGoesOn`, `HostGoesOn`). The invariant along the URL says what the fields hold after k
  characters, from the first `?` and the first `#` of the whole URL (`InPlace`); `Onward` is its step. Which hosts are
  accepted does not matter to it.
* *Credentials.* base64 is taken in groups of three bytes, whose six-bit parts are what the bits of the text
  say (`Base64Is`), and each group is read back (`GroupDecoded`). The first colon of the C string is the
  first colon of the text, if no zero byte comes before its end.
* *Paths.* A pass of the loop that tidies a path shortens it or turns its first backslash into a
  slash (`SanStepLeft`): twice the length, less how far the text is free of backslashes, goes down, and
  `2 * Len(s)` passes are enough.
* *Checksums.* Eight steps of the division are one look into the table (`ByteOfBits`), for words as sets of
  bits, with the laws of xor; pieces add up because a fold can be cut; the hexadecimal digits are the
  bits four at a time.

The provers know nothing of characters. What they have to be told is assumed in `Chars`, `HttpUrl` and `ClaxHttpUtil`
(`HexAssumption`, `DigitAssumption`, `SignAssumption`, `SlashAssumption`, `Char64Assumption`):
what the sixteen digits are worth, that some signs are neither letters nor digits, that a slash may
stand in a path, that no two of the characters of base64 are the same. None of it is about a constant of the
model, and TLC evaluates each.

`ClaxStart_proofs` proves, for all command lines and configuration files,

* `ReadAsWritten`: `Spec => []AsWritten`,
* `TalksAsWritten`: `Spec => []TalksAsTold`.

The properties look at a file all at once: the last line that gives a name a value, the
section a line is in, the name it goes on from. The code sees a line, a section and a
name. The invariant ties the two together for the lines read so far: `ReadTo` for the section and the
name, `Said` for every option. There is one lemma for each kind of line (`ReadMore`,
`ReadPair`, `ReadSection`, `ReadNothing`), and `HandlerSets`, that a value changes one
option: it needs that no two names share a field (`TextsApart`). The assumption on the files
is that a pair has a name and a value.

The proofs assume the named ASSUMEs, of the constants and of characters, and nothing else. They do
not assume fairness.

**Only model-checked**:

* liveness (`Answered` and the like, `GentleDelivered`, `RegularServed`): fairness and ENABLED
  are outside TLAPS as it is installed here;
* of the run `request`, `Framed`, `Accepted`, `DispatchedAsSent` and the refinement
  `HeadersKept`. They compare the parser with the messages the client meant, and hold only of talks
  whose messages are in good order and whose `rest` completes no other. To say that of all talks takes
  a grammar of HTTP messages as an assumption, and their proof an invariant that ties each of the
  parser's states to a place in that grammar;
* the runs that expect a violation.

## What is not modelled, and the plan

Done of the plan: the connection (`ClaxConn`), the file system (`ClaxFiles`), TLS
(`ClaxTls`, `ClaxHandshake`, `X509`), the headers (`ClaxHeaders`), the way of a request through
http-parser (`HttpParser`, `ClaxRequest`), texts (`ClaxText`), the start (`ClaxStart`).
What remains worth doing, in this order:

1. Theorems about the rest of `ClaxRequest`: a grammar of messages as an assumption on `Talks`,
   and with it `Framed`, then `HeadersKept`.
2. Several connections with one loop: the temporary names, and the directory of temporary
   files; the responses to several requests on one connection.

Not modelled in the parts that are: the release of everything when the process ends, a
failed accept, the responses after the first on one connection, the times of files, the
listing and removal of folders, the parsing of keys and certificates. Of a certificate the
algorithms and the size of its key are taken to be in the default profile; clax gives mbedTLS
no revocation list, no name to look for and no callback, so that those parts never run.

Left out for good:

* the Windows service mode, logging, the table of error messages, the definitions of the
  platform;
* of http-parser the parser of responses and the pause, of base64 the encoder, of inih the
  switches of its build: clax uses none of them;
* of mbedTLS, which is most of the lines of the repository, everything but the server's
  handshake, the verification of certificates, the records and the cache. Ciphers, hashes,
  big numbers, curves, ASN.1 and the parsing of certificates are functions on numbers and
  formats with no state beside their input; the
  hazards of clax are not there, and a model of a cipher small enough to be checked would
  be a model of another cipher. The client's side, DTLS, tickets, renegotiation and PSK
  are code that clax never reaches. libuv and frozen are submodules without their source;
* the tests, and the build files.
