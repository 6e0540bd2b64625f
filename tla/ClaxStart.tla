----------------------------- MODULE ClaxStart ------------------------------
(***************************************************************************)
(* How clax starts: the command line and the configuration file            *)
(* (clax_options.c, contrib/inih/ini.c), then TLS, the socket or stdin     *)
(* (clax_main), and the first bytes of the first client.                   *)
(*                                                                         *)
(* Paths are sequences of characters, in buffers of SIZE; other values are *)
(* one word.  A line of the file is what ini_parse_stream tells lines      *)
(* apart by; whole is the text of a line, for when it continues the value  *)
(* before it.  A pointer is a set, empty for NULL.  The Windows service    *)
(* and what is written to the log are left out, and the chdir to the       *)
(* folder of the program: nothing can ask for it before the file is read.  *)
(***************************************************************************)
EXTENDS ClaxPath

CONSTANTS
  Args,     \* command lines: sequences of options with their arguments
  Files,    \* configuration files: sequences of lines
  Exe,      \* the path of the program
  Home,     \* the folder it is started in
  SIZE,     \* of a buffer for a path
  atoi(_)

Line == [kind : {"blank", "section", "open", "pair", "junk"}, indented : BOOLEAN,
         name : STRING, value : Seq(STRING), whole : Seq(STRING)]

ASSUME ArgsAssumption == \A a \in Args : a \in Seq([opt : {"l", "c", "h"}, arg : Seq(STRING)])
\* A pair has a name and a value.
ASSUME FilesAssumption ==
  /\ Files \subseteq Seq(Line)
  /\ \A f \in Files : \A i \in DOMAIN f :
       f[i].kind = "pair" => f[i].name # "" /\ f[i].value # << >>
ASSUME SizeAssumption == SIZE \in Nat /\ Len(Exe) < SIZE

VARIABLES
  args,     \* those that are still to be taken
  file,
  options,  \* opt
  cwd,      \* the folder the process is in
  ini,      \* ini_parse_stream
  pc,
  ssl,      \* clax_ssl_init: "off", "ready" or "failed"
  client    \* what the first client is to clax

vars == <<args, file, options, cwd, ini, pc, ssl, client>>

clax_options_init ==
  [root |-> << >>, chdir |-> FALSE, log_file |-> << >>, config_file |-> << >>,
   basic_auth_username |-> {}, basic_auth_password |-> {},
   ssl |-> FALSE, no_ssl_verify |-> FALSE,
   cert_file |-> << >>, key_file |-> << >>, entropy_file |-> << >>,
   standalone |-> FALSE, bind_host |-> {}, bind_port |-> 0]

DEFAULT_PORT == 11801

IniStart == [lineno |-> 0, section |-> "", prev_name |-> ""]

Init ==
  /\ args \in Args /\ file \in Files
  /\ options = clax_options_init
  /\ cwd = Home
  /\ ini = IniStart
  /\ pc = "args"
  /\ ssl = "off"
  /\ client = "none"

Goes(to) == pc' = to

-----------------------------------------------------------------------------
(* The command line.                                                       *)

\* -c and -l are appended to what was given before.
WithArg(o, a) ==
  LET c == clax_strcat(o.config_file, SIZE, a.arg)
      l == clax_strcat(o.log_file, SIZE, a.arg)
  IN  CASE a.opt = "c" -> [ok |-> c.ok, options |-> [o EXCEPT !.config_file = clax_san_path(c.dst)]]
        [] a.opt = "l" -> [ok |-> l.ok, options |-> [o EXCEPT !.log_file = clax_san_path(l.dst)]]
        [] OTHER -> [ok |-> FALSE, options |-> o]

\* One round of the loop over the options.
TakeArg ==
  /\ pc = "args" /\ args # << >>
  /\ LET taken == WithArg(options, Head(args))
     IN  /\ options' = taken.options
         /\ args' = Tail(args)
         /\ pc' = IF taken.ok THEN "args" ELSE "exit"
  /\ UNCHANGED <<file, cwd, ini, ssl, client>>

\* The log file is required, and opened at once.
ArgsTaken ==
  /\ pc = "args" /\ args = << >>
  /\ \/ options.log_file # << >> /\ Goes("root")
     \/ Goes("exit")
  /\ UNCHANGED <<args, file, options, cwd, ini, ssl, client>>

Dirname(path) ==
  LET last == CHOOSE i \in DOMAIN path : path[i] = "/" /\ \A j \in (i + 1)..Len(path) : path[j] # "/"
  IN  IF last = 1 THEN <<"/">> ELSE SubSeq(path, 1, last - 1)

Detected == clax_strcatdir(Dirname(clax_san_path(Exe)), SIZE, <<"/">>)

\* The folder of the program is shorter than its path, and fits.
DetectRoot ==
  /\ pc = "root"
  /\ options' = [options EXCEPT !.root = clax_san_path(Detected.dst)]
  /\ Goes("find")
  /\ UNCHANGED <<args, file, cwd, ini, ssl, client>>

ClaxIni == <<"c", "l", "a", "x", ".", "i", "n", "i">>

\* A file that was named must be there; the one beside the program may be.
FindConfig ==
  /\ pc = "find"
  /\ LET beside == clax_strcatfile(options.root, SIZE, ClaxIni)
     IN  \/ options.config_file # << >> /\ UNCHANGED options /\ pc' \in {"config", "exit"}
         \/ /\ options.config_file = << >> /\ beside.ok
            /\ options' = [options EXCEPT !.config_file = beside.dst]
            /\ pc' \in {"config", "exit"}
         \/ /\ options.config_file = << >> /\ UNCHANGED options
            /\ Goes(IF beside.ok THEN "check" ELSE "exit")
  /\ UNCHANGED <<args, file, cwd, ini, ssl, client>>

-----------------------------------------------------------------------------
(* The configuration file.                                                 *)

Yes == <<"yes">>
No == <<"no">>

\* A value that does not fit leaves the path empty, or a root without its slash.
RootFrom(value) ==
  LET d == clax_strcatdir(<< >>, SIZE, value)
  IN  IF d.ok THEN clax_san_path(d.dst) ELSE clax_strcat(<< >>, SIZE, value).dst

PathFrom(value) == clax_san_path(clax_strcatfile(<< >>, SIZE, value).dst)

\* A switch can be set, and never reset.
Switched(o, key, value) ==
  CASE key = <<"", "chdir">> -> [o EXCEPT !.chdir = @ \/ value = Yes]
    [] key = <<"ssl", "enabled">> -> [o EXCEPT !.ssl = @ \/ value = Yes]
    [] key = <<"ssl", "verify">> -> [o EXCEPT !.no_ssl_verify = @ \/ value = No]
    [] OTHER -> o

Switches == {<<"", "chdir">>, <<"ssl", "enabled">>, <<"ssl", "verify">>}

\* The fields that the names of the file set, with what they make of a value.
TextKeys ==
  {<<"", "root">>, <<"ssl", "cert_file">>, <<"ssl", "key_file">>, <<"ssl", "entropy_file">>,
   <<"http_basic_auth", "username">>, <<"http_basic_auth", "password">>,
   <<"bind", "host">>, <<"bind", "port">>}

Texts ==
  [key \in TextKeys |->
     CASE key[2] = "username" -> "basic_auth_username"
       [] key[2] = "password" -> "basic_auth_password"
       [] key[2] = "host" -> "bind_host"
       [] key[2] = "port" -> "bind_port"
       [] OTHER -> key[2]]

FieldFrom(field, value) ==
  CASE field = "root" -> RootFrom(value)
    [] field \in {"cert_file", "key_file", "entropy_file"} -> PathFrom(value)
    [] field = "bind_port" -> atoi(value)
    [] OTHER -> {value}

clax_config_handler(o, key, value) ==
  IF key \in DOMAIN Texts THEN [o EXCEPT ![Texts[key]] = FieldFrom(Texts[key], value)]
  ELSE Switched(o, key, value)

\* Variant: a section does not end the value before it.
section_keeps_name(name) == [ini EXCEPT !.lineno = @ + 1, !.section = name]

InSection(name) == [ini EXCEPT !.lineno = @ + 1, !.section = name, !.prev_name = ""]

\* A value for a name, of this line or, when it goes on, of one before.
Assigns(name, value) ==
  /\ options' = clax_config_handler(options, <<ini.section, name>>, value)
  /\ ini' = [ini EXCEPT !.lineno = @ + 1, !.prev_name = name]

Continues(line) == line.indented /\ ini.prev_name # ""

\* A line that is neither is passed over; that it is an error, like a name the
\* handler does not know, is noted in a number nobody looks at.
ReadLine ==
  /\ pc = "config"
  /\ ini.lineno < Len(file)
  /\ LET line == file[ini.lineno + 1]
     IN  \/ line.kind # "blank" /\ Continues(line) /\ Assigns(ini.prev_name, line.whole)
         \/ line.kind = "section" /\ ~Continues(line) /\ ini' = InSection(line.name) /\ UNCHANGED options
         \/ line.kind = "pair" /\ ~Continues(line) /\ Assigns(line.name, line.value)
         \/ /\ line.kind = "blank" \/ (line.kind \in {"open", "junk"} /\ ~Continues(line))
            /\ ini' = [ini EXCEPT !.lineno = @ + 1]
            /\ UNCHANGED options
  /\ UNCHANGED <<args, file, cwd, pc, ssl, client>>

\* Where a path leads from here.
From(folder, path) == IF Head(path) = "/" THEN path ELSE folder \o path

\* If the file changed the root, the process may have to go there, which can fail.
ConfigRead ==
  /\ pc = "config"
  /\ ini.lineno = Len(file)
  /\ \/ /\ options.root # clax_san_path(Detected.dst) /\ options.chdir
        /\ \/ options.root # << >> /\ cwd' = From(cwd, options.root) /\ Goes("check")
           \/ UNCHANGED cwd /\ Goes("exit")
     \/ /\ options.root = clax_san_path(Detected.dst) \/ ~options.chdir
        /\ UNCHANGED cwd /\ Goes("check")
  /\ UNCHANGED <<args, file, options, ini, ssl, client>>

Standalone(o) ==
  IF o.bind_host = {} THEN o
  ELSE [o EXCEPT !.standalone = TRUE, !.bind_port = IF @ = 0 THEN DEFAULT_PORT ELSE @]

\* Variant: one of the two files is enough.
check_needs_one(o) == o.ssl => o.cert_file # << >> \/ o.key_file # << >>

HasFiles(o) == o.ssl => o.cert_file # << >> /\ o.key_file # << >>

CheckOptions ==
  /\ pc = "check"
  /\ \/ HasFiles(options) /\ options' = Standalone(options) /\ Goes("ssl")
     \/ ~HasFiles(options) /\ UNCHANGED options /\ Goes("exit")
  /\ UNCHANGED <<args, file, cwd, ini, ssl, client>>

-----------------------------------------------------------------------------
(* clax_main, once the options are there.                                  *)

\* Whether TLS could be set up or not makes no difference to what follows.
SslInit ==
  /\ pc = "ssl"
  /\ ssl' \in IF options.ssl THEN {"ready", "failed"} ELSE {"off"}
  /\ Goes("open")
  /\ UNCHANGED <<args, file, options, cwd, ini, client>>

Open ==
  /\ pc = "open"
  /\ pc' \in {IF options.standalone THEN "listening" ELSE "stdin", "exit"}
  /\ UNCHANGED <<args, file, options, cwd, ini, ssl, client>>

\* A connection has a TLS context only if it was accepted; the context does not
\* work without its configuration, and the read callback uses it all the same.
Client ==
  /\ pc \in {"listening", "stdin"} /\ client = "none"
  /\ client' = CASE ~options.ssl -> "plain"
                 [] options.ssl /\ pc = "stdin" -> "undefined"
                 [] options.ssl /\ pc = "listening" /\ ssl = "failed" -> "closed"
                 [] OTHER -> "tls"
  /\ UNCHANGED <<args, file, options, cwd, ini, pc, ssl>>

\* An interrupt ends the process at any time.
term ==
  /\ pc # "exit"
  /\ Goes("exit")
  /\ UNCHANGED <<args, file, options, cwd, ini, ssl, client>>

Next ==
  \/ TakeArg \/ ArgsTaken \/ DetectRoot \/ FindConfig \/ ReadLine \/ ConfigRead \/ CheckOptions
  \/ SslInit \/ Open \/ Client \/ term

Spec == Init /\ [][Next]_vars

-----------------------------------------------------------------------------
(* The file as its writer reads it, all lines at once.                     *)

\* A name is open for more of its value until the next section.
OpenAt(f, i) ==
  \E j \in 1..(i - 1) : /\ f[j].kind = "pair"
                        /\ \A k \in (j + 1)..(i - 1) : f[k].kind = "section" => f[k].indented

StandsAlone(f, i) == ~f[i].indented \/ ~OpenAt(f, i)

\* The lines of a kind up to line i that stand for themselves, and the last of them.
Own(f, i, kind) == {j \in 1..i : f[j].kind = kind /\ StandsAlone(f, j)}

Latest(S) == CHOOSE j \in S : \A k \in S : k <= j

SectionAt(f, i) ==
  LET own == Own(f, i, "section") IN IF own = {} THEN "" ELSE f[Latest(own)].name

Assigning(f, i) == f[i].kind = "pair" \/ (f[i].kind # "blank" /\ ~StandsAlone(f, i))

KeyAt(f, i) == <<SectionAt(f, i), f[Latest(Own(f, i, "pair"))].name>>

ValueAt(f, i) == IF StandsAlone(f, i) THEN f[i].value ELSE f[i].whole

Giving(f, key) == {i \in DOMAIN f : Assigning(f, i) /\ KeyAt(f, i) = key}

Says(f, key, value) == \E i \in Giving(f, key) : ValueAt(f, i) = value

FieldSays(f, key, default) ==
  IF Giving(f, key) = {} THEN default
  ELSE FieldFrom(Texts[key], ValueAt(f, Latest(Giving(f, key))))

RootSays(f) == FieldSays(f, <<"", "root">>, clax_san_path(Detected.dst))

-----------------------------------------------------------------------------
(* Properties.                                                             *)

Serving == pc \in {"listening", "stdin"}

WasRead == ini.lineno > 0

\* Once clax serves, every option is what the file says of it (clax_config_handler):
\* the last value for a name, on a line of its own or going on from another, in its
\* section; a switch if one of its lines sets it; a default where nothing is said.
\* It listens if a host is given, and is in the root if the file moved it and asked
\* to go there.
AsWritten ==
  Serving /\ WasRead =>
    /\ \A key \in DOMAIN Texts \ {<<"bind", "port">>, <<"", "root">>} :
         options[Texts[key]] = FieldSays(file, key, clax_options_init[Texts[key]])
    /\ options.root = RootSays(file)
    /\ options.chdir = Says(file, <<"", "chdir">>, Yes)
    /\ options.ssl = Says(file, <<"ssl", "enabled">>, Yes)
    /\ options.no_ssl_verify = Says(file, <<"ssl", "verify">>, No)
    /\ (pc = "listening") = (Giving(file, <<"bind", "host">>) # {})
    /\ pc = "listening" =>
         LET port == FieldSays(file, <<"bind", "port">>, 0)
         IN  options.bind_port = IF port = 0 THEN DEFAULT_PORT ELSE port
    /\ cwd = IF options.chdir /\ RootSays(file) # clax_san_path(Detected.dst)
             THEN From(Home, RootSays(file)) ELSE Home

\* A client is spoken to in plain text only if the file does not ask for TLS, and
\* over TLS only if it names a certificate and a key (clax_parse_options).
TalksAsTold ==
  /\ client = "plain" /\ WasRead => ~Says(file, <<"ssl", "enabled">>, Yes)
  /\ client = "tls" => /\ Giving(file, <<"ssl", "cert_file">>) # {}
                       /\ Giving(file, <<"ssl", "key_file">>) # {}

\* The first client can be talked to, over stdin as over a socket, in plain text or
\* over TLS (README.md:5).
Answerable == client # "undefined"
=============================================================================
