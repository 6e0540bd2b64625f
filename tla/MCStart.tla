------------------------------ MODULE MCStart -------------------------------
(***************************************************************************)
(* Instances of ClaxStart for TLC.                                         *)
(***************************************************************************)
EXTENDS ClaxStart

Pair(name, value) ==
  [kind |-> "pair", indented |-> FALSE, name |-> name, value |-> value,
   whole |-> <<name, "=">> \o value]
Section(name) ==
  [kind |-> "section", indented |-> FALSE, name |-> name, value |-> << >>,
   whole |-> <<"[", name, "]">>]
Word(text) ==
  [kind |-> "junk", indented |-> FALSE, name |-> "", value |-> << >>, whole |-> text]
Indented(line) == [line EXCEPT !.indented = TRUE]

Blank == [Word(<< >>) EXCEPT !.kind = "blank"]
Unclosed == [Section("ssl") EXCEPT !.kind = "open"]

R == <<"/", "r">>
Elsewhere == <<"r">>
TooLong == [i \in 1..12 |-> "t"]
WithoutSlash == [i \in 1..11 |-> "w"]

\* Roots and what may come between a name and more of its value; TLS; the rest.
Roots == {Pair("root", R), Pair("root", Elsewhere), Pair("chdir", Yes), Indented(Word(Yes)),
          Indented(Word(R)), Section("ssl"), Indented(Section("ssl"))}
OddRoots == {Pair("root", TooLong), Pair("root", WithoutSlash), Pair("chdir", Yes),
             Pair("chdir", No), Unclosed, Blank, Indented(Word(R))}
Tls == {Pair("enabled", Yes), Pair("enabled", No), Pair("cert_file", R), Pair("key_file", R),
        Indented(Pair("verify", No)), Section("bind"), Pair("host", <<"h">>)}
Rest == {Section("http_basic_auth"), Pair("username", <<"u">>), Indented(Pair("password", <<"p">>)),
         Pair("password", <<"p">>), Section("bind"), Pair("host", <<"h">>), Pair("port", <<"81">>),
         Pair("port", <<"x">>), Word(<<"x">>)}

UpTo(n, lines) == UNION {[1..k -> lines] : k \in 0..n}

SomeFiles == UpTo(4, Roots) \cup UpTo(3, OddRoots) \cup UpTo(3, Rest) \cup
  {<<Section("ssl")>> \o lines : lines \in UpTo(4, Tls)}

Log == [opt |-> "l", arg |-> <<"/", "l">>]
Conf(arg) == [opt |-> "c", arg |-> arg]

SomeArgs == {<<Log>>, <<Log, Conf(<<"c">>)>>}
OddArgs == SomeArgs \cup {<<Log, Conf(TooLong)>>, << >>, <<Log, [opt |-> "h", arg |-> << >>]>>}

SomeExe == <<"/", "a", "/", "x">>
SomeHome == <<"/">>
SomeNumbers(value) == IF value = <<"81">> THEN 81 ELSE 0

\* TLS is enabled, and no host given to listen on.
TlsOnStdin == {<<Section("ssl"), Pair("cert_file", R), Pair("key_file", R)>> \o lines :
               lines \in UpTo(2, Tls \ {Pair("host", <<"h">>)})}
=============================================================================
