-------------------------- MODULE ClaxStart_proofs --------------------------
(***************************************************************************)
(* Theorems about ClaxStart: what is read line by line is what the whole   *)
(* file says, for all files and command lines.                             *)
(***************************************************************************)
EXTENDS ClaxStart, NaturalsInduction, WellFoundedInduction, TLAPS

-----------------------------------------------------------------------------
(* Lines.                                                                  *)

\* The last of some lines is the one that is.
LEMMA LatestIs ==
  ASSUME NEW n \in Nat, NEW S \in SUBSET (1..n), NEW i \in S, \A k \in S : k <= i
  PROVE  Latest(S) = i
<1>1. Latest(S) \in S /\ \A k \in S : k <= Latest(S)
  BY DEF Latest
<1>2. S \subseteq Nat
  OBVIOUS
<1>3. \A a, b \in Nat : a <= b /\ b <= a => a = b
  OBVIOUS
<1> QED
  BY <1>1, <1>2, <1>3, Zenon

\* A name is open after a line if the line is a pair, or was open and stays so.
LEMMA OpenAfter ==
  ASSUME NEW f, NEW n \in Nat
  PROVE  OpenAt(f, (n + 1) + 1) <=>
           \/ f[n + 1].kind = "pair"
           \/ OpenAt(f, n + 1) /\ (f[n + 1].kind = "section" => f[n + 1].indented)
<1> DEFINE i == n + 1
<1>1. i \in Nat /\ (i + 1) - 1 = i /\ i - 1 = n /\ (i + 1)..i = {}
  OBVIOUS
<1>2. OpenAt(f, (n + 1) + 1) <=>
        \E j \in 1..i : /\ f[j].kind = "pair"
                        /\ \A k \in (j + 1)..i : f[k].kind = "section" => f[k].indented
  BY <1>1 DEF OpenAt
<1>3. OpenAt(f, i) <=>
        \E j \in 1..n : /\ f[j].kind = "pair"
                        /\ \A k \in (j + 1)..n : f[k].kind = "section" => f[k].indented
  BY <1>1 DEF OpenAt
<1>4. ASSUME f[i].kind = "pair" PROVE OpenAt(f, (n + 1) + 1)
  BY <1>1, <1>2, <1>4
<1>5. ASSUME OpenAt(f, i), f[i].kind = "section" => f[i].indented PROVE OpenAt(f, (n + 1) + 1)
  <2>1. PICK j \in 1..n : /\ f[j].kind = "pair"
                          /\ \A k \in (j + 1)..n : f[k].kind = "section" => f[k].indented
    BY <1>3, <1>5
  <2>2. \A k \in (j + 1)..i : k \in (j + 1)..n \/ k = i
    BY <1>1
  <2>3. j \in 1..i
    BY <1>1
  <2> QED
    BY <1>2, <1>5, <2>1, <2>2, <2>3
<1>6. ASSUME OpenAt(f, (n + 1) + 1), f[i].kind # "pair"
      PROVE  OpenAt(f, i) /\ (f[i].kind = "section" => f[i].indented)
  <2>1. PICK j \in 1..i : /\ f[j].kind = "pair"
                          /\ \A k \in (j + 1)..i : f[k].kind = "section" => f[k].indented
    BY <1>2, <1>6
  <2>2. j # i
    BY <1>6, <2>1
  <2>3. j \in 1..n /\ i \in (j + 1)..i /\ \A k \in (j + 1)..n : k \in (j + 1)..i
    BY <1>1, <2>2
  <2> QED
    BY <1>3, <2>1, <2>3
<1> QED
  BY <1>4, <1>5, <1>6

\* The lines of a kind up to the next one.
LEMMA OwnAfter ==
  ASSUME NEW f, NEW n \in Nat, NEW kind
  PROVE  /\ Own(f, n, kind) \in SUBSET (1..n)
         /\ Own(f, 0, kind) = {}
         /\ Own(f, n + 1, kind) =
              IF f[n + 1].kind = kind /\ StandsAlone(f, n + 1) THEN Own(f, n, kind) \cup {n + 1}
              ELSE Own(f, n, kind)
<1>1. 1..(n + 1) = (1..n) \cup {n + 1}
  OBVIOUS
<1>2. Own(f, n, kind) \in SUBSET (1..n) /\ Own(f, 0, kind) = {}
  BY DEF Own
<1>3. Own(f, n + 1, kind) =
        IF f[n + 1].kind = kind /\ StandsAlone(f, n + 1) THEN Own(f, n, kind) \cup {n + 1}
        ELSE Own(f, n, kind)
  BY <1>1, Zenon DEF Own
<1> QED
  BY <1>2, <1>3

\* A line of its own is the last of its kind.
LEMMA OwnLatest ==
  ASSUME NEW f, NEW n \in Nat, NEW kind, f[n + 1].kind = kind, StandsAlone(f, n + 1)
  PROVE  Own(f, n + 1, kind) # {} /\ Latest(Own(f, n + 1, kind)) = n + 1
<1> DEFINE S == Own(f, n, kind)
           T == Own(f, n + 1, kind)
<1>1. T = S \cup {n + 1} /\ S \in SUBSET (1..n)
  BY OwnAfter
<1> HIDE DEF S, T
<1>2. T \in SUBSET (1..(n + 1)) /\ n + 1 \in T /\ n + 1 \in Nat /\ \A k \in T : k <= n + 1
  BY <1>1
<1>3. Latest(T) = n + 1
  BY <1>2, LatestIs
<1> QED
  BY <1>2, <1>3 DEF T

-----------------------------------------------------------------------------
(* What the lines up to one say.                                           *)

GivingTo(f, key, n) == {i \in 1..n : Assigning(f, i) /\ KeyAt(f, i) = key}
SaysTo(f, key, value, n) == \E i \in GivingTo(f, key, n) : ValueAt(f, i) = value

FieldTo(f, key, n, default) ==
  IF GivingTo(f, key, n) = {} THEN default
  ELSE FieldFrom(Texts[key], ValueAt(f, Latest(GivingTo(f, key, n))))

LEMMA GivingAfter ==
  ASSUME NEW f, NEW n \in Nat, NEW key
  PROVE  /\ GivingTo(f, key, n) \in SUBSET (1..n)
         /\ GivingTo(f, key, 0) = {}
         /\ GivingTo(f, key, n + 1) =
              IF Assigning(f, n + 1) /\ KeyAt(f, n + 1) = key THEN GivingTo(f, key, n) \cup {n + 1}
              ELSE GivingTo(f, key, n)
<1>1. 1..(n + 1) = (1..n) \cup {n + 1}
  OBVIOUS
<1>2. GivingTo(f, key, n) \in SUBSET (1..n) /\ GivingTo(f, key, 0) = {}
  BY DEF GivingTo
<1>3. GivingTo(f, key, n + 1) =
        IF Assigning(f, n + 1) /\ KeyAt(f, n + 1) = key THEN GivingTo(f, key, n) \cup {n + 1}
        ELSE GivingTo(f, key, n)
  BY <1>1, Zenon DEF GivingTo
<1> QED
  BY <1>2, <1>3

\* A line that gives a key its value is the last that does.
LEMMA GivenAfter ==
  ASSUME NEW f, NEW n \in Nat, NEW key, NEW default, NEW value
  PROVE  /\ FieldTo(f, key, n + 1, default) =
              IF Assigning(f, n + 1) /\ KeyAt(f, n + 1) = key
              THEN FieldFrom(Texts[key], ValueAt(f, n + 1))
              ELSE FieldTo(f, key, n, default)
         /\ SaysTo(f, key, value, n + 1) <=>
              \/ SaysTo(f, key, value, n)
              \/ Assigning(f, n + 1) /\ KeyAt(f, n + 1) = key /\ ValueAt(f, n + 1) = value
<1> DEFINE S == GivingTo(f, key, n)
           T == GivingTo(f, key, n + 1)
           Given == Assigning(f, n + 1) /\ KeyAt(f, n + 1) = key
<1>1. S \in SUBSET (1..n) /\ T = IF Given THEN S \cup {n + 1} ELSE S
  BY GivingAfter
<1>2. /\ FieldTo(f, key, n, default) =
           IF S = {} THEN default ELSE FieldFrom(Texts[key], ValueAt(f, Latest(S)))
      /\ FieldTo(f, key, n + 1, default) =
           IF T = {} THEN default ELSE FieldFrom(Texts[key], ValueAt(f, Latest(T)))
      /\ SaysTo(f, key, value, n) <=> \E i \in S : ValueAt(f, i) = value
      /\ SaysTo(f, key, value, n + 1) <=> \E i \in T : ValueAt(f, i) = value
  BY DEF FieldTo, SaysTo
<1> HIDE DEF S, T, Given
<1>3. CASE Given
  <2>1. T \in SUBSET (1..(n + 1)) /\ n + 1 \in T /\ n + 1 \in Nat /\ \A k \in T : k <= n + 1
    BY <1>1, <1>3
  <2>2. Latest(T) = n + 1
    BY <2>1, LatestIs
  <2>3. FieldTo(f, key, n + 1, default) = FieldFrom(Texts[key], ValueAt(f, n + 1))
    BY <1>2, <2>1, <2>2
  <2>4. SaysTo(f, key, value, n + 1) <=> SaysTo(f, key, value, n) \/ ValueAt(f, n + 1) = value
    BY <1>1, <1>2, <1>3
  <2> QED
    BY <1>3, <2>3, <2>4 DEF Given
<1>4. CASE ~Given
  <2>1. T = S
    BY <1>1, <1>4
  <2> QED
    BY <1>2, <1>4, <2>1, Zenon DEF Given
<1> QED
  BY <1>3, <1>4

-----------------------------------------------------------------------------
(* Options.                                                                *)

TextFields == {"root", "cert_file", "key_file", "entropy_file", "basic_auth_username",
               "basic_auth_password", "bind_host", "bind_port"}
SwitchFields == {"chdir", "ssl", "no_ssl_verify"}
OptionFields == TextFields \cup SwitchFields \cup {"log_file", "config_file", "standalone"}

IsOptions(o) ==
  /\ o = [x \in OptionFields |-> o[x]]
  /\ o.chdir \in BOOLEAN /\ o.ssl \in BOOLEAN /\ o.no_ssl_verify \in BOOLEAN

\* Every name has a field of its own, and what is set by none is no such field.
LEMMA TextsApart ==
  /\ \A k \in TextKeys : Texts[k] \in TextFields
  /\ \A k, l \in TextKeys : Texts[k] = Texts[l] => k = l
  /\ TextKeys \cap Switches = {}
  /\ TextFields \cap (SwitchFields \cup {"log_file", "config_file", "standalone"}) = {}
<1>1. /\ Texts[<<"", "root">>] = "root"
      /\ Texts[<<"ssl", "cert_file">>] = "cert_file"
      /\ Texts[<<"ssl", "key_file">>] = "key_file"
      /\ Texts[<<"ssl", "entropy_file">>] = "entropy_file"
  BY DEF Texts, TextKeys
<1>2. /\ Texts[<<"http_basic_auth", "username">>] = "basic_auth_username"
      /\ Texts[<<"http_basic_auth", "password">>] = "basic_auth_password"
      /\ Texts[<<"bind", "host">>] = "bind_host"
      /\ Texts[<<"bind", "port">>] = "bind_port"
  BY DEF Texts, TextKeys
<1>3. \A k \in TextKeys : Texts[k] \in TextFields
  BY <1>1, <1>2 DEF TextKeys, TextFields
<1>4. ASSUME NEW k \in TextKeys, NEW l \in TextKeys, Texts[k] = Texts[l] PROVE k = l
  <2> DEFINE K(x) == CASE x = "root" -> <<"", "root">>
                       [] x = "cert_file" -> <<"ssl", "cert_file">>
                       [] x = "key_file" -> <<"ssl", "key_file">>
                       [] x = "entropy_file" -> <<"ssl", "entropy_file">>
                       [] x = "basic_auth_username" -> <<"http_basic_auth", "username">>
                       [] x = "basic_auth_password" -> <<"http_basic_auth", "password">>
                       [] x = "bind_host" -> <<"bind", "host">>
                       [] x = "bind_port" -> <<"bind", "port">>
  <2>1. /\ K("root") = <<"", "root">>
        /\ K("cert_file") = <<"ssl", "cert_file">>
        /\ K("key_file") = <<"ssl", "key_file">>
        /\ K("entropy_file") = <<"ssl", "entropy_file">>
    OBVIOUS
  <2>2. /\ K("basic_auth_username") = <<"http_basic_auth", "username">>
        /\ K("basic_auth_password") = <<"http_basic_auth", "password">>
        /\ K("bind_host") = <<"bind", "host">>
        /\ K("bind_port") = <<"bind", "port">>
    OBVIOUS
  <2> HIDE DEF K
  <2>3. ASSUME NEW m \in TextKeys PROVE K(Texts[m]) = m
    BY <1>1, <1>2, <2>1, <2>2 DEF TextKeys
  <2> QED
    BY <1>4, <2>3
<1>5. TextKeys \cap Switches = {}
  BY DEF TextKeys, Switches
<1>6. TextFields \cap (SwitchFields \cup {"log_file", "config_file", "standalone"}) = {}
  BY DEF TextFields, SwitchFields
<1> QED
  BY <1>3, <1>4, <1>5, <1>6

\* Of the options o a value for a key changes the field of the key, or the switch,
\* and no other option.
SetTo(p, o, key, value) ==
  /\ IsOptions(p)
  /\ \A k \in TextKeys : p[Texts[k]] = IF k = key THEN FieldFrom(Texts[k], value) ELSE o[Texts[k]]
  /\ p.chdir = TRUE <=> o.chdir = TRUE \/ (key = <<"", "chdir">> /\ value = Yes)
  /\ p.ssl = TRUE <=> o.ssl = TRUE \/ (key = <<"ssl", "enabled">> /\ value = Yes)
  /\ p.no_ssl_verify = TRUE <=>
       o.no_ssl_verify = TRUE \/ (key = <<"ssl", "verify">> /\ value = No)
  /\ p.standalone = o.standalone

LEMMA HandlerSets ==
  ASSUME NEW o, IsOptions(o), NEW key, NEW value
  PROVE  SetTo(clax_config_handler(o, key, value), o, key, value)
<1> DEFINE p == clax_config_handler(o, key, value)
<1>1. CASE key \in TextKeys
  <2> DEFINE x == Texts[key]
             v == FieldFrom(Texts[key], value)
  <2>1. p = [o EXCEPT ![x] = v]
    BY <1>1 DEF clax_config_handler, Texts
  <2>2. x \in TextFields
    BY <1>1, TextsApart
  <2>3. \A k \in TextKeys : Texts[k] \in TextFields /\ (Texts[k] = x => k = key)
    BY <1>1, TextsApart
  <2>4. key \notin Switches
    BY <1>1, TextsApart
  <2> HIDE DEF p, x, v
  <2>5. \A y \in OptionFields : p[y] = IF y = x THEN v ELSE o[y]
    BY <2>1, <2>2 DEF IsOptions, OptionFields
  <2>6. p = [y \in OptionFields |-> p[y]]
    BY <2>1, <2>2 DEF IsOptions, OptionFields
  <2>7. p.chdir = o.chdir /\ p.ssl = o.ssl /\ p.no_ssl_verify = o.no_ssl_verify
        /\ p.standalone = o.standalone
    BY <2>2, <2>5 DEF TextFields, SwitchFields, OptionFields
  <2>8. IsOptions(p)
    BY <2>6, <2>7, Zenon DEF IsOptions
  <2>9. \A k \in TextKeys : p[Texts[k]] = IF k = key THEN FieldFrom(Texts[k], value) ELSE o[Texts[k]]
    <3> SUFFICES ASSUME NEW k \in TextKeys
                 PROVE  p[Texts[k]] = IF k = key THEN FieldFrom(Texts[k], value) ELSE o[Texts[k]]
      OBVIOUS
    <3>1. Texts[k] \in OptionFields
      BY <2>3 DEF OptionFields
    <3>2. CASE k = key
      BY <2>5, <3>1, <3>2 DEF x, v
    <3>3. CASE k # key
      BY <2>3, <2>5, <3>1, <3>3
    <3> QED
      BY <3>2, <3>3
  <2>10. key # <<"", "chdir">> /\ key # <<"ssl", "enabled">> /\ key # <<"ssl", "verify">>
    BY <2>4 DEF Switches
  <2> QED
    BY <2>7, <2>8, <2>9, <2>10, Zenon DEF p, SetTo
<1>2. CASE key \notin TextKeys
  <2> DEFINE c == key = <<"", "chdir">>
             s == key = <<"ssl", "enabled">>
             w == key = <<"ssl", "verify">>
  <2>1. p = CASE c -> [o EXCEPT !.chdir = @ \/ value = Yes]
              [] s -> [o EXCEPT !.ssl = @ \/ value = Yes]
              [] w -> [o EXCEPT !.no_ssl_verify = @ \/ value = No]
              [] OTHER -> o
    BY <1>2 DEF clax_config_handler, Switched, Texts
  <2>2. ~(c /\ s) /\ ~(c /\ w) /\ ~(s /\ w)
    <3>1. /\ <<"", "chdir">> # <<"ssl", "enabled">>
          /\ <<"", "chdir">> # <<"ssl", "verify">>
          /\ <<"ssl", "enabled">> # <<"ssl", "verify">>
      OBVIOUS
    <3> QED
      BY <3>1, Zenon
  <2>3. \A k \in TextKeys : Texts[k] \in TextFields /\ k # key
    BY <1>2, TextsApart
  <2> HIDE DEF p, c, s, w
  <2>4. ASSUME NEW x \in SwitchFields, NEW b \in BOOLEAN, p = [o EXCEPT ![x] = b]
        PROVE  /\ IsOptions(p)
               /\ \A k \in TextKeys : p[Texts[k]] = o[Texts[k]]
               /\ p[x] = b
               /\ \A y \in (SwitchFields \cup {"standalone"}) \ {x} : p[y] = o[y]
    <3>1. \A y \in OptionFields : p[y] = IF y = x THEN b ELSE o[y]
      BY <2>4 DEF IsOptions, OptionFields
    <3>2. p = [y \in OptionFields |-> p[y]]
      BY <2>4 DEF IsOptions, OptionFields
    <3>3. \A k \in TextKeys : p[Texts[k]] = o[Texts[k]]
      BY <2>3, <3>1, TextsApart DEF OptionFields
    <3>4. p[x] = b /\ \A y \in (SwitchFields \cup {"standalone"}) \ {x} : p[y] = o[y]
      BY <3>1 DEF OptionFields
    <3>5. \A y \in SwitchFields : p[y] \in BOOLEAN
      BY <3>4 DEF IsOptions, SwitchFields
    <3> QED
      BY <3>2, <3>3, <3>4, <3>5 DEF IsOptions, SwitchFields
  <2>5. CASE c
    <3> DEFINE b == o.chdir \/ value = Yes
    <3>1. b \in BOOLEAN /\ (b = TRUE <=> o.chdir = TRUE \/ value = Yes)
      BY Zenon DEF IsOptions
    <3>2. p = [o EXCEPT !["chdir"] = b] /\ ~s /\ ~w
      BY <2>1, <2>2, <2>5
    <3> HIDE DEF b
    <3>3. /\ IsOptions(p) /\ p.chdir = b
          /\ \A k \in TextKeys : p[Texts[k]] = o[Texts[k]]
          /\ p.ssl = o.ssl /\ p.no_ssl_verify = o.no_ssl_verify /\ p.standalone = o.standalone
      BY <2>4, <3>1, <3>2 DEF SwitchFields
    <3> QED
      BY <2>3, <2>5, <3>1, <3>2, <3>3, Zenon DEF p, c, s, w, SetTo
  <2>6. CASE s
    <3> DEFINE b == o.ssl \/ value = Yes
    <3>1. b \in BOOLEAN /\ (b = TRUE <=> o.ssl = TRUE \/ value = Yes)
      BY Zenon DEF IsOptions
    <3>2. p = [o EXCEPT !["ssl"] = b] /\ ~c /\ ~w
      BY <2>1, <2>2, <2>6
    <3> HIDE DEF b
    <3>3. /\ IsOptions(p) /\ p.ssl = b
          /\ \A k \in TextKeys : p[Texts[k]] = o[Texts[k]]
          /\ p.chdir = o.chdir /\ p.no_ssl_verify = o.no_ssl_verify /\ p.standalone = o.standalone
      BY <2>4, <3>1, <3>2 DEF SwitchFields
    <3> QED
      BY <2>3, <2>6, <3>1, <3>2, <3>3, Zenon DEF p, c, s, w, SetTo
  <2>7. CASE w
    <3> DEFINE b == o.no_ssl_verify \/ value = No
    <3>1. b \in BOOLEAN /\ (b = TRUE <=> o.no_ssl_verify = TRUE \/ value = No)
      BY Zenon DEF IsOptions
    <3>2. p = [o EXCEPT !["no_ssl_verify"] = b] /\ ~c /\ ~s
      BY <2>1, <2>2, <2>7
    <3> HIDE DEF b
    <3>3. /\ IsOptions(p) /\ p.no_ssl_verify = b
          /\ \A k \in TextKeys : p[Texts[k]] = o[Texts[k]]
          /\ p.chdir = o.chdir /\ p.ssl = o.ssl /\ p.standalone = o.standalone
      BY <2>4, <3>1, <3>2 DEF SwitchFields
    <3> QED
      BY <2>3, <2>7, <3>1, <3>2, <3>3, Zenon DEF p, c, s, w, SetTo
  <2>8. CASE ~c /\ ~s /\ ~w
    <3>1. p = o
      BY <2>1, <2>8
    <3> QED
      BY <2>3, <2>8, <3>1, Zenon DEF p, c, s, w, SetTo
  <2> QED
    BY <2>5, <2>6, <2>7, <2>8
<1> QED
  BY <1>1, <1>2

-----------------------------------------------------------------------------
(* Reading a line.                                                         *)

Default(key) ==
  IF key = <<"", "root">> THEN clax_san_path(Detected.dst) ELSE clax_options_init[Texts[key]]

\* The options are what the first n lines of a file say of them.
Said(o, f, n) ==
  /\ \A key \in TextKeys : o[Texts[key]] = FieldTo(f, key, n, Default(key))
  /\ o.chdir = TRUE <=> SaysTo(f, <<"", "chdir">>, Yes, n)
  /\ o.ssl = TRUE <=> SaysTo(f, <<"ssl", "enabled">>, Yes, n)
  /\ o.no_ssl_verify = TRUE <=> SaysTo(f, <<"ssl", "verify">>, No, n)

\* A value of line n + 1 does for the options what it does in the file.
LEMMA SaidAfter ==
  ASSUME NEW o, IsOptions(o), NEW f, NEW n \in Nat, Said(o, f, n), Assigning(f, n + 1)
  PROVE  LET p == clax_config_handler(o, KeyAt(f, n + 1), ValueAt(f, n + 1))
         IN  IsOptions(p) /\ Said(p, f, n + 1) /\ p.standalone = o.standalone
<1> DEFINE key == KeyAt(f, n + 1)
           value == ValueAt(f, n + 1)
           p == clax_config_handler(o, key, value)
<1>1. SetTo(p, o, key, value)
  BY HandlerSets
<1>2. ASSUME NEW k \in TextKeys PROVE p[Texts[k]] = FieldTo(f, k, n + 1, Default(k))
  <2>1. FieldTo(f, k, n + 1, Default(k)) =
          IF key = k THEN FieldFrom(Texts[k], value) ELSE FieldTo(f, k, n, Default(k))
    BY GivenAfter
  <2> HIDE DEF p, key, value
  <2>2. o[Texts[k]] = FieldTo(f, k, n, Default(k))
    BY DEF Said
  <2>3. p[Texts[k]] = IF k = key THEN FieldFrom(Texts[k], value) ELSE o[Texts[k]]
    BY <1>1 DEF SetTo
  <2>4. CASE k = key
    BY <2>1, <2>3, <2>4
  <2>5. CASE k # key
    BY <2>1, <2>2, <2>3, <2>5
  <2> QED
    BY <2>4, <2>5
<1>3. ASSUME NEW k, NEW v
      PROVE  SaysTo(f, k, v, n + 1) <=> SaysTo(f, k, v, n) \/ (key = k /\ value = v)
  BY GivenAfter
<1> HIDE DEF p, key, value
<1>4. /\ p.chdir = TRUE <=> SaysTo(f, <<"", "chdir">>, Yes, n + 1)
      /\ p.ssl = TRUE <=> SaysTo(f, <<"ssl", "enabled">>, Yes, n + 1)
      /\ p.no_ssl_verify = TRUE <=> SaysTo(f, <<"ssl", "verify">>, No, n + 1)
  <2>1. /\ o.chdir = TRUE <=> SaysTo(f, <<"", "chdir">>, Yes, n)
        /\ o.ssl = TRUE <=> SaysTo(f, <<"ssl", "enabled">>, Yes, n)
        /\ o.no_ssl_verify = TRUE <=> SaysTo(f, <<"ssl", "verify">>, No, n)
    BY Zenon DEF Said
  <2> QED
    BY <1>1, <1>3, <2>1, Zenon DEF SetTo
<1> QED
  BY <1>1, <1>2, <1>4, Zenon DEF Said, SetTo, p, key, value

\* Any other line says nothing of them.
LEMMA SaidStays ==
  ASSUME NEW o, NEW f, NEW n \in Nat, Said(o, f, n), ~Assigning(f, n + 1)
  PROVE  Said(o, f, n + 1)
<1>1. \A k \in TextKeys : FieldTo(f, k, n + 1, Default(k)) = FieldTo(f, k, n, Default(k))
  BY GivenAfter
<1>2. \A k, v : SaysTo(f, k, v, n + 1) <=> SaysTo(f, k, v, n)
  BY GivenAfter
<1> QED
  BY <1>1, <1>2, Zenon DEF Said

IsReader(i) == i = [x \in {"lineno", "section", "prev_name"} |-> i[x]]

\* The reader has come to line n, and knows what the lines before it leave open.
ReadTo(i, f, n) ==
  /\ IsReader(i)
  /\ i.lineno = n
  /\ i.section = SectionAt(f, n)
  /\ i.prev_name # "" <=> OpenAt(f, n + 1)
  /\ i.prev_name # "" =>
       Own(f, n, "pair") # {} /\ i.prev_name = f[Latest(Own(f, n, "pair"))].name

\* Before the first line nothing is said, and nothing open.
LEMMA NothingSaid ==
  ASSUME NEW f
  PROVE  /\ ReadTo(IniStart, f, 0)
         /\ \A key, default : FieldTo(f, key, 0, default) = default
         /\ \A key, value : ~SaysTo(f, key, value, 0)
<1>1. Own(f, 0, "section") = {} /\ \A key : GivingTo(f, key, 0) = {}
  BY OwnAfter, GivingAfter
<1>2. ~OpenAt(f, 0 + 1)
  BY DEF OpenAt
<1>3. SectionAt(f, 0) = ""
  BY <1>1 DEF SectionAt
<1>4. IniStart.prev_name = ""
  BY DEF IniStart
<1>5. IsReader(IniStart) /\ IniStart.lineno = 0 /\ IniStart.section = ""
  BY DEF IsReader, IniStart
<1>6. ReadTo(IniStart, f, 0)
  BY <1>2, <1>3, <1>4, <1>5, Zenon DEF ReadTo
<1> QED
  BY <1>1, <1>6, Zenon DEF FieldTo, SaysTo

\* A line leaves the section and the name as they are, unless it is a section or a
\* pair of its own.
LEMMA ReadPast ==
  ASSUME NEW f, NEW n \in Nat, NEW i, ReadTo(i, f, n),
         f[n + 1].kind \notin {"section", "pair"} \/ ~StandsAlone(f, n + 1)
  PROVE  /\ SectionAt(f, n + 1) = SectionAt(f, n)
         /\ Own(f, n + 1, "pair") = Own(f, n, "pair")
         /\ OpenAt(f, (n + 1) + 1) <=> f[n + 1].kind = "pair" \/ OpenAt(f, n + 1)
<1>1. /\ Own(f, n + 1, "section") = Own(f, n, "section")
      /\ Own(f, n + 1, "pair") = Own(f, n, "pair")
  BY OwnAfter
<1>2. SectionAt(f, n + 1) = SectionAt(f, n)
  BY <1>1 DEF SectionAt
<1>3. OpenAt(f, (n + 1) + 1) <=> f[n + 1].kind = "pair" \/ OpenAt(f, n + 1)
  BY OpenAfter DEF StandsAlone
<1> QED
  BY <1>1, <1>2, <1>3

\* A line that goes on gives its text to the name before it.
LEMMA ReadMore ==
  ASSUME NEW f, NEW n \in Nat, NEW i, ReadTo(i, f, n),
         f[n + 1].kind # "blank", ~StandsAlone(f, n + 1),
         NEW j, IsReader(j), j.lineno = n + 1,
         j.section = i.section, j.prev_name = i.prev_name
  PROVE  /\ ReadTo(j, f, n + 1)
         /\ Assigning(f, n + 1)
         /\ KeyAt(f, n + 1) = <<i.section, i.prev_name>>
         /\ ValueAt(f, n + 1) = f[n + 1].whole
<1>1. /\ SectionAt(f, n + 1) = SectionAt(f, n)
      /\ Own(f, n + 1, "pair") = Own(f, n, "pair")
      /\ OpenAt(f, (n + 1) + 1) <=> f[n + 1].kind = "pair" \/ OpenAt(f, n + 1)
  BY ReadPast
<1>2. OpenAt(f, n + 1)
  BY DEF StandsAlone
<1>3. i.section = SectionAt(f, n) /\ i.prev_name # ""
      /\ Own(f, n, "pair") # {} /\ i.prev_name = f[Latest(Own(f, n, "pair"))].name
  BY <1>2, Zenon DEF ReadTo
<1>4. OpenAt(f, (n + 1) + 1)
  BY <1>1, <1>2
<1>5. ReadTo(j, f, n + 1)
  BY <1>1, <1>3, <1>4, Zenon DEF ReadTo
<1>6. Assigning(f, n + 1) /\ ValueAt(f, n + 1) = f[n + 1].whole
  BY DEF Assigning, ValueAt
<1>7. KeyAt(f, n + 1) = <<i.section, i.prev_name>>
  BY <1>1, <1>3, Zenon DEF KeyAt
<1> QED
  BY <1>5, <1>6, <1>7

\* A pair of its own gives its value to its name, in the section there is.
LEMMA ReadPair ==
  ASSUME NEW f, NEW n \in Nat, NEW i, ReadTo(i, f, n),
         f[n + 1].kind = "pair", f[n + 1].name # "", StandsAlone(f, n + 1),
         NEW j, j = [i EXCEPT !.lineno = @ + 1, !.prev_name = f[n + 1].name]
  PROVE  /\ ReadTo(j, f, n + 1)
         /\ Assigning(f, n + 1)
         /\ KeyAt(f, n + 1) = <<i.section, f[n + 1].name>>
         /\ ValueAt(f, n + 1) = f[n + 1].value
<1>1. /\ IsReader(j) /\ j.lineno = n + 1
      /\ j.section = i.section /\ j.prev_name = f[n + 1].name
  BY DEF ReadTo, IsReader
<1>2. Own(f, n + 1, "section") = Own(f, n, "section")
  BY OwnAfter
<1>3. SectionAt(f, n + 1) = i.section
  BY <1>2, Zenon DEF SectionAt, ReadTo
<1>4. Own(f, n + 1, "pair") # {} /\ Latest(Own(f, n + 1, "pair")) = n + 1
  BY OwnLatest
<1>5. OpenAt(f, (n + 1) + 1)
  BY OpenAfter
<1>6. ReadTo(j, f, n + 1)
  BY <1>1, <1>3, <1>4, <1>5, Zenon DEF ReadTo
<1>7. Assigning(f, n + 1) /\ ValueAt(f, n + 1) = f[n + 1].value
  BY DEF Assigning, ValueAt
<1>8. KeyAt(f, n + 1) = <<i.section, f[n + 1].name>>
  BY <1>3, <1>4, Zenon DEF KeyAt
<1> QED
  BY <1>6, <1>7, <1>8

\* A section of its own ends the value before it.
LEMMA ReadSection ==
  ASSUME NEW f, NEW n \in Nat, NEW i, ReadTo(i, f, n),
         f[n + 1].kind = "section", StandsAlone(f, n + 1),
         NEW j, j = [i EXCEPT !.lineno = @ + 1, !.section = f[n + 1].name, !.prev_name = ""]
  PROVE  ReadTo(j, f, n + 1) /\ ~Assigning(f, n + 1)
<1>1. /\ IsReader(j) /\ j.lineno = n + 1
      /\ j.section = f[n + 1].name /\ j.prev_name = ""
  BY DEF ReadTo, IsReader
<1>2. Own(f, n + 1, "section") # {} /\ Latest(Own(f, n + 1, "section")) = n + 1
  BY OwnLatest
<1>3. SectionAt(f, n + 1) = f[n + 1].name
  BY <1>2, Zenon DEF SectionAt
<1>4. ~OpenAt(f, (n + 1) + 1)
  BY OpenAfter DEF StandsAlone
<1>5. ~Assigning(f, n + 1)
  BY DEF Assigning
<1> QED
  BY <1>1, <1>3, <1>4, <1>5, Zenon DEF ReadTo

\* Of what is left nothing comes but its number.
LEMMA ReadNothing ==
  ASSUME NEW f, NEW n \in Nat, NEW i, ReadTo(i, f, n),
         \/ f[n + 1].kind = "blank"
         \/ f[n + 1].kind \in {"open", "junk"} /\ StandsAlone(f, n + 1),
         NEW j, j = [i EXCEPT !.lineno = @ + 1]
  PROVE  ReadTo(j, f, n + 1) /\ ~Assigning(f, n + 1)
<1>1. /\ IsReader(j) /\ j.lineno = n + 1
      /\ j.section = i.section /\ j.prev_name = i.prev_name
  BY DEF ReadTo, IsReader
<1>2. f[n + 1].kind \notin {"section", "pair"}
  OBVIOUS
<1>3. /\ SectionAt(f, n + 1) = SectionAt(f, n)
      /\ Own(f, n + 1, "pair") = Own(f, n, "pair")
      /\ OpenAt(f, (n + 1) + 1) <=> OpenAt(f, n + 1)
  BY <1>2, ReadPast
<1>4. ~Assigning(f, n + 1)
  BY <1>2 DEF Assigning
<1> QED
  BY <1>1, <1>3, <1>4, Zenon DEF ReadTo

-----------------------------------------------------------------------------
(* The invariant.                                                          *)

BesidesRoot == TextKeys \ {<<"", "root">>}
BesidesPort == TextKeys \ {<<"bind", "port">>}

\* Nothing but what the command line and the folder of the program say.
Fresh(o) ==
  /\ IsOptions(o)
  /\ \A key \in BesidesRoot : o[Texts[key]] = clax_options_init[Texts[key]]
  /\ o.chdir = FALSE /\ o.ssl = FALSE /\ o.no_ssl_verify = FALSE /\ o.standalone = FALSE

Unread == ini = IniStart /\ cwd = Home /\ client = "none"

\* The folder the options ask for.
Folder(o) ==
  IF o.chdir = TRUE /\ o.root # clax_san_path(Detected.dst) THEN From(Home, o.root) ELSE Home

\* The lines that were read say what the options are; all were read, or the file
\* was not there.
Reading ==
  /\ ReadTo(ini, file, ini.lineno)
  /\ ini.lineno \in 0..Len(file)
  /\ IsOptions(options) /\ Said(options, file, ini.lineno) /\ options.standalone = FALSE
  /\ client = "none"

Read == ini.lineno \in {0, Len(file)}

\* The options once they were checked: to listen is decided, and on which port.
Checked(o, f, n) ==
  /\ IsOptions(o)
  /\ \A key \in BesidesPort : o[Texts[key]] = FieldTo(f, key, n, Default(key))
  /\ o.chdir = TRUE <=> SaysTo(f, <<"", "chdir">>, Yes, n)
  /\ o.ssl = TRUE <=> SaysTo(f, <<"ssl", "enabled">>, Yes, n)
  /\ o.no_ssl_verify = TRUE <=> SaysTo(f, <<"ssl", "verify">>, No, n)
  /\ o.standalone = TRUE <=> GivingTo(f, <<"bind", "host">>, n) # {}
  /\ o.standalone = TRUE =>
       LET port == FieldTo(f, <<"bind", "port">>, n, 0)
       IN  o.bind_port = IF port = 0 THEN DEFAULT_PORT ELSE port
  /\ HasFiles(o)

Started == Read /\ Checked(options, file, ini.lineno) /\ cwd = Folder(options)

IInv ==
  /\ file \in Files
  /\ pc \in {"args", "root"} => Unread /\ Fresh(options)
  /\ pc = "find" => Unread /\ Fresh(options) /\ options.root = clax_san_path(Detected.dst)
  /\ pc = "config" => Reading /\ cwd = Home
  /\ pc = "check" => Reading /\ Read /\ cwd = Folder(options)
  /\ pc \in {"ssl", "open", "listening", "stdin"} \/ client # "none" => Started
  /\ pc = "listening" => options.standalone = TRUE
  /\ pc = "stdin" => ~(options.standalone = TRUE)
  /\ client = "plain" => ~(options.ssl = TRUE)
  /\ client = "tls" => options.ssl = TRUE

-----------------------------------------------------------------------------
(* Steps.                                                                  *)

\* A field that no name of the file sets can be what it likes.
LEMMA FreshKeeps ==
  ASSUME NEW o, Fresh(o), NEW x \in {"root", "log_file", "config_file"}, NEW v
  PROVE  Fresh([o EXCEPT ![x] = v]) /\ [o EXCEPT ![x] = v][x] = v
<1> DEFINE p == [o EXCEPT ![x] = v]
<1>1. \A y \in OptionFields : p[y] = IF y = x THEN v ELSE o[y]
  BY DEF Fresh, IsOptions, OptionFields
<1>2. p = [y \in OptionFields |-> p[y]]
  BY DEF Fresh, IsOptions
<1> HIDE DEF p
<1>3. /\ p.chdir = o.chdir /\ p.ssl = o.ssl /\ p.no_ssl_verify = o.no_ssl_verify
      /\ p.standalone = o.standalone /\ p[x] = v
  BY <1>1 DEF OptionFields, SwitchFields, TextFields
<1>4. ASSUME NEW key \in BesidesRoot PROVE p[Texts[key]] = o[Texts[key]]
  <2>1. Texts[key] \in TextFields /\ <<"", "root">> \in TextKeys
    BY TextsApart DEF BesidesRoot, TextKeys
  <2>2. Texts[<<"", "root">>] = "root"
    BY DEF Texts, TextKeys
  <2>3. Texts[key] # "root"
    BY <2>1, <2>2, TextsApart DEF BesidesRoot
  <2>4. Texts[key] # x
    BY <2>1, <2>3, TextsApart
  <2> QED
    BY <1>1, <2>1, <2>4 DEF OptionFields
<1>5. IsOptions(p) /\ Fresh(p)
  <2>1. o.chdir = FALSE /\ o.ssl = FALSE /\ o.no_ssl_verify = FALSE /\ o.standalone = FALSE
    BY DEF Fresh
  <2>2. p.chdir = FALSE /\ p.ssl = FALSE /\ p.no_ssl_verify = FALSE /\ p.standalone = FALSE
    BY <1>3, <2>1
  <2>3. IsOptions(p)
    BY <1>2, <2>2 DEF IsOptions
  <2>4. \A key \in BesidesRoot : p[Texts[key]] = clax_options_init[Texts[key]]
    <3>1. \A key \in BesidesRoot : o[Texts[key]] = clax_options_init[Texts[key]]
      BY DEF Fresh
    <3> QED
      BY <1>4, <3>1
  <2> QED
    BY <2>2, <2>3, <2>4 DEF Fresh
<1> QED
  BY <1>3, <1>5 DEF p

\* Fresh options are what no line says.
LEMMA FreshSaid ==
  ASSUME NEW o, Fresh(o), o.root = clax_san_path(Detected.dst), NEW f
  PROVE  Said(o, f, 0)
<1>1. ASSUME NEW key \in TextKeys PROVE o[Texts[key]] = FieldTo(f, key, 0, Default(key))
  <2>1. FieldTo(f, key, 0, Default(key)) = Default(key)
    BY NothingSaid
  <2>2. CASE key = <<"", "root">>
    <3>1. Texts[<<"", "root">>] = "root"
      BY DEF Texts, TextKeys
    <3> QED
      BY <2>1, <2>2, <3>1, Zenon DEF Default
  <2>3. CASE key # <<"", "root">>
    BY <2>1, <2>3, Zenon DEF Default, Fresh, BesidesRoot
  <2> QED
    BY <2>2, <2>3
<1>2. o.chdir = FALSE /\ o.ssl = FALSE /\ o.no_ssl_verify = FALSE
  BY DEF Fresh
<1>3. /\ ~SaysTo(f, <<"", "chdir">>, Yes, 0)
      /\ ~SaysTo(f, <<"ssl", "enabled">>, Yes, 0)
      /\ ~SaysTo(f, <<"ssl", "verify">>, No, 0)
  BY NothingSaid
<1> QED
  BY <1>1, <1>2, <1>3 DEF Said

LEMMA InitKeeps == Init => IInv
<1> SUFFICES ASSUME Init PROVE IInv
  OBVIOUS
<1>1. file \in Files /\ Unread /\ pc = "args" /\ client = "none"
  BY DEF Init, Unread
<1>2. IsOptions(options)
  BY DEF Init, clax_options_init, IsOptions, OptionFields, TextFields, SwitchFields
<1>3. /\ options = clax_options_init
      /\ options.chdir = FALSE /\ options.ssl = FALSE /\ options.no_ssl_verify = FALSE
      /\ options.standalone = FALSE
  BY DEF Init, clax_options_init
<1>4. Fresh(options)
  BY <1>2, <1>3, Zenon DEF Fresh
<1> QED
  BY <1>1, <1>4 DEF IInv

\* The command line.
LEMMA ArgsKeep ==
  ASSUME IInv, TakeArg \/ ArgsTaken
  PROVE  IInv'
<1>1. pc = "args" /\ Unread /\ Fresh(options) /\ file \in Files
  BY DEF IInv, TakeArg, ArgsTaken
<1>2. file' = file /\ Unread' /\ client' = "none"
  BY <1>1 DEF Unread, TakeArg, ArgsTaken
<1>3. Fresh(options') /\ pc' \in {"args", "root", "exit"}
  <2>1. CASE TakeArg
    <3> DEFINE a == Head(args)
               c == clax_strcat(options.config_file, SIZE, a.arg)
               l == clax_strcat(options.log_file, SIZE, a.arg)
    <3>1. options' = WithArg(options, a).options /\ pc' \in {"args", "exit"}
      BY <2>1 DEF TakeArg
    <3> HIDE DEF a, c, l
    <3>2. ASSUME NEW x \in {"log_file", "config_file"}, NEW v
          PROVE  Fresh([options EXCEPT ![x] = v])
      BY <1>1, FreshKeeps
    <3>3. CASE a.opt = "c"
      <4>1. WithArg(options, a).options = [options EXCEPT !["config_file"] = clax_san_path(c.dst)]
        BY <3>3 DEF WithArg, c
      <4> QED
        BY <3>1, <3>2, <4>1
    <3>4. CASE a.opt = "l"
      <4>1. WithArg(options, a).options = [options EXCEPT !["log_file"] = clax_san_path(l.dst)]
        BY <3>4 DEF WithArg, l
      <4> QED
        BY <3>1, <3>2, <4>1
    <3>5. CASE a.opt # "c" /\ a.opt # "l"
      <4>1. WithArg(options, a).options = options
        BY <3>5 DEF WithArg
      <4> QED
        BY <1>1, <3>1, <4>1
    <3> QED
      BY <3>3, <3>4, <3>5
  <2>2. CASE ArgsTaken
    BY <1>1, <2>2 DEF ArgsTaken, Goes
  <2> QED
    BY <2>1, <2>2
<1> QED
  BY <1>1, <1>2, <1>3 DEF IInv

LEMMA DetectKeeps ==
  ASSUME IInv, DetectRoot
  PROVE  IInv'
<1>1. pc = "root" /\ Unread /\ Fresh(options) /\ file \in Files
  BY DEF IInv, DetectRoot
<1>2. file' = file /\ Unread' /\ client' = "none" /\ pc' = "find"
  BY <1>1 DEF Unread, DetectRoot, Goes
<1>3. options' = [options EXCEPT !["root"] = clax_san_path(Detected.dst)]
  BY DEF DetectRoot
<1>4. Fresh(options') /\ options'.root = clax_san_path(Detected.dst)
  BY <1>1, <1>3, FreshKeeps
<1> QED
  BY <1>1, <1>2, <1>4 DEF IInv

LEMMA FindKeeps ==
  ASSUME IInv, FindConfig
  PROVE  IInv'
<1>1. /\ pc = "find" /\ Unread /\ Fresh(options) /\ options.root = clax_san_path(Detected.dst)
      /\ file \in Files
  BY DEF IInv, FindConfig
<1>2. file' = file /\ cwd' = cwd /\ Unread' /\ client' = "none"
      /\ pc' \in {"config", "check", "exit"}
  BY <1>1 DEF Unread, FindConfig, Goes
<1>3. Fresh(options') /\ options'.root = clax_san_path(Detected.dst)
  <2> DEFINE beside == clax_strcatfile(options.root, SIZE, ClaxIni)
  <2>1. \/ options' = options
        \/ options' = [options EXCEPT !["config_file"] = beside.dst]
    BY DEF FindConfig
  <2> HIDE DEF beside
  <2>2. CASE options' = [options EXCEPT !["config_file"] = beside.dst]
    <3>1. Fresh(options')
      BY <1>1, <2>2, FreshKeeps
    <3>2. options'.root = options.root
      BY <1>1, <2>2 DEF Fresh, IsOptions, OptionFields, TextFields
    <3> QED
      BY <1>1, <3>1, <3>2
  <2> QED
    BY <1>1, <2>1, <2>2
<1>4. Said(options', file, 0) /\ IsOptions(options') /\ options'.standalone = FALSE
      /\ options'.chdir = FALSE
  BY <1>3, FreshSaid DEF Fresh
<1>5. ini' = IniStart /\ IniStart.lineno = 0 /\ cwd' = Home
  BY <1>2 DEF Unread, IniStart
<1>6. ReadTo(IniStart, file, 0)
  BY NothingSaid
<1>7. Len(file) \in Nat
  <2>1. file \in Seq(Line)
    BY <1>1, FilesAssumption
  <2> QED
    BY <2>1
<1>8. Reading'
  BY <1>2, <1>4, <1>5, <1>6, <1>7 DEF Reading
<1>9. Read' /\ cwd' = Folder(options')
  BY <1>4, <1>5 DEF Read, Folder
<1> QED
  BY <1>1, <1>2, <1>5, <1>8, <1>9 DEF IInv

\* A line read.
LEMMA ReadKeeps ==
  ASSUME IInv, ReadLine
  PROVE  IInv'
<1> DEFINE n == ini.lineno
           line == file[n + 1]
<1>1. /\ pc = "config" /\ Reading /\ cwd = Home /\ file \in Files /\ n < Len(file)
      /\ file' = file /\ pc' = pc /\ cwd' = cwd /\ client' = client
  BY DEF IInv, ReadLine
<1>2. /\ ReadTo(ini, file, n) /\ n \in 0..Len(file) /\ client = "none"
      /\ IsOptions(options) /\ Said(options, file, n) /\ options.standalone = FALSE
  BY <1>1 DEF Reading
<1>3. file \in Seq(Line)
  BY <1>1, FilesAssumption
<1>4. n \in Nat /\ n + 1 \in DOMAIN file /\ n + 1 \in 0..Len(file)
  BY <1>1, <1>2, <1>3
<1>5. line.kind \in {"blank", "section", "open", "pair", "junk"}
      /\ (line.kind = "pair" => line.name # "")
  <2>1. file[n + 1] \in Line
    BY <1>3, <1>4
  <2>2. file[n + 1].kind = "pair" => file[n + 1].name # ""
    BY <1>1, <1>4, FilesAssumption
  <2> QED
    BY <2>1, <2>2 DEF Line
<1>6. Continues(line) <=> ~StandsAlone(file, n + 1)
  BY <1>2, Zenon DEF Continues, StandsAlone, ReadTo
<1> HIDE DEF n
<1>7. /\ ReadTo(ini', file, n + 1)
      /\ IsOptions(options') /\ Said(options', file, n + 1) /\ options'.standalone = FALSE
  <2>1. ASSUME NEW key, NEW value, Assigning(file, n + 1),
               KeyAt(file, n + 1) = key, ValueAt(file, n + 1) = value,
               options' = clax_config_handler(options, key, value)
        PROVE  IsOptions(options') /\ Said(options', file, n + 1) /\ options'.standalone = FALSE
    BY <1>2, <1>4, <2>1, SaidAfter
  <2>2. CASE line.kind # "blank" /\ Continues(line) /\ Assigns(ini.prev_name, line.whole)
    <3>1. /\ ini' = [ini EXCEPT !.lineno = @ + 1, !.prev_name = ini.prev_name]
          /\ options' = clax_config_handler(options, <<ini.section, ini.prev_name>>, line.whole)
      BY <2>2 DEF Assigns
    <3>2. /\ ReadTo(ini', file, n + 1)
          /\ Assigning(file, n + 1)
          /\ KeyAt(file, n + 1) = <<ini.section, ini.prev_name>>
          /\ ValueAt(file, n + 1) = line.whole
      <4>1. file[n + 1].kind # "blank" /\ ~StandsAlone(file, n + 1)
        BY <1>6, <2>2
      <4>2. /\ IsReader(ini') /\ ini'.lineno = n + 1
            /\ ini'.section = ini.section /\ ini'.prev_name = ini.prev_name
        BY <1>2, <3>1 DEF ReadTo, IsReader
      <4> QED
        BY <1>2, <1>4, <4>1, <4>2, ReadMore
    <3> QED
      BY <2>1, <3>1, <3>2
  <2>3. CASE line.kind = "pair" /\ ~Continues(line) /\ Assigns(line.name, line.value)
    <3>1. /\ ini' = [ini EXCEPT !.lineno = @ + 1, !.prev_name = line.name]
          /\ options' = clax_config_handler(options, <<ini.section, line.name>>, line.value)
      BY <2>3 DEF Assigns
    <3>2. /\ ReadTo(ini', file, n + 1)
          /\ Assigning(file, n + 1)
          /\ KeyAt(file, n + 1) = <<ini.section, line.name>>
          /\ ValueAt(file, n + 1) = line.value
      BY <1>2, <1>4, <1>5, <1>6, <2>3, <3>1, ReadPair
    <3> QED
      BY <2>1, <3>1, <3>2
  <2>4. CASE /\ line.kind = "section" /\ ~Continues(line)
             /\ ini' = InSection(line.name) /\ options' = options
    <3>1. ini' = [ini EXCEPT !.lineno = @ + 1, !.section = line.name, !.prev_name = ""]
      BY <2>4 DEF InSection
    <3>2. ReadTo(ini', file, n + 1) /\ ~Assigning(file, n + 1)
      BY <1>2, <1>4, <1>6, <2>4, <3>1, ReadSection
    <3> QED
      BY <1>2, <1>4, <2>4, <3>2, SaidStays
  <2>5. CASE /\ line.kind = "blank" \/ (line.kind \in {"open", "junk"} /\ ~Continues(line))
             /\ ini' = [ini EXCEPT !.lineno = @ + 1] /\ options' = options
    <3>1. ReadTo(ini', file, n + 1) /\ ~Assigning(file, n + 1)
      BY <1>2, <1>4, <1>6, <2>5, ReadNothing
    <3> QED
      BY <1>2, <1>4, <2>5, <3>1, SaidStays
  <2> QED
    BY <2>2, <2>3, <2>4, <2>5 DEF ReadLine, n
<1>8. ini'.lineno = n + 1
  BY <1>7 DEF ReadTo
<1>9. Reading'
  BY <1>1, <1>2, <1>4, <1>7, <1>8 DEF Reading
<1> QED
  BY <1>1, <1>2, <1>9 DEF IInv

\* The end of the file.
LEMMA ConfigKeeps ==
  ASSUME IInv, ConfigRead
  PROVE  IInv'
<1>1. /\ pc = "config" /\ Reading /\ cwd = Home /\ file \in Files /\ ini.lineno = Len(file)
      /\ file' = file /\ ini' = ini /\ options' = options /\ client' = client
      /\ pc' \in {"check", "exit"}
  BY DEF IInv, ConfigRead, Goes
<1>2. Reading' /\ Read' /\ client' = "none"
  BY <1>1 DEF Reading, Read
<1>3. ASSUME pc' = "check" PROVE cwd' = Folder(options')
  <2> DEFINE moved == options.root # clax_san_path(Detected.dst)
  <2>1. options.chdir \in BOOLEAN
    BY <1>1 DEF Reading, IsOptions
  <2>2. \/ moved /\ options.chdir = TRUE /\ cwd' = From(cwd, options.root)
        \/ (~moved \/ ~(options.chdir = TRUE)) /\ cwd' = cwd
    BY <1>3, <2>1 DEF ConfigRead, Goes
  <2> QED
    BY <1>1, <2>2 DEF Folder
<1> QED
  BY <1>1, <1>2, <1>3 DEF IInv

\* To listen is decided.
LEMMA CheckKeeps ==
  ASSUME IInv, CheckOptions
  PROVE  IInv'
<1> DEFINE n == ini.lineno
           o == options
           p == Standalone(options)
<1>1. /\ pc = "check" /\ Reading /\ Read /\ cwd = Folder(o) /\ file \in Files
      /\ file' = file /\ ini' = ini /\ cwd' = cwd /\ client' = client
  BY DEF IInv, CheckOptions
<1>2. /\ client = "none"
      /\ IsOptions(o) /\ Said(o, file, n) /\ o.standalone = FALSE
  BY <1>1 DEF Reading
<1>3. CASE HasFiles(options) /\ options' = Standalone(options) /\ pc' = "ssl"
  <2>1. /\ Texts[<<"bind", "host">>] = "bind_host" /\ <<"bind", "host">> \in TextKeys
        /\ Texts[<<"bind", "port">>] = "bind_port" /\ <<"bind", "port">> \in TextKeys
    BY DEF Texts, TextKeys
  <2>2. /\ o.bind_host = FieldTo(file, <<"bind", "host">>, n, Default(<<"bind", "host">>))
        /\ o.bind_port = FieldTo(file, <<"bind", "port">>, n, Default(<<"bind", "port">>))
    BY <1>2, <2>1, Zenon DEF Said
  <2>3. Default(<<"bind", "host">>) = {} /\ Default(<<"bind", "port">>) = 0
    BY <2>1 DEF Default, clax_options_init
  <2>4. o.bind_host = {} <=> GivingTo(file, <<"bind", "host">>, n) = {}
    BY <2>1, <2>2, <2>3 DEF FieldTo, FieldFrom
  <2>5. /\ IsOptions(p)
        /\ \A y \in OptionFields \ {"standalone", "bind_port"} : p[y] = o[y]
        /\ p.standalone = TRUE <=> o.bind_host # {}
        /\ p.standalone = TRUE => p.bind_port = IF o.bind_port = 0 THEN DEFAULT_PORT ELSE o.bind_port
    <3>1. CASE o.bind_host = {}
      <4>1. p = o
        BY <3>1 DEF Standalone
      <4> QED
        BY <1>2, <3>1, <4>1
    <3>2. CASE o.bind_host # {}
      <4> DEFINE port == IF o.bind_port = 0 THEN DEFAULT_PORT ELSE o.bind_port
      <4>1. p = [o EXCEPT !.standalone = TRUE, !.bind_port = port]
        BY <3>2 DEF Standalone
      <4> HIDE DEF port, p
      <4>2. \A y \in OptionFields : p[y] = IF y = "standalone" THEN TRUE
                                           ELSE IF y = "bind_port" THEN port ELSE o[y]
        BY <1>2, <4>1 DEF IsOptions, OptionFields, TextFields
      <4>3. p = [y \in OptionFields |-> p[y]]
        BY <1>2, <4>1 DEF IsOptions, OptionFields, TextFields
      <4>4. /\ p.chdir = o.chdir /\ p.ssl = o.ssl /\ p.no_ssl_verify = o.no_ssl_verify
            /\ p.standalone = TRUE /\ p.bind_port = port
        BY <4>2 DEF OptionFields, TextFields, SwitchFields
      <4>5. IsOptions(p)
        BY <1>2, <4>3, <4>4 DEF IsOptions
      <4>6. \A y \in OptionFields \ {"standalone", "bind_port"} : p[y] = o[y]
        BY <4>2
      <4> QED
        BY <3>2, <4>4, <4>5, <4>6 DEF port
    <3> QED
      BY <3>1, <3>2
  <2> HIDE DEF p
  <2>6. ASSUME NEW key \in BesidesPort PROVE p[Texts[key]] = FieldTo(file, key, n, Default(key))
    <3>1. key \in TextKeys /\ o[Texts[key]] = FieldTo(file, key, n, Default(key))
      BY <1>2, Zenon DEF Said, BesidesPort
    <3>2. Texts[key] \in TextFields /\ Texts[key] # "bind_port" /\ "standalone" \notin TextFields
      BY <2>1, <3>1, TextsApart DEF BesidesPort
    <3>3. Texts[key] \in OptionFields \ {"standalone", "bind_port"}
      BY <3>2 DEF OptionFields
    <3> QED
      BY <2>5, <3>1, <3>3
  <2>7. /\ p.chdir = o.chdir /\ p.ssl = o.ssl /\ p.no_ssl_verify = o.no_ssl_verify
        /\ p.root = o.root /\ p.cert_file = o.cert_file /\ p.key_file = o.key_file
    BY <2>5 DEF OptionFields, TextFields, SwitchFields
  <2>8. HasFiles(p)
    BY <1>3, <2>7 DEF HasFiles
  <2>9. p.standalone = TRUE =>
          LET port == FieldTo(file, <<"bind", "port">>, n, 0)
          IN  p.bind_port = IF port = 0 THEN DEFAULT_PORT ELSE port
    BY <2>2, <2>3, <2>5
  <2>10. /\ p.chdir = TRUE <=> SaysTo(file, <<"", "chdir">>, Yes, n)
         /\ p.ssl = TRUE <=> SaysTo(file, <<"ssl", "enabled">>, Yes, n)
         /\ p.no_ssl_verify = TRUE <=> SaysTo(file, <<"ssl", "verify">>, No, n)
    BY <1>2, <2>7, Zenon DEF Said
  <2>11. p.standalone = TRUE <=> GivingTo(file, <<"bind", "host">>, n) # {}
    BY <2>4, <2>5, Zenon
  <2>12. Checked(p, file, n)
    BY <2>5, <2>6, <2>8, <2>9, <2>10, <2>11, Zenon DEF Checked
  <2>13. Folder(p) = Folder(o)
    BY <2>7, Zenon DEF Folder
  <2>14. Started'
    BY <1>1, <1>3, <2>12, <2>13 DEF Started, Read, p
  <2> QED
    BY <1>1, <1>2, <1>3, <2>14 DEF IInv
<1>4. CASE UNCHANGED options /\ pc' = "exit"
  BY <1>1, <1>2, <1>4 DEF IInv
<1> QED
  BY <1>3, <1>4 DEF CheckOptions, Goes

\* What comes after leaves the options as they are.
LEMMA LaterKeeps ==
  ASSUME IInv, SslInit \/ Open \/ Client \/ term
  PROVE  IInv'
<1>1. /\ file' = file /\ ini' = ini /\ options' = options /\ cwd' = cwd /\ file \in Files
  BY DEF IInv, SslInit, Open, Client, term
<1>2. Started => Started'
  BY <1>1 DEF Started, Read
<1>3. CASE SslInit
  BY <1>1, <1>2, <1>3 DEF IInv, SslInit, Goes
<1>4. CASE Open
  <2>1. pc = "open" /\ client' = client
        /\ pc' \in {IF options.standalone THEN "listening" ELSE "stdin", "exit"}
    BY <1>4 DEF Open
  <2>2. pc' = "listening" => options.standalone = TRUE
    BY <2>1, Zenon
  <2>3. pc' = "stdin" => ~(options.standalone = TRUE)
    BY <2>1, Zenon
  <2>4. pc' \in {"listening", "stdin", "exit"}
    BY <2>1
  <2> QED
    BY <1>1, <1>2, <2>1, <2>2, <2>3, <2>4 DEF IInv
<1>5. CASE Client
  <2>1. pc \in {"listening", "stdin"} /\ pc' = pc
        /\ client' = CASE ~options.ssl -> "plain"
                       [] options.ssl /\ pc = "stdin" -> "undefined"
                       [] options.ssl /\ pc = "listening" /\ ssl = "failed" -> "closed"
                       [] OTHER -> "tls"
    BY <1>5 DEF Client
  <2>2. Started
    BY <2>1 DEF IInv
  <2>3. options.ssl \in BOOLEAN
    BY <2>2 DEF Started, Checked, IsOptions
  <2>4. client' = "plain" => ~(options.ssl = TRUE)
    BY <2>1, <2>3
  <2>5. client' = "tls" => options.ssl = TRUE
    BY <2>1, <2>3
  <2> QED
    BY <1>1, <1>2, <2>1, <2>2, <2>4, <2>5 DEF IInv
<1>6. CASE term
  BY <1>1, <1>2, <1>6 DEF IInv, term, Goes
<1> QED
  BY <1>3, <1>4, <1>5, <1>6

LEMMA StutterKeeps ==
  ASSUME IInv, UNCHANGED vars
  PROVE  IInv'
BY DEF IInv, vars, Unread, Reading, Read, Started

\* The invariant of ClaxStart: in every state the options are what the lines read so
\* far say.
LEMMA StartInvariant == Spec => []IInv
<1>1. IInv /\ [Next]_vars => IInv'
  <2> SUFFICES ASSUME IInv, [Next]_vars PROVE IInv'
    OBVIOUS
  <2> QED
    BY ArgsKeep, DetectKeeps, FindKeeps, ReadKeeps, ConfigKeeps, CheckKeeps, LaterKeeps,
       StutterKeeps DEF Next
<1> QED
  BY <1>1, InitKeeps, PTL DEF Spec

-----------------------------------------------------------------------------
(* The properties.                                                         *)

\* What all the lines say is what the file says.
LEMMA WholeFile ==
  ASSUME NEW f \in Files, NEW key
  PROVE  /\ GivingTo(f, key, Len(f)) = Giving(f, key)
         /\ \A default : FieldTo(f, key, Len(f), default) = FieldSays(f, key, default)
         /\ \A value : SaysTo(f, key, value, Len(f)) <=> Says(f, key, value)
<1>1. DOMAIN f = 1..Len(f)
  <2>1. f \in Seq(Line)
    BY FilesAssumption
  <2> QED
    BY <2>1
<1>2. GivingTo(f, key, Len(f)) = Giving(f, key)
  BY <1>1, Zenon DEF GivingTo, Giving
<1> QED
  BY <1>2, Zenon DEF FieldTo, FieldSays, SaysTo, Says

\* Once clax serves, every option is what the file says of it (clax_config_handler).
THEOREM ReadAsWritten == Spec => []AsWritten
<1>1. ASSUME IInv PROVE AsWritten
  <2> SUFFICES ASSUME Serving, WasRead PROVE AsWritten
    BY DEF AsWritten
  <2>1. Started /\ file \in Files
    BY <1>1 DEF IInv, Serving
  <2>2. file \in Seq(Line)
    BY <2>1, FilesAssumption
  <2>3. ini.lineno = Len(file)
    <3>1. Len(file) \in Nat
      BY <2>2
    <3> QED
      BY <2>1, <3>1 DEF Started, Read, WasRead
  <2>4. /\ Checked(options, file, Len(file)) /\ cwd = Folder(options)
        /\ IsOptions(options)
    BY <2>1, <2>3 DEF Started, Checked
  <2>5. \A key \in BesidesPort : options[Texts[key]] = FieldSays(file, key, Default(key))
    BY <2>1, <2>4, WholeFile, Zenon DEF Checked
  <2>6. ASSUME NEW key \in TextKeys \ {<<"bind", "port">>, <<"", "root">>}
        PROVE  options[Texts[key]] = FieldSays(file, key, clax_options_init[Texts[key]])
    BY <2>5, Zenon DEF BesidesPort, Default
  <2>7. options.root = RootSays(file)
    <3>1. Texts[<<"", "root">>] = "root" /\ <<"", "root">> \in BesidesPort
      BY DEF Texts, TextKeys, BesidesPort
    <3> QED
      BY <2>5, <3>1, Zenon DEF Default, RootSays
  <2>8. /\ options.chdir = Says(file, <<"", "chdir">>, Yes)
        /\ options.ssl = Says(file, <<"ssl", "enabled">>, Yes)
        /\ options.no_ssl_verify = Says(file, <<"ssl", "verify">>, No)
    <3>1. /\ options.chdir = TRUE <=> Says(file, <<"", "chdir">>, Yes)
          /\ options.ssl = TRUE <=> Says(file, <<"ssl", "enabled">>, Yes)
          /\ options.no_ssl_verify = TRUE <=> Says(file, <<"ssl", "verify">>, No)
      BY <2>1, <2>4, WholeFile, Zenon DEF Checked
    <3>2. /\ options.chdir \in BOOLEAN /\ options.ssl \in BOOLEAN
          /\ options.no_ssl_verify \in BOOLEAN
      BY <2>4 DEF IsOptions
    <3> HIDE DEF Says
    <3>3. \A b \in BOOLEAN : \A key, value : (b = TRUE <=> Says(file, key, value)) => b = Says(file, key, value)
      BY Zenon DEF Says
    <3> QED
      BY <3>1, <3>2, <3>3, Zenon
  <2>9. options.standalone = TRUE <=> Giving(file, <<"bind", "host">>) # {}
    BY <2>1, <2>4, WholeFile, Zenon DEF Checked
  <2>10. pc = "listening" <=> options.standalone = TRUE
    BY <1>1 DEF IInv, Serving
  <2>11. options.standalone = TRUE =>
           LET port == FieldSays(file, <<"bind", "port">>, 0)
           IN  options.bind_port = IF port = 0 THEN DEFAULT_PORT ELSE port
    BY <2>1, <2>4, WholeFile, Zenon DEF Checked
  <2>12. cwd = IF options.chdir /\ RootSays(file) # clax_san_path(Detected.dst)
               THEN From(Home, RootSays(file)) ELSE Home
    <3>1. options.chdir \in BOOLEAN
      BY <2>4 DEF IsOptions
    <3> QED
      BY <2>4, <2>7, <3>1 DEF Folder
  <2>13. DOMAIN Texts = TextKeys
    BY DEF Texts
  <2> QED
    BY <2>6, <2>7, <2>8, <2>9, <2>10, <2>11, <2>12, <2>13, Zenon DEF AsWritten
<1> QED
  BY <1>1, StartInvariant, PTL

\* A client is spoken to in plain text only if the file does not ask for TLS, and
\* over TLS only if it names a certificate and a key (clax_parse_options).
THEOREM TalksAsWritten == Spec => []TalksAsTold
<1>1. ASSUME IInv PROVE TalksAsTold
  <2> SUFFICES ASSUME client # "none" PROVE TalksAsTold
    BY DEF TalksAsTold
  <2>1. Started /\ file \in Files
    BY <1>1 DEF IInv
  <2>2. /\ Checked(options, file, ini.lineno) /\ ini.lineno \in {0, Len(file)}
    BY <2>1 DEF Started, Read
  <2>3. Len(file) \in Nat
    <3>1. file \in Seq(Line)
      BY <2>1, FilesAssumption
    <3> QED
      BY <3>1
  <2>4. ASSUME client = "plain", WasRead PROVE ~Says(file, <<"ssl", "enabled">>, Yes)
    <3>1. ini.lineno = Len(file)
      BY <2>2, <2>3, <2>4 DEF WasRead
    <3>2. ~SaysTo(file, <<"ssl", "enabled">>, Yes, Len(file))
      <4>1. ~(options.ssl = TRUE)
        BY <1>1, <2>4 DEF IInv
      <4> QED
        BY <2>2, <3>1, <4>1, Zenon DEF Checked
    <3> QED
      BY <2>1, <3>2, WholeFile, Zenon
  <2>5. ASSUME client = "tls", NEW key \in {<<"ssl", "cert_file">>, <<"ssl", "key_file">>}
        PROVE  Giving(file, key) # {}
    <3>1. options.cert_file # << >> /\ options.key_file # << >>
      <4>1. options.ssl = TRUE
        BY <1>1, <2>5 DEF IInv
      <4> QED
        BY <2>2, <4>1 DEF Checked, HasFiles
    <3>2. /\ Texts[key] \in {"cert_file", "key_file"}
          /\ key \in BesidesPort /\ key # <<"", "root">>
      <4>1. CASE key = <<"ssl", "cert_file">>
        BY <4>1 DEF Texts, TextKeys, BesidesPort
      <4>2. CASE key = <<"ssl", "key_file">>
        BY <4>2 DEF Texts, TextKeys, BesidesPort
      <4> QED
        BY <2>5, <4>1, <4>2
    <3>3. options[Texts[key]] # << >>
      BY <3>1, <3>2
    <3>4. Default(key) = << >>
      <4>1. Default(key) = clax_options_init[Texts[key]]
        BY <3>2, Zenon DEF Default
      <4>2. clax_options_init.cert_file = << >> /\ clax_options_init.key_file = << >>
        BY DEF clax_options_init
      <4> QED
        BY <3>2, <4>1, <4>2
    <3>5. options[Texts[key]] = FieldTo(file, key, ini.lineno, Default(key))
      BY <2>2, <3>2, Zenon DEF Checked
    <3>6. GivingTo(file, key, ini.lineno) # {}
      BY <3>3, <3>4, <3>5, Zenon DEF FieldTo
    <3>7. GivingTo(file, key, 0) = {}
      BY GivingAfter
    <3>8. ini.lineno = Len(file)
      BY <2>2, <3>6, <3>7
    <3> QED
      BY <2>1, <3>6, <3>8, WholeFile
  <2> QED
    BY <2>4, <2>5 DEF TalksAsTold
<1> QED
  BY <1>1, StartInvariant, PTL
=============================================================================
