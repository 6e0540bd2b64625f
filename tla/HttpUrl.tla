------------------------------ MODULE HttpUrl -------------------------------
(***************************************************************************)
(* URLs, as http_parser.c splits them: parse_url_char decides on every     *)
(* character while the request line is read, and http_parser_parse_url     *)
(* runs it again over the text on_url is given.                            *)
(*                                                                         *)
(* A field of the URL is the text the code keeps an offset and a length    *)
(* of; one that is not set is empty here, and no field that is set can be: *)
(* field_data is not initialized.  The value of a port is left out.        *)
(***************************************************************************)
EXTENDS Chars, SequencesExt

UserInfo == AlphaNum \cup {"-", "_", ".", "!", "~", "*", "'", "(", ")", "%", ";", ":", "&", "=",
                           "+", "$", ","}
UrlChar == Between(33, 126) \ {"#", "?"}
HostChar == AlphaNum \cup {".", "-"}

\* A fact, which takes looking into Printable.
ASSUME SlashAssumption == "/" \in UrlChar

Move(from, on, to) == [from |-> from, on |-> on, to |-> to]

\* The state a table of moves leads to from s, or the given one if it has none.
Follow(moves, s, ch, otherwise) ==
  LET m == {x \in moves : s \in x.from /\ ch \in x.on}
  IN  IF m = {} THEN otherwise ELSE (CHOOSE x \in m : TRUE).to

Server == {"s_req_server_start", "s_req_server", "s_req_server_with_at"}
Query == {"s_req_query_string_start", "s_req_query_string"}

UrlMoves ==
  {Move({"s_req_spaces_before_url"}, {"/", "*"}, "s_req_path"),
   Move({"s_req_spaces_before_url", "s_req_schema"}, Alpha, "s_req_schema"),
   Move({"s_req_schema"}, {":"}, "s_req_schema_slash"),
   Move({"s_req_schema_slash"}, {"/"}, "s_req_schema_slash_slash"),
   Move({"s_req_schema_slash_slash"}, {"/"}, "s_req_server_start"),
   Move(Server, {"/"}, "s_req_path"),
   Move(Server, {"?"}, "s_req_query_string_start"),
   Move(Server \ {"s_req_server_with_at"}, {"@"}, "s_req_server_with_at"),
   Move(Server, UserInfo \cup {"[", "]"}, "s_req_server"),
   Move({"s_req_path"}, UrlChar, "s_req_path"),
   Move({"s_req_path"}, {"?"}, "s_req_query_string_start"),
   Move(Query, UrlChar \cup {"?"}, "s_req_query_string"),
   Move({"s_req_path"} \cup Query, {"#"}, "s_req_fragment_start"),
   Move({"s_req_fragment_start", "s_req_fragment"}, UrlChar \cup {"?"}, "s_req_fragment"),
   Move({"s_req_fragment_start"}, {"#"}, "s_req_fragment_start"),
   Move({"s_req_fragment"}, {"#"}, "s_req_fragment")}

\* No move leaves s_dead, and no URL has white space.
parse_url_char(s, ch) == Follow(UrlMoves, s, ch, "s_dead")

-----------------------------------------------------------------------------
HostMoves ==
  {Move({"s_http_userinfo_start", "s_http_userinfo"}, {"@"}, "s_http_host_start"),
   Move({"s_http_userinfo_start", "s_http_userinfo"}, UserInfo, "s_http_userinfo"),
   Move({"s_http_host_start"}, {"["}, "s_http_host_v6_start"),
   Move({"s_http_host_start", "s_http_host"}, HostChar, "s_http_host"),
   Move({"s_http_host", "s_http_host_v6_end"}, {":"}, "s_http_host_port_start"),
   Move({"s_http_host_v6", "s_http_host_v6_zone"}, {"]"}, "s_http_host_v6_end"),
   Move({"s_http_host_v6_start", "s_http_host_v6"}, Hex \cup {":", "."}, "s_http_host_v6"),
   Move({"s_http_host_v6"}, {"%"}, "s_http_host_v6_zone_start"),
   Move({"s_http_host_v6_zone_start", "s_http_host_v6_zone"},
        AlphaNum \cup {"%", ".", "-", "_", "~"}, "s_http_host_v6_zone"),
   Move({"s_http_host_port_start", "s_http_host_port"}, Num, "s_http_host_port")}

http_parse_host_char(s, ch) == Follow(HostMoves, s, ch, "s_http_host_dead")

\* Is the text of the host one, with a user before it or not?
http_parse_host(host, found_at) ==
  FoldLeft(http_parse_host_char,
           IF found_at THEN "s_http_userinfo_start" ELSE "s_http_host_start", host)
    \in {"s_http_host", "s_http_host_v6_end", "s_http_host_port"}

\* The field the character that led to a state belongs to; the states without
\* one follow a delimiter.
FieldOf ==
  [s \in {"s_req_schema", "s_req_server", "s_req_server_with_at", "s_req_path",
          "s_req_query_string", "s_req_fragment"} |->
     CASE s = "s_req_schema" -> "schema"
       [] s \in Server -> "host"
       [] s = "s_req_path" -> "path"
       [] s = "s_req_query_string" -> "query"
       [] OTHER -> "fragment"]

Fields == {"schema", "host", "path", "query", "fragment"}

UrlStart ==
  [s |-> "s_req_spaces_before_url", found_at |-> FALSE, field |-> [f \in Fields |-> << >>]]

InState(u, s, ch) ==
  LET grown == [u.field EXCEPT ![FieldOf[s]] = Append(@, ch)]
  IN  [u EXCEPT !.s = s, !.found_at = @ \/ s = "s_req_server_with_at",
                !.field = IF s \in DOMAIN FieldOf THEN grown ELSE @]

UrlStep(u, ch) == InState(u, parse_url_char(u.s, ch), ch)

IsUrl(u) ==
  /\ u.s # "s_dead"
  /\ u.field.schema # << >> => u.field.host # << >>
  /\ u.field.host # << >> => http_parse_host(u.field.host, u.found_at)

\* ok: was it a URL; a field that is not set is empty.
UrlFound(u) == [ok |-> IsUrl(u), field |-> u.field]

http_parser_parse_url(buf) == UrlFound(FoldLeft(UrlStep, UrlStart, buf))
=============================================================================
