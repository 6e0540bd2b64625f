--------------------------- MODULE ClaxDispatcher ---------------------------
(***************************************************************************)
(* The routing table and the dispatch of a request (clax_dispatcher.c).    *)
(* A path is one of "/", "/command", "/tree/" (any path below it) and      *)
(* "other".                                                                *)
(***************************************************************************)
EXTENDS ClaxTree, ClaxCommand

Paths == {"/", "/command", "/tree/", "other"}
Methods == {"GET", "HEAD", "POST", "DELETE", "PUT"}

clax_dispatcher_actions ==
  [p \in Paths \ {"other"} |->
     CASE p = "/" -> {"GET"}
       [] p = "/command" -> {"POST"}
       [] OTHER -> {"HEAD", "GET", "POST", "DELETE"}]

CLAX_DISPATCHER_FLAG_100_CONTINUE == {"/tree/"}

clax_dispatch_index(c, r, sys) == ReplyText(c, r, 200, sys)

Handler(c, r, sys) ==
  CASE r.path = "/" -> clax_dispatch_index(c, r, sys)
    [] r.path = "/command" -> clax_dispatch_command(c, r, sys)
    [] OTHER -> clax_dispatch_tree(c, r, sys)

\* A request that waits for a 100 is handed only to a handler that knows of it;
\* any other gets a status and no reply.
clax_dispatch(c, r, sys) ==
  CASE r.path = "other" -> clax_dispatch_not_found(c, r, sys)
    [] r.path # "other" /\ r.method \notin clax_dispatcher_actions[r.path] ->
         clax_dispatch_method_not_allowed(c, r, sys)
    [] r.path # "other" /\ r.method \in clax_dispatcher_actions[r.path]
         /\ c.continue_expected /\ r.path \notin CLAX_DISPATCHER_FLAG_100_CONTINUE ->
         clax_http_response_status(c, 400)
    [] OTHER -> Handler(c, r, sys)
=============================================================================
