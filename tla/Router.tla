------------------------------- MODULE Router -------------------------------
(***************************************************************************)
(* Dispatch of HTTP requests (handler.c) in a server that HostInit set up. *)
(*                                                                         *)
(* request() tries the native application, then Lua, then mongoose's file  *)
(* server.  The native handler may write a new URI into uri_rewrite, which *)
(* makes request() route once more.  uri_rewrite and its flag are static:  *)
(* the same memory serves every request of every connection.               *)
(***************************************************************************)
EXTENDS HostInit, Sequences

CONSTANTS
    Uris,           \* the URIs of requests and rewrites
    Root,           \* the one of length 1, "/"
    NativeUris,     \* those that native_match accepts
    LuaUris,        \* those that lState_match accepts
    MaxRequests     \* bound on the requests of a run

ASSUME RouterAssumption ==
    /\ Root \in Uris
    /\ NativeUris \subseteq Uris
    /\ LuaUris \subseteq Uris
    /\ NULL \notin Uris
    /\ MaxRequests \in Nat

VARIABLES
    uri,            \* hm->uri
    uri_rewrite,    \* NULL when uri_rewrite[0] is 0
    uri_rewrite_flag,
    at,             \* where request() stands
    passes,         \* history: applications called for this request
    mine,           \* history: the request's URI and what it was rewritten to
    requests        \* history: requests so far

routerVars == <<uri, uri_rewrite, uri_rewrite_flag, at, passes, mine, requests>>
rtVars == <<hostVars, routerVars>>

RtInit ==
    /\ HostInitial
    /\ uri = NULL
    /\ uri_rewrite = NULL
    /\ uri_rewrite_flag = 0
    /\ at = "idle"
    /\ passes = <<>>
    /\ mine = {}
    /\ requests = 0

-----------------------------------------------------------------------------
\* The application a URI goes to, or "crash" where a null pointer is used.
IsIndex(u) == u = Root /\ g.index_files = "native"

FileOrIndex(u) ==
    IF u = Root /\ g.index_files = NULL THEN "crash"
    ELSE IF IsIndex(u) THEN "native" ELSE "file"

Route(u) ==
    CASE mode = "ORIGINAL" -> "file"
      [] mode = "WITH_LUA" -> "crash"    \* native_match is not set
      [] mode \in {"WITH_NAV", "FULL_ON"} /\ g.native_keyword = NULL -> "crash"
      [] mode \in {"WITH_NAV", "FULL_ON"} /\ g.native_keyword # NULL ->
           IF u \in NativeUris THEN "native"
           ELSE IF mode = "WITH_NAV" THEN FileOrIndex(u)
           ELSE IF g.lState_keyword = NULL THEN "crash"
           ELSE IF u \in LuaUris THEN "lua"
           ELSE FileOrIndex(u)

\* Mutant of Request: uri_rewrite keeps what an earlier request left in it.
RequestKeepsRewrite(u) ==
    /\ hostpc = "serving" /\ at = "idle"
    /\ requests < MaxRequests
    /\ uri' = u
    /\ uri_rewrite_flag' = 0
    /\ at' = "route"
    /\ passes' = <<>>
    /\ mine' = {u}
    /\ requests' = requests + 1
    /\ UNCHANGED <<hostVars, uri_rewrite>>

\* asteroid_handler receives MG_EV_HTTP_REQUEST and calls request().
Request(u) ==
    /\ hostpc = "serving" /\ at = "idle"
    /\ requests < MaxRequests
    /\ uri' = u
    /\ uri_rewrite' = NULL
    /\ uri_rewrite_flag' = 0
    /\ at' = "route"
    /\ passes' = <<>>
    /\ mine' = {u}
    /\ requests' = requests + 1
    /\ UNCHANGED hostVars

(***************************************************************************)
(* The native handler: it answers or not, and may write a URI into         *)
(* uri_rewrite.  On the second pass hm->uri lies in that buffer, but       *)
(* nothing reads it after the handler has returned.                        *)
(***************************************************************************)
NativeHandler ==
    \/ UNCHANGED <<uri_rewrite, mine>>
    \/ \E u \in Uris : uri_rewrite' = u /\ mine' = mine \union {u}

Crash ==
    /\ hostpc' = "crashed"
    /\ UNCHANGED <<config, g, mode, native, lua, routerVars>>

\* One pass of the switch in request().
Dispatch ==
    /\ hostpc = "serving" /\ at = "route"
    /\ LET app == Route(uri)
       IN  IF app = "crash" \/ (app = "native" /\ native.handler = NULL)
           THEN Crash
           ELSE /\ passes' = Append(passes, [app |-> app, uri |-> uri])
                /\ at' = "rewrite"
                /\ IF app = "native" THEN NativeHandler
                   ELSE UNCHANGED <<uri_rewrite, mine>>
                /\ UNCHANGED <<hostVars, uri, uri_rewrite_flag, requests>>

\* goto URI_REWRITE.
RewriteUri ==
    /\ hostpc = "serving" /\ at = "rewrite"
    /\ uri_rewrite # NULL /\ uri_rewrite_flag = 0
    /\ uri' = uri_rewrite
    /\ uri_rewrite_flag' = 1
    /\ at' = "route"
    /\ UNCHANGED <<hostVars, uri_rewrite, passes, mine, requests>>

\* request() returns: no rewrite was asked for, or one was followed already.
Return ==
    /\ hostpc = "serving" /\ at = "rewrite"
    /\ uri_rewrite = NULL \/ uri_rewrite_flag = 1
    /\ at' = "idle"
    /\ UNCHANGED <<hostVars, uri, uri_rewrite, uri_rewrite_flag, passes, mine,
                   requests>>

RtNext ==
    \/ HostNext /\ UNCHANGED routerVars
    \/ \E u \in Uris : Request(u)
    \/ Dispatch
    \/ RewriteUri
    \/ Return

RtSpec == RtInit /\ [][RtNext]_rtVars

-----------------------------------------------------------------------------
(***************************************************************************)
(* Every variable of request() and of start-up stays in its domain.        *)
(***************************************************************************)
RtTypeOK ==
    /\ HostTypeOK
    /\ uri \in Uris \union {NULL}
    /\ uri_rewrite \in Uris \union {NULL}
    /\ uri_rewrite_flag \in {0, 1}
    /\ at \in {"idle", "route", "rewrite"}
    /\ passes \in Seq([app : {"native", "lua", "file"}, uri : Uris])
    /\ mine \in SUBSET Uris
    /\ requests \in Nat

(***************************************************************************)
(* An application is called with the request's URI or with one the native  *)
(* handler wrote during this request, never with one that an earlier       *)
(* request left in the static buffer (handler.c:19-27 and 66-72).          *)
(***************************************************************************)
OwnUriOnly == \A k \in DOMAIN passes : passes[k].uri \in mine

(***************************************************************************)
(* A native handler that rewrites every URI it gets cannot make request()  *)
(* loop: there are at most two passes, and the second follows a native one *)
(* (handler.c:66-72).                                                      *)
(***************************************************************************)
OneRewrite ==
    /\ Len(passes) <= 2
    /\ Len(passes) = 2 => passes[1].app = "native"

(***************************************************************************)
(* The settings a server needs.                                            *)
(***************************************************************************)
Complete(c) ==
    /\ c.readable /\ c.port # NULL /\ c.bindable
    /\ \/ c.native_lib = NULL
       \/ /\ c.opens /\ c.symbol
          /\ {c.native_match, c.lState_match} \subseteq {"prefix", "suffix"}
          /\ NULL \notin {c.native_keyword, c.lState_keyword, c.lState_home,
                          c.index_files}

(***************************************************************************)
(* A server given every setting, or only a port and no native application, *)
(* starts and never uses a null pointer (load_conf.c:40-124,               *)
(* asteroid.c:59-126, handler.c:23-73).                                    *)
(***************************************************************************)
CompleteServes == Complete(config) => hostpc \notin Ended

(***************************************************************************)
(* The native application answers first: a script or a file is served only *)
(* for a URI that the native keyword does not match (handler.c:30-40).     *)
(***************************************************************************)
NativeFirst ==
    mode # "ORIGINAL" =>
        \A k \in DOMAIN passes : passes[k].uri \in NativeUris =>
            passes[k].app = "native"

(***************************************************************************)
(* A request is dispatched on its own: under its URI or one written for    *)
(* it, rewritten once at most, to the native application first.            *)
(***************************************************************************)
Dispatched == OwnUriOnly /\ OneRewrite /\ NativeFirst
=============================================================================
