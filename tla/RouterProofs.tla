---------------------------- MODULE RouterProofs ----------------------------
(***************************************************************************)
(* Proofs about start-up (HostInit) and dispatch (Router), for any set of  *)
(* configurations, any URIs and any number of requests.                    *)
(***************************************************************************)
EXTENDS Router, TLAPS

USE DEF NULL, Modes, Ended

-----------------------------------------------------------------------------
(***************************************************************************)
(* Type correctness.                                                       *)
(***************************************************************************)
\* What load_conf leaves in the globals has the type of the globals.
LEMMA LoadedType ==
    ASSUME HostTypeOK, LoadConf
    PROVE  HostTypeOK'
<1>1. config \in Config
  BY ConfigsAssumption DEF HostTypeOK
<1>. QED
  BY <1>1 DEF HostTypeOK, LoadConf, Loaded, OpensLua, Config

LEMMA OpenNativeType ==
    ASSUME HostTypeOK, OpenNative
    PROVE  HostTypeOK'
<1>1. g.native_match \in {NULL, "prefix", "suffix", "other"}
  BY DEF HostTypeOK
<1>2. native' \in [match : {NULL, "prefix", "suffix"}, handler : {NULL, "handler"}]
  BY <1>1 DEF OpenNative
<1>3. hostpc' \in {"lua", "crashed", "exit_config", "exit_load_so"}
  <2>1. CASE ~g.open_native
    BY <2>1 DEF OpenNative
  <2>2. CASE g.open_native
    BY <1>1, <2>2 DEF OpenNative
  <2>. QED  BY <2>1, <2>2
<1>. QED
  BY <1>2, <1>3 DEF HostTypeOK, OpenNative

LEMMA OpenLuaType ==
    ASSUME HostTypeOK, OpenLua
    PROVE  HostTypeOK'
<1>1. g.lState_match \in {NULL, "prefix", "suffix", "other"}
  BY DEF HostTypeOK
<1>2. lua' \in {NULL, "prefix", "suffix"}
  BY <1>1 DEF OpenLua
<1>3. hostpc' \in {"bind", "crashed", "exit_config"}
  <2>1. CASE ~g.open_lState
    BY <2>1 DEF OpenLua
  <2>2. CASE g.open_lState
    BY <1>1, <2>2 DEF OpenLua
  <2>. QED  BY <2>1, <2>2
<1>. QED
  BY <1>2, <1>3 DEF HostTypeOK, OpenLua

LEMMA HostType ==
    ASSUME HostTypeOK, HostNext
    PROVE  HostTypeOK'
<1>1. CASE ChooseMode
  BY <1>1 DEF HostTypeOK, ChooseMode
<1>2. CASE HttpStart
  BY <1>2 DEF HostTypeOK, HttpStart
<1>. QED
  BY <1>1, <1>2, LoadedType, OpenNativeType, OpenLuaType DEF HostNext

LEMMA HostUnchanged ==
    ASSUME HostTypeOK, UNCHANGED hostVars
    PROVE  HostTypeOK'
BY DEF HostTypeOK, hostVars

\* An application that is called is one of the three.
LEMMA RouteType ==
    ASSUME HostTypeOK, NEW u
    PROVE  Route(u) \in {"native", "lua", "file", "crash"}
BY DEF HostTypeOK, Route, FileOrIndex, IsIndex

\* A request that is being routed has a URI: RtTypeOK needs it to be inductive.
UriInv == at # "idle" => uri \in Uris

LEMMA TypeInit == RtInit => RtTypeOK /\ UriInv
<1>. SUFFICES ASSUME RtInit PROVE RtTypeOK /\ UriInv
  OBVIOUS
<1>1. HostTypeOK
  BY DEF RtInit, HostInitial, HostTypeOK
<1>. QED
  BY <1>1 DEF RtInit, RtTypeOK, UriInv

LEMMA TypeStep == RtTypeOK /\ UriInv /\ [RtNext]_rtVars => RtTypeOK' /\ UriInv'
<1>. SUFFICES ASSUME RtTypeOK, UriInv, [RtNext]_rtVars PROVE RtTypeOK' /\ UriInv'
  OBVIOUS
<1>. USE RouterAssumption DEF UriInv
<1>1. CASE HostNext /\ UNCHANGED routerVars
  BY <1>1, HostType DEF RtTypeOK, routerVars
<1>2. ASSUME NEW u \in Uris, Request(u)
      PROVE  RtTypeOK' /\ UriInv'
  BY <1>2, HostUnchanged DEF RtTypeOK, Request
<1>3. CASE Dispatch
  <2>1. CASE Crash
    BY <2>1 DEF Crash, RtTypeOK, HostTypeOK, routerVars
  <2>2. CASE ~Crash
    <3>1. /\ passes' = Append(passes, [app |-> Route(uri), uri |-> uri])
          /\ Route(uri) # "crash"
          /\ at' = "rewrite"
          /\ NativeHandler \/ UNCHANGED <<uri_rewrite, mine>>
          /\ UNCHANGED <<hostVars, uri, uri_rewrite_flag, requests>>
      BY <1>3, <2>2 DEF Dispatch
    <3>2. Route(uri) \in {"native", "lua", "file"}
      BY <3>1, RouteType DEF RtTypeOK
    <3>3. uri \in Uris
      BY <1>3 DEF Dispatch
    <3>4. uri_rewrite' \in Uris \union {NULL} /\ mine' \in SUBSET Uris
      BY <3>1 DEF RtTypeOK, NativeHandler
    <3>. QED
      BY <3>1, <3>2, <3>3, <3>4, HostUnchanged DEF RtTypeOK
  <2>. QED  BY <2>1, <2>2
<1>4. CASE RewriteUri
  BY <1>4, HostUnchanged DEF RtTypeOK, RewriteUri
<1>5. CASE Return
  BY <1>5, HostUnchanged DEF RtTypeOK, Return
<1>6. CASE UNCHANGED rtVars
  BY <1>6, HostUnchanged DEF RtTypeOK, rtVars, routerVars
<1>. QED
  BY <1>1, <1>2, <1>3, <1>4, <1>5, <1>6 DEF RtNext

LEMMA TypeInvariant == RtSpec => [](RtTypeOK /\ UriInv)
<1>. QED
  BY TypeInit, TypeStep, PTL DEF RtSpec

(***************************************************************************)
(* Every variable of start-up and dispatch stays in its domain.            *)
(***************************************************************************)
THEOREM RouterTypeCorrect == RtSpec => []RtTypeOK
<1>. QED
  BY TypeInvariant, PTL

-----------------------------------------------------------------------------
(***************************************************************************)
(* The steps of Dispatch that do not crash.                                *)
(***************************************************************************)
LEMMA DispatchStep ==
    ASSUME Dispatch, ~Crash
    PROVE  /\ at = "route" /\ at' = "rewrite"
           /\ passes' = Append(passes, [app |-> Route(uri), uri |-> uri])
           /\ IF Route(uri) = "native" THEN NativeHandler
              ELSE UNCHANGED <<uri_rewrite, mine>>
           /\ UNCHANGED <<hostVars, uri, uri_rewrite_flag, requests>>
BY DEF Dispatch

(***************************************************************************)
(* Own URIs: while a request is routed, its URI and the one in the static  *)
(* buffer are its own; the buffer was emptied when it came in.             *)
(***************************************************************************)
OwnInv ==
    /\ at # "idle" => uri \in mine
    /\ at # "idle" /\ uri_rewrite # NULL => uri_rewrite \in mine
    /\ OwnUriOnly

LEMMA OwnStep ==
    RtTypeOK /\ UriInv /\ OwnInv /\ [RtNext]_rtVars => OwnInv'
<1>. SUFFICES ASSUME RtTypeOK, UriInv, OwnInv, [RtNext]_rtVars PROVE OwnInv'
  OBVIOUS
<1>. USE RouterAssumption
<1>0. passes \in Seq([app : {"native", "lua", "file"}, uri : Uris])
  BY DEF RtTypeOK
<1>1. CASE HostNext /\ UNCHANGED routerVars
  BY <1>1 DEF OwnInv, OwnUriOnly, routerVars
<1>2. ASSUME NEW u \in Uris, Request(u)
      PROVE  OwnInv'
  BY <1>2 DEF OwnInv, OwnUriOnly, Request
<1>3. CASE Dispatch
  <2>1. CASE Crash
    BY <2>1 DEF Crash, OwnInv, OwnUriOnly, routerVars
  <2>2. CASE ~Crash
    <3>1. /\ at = "route" /\ at' = "rewrite"
          /\ passes' = Append(passes, [app |-> Route(uri), uri |-> uri])
          /\ NativeHandler \/ UNCHANGED <<uri_rewrite, mine>>
          /\ UNCHANGED uri
      BY <1>3, <2>2, DispatchStep
    <3>2. /\ uri' \in mine' /\ mine \subseteq mine'
          /\ uri_rewrite' # NULL => uri_rewrite' \in mine'
      BY <3>1 DEF OwnInv, NativeHandler
    <3>3. Len(passes') = Len(passes) + 1
          /\ passes'[Len(passes) + 1].uri = uri
          /\ \A k \in 1..Len(passes) : passes'[k] = passes[k]
      BY <1>0, <3>1
    <3>4. DOMAIN passes = 1..Len(passes) /\ DOMAIN passes' = 1..Len(passes')
      BY <1>0, <3>1
    <3>5. OwnUriOnly'
      <4>. SUFFICES ASSUME NEW k \in 1..Len(passes) + 1
                    PROVE  passes'[k].uri \in mine'
        BY <3>3, <3>4 DEF OwnUriOnly
      <4>1. CASE k = Len(passes) + 1
        BY <4>1, <3>1, <3>2, <3>3
      <4>2. CASE k \in 1..Len(passes)
        BY <4>2, <3>2, <3>3, <3>4 DEF OwnInv, OwnUriOnly
      <4>. QED  BY <1>0, <4>1, <4>2
    <3>. QED
      BY <3>1, <3>2, <3>5 DEF OwnInv
  <2>. QED  BY <2>1, <2>2
<1>4. CASE RewriteUri
  BY <1>4 DEF OwnInv, OwnUriOnly, RewriteUri
<1>5. CASE Return
  BY <1>5 DEF OwnInv, OwnUriOnly, Return
<1>6. CASE UNCHANGED rtVars
  BY <1>6 DEF OwnInv, OwnUriOnly, rtVars, routerVars
<1>. QED
  BY <1>1, <1>2, <1>3, <1>4, <1>5, <1>6 DEF RtNext

(***************************************************************************)
(* No request is served under a URI that another one left behind.          *)
(***************************************************************************)
THEOREM OwnUris == RtSpec => []OwnUriOnly
<1>1. RtInit => OwnInv
  BY DEF RtInit, OwnInv, OwnUriOnly
<1>2. OwnInv => OwnUriOnly
  BY DEF OwnInv
<1>. QED
  BY <1>1, <1>2, TypeInvariant, OwnStep, PTL DEF RtSpec

-----------------------------------------------------------------------------
(***************************************************************************)
(* One rewrite: the flag counts the applications called so far, and a URI  *)
(* in the static buffer was put there by a native handler of this request. *)
(***************************************************************************)
RewriteInv ==
    /\ at = "route" => Len(passes) = uri_rewrite_flag
    /\ at = "route" /\ uri_rewrite_flag = 0 => uri_rewrite = NULL
    /\ at = "rewrite" => Len(passes) = uri_rewrite_flag + 1
    /\ at = "rewrite" /\ uri_rewrite # NULL => passes[1].app = "native"
    /\ at = "route" /\ uri_rewrite_flag = 1 => passes[1].app = "native"
    /\ OneRewrite

LEMMA RewriteStep ==
    RtTypeOK /\ UriInv /\ RewriteInv /\ [RtNext]_rtVars => RewriteInv'
<1>. SUFFICES ASSUME RtTypeOK, UriInv, RewriteInv, [RtNext]_rtVars PROVE RewriteInv'
  OBVIOUS
<1>. USE RouterAssumption
<1>0. /\ passes \in Seq([app : {"native", "lua", "file"}, uri : Uris])
      /\ uri_rewrite_flag \in {0, 1}
  BY DEF RtTypeOK
<1>1. CASE HostNext /\ UNCHANGED routerVars
  BY <1>1 DEF RewriteInv, OneRewrite, routerVars
<1>2. ASSUME NEW u \in Uris, Request(u)
      PROVE  RewriteInv'
  <2>1. /\ at' = "route" /\ passes' = <<>>
        /\ uri_rewrite_flag' = 0 /\ uri_rewrite' = NULL
    BY <1>2 DEF Request
  <2>2. Len(passes') = 0
    BY <2>1
  <2>. QED
    BY <2>1, <2>2 DEF RewriteInv, OneRewrite
<1>3. CASE Dispatch
  <2>1. CASE Crash
    BY <2>1 DEF Crash, RewriteInv, OneRewrite, routerVars
  <2>2. CASE ~Crash
    <3>1. /\ at = "route" /\ at' = "rewrite"
          /\ passes' = Append(passes, [app |-> Route(uri), uri |-> uri])
          /\ Route(uri) # "native" => UNCHANGED uri_rewrite
          /\ uri_rewrite_flag' = uri_rewrite_flag
      BY <1>3, <2>2, DispatchStep
    <3>2. Len(passes') = Len(passes) + 1
          /\ passes'[Len(passes) + 1].app = Route(uri)
          /\ \A k \in 1..Len(passes) : passes'[k] = passes[k]
          /\ Len(passes) \in Nat
      BY <1>0, <3>1
    <3>3. Len(passes) = uri_rewrite_flag
      BY <3>1 DEF RewriteInv
    <3>4. CASE uri_rewrite_flag = 0
      <4>1. Len(passes') = 1 /\ passes'[1].app = Route(uri)
        BY <3>2, <3>3, <3>4
      <4>2. uri_rewrite' # NULL => Route(uri) = "native"
        BY <3>1, <3>4 DEF RewriteInv
      <4>. QED
        BY <3>1, <3>4, <4>1, <4>2 DEF RewriteInv, OneRewrite
    <3>5. CASE uri_rewrite_flag = 1
      <4>1. Len(passes') = 2 /\ passes'[1] = passes[1]
        BY <3>2, <3>3, <3>5
      <4>2. passes[1].app = "native"
        BY <3>1, <3>5 DEF RewriteInv
      <4>. QED
        BY <3>1, <3>5, <4>1, <4>2 DEF RewriteInv, OneRewrite
    <3>. QED  BY <1>0, <3>4, <3>5
  <2>. QED  BY <2>1, <2>2
<1>4. CASE RewriteUri
  BY <1>0, <1>4 DEF RewriteInv, OneRewrite, RewriteUri
<1>5. CASE Return
  BY <1>5 DEF RewriteInv, OneRewrite, Return
<1>6. CASE UNCHANGED rtVars
  BY <1>6 DEF RewriteInv, OneRewrite, rtVars, routerVars
<1>. QED
  BY <1>1, <1>2, <1>3, <1>4, <1>5, <1>6 DEF RtNext

(***************************************************************************)
(* A request is rewritten at most once, and only by the native handler.    *)
(***************************************************************************)
THEOREM RewritesOnce == RtSpec => []OneRewrite
<1>1. RtInit => RewriteInv
  <2>. SUFFICES ASSUME RtInit PROVE RewriteInv
    OBVIOUS
  <2>1. passes = <<>> /\ at = "idle"
    BY DEF RtInit
  <2>2. Len(passes) = 0
    BY <2>1
  <2>. QED
    BY <2>1, <2>2 DEF RewriteInv, OneRewrite
<1>2. RewriteInv => OneRewrite
  BY DEF RewriteInv
<1>. QED
  BY <1>1, <1>2, TypeInvariant, RewriteStep, PTL DEF RtSpec

-----------------------------------------------------------------------------
(***************************************************************************)
(* Start-up: what is known of the globals and the pointers at each step.   *)
(***************************************************************************)
StartInv ==
    /\ hostpc # "load" => g = Loaded(config)
    /\ hostpc \notin {"load", "mode"} =>
        mode = IF g.open_native
               THEN IF g.open_lState THEN "FULL_ON" ELSE "WITH_NAV"
               ELSE IF g.open_lState THEN "WITH_LUA" ELSE "ORIGINAL"
    /\ hostpc \in {"lua", "bind", "serving"} /\ g.open_native
        => native.match = g.native_match /\ native.match # NULL
    /\ hostpc \in {"bind", "serving"} /\ g.open_lState
        => lua = g.lState_match /\ lua # NULL
    /\ hostpc = "serving" => g.port # NULL

\* What the settings file says is what was read, as far as it was read.
LEMMA LoadedSettings ==
    ASSUME NEW c \in Config, Loaded(c).port # NULL
    PROVE  /\ Loaded(c).open_native <=> c.native_lib # NULL
           /\ Loaded(c).open_native => Loaded(c).native_match = c.native_match
           /\ Loaded(c).open_lState => Loaded(c).lState_match = c.lState_match
BY DEF Loaded, OpensLua, Config

LEMMA StartStep ==
    RtTypeOK /\ StartInv /\ [RtNext]_rtVars => StartInv'
<1>. SUFFICES ASSUME RtTypeOK, StartInv, [RtNext]_rtVars PROVE StartInv'
  OBVIOUS
<1>1. CASE LoadConf
  BY <1>1 DEF LoadConf, StartInv
<1>2. CASE ChooseMode
  BY <1>2 DEF ChooseMode, StartInv
<1>3. CASE OpenNative
  <2>1. g.native_match \in {NULL, "prefix", "suffix", "other"}
    BY DEF RtTypeOK, HostTypeOK
  <2>2. /\ hostpc = "native" /\ UNCHANGED <<config, g, mode, lua>>
        /\ hostpc' \in {"lua", "crashed", "exit_config", "exit_load_so"}
    <3>1. CASE ~g.open_native
      BY <1>3, <3>1 DEF OpenNative
    <3>2. CASE g.open_native
      BY <1>3, <2>1, <3>2 DEF OpenNative
    <3>. QED  BY <3>1, <3>2
  <2>3. hostpc' = "lua" /\ g.open_native => g.native_match \in {"prefix", "suffix"}
    BY <1>3, <2>1 DEF OpenNative
  <2>4. native'.match = IF g.open_native /\ g.native_match # "other"
                        THEN g.native_match ELSE NULL
    BY <1>3 DEF OpenNative
  <2>. QED
    BY <2>2, <2>3, <2>4 DEF StartInv
<1>4. CASE OpenLua
  <2>1. g.lState_match \in {NULL, "prefix", "suffix", "other"}
    BY DEF RtTypeOK, HostTypeOK
  <2>2. /\ hostpc = "lua" /\ UNCHANGED <<config, g, mode, native>>
        /\ hostpc' \in {"bind", "crashed", "exit_config"}
    <3>1. CASE ~g.open_lState
      BY <1>4, <3>1 DEF OpenLua
    <3>2. CASE g.open_lState
      BY <1>4, <2>1, <3>2 DEF OpenLua
    <3>. QED  BY <3>1, <3>2
  <2>3. hostpc' = "bind" /\ g.open_lState => g.lState_match \in {"prefix", "suffix"}
    BY <1>4, <2>1 DEF OpenLua
  <2>4. lua' = IF g.open_lState /\ g.lState_match # "other"
               THEN g.lState_match ELSE NULL
    BY <1>4 DEF OpenLua
  <2>. QED
    BY <2>2, <2>3, <2>4 DEF StartInv
<1>5. CASE HttpStart
  BY <1>5 DEF HttpStart, StartInv
<1>6. CASE UNCHANGED hostVars
  BY <1>6 DEF hostVars, StartInv
<1>7. CASE hostpc = "serving" /\ Crash
  BY <1>7 DEF Crash, StartInv
<1>8. HostNext \/ UNCHANGED hostVars \/ (hostpc = "serving" /\ Crash)
  <2>1. CASE Dispatch
    <3>1. hostpc = "serving"
      BY <2>1 DEF Dispatch
    <3>. QED
      BY <2>1, <3>1, DispatchStep
  <2>2. ASSUME NEW u \in Uris, Request(u)
        PROVE  UNCHANGED hostVars
    BY <2>2 DEF Request
  <2>3. CASE RewriteUri \/ Return \/ UNCHANGED rtVars
    BY <2>3 DEF RewriteUri, Return, rtVars
  <2>. QED
    BY <2>1, <2>2, <2>3 DEF RtNext
<1>. QED
  BY <1>1, <1>2, <1>3, <1>4, <1>5, <1>6, <1>7, <1>8 DEF HostNext

LEMMA StartInvariant == RtSpec => [](RtTypeOK /\ StartInv)
<1>1. RtInit => StartInv
  BY DEF RtInit, HostInitial, StartInv
<1>. QED
  BY <1>1, TypeInvariant, StartStep, PTL DEF RtSpec

(***************************************************************************)
(* A server that runs serves a native application exactly when the         *)
(* settings name one, and matches the URIs of each application as they     *)
(* say, whatever the settings file left out (load_conf.c, asteroid.c).     *)
(***************************************************************************)
THEOREM ServersConfigured == RtSpec => []Configured
<1>1. RtTypeOK /\ StartInv => Configured
  <2>. SUFFICES ASSUME RtTypeOK, StartInv, hostpc = "serving"
                PROVE  /\ mode \in {"FULL_ON", "WITH_NAV"} <=> config.native_lib # NULL
                       /\ config.native_lib # NULL =>
                              native.match = config.native_match /\ native.match # NULL
                       /\ mode \in {"FULL_ON", "WITH_LUA"} =>
                              lua = config.lState_match /\ lua # NULL
    BY DEF Configured
  <2>1. g = Loaded(config) /\ config \in Config
    BY ConfigsAssumption DEF StartInv, RtTypeOK, HostTypeOK
  <2>2. mode = IF g.open_native
               THEN IF g.open_lState THEN "FULL_ON" ELSE "WITH_NAV"
               ELSE IF g.open_lState THEN "WITH_LUA" ELSE "ORIGINAL"
    BY DEF StartInv
  <2>3. /\ g.open_native => native.match = g.native_match /\ native.match # NULL
        /\ g.open_lState => lua = g.lState_match /\ lua # NULL
        /\ g.port # NULL
    BY DEF StartInv
  <2>. QED
    BY <2>1, <2>2, <2>3, LoadedSettings
<1>. QED
  BY <1>1, StartInvariant, PTL

-----------------------------------------------------------------------------
(***************************************************************************)
(* The native application first: the mode no longer changes once requests  *)
(* are routed.                                                             *)
(***************************************************************************)
FirstInv ==
    /\ passes # <<>> => hostpc \in {"serving", "crashed"}
    /\ NativeFirst

LEMMA FirstStep ==
    RtTypeOK /\ FirstInv /\ [RtNext]_rtVars => FirstInv'
<1>. SUFFICES ASSUME RtTypeOK, FirstInv, [RtNext]_rtVars PROVE FirstInv'
  OBVIOUS
<1>0. passes \in Seq([app : {"native", "lua", "file"}, uri : Uris])
  BY DEF RtTypeOK
<1>1. CASE HostNext /\ UNCHANGED routerVars
  <2>1. hostpc \notin {"serving", "crashed"}
    BY <1>1 DEF HostNext, LoadConf, ChooseMode, OpenNative, OpenLua, HttpStart
  <2>2. passes = <<>> /\ passes' = <<>>
    BY <1>1, <2>1 DEF FirstInv, routerVars
  <2>. QED
    BY <2>2 DEF FirstInv, NativeFirst
<1>2. ASSUME NEW u \in Uris, Request(u)
      PROVE  FirstInv'
  BY <1>2 DEF FirstInv, NativeFirst, Request
<1>3. CASE Dispatch
  <2>1. CASE Crash
    BY <2>1 DEF Crash, FirstInv, NativeFirst, routerVars
  <2>2. CASE ~Crash
    <3>1. /\ passes' = Append(passes, [app |-> Route(uri), uri |-> uri])
          /\ hostpc' = "serving" /\ mode' = mode
      BY <1>3, <2>2, DispatchStep DEF Dispatch, hostVars
    <3>2. Route(uri) # "crash"
      BY <1>3, <2>2 DEF Dispatch
    <3>3. mode # "ORIGINAL" /\ uri \in NativeUris => Route(uri) = "native"
      BY <3>2 DEF Route, RtTypeOK, HostTypeOK
    <3>4. /\ DOMAIN passes' = 1..Len(passes) + 1
          /\ DOMAIN passes = 1..Len(passes)
          /\ passes'[Len(passes) + 1] = [app |-> Route(uri), uri |-> uri]
          /\ \A k \in 1..Len(passes) : passes'[k] = passes[k]
      BY <1>0, <3>1
    <3>5. NativeFirst'
      <4>. SUFFICES ASSUME mode # "ORIGINAL", NEW k \in 1..Len(passes) + 1,
                           passes'[k].uri \in NativeUris
                    PROVE  passes'[k].app = "native"
        BY <3>1, <3>4 DEF NativeFirst
      <4>1. CASE k = Len(passes) + 1
        BY <4>1, <3>3, <3>4
      <4>2. CASE k \in 1..Len(passes)
        BY <4>2, <3>4 DEF FirstInv, NativeFirst
      <4>. QED  BY <1>0, <4>1, <4>2
    <3>. QED
      BY <3>1, <3>5 DEF FirstInv
  <2>. QED  BY <2>1, <2>2
<1>4. CASE RewriteUri \/ Return
  BY <1>4 DEF FirstInv, NativeFirst, RewriteUri, Return, hostVars
<1>5. CASE UNCHANGED rtVars
  BY <1>5 DEF FirstInv, NativeFirst, rtVars, routerVars, hostVars
<1>. QED
  BY <1>1, <1>2, <1>3, <1>4, <1>5 DEF RtNext

(***************************************************************************)
(* A URI that the native keyword matches goes to the native application.   *)
(***************************************************************************)
THEOREM NativeComesFirst == RtSpec => []NativeFirst
<1>1. RtInit => FirstInv
  BY DEF RtInit, FirstInv, NativeFirst
<1>2. FirstInv => NativeFirst
  BY DEF FirstInv
<1>. QED
  BY <1>1, <1>2, TypeInvariant, FirstStep, PTL DEF RtSpec

(***************************************************************************)
(* A request is dispatched on its own, and the native application is asked *)
(* first.                                                                  *)
(***************************************************************************)
THEOREM EachDispatched == RtSpec => []Dispatched
<1>1. OwnUriOnly /\ OneRewrite /\ NativeFirst => Dispatched
  BY DEF Dispatched
<1>. QED
  BY <1>1, OwnUris, RewritesOnce, NativeComesFirst, PTL

-----------------------------------------------------------------------------
\* What load_conf makes of complete settings: no application, or both with
\* all they need.
LEMMA CompleteLoaded ==
    ASSUME NEW c \in Config, Complete(c)
    PROVE  /\ Loaded(c).port # NULL
           /\ \/ ~Loaded(c).open_native /\ ~Loaded(c).open_lState
              \/ /\ Loaded(c).open_native /\ Loaded(c).open_lState
                 /\ c.opens /\ c.symbol
                 /\ Loaded(c).native_match \in {"prefix", "suffix"}
                 /\ Loaded(c).lState_match \in {"prefix", "suffix"}
                 /\ Loaded(c).native_keyword # NULL
                 /\ Loaded(c).lState_keyword # NULL
                 /\ Loaded(c).index_files # NULL
<1>1. c.readable /\ c.port # NULL
  BY DEF Complete
<1>2. CASE c.native_lib = NULL
  BY <1>1, <1>2 DEF Loaded, OpensLua
<1>3. CASE c.native_lib # NULL
  <2>1. /\ c.opens /\ c.symbol
        /\ c.native_match \in {"prefix", "suffix"}
        /\ c.lState_match \in {"prefix", "suffix"}
        /\ c.native_keyword # NULL /\ c.lState_keyword # NULL
        /\ c.lState_home # NULL /\ c.index_files # NULL
    BY <1>3 DEF Complete
  <2>. QED
    BY <1>1, <1>3, <2>1 DEF Loaded, OpensLua
<1>. QED
  BY <1>2, <1>3

(***************************************************************************)
(* The strengthening of CompleteServes: once the native application is     *)
(* open, its handler is the symbol that was looked up.                     *)
(***************************************************************************)
ServesInv ==
    /\ CompleteServes
    /\ hostpc \in {"lua", "bind", "serving"} /\ g.open_native
          /\ config.opens /\ config.symbol => native.handler # NULL

\* With complete settings no request meets a null pointer.
LEMMA NoCrash ==
    ASSUME RtTypeOK, StartInv, ServesInv, Complete(config), Dispatch
    PROVE  ~Crash
<1>1. hostpc = "serving" /\ g = Loaded(config) /\ config \in Config
  BY ConfigsAssumption DEF Dispatch, StartInv, RtTypeOK, HostTypeOK
<1>2. mode = IF g.open_native
             THEN IF g.open_lState THEN "FULL_ON" ELSE "WITH_NAV"
             ELSE IF g.open_lState THEN "WITH_LUA" ELSE "ORIGINAL"
  BY <1>1 DEF StartInv
<1>3. Route(uri) # "crash"
      /\ (Route(uri) = "native" => native.handler # NULL)
  <2>1. CASE ~g.open_native /\ ~g.open_lState
    <3>1. mode = "ORIGINAL"
      BY <1>2, <2>1
    <3>2. Route(uri) = "file"
      BY <3>1 DEF Route
    <3>. QED
      BY <3>2
  <2>2. CASE /\ g.open_native /\ g.open_lState /\ config.opens /\ config.symbol
             /\ g.native_keyword # NULL /\ g.lState_keyword # NULL
             /\ g.index_files # NULL
    <3>1. mode = "FULL_ON"
      BY <1>2, <2>2
    <3>2. FileOrIndex(uri) # "crash"
      BY <2>2 DEF FileOrIndex
    <3>3. Route(uri) # "crash"
      BY <2>2, <3>1, <3>2 DEF Route
    <3>. QED
      BY <1>1, <2>2, <3>3 DEF ServesInv
  <2>. QED
    BY <1>1, <2>1, <2>2, CompleteLoaded
<1>4. ~(Route(uri) = "crash" \/ (Route(uri) = "native" /\ native.handler = NULL))
  BY <1>3
<1>5. at' = "rewrite" /\ at = "route"
  BY <1>4 DEF Dispatch
<1>. QED
  BY <1>5 DEF Crash, routerVars

LEMMA ServesStep ==
    RtTypeOK /\ StartInv /\ ServesInv /\ [RtNext]_rtVars => ServesInv'
<1>. SUFFICES ASSUME RtTypeOK, StartInv, ServesInv, [RtNext]_rtVars PROVE ServesInv'
  OBVIOUS
<1>0. config \in Config
  BY ConfigsAssumption DEF RtTypeOK, HostTypeOK
<1>1. CASE LoadConf
  BY <1>1 DEF LoadConf, ServesInv, CompleteServes, Complete
<1>2. CASE ChooseMode
  BY <1>2 DEF ChooseMode, ServesInv, CompleteServes, Complete
<1>3. CASE OpenNative
  <2>1. hostpc = "native" /\ config' = config /\ g' = g /\ g = Loaded(config)
    BY <1>3 DEF OpenNative, StartInv
  <2>2. Complete(config) =>
            hostpc' = "lua"
    <3>1. CASE ~g.open_native
      BY <1>3, <3>1 DEF OpenNative
    <3>2. CASE g.open_native /\ config.opens
               /\ g.native_match \in {"prefix", "suffix"}
      BY <1>3, <3>2 DEF OpenNative
    <3>. QED
      BY <1>0, <2>1, <3>1, <3>2, CompleteLoaded
  <2>3. g.open_native /\ config.opens /\ config.symbol => native'.handler # NULL
    BY <1>3 DEF OpenNative
  <2>. QED
    BY <2>1, <2>2, <2>3 DEF ServesInv, CompleteServes
<1>4. CASE OpenLua
  <2>1. /\ hostpc = "lua" /\ UNCHANGED <<config, g, native>>
        /\ g = Loaded(config)
    BY <1>4 DEF OpenLua, StartInv
  <2>2. Complete(config) => hostpc' = "bind"
    <3>1. CASE ~g.open_lState
      BY <1>4, <3>1 DEF OpenLua
    <3>2. CASE g.open_lState /\ g.lState_match \in {"prefix", "suffix"}
      BY <1>4, <3>2 DEF OpenLua
    <3>. QED
      BY <1>0, <2>1, <3>1, <3>2, CompleteLoaded
  <2>. QED
    BY <2>1, <2>2 DEF ServesInv, CompleteServes
<1>5. CASE HttpStart
  <2>1. /\ hostpc = "bind" /\ UNCHANGED <<config, g, native>>
        /\ g = Loaded(config)
    BY <1>5 DEF HttpStart, StartInv
  <2>2. Complete(config) => hostpc' = "serving"
    <3>1. Complete(config) => g.port # NULL /\ config.bindable
      BY <1>0, <2>1, CompleteLoaded DEF Complete
    <3>. QED
      BY <1>5, <3>1 DEF HttpStart
  <2>. QED
    BY <2>1, <2>2 DEF ServesInv, CompleteServes
<1>6. CASE UNCHANGED hostVars
  BY <1>6 DEF hostVars, ServesInv, CompleteServes, Complete
<1>7. CASE Dispatch
  <2>1. CASE Crash
    <3>1. ~Complete(config)
      BY <1>7, <2>1, NoCrash
    <3>2. hostpc' = "crashed" /\ UNCHANGED <<config, g, native>>
      BY <2>1 DEF Crash
    <3>. QED
      BY <3>1, <3>2 DEF ServesInv, CompleteServes
  <2>2. CASE ~Crash
    BY <1>6, <1>7, <2>2, DispatchStep
  <2>. QED
    BY <2>1, <2>2
<1>8. HostNext \/ UNCHANGED hostVars \/ Dispatch
  BY DEF RtNext, Request, RewriteUri, Return, rtVars
<1>. QED
  BY <1>1, <1>2, <1>3, <1>4, <1>5, <1>6, <1>7, <1>8 DEF HostNext

(***************************************************************************)
(* A server given every setting, or only a port, starts and never follows  *)
(* a null pointer, whatever the native handler does.                       *)
(***************************************************************************)
THEOREM CompleteAlwaysServes == RtSpec => []CompleteServes
<1>1. RtInit => ServesInv
  BY DEF RtInit, HostInitial, ServesInv, CompleteServes
<1>2. ServesInv => CompleteServes
  BY DEF ServesInv
<1>. QED
  BY <1>1, <1>2, StartInvariant, ServesStep, PTL DEF RtSpec
=============================================================================
