------------------------------ MODULE HostInit ------------------------------
(***************************************************************************)
(* Start-up: load_conf reads the settings (load_conf.c), host_init derives *)
(* the mode and the pointers from them and asteroid_http_start binds the   *)
(* port (asteroid.c).  host_init ignores what load_conf returns, so an     *)
(* incomplete file leaves the globals half set and start-up goes on.       *)
(*                                                                         *)
(* A setting is abstracted to whether it is there, and to the values the   *)
(* code tells apart.                                                       *)
(***************************************************************************)
EXTENDS Naturals

CONSTANT Configs    \* the configuration files, with their surroundings

NULL == "NULL"

Config == [
    readable : BOOLEAN,             \* fopen succeeds
    port : {NULL, "port"},
    bindable : BOOLEAN,             \* mg_bind can listen on the port
    native_lib : {NULL, "lib"},
    opens : BOOLEAN,                \* dlopen of native_lib succeeds
    symbol : BOOLEAN,               \* it has asteroid_native_http_request
    native_match : {NULL, "prefix", "suffix", "other"},
    native_keyword : {NULL, "keyword"},
    lState_match : {NULL, "prefix", "suffix", "other"},
    lState_keyword : {NULL, "keyword"},
    lState_home : {NULL, "home"},
    index_files : {NULL, "native", "other"}]

ASSUME ConfigsAssumption == Configs \subseteq Config

VARIABLES
    config,     \* the configuration this run of the server is given
    g,          \* the globals of asteroid.c, handler.c and lstate.c
    mode,       \* cfg_asteroid_http_mode
    native,     \* native_match and the native handler, once set
    lua,        \* lState_match, once set
    hostpc      \* how far start-up has come, or how it ended

hostVars == <<config, g, mode, native, lua, hostpc>>

Modes == {"ORIGINAL", "FULL_ON", "WITH_NAV", "WITH_LUA"}
Ended == {"exit_config", "exit_load_so", "exit_listener", "crashed"}

HostInitial ==
    /\ config \in Configs
    /\ g = [port |-> NULL, open_native |-> FALSE, native_lib |-> NULL,
            native_match |-> NULL, native_keyword |-> NULL,
            open_lState |-> FALSE, lState_match |-> NULL,
            lState_keyword |-> NULL, lState_home |-> NULL,
            index_files |-> NULL]
    /\ mode = "ORIGINAL"
    /\ native = [match |-> NULL, handler |-> NULL]
    /\ lua = NULL
    /\ hostpc = "load"

-----------------------------------------------------------------------------
(***************************************************************************)
(* load_conf.  Each setting is read only if no earlier one made the        *)
(* function return; the ones not read keep their initial value.  Whether   *)
(* Lua is opened is decided by cfg_native_match (load_conf.c:74).          *)
(***************************************************************************)
\* Mutant of OpensLua: the test names the Lua setting.
OpensLuaOwnMatch(c) == c.lState_match # NULL

OpensLua(c) == c.native_lib # NULL /\ c.native_match # NULL

Loaded(c) ==
    LET started     == c.readable /\ c.port # NULL
        open_native == started /\ c.native_lib # NULL
        nativeDone  == started /\ (open_native => /\ c.native_match # NULL
                                                  /\ c.native_keyword # NULL)
        open_lState == nativeDone /\ OpensLua(c)
        luaDone     == nativeDone /\ (open_lState => c.lState_home # NULL)
    IN  [port           |-> IF c.readable THEN c.port ELSE NULL,
         open_native    |-> open_native,
         native_lib     |-> IF started THEN c.native_lib ELSE NULL,
         native_match   |-> IF open_native THEN c.native_match ELSE NULL,
         native_keyword |-> IF open_native /\ c.native_match # NULL
                            THEN c.native_keyword ELSE NULL,
         open_lState    |-> open_lState,
         lState_match   |-> IF nativeDone THEN c.lState_match ELSE NULL,
         lState_keyword |-> IF open_lState THEN c.lState_keyword ELSE NULL,
         lState_home    |-> IF open_lState THEN c.lState_home ELSE NULL,
         index_files    |-> IF luaDone THEN c.index_files ELSE NULL]

LoadConf ==
    /\ hostpc = "load"
    /\ g' = Loaded(config)
    /\ hostpc' = "mode"
    /\ UNCHANGED <<config, mode, native, lua>>

\* The mode follows from which applications are open.
ChooseMode ==
    /\ hostpc = "mode"
    /\ mode' = IF g.open_native
               THEN IF g.open_lState THEN "FULL_ON" ELSE "WITH_NAV"
               ELSE IF g.open_lState THEN "WITH_LUA" ELSE "ORIGINAL"
    /\ hostpc' = "native"
    /\ UNCHANGED <<config, g, native, lua>>

\* Mutant of OpenNative: an unknown native_match is kept.
OpenNativeAnyMatch ==
    /\ hostpc = "native"
    /\ native' = [match |-> IF g.open_native THEN g.native_match ELSE NULL,
                  handler |-> IF g.open_native /\ config.opens /\ config.symbol
                              THEN "handler" ELSE NULL]
    /\ hostpc' = IF ~g.open_native \/ config.opens THEN "lua"
                 ELSE "exit_load_so"
    /\ UNCHANGED <<config, g, mode, lua>>

(***************************************************************************)
(* The native application.  strcmp with a missing native_match crashes;    *)
(* the symbol dlsym looks up may be missing, which nothing tests.          *)
(***************************************************************************)
OpenNative ==
    /\ hostpc = "native"
    /\ native' = [match |-> IF g.open_native /\ g.native_match # "other"
                            THEN g.native_match ELSE NULL,
                  handler |-> IF g.open_native /\ config.opens /\ config.symbol
                              THEN "handler" ELSE NULL]
    /\ hostpc' = CASE ~g.open_native -> "lua"
                   [] g.open_native /\ g.native_match = NULL -> "crashed"
                   [] g.open_native /\ g.native_match = "other" -> "exit_config"
                   [] g.open_native /\ g.native_match \in {"prefix", "suffix"} ->
                        IF config.opens THEN "lua" ELSE "exit_load_so"
    /\ UNCHANGED <<config, g, mode, lua>>

\* Mutant of OpenLua: an unknown lState_match does not end start-up.
OpenLuaAnyMatch ==
    /\ hostpc = "lua"
    /\ lua' = IF g.open_lState /\ g.lState_match # "other"
              THEN g.lState_match ELSE NULL
    /\ hostpc' = IF g.open_lState /\ g.lState_match = NULL
                 THEN "crashed" ELSE "bind"
    /\ UNCHANGED <<config, g, mode, native>>

\* The Lua application.  strcmp with a missing lState_match crashes.
OpenLua ==
    /\ hostpc = "lua"
    /\ lua' = IF g.open_lState /\ g.lState_match # "other"
              THEN g.lState_match ELSE NULL
    /\ hostpc' = CASE ~g.open_lState -> "bind"
                   [] g.open_lState /\ g.lState_match = NULL -> "crashed"
                   [] g.open_lState /\ g.lState_match = "other" -> "exit_config"
                   [] g.open_lState /\ g.lState_match \in {"prefix", "suffix"} ->
                        "bind"
    /\ UNCHANGED <<config, g, mode, native>>

\* mg_bind compares the port with "udp://" first, which crashes without one.
HttpStart ==
    /\ hostpc = "bind"
    /\ hostpc' = IF g.port = NULL THEN "crashed"
                 ELSE IF config.bindable THEN "serving" ELSE "exit_listener"
    /\ UNCHANGED <<config, g, mode, native, lua>>

HostNext == LoadConf \/ ChooseMode \/ OpenNative \/ OpenLua \/ HttpStart

-----------------------------------------------------------------------------
(***************************************************************************)
(* Every global is null or holds a value the code gives it.                *)
(***************************************************************************)
HostTypeOK ==
    /\ config \in Configs
    /\ g \in [port : {NULL, "port"}, open_native : BOOLEAN,
              native_lib : {NULL, "lib"},
              native_match : {NULL, "prefix", "suffix", "other"},
              native_keyword : {NULL, "keyword"}, open_lState : BOOLEAN,
              lState_match : {NULL, "prefix", "suffix", "other"},
              lState_keyword : {NULL, "keyword"},
              lState_home : {NULL, "home"},
              index_files : {NULL, "native", "other"}]
    /\ mode \in Modes
    /\ native \in [match : {NULL, "prefix", "suffix"},
                   handler : {NULL, "handler"}]
    /\ lua \in {NULL, "prefix", "suffix"}
    /\ hostpc \in Ended \union {"load", "mode", "native", "lua", "bind",
                                "serving"}

(***************************************************************************)
(* A server that runs serves a native application exactly when the         *)
(* settings name one, however the file was cut short (load_conf.c:40-85    *)
(* returns early in five places and host_init goes on), and matches the    *)
(* URIs of every application that it serves in the way the settings say;   *)
(* an unknown or missing way ends start-up (asteroid.c:76-109).  Nothing   *)
(* is said of the keywords and of the native handler, which may be missing *)
(* while requests are served: see CompleteServes of Router.                *)
(***************************************************************************)
Configured ==
    hostpc = "serving" =>
        /\ mode \in {"FULL_ON", "WITH_NAV"} <=> config.native_lib # NULL
        /\ config.native_lib # NULL =>
               native.match = config.native_match /\ native.match # NULL
        /\ mode \in {"FULL_ON", "WITH_LUA"} =>
               lua = config.lState_match /\ lua # NULL

(***************************************************************************)
(* config.lua:4-8: removing native_lib disables the native application,    *)
(* and the other native settings are ignored.  The code violates this:     *)
(* the Lua application is then disabled too (load_conf.c:59-62 and 74).    *)
(***************************************************************************)
RemovingNativeKeepsLua ==
    hostpc = "serving" /\ config.native_lib = NULL
        /\ config.lState_match # NULL /\ config.lState_keyword # NULL
        /\ config.lState_home # NULL
    => mode = "WITH_LUA"
=============================================================================
