--------------------------- MODULE MCApplication ---------------------------
(***************************************************************************)
(* The application above mongoose: start-up and dispatch of requests       *)
(* (Router), and the Lua handler that requests are dispatched to           *)
(* (LuaBridge).  A behaviour is one of the two at work and the other at    *)
(* rest: dispatch calls a handler and waits for it, and they share no      *)
(* variable.                                                               *)
(***************************************************************************)
EXTENDS Router, LuaBridge, TLC

CONSTANTS
    Parts,          \* "server", "scripts" or both
    r1, r2, c1, c2

VARIABLE part

vars == <<part, rtVars, lbVars>>

\* A URI that both keywords match, one for each of them, "/", and a file.
MCUris == {"both", "native", "script", "root", "page"}
MCNativeUris == {"both", "native"}
MCLuaUris == {"both", "script"}

\* Two requests on two connections.
MCRequests == {r1, r2}
MCConns == {c1, c2}
MCConnOf == (r1 :> c1) @@ (r2 :> c2)

AnyConfig == CHOOSE c \in Configs : TRUE

\* A part at rest is in one of its initial states.
Init ==
    /\ part \in Parts
    /\ RtInit /\ (part # "server" => config = AnyConfig)
    /\ LbInit /\ (part # "scripts" => acceptHook = "none" /\ finishedHook = "none")

Next ==
    /\ \/ part = "server" /\ RtNext /\ UNCHANGED lbVars
       \/ part = "scripts" /\ LbNext /\ UNCHANGED rtVars
    /\ UNCHANGED part

Spec == Init /\ [][Next]_vars
=============================================================================
