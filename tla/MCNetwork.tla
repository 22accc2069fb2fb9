----------------------------- MODULE MCNetwork -----------------------------
(***************************************************************************)
(* The event loop, name resolution and linked connections, side by side:   *)
(* a behaviour is one of the parts at work and the others at rest.         *)
(***************************************************************************)
EXTENDS EventLoop, Resolver, Links

CONSTANT Parts

VARIABLE part

vars == <<part, evVars, rsVars, lkVars>>

Init ==
    /\ part \in Parts /\ EvInit /\ RsInit /\ LkInit
    /\ part # "loop" => conn[1].kind = "tcp"
    /\ part # "links" => mode = "cgi" /\ far.ok /\ far.size = 0 /\ back.send = 0

InLoop(A) == part = "loop" /\ A /\ UNCHANGED <<part, rsVars, lkVars>>
InResolver(A) == part = "resolver" /\ A /\ UNCHANGED <<part, evVars, lkVars>>
InLinks(A) == part = "links" /\ A /\ UNCHANGED <<part, evVars, rsVars>>

Next == InLoop(EvNext) \/ InResolver(RsNext) \/ InLinks(LkNext)

\* The program polls forever and comes to every connection in each round; the system
\* answers a connect() in the end; time goes on; a program that was started says what
\* it has to say and ends, and so does a server as long as it speaks.
Fair ==
    /\ WF_vars(InLoop(Loop) \/ InResolver(LoopOnDns) \/ InLinks(LkCloses))
    /\ WF_vars(InLoop(Network) \/ InResolver(Tick) \/ InLinks(LkFar))
    /\ SF_vars(InLinks(LkEvents))

Spec == Init /\ [][Next]_vars
FairSpec == Spec /\ Fair

\* Every variable of the three parts stays in its domain.
TypeOK == EvTypeOK /\ RsTypeOK /\ LkTypeOK

\* In the end nothing is left undone, in the part that is at work: connections that
\* are to be closed are closed, timers that are due fire and connects have an outcome;
\* a name is resolved or its connection is gone; the client of a program or of another
\* server is not left waiting (mg_socket_if_poll, mg_resolve_async_eh, mg_cgi_ev_handler).
Settles == <>[](/\ part = "loop" => EvSettled
                /\ part = "resolver" => RsSettled
                /\ part = "links" => LkSettled)
=============================================================================
