------------------------------- MODULE Socks -------------------------------
(***************************************************************************)
(* A connection through a SOCKS5 proxy, with the library at both ends of   *)
(* it (mongoose.c: the socks interface and the socks protocol): the        *)
(* application's connection "c" and "s", its connection to the proxy, in   *)
(* one program; "p", which the proxy accepted, and "q", its connection to  *)
(* the target, in another.  What one end sends is in its send buffer until *)
(* the other end reads it, any part at a time.                             *)
(*                                                                         *)
(* Each message of the handshake is two units, which may come apart.       *)
(***************************************************************************)
EXTENDS Naturals, Sequences, SequencesExt

CONSTANTS SoOut,    \* how much the application sends
          SoBack    \* how much the target sends

ASSUME SoAssumption == SoOut \in Nat /\ SoBack \in Nat

VARIABLE so

soVars == so

Ends == {"c", "s", "p", "q"}
Hello == <<"hello", "methods">>
Chosen(ok) == <<"version", IF ok THEN "no auth" ELSE "failure">>
Request == <<"request", "address">>
Result(ok) == <<IF ok THEN "success" ELSE "not supported", "bound">>

\* version, auth and command are whether the other end speaks what this library does: for an
\* application or a proxy that is not this library they may be FALSE.
SoInit ==
    \E version \in BOOLEAN, auth \in BOOLEAN, command \in BOOLEAN :
        so = [version |-> version, auth |-> auth, command |-> command,
              state |-> [e \in Ends |-> CASE e = "c" -> "open" [] e = "s" -> "connecting"
                                          [] e = "p" -> "open" [] e = "q" -> "none"],
              mark |-> [e \in Ends |-> "none"],
              send |-> [e \in Ends |-> <<>>], recv |-> [e \in Ends |-> <<>>],
              hello |-> [e \in Ends |-> FALSE], done |-> [e \in Ends |-> FALSE],
              linked |-> TRUE, relay |-> FALSE, tmp |-> <<>>,
              out |-> 0, back |-> 0, got |-> <<>>, over |-> FALSE]

Mark(x, es, m) == [x EXCEPT !.mark = [e \in Ends |-> IF e \in es /\ @[e] # "now" THEN m ELSE @[e]]]
Send(x, e, data) == [x EXCEPT !.send[e] = @ \o data]

\* socks_if_disband: linked is d->c and d->s being set.
IfDisband(x) == IF x.linked THEN [Mark(x, {"c", "s"}, "sent") EXCEPT !.linked = FALSE] ELSE x

\* Mutant: the other connection is closed with what it has still to send.
DisbandAtOnce(x, e) == [Mark(x, IF x.relay THEN {"p", "q"} ELSE {e}, "now") EXCEPT !.relay = FALSE]

\* disband: relay is user_data of "p" and "q" being set.
Disband(x, e) == [Mark(x, IF x.relay THEN {"p", "q"} ELSE {e}, "sent") EXCEPT !.relay = FALSE]

\* relay_data
RelayData(x, e, other) ==
    IF x.relay THEN [Send(x, other, x.recv[e]) EXCEPT !.recv[e] = <<>>] ELSE Mark(x, {e}, "sent")

-----------------------------------------------------------------------------
(* The application's side.                                                  *)

\* mg_socks_if_tcp_send: kept in tmp until the proxy has connected.
TcpSend(x, data) ==
    IF x.done["s"] THEN [Send(x, "s", x.tmp \o data) EXCEPT !.tmp = <<>>] ELSE [x EXCEPT !.tmp = @ \o data]

SoAppSends ==
    /\ so.state["c"] = "open" /\ so.mark["c"] = "none" /\ so.linked /\ so.out < SoOut
    /\ so' = TcpSend([so EXCEPT !.out = @ + 1], <<so.out + 1>>)

\* socks_if_handler, MG_EV_CONNECT
SoConnect ==
    /\ so.state["s"] = "connecting"
    /\ \/ so' = Send([so EXCEPT !.state["s"] = "open"], "s", Hello)
       \/ so' = Mark([so EXCEPT !.state["s"] = "failed"], {"c", "s"}, "now")

\* socks_if_handler, MG_EV_RECV: each step is taken when what it waits for is here.
IfHello(x) ==
    IF x.hello["s"] \/ Len(x.recv["s"]) < 2 THEN x
    ELSE IF x.recv["s"][2] = "failure" THEN IfDisband(x)
    ELSE Send([x EXCEPT !.recv["s"] = SubSeq(@, 3, Len(@)), !.hello["s"] = TRUE], "s", Request)

IfResult(x) ==
    IF ~x.hello["s"] \/ x.done["s"] \/ Len(x.recv["s"]) < 2 THEN x
    ELSE IF x.recv["s"][1] # "success" THEN IfDisband(x)
    ELSE LET y == [x EXCEPT !.recv["s"] = SubSeq(@, 3, Len(@)), !.done["s"] = TRUE]
         IN  IF y.linked THEN [Send(y, "s", y.tmp) EXCEPT !.tmp = <<>>] ELSE y

IfRelay(x) ==
    IF x.done["s"] /\ x.linked THEN [x EXCEPT !.recv["c"] = @ \o x.recv["s"], !.recv["s"] = <<>>] ELSE x

-----------------------------------------------------------------------------
(* The proxy.                                                               *)

\* mg_socks5_handshake: the first unit tells the version, a greeting is whole with its methods, and the
\* refusal of all of these ends the handshake as well.
Handshake(x) ==
    IF x.hello["p"] \/ Len(x.recv["p"]) = 0 THEN x
    ELSE IF ~x.version THEN Mark(x, {"p"}, "now")
    ELSE IF Len(x.recv["p"]) < 2 THEN x
    ELSE Send([x EXCEPT !.recv["p"] = SubSeq(@, 3, Len(@)), !.hello["p"] = TRUE], "p", Chosen(x.auth))

\* mg_socks5_handle_request: the answer does not wait for the connection to the target.
HandleRequest(x) ==
    IF ~x.hello["p"] \/ x.done["p"] \/ Len(x.recv["p"]) < 2 THEN x
    ELSE LET y == [x EXCEPT !.recv["p"] = SubSeq(@, 3, Len(@)), !.done["p"] = TRUE]
         IN  Send(IF x.command THEN [y EXCEPT !.state["q"] = "connecting", !.relay = TRUE] ELSE y,
                  "p", Result(x.command))

\* socks_handler, MG_EV_RECV
SocksRecv(x) ==
    LET y == HandleRequest(Handshake(x))
    IN  IF y.done["p"] THEN RelayData(y, "p", "q") ELSE y

\* serv_ev_handler, MG_EV_CONNECT: an error closes the connection.
SoServes ==
    /\ so.state["q"] = "connecting"
    /\ \/ so' = [so EXCEPT !.state["q"] = "open"]
       \/ so' = Mark([so EXCEPT !.state["q"] = "failed"], {"q"}, "now")

-----------------------------------------------------------------------------
(* Data moves, and connections end.                                         *)

Peer(e) == CASE e = "s" -> "p" [] e = "p" -> "s"
Readable(e) == so.state[e] = "open" /\ so.mark[e] # "now"

\* One end of the connection between the programs reads some of what the other has sent.
SoMoves ==
    \E e \in {"s", "p"} : \E n \in 1..Len(so.send[Peer(e)]) :
        /\ Readable(e)
        /\ LET x == [so EXCEPT !.recv[e] = @ \o SubSeq(so.send[Peer(e)], 1, n),
                               !.send[Peer(e)] = SubSeq(@, n + 1, Len(@))]
           IN  so' = IF e = "s" THEN IfRelay(IfResult(IfHello(x))) ELSE SocksRecv(x)

\* The target reads, sends, and may end the connection when it has sent everything.
SoTarget ==
    /\ Readable("q")
    /\ \/ \E n \in 1..Len(so.send["q"]) :
            so' = [so EXCEPT !.got = @ \o SubSeq(so.send["q"], 1, n), !.send["q"] = SubSeq(@, n + 1, Len(@))]
       \/ /\ so.back < SoBack
          /\ so' = RelayData([so EXCEPT !.back = @ + 1, !.recv["q"] = @ \o <<so.back + 1>>], "q", "p")
       \/ so.back = SoBack /\ ~so.over /\ so' = Mark([so EXCEPT !.over = TRUE], {"q"}, "now")

\* The loop closes a marked connection, and one whose other end has been closed and read; what was still to be
\* sent is lost, but for what the system has taken.  Handlers have MG_EV_CLOSE.
SoCloses ==
    \E e \in {"s", "p", "q"} : \E n \in 0..Len(so.send[e]) :
        /\ so.state[e] \in {"connecting", "open", "failed"}
        /\ \/ so.mark[e] = "now"
           \/ so.mark[e] = "sent" /\ n = Len(so.send[e])
           \/ e # "q" /\ so.state[Peer(e)] = "gone" /\ so.send[Peer(e)] = <<>>
        /\ LET x == [so EXCEPT !.state[e] = "gone", !.send[e] = SubSeq(@, 1, n)]
           IN  so' = IF e = "s" THEN IfDisband(x) ELSE Disband(x, e)

SoNext == SoAppSends \/ SoConnect \/ SoServes \/ SoMoves \/ SoTarget \/ SoCloses

SoSpec == SoInit /\ [][SoNext]_soVars

-----------------------------------------------------------------------------
\* Properties.

SoTypeOK ==
    /\ \A e \in Ends : so.state[e] \in {"none", "connecting", "open", "failed", "gone"}
    /\ \A e \in Ends : so.mark[e] \in {"none", "sent", "now"}
    /\ so.out \in 0..SoOut /\ so.back \in 0..SoBack

Counted(n) == [i \in 1..n |-> i]

\* What the application sends reaches the target in order, from before the proxy was connected on, and
\* nothing of the handshake gets between; and the other way round (mongoose.c:4116-4139, 12894).
InOrderRelayed ==
    /\ IsPrefix(so.got, Counted(so.out))
    /\ IsPrefix(so.recv["c"], Counted(so.back))

\* A target that says what it has to say and ends is heard to the end before the application's connection is marked to be
\* closed, through the two closings between them (mongoose.c:12883, 4074).
HeardOut ==
    so.over /\ so.mark["c"] # "none" => so.recv["c"] = Counted(SoBack)

\* When nothing more is to come, no connection of the chain is left open without the next one.
NoOneLeft ==
    /\ so.state["s"] = "gone" => so.mark["c"] # "none"
    /\ so.state["q"] = "gone" => so.mark["p"] # "none" \/ so.state["p"] = "gone"

Relayed == InOrderRelayed /\ HeardOut /\ NoOneLeft
=============================================================================
