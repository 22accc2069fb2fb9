-------------------------------- MODULE Sntp --------------------------------
(***************************************************************************)
(* Asking a time server (mongoose.c: mg_sntp_get_time and the handlers     *)
(* behind it) over a network that loses, delays and repeats datagrams:     *)
(* the application is told the time, or that there is none.                *)
(***************************************************************************)
EXTENDS Naturals, Sequences, SequencesExt

CONSTANTS SnAttempts,   \* SNTP_ATTEMPTS
          SnTimeout,    \* seconds between requests
          SnDatagrams,  \* what may come back: [len, version, mode]
          SnReplies     \* how many datagrams come at most

ASSUME SnAssumption == SnAttempts \in Nat /\ SnTimeout \in Nat \ {0} /\ SnReplies \in Nat

VARIABLE sn

snVars == sn

\* timer is the time left, 0 when there is none; here are the datagrams in the socket.
SnInit == sn = [state |-> "connecting", count |-> 0, sent |-> 0, timer |-> 0, due |-> FALSE,
                here |-> <<>>, came |-> 0, told |-> <<>>]

SnTold(s, ev) == [s EXCEPT !.told = Append(@, ev)]
SnClosing(s) == [s EXCEPT !.state = "closing"]

\* mg_sntp_util_ev_handler, MG_EV_TIMER and, after a connect, MG_EV_CONNECT.
Attempt(s) ==
    IF s.count <= SnAttempts
    THEN [s EXCEPT !.count = @ + 1, !.sent = @ + 1, !.timer = SnTimeout]
    ELSE SnClosing(SnTold(s, "MG_SNTP_FAILED"))

\* mg_sntp_parse_reply: whether it is the answer of a server of this version.
Valid(d) == d.len >= 48 /\ d.version = 4 /\ d.mode \in {4, 5}

\* mg_sntp_handler, MG_EV_RECV, and what mg_sntp_util_ev_handler does with its events.
SnAnswer(s, d) == SnClosing(SnTold(s, IF Valid(d) THEN "MG_SNTP_REPLY" ELSE "MG_SNTP_FAILED"))

\* The outcome of resolving the name and connecting; an error closes the connection.
SnConnect ==
    /\ sn.state = "connecting"
    /\ \/ sn' = Attempt([sn EXCEPT !.state = "open"])
       \/ sn' = SnClosing(SnTold(sn, "MG_SNTP_FAILED"))

\* Mutant: a timer is handled on a connection that is to be closed.
Timers(s) == IF s.due THEN Attempt([s EXCEPT !.due = FALSE]) ELSE s

\* The last part of mg_mgr_handle_conn: nothing more happens to a connection that a
\* handler has marked.
Timer(s) == IF s.due /\ s.state = "open" THEN Attempt([s EXCEPT !.due = FALSE]) ELSE s

\* One visit of the loop: at most one datagram is read, then the timer is looked at.
SnVisit ==
    /\ sn.state = "open" /\ (sn.here # <<>> \/ sn.due)
    /\ sn' = Timer(IF sn.here = <<>> THEN sn ELSE SnAnswer([sn EXCEPT !.here = Tail(@)], sn.here[1]))

SnTick ==
    /\ sn.state = "open" /\ sn.timer > 0
    /\ sn' = [sn EXCEPT !.timer = @ - 1, !.due = @ \/ sn.timer = 1]

\* A datagram comes from the server, at any time after a request.
SnArrives ==
    /\ sn.state = "open" /\ sn.sent > 0 /\ sn.came < SnReplies
    /\ \E d \in SnDatagrams : sn' = [sn EXCEPT !.here = Append(@, d), !.came = @ + 1]

\* MG_EV_CLOSE: what was kept for the application's handler is freed.
SnClose == sn.state = "closing" /\ sn' = [sn EXCEPT !.state = "gone", !.here = <<>>]

SnNext == SnConnect \/ SnVisit \/ SnTick \/ SnArrives \/ SnClose

SnSpec == SnInit /\ [][SnNext]_snVars

-----------------------------------------------------------------------------
\* Properties.

SnTypeOK ==
    /\ sn.state \in {"connecting", "open", "closing", "gone"}
    /\ sn.timer \in 0..SnTimeout /\ sn.came \in 0..SnReplies /\ Len(sn.here) <= SnReplies

\* The application is told one thing, whenever datagrams come and timers are due, and something
\* before the connection is gone; the server is not asked after that (mongoose.c:12777-12812).
SntpOnce ==
    /\ Len(sn.told) = IF sn.state \in {"closing", "gone"} THEN 1 ELSE 0
    /\ sn.sent <= SnAttempts + 1
    /\ sn.told = <<"MG_SNTP_REPLY">> => sn.sent > 0
=============================================================================
