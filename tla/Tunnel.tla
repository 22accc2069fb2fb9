------------------------------- MODULE Tunnel -------------------------------
(***************************************************************************)
(* Connections that reach a server through a dispatcher (mongoose.c: the   *)
(* tun interface and its client): streams in the frames of one WebSocket,  *)
(* which is opened again when it is lost.                                  *)
(*                                                                         *)
(* In the list of connections a dispatcher's is <<"d", k>>, the k-th one,  *)
(* and a stream's is <<"s", id>>.  Others are not there.                   *)
(***************************************************************************)
EXTENDS Naturals, Sequences, FiniteSets, SequencesExt

CONSTANTS TuIds,      \* the ids a dispatcher may give streams
          TuDials,    \* how often the dispatcher is connected to at most
          TuFrames    \* up to how many frames an application sends data on one connection

ASSUME TuAssumption == TuIds \subseteq Nat \ {0} /\ TuDials \in Nat /\ TuFrames \in Nat

VARIABLE tu

tuVars == tu

\* disp and last are the client's, timer is whether the reconnect timer is set; fresh, whether there is one
\* the loop has not come to yet; on, the dispatcher's connection a stream was opened on; frames, what
\* was sent on each of them; clash, whether the loop's next connection was closed before it.
TuInit ==
    tu = [list |-> <<>>, marked |-> {}, disp |-> 0, dials |-> 0, open |-> FALSE, fresh |-> FALSE,
          last |-> 0, timer |-> TRUE, hold |-> FALSE,
          on |-> [i \in TuIds |-> 0], frames |-> [k \in 1..TuDials |-> <<>>], clash |-> FALSE]

Live(t) == ToSet(t.list)
StreamsOf(t) == {i \in TuIds : <<"s", i>> \in Live(t)}
EndFrame(i) == [stream |-> i, end |-> TRUE]
Emit(t, f) == IF t.disp = 0 THEN t ELSE [t EXCEPT !.frames[t.disp] = Append(@, f)]

\* mg_close_conn of a stream, with mg_tun_if_destroy_conn.
CloseStream(t, i) ==
    Emit([t EXCEPT !.list = RemoveFirst(@, <<"s", i>>), !.marked = @ \ {<<"s", i>>}], EndFrame(i))

\* MG_EV_CLOSE of mg_tun_client_handler: mg_tun_close_all, then mg_tun_reconnect.
LoseDispatcher(t, k) ==
    [t EXCEPT !.list = RemoveFirst(@, <<"d", k>>),
              !.marked = (@ \ {<<"d", k>>}) \cup {<<"s", i>> : i \in StreamsOf(t)},
              !.disp = 0, !.open = FALSE, !.timer = TRUE]

-----------------------------------------------------------------------------

\* mg_tun_reconnect_ev_handler: while the application holds it back, it looks again at each poll.
TuTimer ==
    /\ tu.timer
    /\ \/ tu.hold /\ tu' = [tu EXCEPT !.hold = FALSE]
       \/ /\ ~tu.hold /\ tu.dials < TuDials
          /\ tu' = [tu EXCEPT !.timer = FALSE, !.dials = @ + 1, !.disp = tu.dials + 1, !.fresh = TRUE,
                              !.list = <<<<"d", tu.dials + 1>>>> \o @]

\* The application sets MG_F_TUN_DO_NOT_RECONNECT.
TuHold == tu.timer /\ ~tu.hold /\ tu' = [tu EXCEPT !.hold = TRUE]

\* The dispatcher accepts, or is lost, before or after that.
TuDispatcher ==
    /\ tu.disp # 0 /\ ~tu.fresh /\ <<"d", tu.disp>> \notin tu.marked
    /\ \/ ~tu.open /\ tu' = [tu EXCEPT !.open = TRUE]
       \/ tu' = [tu EXCEPT !.marked = @ \cup {<<"d", tu.disp>>}]

\* Mutant: the list is appended to.
FindConnAtTail(t, i) ==
    IF <<"s", i>> \in Live(t) \/ i <= t.last THEN t
    ELSE [t EXCEPT !.list = @ \o <<<<"s", i>>>>, !.last = i, !.on[i] = t.disp]

\* mg_tun_if_find_conn: a stream's connection, or a new one for an id above all before; accepted connections go
\* to the head of the list.
FindConn(t, i) ==
    IF <<"s", i>> \in Live(t) \/ i <= t.last THEN t
    ELSE [t EXCEPT !.list = <<<<"s", i>>>> \o @, !.last = i, !.on[i] = t.disp]

\* b is where the loop goes from a.
ComesNext(list, a, b) == \E k \in 1..Len(list) - 1 : list[k] = a /\ list[k + 1] = b

\* MG_EV_WEBSOCKET_FRAME of mg_tun_client_handler: what the frame carries is received by the stream, and one that
\* ends it closes the connection at once, while the loop is at the dispatcher's.
TuFrame ==
    /\ tu.open /\ <<"d", tu.disp>> \notin tu.marked
    /\ \E i \in TuIds, end \in BOOLEAN :
        LET t == FindConn(tu, i)
        IN  tu' = IF end /\ <<"s", i>> \in Live(t)
                  THEN [CloseStream(t, i) EXCEPT !.clash = @ \/ ComesNext(t.list, <<"d", tu.disp>>, <<"s", i>>)]
                  ELSE t

\* The application's handler of a stream sends (mg_tun_if_tcp_send) or closes it.
TuStream ==
    \E i \in StreamsOf(tu) :
        /\ <<"s", i>> \notin tu.marked
        /\ \/ Len(tu.frames[tu.disp]) < TuFrames /\ tu' = Emit(tu, [stream |-> i, end |-> FALSE])
           \/ tu' = [tu EXCEPT !.marked = @ \cup {<<"s", i>>}]

CloseMarked(t, c) ==
    IF c \notin t.marked THEN t
    ELSE IF c[1] = "s" THEN CloseStream(t, c[2]) ELSE LoseDispatcher(t, c[2])

\* The end of a round: the connections that are marked when the loop comes to them are closed, in the order of the list.
TuRound ==
    LET at[n \in 0..Len(tu.list)] == IF n = 0 THEN [tu EXCEPT !.fresh = FALSE] ELSE CloseMarked(at[n - 1], tu.list[n])
    IN  /\ tu.marked # {} \/ tu.fresh
        /\ tu' = at[Len(tu.list)]

TuNext == TuTimer \/ TuHold \/ TuDispatcher \/ TuFrame \/ TuStream \/ TuRound

TuSpec == TuInit /\ [][TuNext]_tuVars

-----------------------------------------------------------------------------
\* Properties.

TuTypeOK ==
    /\ tu.disp \in 0..TuDials /\ tu.last \in {0} \cup TuIds
    /\ tu.marked \subseteq Live(tu) /\ IsInjective(tu.list)

\* A stream that may still be used belongs to the dispatcher's connection there is, so that what its handler sends
\* is not sent nowhere or to another dispatcher (mongoose.c:4318, 12366).
StreamsOwned ==
    \A i \in StreamsOf(tu) : <<"s", i>> \notin tu.marked => tu.disp # 0 /\ tu.on[i] = tu.disp

\* The connection that a frame closes is never the one the loop comes to next and already holds a pointer to
\* (mongoose.c:12356, 3906).
NotTheNext == ~tu.clash

\* The dispatcher is told once that a stream has ended, by whichever side it ended (mongoose.c:4341).
EndsTold ==
    \A i \in TuIds :
        tu.on[i] # 0 /\ tu.on[i] = tu.disp /\ i \notin StreamsOf(tu)
            => Cardinality({k \in DOMAIN tu.frames[tu.disp] : tu.frames[tu.disp][k] = EndFrame(i)}) = 1

StreamsEnd == StreamsOwned /\ NotTheNext /\ EndsTold
=============================================================================
