----------------------------- MODULE EventLoop -----------------------------
(***************************************************************************)
(* The list of connections of one mg_mgr and the loop that serves it       *)
(* (mongoose.c: mg_add_conn to mg_mgr_free, mg_socket_if_poll).            *)
(*                                                                         *)
(* One call of mg_mgr_poll samples which sockets are ready, walks the list *)
(* calling handlers, and walks it again to close what is marked.  Handlers *)
(* run in the middle of both walks: they may send, mark any connection to  *)
(* be closed, set timers and open connections.  Peers act at any time, so  *)
(* what was sampled may be out of date when it is used.                    *)
(*                                                                         *)
(* A connection's bytes are counts.  Identifiers are used once: a freed    *)
(* connection's memory is never mistaken for a new one.                    *)
(***************************************************************************)
EXTENDS Naturals, Sequences, FiniteSets, SequencesExt

CONSTANTS
    EvConns,     \* identifiers, 1..n: 1 is the listener
    EvUdp,       \* is the listener a UDP one?  a set of answers
    EvRecvMax,   \* recv_mbuf_limit
    EvIn,        \* bytes each peer sends
    EvSources,   \* addresses that datagrams come from
    EvClients,   \* how many clients come
    EvDatagrams, \* how many datagrams come
    EvActs       \* how many times handlers do something

ASSUME EvAssumption ==
    /\ IsFiniteSet(EvConns) /\ EvConns = 1..Cardinality(EvConns) /\ 1 \in EvConns
    /\ EvUdp \subseteq BOOLEAN
    /\ EvRecvMax \in Nat \ {0} /\ EvIn \in Nat /\ EvClients \in Nat /\ EvDatagrams \in Nat /\ EvActs \in Nat

VARIABLES
    conn,     \* the connections, a record each
    list,     \* active_connections, from the head
    pass,     \* where mg_mgr_poll or mg_mgr_free is
    backlog,  \* clients waiting to be accepted
    dgrams,   \* datagrams in the UDP listener's socket
    came,     \* clients and datagrams so far
    odd,      \* events delivered to a connection that was not to get them
    acts      \* what handlers have done so far

evVars == <<conn, list, pass, backlog, dgrams, came, odd, acts>>

NoConn == 0

\* struct mg_connection.  life, doomed, lost and rang are for the properties: the
\* events delivered, whether a handler asked for an immediate end, output that was
\* thrown away, and whether the timer has fired since it was set.
Blank == [kind |-> "none", flags |-> {}, peer |-> "up", from |-> "none",
          in |-> 0, recv |-> 0, send |-> 0, timer |-> "off",
          life |-> "none", doomed |-> FALSE, lost |-> FALSE, rang |-> FALSE]

LiveIn(cs) == {c \in EvConns : cs[c].life \in {"new", "open", "failed"}}
Live == LiveIn(conn)
FreshIn(cs) == {c \in EvConns : cs[c].kind = "none"}
Fresh == FreshIn(conn)
NextIn(cs) == CHOOSE c \in FreshIn(cs) : \A d \in FreshIn(cs) : c <= d
NextId == NextIn(conn)
Has(c, f) == f \in conn[c].flags

Idle == [at |-> "idle", cur |-> NoConn, nxt |-> NoConn, stage |-> "none",
         todo |-> {}, rd |-> {}, wr |-> {}]

EvInit ==
    \E udp \in EvUdp :
        /\ conn = [c \in EvConns |-> IF c = 1
                     THEN [Blank EXCEPT !.kind = IF udp THEN "udp" ELSE "tcp", !.life = "open"]
                     ELSE Blank]
        /\ list = <<1>>
        /\ pass = Idle
        /\ backlog = 0 /\ dgrams = <<>> /\ came = 0 /\ acts = 0 /\ odd = {}

Listening(c) == c = 1
Position(c, l) == CHOOSE j \in DOMAIN l : l[j] = c
\* The next pointer of c in a list.
After(c, l) == IF Position(c, l) = Len(l) THEN NoConn ELSE l[Position(c, l) + 1]

-----------------------------------------------------------------------------
(* What a handler may do while it is called, at most one thing per call.    *)

\* mg_do_connect: a new connection goes to the head of the list.
Connect(cs, l) ==
    LET c == NextIn(cs)
    IN  [cs |-> [cs EXCEPT ![c] = [Blank EXCEPT !.kind = "out", !.flags = {"CONNECTING"},
                                                !.peer = "asked", !.life = "new"]],
         l |-> <<c>> \o l, n |-> 1]

\* The outcomes of a handler called on c with the connections cs and list l.
\* It may act on any live connection, as an application that keeps pointers does, and
\* mark a TCP listener to be closed too; nothing is sent on a listener, and a UDP one,
\* whose socket its children share, is not closed before the manager is freed.
\* mg_call lets it change MG_F_SEND_AND_CLOSE and MG_F_CLOSE_IMMEDIATELY only.
Handled(cs, l, c) ==
    {[cs |-> cs, l |-> l, n |-> 0]} \cup
    (IF acts = EvActs THEN {} ELSE
     LET live == LiveIn(cs) \ {1}
         ends == IF cs[1].kind = "udp" THEN live ELSE LiveIn(cs)
         On(d, r) == [cs |-> [cs EXCEPT ![d] = r], l |-> l, n |-> 1]
     IN  {On(d, [cs[d] EXCEPT !.send = @ + 1]) : d \in live}
         \cup {On(d, [cs[d] EXCEPT !.flags = @ \cup {"SAC"}]) : d \in ends}
         \cup {On(d, [cs[d] EXCEPT !.flags = @ \ {"SAC"}]) : d \in {e \in live : cs[e].kind = "child"}}
         \cup {On(d, [cs[d] EXCEPT !.flags = @ \cup {"CI"}, !.doomed = TRUE]) : d \in ends}
         \cup {On(d, [cs[d] EXCEPT !.timer = "armed", !.rang = FALSE]) : d \in LiveIn(cs)}
         \cup (IF FreshIn(cs) = {} THEN {} ELSE {Connect(cs, l)})
         \cup (IF cs[c].recv > 0 /\ c \in live THEN {On(c, [cs[c] EXCEPT !.recv = 0])} ELSE {}))

\* What a connection must have come to for the event ev to be one it may get.
InOrder(c, ev) ==
    LET life == conn[c].life
    IN  CASE ev = "accept" -> life = "none"
          [] ev = "connect" -> life = "new"
          [] ev \in {"recv", "send"} -> life = "open" /\ ~Has(c, "CI")
          [] ev = "poll" -> life \in {"new", "open"}
          [] ev = "timer" -> life \in {"new", "open"} /\ ~conn[c].rang
          [] ev = "close" -> life \in {"new", "open", "failed"}

\* mg_call(c, ev) after the changes cs, l; the new life of c is for the properties.
Call(c, ev, cs, l, life) ==
    \E h \in Handled([cs EXCEPT ![c].life = life], l, c) :
        /\ conn' = h.cs /\ list' = h.l /\ acts' = acts + h.n
        /\ odd' = odd \cup (IF InOrder(c, ev) THEN {} ELSE {ev})

-----------------------------------------------------------------------------
(* Peers, and time.                                                         *)

Same == UNCHANGED <<list, pass, odd, acts>>

PeerConnects == /\ conn[1].kind = "tcp" /\ came < EvClients
                /\ backlog' = backlog + 1 /\ came' = came + 1 /\ UNCHANGED <<conn, dgrams>> /\ Same

PeerSends(c) == /\ conn[c].kind \in {"acc", "out"} /\ conn[c].peer = "up"
                /\ conn[c].in + conn[c].recv < EvIn
                /\ conn' = [conn EXCEPT ![c].in = @ + 1]
                /\ UNCHANGED <<backlog, dgrams, came>> /\ Same

\* The peer ends its side, or the connection breaks.
PeerLeaves(c) == /\ conn[c].kind \in {"acc", "out"}
                 /\ \E p \in {"shut", "broken"} :
                       /\ conn[c].peer \in {"up", "shut"} \ {p}
                       /\ conn' = [conn EXCEPT ![c].peer = p]
                 /\ UNCHANGED <<backlog, dgrams, came>> /\ Same

\* The network answers a connect().
PeerAnswers(c) == /\ conn[c].peer = "asked"
                  /\ \E p \in {"up", "broken"} : conn' = [conn EXCEPT ![c].peer = p]
                  /\ UNCHANGED <<backlog, dgrams, came>> /\ Same

DatagramComes == /\ conn[1].kind = "udp" /\ came < EvDatagrams /\ came' = came + 1
                 /\ \E s \in EvSources : dgrams' = Append(dgrams, s)
                 /\ UNCHANGED <<conn, backlog>> /\ Same

TimerDue(c) == /\ c \in Live /\ conn[c].timer = "armed"
               /\ conn' = [conn EXCEPT ![c].timer = "due"]
               /\ UNCHANGED <<backlog, dgrams, came>> /\ Same

Peers == \/ PeerConnects \/ DatagramComes
         \/ \E c \in EvConns : c \in Live /\ (PeerSends(c) \/ PeerLeaves(c) \/ PeerAnswers(c) \/ TimerDue(c))

-----------------------------------------------------------------------------
(* mg_socket_if_poll.                                                       *)

\* A UDP child has its listener's socket and is never read itself.
Readable(c) ==
    /\ conn[c].recv < EvRecvMax
    /\ IF Listening(c) THEN backlog > 0 \/ dgrams # <<>>
       ELSE IF conn[c].kind = "child" THEN FALSE
       ELSE conn[c].in > 0 \/ conn[c].peer \in {"shut", "broken"}
Writable(c) == IF Has(c, "CONNECTING") THEN conn[c].peer # "asked" ELSE conn[c].send > 0

\* Wrong: timers are looked at only after output.
TimerAfterWrite(k, c, cs, p) ==
    IF k = "start" /\ "CONNECTING" \in cs[c].flags /\ c \in p.rd \cup p.wr THEN "connect"
    ELSE IF k \in {"start", "connect"} /\ c \in p.rd THEN "read"
    ELSE IF k \in {"start", "connect", "read", "child"} THEN
            IF "CI" \in cs[c].flags THEN "done"
            ELSE IF c \in p.wr /\ cs[c].send > 0 THEN "write" ELSE "poll"
    ELSE IF k = "write" /\ cs[c].timer = "due" THEN "timer"
    ELSE "done"

\* The stage of mg_mgr_handle_conn that follows k for c; p has what was sampled.
\* Whether the connection is to be closed is asked once, before it is written to.
Stage(k, c, cs, p) ==
    IF k = "start" /\ "CONNECTING" \in cs[c].flags /\ c \in p.rd \cup p.wr THEN "connect"
    ELSE IF k \in {"start", "connect"} /\ c \in p.rd THEN "read"
    ELSE IF k \in {"start", "connect", "read", "child"} THEN
            IF "CI" \in cs[c].flags THEN "done"
            ELSE IF c \in p.wr /\ cs[c].send > 0 THEN "write" ELSE "poll"
    ELSE IF k = "write" THEN "poll"
    ELSE IF k = "poll" /\ cs[c].timer = "due" THEN "timer"
    ELSE "done"

\* Go to connection c of the list l, with the next one saved, or to the second walk.
Visit(c, l, cs, p) ==
    IF c = NoConn
    THEN [Idle EXCEPT !.at = "close", !.cur = Head(l), !.nxt = After(Head(l), l)]
    ELSE [at |-> "walk", cur |-> c, nxt |-> After(c, l), stage |-> Stage("start", c, cs, p),
          todo |-> p.todo \ {c}, rd |-> p.rd \ {p.cur}, wr |-> p.wr \ {p.cur}]

\* select() and the start of the first walk.  todo is for the properties.
Select ==
    /\ pass.at = "idle" /\ list # <<>>
    /\ pass' = Visit(Head(list), list, conn,
                     [Idle EXCEPT !.todo = Live, !.rd = {c \in Live : Readable(c)},
                                  !.wr = {c \in Live : Writable(c)}])
    /\ UNCHANGED <<conn, list, backlog, dgrams, came, odd, acts>>

At(stage) == pass.at = "walk" /\ pass.stage = stage
\* What mg_mgr_handle_conn does next, or the next connection.
Go == LET k == Stage(pass.stage, pass.cur, conn', pass)
      IN  pass' = IF k # "done" THEN [pass EXCEPT !.stage = k]
                  ELSE Visit(pass.nxt, list', conn', pass)

\* mg_if_connect_cb.
HandleConnect ==
    /\ At("connect")
    /\ LET c == pass.cur  bad == conn[c].peer = "broken"
       IN  Call(c, "connect",
                [conn EXCEPT ![c].flags = (@ \ {"CONNECTING"}) \cup (IF bad THEN {"CI"} ELSE {})],
                list, IF bad THEN "failed" ELSE "open")
    /\ Go /\ UNCHANGED <<backlog, dgrams, came>>

\* Wrong: a new connection goes to the end of the list.
AcceptAtTail ==
    /\ At("read") /\ pass.cur = 1 /\ conn[1].kind = "tcp" /\ backlog > 0 /\ Fresh # {}
    /\ backlog' = backlog - 1
    /\ Call(NextId, "accept",
            [conn EXCEPT ![NextId] = [Blank EXCEPT !.kind = "acc", !.life = "new"]],
            Append(list, NextId), "open")
    /\ Go /\ UNCHANGED <<dgrams, came>>

\* mg_accept_conn: one client per walk; it is not part of this walk.
HandleAccept ==
    /\ At("read") /\ pass.cur = 1 /\ conn[1].kind = "tcp"
    /\ IF backlog = 0 \/ Fresh = {} THEN UNCHANGED <<conn, list, odd, acts, backlog>>
       ELSE /\ backlog' = backlog - 1
            /\ LET c == NextId
               IN  Call(c, "accept",
                        [conn EXCEPT ![c] = [Blank EXCEPT !.kind = "acc", !.life = "new"]],
                        <<c>> \o list, "open")
    /\ Go /\ UNCHANGED <<dgrams, came>>

\* Wrong: a connection that is about to be closed is given data.
ReceiveDoomed(c, n, cs) ==
    Call(c, "recv", [cs EXCEPT ![c].recv = @ + n], list, conn[c].life)

\* mg_recv_common: n bytes for c, when cs is what was read; nothing is handed to a
\* connection that is about to be closed.
Receive(c, n, cs) ==
    IF Has(c, "CI") THEN conn' = cs /\ UNCHANGED <<list, odd, acts>>
    ELSE Call(c, "recv", [cs EXCEPT ![c].recv = @ + n], list, conn[c].life)

\* Wrong: everything that is there is read.
ReadsAll ==
    /\ At("read") /\ pass.cur # 1
    /\ LET c == pass.cur  r == conn[c]
       IN  IF r.in > 0 THEN Receive(c, r.in, [conn EXCEPT ![c].in = 0])
           ELSE /\ conn' = [conn EXCEPT ![c].flags = @ \cup
                              (IF r.peer = "broken" THEN {"CI"}
                               ELSE IF r.peer = "shut" THEN {"SAC"}
                               ELSE {})]
                /\ UNCHANGED <<list, odd, acts>>
    /\ Go /\ UNCHANGED <<backlog, dgrams, came>>

\* mg_handle_tcp_read: never more than fits; the peer's end of the stream asks to
\* close the connection.
HandleRead ==
    /\ At("read") /\ pass.cur # 1
    /\ LET c == pass.cur  r == conn[c]
           n == IF r.in > EvRecvMax - r.recv THEN EvRecvMax - r.recv ELSE r.in
       IN  IF n > 0 THEN Receive(c, n, [conn EXCEPT ![c].in = @ - n])
           ELSE /\ conn' = [conn EXCEPT ![c].flags = @ \cup
                              (IF r.peer = "broken" THEN {"CI"}
                               ELSE IF r.peer = "shut" \/ r.recv = EvRecvMax THEN {"SAC"}
                               ELSE {})]
                /\ UNCHANGED <<list, odd, acts>>
    /\ Go /\ UNCHANGED <<backlog, dgrams, came>>

\* The child that a datagram from s belongs to.
Child(s) == {c \in Live : conn[c].kind = "child" /\ conn[c].from = s}

\* Wrong: every datagram has a child made for it.
ChildEachTime ==
    /\ At("read") /\ pass.cur = 1 /\ conn[1].kind = "udp" /\ dgrams # <<>> /\ Fresh # {}
    /\ Call(NextId, "accept",
            [conn EXCEPT ![NextId] = [Blank EXCEPT !.kind = "child", !.from = Head(dgrams),
                                          !.flags = {"SAC"}, !.life = "new"]],
            <<NextId>> \o list, "open")
    /\ pass' = [pass EXCEPT !.stage = "child"]
    /\ UNCHANGED <<backlog, dgrams, came>>

\* mg_handle_udp_read, mg_if_recv_udp_cb: a child is made for a new source,
\* with MG_F_SEND_AND_CLOSE, and told of it; the datagram follows in HandleChild.
\* A datagram for which no connection is left (a bound, EvConns) stays in the socket:
\* going on with a null child when memory runs out (2765-2776) is not modelled.
HandleUdp ==
    /\ At("read") /\ pass.cur = 1 /\ conn[1].kind = "udp"
    /\ IF dgrams = <<>> THEN UNCHANGED <<conn, list, odd, acts, dgrams>> /\ Go
       ELSE LET s == Head(dgrams) IN
            IF Child(s) = {} /\ Fresh # {}
            THEN /\ Call(NextId, "accept",
                         [conn EXCEPT ![NextId] = [Blank EXCEPT !.kind = "child", !.from = s,
                                                       !.flags = {"SAC"}, !.life = "new"]],
                         <<NextId>> \o list, "open")
                 /\ pass' = [pass EXCEPT !.stage = "child"] /\ UNCHANGED dgrams
            ELSE /\ UNCHANGED <<conn, list, odd, acts, dgrams>>
                 /\ IF Child(s) = {} THEN Go ELSE pass' = [pass EXCEPT !.stage = "child"]
    /\ UNCHANGED <<backlog, came>>

HandleChild ==
    /\ At("child")
    /\ Receive(CHOOSE d \in Child(Head(dgrams)) : TRUE, 1, conn)
    /\ dgrams' = Tail(dgrams)
    /\ Go /\ UNCHANGED <<backlog, came>>

\* mg_write_to_socket with mg_if_sent_cb: a failed write marks the connection.
HandleWrite ==
    /\ At("write")
    /\ LET c == pass.cur
       IN  IF conn[c].peer = "broken"
           THEN Call(c, "send", [conn EXCEPT ![c].flags = @ \cup {"CI"}], list, conn[c].life)
           ELSE \E n \in 1..conn[c].send :
                  Call(c, "send", [conn EXCEPT ![c].send = @ - n], list, conn[c].life)
    /\ Go /\ UNCHANGED <<backlog, dgrams, came>>

HandlePoll ==
    /\ At("poll") /\ Call(pass.cur, "poll", conn, list, conn[pass.cur].life)
    /\ Go /\ UNCHANGED <<backlog, dgrams, came>>

\* mg_if_timer: the timer is cleared before the handler, which may set it again.
HandleTimer ==
    /\ At("timer")
    /\ LET c == pass.cur
       IN  Call(c, "timer", [conn EXCEPT ![c].timer = "off", ![c].rang = TRUE], list, conn[c].life)
    /\ Go /\ UNCHANGED <<backlog, dgrams, came>>

\* A connection with nothing to do.
Pass == /\ At("done") /\ UNCHANGED <<conn, list, odd, acts, backlog, dgrams, came>>
        /\ pass' = Visit(pass.nxt, list, conn, pass)

-----------------------------------------------------------------------------
(* Closing.                                                                 *)

\* The second walk closes the connections that are marked.
Marked(c) == Has(c, "CI") \/ (conn[c].send = 0 /\ Has(c, "SAC"))

\* Wrong: the connection is not taken out of the list.
CloseInList(c) ==
    Call(c, "close", [conn EXCEPT ![c] = [Blank EXCEPT !.kind = conn[c].kind]], list, "closed")

\* mg_close_conn: out of the list, its socket closed, MG_EV_CLOSE, freed.
Close(c) ==
    Call(c, "close",
         [conn EXCEPT ![c] = [Blank EXCEPT !.kind = conn[c].kind, !.peer = conn[c].peer,
                                           !.doomed = conn[c].doomed, !.lost = conn[c].send > 0]],
         RemoveAt(list, Position(c, list)), "closed")

\* The next step of the walks that close; then is where the pass goes after them.
Onward(then) ==
    pass' = IF pass.nxt = NoConn THEN then
            ELSE [pass EXCEPT !.cur = pass.nxt, !.nxt = After(pass.nxt, list')]

CloseMarked ==
    /\ pass.at = "close"
    /\ IF Marked(pass.cur) THEN Close(pass.cur) ELSE UNCHANGED <<conn, list, odd, acts>>
    /\ Onward(Idle)
    /\ UNCHANGED <<backlog, dgrams, came>>

\* mg_mgr_free: after a last poll, every connection of the list.
FreeMgr ==
    /\ pass.at = "idle" /\ list # <<>>
    /\ pass' = [Idle EXCEPT !.at = "free", !.cur = Head(list), !.nxt = After(Head(list), list),
                            !.todo = Live]
    /\ UNCHANGED <<conn, list, backlog, dgrams, came, odd, acts>>

\* Wrong: mg_mgr_free closes what is marked.
CloseAllMarked ==
    /\ pass.at = "free"
    /\ IF Marked(pass.cur) THEN Close(pass.cur) ELSE UNCHANGED <<conn, list, odd, acts>>
    /\ Onward([pass EXCEPT !.at = "freed", !.cur = NoConn])
    /\ UNCHANGED <<backlog, dgrams, came>>

CloseAll ==
    /\ pass.at = "free"
    /\ Close(pass.cur)
    /\ Onward([pass EXCEPT !.at = "freed", !.cur = NoConn])
    /\ UNCHANGED <<backlog, dgrams, came>>

Loop == \/ Select \/ HandleConnect \/ HandleAccept \/ HandleRead \/ HandleUdp \/ HandleChild
        \/ HandleWrite \/ HandlePoll \/ HandleTimer \/ Pass \/ CloseMarked \/ CloseAll

Network == \E c \in EvConns : PeerAnswers(c)
EvNext == Loop \/ Peers \/ FreeMgr

EvSpec == EvInit /\ [][EvNext]_evVars

-----------------------------------------------------------------------------
(* Properties.                                                              *)

EvTypeOK ==
    /\ \A c \in EvConns :
         /\ conn[c].kind \in {"none", "tcp", "udp", "acc", "out", "child"}
         /\ conn[c].flags \subseteq {"CONNECTING", "SAC", "CI"}
         /\ conn[c].life \in {"none", "new", "open", "failed", "closed"}
         /\ conn[c].recv \in Nat /\ conn[c].send \in Nat
         /\ conn[c].timer \in {"off", "armed", "due"}
    /\ ToSet(list) = Live
    /\ acts \in 0..EvActs

\* The walks keep pointers to the connection in hand and to the next one: neither
\* is ever freed under them, whatever the handlers do (mg_socket_if_poll).
WalkersLive ==
    pass.at \in {"walk", "close", "free"} =>
        /\ pass.cur \in ToSet(list)
        /\ pass.nxt \in ToSet(list) \cup {NoConn}

\* What follows c in a list.
Rest(c, l) == {l[j] : j \in {k \in DOMAIN l : k > Position(c, l)}}

\* The first walk visits the connections that were in the list when readiness was
\* sampled, each once, and none that was added since: what is left to visit is what
\* follows the current one in the list.
WalkCovers == pass.at = "walk" => pass.todo = Rest(pass.cur, list)

\* The two walks of a poll, and of mg_mgr_free, stay on their way.
WalksHold == WalkersLive /\ WalkCovers

\* The order of the events of a connection.  MG_EV_ACCEPT is the first of those that
\* are accepted; MG_EV_CONNECT comes at most once, to one that was opened.  MG_EV_RECV
\* and MG_EV_SEND come only after one of these, never after a failed connect nor once
\* the connection is marked to be closed at once.  MG_EV_POLL and MG_EV_TIMER come also
\* while a connection is being opened (mongoose.c:3737-3742), but not after a failed
\* connect; MG_EV_CLOSE comes once and nothing follows it.
EventsInOrder == odd \subseteq {"timer"}

\* MG_F_SEND_AND_CLOSE: "Push remaining data and close" (mongoose.h:3476).  A
\* connection that ends loses output only when a handler asked for that, when the
\* peer is gone or when the manager is freed.
OutputPushed ==
    \A c \in EvConns :
        conn[c].life = "closed" /\ ~conn[c].doomed /\ conn[c].peer \in {"up", "shut"}
            /\ pass.at \notin {"free", "freed"}
            => ~conn[c].lost

\* recv_mbuf never holds more than its limit on a TCP connection (mongoose.h:3439).
RecvBounded == \A c \in EvConns : conn[c].kind \in {"acc", "out"} => conn[c].recv <= EvRecvMax

\* A timer fires once for each time it is set.
TimerOnce == "timer" \notin odd

\* Handlers are called in order, and for a timer once each time it is set.
Called == EventsInOrder /\ TimerOnce

\* What a connection holds, it neither loses nor lets grow.
Buffered == OutputPushed /\ RecvBounded

\* Datagrams of one source go to one connection.
OneChild == \A s \in EvSources : Cardinality(Child(s)) <= 1

\* mg_mgr_free closes each connection that was in the list, once.
FreedAll == pass.at = "freed" => \A c \in pass.todo : conn[c].life = "closed"

Over == pass.at \in {"free", "freed"}

\* In the end nothing is left undone: whatever peers and handlers do, a connection
\* marked to be closed is closed, a timer that is due fires or its connection ends,
\* and a connection that was opened is told of the outcome (mg_socket_if_poll).
EvSettled ==
    \/ Over
    \/ \A c \in Live : ~Has(c, "CI") /\ conn[c].timer # "due" /\ conn[c].life # "new"
=============================================================================
