------------------------------- MODULE Links -------------------------------
(***************************************************************************)
(* An HTTP connection that another connection answers for: the socket of a *)
(* CGI program (mongoose.c: mg_handle_cgi, mg_cgi_ev_handler) or the       *)
(* connection to another server (mg_http_reverse_proxy).  Each of the two  *)
(* points to the other, and either may end first.                          *)
(*                                                                         *)
(* front is the HTTP connection, back the other one.  back was added to    *)
(* the list later, so the loop comes to it first.  One request is sent on  *)
(* front, and the client waits for the response.                           *)
(***************************************************************************)
EXTENDS Naturals, Sequences

CONSTANTS LkModes,   \* "cgi", "proxy"
          LkHead,    \* length of the head of a program's output or of a reply
          LkOut,     \* lengths of all it says
          LkPost     \* lengths of a request's body

ASSUME LkAssumption == /\ LkModes \subseteq {"cgi", "proxy"} /\ LkHead \in Nat \ {0}
                       /\ LkOut \subseteq Nat /\ LkPost \subseteq Nat

VARIABLES mode, front, back, far, walk
lkVars == <<mode, front, back, far, walk>>

\* out is what is queued for the client, in order, and lost what was dropped.
\* far is the program or the server: what it has still to say, whether its head is
\* well formed, how it stands.
LkInit ==
    \E md \in LkModes, n \in LkOut, p \in LkPost, ok \in BOOLEAN :
        /\ mode = md
        /\ front = [alive |-> TRUE, flags |-> {}, linked |-> TRUE, parse |-> md = "cgi",
                    out |-> <<>>, done |-> 0, peer |-> "up"]
        /\ back = [alive |-> TRUE, flags |-> IF md = "proxy" THEN {"CONNECTING"} ELSE {},
                   linked |-> TRUE, recv |-> 0, send |-> p, cut |-> FALSE]
        /\ far = [left |-> n, size |-> n, ok |-> ok, state |-> "up", in |-> 0]
        /\ walk = "events"

Mark(c, f) == [c EXCEPT !.flags = @ \cup {f}]
In(c, f) == f \in c.flags
Add(c, items) == [c EXCEPT !.out = @ \o items]
Bytes(n) == [i \in 1..n |-> "byte"]
\* mg_http_send_error.
SendError(c) == Mark(Add(c, <<"error">>), "SAC")

-----------------------------------------------------------------------------
(* The client, and the program or server.                                   *)

ClientLeaves == /\ front.alive /\ front.peer = "up" /\ front' = [front EXCEPT !.peer = "gone"]
                /\ UNCHANGED <<mode, back, far, walk>>
FarSays == /\ far.state = "up" /\ far.left > 0 /\ ~In(back, "CONNECTING")
           /\ far' = [far EXCEPT !.left = @ - 1, !.in = @ + 1]
           /\ UNCHANGED <<mode, front, back, walk>>
\* A program ends; a server need not, and may end without an answer.
FarEnds == /\ far.state = "up" /\ (mode = "cgi" => far.left = 0)
           /\ far' = [far EXCEPT !.state = "ended"]
           /\ UNCHANGED <<mode, front, back, walk>>

-----------------------------------------------------------------------------
(* The first walk: events of back.                                          *)

\* The program's socket is a connection of its own handler: without a front it is
\* closed at the next event, the MG_EV_POLL of each walk if nothing else.
Orphan == mode = "cgi" /\ ~back.linked

\* Wrong: only what came last is forwarded.
CgiForwardsLast(n) ==
    LET got == back.recv + n
        waits == front.parse /\ far.ok /\ got < LkHead
        begun == IF ~front.parse THEN front
                 ELSE IF far.ok THEN Add(front, <<"status">>) ELSE SendError(front)
    IN  IF waits THEN back' = [back EXCEPT !.recv = got] /\ UNCHANGED front
        ELSE /\ front' = [Add(begun, Bytes(n)) EXCEPT !.parse = FALSE]
             /\ back' = [IF front.parse /\ ~far.ok THEN Mark(back, "CI") ELSE back EXCEPT !.recv = 0]

\* mg_cgi_ev_handler, MG_EV_RECV: the status line is sent when the head is whole,
\* then all that has come is forwarded, after a bad head as well.
CgiRecv(n) ==
    LET got == back.recv + n
        waits == front.parse /\ far.ok /\ got < LkHead
        begun == IF ~front.parse THEN front
                 ELSE IF far.ok THEN Add(front, <<"status">>) ELSE SendError(front)
    IN  IF waits THEN back' = [back EXCEPT !.recv = got] /\ UNCHANGED front
        ELSE /\ front' = [Add(begun, Bytes(got)) EXCEPT !.parse = FALSE]
             /\ back' = [IF front.parse /\ ~far.ok THEN Mark(back, "CI") ELSE back EXCEPT !.recv = 0]

\* mg_http_handler and mg_reverse_proxy_handler, MG_EV_HTTP_REPLY: when the whole
\* reply is there it goes to the client, and both connections are to end.  A head
\* that does not parse ends the connection.
ReplyTo(f, size) == Mark(Add(f, Bytes(size)), "SAC")
ProxyRecv(n) ==
    LET got == back.recv + n
    IN  IF ~far.ok THEN back' = [Mark(back, "CI") EXCEPT !.recv = got] /\ UNCHANGED front
        ELSE IF got < far.size THEN back' = [back EXCEPT !.recv = got] /\ UNCHANGED front
        ELSE /\ front' = IF back.linked THEN ReplyTo(front, got) ELSE front
             /\ back' = [IF back.linked THEN Mark(back, "CI") ELSE back EXCEPT !.recv = 0]

BackConnects ==
    /\ walk = "events" /\ back.alive /\ In(back, "CONNECTING")
    /\ \E failed \in BOOLEAN :
         /\ back' = [back EXCEPT !.flags = (@ \ {"CONNECTING"}) \cup (IF failed THEN {"CI"} ELSE {})]
         /\ front' = IF failed /\ back.linked THEN SendError(front) ELSE front
    /\ UNCHANGED <<mode, far, walk>>

BackReads ==
    /\ walk = "events" /\ back.alive /\ ~In(back, "CONNECTING")
    /\ \E n \in 1..far.in :
         /\ far' = [far EXCEPT !.in = @ - n]
         /\ IF In(back, "CI") THEN back' = [back EXCEPT !.cut = TRUE] /\ UNCHANGED front
            ELSE IF Orphan THEN back' = Mark(back, "CI") /\ UNCHANGED front
            ELSE IF mode = "cgi" THEN CgiRecv(n) ELSE ProxyRecv(n)
    /\ UNCHANGED <<mode, walk>>

BackEnds == /\ walk = "events" /\ back.alive /\ ~In(back, "CONNECTING")
            /\ far.in = 0 /\ far.state = "ended"
            /\ back' = Mark(back, "SAC") /\ UNCHANGED <<mode, front, far, walk>>

\* The request's body; a program that has ended does not take it.
BackWrites ==
    /\ walk = "events" /\ back.alive /\ back.flags \cap {"CONNECTING", "CI"} = {} /\ back.send > 0
    /\ back' = IF far.state = "ended"
               THEN [Mark(back, "CI") EXCEPT !.cut = far.in > 0]
               ELSE IF Orphan THEN Mark([back EXCEPT !.send = 0], "CI") ELSE [back EXCEPT !.send = 0]
    /\ UNCHANGED <<mode, front, far, walk>>

BackPoll == /\ walk = "events" /\ back.alive /\ Orphan /\ ~In(back, "CI")
            /\ back' = Mark(back, "CI") /\ UNCHANGED <<mode, front, far, walk>>

(* Events of front.                                                         *)

FrontReads == /\ walk = "events" /\ front.alive /\ front.peer = "gone"
              /\ \E f \in {"SAC", "CI"} : ~In(front, f) /\ front' = Mark(front, f)
              /\ UNCHANGED <<mode, back, far, walk>>

FrontWrites ==
    /\ walk = "events" /\ front.alive /\ ~In(front, "CI") /\ front.done < Len(front.out)
    /\ front' = IF front.peer = "gone" THEN Mark(front, "CI")
                ELSE [front EXCEPT !.done = Len(front.out)]
    /\ UNCHANGED <<mode, back, far, walk>>

-----------------------------------------------------------------------------
(* The walk that closes: back, then front.                                  *)

BackMarked == back.alive /\ (In(back, "CI") \/ (In(back, "SAC") /\ back.send = 0))
FrontMarked == front.alive /\ (In(front, "CI") \/ (In(front, "SAC") /\ front.done = Len(front.out)))

\* MG_EV_CLOSE of back and its destructor.  What there is of a reply with a whole
\* head is handed over first; front is to end, and no longer points to back.
CloseBack ==
    /\ walk = "events"
    /\ IF ~BackMarked THEN UNCHANGED <<front, back>>
       ELSE /\ back' = [back EXCEPT !.alive = FALSE, !.linked = FALSE]
            /\ front' = IF ~back.linked THEN front
                        ELSE LET f == IF mode = "proxy" /\ far.ok /\ back.recv >= LkHead
                                      THEN ReplyTo(front, back.recv) ELSE front
                             IN  [Mark(f, "SAC") EXCEPT !.linked = FALSE]
    /\ walk' = "front" /\ UNCHANGED <<mode, far>>

\* Wrong: the program's socket is forgotten but not marked.
CgiForgotten(b) == [b EXCEPT !.linked = FALSE]

\* mg_http_handler, MG_EV_CLOSE: a program's socket is marked and forgets front.
CgiLinkFreed(b) == [Mark(b, "CI") EXCEPT !.linked = FALSE]
\* mg_http_free_reverse_proxy_data: the flag is set on what the linked connection
\* points to, which is front itself.
ProxyLinkFreed(b) == [b EXCEPT !.linked = FALSE]

CloseFront ==
    /\ walk = "front"
    /\ IF ~FrontMarked THEN UNCHANGED <<front, back>>
       ELSE /\ front' = [front EXCEPT !.alive = FALSE, !.linked = FALSE]
            /\ back' = IF ~front.linked THEN back
                       ELSE IF mode = "cgi" THEN CgiLinkFreed(back) ELSE ProxyLinkFreed(back)
    /\ walk' = "events" /\ UNCHANGED <<mode, far>>

LkEvents == \/ BackConnects \/ BackReads \/ BackEnds \/ BackWrites \/ BackPoll
            \/ FrontReads \/ FrontWrites
LkCloses == CloseBack \/ CloseFront
LkFar == FarSays \/ (mode = "cgi" /\ FarEnds)
LkNext == LkEvents \/ LkCloses \/ FarSays \/ FarEnds \/ ClientLeaves

LkSpec == LkInit /\ [][LkNext]_lkVars

-----------------------------------------------------------------------------
(* Properties.                                                              *)

LkTypeOK ==
    /\ front.flags \subseteq {"SAC", "CI"} /\ back.flags \subseteq {"CONNECTING", "SAC", "CI"}
    /\ front.done \in 0..Len(front.out) /\ far.in + far.left <= far.size
    /\ walk \in {"events", "front"}

\* No handler follows a pointer to a connection that is gone: the one that is left
\* has forgotten the other (mg_http_free_proto_data_cgi and its like).
LinksLive == /\ front.alive /\ front.linked => back.alive
             /\ back.alive /\ back.linked => front.alive

\* "link connections to each other, they must live and die together"
\* (mongoose.c:7673): when one is gone, the other is marked to end.
Together(m) == mode = m => /\ ~back.alive => ~front.alive \/ front.flags # {}
                           /\ ~front.alive => ~back.alive \/ back.flags \cap {"SAC", "CI"} # {}
CgiTogether == Together("cgi")
ProxyTogether == Together("proxy")

\* Whichever ends first, the other has forgotten it and, for a program, ends too.
Unlinks == LinksLive /\ CgiTogether

\* A client is told the status of a program's output first, and once.
StatusFirst ==
    mode = "cgi" =>
        /\ front.out # <<>> => front.out[1] \in {"status", "error"}
        /\ \A i \in 2..Len(front.out) : front.out[i] = "byte"

\* All that a program wrote has reached a client that stayed when its connection
\* ends, if the program had a whole head and took its input.
CgiComplete ==
    mode = "cgi" /\ ~front.alive /\ front.peer = "up" /\ far.ok /\ far.size >= LkHead /\ ~back.cut
        => front.done = 1 + far.size

\* The answer of a program: a status, then all of its output.
CgiAnswer == StatusFirst /\ CgiComplete

\* The HTTP connection ends, with an answer or without: only a server that is reached
\* and never says anything leaves the client waiting.
LkSettled == front.alive => mode = "proxy" /\ far.state = "up" /\ far.size = 0
=============================================================================
