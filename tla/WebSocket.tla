----------------------------- MODULE WebSocket -----------------------------
(***************************************************************************)
(* A connection that becomes a WebSocket: the handshake, the frames as     *)
(* they arrive, messages put together from fragments in recv_mbuf, and the *)
(* pings of an idle connection (mongoose.c: mg_http_handler,               *)
(* mg_deliver_websocket_data, mg_send_websocket_frame, mg_ws_handler).     *)
(*                                                                         *)
(* The bytes of a frame are its flags, its length, which knows how many    *)
(* bytes of length and mask follow, those bytes, and data; data is not     *)
(* masked.  What a peer sends are frames with complete headers.            *)
(***************************************************************************)
EXTENDS Naturals, Sequences, SequencesExt

CONSTANTS WsPlans,   \* what peers send: sequences of frames [fin, op, ext, n]
          WsIdle,    \* MG_WEBSOCKET_PING_INTERVAL_SECONDS
          WsPings    \* how many pings are sent at most

VARIABLE ws

wsVars == ws

\* Opcodes: 0 continues a message, 1 and 2 start one, 8 to 10 are control frames.
IsControl(op) == op >= 8

\* Has a message begun before frame f that has not ended, control frames aside?
Midway(plan, f) ==
    \E g \in 1..f - 1 : ~IsControl(plan[g].op) /\ ~plan[g].fin /\ \A h \in g + 1..f - 1 : IsControl(plan[h].op)

\* What peers send: no control frame is a fragment, and the opcode is 0 where a message goes on.
Orderly(plan) ==
    \A f \in DOMAIN plan : IF IsControl(plan[f].op) THEN plan[f].fin ELSE plan[f].op = 0 <=> Midway(plan, f)

WsFrames == [fin : BOOLEAN, op : Nat, ext : Nat, n : Nat]

ASSUME WsAssumption ==
    /\ WsPlans \subseteq {plan \in Seq(WsFrames) : Orderly(plan)}
    /\ WsIdle \in Nat \ {0} /\ WsPings \in Nat

Flags(fin, op) == [kind |-> "flags", fin |-> fin, op |-> op]
Length(ext, n) == [kind |-> "length", ext |-> ext, n |-> n]
Mask == [kind |-> "mask"]
Byte(f, i) == [kind |-> "data", f |-> f, i |-> i]

FramePayload(plan, f) == [i \in 1..plan[f].n |-> Byte(f, i)]
Frame(plan, f) == <<Flags(plan[f].fin, plan[f].op), Length(plan[f].ext, plan[f].n)>>
                  \o [i \in 1..plan[f].ext |-> Mask] \o FramePayload(plan, f)
FrameBytes(plan) == FlattenSeq([f \in DOMAIN plan |-> Frame(plan, f)])

\* defrag is the absence of MG_F_WEBSOCKET_NO_DEFRAG.
WsInit ==
    \E p \in WsPlans, server \in BOOLEAN, d \in BOOLEAN :
        ws = [plan |-> p, server |-> server, defrag |-> d, upgraded |-> FALSE, alive |-> TRUE,
              sent |-> 0, recv |-> <<>>, reass |-> 0, run |-> FALSE, flags |-> {},
              got |-> <<>>, out |-> <<>>, idle |-> 0, lost |-> FALSE]

WsTold(w, ev, data) == [w EXCEPT !.got = Append(@, [ev |-> ev, data |-> data])]

-----------------------------------------------------------------------------
(* The handshake.  Frames may already follow the head that asked for it.    *)

\* A server's handler may refuse, or answer by itself.
Upgrade ==
    /\ ws.alive /\ ~ws.upgraded /\ ws.server
    /\ LET w == WsTold([ws EXCEPT !.upgraded = TRUE], "request", <<>>)
       IN  \/ \E f \in {"SAC", "CI"} : ws' = [w EXCEPT !.flags = {f}]
           \/ \E own \in BOOLEAN :
                ws' = WsTold([w EXCEPT !.out = IF own THEN <<"own">> ELSE <<"101">>, !.run = TRUE], "done", <<>>)

\* A client has its answer; what the server accepted is not looked at.
Accepted ==
    /\ ws.alive /\ ~ws.upgraded /\ ~ws.server
    /\ ws' = WsTold([ws EXCEPT !.upgraded = TRUE, !.run = TRUE], "done", <<>>)

-----------------------------------------------------------------------------
(* mg_deliver_websocket_data.                                               *)

IsFragment(b) == ~b.fin \/ b.op = 0
IsFirstFragment(b) == ~b.fin /\ b.op # 0

\* Is recv_mbuf put together, and where does the frame to look at start?
Reassembling == ws.recv # <<>> /\ IsFragment(ws.recv[1]) /\ ws.defrag
Continues == Reassembling /\ ~IsFirstFragment(ws.recv[1]) /\ Len(ws.recv) >= 1 + ws.reass
Start == IF Continues THEN 1 + ws.reass ELSE 0
FrameHeaderLen(at) == 2 + ws.recv[at + 2].ext
FrameLen(at) == FrameHeaderLen(at) + ws.recv[at + 2].n
WholeAt(at) == /\ Len(ws.recv) >= at + 2 /\ ws.recv[at + 1].kind = "flags"
               /\ Len(ws.recv) >= at + FrameLen(at)

Event(b) == IF IsControl(b.op) THEN "control" ELSE "frame"
FrameRest(i) == SubSeq(ws.recv, i, Len(ws.recv))

\* A frame that is no fragment.  The flags that are looked at for a close are those at
\* the start of recv_mbuf once the frame is gone: its own if nothing follows.
DeliverWhole ==
    /\ ws.run /\ ~Reassembling /\ WholeAt(0)
    /\ LET b == ws.recv[1]
           rest == FrameRest(FrameLen(0) + 1)
           last == IF rest = <<>> THEN b ELSE rest[1]
       IN  ws' = [WsTold(ws, Event(b), SubSeq(ws.recv, FrameHeaderLen(0) + 1, FrameLen(0)))
                    EXCEPT !.recv = rest, !.reass = 0,
                           !.flags = IF last.op = 8 THEN @ \cup {"SAC"} ELSE @]

\* Wrong: a fragment takes the place of what was put together before.
DeliverFragmentAnew ==
    /\ ws.run /\ Reassembling /\ WholeAt(Start)
    /\ LET b == ws.recv[Start + 1]
           data == SubSeq(ws.recv, Start + FrameHeaderLen(Start) + 1, Start + FrameLen(Start))
           kept == <<Flags(ws.recv[1].fin, 0)>> \o data \o FrameRest(Start + FrameLen(Start) + 1)
       IN  ws' = IF ~b.fin THEN [ws EXCEPT !.recv = kept, !.reass = Len(data)]
                 ELSE [WsTold(ws, Event(b), data)
                         EXCEPT !.recv = SubSeq(kept, 2 + Len(data), Len(kept)), !.reass = 0]

\* A fragment moves up to what was put together before; the last one hands it over.
\* The first one leaves its flags there, without the opcode.
DeliverFragment ==
    /\ ws.run /\ Reassembling /\ WholeAt(Start)
    /\ LET b == ws.recv[Start + 1]
           data == SubSeq(ws.recv, Start + FrameHeaderLen(Start) + 1, Start + FrameLen(Start))
           before == IF IsFirstFragment(b) THEN <<>> ELSE SubSeq(ws.recv, 2, 1 + ws.reass)
           len == Len(before) + Len(data)
           kept == <<Flags(ws.recv[1].fin, 0)>> \o before \o data \o FrameRest(Start + FrameLen(Start) + 1)
       IN  ws' = IF ~b.fin THEN [ws EXCEPT !.recv = kept, !.reass = len]
                 ELSE [WsTold(ws, Event(b), before \o data)
                         EXCEPT !.recv = SubSeq(kept, 2 + len, Len(kept)), !.reass = 0]

\* What is taken for a frame is none when a control frame has ended a message early:
\* what is read from then on is left open.
Misread == Len(ws.recv) > Start /\ ws.recv[Start + 1].kind # "flags"
Wait == /\ ws.run /\ ~WholeAt(Start)
        /\ ws' = [ws EXCEPT !.run = FALSE, !.lost = Misread]

WsReceive ==
    /\ ws.alive /\ ~ws.run /\ ~ws.lost /\ "CI" \notin ws.flags
    /\ \E n \in 1..Len(FrameBytes(ws.plan)) - ws.sent :
           ws' = [ws EXCEPT !.recv = @ \o SubSeq(FrameBytes(ws.plan), ws.sent + 1, ws.sent + n),
                            !.sent = @ + n, !.run = ws.upgraded, !.idle = 0]

-----------------------------------------------------------------------------
(* mg_ws_handler on MG_EV_POLL, mg_send_websocket_frame, the end.           *)

Second == /\ ws.alive /\ ws.upgraded /\ ~ws.run /\ ws.idle <= WsIdle
          /\ ws' = [ws EXCEPT !.idle = @ + 1]

\* Sending is I/O: last_io_time is now.
WsPing == /\ ws.alive /\ ws.upgraded /\ ~ws.run /\ ws.idle > WsIdle
        /\ Len(ws.out) <= WsPings
        /\ ws' = [ws EXCEPT !.out = Append(@, "ping"), !.idle = 0]

WsClose == /\ ws.alive /\ ~ws.run /\ ws' = [ws EXCEPT !.alive = FALSE]

WsNext == \/ Upgrade \/ Accepted \/ WsReceive \/ DeliverWhole \/ DeliverFragment \/ Wait
          \/ Second \/ WsPing \/ WsClose

WsSpec == WsInit /\ [][WsNext]_wsVars

-----------------------------------------------------------------------------
(* Properties.                                                              *)

WsTypeOK == /\ ws.sent \in 0..Len(FrameBytes(ws.plan)) /\ ws.reass \in Nat
            /\ ws.flags \subseteq {"SAC", "CI"} /\ ws.idle \in 0..WsIdle + 1
            /\ ws.recv # <<>> /\ ~ws.lost => ws.recv[1].kind = "flags"

\* The first frame of the message that frame f belongs to, and what that message has up to frame f.
FirstOf(plan, f) == CHOOSE g \in 1..f : (g = 1 \/ plan[g - 1].fin) /\ \A h \in g..f - 1 : ~plan[h].fin
Gathered(plan, f) ==
    LET first == FirstOf(plan, f)
    IN  FlattenSeq([i \in 1..f - first + 1 |-> FramePayload(plan, first + i - 1)])

\* The messages of a plan: a frame with its end, or fragments up to one that has it.
MessageOf(plan, f) ==
    IF plan[f].fin
    THEN <<[ev |-> IF IsControl(plan[f].op) THEN "control" ELSE "frame", data |-> Gathered(plan, f)]>>
    ELSE <<>>
Messages(plan) == FlattenSeq([f \in DOMAIN plan |-> MessageOf(plan, f)])

\* Does a control frame come between the fragments of a message?
Interrupted(plan) == \E f \in DOMAIN plan : IsControl(plan[f].op) /\ f > 1 /\ ~plan[f - 1].fin

FramesIn(got) == FlattenSeq([k \in DOMAIN got |-> IF got[k].ev \in {"frame", "control"} THEN <<got[k]>> ELSE <<>>])
Frames == FramesIn(ws.got)

\* Wherever the network cuts frames, the handler gets the messages that were sent, once
\* each, in order and whole, and all that have arrived, when no control frame comes
\* between the fragments of a message (mongoose.c:9579 leaves that case out).
MessagesWhole ==
    LET plan == ws.plan
    IN  ws.defrag /\ ~Interrupted(plan) =>
            /\ IsPrefix(Frames, Messages(plan))
            /\ ws.run = FALSE /\ ws.upgraded /\ ws.flags \subseteq {"SAC"} /\ ws.got[Len(ws.got)].ev # "request"
               /\ ws.sent = Len(FrameBytes(plan)) => Len(Frames) = Len(Messages(plan))

\* Without defragmentation every frame is a message.
FramesWhole ==
    ~ws.defrag => \A k \in DOMAIN Frames : Frames[k].data = FramePayload(ws.plan, k)

\* A handler that accepted was told so before the first frame.
DoneFirst == \A k \in DOMAIN ws.got :
    ws.got[k].ev = "done" => \A j \in 1..k - 1 : ws.got[j].ev = "request"

\* A peer that closes is answered by the end of the connection, although the close is
\* looked for after the frame is gone.
CloseSeen ==
    LET plan == ws.plan IN
    /\ Len(plan) > 0 /\ plan[Len(plan)].op = 8 /\ Len(plan) = Len(Frames)
    /\ \A f \in DOMAIN plan : plan[f].fin
    => "SAC" \in ws.flags \/ "CI" \in ws.flags

\* Frames have lengths that 64 bits hold together with their headers (9538-9541 is the code's test for others).
FramesArrive == MessagesWhole /\ FramesWhole /\ DoneFirst /\ CloseSeen
=============================================================================
