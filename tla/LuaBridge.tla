----------------------------- MODULE LuaBridge -----------------------------
(***************************************************************************)
(* The embedded Lua application (lstate.c) and the C functions its scripts *)
(* call (lmodule.c).                                                       *)
(*                                                                         *)
(* One Lua state and one output buffer, http_msg_buf, serve every request  *)
(* of every connection.  A request runs the optional hook __Accept__, the  *)
(* script and the optional hook __Finished__; scripts write to the buffer  *)
(* with b_echo and send it with b_flush.  Nothing empties the buffer       *)
(* between two requests unless a script or a hook does, so the state that  *)
(* a script leaves behind is visible to the next one.                      *)
(*                                                                         *)
(* Output is a sequence of pieces, one per echoed string, each with the    *)
(* request that echoed it and a number in the order of echoing.  A piece   *)
(* counts as one byte.                                                     *)
(***************************************************************************)
EXTENDS Naturals, Sequences

CONSTANTS
    Requests,       \* the HTTP requests routed to the Lua application
    Conns,          \* the connections they arrive on
    ConnOf,         \* the connection of each request
    AcceptHooks,    \* what __Accept__ may be: "none" (as shipped) or "clear"
    FinishedHooks,  \* what __Finished__ may be: "none" (as shipped), "flush"
                    \* (as in the comment of init.lua), "flush_ct" or "clear"
    InitLoaded,     \* init.lua was run, so the global l names lmodule
    ErrorLen,       \* length of "Cannot run <script>"
    BufLen,         \* HTTP_MSG_BUF_LEN: scripts in scope stay below it
    MaxArgs,        \* bound on the strings of one b_echo
    MaxCalls        \* bound on the lmodule calls of one script

ASSUME LuaBridgeAssumption ==
    /\ ConnOf \in [Requests -> Conns]
    /\ AcceptHooks \subseteq {"none", "clear"}
    /\ FinishedHooks \subseteq {"none", "flush", "flush_ct", "clear"}
    /\ InitLoaded \in BOOLEAN
    /\ ErrorLen \in Nat
    /\ BufLen \in Nat
    /\ MaxArgs \in Nat
    /\ MaxCalls \in Nat

VARIABLES
    acceptHook, \* what init.lua defined __Accept__ as
    finishedHook, \* what init.lua defined __Finished__ as
    buf,        \* http_msg_buf[0 .. http_msg_len - 1]
    lScon,      \* *lScon, the connection the lmodule functions write to
    lSmsg,      \* *lSmsg, the message the env functions read
    pc,         \* where asteroid_lState_http_request_handler stands
    hm,         \* its argument: the request being handled
    pending,    \* requests that have not been handled yet
    calls,      \* lmodule calls the current script has made
    echoed,     \* history: pieces echoed so far
    wire,       \* history: what was queued on the connections, in order
    owing       \* history: requests that echoed after their last flush or clear

hooks == <<acceptHook, finishedHook>>
lbVars == <<hooks, buf, lScon, lSmsg, pc, hm, pending, calls, echoed, wire,
          owing>>

NoRequest == "none"

Piece == [by : Requests, id : Nat]

(***************************************************************************)
(* One response: the connection it is queued on, the request it answers,   *)
(* the Content-Length its head announces, the number of body bytes queued  *)
(* after the head, and the pieces they carry.                              *)
(***************************************************************************)
Response == [to : Conns, for : Requests,
             kind : {"flush", "flush_ct", "error"},
             announced : Nat, size : Nat, pieces : Seq(Piece)]

LbInit ==
    /\ acceptHook \in AcceptHooks
    /\ finishedHook \in FinishedHooks
    /\ buf = <<>>
    /\ lScon = NoRequest
    /\ lSmsg = NoRequest
    /\ pc = "idle"
    /\ hm = NoRequest
    /\ pending = Requests
    /\ calls = 0
    /\ echoed = 0
    /\ wire = <<>>
    /\ owing = {}

-----------------------------------------------------------------------------
\* The lmodule functions on the buffer and the connection.

\* mg_send_head with no body after it.
HeadOnly(kind) == [to |-> lScon, for |-> hm, kind |-> kind,
                   announced |-> Len(buf), size |-> 0, pieces |-> <<>>]

\* mg_send_head and mg_send of the buffer.
HeadAndBody(kind) == [to |-> lScon, for |-> hm, kind |-> kind,
                      announced |-> Len(buf), size |-> Len(buf),
                      pieces |-> buf]

\* b_flush without an argument sends a head only.
FlushDefault ==
    /\ wire' = Append(wire, HeadOnly("flush"))
    /\ buf' = <<>>

\* Mutant of FlushTyped: http_msg_len keeps its value.
FlushTypedNoReset ==
    /\ wire' = Append(wire, HeadAndBody("flush_ct"))
    /\ UNCHANGED buf

\* b_flush(content_type) sends a head and the buffer.
FlushTyped ==
    /\ wire' = Append(wire, HeadAndBody("flush_ct"))
    /\ buf' = <<>>

\* mg_send_head and mg_printf of "Cannot run <script>", to the handler's own
\* connection.
CannotRun == [to |-> ConnOf[hm], for |-> hm, kind |-> "error",
              announced |-> ErrorLen, size |-> ErrorLen, pieces |-> <<>>]

Clear ==
    /\ buf' = <<>>
    /\ UNCHANGED wire

-----------------------------------------------------------------------------
\* The request handler.

\* Mutant of Enter: the connection is never stored.
EnterWithoutScon(r) ==
    /\ pc = "idle"
    /\ r \in pending
    /\ hm' = r
    /\ lSmsg' = r
    /\ pending' = pending \ {r}
    /\ calls' = 0
    /\ pc' = "accept"
    /\ UNCHANGED <<hooks, buf, lScon, echoed, wire, owing>>

\* The handler is entered: both globals are pointed at the new request.
Enter(r) ==
    /\ pc = "idle"
    /\ r \in pending
    /\ hm' = r
    /\ lScon' = ConnOf[r]
    /\ lSmsg' = r
    /\ pending' = pending \ {r}
    /\ calls' = 0
    /\ pc' = "accept"
    /\ UNCHANGED <<hooks, buf, echoed, wire, owing>>

\* luaL_dostring(L, "pcall(__Accept__)").
RunAcceptHook ==
    /\ pc = "accept"
    /\ pc' = "script"
    /\ buf' = IF acceptHook = "clear" THEN <<>> ELSE buf
    /\ UNCHANGED <<hooks, lScon, lSmsg, hm, pending, calls, echoed, wire,
                   owing>>

\* The script calls a function of lmodule.
ScriptCall ==
    /\ pc = "script"
    /\ calls < MaxCalls
    /\ calls' = calls + 1
    /\ UNCHANGED <<hooks, lScon, lSmsg, pc, hm, pending>>

\* b_echo: the strings before the first argument that is not one.  Their text
\* is computed from the message the env functions read, *lSmsg.
BEcho(n) ==
    /\ ScriptCall
    /\ Len(buf) + n < BufLen
    /\ buf' = buf \o [i \in 1..n |-> [by |-> lSmsg, id |-> echoed + i]]
    /\ echoed' = echoed + n
    /\ owing' = IF n > 0 THEN owing \union {hm} ELSE owing
    /\ UNCHANGED wire

BFlush ==
    /\ ScriptCall
    /\ FlushDefault \/ FlushTyped
    /\ owing' = owing \ {hm}
    /\ UNCHANGED echoed

BClear ==
    /\ ScriptCall
    /\ Clear
    /\ owing' = owing \ {hm}
    /\ UNCHANGED echoed

\* Mutant of ScriptReturns: __Finished__ runs on the error path only.
ScriptReturnsSkipsHook ==
    /\ pc = "script"
    /\ pc' = "idle"
    /\ UNCHANGED <<hooks, buf, lScon, lSmsg, hm, pending, calls, echoed, wire,
                   owing>>

\* luaL_dofile returns 0: the script ran to its end.
ScriptReturns ==
    /\ pc = "script"
    /\ pc' = "finish"
    /\ UNCHANGED <<hooks, buf, lScon, lSmsg, hm, pending, calls, echoed, wire,
                   owing>>

\* Mutant of ScriptFails: the error path does not clear the buffer.
ScriptFailsNoClear ==
    /\ pc = "script"
    /\ pc' = "finish"
    /\ wire' = Append(wire, CannotRun)
    /\ owing' = IF InitLoaded THEN owing \ {hm} ELSE owing
    /\ UNCHANGED <<hooks, buf, lScon, lSmsg, hm, pending, calls, echoed>>

\* Mutant of ScriptFails: it returns from the handler with the message.
ScriptFailsReturns ==
    /\ pc = "script"
    /\ pc' = "idle"
    /\ wire' = Append(wire, CannotRun)
    /\ owing' = IF InitLoaded THEN owing \ {hm} ELSE owing
    /\ UNCHANGED <<hooks, buf, lScon, lSmsg, hm, pending, calls, echoed>>

(***************************************************************************)
(* luaL_dofile fails: no such script, a syntax error, or an error raised   *)
(* after any number of calls.  The message goes to the handler's own       *)
(* connection; pcall(l.b_clear) does nothing when l is not defined.        *)
(***************************************************************************)
ScriptFails ==
    /\ pc = "script"
    /\ pc' = "finish"
    /\ wire' = Append(wire, CannotRun)
    /\ buf' = IF InitLoaded THEN <<>> ELSE buf
    /\ owing' = IF InitLoaded THEN owing \ {hm} ELSE owing
    /\ UNCHANGED <<hooks, lScon, lSmsg, hm, pending, calls, echoed>>

\* luaL_dostring(L, "pcall(__Finished__)"), and the handler returns.
RunFinishedHook ==
    /\ pc = "finish"
    /\ pc' = "idle"
    /\ \/ finishedHook = "none" /\ UNCHANGED <<buf, wire>>
       \/ finishedHook = "flush" /\ FlushDefault
       \/ finishedHook = "flush_ct" /\ FlushTyped
       \/ finishedHook = "clear" /\ Clear
    /\ owing' = IF finishedHook = "none" THEN owing ELSE owing \ {hm}
    /\ UNCHANGED <<hooks, lScon, lSmsg, hm, pending, calls, echoed>>

LbNext ==
    \/ \E r \in Requests : Enter(r)
    \/ RunAcceptHook
    \/ \E n \in 0..MaxArgs : BEcho(n)
    \/ BFlush
    \/ BClear
    \/ ScriptReturns
    \/ ScriptFails
    \/ RunFinishedHook

LbSpec == LbInit /\ [][LbNext]_lbVars

-----------------------------------------------------------------------------
(***************************************************************************)
(* Every variable stays in its domain (lstate.c:16-17, lmodule.c:22-24).   *)
(***************************************************************************)
LbTypeOK ==
    /\ acceptHook \in AcceptHooks
    /\ finishedHook \in FinishedHooks
    /\ buf \in Seq(Piece)
    /\ lScon \in Conns \union {NoRequest}
    /\ lSmsg \in Requests \union {NoRequest}
    /\ pc \in {"idle", "accept", "script", "finish"}
    /\ hm \in Requests \union {NoRequest}
    /\ pending \in SUBSET Requests
    /\ calls \in Nat
    /\ echoed \in Nat
    /\ wire \in Seq(Response)
    /\ owing \in SUBSET Requests

(***************************************************************************)
(* Output of one request appears in the response to another only if its    *)
(* owner ended with output that it neither flushed nor cleared: b_flush,   *)
(* b_clear, the error path and the hook each leave nothing behind          *)
(* (lstate.c:53-81, lmodule.c:98-133).                                     *)
(***************************************************************************)
Isolation ==
    \A i \in DOMAIN wire : \A j \in DOMAIN wire[i].pieces :
        \/ wire[i].pieces[j].by = wire[i].for
        \/ wire[i].pieces[j].by \in owing

(***************************************************************************)
(* With a hook that empties the buffer, before or after every script, no   *)
(* response ever carries the output of another request, whatever the       *)
(* scripts do (the hooks of init.lua:220-226, run at lstate.c:74 and 80).  *)
(***************************************************************************)
HookIsolates ==
    (acceptHook = "clear" \/ finishedHook # "none") =>
        \A i \in DOMAIN wire : \A j \in DOMAIN wire[i].pieces :
            wire[i].pieces[j].by = wire[i].for

(***************************************************************************)
(* The numbers of the pieces that were sent, in the order of sending, and  *)
(* then of those still in the buffer, increase: output is never sent       *)
(* twice, even when a request flushes several times, and never overtakes   *)
(* earlier output (http_msg_len reset in lmodule.c:111-133).               *)
(***************************************************************************)
OutputInOrder ==
    /\ \A i \in DOMAIN wire : \A j, k \in DOMAIN wire[i].pieces :
              j < k => wire[i].pieces[j].id < wire[i].pieces[k].id
    /\ \A h, i \in DOMAIN wire : h < i =>
              \A j \in DOMAIN wire[h].pieces, k \in DOMAIN wire[i].pieces :
                  wire[h].pieces[j].id < wire[i].pieces[k].id
    /\ \A i \in DOMAIN wire :
          \A j \in DOMAIN wire[i].pieces, k \in DOMAIN buf :
                  wire[i].pieces[j].id < buf[k].id

(***************************************************************************)
(* A response goes to the connection of the request it answers, although   *)
(* b_flush takes the connection from a global that outlives the request    *)
(* (lmodule.c:119-120, lstate.c:57).                                       *)
(***************************************************************************)
ToTheRequester == \A i \in DOMAIN wire : wire[i].to = ConnOf[wire[i].for]

(***************************************************************************)
(* A response is the requester's: sent to its connection, with its output  *)
(* and no other's.                                                         *)
(***************************************************************************)
Isolated == Isolation /\ HookIsolates /\ ToTheRequester

(***************************************************************************)
(* What a script echoed and had not flushed when it failed is never sent:  *)
(* the error path clears the buffer before __Finished__ can flush it       *)
(* (lstate.c:75-80), provided init.lua defined l.                          *)
(***************************************************************************)
FailureDiscards ==
    InitLoaded =>
        \A i \in DOMAIN wire : wire[i].kind = "error" =>
            \A h \in i + 1 .. Len(wire) : \A j \in DOMAIN wire[h].pieces :
                wire[h].pieces[j].by # wire[i].for

(***************************************************************************)
(* init.lua:11 and 224-226 present flush() as what sends the buffer.  The  *)
(* code violates this: b_flush without a content type announces the        *)
(* buffer's length, sends nothing and forgets the buffer.                  *)
(***************************************************************************)
FlushSendsBuffer ==
    \A i \in DOMAIN wire : wire[i].announced = wire[i].size

(***************************************************************************)
(* With a __Finished__ hook that flushes, every handled request has been   *)
(* answered, also when its script failed or never flushed                  *)
(* (lstate.c:74-80).                                                       *)
(***************************************************************************)
HookAnswers ==
    finishedHook \in {"flush", "flush_ct"} =>
        \A r \in Requests \ pending :
            \/ r = hm /\ pc # "idle"
            \/ \E i \in DOMAIN wire : wire[i].for = r

-----------------------------------------------------------------------------
(***************************************************************************)
(* The inductive strengthening of Isolation: whoever has output in the     *)
(* buffer, or in another request's response, owes it, and is neither the   *)
(* request being handled nor one still to be handled.                      *)
(***************************************************************************)
Foreign(i, j) == wire[i].pieces[j].by # wire[i].for

OwedInv ==
    /\ pc # "idle" => hm \notin pending
    /\ \A k \in DOMAIN buf : buf[k].by \in owing \ pending
    /\ \A i \in DOMAIN wire : \A j \in DOMAIN wire[i].pieces :
          Foreign(i, j) => /\ wire[i].pieces[j].by \in owing \ pending
                           /\ pc # "idle" => wire[i].pieces[j].by # hm

(***************************************************************************)
(* The inductive strengthening of HookIsolates: from the point where the   *)
(* hook has emptied the buffer, it holds output of the current request     *)
(* only.                                                                   *)
(***************************************************************************)
OwnOutputOnly == \A k \in DOMAIN buf : buf[k].by = hm

HookInv ==
    /\ acceptHook = "clear" /\ pc \in {"script", "finish"} => OwnOutputOnly
    /\ finishedHook # "none" /\ pc # "idle" => OwnOutputOnly
    /\ finishedHook # "none" /\ pc = "idle" => buf = <<>>
=============================================================================
