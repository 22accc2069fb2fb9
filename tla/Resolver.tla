------------------------------ MODULE Resolver ------------------------------
(***************************************************************************)
(* A connection to a host given by name (mongoose.c: mg_connect_opt,       *)
(* resolve_cb, mg_resolve_async_opt, mg_resolve_async_eh).                 *)
(*                                                                         *)
(* While the name is resolved the new connection is in no list; a second,  *)
(* UDP connection sends the queries.  Each has a pointer to the other: the *)
(* request that of the one to call back, mg_set_timer that of the one to   *)
(* set a timer on.  Queries and answers are lost, repeated and reordered.  *)
(***************************************************************************)
EXTENDS Naturals, Sequences, FiniteSets

CONSTANTS RsRetries,  \* max_retries
          RsTimeout,  \* timeout, in ticks of the clock
          RsAnswers   \* how many answers come, the repeated ones included

ASSUME RsAssumption ==
    RsRetries \in Nat \ {0} /\ RsTimeout \in Nat \ {0} /\ RsAnswers \in Nat

VARIABLES
    nc,       \* the connection that waits
    dns,      \* the connection to the name server, with its request
    net,      \* queries and answers under way
    step      \* where the loop is with dns

rsVars == <<nc, dns, net, step>>

Answers == {"a", "other", "none"}   \* an A record, other records, or nothing usable

RsInit ==
    /\ nc = [where |-> "resolving", resolving |-> TRUE, ci |-> FALSE, timer |-> "off", told |-> <<>>]
    /\ dns = [alive |-> TRUE, flags |-> {"CONNECTING"}, query |-> FALSE, timer |-> "off",
              req |-> TRUE, retries |-> 0, age |-> 0, err |-> "ok", callbacks |-> 0]
    /\ net = [queries |-> 0, answers |-> [a \in Answers |-> 0], came |-> 0]
    /\ step = "idle"

-----------------------------------------------------------------------------
(* The network, the clock and the program.                                  *)

ServerAnswers ==
    /\ net.queries > 0 /\ net.came < RsAnswers
    /\ \E a \in Answers, again \in BOOLEAN :
          net' = [net EXCEPT !.answers[a] = @ + 1, !.came = @ + 1,
                             !.queries = IF again THEN @ ELSE @ - 1]
    /\ UNCHANGED <<nc, dns, step>>

\* What the loop is about to read has arrived already.
NetworkLoses ==
    /\ step # "read"
    /\ \/ net.queries > 0 /\ net' = [net EXCEPT !.queries = @ - 1]
       \/ \E a \in Answers : net.answers[a] > 0 /\ net' = [net EXCEPT !.answers[a] = @ - 1]
    /\ UNCHANGED <<nc, dns, step>>

Tick == /\ dns.alive /\ dns.age < RsTimeout /\ dns' = [dns EXCEPT !.age = @ + 1]
        /\ UNCHANGED <<nc, net, step>>

\* mg_set_timer: while resolving, on the other connection as well.
SetTimer ==
    /\ step = "idle" /\ nc.where # "gone" /\ nc.timer = "off" /\ nc.told = <<>>
    /\ nc' = [nc EXCEPT !.timer = "armed"]
    /\ dns' = IF nc.resolving THEN [dns EXCEPT !.timer = "armed"] ELSE dns
    /\ UNCHANGED <<net, step>>

TimerRunsOut ==
    /\ nc.timer = "armed" \/ dns.timer = "armed"
    /\ nc' = IF nc.timer = "armed" THEN [nc EXCEPT !.timer = "due"] ELSE nc
    /\ dns' = IF dns.timer = "armed" THEN [dns EXCEPT !.timer = "due"] ELSE dns
    /\ UNCHANGED <<net, step>>

\* The program no longer wants the connection; in no list, it cannot be closed yet.
MarkClosed == /\ step = "idle" /\ nc.where # "gone" /\ ~nc.ci /\ nc' = [nc EXCEPT !.ci = TRUE]
              /\ UNCHANGED <<dns, net, step>>

-----------------------------------------------------------------------------
(* resolve_cb.                                                              *)

\* Wrong: MG_F_RESOLVING stays.
StillResolving(c, answer, err) ==
    IF answer = "a" THEN [c EXCEPT !.where = "listed"]
    ELSE [c EXCEPT !.where = "gone", !.told = @ \o <<"connect", "close">>]

\* Wrong: the program is not told of the end.
NoCloseEvent(c, answer, err) ==
    IF answer = "a" THEN [c EXCEPT !.resolving = FALSE, !.where = "listed"]
    ELSE [c EXCEPT !.resolving = FALSE, !.where = "gone", !.told = @ \o <<"connect">>]

\* The connection c after the callback with an answer, or with an error alone.
Resolved(c, answer, err) ==
    IF answer = "a" THEN [c EXCEPT !.resolving = FALSE, !.where = "listed"]
    ELSE [c EXCEPT !.resolving = FALSE, !.where = "gone",
                   !.told = @ \o (IF err = "timeout" THEN <<"timer">> ELSE <<>>)
                              \o <<"connect", "close">>]

\* mg_send_dns_query.
Query(d) == [d EXCEPT !.query = TRUE, !.age = 0, !.retries = @ + 1]

-----------------------------------------------------------------------------
(* mg_resolve_async_eh, called by the loop on dns.                          *)

To(s) == step' = s
EndOfRead(d) == To(IF "CI" \in d.flags THEN "close" ELSE IF d.query THEN "write" ELSE "poll")

\* Readiness is sampled: an answer under way may be there or not yet.
Turn ==
    /\ step = "idle" /\ dns.alive
    /\ IF "CONNECTING" \in dns.flags THEN To("connect")
       ELSE \/ \E a \in Answers : net.answers[a] > 0 /\ To("read")
            \/ To(IF dns.query THEN "write" ELSE "poll")
    /\ UNCHANGED <<nc, dns, net>>

\* No socket for the queries: nc->err, and MG_F_CLOSE_IMMEDIATELY after the event.
OnConnect ==
    /\ step = "connect"
    /\ \E failed \in BOOLEAN :
          dns' = Query([dns EXCEPT !.flags = IF failed THEN {"CI"} ELSE {}])
    /\ EndOfRead(dns') /\ UNCHANGED <<nc, net>>

OnRecv ==
    /\ step = "read"
    /\ \E a \in {b \in Answers : net.answers[b] > 0} :
          /\ net' = [net EXCEPT !.answers[a] = @ - 1]
          /\ IF a = "none"
             THEN dns' = [dns EXCEPT !.err = "no_answers", !.flags = @ \cup {"CI"}] /\ UNCHANGED nc
             ELSE /\ nc' = Resolved(nc, a, "ok")
                  /\ dns' = [dns EXCEPT !.req = FALSE, !.callbacks = @ + 1, !.flags = @ \cup {"CI"}]
    /\ EndOfRead(dns')

\* Whether or not the write failed, it is tried again only after the timeout.
OnSend ==
    /\ step = "write"
    /\ \E failed \in BOOLEAN :
          net' = IF failed THEN net ELSE [net EXCEPT !.queries = @ + 1]
    /\ dns' = [dns EXCEPT !.query = FALSE, !.flags = @ \ {"CI"}]
    /\ To("poll") /\ UNCHANGED nc

OnPoll ==
    /\ step = "poll"
    /\ dns' = IF dns.retries > RsRetries
              THEN [dns EXCEPT !.err = "exceeded", !.flags = @ \cup {"CI"}]
              ELSE IF dns.age >= RsTimeout THEN Query(dns) ELSE dns
    /\ To(IF dns.timer = "due" THEN "timer" ELSE "close") /\ UNCHANGED <<nc, net>>

OnTimer ==
    /\ step = "timer"
    /\ dns' = [dns EXCEPT !.timer = "off", !.err = "timeout", !.flags = @ \cup {"CI"}]
    /\ To("close") /\ UNCHANGED <<nc, net>>

\* mg_close_conn of dns: a request that is not done is called back now.
Closed(d) == [d EXCEPT !.alive = FALSE, !.req = FALSE, !.timer = "off",
                       !.callbacks = IF d.req THEN @ + 1 ELSE @]
CalledBack(c, d) == IF d.req THEN Resolved(c, "no message", d.err) ELSE c

\* The walk that closes; nc is in the list when it was resolved in this poll.
CloseWalk ==
    /\ step = "close"
    /\ IF "CI" \in dns.flags
       THEN /\ dns' = Closed(dns)
            /\ nc' = LET c == CalledBack(nc, dns)
                     IN  IF c.where = "listed" /\ c.ci
                         THEN [c EXCEPT !.where = "gone", !.told = Append(@, "close")] ELSE c
       ELSE UNCHANGED <<nc, dns>>
    /\ To("idle") /\ UNCHANGED net

\* Polls once dns is closed: the connection in the list has its timer fired and
\* is closed when marked.
PollListed ==
    /\ step = "idle" /\ ~dns.alive /\ nc.where = "listed"
    /\ nc.ci \/ nc.timer = "due"
    /\ nc' = LET t == IF nc.timer = "due" /\ ~nc.ci
                      THEN [nc EXCEPT !.timer = "off", !.told = Append(@, "timer")] ELSE nc
             IN  IF nc.ci THEN [t EXCEPT !.where = "gone", !.told = Append(@, "close")] ELSE t
    /\ UNCHANGED <<dns, net, step>>

\* mg_mgr_free closes what is in the list: dns or what it has resolved to.
FreeWhileResolving ==
    /\ step = "idle" /\ dns.alive
    /\ dns' = Closed(dns) /\ nc' = CalledBack(nc, dns)
    /\ UNCHANGED <<net, step>>

LoopOnDns == Turn \/ OnConnect \/ OnRecv \/ OnSend \/ OnPoll \/ OnTimer \/ CloseWalk \/ PollListed
RsNext == \/ LoopOnDns \/ ServerAnswers \/ NetworkLoses \/ Tick
          \/ SetTimer \/ TimerRunsOut \/ MarkClosed \/ FreeWhileResolving

RsSpec == RsInit /\ [][RsNext]_rsVars

-----------------------------------------------------------------------------
(* Properties.                                                              *)

RsTypeOK ==
    /\ nc.where \in {"resolving", "listed", "gone"}
    /\ dns.flags \subseteq {"CONNECTING", "CI"}
    /\ dns.age \in 0..RsTimeout
    /\ step \in {"idle", "connect", "read", "write", "poll", "timer", "close"}

\* The callback is called once for each request: when dns is closed it was called,
\* with an answer or with an error, and never twice (mg_resolve_async_eh).
CallbackOnce == dns.callbacks = IF dns.req THEN 0 ELSE 1

\* Neither connection follows a pointer to the other once that one is freed: the
\* request's to the one that waits, and priv_2 that mg_set_timer writes through.
PointersLive == /\ dns.req => nc.where = "resolving"
                /\ nc.resolving => dns.alive

\* A name server is asked at most one time more than max_retries.
QueriesBounded == dns.retries <= RsRetries + 1

\* The program is told of the end of its connection once, after everything else, and
\* of a failure to connect before that.
ToldInOrder ==
    LET told == nc.told
        Times(e) == Cardinality({i \in DOMAIN told : told[i] = e})
    IN  /\ Times("close") = IF nc.where = "gone" THEN 1 ELSE 0
        /\ Times("close") = 1 => told[Len(told)] = "close"
        /\ Times("timer") <= 1 /\ Times("connect") <= 1

\* A resolution has one outcome, that neither connection outlives.
Resolves == CallbackOnce /\ PointersLive

\* The program sees a connection that fails, and no more queries than it allowed.
Reported == ToldInOrder /\ QueriesBounded

\* Resolution ends although every query or answer may be lost, and a timer set
\* meanwhile is not forgotten: it fires or the connection ends.
RsSettled == nc.where = "gone" \/ (nc.where = "listed" /\ nc.timer # "due")
=============================================================================
