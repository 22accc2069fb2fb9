--------------------------- MODULE NetworkProofs ---------------------------
(***************************************************************************)
(* Proofs about Resolver, Links and MCNetwork: a resolution has one        *)
(* outcome, that neither connection outlives, and the program is told of   *)
(* it in order; whichever of two linked connections ends first, the other  *)
(* forgets it, and a client that stays gets a status and all of the output *)
(* of a program; and the event loop, the resolution and the linked         *)
(* connections keep their promises side by side.                           *)
(***************************************************************************)
EXTENDS MCNetwork, EventLoopProofs, FiniteSetTheorems, SequenceTheorems, TLAPS

-----------------------------------------------------------------------------
(* Name resolution.                                                         *)

Wheres == {"resolving", "listed", "gone"}
Timers == {"off", "armed", "due"}
Errors == {"ok", "no_answers", "exceeded", "timeout"}
Steps == {"idle", "connect", "read", "write", "poll", "timer", "close"}

\* What the program may have been told of while its connection is there, and at its
\* end: there is no other sequence.
ToldSoFar == {<<>>, <<"timer">>}
ToldAtEnd == {<<"close">>, <<"timer", "close">>, <<"connect", "close">>,
              <<"timer", "connect", "close">>}

Ages == 0..RsTimeout
NcSet == [where : Wheres, resolving : BOOLEAN, ci : BOOLEAN, timer : Timers,
          told : ToldSoFar \cup ToldAtEnd]
DnsSet == [alive : BOOLEAN, flags : SUBSET {"CONNECTING", "CI"}, query : BOOLEAN,
           timer : Timers, req : BOOLEAN, retries : Nat, age : Ages,
           err : Errors, callbacks : Nat]
RsDomains == nc \in NcSet /\ dns \in DnsSet /\ step \in Steps

\* The two connections wait for each other exactly as long as the request is there.
RequestHeld == /\ nc.resolving <=> dns.req
               /\ nc.resolving <=> nc.where = "resolving"
               /\ dns.req => dns.alive
               /\ dns.callbacks = IF dns.req THEN 0 ELSE 1

\* A dns that has called back is marked to be closed until the walk that closes, and
\* only OnRecv, OnPoll and OnTimer mark it.
LoopOnLive == /\ step # "idle" => dns.alive
              /\ dns.alive /\ step # "close" => dns.req
              /\ dns.alive /\ ~dns.req => "CI" \in dns.flags

\* The first query is sent at MG_EV_CONNECT, that comes once.
FirstQuery == /\ "CONNECTING" \in dns.flags => dns.retries = 0
              /\ step = "connect" => "CONNECTING" \in dns.flags
              /\ "CONNECTING" \in dns.flags => step \in {"idle", "connect"}

ToldSo == /\ nc.where = "resolving" => nc.told = <<>>
          /\ nc.where = "listed" => nc.told = <<>> \/ (nc.told = <<"timer">> /\ nc.timer = "off")
          /\ nc.where = "gone" => nc.told \in ToldAtEnd

RsInv == RsDomains /\ RequestHeld /\ LoopOnLive /\ FirstQuery /\ ToldSo /\ QueriesBounded

-----------------------------------------------------------------------------
(* What the program is told of.                                             *)

\* The events that ToldInOrder is about.
Tellable == {"timer", "connect", "close"}

LEMMA FailureTold ==
    /\ <<>> \o <<"timer">> \o <<"connect", "close">> = <<"timer", "connect", "close">>
    /\ <<>> \o <<>> \o <<"connect", "close">> = <<"connect", "close">>
<1>1. /\ <<>> \in Seq(Tellable) /\ <<"timer">> \in Seq(Tellable)
      /\ <<"connect", "close">> \in Seq(Tellable)
      /\ <<"timer", "connect", "close">> \in Seq(Tellable)
  BY DEF Tellable
<1>2. <<>> \o <<"timer">> = <<"timer">> /\ <<>> \o <<>> = <<>>
      /\ <<>> \o <<"connect", "close">> = <<"connect", "close">>
  BY <1>1, ConcatEmptySeq
<1>3. <<"timer">> \o <<"connect", "close">> = <<"timer", "connect", "close">>
  <2> DEFINE s == <<"timer">> \o <<"connect", "close">>
             t == <<"timer", "connect", "close">>
  <2>1. s \in Seq(Tellable) /\ Len(s) = 3 /\ Len(t) = 3
        /\ s[1] = "timer" /\ s[2] = "connect" /\ s[3] = "close"
    <3>1. Len(<<"timer">>) = 1 /\ Len(<<"connect", "close">>) = 2 /\ Len(t) = 3
      OBVIOUS
    <3>2. \A i \in 1..3 : s[i] = IF i <= 1 THEN <<"timer">>[i] ELSE <<"connect", "close">>[i - 1]
      BY <1>1, <3>1, ConcatProperties
    <3> QED
      BY <1>1, <3>1, <3>2, ConcatProperties
  <2>2. \A i \in 1..3 : s[i] = t[i]
    BY <2>1
  <2> QED
    BY <1>1, <2>1, <2>2, SeqEqual, ZenonT(30)
<1> QED
  BY <1>2, <1>3

\* What the walks that fire timers and close connections add.
LEMMA ToldAppend ==
    /\ Append(<<>>, "timer") = <<"timer">> /\ Append(<<>>, "close") = <<"close">>
    /\ Append(<<"timer">>, "close") = <<"timer", "close">>
<1>1. /\ <<"timer">> \in Seq(Tellable) /\ <<"timer", "close">> \in Seq(Tellable)
      /\ "close" \in Tellable
  BY DEF Tellable
<1>2. Len(<<"timer">>) = 1 /\ Len(<<"timer", "close">>) = 2
  OBVIOUS
<1>3. /\ Append(<<"timer">>, "close") \in Seq(Tellable)
      /\ Len(Append(<<"timer">>, "close")) = 2
      /\ Append(<<"timer">>, "close")[1] = "timer"
      /\ Append(<<"timer">>, "close")[2] = "close"
  BY <1>1, <1>2, AppendProperties
<1>4. \A i \in 1..2 : Append(<<"timer">>, "close")[i] = <<"timer", "close">>[i]
  BY <1>3
<1>5. Append(<<"timer">>, "close") = <<"timer", "close">>
  BY <1>1, <1>2, <1>3, <1>4, SeqEqual
<1> QED
  BY <1>5

\* resolve_cb: what a failure adds to what the program knows, which is nothing while
\* its connection waits for the name.
LEMMA ResolvedOutcome ==
    ASSUME nc \in NcSet, nc.told = <<>>, NEW answer, NEW err
    PROVE  LET c == Resolved(nc, answer, err)
           IN  /\ c \in NcSet /\ ~c.resolving
               /\ IF answer = "a" THEN c.where = "listed" /\ c.told = <<>>
                  ELSE c.where = "gone" /\ c.told \in ToldAtEnd
<1>1. CASE answer = "a"
  BY <1>1 DEF Resolved, NcSet, Wheres
<1>2. CASE answer # "a"
  <2>1. Resolved(nc, answer, err) =
          [nc EXCEPT !.resolving = FALSE, !.where = "gone",
                     !.told = IF err = "timeout" THEN <<"timer", "connect", "close">>
                              ELSE <<"connect", "close">>]
    BY FailureTold, <1>2 DEF Resolved, NcSet
  <2> QED
    BY <2>1, <1>2 DEF NcSet, Wheres, ToldAtEnd
<1> QED
  BY <1>1, <1>2

\* mg_close_conn of dns: it is closed, its request is done and was called back once.
LEMMA ClosedOutcome ==
    ASSUME dns \in DnsSet, RequestHeld
    PROVE  /\ Closed(dns) \in DnsSet /\ Closed(dns).callbacks = 1
           /\ ~Closed(dns).alive /\ ~Closed(dns).req
           /\ Closed(dns).flags = dns.flags /\ Closed(dns).retries = dns.retries
<1>1. "off" \in Timers /\ (IF dns.req THEN dns.callbacks + 1 ELSE dns.callbacks) = 1
  BY DEF Timers, DnsSet, RequestHeld
<1>2. Closed(dns) = [dns EXCEPT !.alive = FALSE, !.req = FALSE, !.timer = "off", !.callbacks = 1]
  BY <1>1 DEF Closed
<1>3. FALSE \in BOOLEAN /\ 1 \in Nat
  OBVIOUS
<1>4. Closed(dns) \in DnsSet
  BY <1>1, <1>2, <1>3 DEF DnsSet
<1> QED
  BY <1>2, <1>4 DEF DnsSet

\* The other one is told of the error then, unless it was told before.
LEMMA CalledBackOutcome ==
    ASSUME nc \in NcSet, RequestHeld, ToldSo
    PROVE  LET c == CalledBack(nc, dns)
           IN  /\ c \in NcSet /\ ~c.resolving /\ c.where \in {"listed", "gone"}
               /\ c.where = "listed" => c.told = <<>> \/ (c.told = <<"timer">> /\ c.timer = "off")
               /\ c.where = "gone" => c.told \in ToldAtEnd
<1>1. CASE dns.req
  <2>1. nc.told = <<>>
    BY <1>1 DEF ToldSo, RequestHeld
  <2>2. CalledBack(nc, dns) = Resolved(nc, "no message", dns.err)
    BY <1>1 DEF CalledBack
  <2> DEFINE c == Resolved(nc, "no message", dns.err)
  <2>3. c \in NcSet /\ ~c.resolving /\ c.where = "gone" /\ c.told \in ToldAtEnd
    BY <2>1, ResolvedOutcome
  <2> HIDE DEF c
  <2> QED
    BY <2>2, <2>3 DEF c
<1>2. CASE ~dns.req
  BY <1>2 DEF CalledBack, ToldSo, RequestHeld, NcSet, Wheres
<1> QED
  BY <1>1, <1>2

-----------------------------------------------------------------------------
(* The invariant.                                                           *)

LEMMA RsInvInit == RsInit => RsInv
BY RsAssumption
DEF RsAssumption, RsInit, RsInv, RsDomains, NcSet, DnsSet, Ages, Wheres, Timers, Errors, Steps,
    ToldSoFar, RequestHeld, LoopOnLive, FirstQuery, ToldSo, QueriesBounded

LEMMA RsInvNext == RsInv /\ [RsNext]_rsVars => RsInv'
<1> SUFFICES ASSUME RsInv, [RsNext]_rsVars PROVE RsInv'
  OBVIOUS
<1> USE DEF RsInv, RsDomains, RequestHeld, LoopOnLive, FirstQuery, ToldSo
<1>1. /\ nc \in NcSet /\ dns \in DnsSet /\ step \in Steps
      /\ "off" \in Timers /\ "armed" \in Timers /\ "due" \in Timers
      /\ "no_answers" \in Errors /\ "exceeded" \in Errors /\ "timeout" \in Errors
      /\ \A s \in {"idle", "connect", "read", "write", "poll", "timer", "close"} : s \in Steps
      /\ 0 \in Ages /\ dns.retries + 1 \in Nat /\ dns.callbacks + 1 \in Nat
  BY RsAssumption DEF RsAssumption, Ages, Timers, Errors, Steps, DnsSet
<1>2. dns.retries \in Nat /\ RsRetries \in Nat \ {0}
  BY RsAssumption DEF RsAssumption, DnsSet
<1>3. CASE Turn
  BY <1>1, <1>3 DEF Turn, QueriesBounded, To
<1>4. CASE OnConnect
  <2>1. PICK f \in SUBSET {"CI"} : dns' = Query([dns EXCEPT !.flags = f])
    BY <1>4 DEF OnConnect
  <2>2. /\ dns' \in DnsSet /\ dns'.flags = f /\ dns'.retries = dns.retries + 1
        /\ dns'.alive = dns.alive /\ dns'.req = dns.req /\ dns'.callbacks = dns.callbacks
    BY <1>1, <2>1 DEF DnsSet, Query
  <2>3. step = "connect" /\ nc' = nc /\ step' \in {"close", "write", "poll"}
    BY <1>4 DEF OnConnect, EndOfRead, To
  <2> QED
    BY <1>1, <1>2, <2>2, <2>3 DEF QueriesBounded
<1>5. CASE OnRecv
  <2>1. PICK a \in Answers :
          IF a = "none"
          THEN dns' = [dns EXCEPT !.err = "no_answers", !.flags = @ \cup {"CI"}] /\ UNCHANGED nc
          ELSE /\ nc' = Resolved(nc, a, "ok")
               /\ dns' = [dns EXCEPT !.req = FALSE, !.callbacks = @ + 1, !.flags = @ \cup {"CI"}]
    BY <1>5 DEF OnRecv
  <2>2. /\ dns' \in DnsSet /\ "CI" \in dns'.flags /\ dns'.retries = dns.retries
        /\ dns'.flags = dns.flags \cup {"CI"} /\ dns'.alive = dns.alive
        /\ IF a = "none" THEN dns'.req = dns.req /\ dns'.callbacks = dns.callbacks
           ELSE dns'.req = FALSE /\ dns'.callbacks = dns.callbacks + 1
    <3>1. CASE a = "none"
      <4>1. dns' = [dns EXCEPT !.err = "no_answers", !.flags = @ \cup {"CI"}]
        BY <2>1, <3>1
      <4> QED
        BY <1>1, <3>1, <4>1 DEF DnsSet
    <3>2. CASE a # "none"
      <4>1. dns' = [dns EXCEPT !.req = FALSE, !.callbacks = @ + 1, !.flags = @ \cup {"CI"}]
        BY <2>1, <3>2
      <4> QED
        BY <1>1, <3>2, <4>1 DEF DnsSet
    <3> QED
      BY <3>1, <3>2
  <2>3. step = "read" /\ step' = "close" /\ dns.req /\ nc.told = <<>>
    BY <1>5, <2>2 DEF OnRecv, EndOfRead, To
  <2>4. CASE a = "none"
    BY <1>1, <2>1, <2>2, <2>3, <2>4 DEF QueriesBounded
  <2>5. CASE a # "none"
    <3>1. /\ nc' \in NcSet /\ ~nc'.resolving
          /\ IF a = "a" THEN nc'.where = "listed" /\ nc'.told = <<>>
             ELSE nc'.where = "gone" /\ nc'.told \in ToldAtEnd
      BY <1>1, <2>1, <2>3, <2>5, ResolvedOutcome
    <3> QED
      BY <1>1, <2>2, <2>3, <2>5, <3>1 DEF QueriesBounded
  <2> QED
    BY <2>4, <2>5
<1>6. CASE OnSend
  <2>1. /\ dns' \in DnsSet /\ dns'.flags = dns.flags \ {"CI"} /\ dns'.retries = dns.retries
        /\ dns'.alive = dns.alive /\ dns'.req = dns.req /\ dns'.callbacks = dns.callbacks
    BY <1>1, <1>6 DEF OnSend, DnsSet
  <2> QED
    BY <1>1, <1>6, <2>1 DEF OnSend, To, QueriesBounded
<1>7. CASE OnPoll
  <2>1. /\ dns' \in DnsSet /\ dns'.alive = dns.alive /\ dns'.req = dns.req
        /\ dns'.callbacks = dns.callbacks
        /\ \/ dns'.flags = dns.flags \cup {"CI"} /\ dns'.retries = dns.retries
           \/ /\ dns.retries <= RsRetries /\ dns'.flags = dns.flags
              /\ dns'.retries = dns.retries \/ dns'.retries = dns.retries + 1
    <3>1. CASE dns.retries > RsRetries
      BY <1>1, <1>7, <3>1 DEF OnPoll, DnsSet
    <3>2. CASE dns.retries <= RsRetries /\ dns.age >= RsTimeout
      BY <1>1, <1>2, <1>7, <3>2 DEF OnPoll, DnsSet, Query
    <3>3. CASE dns.retries <= RsRetries /\ ~(dns.age >= RsTimeout)
      BY <1>1, <1>2, <1>7, <3>3 DEF OnPoll
    <3> QED
      BY <1>2, <3>1, <3>2, <3>3
  <2>2. "CONNECTING" \notin dns.flags
    BY <1>7 DEF OnPoll
  <2>3. step = "poll" /\ nc' = nc /\ step' \in {"timer", "close"}
    BY <1>7 DEF OnPoll, To
  <2> QED
    BY <1>1, <1>2, <2>1, <2>2, <2>3 DEF QueriesBounded
<1>8. CASE OnTimer
  <2>1. /\ dns' \in DnsSet /\ dns'.flags = dns.flags \cup {"CI"} /\ dns'.retries = dns.retries
        /\ dns'.alive = dns.alive /\ dns'.req = dns.req /\ dns'.callbacks = dns.callbacks
    BY <1>1, <1>8 DEF OnTimer, DnsSet
  <2> QED
    BY <1>1, <1>8, <2>1 DEF OnTimer, To, QueriesBounded
<1>9. CASE CloseWalk
  <2>1. CASE "CI" \in dns.flags
    <3> DEFINE c == CalledBack(nc, dns)
    <3>1. dns' = Closed(dns) /\ step' = "idle" /\ dns.alive
      BY <1>9, <2>1 DEF CloseWalk, To
    <3>2. nc' = IF c.where = "listed" /\ c.ci
                THEN [c EXCEPT !.where = "gone", !.told = Append(@, "close")] ELSE c
      BY <1>9, <2>1 DEF CloseWalk
    <3>3. /\ c \in NcSet /\ ~c.resolving /\ c.where \in {"listed", "gone"}
          /\ c.where = "listed" => c.told = <<>> \/ (c.told = <<"timer">> /\ c.timer = "off")
          /\ c.where = "gone" => c.told \in ToldAtEnd
      BY <1>1, CalledBackOutcome
    <3>4. c.where = "listed" => Append(c.told, "close") \in ToldAtEnd
      BY <3>3, ToldAppend DEF ToldAtEnd
    <3> HIDE DEF c
    <3>5. /\ nc' \in NcSet /\ ~nc'.resolving /\ nc'.where \in {"listed", "gone"}
          /\ nc'.where = "listed" => nc'.told = <<>> \/ (nc'.told = <<"timer">> /\ nc'.timer = "off")
          /\ nc'.where = "gone" => nc'.told \in ToldAtEnd
      BY <3>2, <3>3, <3>4 DEF NcSet, Wheres
    <3> QED
      BY <1>1, <3>1, <3>5, ClosedOutcome DEF QueriesBounded
  <2>2. CASE "CI" \notin dns.flags
    BY <1>1, <1>9, <2>2 DEF CloseWalk, To, QueriesBounded
  <2> QED
    BY <2>1, <2>2
<1>10. CASE PollListed
  <2>1. nc.told \in ToldSoFar /\ (nc.timer = "due" => nc.told = <<>>)
    BY <1>10 DEF PollListed, ToldSoFar
  <2>2. CASE nc.ci
    <3>1. nc' = [nc EXCEPT !.where = "gone", !.told = Append(@, "close")]
      BY <1>10, <2>2 DEF PollListed
    <3>2. Append(nc.told, "close") \in ToldAtEnd
      BY <2>1, ToldAppend DEF ToldSoFar, ToldAtEnd
    <3>3. nc' \in NcSet /\ nc'.where = "gone" /\ nc'.told \in ToldAtEnd /\ nc'.resolving = nc.resolving
      BY <1>1, <3>1, <3>2 DEF NcSet, Wheres
    <3> QED
      BY <1>1, <1>10, <3>3 DEF PollListed, QueriesBounded
  <2>3. CASE ~nc.ci
    <3>1. nc' = [nc EXCEPT !.timer = "off", !.told = Append(@, "timer")]
      BY <1>10, <2>3 DEF PollListed
    <3>2. Append(nc.told, "timer") = <<"timer">> /\ <<"timer">> \in ToldSoFar
      BY <1>10, <2>1, <2>3, ToldAppend DEF PollListed, ToldSoFar
    <3>3. /\ nc' \in NcSet /\ nc'.where = nc.where /\ nc'.resolving = nc.resolving
          /\ nc'.timer = "off" /\ nc'.told = <<"timer">>
      BY <1>1, <3>1, <3>2 DEF NcSet
    <3> QED
      BY <1>1, <1>10, <3>3 DEF PollListed, QueriesBounded
  <2> QED
    BY <2>2, <2>3
<1>11. CASE ServerAnswers
  BY <1>1, <1>11 DEF ServerAnswers, QueriesBounded
<1>12. CASE NetworkLoses
  BY <1>1, <1>12 DEF NetworkLoses, QueriesBounded
<1>13. CASE Tick
  <2>1. dns.age + 1 \in Ages
    BY <1>13, RsAssumption DEF Tick, Ages, DnsSet, RsAssumption
  <2>2. /\ dns' \in DnsSet /\ dns'.flags = dns.flags /\ dns'.retries = dns.retries
        /\ dns'.alive = dns.alive /\ dns'.req = dns.req /\ dns'.callbacks = dns.callbacks
    BY <1>1, <1>13, <2>1 DEF Tick, DnsSet
  <2> QED
    BY <1>1, <1>13, <2>2 DEF Tick, QueriesBounded
<1>14. CASE SetTimer
  <2>1. /\ dns' \in DnsSet /\ dns'.flags = dns.flags /\ dns'.retries = dns.retries
        /\ dns'.alive = dns.alive /\ dns'.req = dns.req /\ dns'.callbacks = dns.callbacks
    BY <1>1, <1>14 DEF SetTimer, DnsSet
  <2>2. /\ nc' \in NcSet /\ nc'.where = nc.where /\ nc'.resolving = nc.resolving
        /\ nc'.told = nc.told
    BY <1>1, <1>14 DEF SetTimer, NcSet
  <2>3. nc.told = <<>>
    BY <1>14 DEF SetTimer
  <2> QED
    BY <1>1, <1>14, <2>1, <2>2, <2>3 DEF SetTimer, QueriesBounded
<1>15. CASE TimerRunsOut
  <2>1. /\ dns' \in DnsSet /\ dns'.flags = dns.flags /\ dns'.retries = dns.retries
        /\ dns'.alive = dns.alive /\ dns'.req = dns.req /\ dns'.callbacks = dns.callbacks
    BY <1>1, <1>15 DEF TimerRunsOut, DnsSet
  <2>2. /\ nc' \in NcSet /\ nc'.where = nc.where /\ nc'.resolving = nc.resolving
        /\ nc'.told = nc.told /\ (nc.timer = "off" => nc'.timer = "off")
    BY <1>1, <1>15 DEF TimerRunsOut, NcSet
  <2> QED
    BY <1>1, <1>15, <2>1, <2>2 DEF TimerRunsOut, QueriesBounded
<1>16. CASE MarkClosed
  <2>1. /\ nc' \in NcSet /\ nc'.where = nc.where /\ nc'.resolving = nc.resolving
        /\ nc'.told = nc.told /\ nc'.timer = nc.timer
    BY <1>1, <1>16 DEF MarkClosed, NcSet
  <2> QED
    BY <1>1, <1>16, <2>1 DEF MarkClosed, QueriesBounded
<1>17. CASE FreeWhileResolving
  <2>1. dns' = Closed(dns) /\ nc' = CalledBack(nc, dns) /\ step' = step /\ step = "idle"
    BY <1>17 DEF FreeWhileResolving
  <2> QED
    BY <1>1, <2>1, ClosedOutcome, CalledBackOutcome DEF QueriesBounded
<1>18. CASE UNCHANGED rsVars
  BY <1>1, <1>18 DEF rsVars, QueriesBounded
<1> QED
  BY <1>3, <1>4, <1>5, <1>6, <1>7, <1>8, <1>9, <1>10, <1>11, <1>12, <1>13, <1>14, <1>15,
     <1>16, <1>17, <1>18 DEF RsNext, LoopOnDns

LEMMA RsInvHolds == RsSpec => []RsInv
BY RsInvInit, RsInvNext, PTL DEF RsSpec

-----------------------------------------------------------------------------
(* What follows from it.                                                    *)

\* How often an element is in a sequence that repeats none.
LEMMA TimesOnce ==
    ASSUME NEW s, \A i, j \in DOMAIN s : s[i] = s[j] => i = j, NEW e
    PROVE  Cardinality({i \in DOMAIN s : s[i] = e}) = IF \E i \in DOMAIN s : s[i] = e THEN 1 ELSE 0
<1>1. CASE \E i \in DOMAIN s : s[i] = e
  <2>1. PICK k \in DOMAIN s : s[k] = e
    BY <1>1
  <2>2. {i \in DOMAIN s : s[i] = e} = {k}
    BY <2>1
  <2> QED
    BY <1>1, <2>2, FS_Singleton
<1>2. CASE ~\E i \in DOMAIN s : s[i] = e
  <2>1. {i \in DOMAIN s : s[i] = e} = {}
    BY <1>2
  <2> QED
    BY <1>2, <2>1, FS_EmptySet
<1> QED
  BY <1>1, <1>2

\* No sequence of events that the invariant allows repeats one, and those of the end
\* are the ones that have MG_EV_CLOSE, as the last.
LEMMA ToldShape ==
    ASSUME NEW s \in ToldSoFar \cup ToldAtEnd
    PROVE  /\ \A i, j \in DOMAIN s : s[i] = s[j] => i = j
           /\ (\E i \in DOMAIN s : s[i] = "close") <=> s \in ToldAtEnd
           /\ s \in ToldAtEnd => s[Len(s)] = "close"
<1>1. CASE s = <<>>
  <2>1. <<>> \notin ToldAtEnd
    BY DEF ToldAtEnd
  <2> QED
    BY <1>1, <2>1
<1>2. CASE s = <<"timer">>
  <2>1. <<"timer">> \notin ToldAtEnd
    BY DEF ToldAtEnd
  <2> QED
    BY <1>2, <2>1
<1>3. CASE s = <<"close">>
  BY <1>3 DEF ToldAtEnd
<1>4. CASE s = <<"timer", "close">>
  BY <1>4 DEF ToldAtEnd
<1>5. CASE s = <<"connect", "close">>
  BY <1>5 DEF ToldAtEnd
<1>6. CASE s = <<"timer", "connect", "close">>
  BY <1>6 DEF ToldAtEnd
<1> QED
  BY <1>1, <1>2, <1>3, <1>4, <1>5, <1>6 DEF ToldSoFar, ToldAtEnd

LEMMA ToldFromInv == RsInv => ToldInOrder
<1> SUFFICES ASSUME RsInv PROVE ToldInOrder
  OBVIOUS
<1> DEFINE Times(e) == Cardinality({i \in DOMAIN nc.told : nc.told[i] = e})
<1>1. nc.told \in ToldSoFar \cup ToldAtEnd
  BY DEF RsInv, RsDomains, NcSet
<1>2. nc.where = "gone" <=> nc.told \in ToldAtEnd
  <2>1. <<>> \notin ToldAtEnd /\ <<"timer">> \notin ToldAtEnd
    BY DEF ToldAtEnd
  <2> QED
    BY <2>1 DEF RsInv, RsDomains, ToldSo, NcSet, Wheres
<1>3. \A e : Times(e) = IF \E i \in DOMAIN nc.told : nc.told[i] = e THEN 1 ELSE 0
  BY <1>1, ToldShape, TimesOnce
<1>4. Times("close") = IF nc.told \in ToldAtEnd THEN 1 ELSE 0
  BY <1>1, <1>3, ToldShape
<1>5. nc.told \in ToldAtEnd => nc.told[Len(nc.told)] = "close"
  BY <1>1, ToldShape
<1>6. Times("timer") <= 1 /\ Times("connect") <= 1
  <2>1. /\ Times("timer") = 0 \/ Times("timer") = 1
        /\ Times("connect") = 0 \/ Times("connect") = 1
    BY <1>3
  <2> QED
    BY <2>1
<1> QED
  BY <1>2, <1>4, <1>5, <1>6 DEF ToldInOrder

\* A resolution has one outcome, that neither connection outlives: the callback is
\* called once for a request, and neither of the two pointers is left behind, however
\* often queries and answers are lost or repeated and whenever the manager is freed
\* (resolve_cb, mg_resolve_async_eh).
THEOREM ResolvesHolds == RsSpec => []Resolves
<1>1. RsInv => Resolves
  BY DEF RsInv, RsDomains, NcSet, RequestHeld, Resolves, CallbackOnce, PointersLive
<1> QED
  BY <1>1, RsInvHolds, PTL

\* The program is told of the end of its connection once and last, of a failure to
\* connect before it, and a name server is asked at most once more than max_retries
\* (resolve_cb, mg_resolve_async_eh).
THEOREM ReportedHolds == RsSpec => []Reported
<1>1. RsInv => Reported
  BY ToldFromInv DEF RsInv, Reported
<1> QED
  BY <1>1, RsInvHolds, PTL

\* The variables stay in their domains.
THEOREM ResolverTyped == RsSpec => []RsTypeOK
<1>1. RsInv => RsTypeOK
  BY DEF RsInv, RsDomains, NcSet, DnsSet, Wheres, Ages, Steps, RsTypeOK
<1> QED
  BY <1>1, RsInvHolds, PTL

-----------------------------------------------------------------------------
(* Linked connections.                                                      *)

Items == {"status", "error", "byte"}
Outputs == Seq(Items)
FrontSet == [alive : BOOLEAN, flags : SUBSET {"SAC", "CI"}, linked : BOOLEAN, parse : BOOLEAN,
             out : Outputs, done : Nat, peer : {"up", "gone"}]
BackSet == [alive : BOOLEAN, flags : SUBSET {"CONNECTING", "SAC", "CI"}, linked : BOOLEAN,
            recv : Nat, send : Nat, cut : BOOLEAN]
FarSet == [left : Nat, size : Nat, ok : BOOLEAN, state : {"up", "ended"}, in : Nat]
LkDomains == /\ mode \in {"cgi", "proxy"} /\ walk \in {"events", "front"}
             /\ front \in FrontSet /\ back \in BackSet /\ far \in FarSet
             /\ front.done <= Len(front.out) /\ far.in + far.left <= far.size

\* The pointers go together, and they are there as long as both connections are.
Paired == /\ front.linked <=> back.linked
          /\ front.linked <=> front.alive /\ back.alive

\* An unwanted end of a program's socket is seen in its flags, and so is what was not
\* read of its output.
ProgramEnds ==
    mode = "cgi" =>
        /\ "CONNECTING" \notin back.flags
        /\ far.state = "ended" => far.left = 0
        /\ back.cut => "CI" \in back.flags

\* Until the program's output begins, nothing is sent; then nothing is kept back.
HeadFirst ==
    mode = "cgi" => IF front.parse THEN front.out = <<>> /\ back.recv < LkHead
                    ELSE front.out # <<>> /\ back.recv = 0

\* Every byte of a program is still to be said, under way, kept or queued.
Conserved ==
    mode = "cgi" /\ front.alive /\ far.ok /\ ~back.cut =>
        /\ far.left + far.in + back.recv + (IF front.parse THEN 0 ELSE Len(front.out) - 1) = far.size
        /\ back.flags # {} \/ ~back.alive => far.state = "ended" /\ far.in = 0

\* Only a client that leaves and the end of the program's socket end the client's.
EndsForGood ==
    mode = "cgi" /\ front.alive /\ far.ok /\ front.peer = "up" =>
        "CI" \notin front.flags /\ ("SAC" \in front.flags => ~back.alive)

LkInv == /\ LkDomains /\ Paired /\ CgiTogether /\ ProgramEnds /\ HeadFirst /\ StatusFirst
         /\ Conserved /\ EndsForGood /\ CgiComplete

-----------------------------------------------------------------------------
(* What is queued for the client.                                           *)

LEMMA Queued ==
    ASSUME NEW o \in Outputs, NEW items \in Outputs
    PROVE  /\ o \o items \in Outputs /\ Len(o \o items) = Len(o) + Len(items)
           /\ \A i \in 1..Len(o) : (o \o items)[i] = o[i]
           /\ \A i \in Len(o) + 1..Len(o) + Len(items) : (o \o items)[i] = items[i - Len(o)]
<1> DEFINE m == Len(o)  n == Len(items)
<1>1. m \in Nat /\ n \in Nat
  BY DEF Outputs
<1>2. /\ o \o items \in Outputs /\ Len(o \o items) = m + n
      /\ \A i \in 1..m + n : (o \o items)[i] = IF i <= m THEN o[i] ELSE items[i - m]
  BY ConcatProperties DEF Outputs
<1> HIDE DEF m, n
<1>3. \A i \in 1..m : i \in 1..m + n /\ i <= m
  BY <1>1
<1>4. \A i \in m + 1..m + n : i \in 1..m + n /\ ~(i <= m)
  BY <1>1
<1>5. /\ \A i \in 1..m : (o \o items)[i] = o[i]
      /\ \A i \in m + 1..m + n : (o \o items)[i] = items[i - m]
  BY <1>2, <1>3, <1>4
<1> QED
  BY <1>2, <1>5 DEF m, n

LEMMA BytesAre ==
    ASSUME NEW n \in Nat
    PROVE  Bytes(n) \in Outputs /\ Len(Bytes(n)) = n /\ \A i \in 1..n : Bytes(n)[i] = "byte"
BY DEF Bytes, Outputs, Items

\* A program's first output: a status or an error, then all that has come.
LEMMA OutputBegins ==
    ASSUME NEW first \in {"status", "error"}, NEW n \in Nat
    PROVE  LET o == <<>> \o <<first>> \o Bytes(n)
           IN  /\ o \in Outputs /\ Len(o) = 1 + n /\ o[1] = first
               /\ \A i \in 2..1 + n : o[i] = "byte"
<1>1. <<>> \in Outputs /\ <<first>> \in Outputs /\ Len(<<first>>) = 1 /\ <<first>>[1] = first
  BY DEF Outputs, Items
<1>2. <<>> \o <<first>> = <<first>>
  BY <1>1, ConcatEmptySeq DEF Outputs
<1>3. /\ <<first>> \o Bytes(n) \in Outputs /\ Len(<<first>> \o Bytes(n)) = 1 + n
      /\ (<<first>> \o Bytes(n))[1] = first
      /\ \A i \in 2..1 + n : (<<first>> \o Bytes(n))[i] = Bytes(n)[i - 1]
  <2>1. Bytes(n) \in Outputs /\ Len(Bytes(n)) = n
    BY BytesAre
  <2>2. /\ \A i \in 1..1 : (<<first>> \o Bytes(n))[i] = <<first>>[i]
        /\ \A i \in 1 + 1..1 + n : (<<first>> \o Bytes(n))[i] = Bytes(n)[i - 1]
        /\ <<first>> \o Bytes(n) \in Outputs /\ Len(<<first>> \o Bytes(n)) = 1 + n
    <3> DEFINE b == Bytes(n)  f == <<first>>
    <3>1. f \in Outputs /\ Len(f) = 1 /\ b \in Outputs /\ Len(b) = n
      BY <1>1, <2>1
    <3> HIDE DEF b, f
    <3>2. /\ f \o b \in Outputs /\ Len(f \o b) = Len(f) + Len(b)
          /\ \A i \in 1..Len(f) : (f \o b)[i] = f[i]
          /\ \A i \in Len(f) + 1..Len(f) + Len(b) : (f \o b)[i] = b[i - Len(f)]
      BY <3>1, Queued
    <3> QED
      BY <3>1, <3>2 DEF b, f
  <2> QED
    BY <1>1, <2>2
<1>4. \A i \in 2..1 + n : Bytes(n)[i - 1] = "byte"
  BY BytesAre
<1> QED
  BY <1>2, <1>3, <1>4

\* What comes later: nothing but bytes.
LEMMA OutputContinues ==
    ASSUME NEW o \in Outputs, o # <<>>, \A i \in 2..Len(o) : o[i] = "byte", NEW n \in Nat
    PROVE  /\ o \o Bytes(n) \in Outputs /\ Len(o \o Bytes(n)) = Len(o) + n
           /\ (o \o Bytes(n))[1] = o[1] /\ o \o Bytes(n) # <<>>
           /\ \A i \in 2..Len(o \o Bytes(n)) : (o \o Bytes(n))[i] = "byte"
<1>1. Len(o) \in Nat \ {0}
  BY DEF Outputs
<1>2. /\ Bytes(n) \in Outputs /\ Len(Bytes(n)) = n /\ \A i \in 1..n : Bytes(n)[i] = "byte"
  BY BytesAre
<1>3. /\ o \o Bytes(n) \in Outputs /\ Len(o \o Bytes(n)) = Len(o) + n
      /\ \A i \in 1..Len(o) : (o \o Bytes(n))[i] = o[i]
      /\ \A i \in Len(o) + 1..Len(o) + n : (o \o Bytes(n))[i] = Bytes(n)[i - Len(o)]
  <2> DEFINE b == Bytes(n)
  <2>1. b \in Outputs /\ Len(b) = n
    BY <1>2
  <2> HIDE DEF b
  <2>2. /\ o \o b \in Outputs /\ Len(o \o b) = Len(o) + n
        /\ \A i \in 1..Len(o) : (o \o b)[i] = o[i]
        /\ \A i \in Len(o) + 1..Len(o) + n : (o \o b)[i] = b[i - Len(o)]
    BY <2>1, Queued
  <2> QED
    BY <2>2 DEF b
<1>4. \A i \in 2..Len(o) + n : (o \o Bytes(n))[i] = "byte"
  <2> TAKE i \in 2..Len(o) + n
  <2>1. CASE i <= Len(o)
    BY <1>1, <1>3, <2>1
  <2>2. CASE i > Len(o)
    <3>1. i \in Len(o) + 1..Len(o) + n /\ i - Len(o) \in 1..n
      BY <1>1, <2>2
    <3> QED
      BY <1>2, <1>3, <3>1
  <2>3. i <= Len(o) \/ i > Len(o)
    BY <1>1
  <2> QED
    BY <2>1, <2>2, <2>3
<1>5. Len(o \o Bytes(n)) # 0
  BY <1>1, <1>3
<1>6. Len(<<>>) = 0
  OBVIOUS
<1> QED
  BY <1>1, <1>3, <1>4, <1>5, <1>6

\* mg_cgi_ev_handler: output is kept until its head is whole, or all of it is queued
\* after a status, or after an error when its head is bad.
LEMMA CgiRecvEffect ==
    ASSUME LkInv, mode = "cgi", NEW n \in Nat, CgiRecv(n)
    PROVE  \/ /\ front.parse /\ far.ok /\ back.recv + n < LkHead
              /\ front' = front /\ back' = [back EXCEPT !.recv = back.recv + n]
           \/ \E o \in Outputs, f \in SUBSET {"SAC"}, b \in SUBSET {"CI"} :
                /\ front' = [front EXCEPT !.out = o, !.flags = @ \cup f, !.parse = FALSE]
                /\ back' = [back EXCEPT !.flags = @ \cup b, !.recv = 0]
                /\ o # <<>> /\ o[1] \in {"status", "error"}
                /\ \A i \in 2..Len(o) : o[i] = "byte"
                /\ Len(o) = (IF front.parse THEN 1 ELSE Len(front.out)) + back.recv + n
                /\ far.ok => f = {} /\ b = {}
<1> DEFINE got == back.recv + n
<1>1. got \in Nat /\ front \in FrontSet /\ back \in BackSet
  BY DEF LkInv, LkDomains, BackSet
<1>6. front.flags \cup {} = front.flags /\ back.flags \cup {} = back.flags /\ front.parse \in BOOLEAN
  BY <1>1 DEF FrontSet
<1>2. CASE front.parse /\ far.ok /\ got < LkHead
  BY <1>2 DEF CgiRecv
<1>3. CASE front.parse /\ far.ok /\ ~(got < LkHead)
  <2> DEFINE o == <<>> \o <<"status">> \o Bytes(got)
  <2>1. /\ front' = [Add(Add(front, <<"status">>), Bytes(got)) EXCEPT !.parse = FALSE]
        /\ back' = [back EXCEPT !.recv = 0]
    BY <1>3 DEF CgiRecv
  <2>2. front.out = <<>>
    BY <1>3 DEF LkInv, HeadFirst
  <2>3. front' = [front EXCEPT !.out = o, !.parse = FALSE]
    BY <1>1, <2>1, <2>2 DEF Add, FrontSet
  <2>4. o \in Outputs /\ Len(o) = 1 + got /\ o[1] = "status" /\ \A i \in 2..1 + got : o[i] = "byte"
    BY <1>1, OutputBegins
  <2> HIDE DEF o, got
  <2>5. Len(<<>>) = 0 /\ Len(o) # 0
    BY <1>1, <2>4
  <2>6. /\ front' = [front EXCEPT !.out = o, !.flags = @ \cup {}, !.parse = FALSE]
        /\ back' = [back EXCEPT !.flags = @ \cup {}, !.recv = 0]
    BY <1>6, <2>1, <2>3
  <2>7. o # <<>> /\ \A i \in 2..Len(o) : o[i] = "byte"
    BY <2>4, <2>5
  <2>8. Len(o) = 1 + back.recv + n
    BY <1>1, <2>4 DEF got, LkInv, LkDomains, BackSet
  <2> QED
    BY <1>3, <2>4, <2>6, <2>7, <2>8
<1>4. CASE front.parse /\ ~far.ok
  <2> DEFINE o == <<>> \o <<"error">> \o Bytes(got)
  <2>1. /\ front' = [Add(SendError(front), Bytes(got)) EXCEPT !.parse = FALSE]
        /\ back' = [Mark(back, "CI") EXCEPT !.recv = 0]
    BY <1>4 DEF CgiRecv
  <2>2. front.out = <<>>
    BY <1>4 DEF LkInv, HeadFirst
  <2>3. /\ front' = [front EXCEPT !.out = o, !.flags = @ \cup {"SAC"}, !.parse = FALSE]
        /\ back' = [back EXCEPT !.flags = @ \cup {"CI"}, !.recv = 0]
    BY <1>1, <2>1, <2>2 DEF Add, SendError, Mark, FrontSet, BackSet
  <2>4. o \in Outputs /\ Len(o) = 1 + got /\ o[1] = "error" /\ \A i \in 2..1 + got : o[i] = "byte"
    BY <1>1, OutputBegins
  <2> HIDE DEF o, got
  <2>5. Len(<<>>) = 0 /\ Len(o) # 0
    BY <1>1, <2>4
  <2>6. o # <<>> /\ \A i \in 2..Len(o) : o[i] = "byte"
    BY <2>4, <2>5
  <2>7. Len(o) = 1 + back.recv + n
    BY <1>1, <2>4 DEF got, LkInv, LkDomains, BackSet
  <2> QED
    BY <1>4, <2>3, <2>4, <2>6, <2>7
<1>5. CASE ~front.parse
  <2> DEFINE o == front.out \o Bytes(got)
  <2>1. /\ front' = [Add(front, Bytes(got)) EXCEPT !.parse = FALSE]
        /\ back' = [back EXCEPT !.recv = 0]
    BY <1>6, <1>5 DEF CgiRecv
  <2>2. /\ front.out \in Outputs /\ front.out # <<>> /\ front.out[1] \in {"status", "error"}
        /\ \A i \in 2..Len(front.out) : front.out[i] = "byte"
    BY <1>1, <1>5 DEF LkInv, HeadFirst, StatusFirst, FrontSet
  <2>3. front' = [front EXCEPT !.out = o, !.parse = FALSE]
    BY <1>1, <2>1 DEF Add, FrontSet
  <2>4. /\ o \in Outputs /\ Len(o) = Len(front.out) + got /\ o[1] = front.out[1] /\ o # <<>>
        /\ \A i \in 2..Len(o) : o[i] = "byte"
    BY <1>1, <2>2, OutputContinues
  <2>5. Len(o) = Len(front.out) + back.recv + n
    <3>1. Len(front.out) \in Nat /\ back.recv \in Nat
      BY <1>1, <2>2 DEF Outputs, BackSet
    <3> HIDE DEF o
    <3>2. Len(o) = Len(front.out) + (back.recv + n)
      BY <2>4
    <3> QED
      BY <3>1, <3>2
  <2> HIDE DEF o, got
  <2>6. /\ front' = [front EXCEPT !.out = o, !.flags = @ \cup {}, !.parse = FALSE]
        /\ back' = [back EXCEPT !.flags = @ \cup {}, !.recv = 0]
    BY <1>6, <2>1, <2>3
  <2> QED
    BY <1>5, <2>2, <2>4, <2>5, <2>6
<1> QED
  BY <1>2, <1>3, <1>4, <1>5

-----------------------------------------------------------------------------
(* The invariant.                                                           *)

LEMMA LkInvInit == LkInit => LkInv
<1> SUFFICES ASSUME LkInit PROVE LkInv
  OBVIOUS
<1>1. PICK md \in LkModes, n \in LkOut, p \in LkPost, ok \in BOOLEAN :
        /\ mode = md
        /\ front = [alive |-> TRUE, flags |-> {}, linked |-> TRUE, parse |-> md = "cgi",
                    out |-> <<>>, done |-> 0, peer |-> "up"]
        /\ back = [alive |-> TRUE, flags |-> IF md = "proxy" THEN {"CONNECTING"} ELSE {},
                   linked |-> TRUE, recv |-> 0, send |-> p, cut |-> FALSE]
        /\ far = [left |-> n, size |-> n, ok |-> ok, state |-> "up", in |-> 0]
        /\ walk = "events"
  BY DEF LkInit
<1>2. md \in {"cgi", "proxy"} /\ n \in Nat /\ p \in Nat /\ LkHead \in Nat \ {0}
  BY LkAssumption DEF LkAssumption
<1>3. <<>> \in Outputs /\ Len(<<>>) = 0
  BY DEF Outputs
<1>4. LkDomains
  BY <1>1, <1>2, <1>3 DEF LkDomains, FrontSet, BackSet, FarSet
<1>5. Paired /\ CgiTogether /\ ProgramEnds
  BY <1>1 DEF Paired, CgiTogether, Together, ProgramEnds
<1>6. HeadFirst /\ StatusFirst
  <2>1. front.out = <<>> /\ back.recv = 0 /\ (mode = "cgi" => front.parse) /\ 0 < LkHead
    <3>1. front.out = <<>> /\ back.recv = 0 /\ front.parse = (md = "cgi") /\ mode = md
      BY <1>1
    <3>2. 0 < LkHead
      BY <1>2
    <3>3. mode = "cgi" => front.parse
      BY <3>1, Zenon
    <3> QED
      BY <3>1, <3>2, <3>3
  <2>2. HeadFirst
    BY <2>1 DEF HeadFirst
  <2>3. \A i \in 2..Len(front.out) : FALSE
    BY <1>3, <2>1
  <2> QED
    BY <2>1, <2>2, <2>3 DEF StatusFirst
<1>7. Conserved /\ EndsForGood /\ CgiComplete
  <2>1. mode = "cgi" => md = "cgi" /\ front.parse /\ back.flags = {} /\ back.alive
    BY <1>1
  <2> QED
    BY <1>1, <1>2, <2>1 DEF Conserved, EndsForGood, CgiComplete
<1> QED
  BY <1>4, <1>5, <1>6, <1>7 DEF LkInv

\* A step that queues nothing leaves what the client was told, and what is queued of
\* the program's output, as they are.
LEMMA SameOutput ==
    ASSUME LkInv, mode' = mode, front'.out = front.out, front'.parse = front.parse,
           back'.recv = back.recv
    PROVE  HeadFirst' /\ StatusFirst'
BY DEF LkInv, HeadFirst, StatusFirst

\* mg_http_handler, MG_EV_HTTP_REPLY: a reply of any size is queued for the client.
LEMMA ReplyEffect ==
    ASSUME front \in FrontSet, NEW n \in Nat
    PROVE  LET f == ReplyTo(front, n)
           IN  /\ f \in FrontSet /\ f.alive = front.alive /\ f.linked = front.linked
               /\ f.done = front.done /\ Len(f.out) >= Len(front.out)
<1> DEFINE o == front.out \o Bytes(n)
<1>1. front.out \in Outputs /\ Bytes(n) \in Outputs /\ Len(Bytes(n)) = n
  BY BytesAre DEF FrontSet
<1>2. o \in Outputs /\ Len(o) = Len(front.out) + n /\ Len(front.out) \in Nat
  <2>1. Len(front.out) \in Nat
    BY <1>1 DEF Outputs
  <2> DEFINE b == Bytes(n)
  <2> HIDE DEF b
  <2>2. front.out \in Outputs /\ b \in Outputs /\ Len(b) = n
    BY <1>1 DEF b
  <2>3. front.out \o b \in Outputs /\ Len(front.out \o b) = Len(front.out) + Len(b)
    BY <2>2, Queued
  <2> QED
    BY <2>1, <2>2, <2>3 DEF b
<1>3. ReplyTo(front, n) = [front EXCEPT !.out = o, !.flags = @ \cup {"SAC"}]
  BY DEF ReplyTo, Mark, Add, FrontSet
<1> HIDE DEF o
<1>4. Len(o) >= Len(front.out)
  BY <1>2
<1> QED
  BY <1>2, <1>3, <1>4, ZenonT(30) DEF FrontSet

LEMMA LkInvNext == LkInv /\ [LkNext]_lkVars => LkInv'
<1> SUFFICES ASSUME LkInv, [LkNext]_lkVars PROVE LkInv'
  OBVIOUS
<1>1. /\ LkDomains /\ front \in FrontSet /\ back \in BackSet /\ far \in FarSet
      /\ Paired /\ CgiTogether /\ ProgramEnds /\ HeadFirst /\ StatusFirst /\ Conserved
      /\ EndsForGood /\ CgiComplete /\ LkHead \in Nat \ {0}
  BY LkAssumption DEF LkAssumption, LkInv, LkDomains
<1>2. /\ front.done \in Nat /\ Len(front.out) \in Nat /\ front.done <= Len(front.out)
      /\ far.left \in Nat /\ far.in \in Nat /\ far.size \in Nat /\ back.recv \in Nat
      /\ back.send \in Nat
  BY <1>1 DEF LkDomains, FrontSet, BackSet, FarSet, Outputs
<1> USE DEF Paired, CgiTogether, Together, ProgramEnds, EndsForGood, CgiComplete
<1>3. CASE BackConnects
  <2>1. PICK failed \in BOOLEAN :
          /\ back' = [back EXCEPT !.flags = (@ \ {"CONNECTING"}) \cup (IF failed THEN {"CI"} ELSE {})]
          /\ front' = IF failed /\ back.linked THEN SendError(front) ELSE front
    BY <1>3 DEF BackConnects
  <2>2. mode = "proxy" /\ mode' = mode /\ far' = far /\ walk' = walk
    BY <1>1, <1>3 DEF BackConnects, LkDomains, In
  <2>3. back' \in BackSet /\ back'.linked = back.linked /\ back'.alive = back.alive
    BY <1>1, <2>1 DEF BackSet
  <2>4. /\ front' \in FrontSet /\ front'.linked = front.linked /\ front'.alive = front.alive
        /\ front'.done = front.done /\ Len(front'.out) >= Len(front.out)
    <3>1. <<"error">> \in Outputs /\ Len(<<"error">>) = 1
      BY DEF Outputs, Items
    <3>2. front.out \o <<"error">> \in Outputs /\ Len(front.out \o <<"error">>) = Len(front.out) + 1
      BY <1>1, <3>1, Queued DEF FrontSet
    <3>3. CASE failed /\ back.linked
      <4> DEFINE o == front.out \o <<"error">>
      <4>1. front' = [front EXCEPT !.out = o, !.flags = @ \cup {"SAC"}]
        BY <1>1, <2>1, <3>3 DEF SendError, Mark, Add, FrontSet
      <4> HIDE DEF o
      <4>2. o \in Outputs /\ Len(o) >= Len(front.out)
        BY <1>2, <3>2 DEF o
      <4> QED
        BY <1>1, <4>1, <4>2 DEF FrontSet
    <3>4. CASE ~(failed /\ back.linked)
      <4>1. front' = front
        BY <2>1, <3>4
      <4> QED
        BY <1>1, <1>2, <4>1
    <3> QED
      BY <3>3, <3>4
  <2>5. LkDomains'
    BY <1>1, <1>2, <2>2, <2>3, <2>4 DEF LkDomains, FrontSet, Outputs
  <2> QED
    BY <1>1, <2>2, <2>3, <2>4, <2>5 DEF LkInv, HeadFirst, StatusFirst, Conserved
<1>4. CASE BackEnds
  <2>1. /\ back' = [back EXCEPT !.flags = @ \cup {"SAC"}] /\ mode' = mode /\ front' = front
        /\ far' = far /\ walk' = walk /\ far.in = 0 /\ far.state = "ended" /\ back.alive
    BY <1>4 DEF BackEnds, Mark
  <2>2. /\ back' \in BackSet /\ back'.flags = back.flags \cup {"SAC"} /\ back'.recv = back.recv
        /\ back'.alive = back.alive /\ back'.linked = back.linked /\ back'.cut = back.cut
    BY <1>1, <2>1 DEF BackSet
  <2>3. HeadFirst' /\ StatusFirst'
    BY <2>1, <2>2, SameOutput
  <2>4. LkDomains' /\ Conserved'
    BY <1>1, <2>1, <2>2 DEF LkDomains, Conserved
  <2> QED
    BY <1>1, <2>1, <2>2, <2>3, <2>4 DEF LkInv
<1>5. CASE BackWrites
  <2>1. /\ mode' = mode /\ front' = front /\ far' = far /\ walk' = walk /\ back.alive
        /\ "CI" \notin back.flags /\ "CONNECTING" \notin back.flags
    BY <1>5 DEF BackWrites
  <2>2. /\ back' \in BackSet /\ back'.recv = back.recv /\ back'.alive = back.alive
        /\ back'.linked = back.linked
        /\ \/ /\ far.state = "ended" /\ back'.flags = back.flags \cup {"CI"}
              /\ ~back'.cut => far.in = 0
           \/ /\ far.state # "ended" /\ back'.cut = back.cut
              /\ \/ Orphan /\ back'.flags = back.flags \cup {"CI"}
                 \/ back'.flags = back.flags
    <3>1. CASE far.state = "ended"
      <4> DEFINE late == far.in > 0
      <4>1. back' = [back EXCEPT !.flags = @ \cup {"CI"}, !.cut = late]
        BY <1>5, <3>1 DEF BackWrites, Mark
      <4>2. late \in BOOLEAN
        OBVIOUS
      <4> HIDE DEF late
      <4>3. /\ back' \in BackSet /\ back'.recv = back.recv /\ back'.alive = back.alive
            /\ back'.linked = back.linked /\ back'.flags = back.flags \cup {"CI"}
            /\ back'.cut = late
        BY <1>1, <4>1, <4>2 DEF BackSet
      <4>4. ~late => far.in = 0
        BY <1>2 DEF late
      <4> QED
        BY <3>1, <4>3, <4>4
    <3>2. CASE far.state # "ended" /\ Orphan
      <4>1. back' = [back EXCEPT !.send = 0, !.flags = @ \cup {"CI"}]
        BY <1>1, <1>5, <3>2 DEF BackWrites, Mark, BackSet
      <4> QED
        BY <1>1, <3>2, <4>1 DEF BackSet
    <3>3. CASE far.state # "ended" /\ ~Orphan
      BY <1>1, <1>5, <3>3 DEF BackWrites, BackSet
    <3> QED
      BY <3>1, <3>2, <3>3
  <2>3. HeadFirst' /\ StatusFirst'
    BY <2>1, <2>2, SameOutput
  <2>4. LkDomains'
    BY <1>1, <2>1, <2>2 DEF LkDomains
  <2>5. Conserved'
    <3> SUFFICES ASSUME mode = "cgi", front.alive, far.ok, ~back'.cut
                 PROVE  /\ far.left + far.in + back.recv
                             + (IF front.parse THEN 0 ELSE Len(front.out) - 1) = far.size
                        /\ back'.flags # {} => far.state = "ended" /\ far.in = 0
      BY <2>1, <2>2 DEF Conserved
    <3>1. ~back.cut /\ ~Orphan
      BY <1>1, <2>1 DEF Orphan
    <3>2. /\ far.left + far.in + back.recv
               + (IF front.parse THEN 0 ELSE Len(front.out) - 1) = far.size
          /\ back.flags # {} => far.state = "ended" /\ far.in = 0
      BY <1>1, <3>1 DEF Conserved
    <3>3. CASE far.state = "ended"
      BY <1>2, <2>2, <3>2, <3>3
    <3>4. CASE far.state # "ended"
      BY <2>2, <3>1, <3>2, <3>4
    <3> QED
      BY <3>3, <3>4
  <2> QED
    BY <1>1, <2>1, <2>2, <2>3, <2>4, <2>5 DEF LkInv
<1>6. CASE BackPoll
  <2>1. /\ back' = [back EXCEPT !.flags = @ \cup {"CI"}] /\ mode' = mode /\ front' = front
        /\ far' = far /\ walk' = walk /\ back.alive /\ ~front.alive
    BY <1>1, <1>6 DEF BackPoll, Mark, Orphan
  <2>2. /\ back' \in BackSet /\ back'.flags = back.flags \cup {"CI"} /\ back'.recv = back.recv
        /\ back'.alive = back.alive /\ back'.linked = back.linked /\ back'.cut = back.cut
    BY <1>1, <2>1 DEF BackSet
  <2>3. HeadFirst' /\ StatusFirst'
    BY <2>1, <2>2, SameOutput
  <2>4. LkDomains' /\ Conserved'
    BY <1>1, <2>1, <2>2 DEF LkDomains, Conserved
  <2> QED
    BY <1>1, <2>1, <2>2, <2>3, <2>4 DEF LkInv
<1>7. CASE FrontReads
  <2>1. PICK f \in {"SAC", "CI"} : front' = [front EXCEPT !.flags = @ \cup {f}]
    BY <1>7 DEF FrontReads, Mark
  <2>2. /\ mode' = mode /\ back' = back /\ far' = far /\ walk' = walk /\ front.alive
        /\ front.peer = "gone"
    BY <1>7 DEF FrontReads
  <2>3. /\ front' \in FrontSet /\ front'.flags = front.flags \cup {f} /\ front'.out = front.out
        /\ front'.parse = front.parse /\ front'.alive = front.alive /\ front'.done = front.done
        /\ front'.linked = front.linked /\ front'.peer = front.peer
    BY <1>1, <2>1 DEF FrontSet
  <2>4. HeadFirst' /\ StatusFirst'
    BY <2>2, <2>3, SameOutput
  <2>5. LkDomains' /\ Conserved'
    BY <1>1, <2>2, <2>3 DEF LkDomains, Conserved
  <2> QED
    BY <1>1, <2>2, <2>3, <2>4, <2>5 DEF LkInv
<1>8. CASE FrontWrites
  <2>1. /\ mode' = mode /\ back' = back /\ far' = far /\ walk' = walk /\ front.alive
    BY <1>8 DEF FrontWrites
  <2>2. /\ front' \in FrontSet /\ front'.out = front.out
        /\ front'.parse = front.parse /\ front'.alive = front.alive
        /\ front'.linked = front.linked /\ front'.peer = front.peer
        /\ \/ front.peer = "gone" /\ front'.flags = front.flags \cup {"CI"} /\ front'.done = front.done
           \/ front'.flags = front.flags /\ front'.done = Len(front.out)
    <3>1. CASE front.peer = "gone"
      <4>1. front' = [front EXCEPT !.flags = @ \cup {"CI"}]
        BY <1>8, <3>1 DEF FrontWrites, Mark
      <4> QED
        BY <1>1, <3>1, <4>1 DEF FrontSet
    <3>2. CASE front.peer # "gone"
      <4>1. front' = [front EXCEPT !.done = Len(front.out)]
        BY <1>8, <3>2 DEF FrontWrites
      <4> QED
        BY <1>1, <1>2, <4>1 DEF FrontSet
    <3> QED
      BY <3>1, <3>2
  <2>3. HeadFirst' /\ StatusFirst'
    BY <2>1, <2>2, SameOutput
  <2>4. LkDomains' /\ Conserved'
    BY <1>1, <1>2, <2>1, <2>2 DEF LkDomains, Conserved
  <2> QED
    BY <1>1, <2>1, <2>2, <2>3, <2>4 DEF LkInv
<1>9. CASE FarSays
  <2>1. /\ far' = [far EXCEPT !.left = @ - 1, !.in = @ + 1] /\ far.left > 0 /\ far.state = "up"
        /\ mode' = mode /\ front' = front /\ back' = back /\ walk' = walk
    BY <1>9 DEF FarSays
  <2>2. far.left - 1 \in Nat /\ far.in + 1 \in Nat
    BY <1>2, <2>1
  <2>3. /\ far' \in FarSet /\ far'.left = far.left - 1 /\ far'.in = far.in + 1
        /\ far'.size = far.size /\ far'.ok = far.ok /\ far'.state = far.state
    BY <1>1, <2>1, <2>2 DEF FarSet
  <2>4. HeadFirst' /\ StatusFirst'
    BY <2>1, SameOutput
  <2>5. LkDomains'
    BY <1>1, <1>2, <2>1, <2>3 DEF LkDomains
  <2>6. Conserved'
    <3> DEFINE sent == IF front.parse THEN 0 ELSE Len(front.out) - 1
    <3>1. sent \in Int
      BY <1>2
    <3> HIDE DEF sent
    <3>2. far.left + far.in = far'.left + far'.in
      BY <1>2, <2>3, SMTT(30)
    <3> QED
      BY <1>1, <2>1, <2>3, <3>2 DEF Conserved, sent
  <2> QED
    BY <1>1, <2>1, <2>3, <2>4, <2>5, <2>6 DEF LkInv
<1>10. CASE FarEnds
  <2>1. /\ far' = [far EXCEPT !.state = "ended"] /\ (mode = "cgi" => far.left = 0)
        /\ mode' = mode /\ front' = front /\ back' = back /\ walk' = walk /\ far.state = "up"
    BY <1>10 DEF FarEnds
  <2>2. /\ far' \in FarSet /\ far'.left = far.left /\ far'.in = far.in
        /\ far'.size = far.size /\ far'.ok = far.ok /\ far'.state = "ended"
    BY <1>1, <2>1 DEF FarSet
  <2>3. HeadFirst' /\ StatusFirst'
    BY <2>1, SameOutput
  <2>4. LkDomains' /\ Conserved'
    BY <1>1, <2>1, <2>2 DEF LkDomains, Conserved
  <2> QED
    BY <1>1, <2>1, <2>2, <2>3, <2>4 DEF LkInv
<1>11. CASE ClientLeaves
  <2>1. /\ front' = [front EXCEPT !.peer = "gone"] /\ front.alive
        /\ mode' = mode /\ back' = back /\ far' = far /\ walk' = walk
    BY <1>11 DEF ClientLeaves
  <2>2. /\ front' \in FrontSet /\ front'.flags = front.flags /\ front'.out = front.out
        /\ front'.parse = front.parse /\ front'.alive = front.alive /\ front'.done = front.done
        /\ front'.linked = front.linked /\ front'.peer = "gone"
    BY <1>1, <2>1 DEF FrontSet
  <2>3. HeadFirst' /\ StatusFirst'
    BY <2>1, <2>2, SameOutput
  <2>4. LkDomains' /\ Conserved'
    BY <1>1, <2>1, <2>2 DEF LkDomains, Conserved
  <2> QED
    BY <1>1, <2>1, <2>2, <2>3, <2>4 DEF LkInv
<1>12. CASE BackReads
  <2>1. PICK n \in 1..far.in :
          /\ far' = [far EXCEPT !.in = @ - n]
          /\ IF In(back, "CI") THEN back' = [back EXCEPT !.cut = TRUE] /\ UNCHANGED front
             ELSE IF Orphan THEN back' = Mark(back, "CI") /\ UNCHANGED front
             ELSE IF mode = "cgi" THEN CgiRecv(n) ELSE ProxyRecv(n)
    BY <1>12 DEF BackReads
  <2>2. mode' = mode /\ walk' = walk /\ back.alive /\ "CONNECTING" \notin back.flags
    BY <1>12 DEF BackReads, In
  <2>3. n \in Nat /\ n > 0 /\ far.in - n \in Nat
    BY <1>2
  <2>4. /\ far' \in FarSet /\ far'.left = far.left /\ far'.in = far.in - n
        /\ far'.size = far.size /\ far'.ok = far.ok /\ far'.state = far.state
    BY <1>1, <2>1, <2>3 DEF FarSet
  <2>5. far'.in + far'.left <= far'.size
    BY <1>1, <1>2, <2>3, <2>4 DEF LkDomains
  <2>6. CASE "CI" \in back.flags
    <3>1. /\ front' = front /\ back' \in BackSet /\ back'.flags = back.flags
          /\ back'.recv = back.recv /\ back'.alive = back.alive /\ back'.linked = back.linked
          /\ back'.cut
      BY <1>1, <2>1, <2>6 DEF In, BackSet
    <3>2. HeadFirst' /\ StatusFirst'
      BY <2>2, <3>1, SameOutput
    <3>3. LkDomains' /\ Conserved'
      BY <1>1, <2>2, <2>4, <2>5, <3>1 DEF LkDomains, Conserved
    <3> QED
      BY <1>1, <2>2, <2>4, <2>6, <3>1, <3>2, <3>3 DEF LkInv
  <2>7. CASE "CI" \notin back.flags /\ Orphan
    <3>1. /\ front' = front /\ back' \in BackSet /\ back'.flags = back.flags \cup {"CI"}
          /\ back'.recv = back.recv /\ back'.alive = back.alive /\ back'.linked = back.linked
          /\ back'.cut = back.cut /\ ~front.alive
      BY <1>1, <2>1, <2>2, <2>7, ZenonT(30) DEF In, Mark, BackSet, Orphan
    <3>2. HeadFirst' /\ StatusFirst'
      BY <2>2, <3>1, SameOutput
    <3>3. LkDomains' /\ Conserved'
      BY <1>1, <2>2, <2>4, <2>5, <3>1 DEF LkDomains, Conserved
    <3> QED
      BY <1>1, <2>2, <2>4, <3>1, <3>2, <3>3 DEF LkInv
  <2>8. CASE "CI" \notin back.flags /\ ~Orphan /\ mode = "cgi"
    <3>1. CgiRecv(n) /\ back.linked /\ front.alive
      BY <1>1, <2>1, <2>8 DEF In, Orphan
    <3>2. CASE /\ front.parse /\ far.ok /\ back.recv + n < LkHead
               /\ front' = front /\ back' = [back EXCEPT !.recv = back.recv + n]
      <4>1. back.recv + n \in Nat
        BY <1>2, <2>3
      <4>2. /\ back' \in BackSet /\ back'.flags = back.flags /\ back'.recv = back.recv + n
            /\ back'.alive = back.alive /\ back'.linked = back.linked /\ back'.cut = back.cut
        BY <1>1, <3>2, <4>1 DEF BackSet
      <4>3. HeadFirst' /\ StatusFirst' /\ LkDomains'
        BY <1>1, <2>2, <2>4, <2>5, <3>2, <4>2 DEF LkDomains, HeadFirst, StatusFirst
      <4>4. far'.in + back'.recv = far.in + back.recv
        BY <1>2, <2>3, <2>4, <4>2
      <4>5. far.in # 0
        BY <1>2, <2>3
      <4>6. Conserved'
        <5> SUFFICES ASSUME far.ok, ~back.cut
                     PROVE  /\ far'.left + far'.in + back'.recv + 0 = far'.size
                            /\ back.flags # {} => far.state = "ended" /\ far.in = 0
          BY <2>2, <2>4, <3>1, <3>2, <4>2, <4>5 DEF Conserved
        <5>1. /\ far.left + far.in + back.recv + 0 = far.size
              /\ back.flags # {} => far.state = "ended" /\ far.in = 0
          BY <1>1, <2>8, <3>1, <3>2 DEF Conserved
        <5> QED
          BY <1>2, <2>3, <2>4, <4>2, <5>1
      <4> QED
        BY <1>1, <2>2, <2>4, <3>2, <4>2, <4>3, <4>6 DEF LkInv
    <3>3. CASE \E o \in Outputs, f \in SUBSET {"SAC"}, b \in SUBSET {"CI"} :
                /\ front' = [front EXCEPT !.out = o, !.flags = @ \cup f, !.parse = FALSE]
                /\ back' = [back EXCEPT !.flags = @ \cup b, !.recv = 0]
                /\ o # <<>> /\ o[1] \in {"status", "error"}
                /\ \A i \in 2..Len(o) : o[i] = "byte"
                /\ Len(o) = (IF front.parse THEN 1 ELSE Len(front.out)) + back.recv + n
                /\ far.ok => f = {} /\ b = {}
      <4>1. PICK o \in Outputs, f \in SUBSET {"SAC"}, b \in SUBSET {"CI"} :
                /\ front' = [front EXCEPT !.out = o, !.flags = @ \cup f, !.parse = FALSE]
                /\ back' = [back EXCEPT !.flags = @ \cup b, !.recv = 0]
                /\ o # <<>> /\ o[1] \in {"status", "error"}
                /\ \A i \in 2..Len(o) : o[i] = "byte"
                /\ Len(o) = (IF front.parse THEN 1 ELSE Len(front.out)) + back.recv + n
                /\ far.ok => f = {} /\ b = {}
        BY <3>3
      <4>2. /\ front' \in FrontSet /\ front'.out = o /\ front'.flags = front.flags \cup f
            /\ front'.parse = FALSE /\ front'.alive = front.alive /\ front'.done = front.done
            /\ front'.linked = front.linked /\ front'.peer = front.peer
        BY <1>1, <4>1 DEF FrontSet
      <4>3. /\ back' \in BackSet /\ back'.flags = back.flags \cup b /\ back'.recv = 0
            /\ back'.alive = back.alive /\ back'.linked = back.linked /\ back'.cut = back.cut
        BY <1>1, <4>1 DEF BackSet
      <4>4. Len(o) >= Len(front.out)
        <5>1. CASE front.parse
          <6>1. Len(front.out) = 0
            BY <1>1, <2>8, <5>1 DEF HeadFirst
          <6> QED
            BY <1>2, <2>3, <4>1, <5>1, <6>1
        <5>2. CASE ~front.parse
          BY <1>2, <2>3, <4>1, <5>2
        <5> QED
          BY <5>1, <5>2
      <4>5. LkDomains'
        <5>1. front.done <= Len(o)
          BY <1>2, <4>1, <4>4 DEF Outputs
        <5> QED
          BY <1>1, <2>2, <2>4, <2>5, <4>2, <4>3, <5>1 DEF LkDomains
      <4>6. HeadFirst' /\ StatusFirst'
        BY <4>1, <4>2, <4>3 DEF HeadFirst, StatusFirst
      <4>7. Conserved'
        <5> SUFFICES ASSUME far.ok, ~back.cut
                     PROVE  /\ far'.left + far'.in + back'.recv + (Len(o) - 1) = far'.size
                            /\ back.flags # {} => far.state = "ended" /\ far'.in = 0
          BY <2>2, <2>4, <3>1, <4>1, <4>2, <4>3 DEF Conserved
        <5>1. /\ far.left + far.in + back.recv
                   + (IF front.parse THEN 0 ELSE Len(front.out) - 1) = far.size
              /\ back.flags # {} => far.state = "ended" /\ far.in = 0
          BY <1>1, <2>8, <3>1 DEF Conserved
        <5>2. far.in # 0
          BY <1>2, <2>3
        <5>3. far'.left + far'.in + back'.recv + (Len(o) - 1) = far'.size
          <6>1. CASE front.parse
            <7>1. far.left + far.in + back.recv + 0 = far.size /\ Len(o) = 1 + back.recv + n
              BY <4>1, <5>1, <6>1
            <7>2. far'.in = far.in - n /\ back'.recv = 0 /\ far'.left = far.left /\ far'.size = far.size
              BY <1>2, <2>4, <4>3
            <7> DEFINE left == far.left  size == far.size  unread == far.in  kept == back.recv
                       now == Len(o)  under == far'.in
            <7>3. left \in Nat /\ size \in Nat /\ unread \in Nat /\ kept \in Nat /\ now \in Nat /\ under \in Nat
              BY <1>2, <2>3, <2>4, <7>2 DEF Outputs
            <7>4. left + unread + kept + 0 = size /\ now = 1 + kept + n /\ under = unread - n
              BY <7>1, <7>2
            <7> HIDE DEF left, size, unread, kept, now, under
            <7>5. left + under + 0 + (now - 1) = size
              BY <7>3, <7>4
            <7> USE DEF left, size, unread, kept, now, under
            <7> QED
              BY <7>2, <7>5
          <6>2. CASE ~front.parse
            <7>1. /\ far.left + far.in + back.recv + (Len(front.out) - 1) = far.size
                  /\ Len(o) = Len(front.out) + back.recv + n
              BY <4>1, <5>1, <6>2
            <7>2. Len(front.out) \in Nat /\ far'.in = far.in - n /\ back'.recv = 0
              BY <1>2, <2>4, <4>3
            <7>3. far'.left = far.left /\ far'.size = far.size
              BY <2>4
            <7> DEFINE left == far.left  size == far.size  unread == far.in  kept == back.recv
                       queued == Len(front.out)  now == Len(o)  under == far'.in
            <7>4. /\ left \in Nat /\ size \in Nat /\ unread \in Nat /\ kept \in Nat
                  /\ queued \in Nat /\ now \in Nat /\ under \in Nat
              BY <1>2, <2>3, <2>4, <7>2 DEF Outputs
            <7>5. /\ left + unread + kept + (queued - 1) = size
                  /\ now = queued + kept + n /\ under = unread - n
              BY <7>1, <7>2
            <7> HIDE DEF left, size, unread, kept, queued, now, under
            <7>6. left + under + 0 + (now - 1) = size
              BY <2>3, <7>4, <7>5
            <7> QED
              BY <7>2, <7>3, <7>6 DEF left, size, now, under
          <6> QED
            BY <6>1, <6>2
        <5> QED
          BY <5>1, <5>2, <5>3
      <4>8. EndsForGood'
        BY <1>1, <2>2, <2>4, <3>1, <4>1, <4>2, <4>3
      <4> QED
        BY <1>1, <2>2, <2>4, <3>1, <4>2, <4>3, <4>5, <4>6, <4>7, <4>8 DEF LkInv
    <3> QED
      BY <2>3, <2>8, <3>1, <3>2, <3>3, CgiRecvEffect
  <2>9. CASE "CI" \notin back.flags /\ ~Orphan /\ mode # "cgi"
    <3> DEFINE got == back.recv + n
    <3>1. mode = "proxy" /\ ProxyRecv(n) /\ got \in Nat
      BY <1>1, <1>2, <2>1, <2>3, <2>9 DEF In, LkDomains
    <3>2. \/ front' = front
          \/ front' = ReplyTo(front, got)
      BY <3>1 DEF ProxyRecv
    <3>3. /\ front' \in FrontSet /\ front'.alive = front.alive /\ front'.linked = front.linked
          /\ front'.done = front.done /\ Len(front'.out) >= Len(front.out)
      <4> HIDE DEF got
      <4> QED
        BY <1>1, <1>2, <3>1, <3>2, ReplyEffect
    <3>4. back' \in BackSet /\ back'.alive = back.alive /\ back'.linked = back.linked
      <4> DEFINE b == Mark(back, "CI")
      <4>1. /\ b \in BackSet /\ b.alive = back.alive /\ b.linked = back.linked
        BY <1>1 DEF Mark, BackSet
      <4>2. PICK c \in {back, b}, m \in {0, got} : back' = [c EXCEPT !.recv = m]
        BY <3>1 DEF ProxyRecv
      <4>3. m \in Nat
        BY <3>1
      <4> HIDE DEF b, got
      <4>4. c \in BackSet /\ c.alive = back.alive /\ c.linked = back.linked
        BY <1>1, <4>1
      <4> QED
        BY <4>2, <4>3, <4>4 DEF BackSet
    <3>5. front'.done <= Len(front'.out)
      BY <1>2, <3>3 DEF FrontSet, Outputs
    <3> QED
      BY <1>1, <2>2, <2>4, <2>5, <3>1, <3>3, <3>4, <3>5
      DEF LkInv, LkDomains, HeadFirst, StatusFirst, Conserved
  <2> QED
    BY <2>6, <2>7, <2>8, <2>9
<1>13. CASE CloseBack
  <2>1. mode' = mode /\ far' = far /\ walk' = "front"
    BY <1>13 DEF CloseBack
  <2>2. CASE ~BackMarked
    <3>1. front' = front /\ back' = back
      BY <1>13, <2>2 DEF CloseBack
    <3>2. HeadFirst' /\ StatusFirst' /\ LkDomains' /\ Conserved'
      BY <1>1, <2>1, <3>1, SameOutput DEF LkDomains, Conserved
    <3> QED
      BY <1>1, <2>1, <3>1, <3>2 DEF LkInv
  <2>3. CASE BackMarked
    <3>1. /\ back.alive /\ back.flags # {}
          /\ back' = [back EXCEPT !.alive = FALSE, !.linked = FALSE]
      BY <1>13, <2>3 DEF CloseBack, BackMarked, In
    <3>2. /\ back' \in BackSet /\ ~back'.alive /\ ~back'.linked /\ back'.flags = back.flags
          /\ back'.cut = back.cut /\ back'.recv = back.recv
      BY <1>1, <3>1 DEF BackSet
    <3>3. CASE ~back.linked
      <4>1. front' = front /\ ~front.alive
        BY <1>1, <1>13, <2>3, <3>1, <3>3 DEF CloseBack
      <4>2. HeadFirst' /\ StatusFirst' /\ LkDomains' /\ Conserved'
        BY <1>1, <2>1, <3>2, <4>1, SameOutput DEF LkDomains, Conserved
      <4> QED
        BY <1>1, <2>1, <3>2, <4>1, <4>2 DEF LkInv
    <3>4. CASE back.linked /\ mode = "cgi"
      <4>1. front' = [front EXCEPT !.flags = @ \cup {"SAC"}, !.linked = FALSE]
        BY <1>13, <2>3, <3>4 DEF CloseBack, Mark
      <4>2. /\ front' \in FrontSet /\ front'.flags = front.flags \cup {"SAC"} /\ ~front'.linked
            /\ front'.out = front.out /\ front'.parse = front.parse /\ front'.alive = front.alive
            /\ front'.done = front.done /\ front'.peer = front.peer
        BY <1>1, <4>1 DEF FrontSet
      <4>3. HeadFirst' /\ StatusFirst' /\ LkDomains'
        BY <1>1, <2>1, <3>2, <4>2, SameOutput DEF LkDomains
      <4>4. Conserved'
        BY <1>1, <2>1, <3>1, <3>2, <4>2 DEF Conserved
      <4> QED
        BY <1>1, <2>1, <3>2, <4>2, <4>3, <4>4 DEF LkInv
    <3>5. CASE back.linked /\ mode # "cgi"
      <4> DEFINE f == IF mode = "proxy" /\ far.ok /\ back.recv >= LkHead
                      THEN ReplyTo(front, back.recv) ELSE front
      <4>1. front' = [Mark(f, "SAC") EXCEPT !.linked = FALSE]
        BY <1>13, <2>3, <3>5 DEF CloseBack
      <4>2. /\ f \in FrontSet /\ f.alive = front.alive
            /\ f.done = front.done /\ Len(f.out) >= Len(front.out)
        BY <1>1, <1>2, ReplyEffect
      <4> HIDE DEF f
      <4>3. /\ front' \in FrontSet /\ front'.alive = front.alive /\ ~front'.linked
            /\ front'.flags # {} /\ front'.done = front.done /\ Len(front'.out) >= Len(front.out)
        BY <4>1, <4>2 DEF Mark, FrontSet
      <4>4. front'.done <= Len(front'.out)
        BY <1>2, <4>3 DEF FrontSet, Outputs
      <4> QED
        BY <1>1, <2>1, <3>2, <3>5, <4>3, <4>4
        DEF LkInv, LkDomains, HeadFirst, StatusFirst, Conserved
    <3> QED
      BY <3>3, <3>4, <3>5
  <2> QED
    BY <2>2, <2>3
<1>14. CASE CloseFront
  <2>1. mode' = mode /\ far' = far /\ walk' = "events"
    BY <1>14 DEF CloseFront
  <2>2. CASE ~FrontMarked
    <3>1. front' = front /\ back' = back
      BY <1>14, <2>2 DEF CloseFront
    <3>2. HeadFirst' /\ StatusFirst' /\ LkDomains' /\ Conserved'
      BY <1>1, <2>1, <3>1, SameOutput DEF LkDomains, Conserved
    <3> QED
      BY <1>1, <2>1, <3>1, <3>2 DEF LkInv
  <2>3. CASE FrontMarked
    <3>1. /\ front.alive /\ front' = [front EXCEPT !.alive = FALSE, !.linked = FALSE]
          /\ "CI" \in front.flags \/ ("SAC" \in front.flags /\ front.done = Len(front.out))
      BY <1>14, <2>3 DEF CloseFront, FrontMarked, In
    <3>2. /\ front' \in FrontSet /\ ~front'.alive /\ ~front'.linked /\ front'.flags = front.flags
          /\ front'.out = front.out /\ front'.parse = front.parse
          /\ front'.done = front.done /\ front'.peer = front.peer
      BY <1>1, <3>1 DEF FrontSet
    <3>3. /\ back' \in BackSet /\ ~back'.linked /\ back'.alive = back.alive /\ back'.cut = back.cut
          /\ back'.recv = back.recv /\ back.flags \subseteq back'.flags
          /\ back'.flags \subseteq back.flags \cup {"CI"}
          /\ mode = "cgi" /\ back.alive => "CI" \in back'.flags
      <4>1. CASE ~front.linked
        <5>1. back' = back
          BY <1>14, <2>3, <4>1 DEF CloseFront
        <5> QED
          BY <1>1, <3>1, <4>1, <5>1
      <4>2. CASE front.linked /\ mode = "cgi"
        <5>1. back' = [back EXCEPT !.flags = @ \cup {"CI"}, !.linked = FALSE]
          BY <1>14, <2>3, <4>2 DEF CloseFront, CgiLinkFreed, Mark
        <5> QED
          BY <1>1, <5>1 DEF BackSet
      <4>3. CASE front.linked /\ mode # "cgi"
        <5>1. back' = [back EXCEPT !.linked = FALSE]
          BY <1>14, <2>3, <4>3 DEF CloseFront, ProxyLinkFreed
        <5> QED
          BY <1>1, <4>3, <5>1 DEF BackSet
      <4> QED
        BY <4>1, <4>2, <4>3
    <3>4. HeadFirst' /\ StatusFirst' /\ LkDomains' /\ Conserved'
      BY <1>1, <2>1, <3>2, <3>3, SameOutput DEF LkDomains, Conserved
    <3>5. CgiComplete'
      <4> SUFFICES ASSUME mode = "cgi", front.peer = "up", far.ok, far.size >= LkHead, ~back.cut
                   PROVE  front.done = 1 + far.size
        BY <2>1, <3>2, <3>3
      <4>1. "SAC" \in front.flags /\ front.done = Len(front.out) /\ ~back.alive
        BY <1>1, <3>1
      <4>2. /\ far.left = 0 /\ far.in = 0
            /\ far.left + far.in + back.recv
                 + (IF front.parse THEN 0 ELSE Len(front.out) - 1) = far.size
        BY <1>1, <3>1, <4>1 DEF Conserved
      <4>3. ~front.parse /\ back.recv = 0
        <5>1. CASE front.parse
          <6>1. back.recv < LkHead /\ far.left + far.in + back.recv + 0 = far.size
            BY <1>1, <4>2, <5>1 DEF HeadFirst
          <6> QED
            BY <1>1, <1>2, <4>2, <6>1
        <5>2. CASE ~front.parse
          BY <1>1, <5>2 DEF HeadFirst
        <5> QED
          BY <5>1, <5>2
      <4> QED
        BY <1>2, <4>1, <4>2, <4>3
    <3> QED
      BY <1>1, <2>1, <3>2, <3>3, <3>4, <3>5 DEF LkInv
  <2> QED
    BY <2>2, <2>3
<1>15. CASE UNCHANGED lkVars
  <2>1. mode' = mode /\ far' = far /\ walk' = walk /\ front' = front /\ back' = back
    BY <1>15 DEF lkVars
  <2>2. HeadFirst' /\ StatusFirst' /\ LkDomains' /\ Conserved'
    BY <1>1, <2>1, SameOutput DEF LkDomains, Conserved
  <2> QED
    BY <1>1, <2>1, <2>2 DEF LkInv
<1> QED
  BY <1>3, <1>4, <1>5, <1>6, <1>7, <1>8, <1>9, <1>10, <1>11, <1>12, <1>13, <1>14, <1>15
  DEF LkNext, LkEvents, LkCloses

LEMMA LkInvHolds == LkSpec => []LkInv
BY LkInvInit, LkInvNext, PTL DEF LkSpec

-----------------------------------------------------------------------------
(* What follows from it.                                                    *)

\* No handler follows a pointer to a connection that is gone, and when a program's
\* socket or its client's connection is gone the other is marked to end
\* (mg_cgi_ev_handler, mg_http_free_proto_data_cgi), whichever ends first.
THEOREM UnlinksHolds == LkSpec => []Unlinks
<1>1. LkInv => Unlinks
  BY DEF LkInv, LkDomains, FrontSet, BackSet, Paired, Unlinks, LinksLive
<1> QED
  BY <1>1, LkInvHolds, PTL

\* The answer of a program is a status and then its output, and when its client's
\* connection ends all of it was sent, unless the client left, the head is bad or the
\* program ended before it took its input (mg_cgi_ev_handler, mg_handle_cgi).
THEOREM CgiAnswerHolds == LkSpec => []CgiAnswer
<1>1. LkInv => CgiAnswer
  BY DEF LkInv, CgiAnswer
<1> QED
  BY <1>1, LkInvHolds, PTL

\* The variables stay in their domains.
THEOREM LinksTyped == LkSpec => []LkTypeOK
<1>1. LkInv => LkTypeOK
  BY DEF LkInv, LkDomains, FrontSet, BackSet, FarSet, Outputs, LkTypeOK
<1> QED
  BY <1>1, LkInvHolds, PTL

-----------------------------------------------------------------------------
(* The parts side by side.                                                  *)

\* Each part takes its own steps, and none while another part is at work.
LEMMA PartSteps == [Next]_vars => [EvNext]_evVars /\ [RsNext]_rsVars /\ [LkNext]_lkVars
<1>1. CASE InLoop(EvNext)
  BY <1>1 DEF InLoop
<1>2. CASE InResolver(RsNext)
  BY <1>2 DEF InResolver
<1>3. CASE InLinks(LkNext)
  BY <1>3 DEF InLinks
<1>4. CASE UNCHANGED vars
  BY <1>4 DEF vars
<1>. QED  BY <1>1, <1>2, <1>3, <1>4 DEF Next

LEMMA PartsBegin == Init => EvInit /\ RsInit /\ LkInit
BY DEF Init

\* The composition behaves, in each part, as the part on its own.
THEOREM PartsImplemented == Spec => EvSpec /\ RsSpec /\ LkSpec
<1>. QED  BY PartsBegin, PartSteps, PTL DEF Spec, EvSpec, RsSpec, LkSpec

\* Every variable of the event loop, of the resolution and of the linked connections stays in its domain.
THEOREM NetworkTyped == Spec => []TypeOK
<1>1. EvTypeOK /\ RsTypeOK /\ LkTypeOK => TypeOK
  BY DEF TypeOK
<1>. QED  BY <1>1, PartsImplemented, EventLoopTyped, ResolverTyped, LinksTyped, PTL

\* What is promised of the event loop, of a resolution and of a program's or another server's answer, of the
\* whole at once: walks that stay on their way, events in order, buffers within their limits, one child for a source,
\* every connection closed in the end; one outcome of a resolution; no link to a freed connection, an answer that is whole.
THEOREM NetworkHolds ==
    Spec => [](/\ WalksHold /\ Called /\ Buffered /\ OneChild /\ FreedAll
               /\ Resolves /\ Reported
               /\ Unlinks /\ CgiAnswer)
<1>. QED
  BY PartsImplemented, WalksHoldAlways, CalledAlways, BufferedAlways, OneChildAlways, FreedAllAlways, ResolvesHolds, ReportedHolds,
     UnlinksHolds, CgiAnswerHolds, PTL
=============================================================================
