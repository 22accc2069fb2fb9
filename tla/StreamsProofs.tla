--------------------------- MODULE StreamsProofs ---------------------------
(***************************************************************************)
(* Proofs about what MCStreams checks on small instances: for every value  *)
(* of the constants, the promises of the parts that come over connections. *)
(***************************************************************************)
EXTENDS Sntp, Socks, Tunnel, Mqtt, FramingProofs, SequenceTheorems, FiniteSetTheorems, WellFoundedInduction, TLAPS

-----------------------------------------------------------------------------
(***************************************************************************)
(* An SNTP client: for any datagrams, whatever is lost, late or repeated.  *)
(***************************************************************************)
SnEvents == {"MG_SNTP_REPLY", "MG_SNTP_FAILED"}
SnStates == {"connecting", "open", "closing", "gone"}

SnSet == [state : SnStates, count : Nat, sent : Nat, timer : 0..SnTimeout, due : BOOLEAN,
          here : Seq(SnDatagrams), came : 0..SnReplies, told : Seq(SnEvents)]

\* The requests of a client that has told nothing are its attempts, within their number.
SnAsks(s) ==
    /\ s \in SnSet
    /\ s.sent = s.count /\ s.count <= SnAttempts + 1
    /\ Len(s.here) <= s.came

\* What is told is told once and closes the connection; no request is sent before the
\* connection is there, and then the first at once.
SnOk(s) ==
    /\ SnAsks(s)
    /\ Len(s.told) = IF s.state \in {"connecting", "open"} THEN 0 ELSE 1
    /\ s.state = "connecting" => s.count = 0
    /\ s.state = "open" => s.sent > 0
    /\ s.told = <<"MG_SNTP_REPLY">> => s.sent > 0

SnInv == SnOk(sn)

LEMMA SnConstants ==
    /\ SnAttempts \in Nat /\ SnTimeout \in Nat /\ SnTimeout > 0 /\ SnReplies \in Nat
BY SnAssumption DEF SnAssumption

LEMMA ClosingOk ==
    ASSUME NEW s, SnAsks(s), NEW e \in SnEvents, Len(s.told) = 0,
           e = "MG_SNTP_REPLY" => s.sent > 0
    PROVE  SnOk(SnClosing(SnTold(s, e))) /\ SnClosing(SnTold(s, e)).state = "closing"
<1> DEFINE v == Append(s.told, e)
           t == SnClosing(SnTold(s, e))
<1>1. s \in SnSet /\ s.told \in Seq(SnEvents)
  BY DEF SnAsks, SnSet
<1>2. v \in Seq(SnEvents) /\ Len(v) = 1 /\ v[1] = e
  BY <1>1, AppendProperties
<1>3. t = [[s EXCEPT !.told = v] EXCEPT !.state = "closing"]
  BY DEF SnTold, SnClosing
<1> HIDE DEF v, t
<1>4. /\ t \in SnSet /\ t.state = "closing" /\ t.told = v /\ t.sent = s.sent
      /\ t.count = s.count /\ t.here = s.here /\ t.came = s.came
  BY <1>1, <1>2, <1>3 DEF SnSet, SnStates
<1>5. t.told = <<"MG_SNTP_REPLY">> => e = "MG_SNTP_REPLY"
  BY <1>2, <1>4
<1>6. SnOk(t)
  BY <1>2, <1>4, <1>5 DEF SnOk, SnAsks
<1> QED
  BY <1>4, <1>6 DEF t

LEMMA AttemptOk ==
    ASSUME NEW s, SnAsks(s), s.state = "open", Len(s.told) = 0
    PROVE  SnOk(Attempt(s))
<1>1. /\ s \in SnSet /\ s.sent = s.count /\ s.count \in Nat /\ s.count <= SnAttempts + 1
      /\ s.told \in Seq(SnEvents)
  BY DEF SnAsks, SnSet
<1>2. CASE s.count <= SnAttempts
  <2> DEFINE c == s.count + 1
             t == Attempt(s)
  <2>1. t = [s EXCEPT !.count = c, !.sent = c, !.timer = SnTimeout]
    BY <1>1, <1>2 DEF Attempt
  <2>2. c \in Nat /\ c <= SnAttempts + 1 /\ c > 0 /\ SnTimeout \in 0..SnTimeout
    BY <1>1, <1>2, SnConstants
  <2> HIDE DEF c, t
  <2>3. /\ t \in SnSet /\ t.sent = c /\ t.count = c /\ t.state = "open" /\ t.told = s.told
        /\ t.here = s.here /\ t.came = s.came
    BY <1>1, <2>1, <2>2 DEF SnSet
  <2>4. SnOk(t)
    BY <2>2, <2>3 DEF SnOk, SnAsks
  <2> QED
    BY <2>4 DEF t
<1>3. CASE ~(s.count <= SnAttempts)
  <2>1. "MG_SNTP_FAILED" \in SnEvents /\ "MG_SNTP_FAILED" # "MG_SNTP_REPLY"
    BY DEF SnEvents
  <2>2. SnOk(SnClosing(SnTold(s, "MG_SNTP_FAILED")))
    BY <2>1, ClosingOk
  <2> QED
    BY <1>3, <2>2 DEF Attempt
<1> QED
  BY <1>2, <1>3

LEMMA TimerOk ==
    ASSUME NEW s, SnOk(s)
    PROVE  SnOk(Timer(s))
<1>1. CASE s.due /\ s.state = "open"
  <2> DEFINE t == [s EXCEPT !.due = FALSE]
  <2>1. s \in SnSet
    BY DEF SnOk, SnAsks
  <2>2. /\ t \in SnSet /\ t.state = s.state /\ t.told = s.told /\ t.sent = s.sent
        /\ t.count = s.count /\ t.here = s.here /\ t.came = s.came
    BY <2>1 DEF SnSet
  <2> HIDE DEF t
  <2>3. SnAsks(t) /\ t.state = "open" /\ Len(t.told) = 0
    BY <1>1, <2>2 DEF SnOk, SnAsks
  <2>4. SnOk(Attempt(t))
    BY <2>3, AttemptOk
  <2> QED
    BY <1>1, <2>4 DEF Timer, t
<1>2. CASE ~(s.due /\ s.state = "open")
  BY <1>2 DEF Timer
<1> QED
  BY <1>1, <1>2

LEMMA SntpInit == SnInit => SnInv
<1> SUFFICES ASSUME SnInit PROVE SnOk(sn)
  BY DEF SnInv
<1>1. <<>> \in Seq(SnDatagrams) /\ <<>> \in Seq(SnEvents) /\ Len(<<>>) = 0
  OBVIOUS
<1>2. 0 \in 0..SnTimeout /\ 0 \in 0..SnReplies /\ 0 <= SnAttempts + 1
  BY SnConstants
<1>3. sn \in SnSet
  BY <1>1, <1>2 DEF SnInit, SnSet, SnStates
<1> QED
  BY <1>1, <1>2, <1>3 DEF SnInit, SnOk, SnAsks

LEMMA SntpStep == SnInv /\ [SnNext]_snVars => SnInv'
<1> SUFFICES ASSUME SnOk(sn), [SnNext]_snVars PROVE SnOk(sn')
  BY DEF SnInv
<1>1. /\ SnAsks(sn) /\ sn \in SnSet /\ sn.here \in Seq(SnDatagrams)
      /\ sn.came \in 0..SnReplies /\ sn.timer \in 0..SnTimeout
      /\ sn.state \in {"connecting", "open"} => Len(sn.told) = 0
  BY DEF SnOk, SnAsks, SnSet
<1>e. "MG_SNTP_FAILED" \in SnEvents /\ "MG_SNTP_REPLY" \in SnEvents
      /\ "MG_SNTP_FAILED" # "MG_SNTP_REPLY"
  BY DEF SnEvents
<1>2. CASE UNCHANGED snVars
  BY <1>2 DEF snVars
<1>3. CASE SnConnect
  <2>1. sn.state = "connecting" /\ Len(sn.told) = 0
    BY <1>1, <1>3 DEF SnConnect
  <2>2. CASE sn' = Attempt([sn EXCEPT !.state = "open"])
    <3> DEFINE t == [sn EXCEPT !.state = "open"]
    <3>1. /\ t \in SnSet /\ t.state = "open" /\ t.told = sn.told /\ t.sent = sn.sent
          /\ t.count = sn.count /\ t.here = sn.here /\ t.came = sn.came
      BY <1>1 DEF SnSet, SnStates
    <3> HIDE DEF t
    <3>2. SnAsks(t) /\ Len(t.told) = 0
      BY <1>1, <2>1, <3>1 DEF SnAsks
    <3> QED
      BY <2>2, <3>1, <3>2, AttemptOk DEF t
  <2>3. CASE sn' = SnClosing(SnTold(sn, "MG_SNTP_FAILED"))
    BY <1>1, <1>e, <2>1, <2>3, ClosingOk
  <2> QED
    BY <1>3, <2>2, <2>3 DEF SnConnect
<1>4. CASE SnVisit
  <2>1. CASE sn.here = <<>>
    BY <1>4, <2>1, TimerOk DEF SnVisit
  <2>2. CASE sn.here # <<>>
    <3> DEFINE rest == Tail(sn.here)
               t == [sn EXCEPT !.here = rest]
               u == SnAnswer(t, sn.here[1])
    <3>1. rest \in Seq(SnDatagrams) /\ Len(rest) = Len(sn.here) - 1
      BY <1>1, <2>2, HeadTailProperties
    <3>2. sn' = Timer(u)
      BY <1>4, <2>2 DEF SnVisit
    <3>3. Len(rest) <= sn.came
      <4>1. Len(sn.here) <= sn.came /\ Len(sn.here) \in Nat /\ sn.came \in Nat
        BY <1>1, SnConstants DEF SnAsks
      <4> QED
        BY <3>1, <4>1
    <3> HIDE DEF rest
    <3>4. /\ t \in SnSet /\ t.state = "open" /\ t.told = sn.told /\ t.sent = sn.sent
          /\ t.count = sn.count /\ t.here = rest /\ t.came = sn.came
      BY <1>1, <1>4, <3>1 DEF SnSet, SnVisit
    <3> HIDE DEF t
    <3>5. SnAsks(t) /\ Len(t.told) = 0 /\ t.sent > 0
      BY <1>1, <1>4, <3>3, <3>4 DEF SnAsks, SnVisit, SnOk
    <3>6. SnOk(u)
      BY <1>e, <3>5, ClosingOk DEF SnAnswer
    <3> QED
      BY <3>2, <3>6, TimerOk
  <2> QED
    BY <2>1, <2>2
<1>5. CASE SnTick
  <2> DEFINE t == [sn EXCEPT !.timer = sn.timer - 1, !.due = (sn.due \/ sn.timer = 1)]
  <2>1. sn' = t
    BY <1>1, <1>5 DEF SnTick, SnSet
  <2>2. sn.timer - 1 \in 0..SnTimeout /\ (sn.due \/ sn.timer = 1) \in BOOLEAN
    BY <1>1, <1>5, SnConstants DEF SnTick
  <2>3. /\ t \in SnSet /\ t.state = sn.state /\ t.told = sn.told /\ t.sent = sn.sent
        /\ t.count = sn.count /\ t.here = sn.here /\ t.came = sn.came
    BY <1>1, <2>2 DEF SnSet
  <2> HIDE DEF t
  <2> QED
    BY <1>1, <2>1, <2>3 DEF SnOk, SnAsks
<1>6. CASE SnArrives
  <2>1. PICK d \in SnDatagrams : sn' = [sn EXCEPT !.here = Append(@, d), !.came = @ + 1]
    BY <1>6 DEF SnArrives
  <2> DEFINE v == Append(sn.here, d)
             c == sn.came + 1
             t == [sn EXCEPT !.here = v, !.came = c]
  <2>2. v \in Seq(SnDatagrams) /\ Len(v) = Len(sn.here) + 1
    BY <1>1, AppendProperties
  <2>3. c \in 0..SnReplies /\ Len(v) <= c
    <3>1. Len(sn.here) <= sn.came /\ Len(sn.here) \in Nat /\ sn.came < SnReplies
      BY <1>1, <1>6 DEF SnAsks, SnArrives
    <3> QED
      BY <1>1, <2>2, <3>1, SnConstants
  <2>4. sn' = t
    BY <2>1
  <2> HIDE DEF v, c
  <2>5. /\ t \in SnSet /\ t.state = sn.state /\ t.told = sn.told /\ t.sent = sn.sent
        /\ t.count = sn.count /\ t.here = v /\ t.came = c
    BY <1>1, <2>2, <2>3 DEF SnSet
  <2> HIDE DEF t
  <2> QED
    BY <1>1, <2>3, <2>4, <2>5 DEF SnOk, SnAsks
<1>7. CASE SnClose
  <2> DEFINE h == <<>>
             t == [sn EXCEPT !.state = "gone", !.here = h]
  <2>0. h \in Seq(SnDatagrams) /\ Len(h) = 0
    OBVIOUS
  <2>1. sn' = t /\ sn.state = "closing"
    BY <1>7 DEF SnClose
  <2> HIDE DEF h
  <2>2. /\ t \in SnSet /\ t.state = "gone" /\ t.told = sn.told /\ t.sent = sn.sent
        /\ t.count = sn.count /\ t.here = h /\ t.came = sn.came
    BY <1>1, <2>0 DEF SnSet, SnStates
  <2> HIDE DEF t
  <2>3. Len(t.here) = 0 /\ 0 <= sn.came
    BY <1>1, <2>0, <2>2, SnConstants
  <2> QED
    BY <1>1, <2>1, <2>2, <2>3 DEF SnOk, SnAsks
<1> QED
  BY <1>2, <1>3, <1>4, <1>5, <1>6, <1>7 DEF SnNext

\* The application is told one thing, and something before the connection is gone; the
\* server is not asked after that, nor oftener than SNTP_ATTEMPTS allows: for any
\* number of attempts, any timeout and any datagrams (mongoose.c:12777-12812).
THEOREM SntpOnceHolds == SnSpec => []SntpOnce
<1>1. SnInv => SntpOnce
  <2> SUFFICES ASSUME SnOk(sn) PROVE SntpOnce
    BY DEF SnInv
  <2>1. sn.state \in SnStates /\ sn.sent = sn.count /\ sn.count <= SnAttempts + 1
    BY DEF SnOk, SnAsks, SnSet
  <2> QED
    BY <2>1 DEF SnOk, SntpOnce, SnStates
<1> QED
  BY <1>1, SntpInit, SntpStep, PTL DEF SnSpec

\* Every variable of the client stays in its domain, for any datagrams.
THEOREM SntpTyped == SnSpec => []SnTypeOK
<1>1. SnInv => SnTypeOK
  <2> SUFFICES ASSUME SnOk(sn) PROVE SnTypeOK
    BY DEF SnInv
  <2>1. sn.state \in SnStates /\ sn.timer \in 0..SnTimeout /\ sn.came \in 0..SnReplies /\ Len(sn.here) <= sn.came
        /\ sn.here \in Seq(SnDatagrams)
    BY DEF SnOk, SnAsks, SnSet
  <2>2. Len(sn.here) \in Nat /\ SnReplies \in Nat
    BY <2>1, SnConstants, LenProperties
  <2> QED
    BY <2>1, <2>2 DEF SnTypeOK, SnStates
<1> QED
  BY <1>1, SntpInit, SntpStep, PTL DEF SnSpec

-----------------------------------------------------------------------------
(***************************************************************************)
(* A SOCKS connection: what one end sends arrives at the other, once the   *)
(* handshake is over, and no one is left when the target ends.             *)
(***************************************************************************)
SoStates == {"none", "connecting", "open", "failed", "gone"}
SoMarks == {"none", "sent", "now"}
SoUnits == Nat \cup {"hello", "methods", "version", "no auth", "failure", "request", "address",
                     "success", "not supported", "bound"}

\* The connections of an application that speaks the proxy's version.
SoSet == [version : {TRUE}, auth : BOOLEAN, command : BOOLEAN, state : [Ends -> SoStates], mark : [Ends -> SoMarks],
          send : [Ends -> Seq(SoUnits)], recv : [Ends -> Seq(SoUnits)],
          hello : [Ends -> BOOLEAN], done : [Ends -> BOOLEAN], linked : BOOLEAN, relay : BOOLEAN,
          tmp : Seq(SoUnits), out : 0..SoOut, back : 0..SoBack, got : Seq(SoUnits), over : BOOLEAN]

Drop2(w) == SubSeq(w, 3, Len(w))

\* w is the first n units that an end sends.
Run(w, n) == Len(w) = n /\ \A i \in 1..n : w[i] = i

\* What is under way to the proxy, and from it.
Out(s) == s.recv["p"] \o s.send["s"]
Back(s) == s.recv["s"] \o s.send["p"]
\* All that the application has sent from the first unit on, and all that the target has.
Onto(s) == ((s.got \o s.send["q"]) \o Out(s)) \o s.tmp
Heard(s) == s.recv["c"] \o Back(s)

Unmarked(s) == s.mark["c"] = "none" /\ s.mark["s"] = "none" /\ s.mark["p"] = "none"

\* The connection between the programs is there, and nobody has asked for its end.
Up(s) == s.linked /\ s.state["s"] = "open" /\ s.state["p"] = "open" /\ Unmarked(s)

\* The steps of the handshake are taken in turn.
SoInTurn(s) ==
    /\ s.done["s"] => s.done["p"] /\ s.command
    /\ s.done["p"] => s.hello["s"]
    /\ s.hello["s"] => s.hello["p"] /\ s.auth
    /\ s.hello["p"] => s.state["s"] \in {"open", "gone"}
    /\ s.state["s"] # "none"

\* What each step of the handshake finds.
Shaking(s) ==
    /\ ~s.hello["p"] => Len(Out(s)) <= 2 /\ Len(Back(s)) = 0
    /\ ~s.hello["p"] /\ s.state["s"] # "open" => Len(Out(s)) = 0
    /\ s.hello["p"] /\ ~s.hello["s"] =>
          /\ Len(Out(s)) = 0 /\ Len(Back(s)) <= 2
          /\ Len(Back(s)) = 2 => Back(s)[2] = IF s.auth THEN "no auth" ELSE "failure"
    /\ s.hello["s"] /\ ~s.done["p"] => Len(Out(s)) <= 2 /\ Len(Back(s)) = 0
    /\ s.done["p"] /\ ~s.command /\ Len(Back(s)) > 0 => Back(s)[1] = "not supported"

\* Until the request has come, who has not been refused is up.
Answering(s) ==
    /\ s.state["s"] = "connecting" => s.linked /\ s.state["p"] = "open" /\ Unmarked(s)
    /\ ~s.hello["p"] /\ s.state["s"] = "open" => Up(s)
    /\ s.hello["p"] /\ ~s.done["p"] /\ s.auth => Up(s)

\* Who is unlinked ends, and nobody ends unnoticed.
Noticed(s) ==
    /\ s.mark["p"] # "now" /\ s.state["p"] \in {"open", "gone"}
    /\ ~s.linked => s.mark["c"] # "none"
    /\ s.linked => s.state["s"] # "gone"
    /\ s.state["q"] = "gone" => s.mark["p"] # "none"
    /\ s.linked /\ ~s.done["p"] => Run(s.tmp, s.out)

\* Without a connection to the target nothing is relayed.
Quiet(s) ==
    /\ s.state["q"] = "none" /\ ~s.relay /\ s.back = 0 /\ ~s.over
    /\ s.got = <<>> /\ s.send["q"] = <<>> /\ s.recv["q"] = <<>> /\ s.recv["c"] = <<>>

\* With one, the target's end is the first, and the others follow one by one.
SoJoined(s) ==
    /\ s.state["q"] # "none" /\ (s.relay <=> s.state["q"] # "gone")
    /\ s.relay => Up(s) /\ s.recv["q"] = <<>>
    /\ s.mark["p"] # "none" => s.state["q"] = "gone"
    /\ s.state["p"] = "gone" => s.state["q"] = "gone"
    /\ s.linked => s.state["s"] = "open" /\ s.mark["c"] = "none" /\ s.mark["s"] = "none"
    /\ ~s.linked => /\ s.state["s"] = "gone" /\ s.state["p"] = "gone" /\ s.done["s"]
                    /\ s.recv["s"] = <<>> /\ s.send["p"] = <<>>
    /\ s.over => s.back = SoBack

\* What has come is passed on at once.
PassedOn(s) ==
    /\ s.linked => IF s.done["s"] THEN s.recv["s"] = <<>> ELSE Len(s.recv["s"]) < 2
    /\ s.relay => s.recv["p"] = <<>>

Carried(s) ==
    /\ s.relay => Run(Onto(s), s.out)
    /\ s.done["s"] => Run(Heard(s), s.back)
    /\ ~s.done["s"] => /\ s.recv["c"] = <<>> /\ Len(Back(s)) >= 2 /\ Back(s)[1] = "success"
                       /\ Run(Drop2(Back(s)), s.back)
    /\ \E n \in 0..s.out : Run(s.got \o s.send["q"], n)

SoOk(s) ==
    /\ s \in SoSet /\ SoInTurn(s) /\ Shaking(s) /\ Answering(s) /\ Noticed(s)
    /\ ~(s.done["p"] /\ s.command) => Quiet(s)
    /\ s.done["p"] /\ s.command => SoJoined(s) /\ PassedOn(s) /\ Carried(s)

\* One that speaks another version is turned away at its first unit.
BarSet == [version : {FALSE}, auth : BOOLEAN, command : BOOLEAN, state : [Ends -> SoStates], mark : [Ends -> SoMarks],
           send : [Ends -> Seq(SoUnits)], recv : [Ends -> Seq(SoUnits)],
           hello : [Ends -> BOOLEAN], done : [Ends -> BOOLEAN], linked : BOOLEAN, relay : BOOLEAN,
           tmp : Seq(SoUnits), out : 0..SoOut, back : 0..SoBack, got : Seq(SoUnits), over : BOOLEAN]

Barred(s) ==
    /\ s \in BarSet
    /\ ~s.hello["s"] /\ ~s.hello["p"] /\ ~s.done["s"] /\ ~s.done["p"]
    /\ s.state["q"] = "none" /\ ~s.relay /\ ~s.over /\ s.back = 0
    /\ s.got = <<>> /\ s.recv["c"] = <<>> /\ s.send["p"] = <<>>
    /\ ~s.linked => s.mark["c"] # "none"
    /\ s.linked => s.state["s"] # "gone"

SoInv == SoOk(so) \/ Barred(so)

-----------------------------------------------------------------------------
(* Sequences.                                                               *)

LEMMA Cat ==
    ASSUME NEW a \in Seq(SoUnits), NEW b \in Seq(SoUnits)
    PROVE  /\ a \o b \in Seq(SoUnits) /\ Len(a) \in Nat /\ Len(b) \in Nat
           /\ Len(a \o b) = Len(a) + Len(b)
           /\ \A i \in 1..Len(a) : (a \o b)[i] = a[i]
           /\ \A i \in 1..Len(b) : (a \o b)[Len(a) + i] = b[i]
           /\ a \o <<>> = a /\ <<>> \o a = a
<1>1. Len(a) \in Nat /\ Len(b) \in Nat
  OBVIOUS
<1>2. /\ a \o b \in Seq(SoUnits) /\ Len(a \o b) = Len(a) + Len(b)
      /\ \A i \in 1 .. Len(a) + Len(b) : (a \o b)[i] = IF i <= Len(a) THEN a[i] ELSE b[i - Len(a)]
  BY ConcatProperties
<1>3. ASSUME NEW i \in 1..Len(b) PROVE (a \o b)[Len(a) + i] = b[i]
  <2>1. Len(a) + i \in 1..Len(a) + Len(b) /\ ~(Len(a) + i <= Len(a)) /\ Len(a) + i - Len(a) = i
    BY <1>1
  <2> QED
    BY <1>2, <2>1
<1>4. \A i \in 1..Len(a) : (a \o b)[i] = a[i]
  BY <1>1, <1>2
<1> QED
  BY <1>1, <1>2, <1>3, <1>4, ConcatEmptySeq

LEMMA Lens ==
    ASSUME NEW a \in Seq(SoUnits), NEW b \in Seq(SoUnits)
    PROVE  /\ a \o b \in Seq(SoUnits) /\ Len(a) \in Nat /\ Len(b) \in Nat
           /\ Len(a \o b) = Len(a) + Len(b)
           /\ (Len(a) = 0 => a = <<>>) /\ (Len(b) = 0 => b = <<>>)
           /\ Len(a \o b) = 0 => a = <<>> /\ b = <<>>
<1>1. (Len(a) = 0 => a = <<>>) /\ (Len(b) = 0 => b = <<>>)
  BY EmptySeq
<1>2. a \o b \in Seq(SoUnits) /\ Len(a) \in Nat /\ Len(b) \in Nat /\ Len(a \o b) = Len(a) + Len(b)
  BY Cat
<1> DEFINE la == Len(a)
           lb == Len(b)
           lc == Len(a \o b)
<1>3. la \in Nat /\ lb \in Nat /\ lc = la + lb
  BY <1>2
<1> HIDE DEF la, lb, lc
<1>4. lc = 0 => la = 0 /\ lb = 0
  BY <1>3
<1> QED
  BY <1>1, <1>2, <1>4 DEF la, lb, lc

LEMMA Assoc ==
    \A a, b, c \in Seq(SoUnits) : (a \o b) \o c = a \o (b \o c)
BY ConcatAssociative

LEMMA Cut ==
    ASSUME NEW b \in Seq(SoUnits), NEW n \in 0..Len(b)
    PROVE  /\ SubSeq(b, 1, n) \in Seq(SoUnits) /\ Len(SubSeq(b, 1, n)) = n
           /\ \A k \in 1..n : SubSeq(b, 1, n)[k] = b[k]
           /\ SubSeq(b, n + 1, Len(b)) \in Seq(SoUnits)
           /\ Len(SubSeq(b, n + 1, Len(b))) = Len(b) - n
           /\ \A k \in 1..Len(b) - n : SubSeq(b, n + 1, Len(b))[k] = b[n + k]
<1> DEFINE t == SubSeq(b, 1, n)
           d == SubSeq(b, n + 1, Len(b))
<1>1. Len(b) \in Nat /\ n \in Nat /\ n <= Len(b) /\ \A i \in 1..Len(b) : b[i] \in SoUnits
  OBVIOUS
<1>2. t \in Seq(SoUnits) /\ Len(t) = n /\ \A k \in 1..n : t[k] = b[k]
  <2>1. /\ t \in Seq(SoUnits) /\ Len(t) = IF 1 <= n THEN n - 1 + 1 ELSE 0
        /\ \A i \in 1 .. n - 1 + 1 : t[i] = b[1 + i - 1]
    BY <1>1, SubSeqProperties
  <2> HIDE DEF t
  <2> QED
    BY <1>1, <2>1
<1>3. d \in Seq(SoUnits) /\ Len(d) = Len(b) - n /\ \A k \in 1..Len(b) - n : d[k] = b[n + k]
  <2>1. /\ d \in Seq(SoUnits) /\ Len(d) = IF n + 1 <= Len(b) THEN Len(b) - (n + 1) + 1 ELSE 0
        /\ \A i \in 1 .. Len(b) - (n + 1) + 1 : d[i] = b[n + 1 + i - 1]
    BY <1>1, SubSeqProperties
  <2> HIDE DEF d
  <2>2. ASSUME NEW k \in 1..Len(b) - n PROVE d[k] = b[n + k]
    <3>1. k \in 1 .. Len(b) - (n + 1) + 1 /\ n + 1 + k - 1 = n + k
      BY <1>1
    <3> QED
      BY <2>1, <3>1
  <2> QED
    BY <1>1, <2>1, <2>2
<1> QED
  BY <1>2, <1>3

LEMMA Moved ==
    ASSUME NEW a \in Seq(SoUnits), NEW b \in Seq(SoUnits), NEW n \in 1..Len(b)
    PROVE  /\ a \o SubSeq(b, 1, n) \in Seq(SoUnits) /\ SubSeq(b, n + 1, Len(b)) \in Seq(SoUnits)
           /\ (a \o SubSeq(b, 1, n)) \o SubSeq(b, n + 1, Len(b)) = a \o b
           /\ Len(a \o SubSeq(b, 1, n)) = Len(a) + n
<1> DEFINE t == SubSeq(b, 1, n)
           d == SubSeq(b, n + 1, Len(b))
<1>1. n \in 0..Len(b) /\ Len(b) \in Nat
  OBVIOUS
<1>2. /\ t \in Seq(SoUnits) /\ Len(t) = n /\ \A k \in 1..n : t[k] = b[k]
      /\ d \in Seq(SoUnits) /\ Len(d) = Len(b) - n /\ \A k \in 1..Len(b) - n : d[k] = b[n + k]
  BY <1>1, Cut
<1> HIDE DEF t, d
<1>3. t \o d \in Seq(SoUnits) /\ Len(t \o d) = Len(b)
  BY <1>1, <1>2, Cat
<1>4. ASSUME NEW k \in 1..Len(b) PROVE (t \o d)[k] = b[k]
  <2>1. CASE k <= n
    BY <1>1, <1>2, <2>1, Cat
  <2>2. CASE k > n
    <3>1. k - n \in 1..Len(b) - n /\ n + (k - n) = k
      BY <1>1, <2>2
    <3>2. (t \o d)[n + (k - n)] = d[k - n]
      BY <1>2, <3>1, Cat
    <3> QED
      BY <1>2, <3>1, <3>2
  <2>3. k <= n \/ k > n
    BY <1>1
  <2> QED
    BY <2>1, <2>2, <2>3
<1>5. t \o d = b
  BY <1>3, <1>4, SeqEqual
<1>6. (a \o t) \o d = a \o (t \o d)
  BY <1>2, Assoc
<1>7. a \o t \in Seq(SoUnits) /\ Len(a \o t) = Len(a) + n
  BY <1>2, Cat
<1> QED
  BY <1>2, <1>5, <1>6, <1>7 DEF t, d

LEMMA DropFront ==
    ASSUME NEW a \in Seq(SoUnits), Len(a) >= 2
    PROVE  /\ Drop2(a) \in Seq(SoUnits) /\ Len(Drop2(a)) = Len(a) - 2
           /\ \A k \in 1..Len(a) - 2 : Drop2(a)[k] = a[2 + k]
           /\ \A b \in Seq(SoUnits) : Drop2(a \o b) = Drop2(a) \o b
<1>1. Len(a) \in Nat /\ 2 \in 0..Len(a)
  OBVIOUS
<1>2. /\ Drop2(a) \in Seq(SoUnits) /\ Len(Drop2(a)) = Len(a) - 2
      /\ \A k \in 1..Len(a) - 2 : Drop2(a)[k] = a[2 + k]
  <2>1. Drop2(a) = SubSeq(a, 2 + 1, Len(a))
    BY DEF Drop2
  <2>2. /\ SubSeq(a, 2 + 1, Len(a)) \in Seq(SoUnits)
        /\ Len(SubSeq(a, 2 + 1, Len(a))) = Len(a) - 2
        /\ \A k \in 1..Len(a) - 2 : SubSeq(a, 2 + 1, Len(a))[k] = a[2 + k]
    BY <1>1, Cut
  <2> QED
    BY <2>1, <2>2
<1>3. ASSUME NEW b \in Seq(SoUnits) PROVE Drop2(a \o b) = Drop2(a) \o b
  <2> DEFINE ab == a \o b
             l == Drop2(ab)
             r == Drop2(a) \o b
  <2>1. /\ ab \in Seq(SoUnits) /\ Len(ab) = Len(a) + Len(b) /\ Len(b) \in Nat
        /\ \A i \in 1..Len(a) : ab[i] = a[i]
        /\ \A i \in 1..Len(b) : ab[Len(a) + i] = b[i]
    BY Cat
  <2> HIDE DEF ab
  <2>2. 2 \in 0..Len(ab)
    BY <1>1, <2>1
  <2>3. /\ l \in Seq(SoUnits) /\ Len(l) = Len(ab) - 2
        /\ \A k \in 1..Len(ab) - 2 : l[k] = ab[2 + k]
    <3>1. l = SubSeq(ab, 2 + 1, Len(ab))
      BY DEF Drop2
    <3> QED
      BY <2>1, <2>2, <3>1, Cut
  <2>4. /\ r \in Seq(SoUnits) /\ Len(r) = Len(Drop2(a)) + Len(b)
        /\ \A i \in 1..Len(Drop2(a)) : r[i] = Drop2(a)[i]
        /\ \A i \in 1..Len(b) : r[Len(Drop2(a)) + i] = b[i]
    BY <1>2, Cat
  <2> HIDE DEF l, r
  <2>5. Len(l) = Len(r)
    BY <1>1, <1>2, <2>1, <2>3, <2>4
  <2>6. ASSUME NEW k \in 1..Len(l) PROVE l[k] = r[k]
    <3>1. CASE k <= Len(a) - 2
      BY <1>1, <1>2, <2>1, <2>3, <2>4, <3>1
    <3>2. CASE k > Len(a) - 2
      <4>1. k - (Len(a) - 2) \in 1..Len(b) /\ 2 + k = Len(a) + (k - (Len(a) - 2))
            /\ Len(Drop2(a)) + (k - (Len(a) - 2)) = k /\ k \in 1..Len(ab) - 2
        BY <1>1, <1>2, <2>1, <2>3, <3>2
      <4>2. r[Len(Drop2(a)) + (k - (Len(a) - 2))] = b[k - (Len(a) - 2)]
        BY <2>4, <4>1
      <4>3. ab[Len(a) + (k - (Len(a) - 2))] = b[k - (Len(a) - 2)]
        BY <2>1, <4>1
      <4> QED
        BY <2>3, <4>1, <4>2, <4>3
    <3> QED
      BY <1>1, <2>3, <2>1, <3>1, <3>2
  <2> QED
    BY <2>3, <2>4, <2>5, <2>6, SeqEqual DEF ab, l, r
<1> QED
  BY <1>2, <1>3

\* A run goes on with the next unit, and its beginnings are runs.
LEMMA RunOn ==
    ASSUME NEW w \in Seq(SoUnits), NEW n \in Nat, Run(w, n)
    PROVE  w \o <<n + 1>> \in Seq(SoUnits) /\ Run(w \o <<n + 1>>, n + 1)
<1>n. n + 1 \in Nat
  OBVIOUS
<1>u. n + 1 \in SoUnits
  BY <1>n, Zenon DEF SoUnits
<1>1. <<n + 1>> \in Seq(SoUnits) /\ Len(<<n + 1>>) = 1 /\ <<n + 1>>[1] = n + 1
  BY <1>u
<1> DEFINE v == <<n + 1>>
<1> HIDE DEF v
<1>2. /\ w \o v \in Seq(SoUnits) /\ Len(w \o v) = n + 1
      /\ \A i \in 1..n : (w \o v)[i] = w[i]
      /\ (w \o v)[n + 1] = n + 1
  <2>1. /\ w \o v \in Seq(SoUnits) /\ Len(w \o v) = Len(w) + Len(v)
        /\ \A i \in 1..Len(w) : (w \o v)[i] = w[i]
        /\ \A i \in 1..Len(v) : (w \o v)[Len(w) + i] = v[i]
    BY <1>1, Cat DEF v
  <2>2. Len(v) = 1 /\ v[1] = n + 1 /\ Len(w) = n
    BY <1>1 DEF v, Run
  <2> QED
    BY <2>1, <2>2
<1> QED
  BY <1>2 DEF Run, v

LEMMA RunBegins ==
    ASSUME NEW a \in Seq(SoUnits), NEW b \in Seq(SoUnits), NEW n \in Nat, Run(a \o b, n)
    PROVE  Len(a) \in 0..n /\ Run(a, Len(a))
<1>1. /\ Len(a) \in Nat /\ Len(b) \in Nat /\ Len(a \o b) = Len(a) + Len(b)
      /\ \A i \in 1..Len(a) : (a \o b)[i] = a[i]
  BY Cat
<1> QED
  BY <1>1 DEF Run

LEMMA CountedIs ==
    ASSUME NEW m \in Nat
    PROVE  Counted(m) \in Seq(SoUnits) /\ Run(Counted(m), m)
<1> DEFINE c == Counted(m)
<1>1. Nat \subseteq SoUnits
  BY Zenon DEF SoUnits
<1>2. c = [i \in 1..m |-> i]
  BY DEF Counted
<1>3. \A i \in 1..m : c[i] = i /\ c[i] \in SoUnits
  BY <1>1, <1>2
<1>4. c \in [1..m -> SoUnits]
  BY <1>1, <1>2
<1>5. c \in Seq(SoUnits) /\ Len(c) = m
  BY <1>4
<1> QED
  BY <1>3, <1>5 DEF Run

LEMMA RunIsPrefix ==
    ASSUME NEW w \in Seq(SoUnits), NEW m \in Nat, NEW n \in 0..m, Run(w, n)
    PROVE  IsPrefix(w, Counted(m)) /\ (n = m => w = Counted(m))
<1> DEFINE c == Counted(m)
<1>1. c \in Seq(SoUnits) /\ Len(c) = m /\ \A i \in 1..m : c[i] = i
  BY CountedIs DEF Run
<1> HIDE DEF c
<1>2. Len(w) = n /\ \A i \in 1..n : w[i] = i
  BY DEF Run
<1>3. /\ SubSeq(w, 1, n) \in Seq(SoUnits) /\ Len(SubSeq(w, 1, n)) = n
      /\ \A k \in 1..n : SubSeq(w, 1, n)[k] = w[k]
  <2>1. n \in 0..Len(w)
    BY <1>2
  <2> QED
    BY <2>1, Cut
<1>4. /\ SubSeq(c, 1, n) \in Seq(SoUnits) /\ Len(SubSeq(c, 1, n)) = n
      /\ \A k \in 1..n : SubSeq(c, 1, n)[k] = c[k]
  <2>1. n \in 0..Len(c)
    BY <1>1
  <2> QED
    BY <1>1, <2>1, Cut
<1>5. SubSeq(w, 1, n) = SubSeq(c, 1, n)
  BY <1>1, <1>2, <1>3, <1>4, SeqEqual
<1>6. IsPrefix(w, c)
  BY <1>1, <1>2, <1>5 DEF IsPrefix
<1>7. ASSUME n = m PROVE w = c
  BY <1>1, <1>2, <1>7, SeqEqual
<1> QED
  BY <1>6, <1>7 DEF c

-----------------------------------------------------------------------------
(* What the handlers' operators change.                                     *)

\* Everything but what is on its way.
SameSteps(x, y) == /\ y.auth = x.auth /\ y.command = x.command
                   /\ y.hello = x.hello /\ y.done = x.done
SameEnds(x, y) == /\ y.state = x.state /\ y.linked = x.linked /\ y.relay = x.relay
                  /\ y.out = x.out /\ y.back = x.back /\ y.over = x.over
SameCtl(x, y) == SameSteps(x, y) /\ SameEnds(x, y) /\ y.mark = x.mark

SameData(x, y) == y.send = x.send /\ y.recv = x.recv /\ y.tmp = x.tmp /\ y.got = x.got

\* f has v at e and is otherwise g.
Only(f, g, e, v) == \A d \in Ends : f[d] = IF d = e THEN v ELSE g[d]

LEMMA SoTyped ==
    ASSUME NEW s \in SoSet
    PROVE  /\ s.auth \in BOOLEAN /\ s.command \in BOOLEAN /\ s.linked \in BOOLEAN
           /\ s.relay \in BOOLEAN /\ s.over \in BOOLEAN
           /\ s.state \in [Ends -> SoStates] /\ s.mark \in [Ends -> SoMarks]
           /\ s.hello \in [Ends -> BOOLEAN] /\ s.done \in [Ends -> BOOLEAN]
           /\ s.send \in [Ends -> Seq(SoUnits)] /\ s.recv \in [Ends -> Seq(SoUnits)]
           /\ s.tmp \in Seq(SoUnits) /\ s.got \in Seq(SoUnits)
           /\ s.out \in 0..SoOut /\ s.back \in 0..SoBack /\ s.out \in Nat /\ s.back \in Nat
           /\ SoOut \in Nat /\ SoBack \in Nat
           /\ \A e \in Ends : /\ s.state[e] \in SoStates /\ s.mark[e] \in SoMarks
                              /\ s.hello[e] \in BOOLEAN /\ s.done[e] \in BOOLEAN
                              /\ s.send[e] \in Seq(SoUnits) /\ s.recv[e] \in Seq(SoUnits)
<1>1. SoOut \in Nat /\ SoBack \in Nat
  BY SoAssumption DEF SoAssumption
<1> QED
  BY <1>1 DEF SoSet

LEMMA SendIs ==
    ASSUME NEW x \in SoSet, NEW e \in Ends, NEW data \in Seq(SoUnits)
    PROVE  /\ Send(x, e, data) \in SoSet /\ SameCtl(x, Send(x, e, data))
           /\ Send(x, e, data).recv = x.recv /\ Send(x, e, data).tmp = x.tmp
           /\ Send(x, e, data).got = x.got
           /\ Only(Send(x, e, data).send, x.send, e, x.send[e] \o data)
<1> DEFINE v == x.send[e] \o data
           f == [x.send EXCEPT ![e] = v]
           y == Send(x, e, data)
<1>1. v \in Seq(SoUnits)
  BY SoTyped, Cat
<1>2. y = [x EXCEPT !.send = f]
  BY DEF Send
<1> HIDE DEF v
<1>3. f \in [Ends -> Seq(SoUnits)] /\ Only(f, x.send, e, v)
  BY <1>1, SoTyped DEF Only
<1> HIDE DEF f, y
<1>4. /\ y \in SoSet /\ y.send = f /\ SameCtl(x, y) /\ y.recv = x.recv /\ y.tmp = x.tmp
      /\ y.got = x.got
  BY <1>2, <1>3 DEF SoSet, SameCtl, SameSteps, SameEnds
<1> QED
  BY <1>3, <1>4 DEF y, v

LEMMA MarkIs ==
    ASSUME NEW x \in SoSet, NEW es \in SUBSET Ends, NEW m \in SoMarks
    PROVE  /\ Mark(x, es, m) \in SoSet /\ SameData(x, Mark(x, es, m))
           /\ SameSteps(x, Mark(x, es, m)) /\ SameEnds(x, Mark(x, es, m))
           /\ \A e \in Ends : Mark(x, es, m).mark[e] =
                                  IF e \in es /\ x.mark[e] # "now" THEN m ELSE x.mark[e]
<1> DEFINE f == [e \in Ends |-> IF e \in es /\ x.mark[e] # "now" THEN m ELSE x.mark[e]]
           y == Mark(x, es, m)
<1>1. f \in [Ends -> SoMarks]
  BY SoTyped
<1>2. \A e \in Ends : f[e] = IF e \in es /\ x.mark[e] # "now" THEN m ELSE x.mark[e]
  OBVIOUS
<1>3. y = [x EXCEPT !.mark = f]
  BY DEF Mark
<1> HIDE DEF f, y
<1>4. y \in SoSet /\ y.mark = f /\ SameData(x, y) /\ SameSteps(x, y) /\ SameEnds(x, y)
  BY <1>1, <1>3 DEF SoSet, SameData, SameSteps, SameEnds
<1> QED
  BY <1>2, <1>4 DEF y

LEMMA EndsAre ==
    /\ "c" \in Ends /\ "s" \in Ends /\ "p" \in Ends /\ "q" \in Ends
    /\ {"c", "s"} \in SUBSET Ends /\ {"p", "q"} \in SUBSET Ends
    /\ {"p"} \in SUBSET Ends /\ {"q"} \in SUBSET Ends /\ {"s"} \in SUBSET Ends
    /\ "none" \in SoMarks /\ "sent" \in SoMarks /\ "now" \in SoMarks
BY DEF Ends, SoMarks

\* One end of the connection between the programs reads n units.
Taken(s, e, n) == [s EXCEPT !.recv[e] = @ \o SubSeq(s.send[Peer(e)], 1, n),
                            !.send[Peer(e)] = SubSeq(@, n + 1, Len(@))]

LEMMA TakenIs ==
    ASSUME NEW s \in SoSet, NEW e \in {"s", "p"}, NEW n \in 1..Len(s.send[Peer(e)])
    PROVE  /\ Taken(s, e, n) \in SoSet /\ SameCtl(s, Taken(s, e, n))
           /\ Taken(s, e, n).tmp = s.tmp /\ Taken(s, e, n).got = s.got
           /\ Only(Taken(s, e, n).recv, s.recv, e, s.recv[e] \o SubSeq(s.send[Peer(e)], 1, n))
           /\ Only(Taken(s, e, n).send, s.send, Peer(e), SubSeq(s.send[Peer(e)], n + 1, Len(s.send[Peer(e)])))
           /\ Out(Taken(s, e, n)) = Out(s) /\ Back(Taken(s, e, n)) = Back(s)
<1> DEFINE f == Peer(e)
           a == s.recv[e] \o SubSeq(s.send[f], 1, n)
           b == SubSeq(s.send[f], n + 1, Len(s.send[f]))
           r == [s.recv EXCEPT ![e] = a]
           d == [s.send EXCEPT ![f] = b]
           x == Taken(s, e, n)
<1>1. (e = "s" /\ f = "p") \/ (e = "p" /\ f = "s")
  BY DEF Peer
<1>2. e \in Ends /\ f \in Ends
  BY <1>1, EndsAre
<1>3. s.recv[e] \in Seq(SoUnits) /\ s.send[f] \in Seq(SoUnits)
  BY <1>2, SoTyped
<1>4. a \in Seq(SoUnits) /\ b \in Seq(SoUnits) /\ a \o b = s.recv[e] \o s.send[f]
  BY <1>3, Moved
<1>5. x = [[s EXCEPT !.recv = r] EXCEPT !.send = d]
  BY DEF Taken, SoSet
<1> HIDE DEF a, b, f
<1>6. /\ r \in [Ends -> Seq(SoUnits)] /\ Only(r, s.recv, e, a)
      /\ d \in [Ends -> Seq(SoUnits)] /\ Only(d, s.send, f, b)
  BY <1>2, <1>4, SoTyped DEF Only
<1> HIDE DEF r, d, x
<1>7. /\ x \in SoSet /\ x.recv = r /\ x.send = d /\ SameCtl(s, x) /\ x.tmp = s.tmp /\ x.got = s.got
  BY <1>5, <1>6 DEF SoSet, SameCtl, SameSteps, SameEnds
<1>8. Out(x) = Out(s) /\ Back(x) = Back(s)
  <2>1. CASE e = "s" /\ f = "p"
    <3>1. /\ x.recv["s"] = a /\ x.send["p"] = b
          /\ x.recv["p"] = s.recv["p"] /\ x.send["s"] = s.send["s"]
      BY <1>6, <1>7, <2>1, EndsAre DEF Only
    <3> QED
      BY <1>4, <2>1, <3>1 DEF Out, Back
  <2>2. CASE e = "p" /\ f = "s"
    <3>1. /\ x.recv["p"] = a /\ x.send["s"] = b
          /\ x.recv["s"] = s.recv["s"] /\ x.send["p"] = s.send["p"]
      BY <1>6, <1>7, <2>2, EndsAre DEF Only
    <3> QED
      BY <1>4, <2>2, <3>1 DEF Out, Back
  <2> QED
    BY <1>1, <2>1, <2>2
<1> QED
  BY <1>6, <1>7, <1>8 DEF a, b, f, x

\* Reading changes neither the handshake nor the ends.
LEMMA HeadKept ==
    ASSUME NEW s, NEW x, SameCtl(s, x), x.tmp = s.tmp, Out(x) = Out(s), Back(x) = Back(s),
           SoInTurn(s), Shaking(s), Answering(s), Noticed(s)
    PROVE  SoInTurn(x) /\ Shaking(x) /\ Answering(x) /\ Noticed(x)
<1>1. /\ x.auth = s.auth /\ x.command = s.command /\ x.state = s.state /\ x.mark = s.mark
      /\ x.hello = s.hello /\ x.done = s.done /\ x.linked = s.linked /\ x.out = s.out
  BY DEF SameCtl, SameSteps, SameEnds
<1>2. SoInTurn(x) /\ Answering(x)
  BY <1>1 DEF SoInTurn, Answering, Up, Unmarked
<1>3. Shaking(x)
  BY <1>1 DEF Shaking
<1>4. Noticed(x)
  BY <1>1 DEF Noticed
<1> QED
  BY <1>2, <1>3, <1>4

\* socks_if_disband, after the proxy has refused.
LEMMA Refused ==
    ASSUME NEW x \in SoSet, SoInTurn(x), Shaking(x), Answering(x), Noticed(x), Quiet(x),
           x.hello["p"], ~(x.auth /\ x.command), x.auth => x.done["p"],
           ~(x.done["p"] /\ x.command)
    PROVE  SoOk(IfDisband(x))
<1>1. CASE ~x.linked
  <2>1. IfDisband(x) = x
    BY <1>1 DEF IfDisband
  <2> QED
    BY <2>1 DEF SoOk
<1>2. CASE x.linked
  <2> DEFINE y == Mark(x, {"c", "s"}, "sent")
             t == IfDisband(x)
  <2>1. /\ y \in SoSet /\ SameData(x, y) /\ SameSteps(x, y) /\ SameEnds(x, y)
        /\ \A e \in Ends : y.mark[e] = IF e \in {"c", "s"} /\ x.mark[e] # "now" THEN "sent" ELSE x.mark[e]
    BY EndsAre, MarkIs
  <2>2. t = [y EXCEPT !.linked = FALSE]
    BY <1>2 DEF IfDisband
  <2> HIDE DEF y, t
  <2>3. /\ t \in SoSet /\ SameSteps(x, t) /\ t.state = x.state /\ t.relay = x.relay /\ t.out = x.out
        /\ t.back = x.back /\ t.over = x.over /\ t.linked = FALSE /\ t.mark = y.mark
        /\ t.send = x.send /\ t.recv = x.recv /\ t.tmp = x.tmp /\ t.got = x.got
    BY <2>1, <2>2 DEF SoSet, SameSteps, SameEnds, SameData
  <2>4. /\ t.auth = x.auth /\ t.command = x.command /\ t.hello = x.hello /\ t.done = x.done
    BY <2>3 DEF SameSteps
  <2>5. Out(t) = Out(x) /\ Back(t) = Back(x)
    BY <2>3 DEF Out, Back
  <2>6. /\ t.mark["c"] # "none" /\ t.mark["p"] = x.mark["p"]
    BY <2>1, <2>3, EndsAre
  <2>7. x.state["s"] # "connecting"
    BY DEF SoInTurn
  <2>8. SoInTurn(t) /\ Shaking(t) /\ Quiet(t)
    BY <2>3, <2>4, <2>5, ZenonT(30) DEF SoInTurn, Shaking, Quiet
  <2>9. Answering(t)
    BY <2>3, <2>4, <2>7 DEF Answering, SoInTurn
  <2>10. Noticed(t)
    BY <2>3, <2>4, <2>6 DEF Noticed
  <2> QED
    BY <2>3, <2>4, <2>8, <2>9, <2>10 DEF SoOk, t
<1> QED
  BY <1>1, <1>2


-----------------------------------------------------------------------------
(* The application's end of the connection between the programs reads.      *)

\* Quiet is about what the handshake leaves alone.
LEMMA QuietKept ==
    ASSUME NEW s, NEW t, Quiet(s), t.state["q"] = s.state["q"], t.relay = s.relay, t.back = s.back,
           t.over = s.over, t.got = s.got, t.send["q"] = s.send["q"], t.recv["q"] = s.recv["q"],
           t.recv["c"] = s.recv["c"]
    PROVE  Quiet(t)
BY DEF Quiet

\* What one end reads does not concern the connection to the target.
LEMMA TakenQuiet ==
    ASSUME NEW s \in SoSet, NEW e \in {"s", "p"}, NEW n \in 1..Len(s.send[Peer(e)]), Quiet(s)
    PROVE  Quiet(Taken(s, e, n))
<1> DEFINE x == Taken(s, e, n)
<1>1. /\ SameCtl(s, x) /\ x.got = s.got
      /\ \E v : Only(x.recv, s.recv, e, v)
      /\ \E v : Only(x.send, s.send, Peer(e), v)
  BY TakenIs, Zenon
<1> HIDE DEF x
<1>2. Peer(e) # "q" /\ e # "q" /\ e # "c"
  BY DEF Peer
<1>3. x.send["q"] = s.send["q"] /\ x.recv["q"] = s.recv["q"] /\ x.recv["c"] = s.recv["c"]
  BY <1>1, <1>2, EndsAre DEF Only
<1>4. x.state = s.state /\ x.relay = s.relay /\ x.back = s.back /\ x.over = s.over
  BY <1>1 DEF SameCtl, SameEnds
<1> QED
  BY <1>1, <1>3, <1>4, QuietKept DEF x

\* The answer to the greeting: the request is sent.
LEMMA Greeted ==
    ASSUME NEW x \in SoSet, SoInTurn(x), Shaking(x), Answering(x), Noticed(x), Quiet(x),
           x.hello["p"], ~x.hello["s"], x.auth, Len(x.recv["s"]) = 2, Len(x.send["p"]) = 0
    PROVE  /\ SoOk(Send([x EXCEPT !.recv["s"] = SubSeq(@, 3, Len(@)), !.hello["s"] = TRUE], "s", Request))
           /\ Len(Send([x EXCEPT !.recv["s"] = SubSeq(@, 3, Len(@)), !.hello["s"] = TRUE], "s", Request).recv["s"]) = 0
           /\ ~Send([x EXCEPT !.recv["s"] = SubSeq(@, 3, Len(@)), !.hello["s"] = TRUE], "s", Request).done["s"]
<1> DEFINE v == SubSeq(x.recv["s"], 3, Len(x.recv["s"]))
           r == [x.recv EXCEPT !["s"] = v]
           h == [x.hello EXCEPT !["s"] = TRUE]
           y == [x EXCEPT !.recv["s"] = SubSeq(@, 3, Len(@)), !.hello["s"] = TRUE]
           t == Send(y, "s", Request)
<1>1. y = [[x EXCEPT !.recv = r] EXCEPT !.hello = h]
  BY DEF SoSet
<1>2. v \in Seq(SoUnits) /\ Len(v) = 0
  <2>1. x.recv["s"] \in Seq(SoUnits) /\ Len(x.recv["s"]) >= 2
    BY SoTyped, EndsAre
  <2>2. Drop2(x.recv["s"]) \in Seq(SoUnits) /\ Len(Drop2(x.recv["s"])) = Len(x.recv["s"]) - 2
    BY <2>1, DropFront
  <2> QED
    BY <2>2 DEF Drop2
<1> HIDE DEF v
<1>3. /\ r \in [Ends -> Seq(SoUnits)] /\ Only(r, x.recv, "s", v)
      /\ h \in [Ends -> BOOLEAN] /\ Only(h, x.hello, "s", TRUE)
  BY <1>2, SoTyped DEF Only
<1> HIDE DEF r, h, y
<1>4. /\ y \in SoSet /\ y.auth = x.auth /\ y.command = x.command /\ y.hello = h /\ y.done = x.done
      /\ SameEnds(x, y) /\ y.mark = x.mark /\ y.recv = r /\ y.send = x.send /\ y.tmp = x.tmp /\ y.got = x.got
  BY <1>1, <1>3 DEF SoSet, SameEnds
<1>r. Request \in Seq(SoUnits) /\ Len(Request) = 2
  BY DEF Request, SoUnits
<1>5. /\ t \in SoSet /\ SameCtl(y, t) /\ t.recv = y.recv /\ t.tmp = y.tmp /\ t.got = y.got
      /\ Only(t.send, y.send, "s", y.send["s"] \o Request)
  BY <1>4, <1>r, EndsAre, SendIs
<1> HIDE DEF t
<1>6. /\ t.auth = x.auth /\ t.command = x.command /\ t.done = x.done /\ t.state = x.state /\ t.mark = x.mark
      /\ t.linked = x.linked /\ t.relay = x.relay /\ t.out = x.out /\ t.back = x.back /\ t.over = x.over
      /\ t.tmp = x.tmp /\ t.got = x.got /\ t.hello = h /\ t.recv = r
  BY <1>4, <1>5 DEF SameCtl, SameSteps, SameEnds
<1>7. /\ t.hello["s"] /\ t.hello["p"] /\ ~x.done["p"] /\ ~x.done["s"]
  BY <1>3, <1>6, EndsAre DEF Only, SoInTurn
<1>8. /\ t.recv["s"] = v /\ t.recv["p"] = x.recv["p"] /\ t.recv["q"] = x.recv["q"] /\ t.recv["c"] = x.recv["c"]
      /\ t.send["s"] = x.send["s"] \o Request /\ t.send["p"] = x.send["p"] /\ t.send["q"] = x.send["q"]
  <2>1. /\ t.recv["s"] = v /\ t.recv["p"] = x.recv["p"] /\ t.recv["q"] = x.recv["q"] /\ t.recv["c"] = x.recv["c"]
    BY <1>3, <1>6, EndsAre DEF Only
  <2>2. /\ t.send["s"] = y.send["s"] \o Request /\ t.send["p"] = y.send["p"] /\ t.send["q"] = y.send["q"]
    BY <1>5, EndsAre DEF Only
  <2> QED
    BY <1>4, <2>1, <2>2
<1>9. Len(Out(t)) = 2 /\ Len(Back(t)) = 0
  <2>1. x.recv["p"] \in Seq(SoUnits) /\ x.send["s"] \in Seq(SoUnits) /\ x.send["p"] \in Seq(SoUnits)
    BY SoTyped, EndsAre
  <2>2. Len(x.recv["p"] \o x.send["s"]) = 0
    BY <1>7 DEF Shaking, Out
  <2>3. x.recv["p"] = <<>> /\ x.send["s"] = <<>>
    BY <2>1, <2>2, Lens
  <2>4. Len(x.send["s"] \o Request) = 2 /\ x.send["s"] \o Request \in Seq(SoUnits)
    BY <2>1, <2>3, <1>r, Cat
  <2>d. Len(x.recv["p"] \o (x.send["s"] \o Request)) = Len(x.recv["p"]) + Len(x.send["s"] \o Request)
    BY <2>1, <2>4, Cat, ZenonT(30)
  <2>5. Len(x.recv["p"] \o (x.send["s"] \o Request)) = 2
    BY <2>3, <2>4, <2>d
  <2>6. Len(v \o x.send["p"]) = 0
    BY <2>1, <1>2, Cat
  <2> QED
    BY <1>8, <2>5, <2>6 DEF Out, Back
<1>10. Quiet(t)
  BY <1>6, <1>8, QuietKept
<1>11. SoInTurn(t)
  BY <1>6, <1>7 DEF SoInTurn
<1>12. Shaking(t)
  <2>1. t.hello["p"] /\ t.hello["s"] /\ ~t.done["p"] /\ Len(Out(t)) <= 2 /\ Len(Back(t)) = 0
    BY <1>6, <1>7, <1>9
  <2> QED
    BY <2>1 DEF Shaking
<1>13. Answering(t)
  BY <1>6, <1>7 DEF Answering, Up, Unmarked
<1>14. Noticed(t)
  BY <1>6 DEF Noticed
<1> QED
  BY <1>2, <1>5, <1>6, <1>7, <1>8, <1>10, <1>11, <1>12, <1>13, <1>14 DEF SoOk, t, y

LEMMA TakenJoined ==
    ASSUME NEW s \in SoSet, NEW e \in {"s", "p"}, NEW n \in 1..Len(s.send[Peer(e)]),
           SoJoined(s), Carried(s), s.state[e] = "open"
    PROVE  SoJoined(Taken(s, e, n)) /\ Carried(Taken(s, e, n))
<1> DEFINE x == Taken(s, e, n)
<1>1. /\ SameCtl(s, x) /\ x.got = s.got /\ x.tmp = s.tmp /\ Out(x) = Out(s) /\ Back(x) = Back(s)
      /\ \E v : Only(x.recv, s.recv, e, v)
      /\ \E v : Only(x.send, s.send, Peer(e), v)
  BY TakenIs, Zenon
<1> HIDE DEF x
<1>2. Peer(e) # "q" /\ e # "q" /\ e # "c"
  BY DEF Peer
<1>3. x.send["q"] = s.send["q"] /\ x.recv["q"] = s.recv["q"] /\ x.recv["c"] = s.recv["c"]
  BY <1>1, <1>2, EndsAre DEF Only
<1>4. /\ x.state = s.state /\ x.mark = s.mark /\ x.relay = s.relay /\ x.back = s.back /\ x.over = s.over
      /\ x.linked = s.linked /\ x.out = s.out /\ x.done = s.done
  BY <1>1 DEF SameCtl, SameEnds, SameSteps
<1>5. s.linked
  BY DEF SoJoined
<1>6. SoJoined(x)
  BY <1>3, <1>4, <1>5 DEF SoJoined, Up, Unmarked
<1>7. Onto(x) = Onto(s) /\ Heard(x) = Heard(s)
  BY <1>1, <1>3 DEF Onto, Heard
<1>8. Carried(x)
  BY <1>1, <1>3, <1>4, <1>7 DEF Carried
<1> QED
  BY <1>6, <1>8 DEF x

\* The proxy's success: what was kept is sent, and what came with it is handed on.
LEMMA AcceptedSound ==
    ASSUME NEW x \in SoSet, SoInTurn(x), Shaking(x), Answering(x), Noticed(x), SoJoined(x), Carried(x),
           x.done["p"], x.command, x.linked, ~x.done["s"], Len(x.recv["s"]) >= 2, x.relay => x.recv["p"] = <<>>
    PROVE  SoOk(IfRelay(IfResult(x)))
<1> DEFINE v == SubSeq(x.recv["s"], 3, Len(x.recv["s"]))
           r == [x.recv EXCEPT !["s"] = v]
           h == [x.done EXCEPT !["s"] = TRUE]
           y == [x EXCEPT !.recv["s"] = SubSeq(@, 3, Len(@)), !.done["s"] = TRUE]
           u == Send(y, "s", y.tmp)
           z == [u EXCEPT !.tmp = <<>>]
           w == z.recv["c"] \o z.recv["s"]
           f == [[z.recv EXCEPT !["c"] = w] EXCEPT !["s"] = <<>>]
           t == [z EXCEPT !.recv["c"] = @ \o z.recv["s"], !.recv["s"] = <<>>]
<1>p. /\ x.recv["s"] \in Seq(SoUnits) /\ x.send["p"] \in Seq(SoUnits) /\ x.send["s"] \in Seq(SoUnits)
      /\ x.recv["p"] \in Seq(SoUnits) /\ x.recv["c"] \in Seq(SoUnits) /\ x.tmp \in Seq(SoUnits)
      /\ x.got \in Seq(SoUnits) /\ x.send["q"] \in Seq(SoUnits)
  BY SoTyped, EndsAre
<1>0. x.hello["s"] /\ x.recv["s"][1] = "success"
  <2>1. Back(x)[1] = "success" /\ x.hello["s"]
    BY DEF Carried, SoInTurn
  <2>2. Back(x)[1] = x.recv["s"][1]
    <3>1. 1 \in 1..Len(x.recv["s"])
      BY <1>p
    <3> DEFINE a == x.recv["s"]
               b == x.send["p"]
    <3>a. a \in Seq(SoUnits) /\ b \in Seq(SoUnits) /\ 1 \in 1..Len(a)
      BY <1>p, <3>1
    <3> HIDE DEF a, b
    <3>c. (a \o b)[1] = a[1]
      BY <3>a, Cat
    <3>2. (x.recv["s"] \o x.send["p"])[1] = x.recv["s"][1]
      BY <3>c DEF a, b
    <3> QED
      BY <3>2 DEF Back
  <2> QED
    BY <2>1, <2>2
<1>1. y = [[x EXCEPT !.recv = r] EXCEPT !.done = h]
  BY DEF SoSet
<1>v. v = Drop2(x.recv["s"])
  BY DEF Drop2
<1>2. v \in Seq(SoUnits)
  BY <1>p, <1>v, DropFront
<1> HIDE DEF v
<1>3. /\ r \in [Ends -> Seq(SoUnits)] /\ Only(r, x.recv, "s", v)
      /\ h \in [Ends -> BOOLEAN] /\ Only(h, x.done, "s", TRUE)
  BY <1>2, SoTyped DEF Only
<1> HIDE DEF r, h, y
<1>4. /\ y \in SoSet /\ y.auth = x.auth /\ y.command = x.command /\ y.hello = x.hello /\ y.done = h
      /\ SameEnds(x, y) /\ y.mark = x.mark /\ y.recv = r /\ y.send = x.send /\ y.tmp = x.tmp /\ y.got = x.got
  BY <1>1, <1>3 DEF SoSet, SameEnds
<1>y. y.linked
  BY <1>4 DEF SameEnds
<1>5. /\ u \in SoSet /\ SameCtl(y, u) /\ u.recv = y.recv /\ u.tmp = y.tmp /\ u.got = y.got
      /\ Only(u.send, y.send, "s", y.send["s"] \o y.tmp)
  <2>1. y \in SoSet /\ "s" \in Ends /\ y.tmp \in Seq(SoUnits)
    BY <1>4, <1>p, EndsAre
  <2> QED
    BY <2>1, SendIs
<1>i. IfResult(x) = z
  BY <1>0, <1>y DEF IfResult, y
<1> HIDE DEF u
<1>6. /\ z \in SoSet /\ SameCtl(u, z) /\ z.recv = u.recv /\ z.got = u.got /\ z.send = u.send /\ z.tmp = <<>>
  <2>1. <<>> \in Seq(SoUnits)
    OBVIOUS
  <2> QED
    BY <1>5, <2>1 DEF SoSet, SameCtl, SameSteps, SameEnds
<1> HIDE DEF z
<1>7. /\ z.auth = x.auth /\ z.command = x.command /\ z.done = h /\ z.state = x.state /\ z.mark = x.mark
      /\ z.linked = x.linked /\ z.relay = x.relay /\ z.out = x.out /\ z.back = x.back /\ z.over = x.over
      /\ z.got = x.got /\ z.hello = x.hello /\ z.recv = r
  BY <1>4, <1>5, <1>6 DEF SameCtl, SameSteps, SameEnds
<1>8. z.done["s"] /\ z.linked
  BY <1>3, <1>7, EndsAre DEF Only
<1>9. IfRelay(IfResult(x)) = t
  BY <1>8, <1>i DEF IfRelay
<1>10. t = [z EXCEPT !.recv = f]
  BY <1>6 DEF SoSet
<1>11. z.recv["s"] = v /\ z.recv["c"] = x.recv["c"] /\ w \in Seq(SoUnits)
  <2>1. z.recv["s"] = v /\ z.recv["c"] = x.recv["c"]
    BY <1>3, <1>7, EndsAre DEF Only
  <2> QED
    BY <1>2, <1>p, <2>1, Cat
<1>12. /\ f \in [Ends -> Seq(SoUnits)] /\ f["c"] = w /\ f["s"] = <<>>
       /\ f["p"] = z.recv["p"] /\ f["q"] = z.recv["q"]
  <2>1. z.recv \in [Ends -> Seq(SoUnits)] /\ <<>> \in Seq(SoUnits)
    BY <1>6, SoTyped
  <2> HIDE DEF w
  <2> QED
    BY <1>11, <2>1, EndsAre
<1> HIDE DEF f, w, t
<1>13. /\ t \in SoSet /\ SameCtl(z, t) /\ t.recv = f /\ t.got = z.got /\ t.send = z.send /\ t.tmp = z.tmp
  BY <1>6, <1>10, <1>12 DEF SoSet, SameCtl, SameSteps, SameEnds
<1>14. /\ t.auth = x.auth /\ t.command = x.command /\ t.done = h /\ t.state = x.state /\ t.mark = x.mark
       /\ t.linked = x.linked /\ t.relay = x.relay /\ t.out = x.out /\ t.back = x.back /\ t.over = x.over
       /\ t.got = x.got /\ t.hello = x.hello /\ t.tmp = <<>>
  BY <1>6, <1>7, <1>13 DEF SameCtl, SameSteps, SameEnds
<1>15. /\ t.recv["c"] = x.recv["c"] \o v /\ t.recv["s"] = <<>>
       /\ t.recv["p"] = x.recv["p"] /\ t.recv["q"] = x.recv["q"]
  <2>1. r["p"] = x.recv["p"] /\ r["q"] = x.recv["q"]
    BY <1>3, EndsAre DEF Only
  <2> QED
    BY <1>7, <1>11, <1>12, <1>13, <2>1 DEF w
<1>16. /\ t.send["s"] = x.send["s"] \o x.tmp /\ t.send["p"] = x.send["p"] /\ t.send["q"] = x.send["q"]
  <2>1. t.send = u.send
    BY <1>6, <1>13
  <2> QED
    BY <1>4, <1>5, <2>1, EndsAre DEF Only
<1>17. t.done["s"] /\ t.done["p"] /\ t.hello["s"] /\ t.hello["p"]
  <2>1. h["s"] /\ h["p"]
    BY <1>3, EndsAre DEF Only
  <2> QED
    BY <1>0, <1>14, <2>1 DEF SoInTurn
<1>18. Onto(t) = Onto(x)
  <2> DEFINE g == x.got \o x.send["q"]
             o == x.recv["p"] \o x.send["s"]
  <2>1. g \in Seq(SoUnits) /\ o \in Seq(SoUnits)
    BY <1>p, Lens
  <2>2. Out(t) = o \o x.tmp
    <3>1. (x.recv["p"] \o x.send["s"]) \o x.tmp = x.recv["p"] \o (x.send["s"] \o x.tmp)
      <4> DEFINE a == x.recv["p"]
                 b == x.send["s"]
                 c == x.tmp
      <4>a. a \in Seq(SoUnits) /\ b \in Seq(SoUnits) /\ c \in Seq(SoUnits)
        BY <1>p
      <4> HIDE DEF a, b, c
      <4>b. (a \o b) \o c = a \o (b \o c)
        BY <4>a, Assoc
      <4> QED
        BY <4>b DEF a, b, c
    <3> QED
      BY <1>15, <1>16, <3>1 DEF Out
  <2>3. Out(x) = o
    BY DEF Out
  <2> HIDE DEF o, g
  <2>4. Onto(t) = (g \o (o \o x.tmp)) \o <<>>
    BY <1>14, <1>16, <2>2 DEF Onto, g
  <2>5. g \o (o \o x.tmp) \in Seq(SoUnits)
    BY <2>1, <1>p, Lens
  <2>6. Onto(t) = g \o (o \o x.tmp)
    BY <2>4, <2>5, Cat
  <2>7. (g \o o) \o x.tmp = g \o (o \o x.tmp)
    <3>1. g \in Seq(SoUnits) /\ o \in Seq(SoUnits) /\ x.tmp \in Seq(SoUnits)
      BY <2>1, <1>p
    <3> QED
      BY <3>1, Assoc
  <2> QED
    BY <2>3, <2>6, <2>7 DEF Onto, g
<1>19. Heard(t) = Drop2(Back(x))
  <2>1. Drop2(Back(x)) = v \o x.send["p"]
    BY <1>p, <1>v, DropFront DEF Back
  <2>2. x.recv["c"] = <<>>
    BY DEF Carried
  <2>3. t.recv["c"] = v
    BY <1>2, <1>15, <2>2, Cat
  <2>4. Back(t) = x.send["p"]
    BY <1>15, <1>16, <1>p, Cat DEF Back
  <2> QED
    BY <2>1, <2>3, <2>4 DEF Heard
<1>20. SoInTurn(t)
  BY <1>14, <1>17 DEF SoInTurn
<1>21. Shaking(t)
  BY <1>14, <1>17 DEF Shaking
<1>22. Answering(t)
  BY <1>14, <1>17 DEF Answering, Up, Unmarked
<1>23. Noticed(t)
  BY <1>14, <1>17 DEF Noticed
<1>24. SoJoined(t)
  BY <1>14, <1>15, <1>16, <1>17 DEF SoJoined, Up, Unmarked
<1>25. PassedOn(t)
  BY <1>14, <1>15, <1>17 DEF PassedOn
<1>26. Carried(t)
  BY <1>14, <1>16, <1>17, <1>18, <1>19 DEF Carried
<1> QED
  BY <1>9, <1>13, <1>14, <1>17, <1>20, <1>21, <1>22, <1>23, <1>24, <1>25, <1>26 DEF SoOk

LEMMA DisbandSteps ==
    ASSUME NEW x \in SoSet
    PROVE  IfDisband(x).hello = x.hello /\ IfDisband(x).done = x.done
BY EndsAre, MarkIs DEF IfDisband, SameSteps


\* What comes once the proxy has connected is handed on at once.
LEMMA HandedOn ==
    ASSUME NEW x \in SoSet, SoInTurn(x), Shaking(x), Answering(x), Noticed(x), SoJoined(x), Carried(x),
           x.done["s"], x.linked, x.relay => x.recv["p"] = <<>>
    PROVE  SoOk(IfRelay(x))
<1> DEFINE w == x.recv["c"] \o x.recv["s"]
           f == [[x.recv EXCEPT !["c"] = w] EXCEPT !["s"] = <<>>]
           t == [x EXCEPT !.recv["c"] = @ \o x.recv["s"], !.recv["s"] = <<>>]
           a == x.recv["c"]
           b == x.recv["s"]
           d == x.send["p"]
<1>1. IfRelay(x) = t /\ t = [x EXCEPT !.recv = f]
  BY DEF IfRelay, SoSet
<1>2. a \in Seq(SoUnits) /\ b \in Seq(SoUnits) /\ d \in Seq(SoUnits) /\ <<>> \in Seq(SoUnits)
  BY SoTyped, EndsAre
<1> HIDE DEF a, b, d
<1>3. w \in Seq(SoUnits)
  <2>1. a \o b \in Seq(SoUnits)
    BY <1>2, Lens
  <2> QED
    BY <2>1 DEF a, b
<1> HIDE DEF w
<1>4. /\ f \in [Ends -> Seq(SoUnits)] /\ f["c"] = w /\ f["s"] = <<>>
      /\ f["p"] = x.recv["p"] /\ f["q"] = x.recv["q"]
  <2>1. x.recv \in [Ends -> Seq(SoUnits)]
    BY SoTyped
  <2> QED
    BY <1>2, <1>3, <2>1, EndsAre
<1> HIDE DEF f, t
<1>5. /\ t \in SoSet /\ SameCtl(x, t) /\ t.recv = f /\ t.got = x.got /\ t.send = x.send /\ t.tmp = x.tmp
  BY <1>1, <1>4 DEF SoSet, SameCtl, SameSteps, SameEnds
<1>6. /\ t.auth = x.auth /\ t.command = x.command /\ t.done = x.done /\ t.state = x.state /\ t.mark = x.mark
      /\ t.linked = x.linked /\ t.relay = x.relay /\ t.out = x.out /\ t.back = x.back /\ t.over = x.over
      /\ t.hello = x.hello
  BY <1>5 DEF SameCtl, SameSteps, SameEnds
<1>7. x.done["p"] /\ x.command /\ x.hello["s"] /\ x.hello["p"]
  BY DEF SoInTurn
<1>8. Out(t) = Out(x) /\ Onto(t) = Onto(x)
  BY <1>4, <1>5 DEF Out, Onto
<1>9. Heard(t) = Heard(x)
  <2>1. Back(t) = d
    <3>1. Back(t) = <<>> \o d
      BY <1>4, <1>5 DEF Back, d
    <3>2. <<>> \o d = d
      BY <1>2, ConcatEmptySeq
    <3> QED
      BY <3>1, <3>2
  <2>2. Heard(t) = (a \o b) \o d
    BY <1>4, <1>5, <2>1 DEF Heard, w, a, b
  <2>3. Heard(x) = a \o (b \o d)
    BY DEF Heard, Back, a, b, d
  <2> QED
    BY <1>2, <2>2, <2>3, Assoc
<1>10. SoInTurn(t)
  BY <1>6 DEF SoInTurn
<1>11. Shaking(t)
  BY <1>6, <1>7 DEF Shaking
<1>12. Answering(t)
  BY <1>6, <1>7 DEF Answering, SoInTurn
<1>13. Noticed(t)
  BY <1>6, <1>7 DEF Noticed
<1>14. SoJoined(t)
  BY <1>4, <1>5, <1>6 DEF SoJoined, Up, Unmarked
<1>15. PassedOn(t)
  BY <1>4, <1>5, <1>6 DEF PassedOn
<1>16. Carried(t)
  BY <1>5, <1>6, <1>8, <1>9 DEF Carried
<1> QED
  BY <1>1, <1>5, <1>6, <1>7, <1>10, <1>11, <1>12, <1>13, <1>14, <1>15, <1>16 DEF SoOk

\* socks_if_handler, MG_EV_RECV
LEMMA StepS ==
    ASSUME NEW s, SoOk(s), s.state["s"] = "open", NEW n \in 1..Len(s.send["p"])
    PROVE  SoOk(IfRelay(IfResult(IfHello(Taken(s, "s", n)))))
<1> DEFINE x == Taken(s, "s", n)
           a == x.recv["s"]
           b == x.send["p"]
<1> SUFFICES SoOk(IfRelay(IfResult(IfHello(x))))
  OBVIOUS
<1>1. s \in SoSet /\ SoInTurn(s) /\ Shaking(s) /\ Answering(s) /\ Noticed(s)
  BY DEF SoOk
<1>2. Peer("s") = "p" /\ "s" \in {"s", "p"}
  BY DEF Peer
<1>3. /\ x \in SoSet /\ SameCtl(s, x) /\ x.tmp = s.tmp /\ x.got = s.got /\ Out(x) = Out(s) /\ Back(x) = Back(s)
      /\ a = s.recv["s"] \o SubSeq(s.send["p"], 1, n)
      /\ x.recv["p"] = s.recv["p"]
  <2>1. /\ Only(x.recv, s.recv, "s", s.recv["s"] \o SubSeq(s.send[Peer("s")], 1, n))
        /\ x \in SoSet /\ SameCtl(s, x) /\ x.tmp = s.tmp /\ x.got = s.got /\ Out(x) = Out(s) /\ Back(x) = Back(s)
    BY <1>1, <1>2, TakenIs
  <2> HIDE DEF x
  <2> QED
    BY <1>2, <2>1, EndsAre DEF Only
<1> HIDE DEF x
<1>4. a \in Seq(SoUnits) /\ b \in Seq(SoUnits) /\ Back(x) = a \o b /\ Len(a) \in Nat
  <2>1. a \in Seq(SoUnits) /\ b \in Seq(SoUnits)
    BY <1>3, SoTyped, EndsAre
  <2> QED
    BY <2>1 DEF Back
<1>5. Len(a) >= 1
  <2> DEFINE c == s.recv["s"]
             d == s.send["p"]
  <2>1. c \in Seq(SoUnits) /\ d \in Seq(SoUnits) /\ n \in 1..Len(d)
    BY <1>1, SoTyped, EndsAre
  <2> HIDE DEF c, d
  <2>2. Len(c \o SubSeq(d, 1, n)) = Len(c) + n /\ Len(c) \in Nat
    BY <2>1, Moved
  <2> QED
    BY <1>3, <2>1, <2>2 DEF c, d
<1>6. x.state = s.state /\ x.done = s.done /\ x.hello = s.hello /\ x.command = s.command /\ x.auth = s.auth
      /\ x.linked = s.linked /\ x.relay = s.relay
  BY <1>3 DEF SameCtl, SameSteps, SameEnds
<1>7. SoInTurn(x) /\ Shaking(x) /\ Answering(x) /\ Noticed(x)
  BY <1>1, <1>3, HeadKept
<1> DEFINE la == Len(a)
           lb == Len(b)
           lx == Len(Back(x))
<1>8. lx = la + lb /\ la \in Nat /\ lb \in Nat /\ la >= 1 /\ lx >= 1 /\ lx > 0
  <2>1. Len(Back(x)) = Len(a) + Len(b) /\ Len(b) \in Nat
    BY <1>4, Lens
  <2>2. lx = la + lb /\ la \in Nat /\ lb \in Nat /\ la >= 1
    BY <1>4, <1>5, <2>1
  <2> HIDE DEF la, lb, lx
  <2> QED
    BY <2>2
<1> HIDE DEF la, lb, lx
<1>h. SoInTurn(x) /\ Answering(x) /\ Noticed(x)
      /\ (~x.hello["p"] => lx = 0)
      /\ (x.hello["p"] /\ ~x.hello["s"] =>
             lx <= 2 /\ (lx = 2 => Back(x)[2] = IF x.auth THEN "no auth" ELSE "failure"))
      /\ (x.hello["s"] /\ ~x.done["p"] => lx = 0)
      /\ (x.done["p"] /\ ~x.command => Back(x)[1] = "not supported")
  <2> DEFINE bx == Back(x)
  <2>1. /\ ~x.hello["p"] => lx = 0
        /\ x.hello["p"] /\ ~x.hello["s"] => lx <= 2 /\ (lx = 2 => bx[2] = IF x.auth THEN "no auth" ELSE "failure")
        /\ x.hello["s"] /\ ~x.done["p"] => lx = 0
        /\ x.done["p"] /\ ~x.command /\ lx > 0 => bx[1] = "not supported"
    BY <1>7 DEF Shaking, lx
  <2> QED
    BY <1>7, <1>8, <2>1
<1>9. ~(s.done["p"] /\ s.command) => Quiet(x)
  <2>1. SUFFICES ASSUME ~(s.done["p"] /\ s.command) PROVE Quiet(x)
    OBVIOUS
  <2>2. Quiet(s)
    BY <2>1 DEF SoOk
  <2> QED
    BY <1>1, <1>2, <2>2, TakenQuiet DEF x
<1>10. s.done["p"] /\ s.command => SoJoined(x) /\ Carried(x) /\ (x.relay => x.recv["p"] = <<>>) /\ x.linked
  <2>1. SUFFICES ASSUME s.done["p"] /\ s.command
                 PROVE  SoJoined(x) /\ Carried(x) /\ (x.relay => x.recv["p"] = <<>>) /\ x.linked
    OBVIOUS
  <2>2. SoJoined(s) /\ Carried(s) /\ PassedOn(s)
    BY <2>1 DEF SoOk
  <2>3. SoJoined(x) /\ Carried(x)
    BY <1>1, <1>2, <2>2, TakenJoined DEF x
  <2> QED
    BY <1>3, <1>6, <2>2, <2>3 DEF PassedOn, SoJoined
<1> HIDE DEF a, b
<1>11. CASE ~s.hello["s"]
  <2>1. ~x.done["p"] /\ ~x.done["s"] /\ ~x.hello["s"] /\ Quiet(x)
    BY <1>6, <1>9, <1>11, <1>1 DEF SoInTurn
  <2>2. CASE la < 2
    <3>1. IfRelay(IfResult(IfHello(x))) = x
      BY <2>1, <2>2, ZenonT(30) DEF IfRelay, IfResult, IfHello, a, la
    <3> QED
      BY <1>3, <1>7, <2>1, <3>1 DEF SoOk
  <2>3. CASE la >= 2
    <3>1. x.hello["p"]
      <4>1. ~(lx = 0)
        BY <1>8, <2>3
      <4> QED
        BY <1>h, <4>1
    <3>2. lx <= 2
      BY <1>h, <2>1, <3>1
    <3>3. la = 2 /\ lb = 0 /\ lx = 2
      BY <1>8, <2>3, <3>2
    <3>l. Len(x.recv["s"]) = 2 /\ Len(x.send["p"]) = 0 /\ ~(Len(x.recv["s"]) < 2) /\ 2 \in 1..Len(a)
      BY <3>3 DEF a, b, la, lb
    <3>4. a[2] = IF x.auth THEN "no auth" ELSE "failure"
      <4>1. Back(x)[2] = IF x.auth THEN "no auth" ELSE "failure"
        BY <1>h, <2>1, <3>1, <3>3
      <4>2. (a \o b)[2] = a[2]
        BY <1>4, <3>l, Cat
      <4> QED
        BY <1>4, <4>1, <4>2
    <3>5. CASE x.auth
      <4>1. IfHello(x) = Send([x EXCEPT !.recv["s"] = SubSeq(@, 3, Len(@)), !.hello["s"] = TRUE], "s", Request)
        BY <2>1, <3>l, <3>4, <3>5 DEF IfHello, a
      <4>2. SoOk(IfHello(x)) /\ Len(IfHello(x).recv["s"]) = 0 /\ ~IfHello(x).done["s"]
        BY <1>3, <1>7, <2>1, <3>1, <3>l, <3>5, <4>1, Greeted
      <4>3. IfRelay(IfResult(IfHello(x))) = IfHello(x)
        BY <4>2 DEF IfRelay, IfResult
      <4> QED
        BY <4>2, <4>3
    <3>6. CASE ~x.auth
      <4>1. IfHello(x) = IfDisband(x)
        BY <2>1, <3>l, <3>4, <3>6 DEF IfHello, a
      <4>2. SoOk(IfDisband(x))
        BY <1>3, <1>7, <2>1, <3>1, <3>6, Refused
      <4>3. ~IfDisband(x).hello["s"] /\ ~IfDisband(x).done["s"]
        BY <1>3, <2>1, DisbandSteps
      <4>4. IfRelay(IfResult(IfHello(x))) = IfDisband(x)
        BY <4>1, <4>3 DEF IfRelay, IfResult
      <4> QED
        BY <4>2, <4>4
    <3> QED
      BY <3>5, <3>6
  <2> QED
    BY <1>8, <2>2, <2>3
<1>12. CASE s.hello["s"] /\ ~s.done["s"]
  <2>1. x.hello["s"] /\ ~x.done["s"] /\ x.hello["p"] /\ x.auth
    BY <1>6, <1>7, <1>12 DEF SoInTurn
  <2>2. x.done["p"]
    <3>1. ~(lx = 0)
      BY <1>8
    <3> QED
      BY <1>h, <2>1, <3>1
  <2>3. IfHello(x) = x
    BY <2>1 DEF IfHello
  <2>4. CASE la < 2
    <3>1. IfRelay(IfResult(IfHello(x))) = x
      BY <2>1, <2>3, <2>4 DEF IfRelay, IfResult, a, la
    <3>2. x.command => PassedOn(x)
      BY <1>6, <1>10, <2>1, <2>2, <2>4 DEF PassedOn, a, la
    <3> QED
      BY <1>3, <1>6, <1>7, <1>9, <1>10, <2>2, <3>1, <3>2 DEF SoOk
  <2>5. CASE la >= 2 /\ x.command
    <3>1. SoJoined(x) /\ Carried(x) /\ (x.relay => x.recv["p"] = <<>>) /\ x.linked
      BY <1>6, <1>10, <2>2, <2>5
    <3>2. Len(x.recv["s"]) >= 2
      BY <2>5 DEF a, la
    <3>3. SoOk(IfRelay(IfResult(x)))
      BY <1>3, <1>7, <2>1, <2>2, <2>5, <3>1, <3>2, AcceptedSound
    <3> QED
      BY <2>3, <3>3
  <2>6. CASE la >= 2 /\ ~x.command
    <3>l. ~(Len(x.recv["s"]) < 2) /\ 1 \in 1..Len(a)
      BY <1>8, <2>6 DEF a, la
    <3>1. a[1] = "not supported"
      <4>1. Back(x)[1] = "not supported"
        BY <1>h, <2>2, <2>6
      <4>2. (a \o b)[1] = a[1]
        BY <1>4, <3>l, Cat
      <4> QED
        BY <1>4, <4>1, <4>2
    <3>2. IfResult(x) = IfDisband(x)
      BY <2>1, <3>l, <3>1 DEF IfResult, a
    <3>3. Quiet(x)
      BY <1>6, <1>9, <2>6
    <3>4. SoOk(IfDisband(x))
      BY <1>3, <1>7, <2>1, <2>2, <2>6, <3>3, Refused
    <3>5. ~IfDisband(x).done["s"]
      BY <1>3, <2>1, DisbandSteps
    <3>6. IfRelay(IfDisband(x)) = IfDisband(x)
      BY <3>5 DEF IfRelay
    <3> QED
      BY <2>3, <3>2, <3>4, <3>6
  <2> QED
    BY <1>8, <2>4, <2>5, <2>6
<1>13. CASE s.done["s"]
  <2>1. x.done["s"] /\ x.done["p"] /\ x.command /\ x.hello["s"]
    BY <1>6, <1>7, <1>13 DEF SoInTurn
  <2>2. IfResult(IfHello(x)) = x
    BY <2>1 DEF IfResult, IfHello
  <2>3. SoOk(IfRelay(x))
    BY <1>3, <1>6, <1>7, <1>10, <2>1, HandedOn
  <2> QED
    BY <2>2, <2>3
<1>14. s.hello["s"] \in BOOLEAN /\ s.done["s"] \in BOOLEAN
  BY <1>1, SoTyped, EndsAre
<1> QED
  BY <1>11, <1>12, <1>13, <1>14


-----------------------------------------------------------------------------
(* The proxy reads.                                                         *)

\* The greeting is answered.
LEMMA Greets ==
    ASSUME NEW x \in SoSet, SoInTurn(x), Shaking(x), Answering(x), Noticed(x), Quiet(x),
           ~x.hello["p"], x.state["s"] = "open", Len(x.recv["p"]) = 2, Len(x.send["s"]) = 0
    PROVE  /\ SoOk(Handshake(x)) /\ ~Handshake(x).done["p"]
           /\ Len(Handshake(x).recv["p"]) = 0
<1> DEFINE v == SubSeq(x.recv["p"], 3, Len(x.recv["p"]))
           m == Chosen(x.auth)
           r == [x.recv EXCEPT !["p"] = v]
           h == [x.hello EXCEPT !["p"] = TRUE]
           y == [x EXCEPT !.recv["p"] = SubSeq(@, 3, Len(@)), !.hello["p"] = TRUE]
           t == Send(y, "p", m)
<1>v. x.version = TRUE
  BY DEF SoSet
<1>0. Handshake(x) = t
  BY <1>v DEF Handshake
<1>1. y = [[x EXCEPT !.recv = r] EXCEPT !.hello = h]
  BY DEF SoSet
<1>2. v \in Seq(SoUnits) /\ v = <<>>
  <2>1. x.recv["p"] \in Seq(SoUnits) /\ Len(x.recv["p"]) >= 2
    BY SoTyped, EndsAre
  <2>2. Drop2(x.recv["p"]) \in Seq(SoUnits) /\ Len(Drop2(x.recv["p"])) = Len(x.recv["p"]) - 2
    BY <2>1, DropFront
  <2>3. v \in Seq(SoUnits) /\ Len(v) = 0
    BY <2>2 DEF Drop2
  <2> HIDE DEF v
  <2> QED
    BY <2>3, Lens
<1> HIDE DEF v
<1>3. /\ r \in [Ends -> Seq(SoUnits)] /\ Only(r, x.recv, "p", v)
      /\ h \in [Ends -> BOOLEAN] /\ Only(h, x.hello, "p", TRUE)
  BY <1>2, SoTyped DEF Only
<1> HIDE DEF r, h, y
<1>4. /\ y \in SoSet /\ y.auth = x.auth /\ y.command = x.command /\ y.hello = h /\ y.done = x.done
      /\ SameEnds(x, y) /\ y.mark = x.mark /\ y.recv = r /\ y.send = x.send /\ y.tmp = x.tmp /\ y.got = x.got
  BY <1>1, <1>3 DEF SoSet, SameEnds
<1>r. m \in Seq(SoUnits) /\ Len(m) = 2 /\ m[2] = IF x.auth THEN "no auth" ELSE "failure"
  BY DEF Chosen, SoUnits
<1> HIDE DEF m
<1>5. /\ t \in SoSet /\ SameCtl(y, t) /\ t.recv = y.recv /\ t.tmp = y.tmp /\ t.got = y.got
      /\ Only(t.send, y.send, "p", y.send["p"] \o m)
  BY <1>4, <1>r, EndsAre, SendIs
<1> HIDE DEF t
<1>6. /\ t.auth = x.auth /\ t.command = x.command /\ t.done = x.done /\ t.state = x.state /\ t.mark = x.mark
      /\ t.linked = x.linked /\ t.relay = x.relay /\ t.out = x.out /\ t.back = x.back /\ t.over = x.over
      /\ t.tmp = x.tmp /\ t.got = x.got /\ t.hello = h /\ t.recv = r
  BY <1>4, <1>5 DEF SameCtl, SameSteps, SameEnds
<1>7. /\ t.hello["p"] /\ ~t.hello["s"] /\ ~t.done["p"] /\ ~t.done["s"]
  <2>1. h["p"] /\ h["s"] = x.hello["s"]
    BY <1>3, EndsAre DEF Only
  <2> QED
    BY <1>6, <2>1 DEF SoInTurn
<1>8. /\ t.recv["s"] = x.recv["s"] /\ t.recv["p"] = v /\ t.recv["q"] = x.recv["q"] /\ t.recv["c"] = x.recv["c"]
      /\ t.send["p"] = x.send["p"] \o m /\ t.send["s"] = x.send["s"] /\ t.send["q"] = x.send["q"]
  <2>1. /\ t.recv["s"] = x.recv["s"] /\ t.recv["p"] = v /\ t.recv["q"] = x.recv["q"] /\ t.recv["c"] = x.recv["c"]
    BY <1>3, <1>6, EndsAre DEF Only
  <2>2. /\ t.send["p"] = y.send["p"] \o m /\ t.send["s"] = y.send["s"] /\ t.send["q"] = y.send["q"]
    BY <1>5, EndsAre DEF Only
  <2> QED
    BY <1>4, <2>1, <2>2
<1>9. Out(t) = <<>> /\ Back(t) = m
  <2>1. x.recv["s"] \in Seq(SoUnits) /\ x.send["s"] \in Seq(SoUnits) /\ x.send["p"] \in Seq(SoUnits)
    BY SoTyped, EndsAre
  <2>2. Len(x.recv["s"] \o x.send["p"]) = 0
    BY DEF Shaking, Back
  <2>3. x.recv["s"] = <<>> /\ x.send["p"] = <<>>
    BY <2>1, <2>2, Lens, ZenonT(30)
  <2>4. x.send["s"] = <<>>
    BY <2>1, Lens
  <2>5. <<>> \o m = m /\ <<>> \o (<<>> \o m) = m
    BY <1>r, Cat
  <2>6. Back(t) = m
    BY <1>8, <2>3, <2>5 DEF Back
  <2> QED
    BY <1>2, <1>8, <2>4, <2>6, Cat DEF Out
<1>10. Quiet(t)
  BY <1>6, <1>8, QuietKept
<1>11. SoInTurn(t)
  BY <1>6, <1>7 DEF SoInTurn
<1>12. Shaking(t)
  <2>1. /\ Len(Out(t)) = 0 /\ Len(Back(t)) = 2 /\ Len(Back(t)) <= 2
        /\ Back(t)[2] = IF t.auth THEN "no auth" ELSE "failure"
    <3>1. Len(Out(t)) = 0
      BY <1>9, EmptySeq
    <3> DEFINE l == Len(m)
    <3>l. l = 2
      BY <1>r
    <3> HIDE DEF l
    <3>m. l <= 2
      BY <3>l
    <3>2. Len(Back(t)) = 2 /\ Len(Back(t)) <= 2 /\ Back(t)[2] = m[2]
      BY <1>9, <3>l, <3>m DEF l
    <3>3. m[2] = IF t.auth THEN "no auth" ELSE "failure"
      BY <1>6, <1>r
    <3> HIDE DEF t
    <3> QED
      BY <3>1, <3>2, <3>3
  <2> QED
    BY <1>7, <2>1 DEF Shaking
<1>13. Answering(t)
  BY <1>6, <1>7 DEF Answering, Up, Unmarked
<1>14. Noticed(t)
  <2>1. ~x.done["p"]
    BY <1>6, <1>7
  <2> QED
    BY <1>6, <2>1 DEF Noticed
<1>15. Len(t.recv["p"]) = 0
  BY <1>2, <1>8
<1> QED
  BY <1>0, <1>5, <1>7, <1>10, <1>11, <1>12, <1>13, <1>14, <1>15 DEF SoOk

\* relay_data of what has come from the application.
LEMMA PassesOn ==
    ASSUME NEW x \in SoSet, SoInTurn(x), Shaking(x), Answering(x), Noticed(x), x.done["p"],
           ~x.command => Quiet(x), x.command => SoJoined(x) /\ Carried(x),
           x.linked /\ x.command => IF x.done["s"] THEN x.recv["s"] = <<>> ELSE Len(x.recv["s"]) < 2
    PROVE  SoOk(RelayData(x, "p", "q"))
<1>h. x.hello["s"] /\ x.hello["p"]
  BY DEF SoInTurn
<1>1. CASE x.relay
  <2>0. x.command /\ SoJoined(x) /\ Carried(x)
    BY <1>1 DEF Quiet
  <2> DEFINE a == x.recv["p"]
             g == x.got
             q == x.send["q"]
             d == x.send["s"]
             k == x.tmp
             y == Send(x, "q", x.recv["p"])
             f == [y.recv EXCEPT !["p"] = <<>>]
             t == RelayData(x, "p", "q")
  <2>1. /\ a \in Seq(SoUnits) /\ g \in Seq(SoUnits) /\ q \in Seq(SoUnits) /\ d \in Seq(SoUnits)
        /\ k \in Seq(SoUnits) /\ <<>> \in Seq(SoUnits)
    BY SoTyped, EndsAre
  <2>2. /\ y \in SoSet /\ SameCtl(x, y) /\ y.recv = x.recv /\ y.tmp = x.tmp /\ y.got = x.got
        /\ Only(y.send, x.send, "q", q \o a)
    <3>1. "q" \in Ends /\ x.recv["p"] \in Seq(SoUnits)
      BY <2>1, EndsAre
    <3> QED
      BY <3>1, SendIs
  <2>3. t = [y EXCEPT !.recv = f]
    <3>1. t = [y EXCEPT !.recv["p"] = <<>>]
      BY <1>1 DEF RelayData
    <3> HIDE DEF y, t
    <3> QED
      BY <2>2, <3>1 DEF SoSet
  <2> HIDE DEF a, g, q, d, k, y, t
  <2>4. f \in [Ends -> Seq(SoUnits)] /\ Only(f, x.recv, "p", <<>>)
    <3>1. y.recv \in [Ends -> Seq(SoUnits)]
      BY <2>2, SoTyped
    <3> QED
      BY <2>1, <2>2, <3>1 DEF Only
  <2> HIDE DEF f
  <2>5. /\ t \in SoSet /\ SameCtl(y, t) /\ t.recv = f /\ t.got = y.got /\ t.send = y.send /\ t.tmp = y.tmp
    BY <2>2, <2>3, <2>4 DEF SoSet, SameCtl, SameSteps, SameEnds
  <2>6. /\ t.auth = x.auth /\ t.command = x.command /\ t.done = x.done /\ t.state = x.state /\ t.mark = x.mark
        /\ t.linked = x.linked /\ t.relay = x.relay /\ t.out = x.out /\ t.back = x.back /\ t.over = x.over
        /\ t.tmp = k /\ t.got = g /\ t.hello = x.hello
    BY <2>2, <2>5 DEF SameCtl, SameSteps, SameEnds, k, g
  <2>7. /\ t.recv["s"] = x.recv["s"] /\ t.recv["p"] = <<>> /\ t.recv["q"] = x.recv["q"] /\ t.recv["c"] = x.recv["c"]
    BY <2>4, <2>5, EndsAre DEF Only
  <2>8. t.send["p"] = x.send["p"] /\ t.send["s"] = d /\ t.send["q"] = q \o a
    BY <2>2, <2>5, EndsAre DEF Only, d
  <2>9. Back(t) = Back(x) /\ Heard(t) = Heard(x)
    BY <2>7, <2>8 DEF Back, Heard
  <2>10. Onto(t) = Onto(x)
    <3> DEFINE gq == g \o q
    <3>1. gq \in Seq(SoUnits) /\ gq \o a \in Seq(SoUnits)
      BY <2>1, Lens
    <3>2. g \o (q \o a) = gq \o a
      BY <2>1, Assoc, SMTT(30)
    <3>3. Out(t) = d
      BY <2>1, <2>7, <2>8, Cat DEF Out
    <3>4. Onto(t) = ((gq \o a) \o d) \o k
      BY <2>6, <2>8, <3>2, <3>3 DEF Onto
    <3>5. Onto(x) = (gq \o (a \o d)) \o k
      BY DEF Onto, Out, g, q, a, d, k
    <3> HIDE DEF gq
    <3>6. (gq \o a) \o d = gq \o (a \o d)
      <4>1. gq \in Seq(SoUnits) /\ a \in Seq(SoUnits) /\ d \in Seq(SoUnits)
        BY <2>1, <3>1
      <4> QED
        BY <4>1, Assoc
    <3> QED
      BY <3>4, <3>5, <3>6
  <2>11. SoInTurn(t)
    BY <2>6 DEF SoInTurn
  <2>12. Shaking(t)
    BY <1>h, <2>0, <2>6 DEF Shaking
  <2>13. Answering(t)
    BY <1>h, <2>6 DEF Answering, SoInTurn
  <2>14. Noticed(t)
    BY <2>6 DEF Noticed
  <2>15. SoJoined(t)
    <3>1. x.linked
      BY <1>1, <2>0 DEF SoJoined, Up
    <3> QED
      BY <2>0, <2>6, <2>7, <3>1 DEF SoJoined, Up, Unmarked
  <2>16. PassedOn(t)
    BY <2>0, <2>6, <2>7 DEF PassedOn
  <2>17. \E n \in 0..t.out : Run(t.got \o t.send["q"], n)
    <3> DEFINE u == g \o (q \o a)
    <3>1. u \in Seq(SoUnits) /\ Out(t) \in Seq(SoUnits) /\ Out(t) = d
      <4>1. q \o a \in Seq(SoUnits)
        BY <2>1, Lens
      <4>2. Out(t) = d
        BY <2>1, <2>7, <2>8, Cat DEF Out
      <4> QED
        BY <2>1, <4>1, <4>2, Lens
    <3>2. Onto(t) = (u \o d) \o k
      BY <2>6, <2>8, <3>1 DEF Onto
    <3> HIDE DEF u
    <3>3. u \o (d \o k) = (u \o d) \o k /\ d \o k \in Seq(SoUnits)
      <4>1. u \in Seq(SoUnits) /\ d \in Seq(SoUnits) /\ k \in Seq(SoUnits)
        BY <2>1, <3>1
      <4>2. (u \o d) \o k = u \o (d \o k)
        BY <4>1, Assoc
      <4> QED
        BY <4>1, <4>2, Lens
    <3>4. x.out \in Nat /\ Run(Onto(x), x.out)
      BY <1>1, <2>0, SoTyped DEF Carried
    <3>5. Run(u \o (d \o k), x.out)
      BY <2>10, <3>2, <3>3, <3>4
    <3>6. Len(u) \in 0..x.out /\ Run(u, Len(u))
      BY <3>1, <3>3, <3>4, <3>5, RunBegins
    <3>7. t.got \o t.send["q"] = u
      BY <2>6, <2>8 DEF u
    <3> QED
      BY <2>6, <3>6, <3>7
  <2>18. Carried(t)
    BY <2>0, <2>6, <2>7, <2>9, <2>10, <2>17 DEF Carried
  <2> QED
    BY <2>0, <2>5, <2>6, <2>11, <2>12, <2>13, <2>14, <2>15, <2>16, <2>18 DEF SoOk, t
<1>2. CASE ~x.relay
  <2> DEFINE t == Mark(x, {"p"}, "sent")
  <2>1. /\ t \in SoSet /\ SameData(x, t) /\ SameSteps(x, t) /\ SameEnds(x, t)
        /\ \A e \in Ends : t.mark[e] = IF e \in {"p"} /\ x.mark[e] # "now" THEN "sent" ELSE x.mark[e]
    BY EndsAre, MarkIs
  <2>2. RelayData(x, "p", "q") = t
    BY <1>2 DEF RelayData
  <2> HIDE DEF t
  <2>3. /\ t.auth = x.auth /\ t.command = x.command /\ t.done = x.done /\ t.state = x.state
        /\ t.linked = x.linked /\ t.relay = x.relay /\ t.out = x.out /\ t.back = x.back /\ t.over = x.over
        /\ t.tmp = x.tmp /\ t.got = x.got /\ t.hello = x.hello /\ t.send = x.send /\ t.recv = x.recv
    BY <2>1 DEF SameData, SameSteps, SameEnds
  <2>4. t.mark["c"] = x.mark["c"] /\ t.mark["s"] = x.mark["s"] /\ t.mark["p"] = "sent"
    BY <2>1, EndsAre DEF Noticed
  <2>5. Out(t) = Out(x) /\ Back(t) = Back(x) /\ Onto(t) = Onto(x) /\ Heard(t) = Heard(x)
    BY <2>3 DEF Out, Back, Onto, Heard
  <2>6. SoInTurn(t) /\ Shaking(t)
    BY <2>3, <2>5 DEF SoInTurn, Shaking
  <2>7. Answering(t)
    BY <1>h, <2>3 DEF Answering, SoInTurn
  <2>8. Noticed(t)
    BY <2>3, <2>4 DEF Noticed
  <2>9. ~t.command => Quiet(t)
    BY <2>3 DEF Quiet
  <2>10. t.command => SoJoined(t) /\ PassedOn(t) /\ Carried(t)
    <3>1. SUFFICES ASSUME t.command PROVE SoJoined(t) /\ PassedOn(t) /\ Carried(t)
      OBVIOUS
    <3>2. SoJoined(x) /\ Carried(x)
      BY <2>3, <3>1
    <3>3. SoJoined(t)
      BY <1>2, <2>3, <2>4, <3>2 DEF SoJoined
    <3>4. PassedOn(t)
      BY <1>2, <2>3, <3>1 DEF PassedOn
    <3>5. Carried(t)
      BY <2>3, <2>5, <3>2 DEF Carried
    <3> QED
      BY <3>3, <3>4, <3>5
  <2> QED
    BY <2>1, <2>2, <2>3, <2>6, <2>7, <2>8, <2>9, <2>10 DEF SoOk
<1> QED
  BY <1>1, <1>2

LEMMA RequestDone ==
    ASSUME NEW x \in SoSet, x.hello["p"], ~x.done["p"], Len(x.recv["p"]) = 2
    PROVE  HandleRequest(x).done["p"]
<1> DEFINE y == [x EXCEPT !.recv["p"] = SubSeq(@, 3, Len(@)), !.done["p"] = TRUE]
           z == IF x.command THEN [y EXCEPT !.state["q"] = "connecting", !.relay = TRUE] ELSE y
<1>1. HandleRequest(x) = Send(z, "p", Result(x.command))
  BY DEF HandleRequest
<1>2. y.done["p"]
  BY EndsAre DEF SoSet
<1>3. z.done = y.done
  BY DEF SoSet
<1> HIDE DEF z, y
<1>4. Send(z, "p", Result(x.command)).done = z.done
  BY DEF Send
<1> QED
  BY <1>1, <1>2, <1>3, <1>4


\* The request is answered: with success, the connection to the target is begun.
LEMMA Requested ==
    ASSUME NEW x \in SoSet, SoInTurn(x), Shaking(x), Answering(x), Noticed(x), Quiet(x), Up(x),
           x.hello["p"], x.hello["s"], ~x.done["p"], Len(x.recv["p"]) = 2, Len(x.send["s"]) = 0
    PROVE  SoOk(RelayData(HandleRequest(x), "p", "q"))
<1> DEFINE v == SubSeq(x.recv["p"], 3, Len(x.recv["p"]))
           m == Result(x.command)
           r == [x.recv EXCEPT !["p"] = v]
           h == [x.done EXCEPT !["p"] = TRUE]
           y == [x EXCEPT !.recv["p"] = SubSeq(@, 3, Len(@)), !.done["p"] = TRUE]
           f == [y.state EXCEPT !["q"] = "connecting"]
           z == IF x.command THEN [y EXCEPT !.state["q"] = "connecting", !.relay = TRUE] ELSE y
           t == Send(z, "p", m)
<1>0. HandleRequest(x) = t
  BY DEF HandleRequest
<1>1. y = [[x EXCEPT !.recv = r] EXCEPT !.done = h]
  BY DEF SoSet
<1>2. v \in Seq(SoUnits) /\ v = <<>>
  <2>1. x.recv["p"] \in Seq(SoUnits) /\ Len(x.recv["p"]) >= 2
    BY SoTyped, EndsAre
  <2>2. Drop2(x.recv["p"]) \in Seq(SoUnits) /\ Len(Drop2(x.recv["p"])) = Len(x.recv["p"]) - 2
    BY <2>1, DropFront
  <2>3. v \in Seq(SoUnits) /\ Len(v) = 0
    BY <2>2 DEF Drop2
  <2> HIDE DEF v
  <2> QED
    BY <2>3, Lens
<1> HIDE DEF v
<1>3. /\ r \in [Ends -> Seq(SoUnits)] /\ Only(r, x.recv, "p", v)
      /\ h \in [Ends -> BOOLEAN] /\ Only(h, x.done, "p", TRUE)
  BY <1>2, SoTyped DEF Only
<1> HIDE DEF r, h, y
<1>4. /\ y \in SoSet /\ y.auth = x.auth /\ y.command = x.command /\ y.hello = x.hello /\ y.done = h
      /\ SameEnds(x, y) /\ y.mark = x.mark /\ y.recv = r /\ y.send = x.send /\ y.tmp = x.tmp /\ y.got = x.got
  BY <1>1, <1>3 DEF SoSet, SameEnds
<1>f. f \in [Ends -> SoStates] /\ Only(f, x.state, "q", "connecting")
  <2>1. y.state = x.state /\ x.state \in [Ends -> SoStates] /\ "connecting" \in SoStates
    BY <1>4, SoTyped DEF SameEnds, SoStates
  <2> QED
    BY <2>1, EndsAre DEF Only
<1>5. /\ z \in SoSet /\ z.auth = x.auth /\ z.command = x.command /\ z.hello = x.hello /\ z.done = h
      /\ z.linked = x.linked /\ z.out = x.out /\ z.back = x.back /\ z.over = x.over
      /\ z.mark = x.mark /\ z.recv = r /\ z.send = x.send /\ z.tmp = x.tmp /\ z.got = x.got
      /\ x.command => z.state = f /\ z.relay = TRUE
      /\ ~x.command => z.state = x.state /\ z.relay = x.relay
  <2>1. CASE x.command
    <3>1. z = [[y EXCEPT !.state = f] EXCEPT !.relay = TRUE]
      BY <1>4, <2>1 DEF SoSet
    <3> HIDE DEF z, f
    <3> QED
      BY <1>4, <1>f, <2>1, <3>1 DEF SoSet, SameEnds
  <2>2. CASE ~x.command
    BY <1>4, <2>2 DEF SameEnds
  <2> QED
    BY <2>1, <2>2
<1> HIDE DEF z, f
<1>m. /\ m \in Seq(SoUnits) /\ Len(m) = 2
      /\ m[1] = IF x.command THEN "success" ELSE "not supported"
  BY DEF Result, SoUnits
<1> HIDE DEF m
<1>6. /\ t \in SoSet /\ SameCtl(z, t) /\ t.recv = z.recv /\ t.tmp = z.tmp /\ t.got = z.got
      /\ Only(t.send, z.send, "p", z.send["p"] \o m)
  <2>1. z \in SoSet /\ "p" \in Ends /\ m \in Seq(SoUnits)
    BY <1>5, <1>m, EndsAre
  <2> QED
    BY <2>1, SendIs
<1> HIDE DEF t
<1>7. /\ t.auth = x.auth /\ t.command = x.command /\ t.done = h /\ t.mark = x.mark
      /\ t.linked = x.linked /\ t.out = x.out /\ t.back = x.back /\ t.over = x.over
      /\ t.tmp = x.tmp /\ t.got = x.got /\ t.hello = x.hello /\ t.recv = r
      /\ t.state = z.state /\ t.relay = z.relay
  BY <1>5, <1>6 DEF SameCtl, SameSteps, SameEnds
<1>8. /\ t.recv["s"] = x.recv["s"] /\ t.recv["p"] = <<>> /\ t.recv["q"] = x.recv["q"] /\ t.recv["c"] = x.recv["c"]
      /\ t.send["p"] = x.send["p"] \o m /\ t.send["s"] = x.send["s"] /\ t.send["q"] = x.send["q"]
  <2>1. /\ t.recv["s"] = x.recv["s"] /\ t.recv["p"] = v /\ t.recv["q"] = x.recv["q"] /\ t.recv["c"] = x.recv["c"]
    BY <1>3, <1>7, EndsAre DEF Only
  <2>2. /\ t.send["p"] = z.send["p"] \o m /\ t.send["s"] = z.send["s"] /\ t.send["q"] = z.send["q"]
    BY <1>6, EndsAre DEF Only
  <2> QED
    BY <1>2, <1>5, <2>1, <2>2
<1>9. t.done["p"] /\ t.done["s"] = x.done["s"] /\ ~x.done["s"]
  <2>1. h["p"] /\ h["s"] = x.done["s"]
    BY <1>3, EndsAre DEF Only
  <2> QED
    BY <1>7, <2>1 DEF SoInTurn
<1>10. /\ t.state["c"] = x.state["c"] /\ t.state["s"] = x.state["s"] /\ t.state["p"] = x.state["p"]
       /\ t.state["q"] = IF x.command THEN "connecting" ELSE x.state["q"]
  BY <1>5, <1>7, <1>f, EndsAre DEF Only
<1>e. x.send["s"] = <<>> /\ x.recv["s"] = <<>> /\ x.send["p"] = <<>> /\ x.tmp \in Seq(SoUnits)
  <2>1. /\ x.recv["s"] \in Seq(SoUnits) /\ x.send["s"] \in Seq(SoUnits) /\ x.send["p"] \in Seq(SoUnits)
        /\ x.tmp \in Seq(SoUnits)
    BY SoTyped, EndsAre
  <2>2. Len(x.recv["s"] \o x.send["p"]) = 0
    BY DEF Shaking, Back
  <2> QED
    BY <2>1, <2>2, Lens
<1>11. Out(t) = <<>> /\ Back(t) = m
  <2>a. <<>> \o m = m
    BY <1>m, Cat
  <2>b. <<>> \o <<>> = <<>>
    BY ConcatEmptySeq, EmptySeq
  <2>1. <<>> \o m = m /\ <<>> \o (<<>> \o m) = m /\ <<>> \o <<>> = <<>>
    BY <2>a, <2>b
  <2> QED
    BY <1>8, <1>e, <2>1 DEF Out, Back
<1>12. SoInTurn(t)
  BY <1>7, <1>9, <1>10 DEF SoInTurn
<1>13. Shaking(t)
  <2>1. t.done["p"] /\ ~t.command => Back(t)[1] = "not supported"
    BY <1>7, <1>11, <1>m
  <2> QED
    BY <1>7, <1>9, <2>1 DEF Shaking
<1>14. Answering(t)
  BY <1>7, <1>9, <1>10 DEF Answering, Up
<1>15. Noticed(t)
  BY <1>7, <1>9, <1>10 DEF Noticed, Up, Quiet
<1>16. ~t.command => Quiet(t)
  BY <1>5, <1>7, <1>8, <1>10 DEF Quiet
<1>17. t.command => SoJoined(t) /\ Carried(t)
  <2>1. SUFFICES ASSUME t.command PROVE SoJoined(t) /\ Carried(t)
    OBVIOUS
  <2>2. SoJoined(t)
    BY <1>5, <1>7, <1>8, <1>9, <1>10, <2>1 DEF SoJoined, Up, Unmarked, Quiet
  <2>3. Onto(t) = x.tmp
    <3>1. <<>> \o <<>> = <<>> /\ <<>> \o x.tmp = x.tmp
      BY <1>e, Cat
    <3> QED
      BY <1>7, <1>8, <1>11, <3>1 DEF Onto, Quiet
  <2>4. Run(x.tmp, x.out)
    BY DEF Noticed, Up
  <2>5. Run(Drop2(m), 0)
    <3>1. Drop2(m) \in Seq(SoUnits) /\ Len(Drop2(m)) = 0
      <4>1. m \in Seq(SoUnits) /\ Len(m) >= 2 /\ Len(m) - 2 = 0
        <5> DEFINE l == Len(m)
        <5>1. l = 2
          BY <1>m
        <5> HIDE DEF l
        <5>2. l >= 2 /\ l - 2 = 0
          BY <5>1
        <5> QED
          BY <1>m, <5>2 DEF l
      <4> QED
        BY <4>1, DropFront
    <3> QED
      BY <3>1 DEF Run
  <2>6. \E n \in 0..t.out : Run(t.got \o t.send["q"], n)
    <3>1. t.got \o t.send["q"] = <<>> /\ Run(<<>>, 0)
      BY <1>7, <1>8, Cat DEF Quiet, Run
    <3>2. 0 \in 0..t.out
      BY <1>6, SoTyped
    <3> QED
      BY <3>1, <3>2
  <2>7. Len(m) >= 2 /\ m[1] = "success" /\ x.back = 0
    BY <1>7, <1>m, <2>1 DEF Quiet
  <2>8. t.recv["c"] = <<>> /\ ~t.done["s"]
    BY <1>8, <1>9 DEF Quiet
  <2>9. Carried(t)
    BY <1>7, <1>11, <2>3, <2>4, <2>5, <2>6, <2>7, <2>8 DEF Carried
  <2> QED
    BY <2>2, <2>9
<1>18. Len(t.recv["s"]) < 2
  BY <1>8, <1>e
<1> QED
  BY <1>0, <1>6, <1>9, <1>12, <1>13, <1>14, <1>15, <1>16, <1>17, <1>18, PassesOn

\* socks_handler, MG_EV_RECV
LEMMA StepP ==
    ASSUME NEW s, SoOk(s), s.state["p"] = "open", NEW n \in 1..Len(s.send["s"])
    PROVE  SoOk(SocksRecv(Taken(s, "p", n)))
<1> DEFINE x == Taken(s, "p", n)
           a == x.recv["p"]
           b == x.send["s"]
<1> SUFFICES SoOk(SocksRecv(x))
  OBVIOUS
<1>1. s \in SoSet /\ SoInTurn(s) /\ Shaking(s) /\ Answering(s) /\ Noticed(s)
  BY DEF SoOk
<1>2. Peer("p") = "s" /\ "p" \in {"s", "p"}
  BY DEF Peer
<1>3. /\ x \in SoSet /\ SameCtl(s, x) /\ x.tmp = s.tmp /\ x.got = s.got /\ Out(x) = Out(s) /\ Back(x) = Back(s)
      /\ a = s.recv["p"] \o SubSeq(s.send["s"], 1, n)
      /\ x.recv["s"] = s.recv["s"]
  <2>1. /\ Only(x.recv, s.recv, "p", s.recv["p"] \o SubSeq(s.send[Peer("p")], 1, n))
        /\ x \in SoSet /\ SameCtl(s, x) /\ x.tmp = s.tmp /\ x.got = s.got /\ Out(x) = Out(s) /\ Back(x) = Back(s)
    BY <1>1, <1>2, TakenIs
  <2> HIDE DEF x
  <2> QED
    BY <1>2, <2>1, EndsAre DEF Only
<1> HIDE DEF x
<1>4. a \in Seq(SoUnits) /\ b \in Seq(SoUnits) /\ Out(x) = a \o b /\ Len(a) \in Nat
  <2>1. a \in Seq(SoUnits) /\ b \in Seq(SoUnits)
    BY <1>3, SoTyped, EndsAre
  <2> QED
    BY <2>1 DEF Out
<1>5. Len(a) >= 1
  <2> DEFINE c == s.recv["p"]
             d == s.send["s"]
  <2>1. c \in Seq(SoUnits) /\ d \in Seq(SoUnits) /\ n \in 1..Len(d)
    BY <1>1, SoTyped, EndsAre
  <2> HIDE DEF c, d
  <2>2. Len(c \o SubSeq(d, 1, n)) = Len(c) + n /\ Len(c) \in Nat
    BY <2>1, Moved
  <2> QED
    BY <1>3, <2>1, <2>2 DEF c, d
<1>6. x.state = s.state /\ x.done = s.done /\ x.hello = s.hello /\ x.command = s.command /\ x.auth = s.auth
      /\ x.linked = s.linked /\ x.relay = s.relay
  BY <1>3 DEF SameCtl, SameSteps, SameEnds
<1>7. SoInTurn(x) /\ Shaking(x) /\ Answering(x) /\ Noticed(x)
  BY <1>1, <1>3, HeadKept
<1> DEFINE la == Len(a)
           lb == Len(b)
           lx == Len(Out(x))
<1>8. lx = la + lb /\ la \in Nat /\ lb \in Nat /\ la >= 1 /\ ~(lx = 0)
  <2>1. Len(Out(x)) = Len(a) + Len(b) /\ Len(b) \in Nat
    BY <1>4, Lens
  <2>2. lx = la + lb /\ la \in Nat /\ lb \in Nat /\ la >= 1
    BY <1>4, <1>5, <2>1
  <2> HIDE DEF la, lb, lx
  <2> QED
    BY <2>2
<1> HIDE DEF la, lb, lx
<1>h. /\ ~x.hello["p"] => lx <= 2 /\ x.state["s"] = "open"
      /\ x.hello["p"] /\ ~x.done["p"] => x.hello["s"] /\ lx <= 2
  <2>1. /\ ~x.hello["p"] => lx <= 2
        /\ ~x.hello["p"] /\ x.state["s"] # "open" => lx = 0
        /\ x.hello["p"] /\ ~x.hello["s"] => lx = 0
        /\ x.hello["s"] /\ ~x.done["p"] => lx <= 2
    BY <1>7 DEF Shaking, lx
  <2>2. x.hello["s"] \in BOOLEAN
    BY <1>3, SoTyped, EndsAre
  <2> QED
    BY <1>8, <2>1, <2>2
<1>9. ~(s.done["p"] /\ s.command) => Quiet(x)
  <2>1. SUFFICES ASSUME ~(s.done["p"] /\ s.command) PROVE Quiet(x)
    OBVIOUS
  <2>2. Quiet(s)
    BY <2>1 DEF SoOk
  <2> QED
    BY <1>1, <1>2, <2>2, TakenQuiet DEF x
<1>10. s.done["p"] /\ s.command =>
           /\ SoJoined(x) /\ Carried(x)
           /\ x.linked => IF x.done["s"] THEN x.recv["s"] = <<>> ELSE Len(x.recv["s"]) < 2
  <2>1. SUFFICES ASSUME s.done["p"] /\ s.command
                 PROVE  /\ SoJoined(x) /\ Carried(x)
                        /\ x.linked => IF x.done["s"] THEN x.recv["s"] = <<>> ELSE Len(x.recv["s"]) < 2
    OBVIOUS
  <2>2. SoJoined(s) /\ Carried(s) /\ PassedOn(s)
    BY <2>1 DEF SoOk
  <2>3. SoJoined(x) /\ Carried(x)
    BY <1>1, <1>2, <2>2, TakenJoined DEF x
  <2> QED
    BY <1>3, <1>6, <2>2, <2>3 DEF PassedOn
<1> HIDE DEF a, b
<1>11. CASE ~s.done["p"]
  <2>1. ~x.done["p"] /\ Quiet(x)
    BY <1>6, <1>9, <1>11
  <2>2. CASE la < 2
    <3>1. SocksRecv(x) = x
      BY <1>3, <2>1, <2>2 DEF SocksRecv, HandleRequest, Handshake, SoSet, a, la
    <3> QED
      BY <1>3, <1>7, <2>1, <3>1 DEF SoOk
  <2>3. CASE la >= 2 /\ ~x.hello["p"]
    <3>1. la = 2 /\ lb = 0 /\ x.state["s"] = "open"
      BY <1>8, <1>h, <2>3
    <3>2. Len(x.recv["p"]) = 2 /\ Len(x.send["s"]) = 0
      BY <3>1 DEF a, b, la, lb
    <3>3. SoOk(Handshake(x)) /\ ~Handshake(x).done["p"] /\ Len(Handshake(x).recv["p"]) = 0
      BY <1>3, <1>7, <2>1, <2>3, <3>1, <3>2, Greets
    <3>4. SocksRecv(x) = Handshake(x)
      BY <3>3 DEF SocksRecv, HandleRequest
    <3> QED
      BY <3>3, <3>4
  <2>4. CASE la >= 2 /\ x.hello["p"]
    <3>1. la = 2 /\ lb = 0 /\ x.hello["s"]
      BY <1>8, <1>h, <2>1, <2>4
    <3>2. Len(x.recv["p"]) = 2 /\ Len(x.send["s"]) = 0
      BY <3>1 DEF a, b, la, lb
    <3>3. Up(x)
      BY <1>7, <2>1, <2>4, <3>1 DEF Answering, SoInTurn
    <3>4. SoOk(RelayData(HandleRequest(x), "p", "q"))
      BY <1>3, <1>7, <2>1, <2>4, <3>1, <3>2, <3>3, Requested
    <3>5. Handshake(x) = x /\ HandleRequest(x).done["p"]
      <4>1. Handshake(x) = x
        BY <2>4 DEF Handshake
      <4> QED
        BY <1>3, <2>1, <2>4, <3>2, <4>1, RequestDone
    <3>6. SocksRecv(x) = RelayData(HandleRequest(x), "p", "q")
      BY <3>5 DEF SocksRecv
    <3> QED
      BY <3>4, <3>6
  <2> QED
    BY <1>8, <2>2, <2>3, <2>4
<1>12. CASE s.done["p"]
  <2>1. x.done["p"] /\ x.hello["p"]
    BY <1>6, <1>7, <1>12 DEF SoInTurn
  <2>2. SocksRecv(x) = RelayData(x, "p", "q")
    BY <2>1 DEF SocksRecv, HandleRequest, Handshake
  <2>3. ~x.command => Quiet(x)
    BY <1>6, <1>9
  <2>4. x.command => /\ SoJoined(x) /\ Carried(x)
                     /\ x.linked => IF x.done["s"] THEN x.recv["s"] = <<>> ELSE Len(x.recv["s"]) < 2
    BY <1>6, <1>10, <1>12
  <2>5. SoOk(RelayData(x, "p", "q"))
    BY <1>3, <1>7, <2>1, <2>3, <2>4, PassesOn
  <2> QED
    BY <2>2, <2>5
<1> QED
  BY <1>11, <1>12


-----------------------------------------------------------------------------
(* The application sends, and connections are made.                         *)

LEMMA StepAppSends ==
    ASSUME NEW s, SoOk(s), s.linked, s.out < SoOut
    PROVE  SoOk(TcpSend([s EXCEPT !.out = @ + 1], <<s.out + 1>>))
<1> DEFINE d == <<s.out + 1>>
           m == s.out + 1
           x == [s EXCEPT !.out = @ + 1]
           t == TcpSend(x, d)
<1>1. s \in SoSet /\ SoInTurn(s) /\ Shaking(s) /\ Answering(s) /\ Noticed(s)
  BY DEF SoOk
<1>2. m \in Nat /\ m \in 0..SoOut /\ s.out \in Nat /\ SoOut \in Nat
  BY <1>1, SoTyped
<1>3. d \in Seq(SoUnits)
  <2>1. m \in SoUnits
    BY <1>2, Zenon DEF SoUnits
  <2> QED
    BY <2>1
<1>4. x = [s EXCEPT !.out = m]
  BY <1>1 DEF SoSet
<1> HIDE DEF m, d, x
<1>5. /\ x \in SoSet /\ SameSteps(s, x) /\ x.state = s.state /\ x.mark = s.mark /\ x.linked = s.linked
      /\ x.relay = s.relay /\ x.out = m /\ x.back = s.back /\ x.over = s.over /\ SameData(s, x)
  BY <1>1, <1>2, <1>4 DEF SoSet, SameSteps, SameData
<1> DEFINE k == s.tmp
           e == k \o d
           b == s.send["s"]
           g == s.got \o s.send["q"]
           r == s.recv["p"]
           u == r \o b
<1>6. /\ k \in Seq(SoUnits) /\ b \in Seq(SoUnits) /\ g \in Seq(SoUnits) /\ r \in Seq(SoUnits)
  <2>1. /\ s.tmp \in Seq(SoUnits) /\ s.send["s"] \in Seq(SoUnits) /\ s.got \in Seq(SoUnits)
        /\ s.send["q"] \in Seq(SoUnits) /\ s.recv["p"] \in Seq(SoUnits)
    BY <1>1, SoTyped, EndsAre
  <2> QED
    BY <2>1, Lens
<1> HIDE DEF k, b, g, r
<1>7. e \in Seq(SoUnits) /\ u \in Seq(SoUnits) /\ Onto(s) = (g \o u) \o k
  <2>1. e \in Seq(SoUnits) /\ u \in Seq(SoUnits)
    BY <1>3, <1>6, Lens
  <2> QED
    BY <2>1 DEF Onto, Out, g, u, k, r, b
<1> HIDE DEF e, u
\* What is sent, or kept, is one unit longer.
<1>8. /\ t \in SoSet /\ SameSteps(s, t) /\ t.state = s.state /\ t.mark = s.mark /\ t.linked = s.linked
      /\ t.relay = s.relay /\ t.out = m /\ t.back = s.back /\ t.over = s.over
      /\ t.recv = s.recv /\ t.got = s.got /\ t.send["p"] = s.send["p"] /\ t.send["q"] = s.send["q"]
      /\ s.done["s"] => t.send["s"] = b \o e /\ t.tmp = <<>>
      /\ ~s.done["s"] => t.send["s"] = b /\ t.tmp = e
  <2>1. CASE s.done["s"]
    <3> DEFINE y == Send(x, "s", x.tmp \o d)
    <3>1. x.done["s"] /\ x.tmp \o d = e /\ x.send = s.send
      BY <1>5, <2>1 DEF SameSteps, SameData, e, k
    <3>2. t = [y EXCEPT !.tmp = <<>>]
      BY <3>1 DEF TcpSend
    <3>3. /\ y \in SoSet /\ SameCtl(x, y) /\ y.recv = x.recv /\ y.tmp = x.tmp /\ y.got = x.got
          /\ Only(y.send, x.send, "s", x.send["s"] \o (x.tmp \o d))
      <4>1. x.tmp \o d \in Seq(SoUnits) /\ "s" \in Ends
        BY <1>7, <3>1, EndsAre
      <4> QED
        BY <1>5, <4>1, SendIs
    <3> HIDE DEF y, t
    <3>4. /\ t \in SoSet /\ SameCtl(y, t) /\ t.recv = y.recv /\ t.tmp = <<>> /\ t.got = y.got /\ t.send = y.send
      <4>1. <<>> \in Seq(SoUnits)
        OBVIOUS
      <4> QED
        BY <3>2, <3>3, <4>1 DEF SoSet, SameCtl, SameSteps, SameEnds
    <3>5. t.send["s"] = b \o e /\ t.send["p"] = s.send["p"] /\ t.send["q"] = s.send["q"]
      BY <3>1, <3>3, <3>4, EndsAre DEF Only, b
    <3> QED
      BY <1>5, <2>1, <3>3, <3>4, <3>5 DEF SameCtl, SameSteps, SameEnds, SameData
  <2>2. CASE ~s.done["s"]
    <3>1. ~x.done["s"] /\ x.tmp \o d = e
      BY <1>5, <2>2 DEF SameSteps, SameData, e, k
    <3>2. t = [x EXCEPT !.tmp = e]
      BY <3>1 DEF TcpSend
    <3> HIDE DEF t
    <3>3. /\ t \in SoSet /\ SameCtl(x, t) /\ t.recv = x.recv /\ t.tmp = e /\ t.got = x.got /\ t.send = x.send
      BY <1>5, <1>7, <3>2 DEF SoSet, SameCtl, SameSteps, SameEnds
    <3> QED
      BY <1>5, <2>2, <3>3 DEF SameCtl, SameSteps, SameEnds, SameData, b
  <2>3. s.done["s"] \in BOOLEAN
    BY <1>1, SoTyped, EndsAre
  <2> QED
    BY <2>1, <2>2, <2>3
<1> HIDE DEF t
<1>9. t.auth = s.auth /\ t.command = s.command /\ t.hello = s.hello /\ t.done = s.done
  BY <1>8 DEF SameSteps
<1>10. Back(t) = Back(s) /\ Heard(t) = Heard(s)
  BY <1>8 DEF Back, Heard
<1>11. ~s.done["s"] => Out(t) = Out(s)
  BY <1>8 DEF Out, b
<1>12. s.done["s"] => s.done["p"] /\ s.hello["s"] /\ s.hello["p"] /\ s.command
  BY <1>1 DEF SoInTurn
<1>13. SoInTurn(t)
  BY <1>1, <1>8, <1>9 DEF SoInTurn
<1>14. Shaking(t)
  <2>1. CASE s.done["s"]
    BY <1>9, <1>12, <2>1 DEF Shaking
  <2>2. CASE ~s.done["s"]
    BY <1>1, <1>8, <1>9, <1>10, <1>11, <2>2 DEF Shaking
  <2> QED
    BY <2>1, <2>2
<1>15. Answering(t)
  BY <1>1, <1>8, <1>9 DEF Answering, Up, Unmarked
<1>16. Noticed(t)
  <2>1. ~s.done["p"] => Run(t.tmp, t.out)
    <3>1. SUFFICES ASSUME ~s.done["p"] PROVE Run(t.tmp, t.out)
      OBVIOUS
    <3>2. Run(k, s.out)
      BY <1>1, <3>1 DEF Noticed, k
    <3>3. Run(k \o <<s.out + 1>>, s.out + 1)
      BY <1>2, <1>6, <3>2, RunOn
    <3>4. t.tmp = e /\ t.out = m
      BY <1>8, <1>12, <3>1
    <3> QED
      BY <3>3, <3>4 DEF e, d, m
  <2> QED
    BY <1>1, <1>8, <1>9, <2>1 DEF Noticed
<1>17. ~(s.done["p"] /\ s.command) => Quiet(t)
  BY <1>8 DEF Quiet, SoOk
<1>18. s.done["p"] /\ s.command => SoJoined(t) /\ PassedOn(t) /\ Carried(t)
  <2>1. SUFFICES ASSUME s.done["p"] /\ s.command PROVE SoJoined(t) /\ PassedOn(t) /\ Carried(t)
    OBVIOUS
  <2>2. SoJoined(s) /\ PassedOn(s) /\ Carried(s)
    BY <2>1 DEF SoOk
  <2>3. SoJoined(t)
    BY <1>8, <1>9, <2>2 DEF SoJoined, Up, Unmarked
  <2>4. PassedOn(t)
    BY <1>8, <1>9, <2>2 DEF PassedOn
  <2>5. Onto(t) = Onto(s) \o d
    <3>1. CASE s.done["s"]
      <4>1. Out(t) = u \o e
        <5>1. Out(t) = r \o (b \o e)
          BY <1>8, <3>1 DEF Out, r
        <5> QED
          BY <1>6, <1>7, <5>1, Assoc DEF u
      <4>2. Onto(t) = (g \o (u \o e)) \o <<>>
        BY <1>8, <3>1, <4>1 DEF Onto, g
      <4>3. u \o e \in Seq(SoUnits) /\ g \o (u \o e) \in Seq(SoUnits) /\ g \o u \in Seq(SoUnits)
        BY <1>6, <1>7, Lens
      <4>4. Onto(t) = g \o (u \o e)
        BY <4>2, <4>3, Cat
      <4>5. g \o (u \o e) = (g \o u) \o e
        BY <1>6, <1>7, Assoc, ZenonT(30)
      <4> DEFINE w == g \o u
      <4>6. w \in Seq(SoUnits) /\ Onto(t) = w \o e /\ Onto(s) = w \o k
        BY <1>7, <4>3, <4>4, <4>5
      <4> HIDE DEF w
      <4>7. w \o e = (w \o k) \o d
        BY <1>3, <1>6, <4>6, Assoc DEF e
      <4> QED
        BY <4>6, <4>7
    <3>2. CASE ~s.done["s"]
      <4> DEFINE w == g \o u
      <4>1. w \in Seq(SoUnits)
        BY <1>6, <1>7, Lens
      <4>2. Onto(t) = w \o e /\ Onto(s) = w \o k
        BY <1>7, <1>8, <3>2 DEF Onto, Out, g, u, r
      <4> HIDE DEF w
      <4>3. w \o e = (w \o k) \o d
        BY <1>3, <1>6, <4>1, Assoc, ZenonT(30) DEF e
      <4> QED
        BY <4>2, <4>3
    <3> QED
      BY <3>1, <3>2
  <2>6. s.relay => Run(Onto(t), t.out)
    <3>1. SUFFICES ASSUME s.relay PROVE Run(Onto(t), t.out)
      OBVIOUS
    <3>2. Run(Onto(s), s.out) /\ Onto(s) \in Seq(SoUnits)
      <4>1. g \o u \in Seq(SoUnits)
        BY <1>6, <1>7, Lens
      <4>2. (g \o u) \o k \in Seq(SoUnits)
        BY <1>6, <4>1, Lens
      <4> QED
        BY <1>7, <2>2, <3>1, <4>2 DEF Carried
    <3>3. Run(Onto(s) \o <<s.out + 1>>, s.out + 1)
      BY <1>2, <3>2, RunOn
    <3> QED
      BY <1>8, <2>5, <3>3 DEF d, m
  <2>7. \E n \in 0..t.out : Run(t.got \o t.send["q"], n)
    <3>1. PICK n \in 0..s.out : Run(s.got \o s.send["q"], n)
      BY <2>2 DEF Carried
    <3>2. n \in 0..t.out
      BY <1>2, <1>8 DEF m
    <3> QED
      BY <1>8, <3>1, <3>2
  <2>8. Carried(t)
    BY <1>8, <1>9, <1>10, <2>2, <2>6, <2>7 DEF Carried
  <2> QED
    BY <2>3, <2>4, <2>8
<1> QED
  BY <1>8, <1>9, <1>13, <1>14, <1>15, <1>16, <1>17, <1>18 DEF SoOk, t, x, d, m


\* socks_if_handler, MG_EV_CONNECT: the proxy is there, and is greeted.
LEMMA StepConnects ==
    ASSUME NEW s, SoOk(s), s.state["s"] = "connecting"
    PROVE  SoOk(Send([s EXCEPT !.state["s"] = "open"], "s", Hello))
<1> DEFINE f == [s.state EXCEPT !["s"] = "open"]
           x == [s EXCEPT !.state["s"] = "open"]
           t == Send(x, "s", Hello)
<1>1. s \in SoSet /\ SoInTurn(s) /\ Shaking(s) /\ Answering(s) /\ Noticed(s)
  BY DEF SoOk
<1>2. ~s.hello["p"] /\ ~s.hello["s"] /\ ~s.done["p"] /\ ~s.done["s"]
  BY <1>1 DEF SoInTurn
<1>3. x = [s EXCEPT !.state = f]
  BY <1>1 DEF SoSet
<1>4. f \in [Ends -> SoStates] /\ Only(f, s.state, "s", "open")
  BY <1>1, SoTyped, EndsAre DEF Only, SoStates
<1> HIDE DEF f, x
<1>5. /\ x \in SoSet /\ SameSteps(s, x) /\ x.state = f /\ x.mark = s.mark /\ x.linked = s.linked
      /\ x.relay = s.relay /\ x.out = s.out /\ x.back = s.back /\ x.over = s.over /\ SameData(s, x)
  BY <1>1, <1>3, <1>4 DEF SoSet, SameSteps, SameData
<1>h. Hello \in Seq(SoUnits) /\ Len(Hello) = 2
  BY DEF Hello, SoUnits
<1>6. /\ t \in SoSet /\ SameCtl(x, t) /\ t.recv = x.recv /\ t.tmp = x.tmp /\ t.got = x.got
      /\ Only(t.send, x.send, "s", x.send["s"] \o Hello)
  BY <1>5, <1>h, EndsAre, SendIs
<1> HIDE DEF t
<1>7. /\ t.auth = s.auth /\ t.command = s.command /\ t.done = s.done /\ t.hello = s.hello /\ t.mark = s.mark
      /\ t.linked = s.linked /\ t.relay = s.relay /\ t.out = s.out /\ t.back = s.back /\ t.over = s.over
      /\ t.tmp = s.tmp /\ t.got = s.got /\ t.recv = s.recv /\ t.state = f
  BY <1>5, <1>6 DEF SameCtl, SameSteps, SameEnds, SameData
<1>8. f["s"] = "open" /\ f["p"] = s.state["p"] /\ f["q"] = s.state["q"]
  BY <1>4, EndsAre DEF Only
<1>9. t.send["s"] = s.send["s"] \o Hello /\ t.send["p"] = s.send["p"] /\ t.send["q"] = s.send["q"]
  BY <1>5, <1>6, EndsAre DEF Only, SameData
<1>10. Len(Out(t)) <= 2 /\ Back(t) = Back(s)
  <2>1. s.recv["p"] \in Seq(SoUnits) /\ s.send["s"] \in Seq(SoUnits)
    BY <1>1, SoTyped, EndsAre
  <2>2. Len(s.recv["p"] \o s.send["s"]) = 0
    BY <1>1, <1>2 DEF Shaking, Out
  <2>3. s.recv["p"] = <<>> /\ s.send["s"] = <<>>
    BY <2>1, <2>2, Lens
  <2>4. <<>> \o Hello = Hello
    BY <1>h, Cat
  <2>5. Out(t) = Hello
    BY <1>7, <1>9, <2>3, <2>4 DEF Out
  <2> DEFINE l == Len(Hello)
  <2>6. l = 2
    BY <1>h
  <2> HIDE DEF l
  <2>7. l <= 2
    BY <2>6
  <2> QED
    BY <1>7, <1>9, <2>5, <2>7 DEF Back, l
<1>11. SoInTurn(t)
  BY <1>1, <1>7, <1>8 DEF SoInTurn
<1>12. Shaking(t)
  BY <1>1, <1>2, <1>7, <1>8, <1>10 DEF Shaking
<1>13. Answering(t)
  BY <1>1, <1>2, <1>7, <1>8 DEF Answering, Up, Unmarked
<1>14. Noticed(t)
  BY <1>1, <1>7, <1>8 DEF Noticed
<1>15. Quiet(t)
  BY <1>2, <1>7, <1>8, <1>9 DEF Quiet, SoOk
<1> QED
  BY <1>2, <1>6, <1>7, <1>11, <1>12, <1>13, <1>14, <1>15 DEF SoOk, t, x

\* socks_if_handler, MG_EV_ERROR: it is not.
LEMMA StepFails ==
    ASSUME NEW s, SoOk(s), s.state["s"] = "connecting"
    PROVE  SoOk(Mark([s EXCEPT !.state["s"] = "failed"], {"c", "s"}, "now"))
<1> DEFINE f == [s.state EXCEPT !["s"] = "failed"]
           x == [s EXCEPT !.state["s"] = "failed"]
           t == Mark(x, {"c", "s"}, "now")
<1>1. s \in SoSet /\ SoInTurn(s) /\ Shaking(s) /\ Answering(s) /\ Noticed(s)
  BY DEF SoOk
<1>2. ~s.hello["p"] /\ ~s.hello["s"] /\ ~s.done["p"] /\ ~s.done["s"]
  BY <1>1 DEF SoInTurn
<1>3. x = [s EXCEPT !.state = f]
  BY <1>1 DEF SoSet
<1>4. f \in [Ends -> SoStates] /\ Only(f, s.state, "s", "failed")
  BY <1>1, SoTyped, EndsAre DEF Only, SoStates
<1> HIDE DEF f, x
<1>5. /\ x \in SoSet /\ SameSteps(s, x) /\ x.state = f /\ x.mark = s.mark /\ x.linked = s.linked
      /\ x.relay = s.relay /\ x.out = s.out /\ x.back = s.back /\ x.over = s.over /\ SameData(s, x)
  BY <1>1, <1>3, <1>4 DEF SoSet, SameSteps, SameData
<1>6. /\ t \in SoSet /\ SameData(x, t) /\ SameSteps(x, t) /\ SameEnds(x, t)
      /\ \A e \in Ends : t.mark[e] = IF e \in {"c", "s"} /\ x.mark[e] # "now" THEN "now" ELSE x.mark[e]
  BY <1>5, EndsAre, MarkIs
<1> HIDE DEF t
<1>7. /\ t.auth = s.auth /\ t.command = s.command /\ t.done = s.done /\ t.hello = s.hello
      /\ t.linked = s.linked /\ t.relay = s.relay /\ t.out = s.out /\ t.back = s.back /\ t.over = s.over
      /\ t.tmp = s.tmp /\ t.got = s.got /\ t.recv = s.recv /\ t.send = s.send /\ t.state = f
  BY <1>5, <1>6 DEF SameSteps, SameEnds, SameData
<1>8. f["s"] = "failed" /\ f["p"] = s.state["p"] /\ f["q"] = s.state["q"]
  BY <1>4, EndsAre DEF Only
<1>9. t.mark["c"] = "now" /\ t.mark["p"] = s.mark["p"]
  BY <1>5, <1>6, EndsAre
<1>10. Out(t) = Out(s) /\ Back(t) = Back(s)
  BY <1>7 DEF Out, Back
<1>11. SoInTurn(t)
  BY <1>1, <1>2, <1>7, <1>8 DEF SoInTurn
<1>12. Shaking(t)
  BY <1>1, <1>2, <1>7, <1>8, <1>10 DEF Shaking
<1>13. Answering(t)
  BY <1>1, <1>2, <1>7, <1>8 DEF Answering
<1>14. Noticed(t)
  BY <1>1, <1>7, <1>8, <1>9 DEF Noticed
<1>15. Quiet(t)
  BY <1>2, <1>7, <1>8 DEF Quiet, SoOk
<1> QED
  BY <1>2, <1>6, <1>7, <1>11, <1>12, <1>13, <1>14, <1>15 DEF SoOk, t, x

-----------------------------------------------------------------------------
(* The target.                                                              *)

\* Only the state of the connection to the target, and marks of its own, change.
LEMMA TargetKept ==
    ASSUME NEW s, SoOk(s), s.state["q"] \in {"connecting", "open"}, NEW t \in SoSet,
           SameSteps(s, t), SameData(s, t), t.linked = s.linked, t.relay = s.relay, t.out = s.out,
           t.back = s.back, t.over => t.back = SoBack,
           t.mark["c"] = s.mark["c"], t.mark["s"] = s.mark["s"], t.mark["p"] = s.mark["p"],
           t.state["s"] = s.state["s"], t.state["p"] = s.state["p"],
           t.state["q"] \in {"connecting", "open", "failed"}
    PROVE  SoOk(t)
<1>1. s \in SoSet /\ SoInTurn(s) /\ Shaking(s) /\ Answering(s) /\ Noticed(s)
  BY DEF SoOk
<1>2. /\ t.auth = s.auth /\ t.command = s.command /\ t.done = s.done /\ t.hello = s.hello
      /\ t.tmp = s.tmp /\ t.got = s.got /\ t.recv = s.recv /\ t.send = s.send
  BY DEF SameSteps, SameData
<1>3. /\ s.done["p"] /\ s.command /\ SoJoined(s) /\ PassedOn(s) /\ Carried(s)
  BY DEF SoOk, Quiet
<1>4. Out(t) = Out(s) /\ Back(t) = Back(s) /\ Onto(t) = Onto(s) /\ Heard(t) = Heard(s)
  BY <1>2 DEF Out, Back, Onto, Heard
<1>5. SoInTurn(t) /\ Shaking(t)
  BY <1>1, <1>2, <1>4 DEF SoInTurn, Shaking
<1>6. Answering(t)
  BY <1>1, <1>2 DEF Answering, Up, Unmarked
<1>7. Noticed(t)
  BY <1>1, <1>2, <1>3 DEF Noticed
<1>8. SoJoined(t)
  BY <1>2, <1>3 DEF SoJoined, Up, Unmarked
<1>9. PassedOn(t) /\ Carried(t)
  BY <1>2, <1>3, <1>4 DEF PassedOn, Carried
<1> QED
  BY <1>2, <1>3, <1>5, <1>6, <1>7, <1>8, <1>9 DEF SoOk

\* serv_ev_handler
LEMMA StepServes ==
    ASSUME NEW s, SoOk(s), s.state["q"] = "connecting"
    PROVE  /\ SoOk([s EXCEPT !.state["q"] = "open"])
           /\ SoOk(Mark([s EXCEPT !.state["q"] = "failed"], {"q"}, "now"))
<1>1. s \in SoSet /\ (s.over => s.back = SoBack)
  BY DEF SoOk, Quiet, SoJoined
<1>2. ASSUME NEW m \in {"open", "failed"}
      PROVE  LET x == [s EXCEPT !.state["q"] = m]
             IN  /\ x \in SoSet /\ SameSteps(s, x) /\ SameData(s, x) /\ x.linked = s.linked /\ x.relay = s.relay
                 /\ x.out = s.out /\ x.back = s.back /\ x.over = s.over /\ x.mark = s.mark
                 /\ x.state["s"] = s.state["s"] /\ x.state["p"] = s.state["p"] /\ x.state["q"] = m
  <2> DEFINE f == [s.state EXCEPT !["q"] = m]
             x == [s EXCEPT !.state["q"] = m]
  <2>1. x = [s EXCEPT !.state = f]
    BY <1>1 DEF SoSet
  <2>2. f \in [Ends -> SoStates] /\ f["s"] = s.state["s"] /\ f["p"] = s.state["p"] /\ f["q"] = m
    BY <1>1, SoTyped, EndsAre DEF SoStates
  <2> HIDE DEF f, x
  <2>3. /\ x \in SoSet /\ SameSteps(s, x) /\ SameData(s, x) /\ x.linked = s.linked /\ x.relay = s.relay
        /\ x.out = s.out /\ x.back = s.back /\ x.over = s.over /\ x.mark = s.mark /\ x.state = f
    BY <1>1, <2>1, <2>2 DEF SoSet, SameSteps, SameData
  <2> QED
    BY <2>2, <2>3 DEF x
<1>3. SoOk([s EXCEPT !.state["q"] = "open"])
  <2> DEFINE x == [s EXCEPT !.state["q"] = "open"]
  <2>1. /\ x \in SoSet /\ SameSteps(s, x) /\ SameData(s, x) /\ x.linked = s.linked /\ x.relay = s.relay
        /\ x.out = s.out /\ x.back = s.back /\ x.over = s.over /\ x.mark = s.mark
        /\ x.state["s"] = s.state["s"] /\ x.state["p"] = s.state["p"] /\ x.state["q"] = "open"
    BY <1>2
  <2> HIDE DEF x
  <2>2. SoOk(x)
    BY <1>1, <2>1, TargetKept
  <2> QED
    BY <2>2 DEF x
<1>4. SoOk(Mark([s EXCEPT !.state["q"] = "failed"], {"q"}, "now"))
  <2> DEFINE x == [s EXCEPT !.state["q"] = "failed"]
             t == Mark(x, {"q"}, "now")
  <2>1. /\ x \in SoSet /\ SameSteps(s, x) /\ SameData(s, x) /\ x.linked = s.linked /\ x.relay = s.relay
        /\ x.out = s.out /\ x.back = s.back /\ x.over = s.over /\ x.mark = s.mark
        /\ x.state["s"] = s.state["s"] /\ x.state["p"] = s.state["p"] /\ x.state["q"] = "failed"
    BY <1>2
  <2> HIDE DEF x
  <2>2. /\ t \in SoSet /\ SameData(x, t) /\ SameSteps(x, t) /\ SameEnds(x, t)
        /\ \A e \in Ends : t.mark[e] = IF e \in {"q"} /\ x.mark[e] # "now" THEN "now" ELSE x.mark[e]
    BY <2>1, EndsAre, MarkIs
  <2> HIDE DEF t
  <2>3. t.mark["c"] = s.mark["c"] /\ t.mark["s"] = s.mark["s"] /\ t.mark["p"] = s.mark["p"]
    BY <2>1, <2>2, EndsAre
  <2>4. /\ SameSteps(s, t) /\ SameData(s, t) /\ t.linked = s.linked /\ t.relay = s.relay
        /\ t.out = s.out /\ t.back = s.back /\ t.over = s.over
        /\ t.state["s"] = s.state["s"] /\ t.state["p"] = s.state["p"] /\ t.state["q"] = "failed"
    BY <2>1, <2>2 DEF SameSteps, SameData, SameEnds
  <2>5. SoOk(t)
    BY <1>1, <2>2, <2>3, <2>4, TargetKept
  <2> QED
    BY <2>5 DEF t, x
<1> QED
  BY <1>3, <1>4

\* The target says that this was all.
LEMMA StepOver ==
    ASSUME NEW s, SoOk(s), s.state["q"] = "open", s.back = SoBack
    PROVE  SoOk(Mark([s EXCEPT !.over = TRUE], {"q"}, "now"))
<1> DEFINE x == [s EXCEPT !.over = TRUE]
           t == Mark(x, {"q"}, "now")
<1>0. s \in SoSet
  BY DEF SoOk
<1>1. /\ x \in SoSet /\ SameSteps(s, x) /\ SameData(s, x) /\ x.linked = s.linked /\ x.relay = s.relay
      /\ x.out = s.out /\ x.back = s.back /\ x.mark = s.mark /\ x.state = s.state
  BY <1>0 DEF SoSet, SameSteps, SameData
<1> HIDE DEF x
<1>2. /\ t \in SoSet /\ SameData(x, t) /\ SameSteps(x, t) /\ SameEnds(x, t)
      /\ \A e \in Ends : t.mark[e] = IF e \in {"q"} /\ x.mark[e] # "now" THEN "now" ELSE x.mark[e]
  BY <1>1, EndsAre, MarkIs
<1> HIDE DEF t
<1>3. t.mark["c"] = s.mark["c"] /\ t.mark["s"] = s.mark["s"] /\ t.mark["p"] = s.mark["p"]
  BY <1>1, <1>2, EndsAre
<1>4. /\ SameSteps(s, t) /\ SameData(s, t) /\ t.linked = s.linked /\ t.relay = s.relay
      /\ t.out = s.out /\ t.back = s.back /\ t.state = s.state
  BY <1>1, <1>2 DEF SameSteps, SameData, SameEnds
<1>5. SoOk(t)
  BY <1>2, <1>3, <1>4, TargetKept
<1> QED
  BY <1>5 DEF t, x


\* It reads some of what is there.
LEMMA StepReads ==
    ASSUME NEW s, SoOk(s), s.state["q"] = "open", NEW n \in 1..Len(s.send["q"])
    PROVE  SoOk([s EXCEPT !.got = @ \o SubSeq(s.send["q"], 1, n), !.send["q"] = SubSeq(@, n + 1, Len(@))])
<1> DEFINE g == s.got
           b == s.send["q"]
           a == g \o SubSeq(b, 1, n)
           d == SubSeq(b, n + 1, Len(b))
           f == [s.send EXCEPT !["q"] = d]
           t == [s EXCEPT !.got = @ \o SubSeq(s.send["q"], 1, n), !.send["q"] = SubSeq(@, n + 1, Len(@))]
<1>1. s \in SoSet /\ SoInTurn(s) /\ Shaking(s) /\ Answering(s) /\ Noticed(s)
  BY DEF SoOk
<1>2. /\ s.done["p"] /\ s.command /\ SoJoined(s) /\ PassedOn(s) /\ Carried(s)
  BY DEF SoOk, Quiet
<1>3. g \in Seq(SoUnits) /\ b \in Seq(SoUnits) /\ n \in 1..Len(b)
  BY <1>1, SoTyped, EndsAre
<1>4. t = [[s EXCEPT !.got = a] EXCEPT !.send = f]
  BY <1>1 DEF SoSet
<1> HIDE DEF g, b
<1>5. a \in Seq(SoUnits) /\ d \in Seq(SoUnits) /\ a \o d = g \o b
  BY <1>3, Moved
<1> HIDE DEF a, d
<1>6. f \in [Ends -> Seq(SoUnits)] /\ Only(f, s.send, "q", d)
  BY <1>1, <1>5, SoTyped, EndsAre DEF Only
<1> HIDE DEF f, t
<1>7. /\ t \in SoSet /\ t.got = a /\ t.send = f /\ SameCtl(s, t) /\ t.recv = s.recv /\ t.tmp = s.tmp
  BY <1>1, <1>4, <1>5, <1>6 DEF SoSet, SameCtl, SameSteps, SameEnds
<1>8. /\ t.auth = s.auth /\ t.command = s.command /\ t.done = s.done /\ t.hello = s.hello /\ t.mark = s.mark
      /\ t.linked = s.linked /\ t.relay = s.relay /\ t.out = s.out /\ t.back = s.back /\ t.over = s.over
      /\ t.state = s.state
  BY <1>7 DEF SameCtl, SameSteps, SameEnds
<1>9. t.send["s"] = s.send["s"] /\ t.send["p"] = s.send["p"] /\ t.send["q"] = d
  BY <1>6, <1>7, EndsAre DEF Only
<1>10. Out(t) = Out(s) /\ Back(t) = Back(s) /\ Heard(t) = Heard(s)
  BY <1>7, <1>9 DEF Out, Back, Heard
<1>11. t.got \o t.send["q"] = s.got \o s.send["q"]
  BY <1>5, <1>7, <1>9 DEF g, b
<1>12. Onto(t) = Onto(s)
  BY <1>7, <1>10, <1>11 DEF Onto
<1>13. SoInTurn(t) /\ Shaking(t)
  BY <1>1, <1>8, <1>10 DEF SoInTurn, Shaking
<1>14. Answering(t)
  BY <1>1, <1>8 DEF Answering, Up, Unmarked
<1>15. Noticed(t)
  BY <1>1, <1>7, <1>8 DEF Noticed
<1>16. SoJoined(t) /\ PassedOn(t)
  BY <1>2, <1>7, <1>8, <1>9 DEF SoJoined, Up, Unmarked, PassedOn
<1>17. Carried(t)
  BY <1>2, <1>7, <1>8, <1>10, <1>11, <1>12 DEF Carried
<1> QED
  BY <1>2, <1>7, <1>8, <1>13, <1>14, <1>15, <1>16, <1>17 DEF SoOk, t

\* It sends, and the proxy passes it on.
LEMMA StepTargetSends ==
    ASSUME NEW s, SoOk(s), s.state["q"] = "open", s.back < SoBack
    PROVE  SoOk(RelayData([s EXCEPT !.back = @ + 1, !.recv["q"] = @ \o <<s.back + 1>>], "q", "p"))
<1> DEFINE d == <<s.back + 1>>
           m == s.back + 1
           r == [s.recv EXCEPT !["q"] = d]
           x == [s EXCEPT !.back = @ + 1, !.recv["q"] = @ \o <<s.back + 1>>]
           y == Send(x, "p", x.recv["q"])
           f == [y.recv EXCEPT !["q"] = <<>>]
           t == RelayData(x, "q", "p")
           b == s.recv["s"]
           p == s.send["p"]
           k == Back(s)
           c == s.recv["c"]
<1>1. s \in SoSet /\ SoInTurn(s) /\ Shaking(s) /\ Answering(s) /\ Noticed(s)
  BY DEF SoOk
<1>2. /\ s.done["p"] /\ s.command /\ SoJoined(s) /\ PassedOn(s) /\ Carried(s) /\ s.hello["s"] /\ s.hello["p"]
  BY DEF SoOk, Quiet, SoInTurn
<1>3. s.relay /\ Up(s) /\ s.recv["q"] = <<>> /\ s.recv["p"] = <<>> /\ ~s.over /\ s.linked
  <2>1. s.relay /\ Up(s) /\ s.recv["q"] = <<>> /\ s.recv["p"] = <<>>
    BY <1>2 DEF SoJoined, PassedOn
  <2>2. s.back # SoBack
    BY <1>1, SoTyped
  <2> QED
    BY <1>2, <2>1, <2>2 DEF SoJoined, Up
<1>4. m \in Nat /\ m \in 0..SoBack /\ s.back \in Nat
  BY <1>1, SoTyped
<1>5. d \in Seq(SoUnits)
  <2>1. m \in SoUnits
    BY <1>4, Zenon DEF SoUnits
  <2> QED
    BY <2>1
<1>6. b \in Seq(SoUnits) /\ p \in Seq(SoUnits) /\ c \in Seq(SoUnits) /\ k \in Seq(SoUnits) /\ k = b \o p
  <2>1. b \in Seq(SoUnits) /\ p \in Seq(SoUnits) /\ c \in Seq(SoUnits)
    BY <1>1, SoTyped, EndsAre
  <2>2. k = b \o p
    BY DEF Back
  <2> HIDE DEF b, p, c, k
  <2> QED
    BY <2>1, <2>2, Lens
<1>7. x = [[s EXCEPT !.back = m] EXCEPT !.recv = r]
  <2>1. s.recv["q"] \o d = d
    BY <1>3, <1>5, Cat
  <2> QED
    BY <1>1, <2>1 DEF SoSet
<1> HIDE DEF d, m, b, p, c, k
<1>8. r \in [Ends -> Seq(SoUnits)] /\ Only(r, s.recv, "q", d)
  BY <1>1, <1>5, SoTyped, EndsAre DEF Only
<1> HIDE DEF r, x
<1>9. /\ x \in SoSet /\ SameSteps(s, x) /\ x.state = s.state /\ x.mark = s.mark /\ x.linked = s.linked
      /\ x.relay = s.relay /\ x.out = s.out /\ x.back = m /\ x.over = s.over
      /\ x.send = s.send /\ x.recv = r /\ x.tmp = s.tmp /\ x.got = s.got
  BY <1>1, <1>4, <1>7, <1>8 DEF SoSet, SameSteps
<1>10. x.recv["q"] = d
  BY <1>8, <1>9, EndsAre DEF Only
<1>11. /\ y \in SoSet /\ SameCtl(x, y) /\ y.recv = x.recv /\ y.tmp = x.tmp /\ y.got = x.got
       /\ Only(y.send, x.send, "p", x.send["p"] \o d)
  BY <1>5, <1>9, <1>10, EndsAre, SendIs
<1>12. t = [y EXCEPT !.recv = f]
  <2>1. t = [y EXCEPT !.recv["q"] = <<>>]
    BY <1>3, <1>9 DEF RelayData
  <2> HIDE DEF y, t
  <2> QED
    BY <1>11, <2>1 DEF SoSet
<1> HIDE DEF y, t
<1>13. f \in [Ends -> Seq(SoUnits)] /\ f["q"] = <<>> /\ f["s"] = s.recv["s"] /\ f["p"] = s.recv["p"] /\ f["c"] = s.recv["c"]
  <2>1. y.recv = r /\ <<>> \in Seq(SoUnits)
    BY <1>9, <1>11
  <2>2. f["q"] = <<>> /\ f["s"] = r["s"] /\ f["p"] = r["p"] /\ f["c"] = r["c"] /\ f \in [Ends -> Seq(SoUnits)]
    BY <1>8, <2>1, EndsAre
  <2>3. r["s"] = s.recv["s"] /\ r["p"] = s.recv["p"] /\ r["c"] = s.recv["c"]
    BY <1>8, EndsAre DEF Only
  <2> QED
    BY <2>2, <2>3
<1> HIDE DEF f
<1>14. /\ t \in SoSet /\ SameCtl(y, t) /\ t.recv = f /\ t.got = y.got /\ t.send = y.send /\ t.tmp = y.tmp
  BY <1>11, <1>12, <1>13 DEF SoSet, SameCtl, SameSteps, SameEnds
<1>15. /\ t.auth = s.auth /\ t.command = s.command /\ t.done = s.done /\ t.hello = s.hello /\ t.mark = s.mark
       /\ t.linked = s.linked /\ t.relay = s.relay /\ t.out = s.out /\ t.back = m /\ t.over = s.over
       /\ t.tmp = s.tmp /\ t.got = s.got /\ t.state = s.state
  BY <1>9, <1>11, <1>14 DEF SameCtl, SameSteps, SameEnds
<1>16. t.send["s"] = s.send["s"] /\ t.send["p"] = p \o d /\ t.send["q"] = s.send["q"]
  BY <1>9, <1>11, <1>14, EndsAre DEF Only, p
<1>17. t.recv["s"] = b /\ t.recv["p"] = s.recv["p"] /\ t.recv["q"] = <<>> /\ t.recv["c"] = c
  BY <1>13, <1>14 DEF b, c
<1>18. Out(t) = Out(s) /\ Onto(t) = Onto(s)
  BY <1>15, <1>16, <1>17 DEF Out, Onto
<1>19. Back(t) = k \o d
  <2>1. Back(t) = b \o (p \o d)
    BY <1>16, <1>17 DEF Back
  <2>2. (b \o p) \o d = b \o (p \o d)
    BY <1>5, <1>6, Assoc, SMTT(30)
  <2> QED
    BY <1>6, <2>1, <2>2
<1>20. Heard(t) = Heard(s) \o d
  <2>1. Heard(t) = c \o (k \o d) /\ Heard(s) = c \o k
    BY <1>17, <1>19 DEF Heard, k, c
  <2>2. (c \o k) \o d = c \o (k \o d)
    BY <1>5, <1>6, Assoc, ZenonT(30)
  <2> QED
    BY <2>1, <2>2
<1>21. SoInTurn(t)
  BY <1>1, <1>15 DEF SoInTurn
<1>22. Shaking(t)
  BY <1>2, <1>15 DEF Shaking
<1>23. Answering(t)
  BY <1>1, <1>15 DEF Answering, Up, Unmarked
<1>24. Noticed(t)
  BY <1>1, <1>15 DEF Noticed
<1>25. SoJoined(t)
  BY <1>2, <1>3, <1>15, <1>17 DEF SoJoined, Up, Unmarked
<1>26. PassedOn(t)
  BY <1>2, <1>15, <1>17 DEF PassedOn, b
<1>27. s.done["s"] => Run(Heard(t), t.back)
  <2>1. SUFFICES ASSUME s.done["s"] PROVE Run(Heard(t), t.back)
    OBVIOUS
  <2>2. Run(Heard(s), s.back) /\ Heard(s) = c \o k /\ c \o k \in Seq(SoUnits)
    <3>1. c \o k \in Seq(SoUnits)
      BY <1>6, Lens
    <3> QED
      BY <1>2, <2>1, <3>1 DEF Carried, Heard, c, k
  <2>3. Run(Heard(s) \o <<s.back + 1>>, s.back + 1)
    BY <1>4, <2>2, RunOn
  <2> QED
    BY <1>15, <1>20, <2>3 DEF d, m
<1>28. ~s.done["s"] => /\ c = <<>> /\ Len(Back(t)) >= 2 /\ Back(t)[1] = "success"
                       /\ Run(Drop2(Back(t)), t.back)
  <2>1. SUFFICES ASSUME ~s.done["s"]
                 PROVE  /\ c = <<>> /\ Len(Back(t)) >= 2 /\ Back(t)[1] = "success"
                        /\ Run(Drop2(Back(t)), t.back)
    OBVIOUS
  <2>2. c = <<>> /\ Len(k) >= 2 /\ k[1] = "success" /\ Run(Drop2(k), s.back)
    BY <1>2, <2>1 DEF Carried, c, k
  <2>3. Drop2(k) \in Seq(SoUnits) /\ Drop2(k \o d) = Drop2(k) \o d
    BY <1>5, <1>6, <2>2, DropFront
  <2>4. Run(Drop2(k) \o <<s.back + 1>>, s.back + 1)
    BY <1>4, <2>2, <2>3, RunOn
  <2>5. Len(k \o d) >= 2
    <3>1. Len(k \o d) = Len(k) + Len(d) /\ Len(k) \in Nat /\ Len(d) \in Nat
      BY <1>5, <1>6, Lens
    <3> DEFINE lk == Len(k)
               ld == Len(d)
               l == Len(k \o d)
    <3>2. l = lk + ld /\ lk \in Nat /\ ld \in Nat /\ lk >= 2
      BY <2>2, <3>1
    <3> HIDE DEF lk, ld, l
    <3>3. l >= 2
      BY <3>2
    <3> QED
      BY <3>3 DEF l
  <2>6. (k \o d)[1] = k[1]
    <3>1. 1 \in 1..Len(k)
      BY <1>6, <2>2
    <3> QED
      BY <1>5, <1>6, <3>1, Cat
  <2> QED
    BY <1>15, <1>19, <2>2, <2>3, <2>4, <2>5, <2>6 DEF d, m
<1>29. Carried(t)
  BY <1>2, <1>15, <1>16, <1>17, <1>18, <1>27, <1>28 DEF Carried
<1> QED
  BY <1>2, <1>14, <1>15, <1>21, <1>22, <1>23, <1>24, <1>25, <1>26, <1>29 DEF SoOk, t, x, d, m


-----------------------------------------------------------------------------
(* Connections are closed, and with them what they have still to send.      *)

LEMMA Shorter ==
    ASSUME NEW a \in Seq(SoUnits), NEW b \in Seq(SoUnits), NEW n \in 0..Len(b)
    PROVE  LET w == a \o SubSeq(b, 1, n)
           IN  /\ w \in Seq(SoUnits) /\ Len(w) \in Nat /\ Len(a \o b) \in Nat
               /\ Len(w) = Len(a) + n /\ Len(w) <= Len(a \o b)
               /\ \A k \in 1..Len(w) : w[k] = (a \o b)[k]
               /\ n = Len(b) => w = a \o b
               /\ \E d \in Seq(SoUnits) : w \o d = a \o b
<1> DEFINE t == SubSeq(b, 1, n)
           d == SubSeq(b, n + 1, Len(b))
           w == a \o t
           v == a \o b
<1>1. n \in Nat /\ Len(b) \in Nat /\ n <= Len(b)
  OBVIOUS
<1>2. /\ t \in Seq(SoUnits) /\ Len(t) = n /\ d \in Seq(SoUnits)
      /\ \A k \in 1..n : t[k] = b[k]
  BY Cut
<1>3. n >= 1 => w \o d = v
  <2>1. SUFFICES ASSUME n >= 1 PROVE w \o d = v
    OBVIOUS
  <2>2. n \in 1..Len(b)
    BY <1>1, <2>1
  <2>3. (a \o SubSeq(b, 1, n)) \o SubSeq(b, n + 1, Len(b)) = a \o b
    BY <2>2, Moved
  <2> QED
    BY <2>3
<1>4. n = 0 => t = <<>> /\ d = b
  <2>1. SUFFICES ASSUME n = 0 PROVE t = <<>> /\ d = b
    OBVIOUS
  <2>2. t = <<>>
    <3> HIDE DEF t
    <3> QED
      BY <1>2, <2>1, Lens
  <2>3. Len(d) = Len(b) /\ \A k \in 1..Len(b) : d[k] = b[k]
    <3>1. Len(d) = Len(b) - n /\ \A k \in 1..Len(b) - n : d[k] = b[n + k]
      BY Cut
    <3> HIDE DEF d
    <3>2. \A k \in 1..Len(b) : k \in 1..Len(b) - n /\ n + k = k
      BY <1>1, <2>1
    <3>3. Len(d) = Len(b)
      BY <1>1, <2>1, <3>1
    <3> QED
      BY <3>1, <3>2, <3>3
  <2> HIDE DEF d
  <2> QED
    BY <1>2, <2>2, <2>3, SeqEqual
<1> HIDE DEF t, d
<1>5. w \in Seq(SoUnits) /\ v \in Seq(SoUnits) /\ Len(w) = Len(a) + n /\ Len(v) = Len(a) + Len(b) /\ Len(a) \in Nat
  BY <1>2, Cat
<1>6. w \o d = v
  <2>1. CASE n = 0
    <3>1. w = a
      BY <1>4, <2>1, Cat
    <3> HIDE DEF w
    <3> QED
      BY <1>4, <2>1, <3>1
  <2> QED
    BY <1>1, <1>3, <2>1, SMTT(30)
<1> HIDE DEF w, v
<1>7. \A k \in 1..Len(w) : w[k] = v[k]
  BY <1>2, <1>5, <1>6, Cat, ZenonT(30)
<1>8. n = Len(b) => w = v
  <2>1. SUFFICES ASSUME n = Len(b) PROVE w = v
    OBVIOUS
  <2>2. Len(w) = Len(v)
    BY <1>5, <2>1
  <2> QED
    BY <1>5, <1>7, <2>2, SeqEqual
<1>9. Len(w) \in Nat /\ Len(v) \in Nat /\ Len(w) <= Len(v)
  BY <1>1, <1>5
<1> QED
  BY <1>2, <1>5, <1>6, <1>7, <1>8, <1>9 DEF w, v, t

\* The closed connection, before the handler has seen it.
Gone(s, e, n) == [s EXCEPT !.state[e] = "gone", !.send[e] = SubSeq(@, 1, n)]

LEMMA GoneIs ==
    ASSUME NEW s \in SoSet, NEW e \in Ends, NEW n \in 0..Len(s.send[e])
    PROVE  /\ Gone(s, e, n) \in SoSet /\ SameSteps(s, Gone(s, e, n)) /\ Gone(s, e, n).mark = s.mark
           /\ Gone(s, e, n).linked = s.linked /\ Gone(s, e, n).relay = s.relay
           /\ Gone(s, e, n).out = s.out /\ Gone(s, e, n).back = s.back /\ Gone(s, e, n).over = s.over
           /\ Gone(s, e, n).tmp = s.tmp /\ Gone(s, e, n).got = s.got /\ Gone(s, e, n).recv = s.recv
           /\ Only(Gone(s, e, n).state, s.state, e, "gone")
           /\ Only(Gone(s, e, n).send, s.send, e, SubSeq(s.send[e], 1, n))
<1> DEFINE b == s.send[e]
           v == SubSeq(b, 1, n)
           f == [s.state EXCEPT ![e] = "gone"]
           g == [s.send EXCEPT ![e] = v]
           x == Gone(s, e, n)
<1>1. b \in Seq(SoUnits) /\ n \in 0..Len(b)
  BY SoTyped
<1> HIDE DEF b
<1>2. v \in Seq(SoUnits)
  BY <1>1, Cut
<1>3. x = [[s EXCEPT !.state = f] EXCEPT !.send = g]
  BY DEF Gone, SoSet, b
<1> HIDE DEF v
<1>4. /\ f \in [Ends -> SoStates] /\ Only(f, s.state, e, "gone")
      /\ g \in [Ends -> Seq(SoUnits)] /\ Only(g, s.send, e, v)
  BY <1>2, SoTyped DEF Only, SoStates
<1> HIDE DEF f, g, x
<1>5. /\ x \in SoSet /\ x.state = f /\ x.send = g /\ SameSteps(s, x) /\ x.mark = s.mark /\ x.linked = s.linked
      /\ x.relay = s.relay /\ x.out = s.out /\ x.back = s.back /\ x.over = s.over
      /\ x.tmp = s.tmp /\ x.got = s.got /\ x.recv = s.recv
  BY <1>3, <1>4 DEF SoSet, SameSteps
<1> QED
  BY <1>4, <1>5 DEF x, v, b

\* MG_EV_CLOSE of the application's end.
LEMMA CloseS ==
    ASSUME NEW s, SoOk(s), NEW n \in 0..Len(s.send["s"]),
           s.state["s"] \in {"connecting", "open", "failed"},
           s.mark["s"] # "none" \/ (s.state["p"] = "gone" /\ s.send["p"] = <<>>)
    PROVE  SoOk(IfDisband(Gone(s, "s", n)))
<1> DEFINE x == Gone(s, "s", n)
           y == Mark(x, {"c", "s"}, "sent")
           t == IfDisband(x)
           r == s.recv["p"]
           b == s.send["s"]
           o == r \o SubSeq(b, 1, n)
<1>1. s \in SoSet /\ SoInTurn(s) /\ Shaking(s) /\ Answering(s) /\ Noticed(s)
  BY DEF SoOk
<1>2. r \in Seq(SoUnits) /\ b \in Seq(SoUnits) /\ n \in 0..Len(b)
  BY <1>1, SoTyped, EndsAre
<1>3. /\ x \in SoSet /\ SameSteps(s, x) /\ x.mark = s.mark /\ x.linked = s.linked /\ x.relay = s.relay
      /\ x.out = s.out /\ x.back = s.back /\ x.over = s.over
      /\ x.tmp = s.tmp /\ x.got = s.got /\ x.recv = s.recv
      /\ Only(x.state, s.state, "s", "gone")
      /\ Only(x.send, s.send, "s", SubSeq(b, 1, n))
  BY <1>1, EndsAre, GoneIs
<1> HIDE DEF x, r, b
<1>4. /\ o \in Seq(SoUnits) /\ Len(o) \in Nat /\ Len(r \o b) \in Nat /\ Len(o) <= Len(r \o b)
  BY <1>2, Shorter
<1> HIDE DEF o
<1>5. ~Up(s)
  BY DEF Up, Unmarked
\* Only the marks differ, and the link is cut.
<1>6. /\ t \in SoSet /\ SameSteps(x, t) /\ t.state = x.state /\ t.relay = x.relay /\ t.out = x.out
      /\ t.back = x.back /\ t.over = x.over /\ SameData(x, t)
      /\ ~t.linked /\ t.mark["p"] = x.mark["p"] /\ t.mark["c"] # "none"
  <2>1. CASE ~x.linked
    <3>1. t = x
      BY <2>1 DEF IfDisband
    <3>2. x.mark["c"] # "none"
      BY <1>1, <1>3, <2>1 DEF Noticed
    <3> QED
      BY <1>3, <2>1, <3>1, <3>2 DEF SameSteps, SameData
  <2>2. CASE x.linked
    <3>1. /\ y \in SoSet /\ SameData(x, y) /\ SameSteps(x, y) /\ SameEnds(x, y)
          /\ \A e \in Ends : y.mark[e] = IF e \in {"c", "s"} /\ x.mark[e] # "now" THEN "sent" ELSE x.mark[e]
      BY <1>3, EndsAre, MarkIs
    <3>2. t = [y EXCEPT !.linked = FALSE]
      BY <2>2 DEF IfDisband
    <3> HIDE DEF y, t
    <3>3. /\ t \in SoSet /\ SameSteps(x, t) /\ t.state = x.state /\ t.relay = x.relay /\ t.out = x.out
          /\ t.back = x.back /\ t.over = x.over /\ t.linked = FALSE /\ t.mark = y.mark /\ SameData(x, t)
      BY <3>1, <3>2 DEF SoSet, SameSteps, SameEnds, SameData
    <3> QED
      BY <3>1, <3>3, EndsAre
  <2> QED
    BY <2>1, <2>2
<1> HIDE DEF t
<1>7. /\ t.auth = s.auth /\ t.command = s.command /\ t.done = s.done /\ t.hello = s.hello
      /\ t.relay = s.relay /\ t.out = s.out /\ t.back = s.back /\ t.over = s.over
      /\ t.tmp = s.tmp /\ t.got = s.got /\ t.recv = s.recv /\ t.mark["p"] = s.mark["p"]
  BY <1>3, <1>6 DEF SameSteps, SameData
<1>8. /\ t.state["s"] = "gone" /\ t.state["p"] = s.state["p"] /\ t.state["q"] = s.state["q"]
      /\ t.send["p"] = s.send["p"] /\ t.send["q"] = s.send["q"]
  BY <1>3, <1>6, EndsAre DEF Only, SameData
<1>9. Out(t) = o /\ Out(s) = r \o b /\ Back(t) = Back(s) /\ Heard(t) = Heard(s)
  <2>1. t.send["s"] = SubSeq(b, 1, n)
    BY <1>3, <1>6, EndsAre DEF Only, SameData
  <2> QED
    BY <1>7, <1>8, <2>1 DEF Out, Back, Heard, o, r, b
<1>10. SoInTurn(t)
  BY <1>1, <1>7, <1>8 DEF SoInTurn
\* Who is closed before the request is answered has not got that far.
<1>11. ~s.hello["p"] => s.state["s"] # "open"
  BY <1>1, <1>5 DEF Answering
<1>12. ~(s.hello["p"] /\ ~s.done["p"] /\ s.auth)
  BY <1>1, <1>5 DEF Answering
<1>13. Shaking(t)
  <2> DEFINE lo == Len(o)
             ls == Len(r \o b)
             lb == Len(Back(s))
  <2>1. lo \in Nat /\ ls \in Nat /\ lo <= ls
    BY <1>4
  <2>2. /\ ~s.hello["p"] => lb = 0 /\ ls = 0
        /\ s.hello["p"] /\ ~s.hello["s"] =>
              /\ ls = 0 /\ lb <= 2
              /\ lb = 2 => Back(s)[2] = IF s.auth THEN "no auth" ELSE "failure"
        /\ s.done["p"] /\ ~s.command /\ lb > 0 => Back(s)[1] = "not supported"
    BY <1>1, <1>9, <1>11 DEF Shaking
  <2>3. ~(s.hello["s"] /\ ~s.done["p"])
    BY <1>1, <1>12 DEF SoInTurn
  <2> HIDE DEF lo, ls, lb
  <2>4. /\ ~s.hello["p"] => lo <= 2 /\ lo = 0
        /\ s.hello["p"] /\ ~s.hello["s"] => lo = 0
    <3>1. ls = 0 => lo = 0 /\ lo <= 2
      BY <2>1
    <3> QED
      BY <2>2, <3>1
  <2>5. Len(Out(t)) = lo /\ Len(Back(t)) = lb
    BY <1>9 DEF lo, lb
  <2> QED
    BY <1>7, <1>9, <2>2, <2>3, <2>4, <2>5 DEF Shaking
<1>14. Answering(t)
  BY <1>7, <1>8, <1>12 DEF Answering
<1>15. Noticed(t)
  BY <1>1, <1>6, <1>7, <1>8 DEF Noticed
<1>16. ~(s.done["p"] /\ s.command) => Quiet(t)
  BY <1>7, <1>8 DEF Quiet, SoOk
<1>17. s.done["p"] /\ s.command => SoJoined(t) /\ PassedOn(t) /\ Carried(t)
  <2>1. SUFFICES ASSUME s.done["p"] /\ s.command PROVE SoJoined(t) /\ PassedOn(t) /\ Carried(t)
    OBVIOUS
  <2>2. SoJoined(s) /\ PassedOn(s) /\ Carried(s)
    BY <2>1 DEF SoOk
  <2>3. s.linked /\ s.mark["s"] = "none"
    BY <2>2 DEF SoJoined
  <2>4. s.state["p"] = "gone" /\ s.send["p"] = <<>> /\ ~s.relay
    BY <1>5, <2>2, <2>3 DEF SoJoined
  <2>5. s.done["s"]
    <3>1. ASSUME ~s.done["s"] PROVE FALSE
      <4> DEFINE c == s.recv["s"]
      <4>1. c \in Seq(SoUnits) /\ Len(c) \in Nat
        BY <1>1, SoTyped, EndsAre
      <4>2. Len(c) < 2 /\ Len(Back(s)) >= 2
        BY <2>2, <2>3, <3>1 DEF PassedOn, Carried
      <4>3. Back(s) = c
        <5>1. Back(s) = c \o <<>>
          BY <2>4 DEF Back
        <5> HIDE DEF c
        <5> QED
          BY <4>1, <5>1, Cat
      <4> DEFINE l == Len(c)
      <4>4. l \in Nat /\ l < 2 /\ l >= 2
        BY <4>1, <4>2, <4>3
      <4> HIDE DEF l
      <4> QED
        BY <4>4
    <3>2. s.done["s"] \in BOOLEAN
      BY <1>1, SoTyped, EndsAre
    <3> QED
      BY <3>1, <3>2
  <2>6. s.recv["s"] = <<>>
    BY <2>2, <2>3, <2>5 DEF PassedOn
  <2>7. SoJoined(t)
    BY <1>6, <1>7, <1>8, <2>2, <2>4, <2>5, <2>6 DEF SoJoined
  <2>8. PassedOn(t)
    BY <1>6, <1>7, <2>4 DEF PassedOn
  <2>9. Carried(t)
    BY <1>7, <1>8, <1>9, <2>2, <2>4, <2>5 DEF Carried
  <2> QED
    BY <2>7, <2>8, <2>9
<1> QED
  BY <1>6, <1>7, <1>10, <1>13, <1>14, <1>15, <1>16, <1>17 DEF SoOk, t, x


\* disband of the proxy's end of the connection between the programs.
LEMMA CloseP ==
    ASSUME NEW s, SoOk(s), NEW n \in 0..Len(s.send["p"]), s.state["p"] # "gone",
           s.mark["p"] = "now" \/ (s.mark["p"] = "sent" /\ n = Len(s.send["p"]))
               \/ (s.state["s"] = "gone" /\ s.send["s"] = <<>>)
    PROVE  SoOk(Disband(Gone(s, "p", n), "p"))
<1> DEFINE x == Gone(s, "p", n)
           y == Mark(x, {"p"}, "sent")
           t == Disband(x, "p")
           r == s.recv["s"]
           b == s.send["p"]
           o == r \o SubSeq(b, 1, n)
           v == r \o b
<1>1. s \in SoSet /\ SoInTurn(s) /\ Shaking(s) /\ Answering(s) /\ Noticed(s)
  BY DEF SoOk
<1>2. r \in Seq(SoUnits) /\ b \in Seq(SoUnits) /\ n \in 0..Len(b)
  BY <1>1, SoTyped, EndsAre
<1>3. /\ x \in SoSet /\ SameSteps(s, x) /\ x.mark = s.mark /\ x.linked = s.linked /\ x.relay = s.relay
      /\ x.out = s.out /\ x.back = s.back /\ x.over = s.over
      /\ x.tmp = s.tmp /\ x.got = s.got /\ x.recv = s.recv
      /\ Only(x.state, s.state, "p", "gone")
      /\ Only(x.send, s.send, "p", SubSeq(b, 1, n))
  BY <1>1, EndsAre, GoneIs
<1> HIDE DEF x, r, b
<1>4. /\ o \in Seq(SoUnits) /\ Len(o) \in Nat /\ Len(v) \in Nat /\ Len(o) <= Len(v)
      /\ \A k \in 1..Len(o) : o[k] = v[k]
      /\ n = Len(b) => o = v
  BY <1>2, Shorter
<1> HIDE DEF o, v
<1>5. ~Up(s) /\ s.state["s"] # "connecting"
  <2>1. ~Up(s)
    BY DEF Up, Unmarked
  <2>2. s.state["s"] # "connecting"
    BY <1>1 DEF Answering, Unmarked
  <2> QED
    BY <2>1, <2>2
<1>6. ~s.relay
  BY <1>5 DEF SoOk, Quiet, SoJoined
<1>7. /\ t \in SoSet /\ SameSteps(x, t) /\ t.state = x.state /\ t.relay = x.relay /\ t.out = x.out
      /\ t.back = x.back /\ t.over = x.over /\ t.linked = x.linked /\ SameData(x, t)
      /\ t.mark["c"] = x.mark["c"] /\ t.mark["s"] = x.mark["s"] /\ t.mark["p"] = "sent"
  <2>1. /\ y \in SoSet /\ SameData(x, y) /\ SameSteps(x, y) /\ SameEnds(x, y)
        /\ \A e \in Ends : y.mark[e] = IF e \in {"p"} /\ x.mark[e] # "now" THEN "sent" ELSE x.mark[e]
    BY <1>3, EndsAre, MarkIs
  <2>2. t = [y EXCEPT !.relay = FALSE]
    BY <1>3, <1>6 DEF Disband
  <2> HIDE DEF y, t
  <2>3. y.mark["c"] = x.mark["c"] /\ y.mark["s"] = x.mark["s"] /\ y.mark["p"] = "sent"
    <3>1. x.mark["p"] # "now"
      BY <1>1, <1>3 DEF Noticed
    <3> QED
      BY <2>1, <3>1, EndsAre
  <2>4. /\ t \in SoSet /\ SameSteps(x, t) /\ t.state = x.state /\ t.relay = FALSE /\ t.out = x.out
        /\ t.back = x.back /\ t.over = x.over /\ t.linked = x.linked /\ t.mark = y.mark /\ SameData(x, t)
    BY <2>1, <2>2 DEF SoSet, SameSteps, SameEnds, SameData
  <2>5. x.relay = FALSE
    BY <1>3, <1>6, SoTyped
  <2> QED
    BY <2>3, <2>4, <2>5
<1> HIDE DEF t
<1>8. /\ t.auth = s.auth /\ t.command = s.command /\ t.done = s.done /\ t.hello = s.hello /\ t.linked = s.linked
      /\ t.relay = s.relay /\ t.out = s.out /\ t.back = s.back /\ t.over = s.over
      /\ t.tmp = s.tmp /\ t.got = s.got /\ t.recv = s.recv
      /\ t.mark["c"] = s.mark["c"] /\ t.mark["s"] = s.mark["s"]
  BY <1>3, <1>7 DEF SameSteps, SameData
<1>9. /\ t.state["p"] = "gone" /\ t.state["s"] = s.state["s"] /\ t.state["q"] = s.state["q"]
      /\ t.send["s"] = s.send["s"] /\ t.send["q"] = s.send["q"]
  BY <1>3, <1>7, EndsAre DEF Only, SameData
<1>10. Back(t) = o /\ Back(s) = v /\ Out(t) = Out(s)
  <2>1. t.send["p"] = SubSeq(b, 1, n)
    BY <1>3, <1>7, EndsAre DEF Only, SameData
  <2> QED
    BY <1>8, <1>9, <2>1 DEF Out, Back, o, r, b, v
<1>11. SoInTurn(t)
  BY <1>1, <1>8, <1>9 DEF SoInTurn
<1>12. ~s.hello["p"] => s.state["s"] # "open"
  BY <1>1, <1>5 DEF Answering
<1>13. ~(s.hello["p"] /\ ~s.done["p"] /\ s.auth)
  BY <1>1, <1>5 DEF Answering
<1>14. Shaking(t)
  <2> DEFINE lo == Len(o)
             lv == Len(v)
             ls == Len(Out(s))
  <2>1. lo \in Nat /\ lv \in Nat /\ lo <= lv /\ (\A k \in 1..lo : o[k] = v[k])
    BY <1>4
  <2>2. /\ ~s.hello["p"] => ls <= 2 /\ lv = 0
        /\ ~s.hello["p"] /\ s.state["s"] # "open" => ls = 0
        /\ s.hello["p"] /\ ~s.hello["s"] =>
              /\ ls = 0 /\ lv <= 2
              /\ lv = 2 => v[2] = IF s.auth THEN "no auth" ELSE "failure"
        /\ s.done["p"] /\ ~s.command /\ lv > 0 => v[1] = "not supported"
    BY <1>1, <1>10 DEF Shaking
  <2>3. ~(s.hello["s"] /\ ~s.done["p"])
    BY <1>1, <1>13 DEF SoInTurn
  <2> HIDE DEF lo, ls, lv
  <2>4. /\ lv = 0 => lo = 0
        /\ lv <= 2 => lo <= 2
        /\ lv <= 2 /\ lo = 2 => lv = 2 /\ o[2] = v[2]
        /\ lo > 0 => lv > 0 /\ o[1] = v[1]
    BY <2>1
  <2>5. Len(Out(t)) = ls /\ Len(Back(t)) = lo
    BY <1>10 DEF lo, ls
  <2>6. /\ ~s.hello["p"] => ls <= 2 /\ lo = 0
        /\ ~s.hello["p"] /\ s.state["s"] # "open" => ls = 0
        /\ s.hello["p"] /\ ~s.hello["s"] =>
              /\ ls = 0 /\ lo <= 2
              /\ lo = 2 => o[2] = IF s.auth THEN "no auth" ELSE "failure"
        /\ s.done["p"] /\ ~s.command /\ lo > 0 => o[1] = "not supported"
    BY <2>2, <2>4
  <2> QED
    BY <1>8, <1>9, <1>10, <2>3, <2>5, <2>6 DEF Shaking
<1>15. Answering(t)
  BY <1>5, <1>8, <1>9, <1>12, <1>13 DEF Answering
<1>16. Noticed(t)
  BY <1>1, <1>7, <1>8, <1>9 DEF Noticed
<1>17. ~(s.done["p"] /\ s.command) => Quiet(t)
  BY <1>8, <1>9 DEF Quiet, SoOk
<1>18. s.done["p"] /\ s.command => SoJoined(t) /\ PassedOn(t) /\ Carried(t)
  <2>1. SUFFICES ASSUME s.done["p"] /\ s.command PROVE SoJoined(t) /\ PassedOn(t) /\ Carried(t)
    OBVIOUS
  <2>2. SoJoined(s) /\ PassedOn(s) /\ Carried(s)
    BY <2>1 DEF SoOk
  <2>3. s.linked
    BY <2>2 DEF SoJoined
  <2>4. n = Len(b) /\ s.state["q"] = "gone"
    <3>1. s.state["s"] = "open"
      BY <2>2, <2>3 DEF SoJoined
    <3>2. s.mark["p"] # "now"
      BY <1>1 DEF Noticed
    <3>3. s.state["q"] = "gone"
      BY <1>6, <2>2 DEF SoJoined
    <3> QED
      BY <3>1, <3>2, <3>3 DEF b
  <2>5. Back(t) = Back(s) /\ Heard(t) = Heard(s)
    BY <1>4, <1>8, <1>10, <2>4 DEF Heard
  <2>6. SoJoined(t)
    BY <1>6, <1>7, <1>8, <1>9, <2>2, <2>3, <2>4 DEF SoJoined
  <2>7. PassedOn(t)
    BY <1>8, <2>2 DEF PassedOn
  <2>8. Carried(t)
    BY <1>6, <1>8, <1>9, <2>2, <2>5 DEF Carried
  <2> QED
    BY <2>6, <2>7, <2>8
<1> QED
  BY <1>7, <1>8, <1>11, <1>14, <1>15, <1>16, <1>17, <1>18 DEF SoOk, t, x

\* disband of the connection to the target.
LEMMA CloseQ ==
    ASSUME NEW s, SoOk(s), NEW n \in 0..Len(s.send["q"]), s.state["q"] \in {"connecting", "open", "failed"}
    PROVE  SoOk(Disband(Gone(s, "q", n), "q"))
<1> DEFINE x == Gone(s, "q", n)
           y == Mark(x, {"p", "q"}, "sent")
           t == Disband(x, "q")
           r == s.got
           b == s.send["q"]
           o == r \o SubSeq(b, 1, n)
<1>1. s \in SoSet /\ SoInTurn(s) /\ Shaking(s) /\ Answering(s) /\ Noticed(s)
  BY DEF SoOk
<1>2. r \in Seq(SoUnits) /\ b \in Seq(SoUnits) /\ n \in 0..Len(b)
  BY <1>1, SoTyped, EndsAre
<1>3. /\ x \in SoSet /\ SameSteps(s, x) /\ x.mark = s.mark /\ x.linked = s.linked /\ x.relay = s.relay
      /\ x.out = s.out /\ x.back = s.back /\ x.over = s.over
      /\ x.tmp = s.tmp /\ x.got = s.got /\ x.recv = s.recv
      /\ Only(x.state, s.state, "q", "gone")
      /\ Only(x.send, s.send, "q", SubSeq(b, 1, n))
  BY <1>1, EndsAre, GoneIs
<1> HIDE DEF x, r, b
<1>4. o \in Seq(SoUnits) /\ \E d \in Seq(SoUnits) : o \o d = r \o b
  BY <1>2, Shorter
<1> HIDE DEF o
<1>5. /\ s.done["p"] /\ s.command /\ SoJoined(s) /\ PassedOn(s) /\ Carried(s)
  BY DEF SoOk, Quiet
<1>6. s.relay /\ Up(s)
  BY <1>5 DEF SoJoined
<1>7. /\ t \in SoSet /\ SameSteps(x, t) /\ t.state = x.state /\ t.relay = FALSE /\ t.out = x.out
      /\ t.back = x.back /\ t.over = x.over /\ t.linked = x.linked /\ SameData(x, t)
      /\ t.mark["c"] = x.mark["c"] /\ t.mark["s"] = x.mark["s"] /\ t.mark["p"] = "sent"
  <2>1. /\ y \in SoSet /\ SameData(x, y) /\ SameSteps(x, y) /\ SameEnds(x, y)
        /\ \A e \in Ends : y.mark[e] = IF e \in {"p", "q"} /\ x.mark[e] # "now" THEN "sent" ELSE x.mark[e]
    BY <1>3, EndsAre, MarkIs
  <2>2. t = [y EXCEPT !.relay = FALSE]
    BY <1>3, <1>6 DEF Disband
  <2> HIDE DEF y, t
  <2>3. y.mark["c"] = x.mark["c"] /\ y.mark["s"] = x.mark["s"] /\ y.mark["p"] = "sent"
    <3>1. x.mark["p"] # "now"
      BY <1>1, <1>3 DEF Noticed
    <3> QED
      BY <2>1, <3>1, EndsAre
  <2>4. /\ t \in SoSet /\ SameSteps(x, t) /\ t.state = x.state /\ t.relay = FALSE /\ t.out = x.out
        /\ t.back = x.back /\ t.over = x.over /\ t.linked = x.linked /\ t.mark = y.mark /\ SameData(x, t)
    BY <2>1, <2>2 DEF SoSet, SameSteps, SameEnds, SameData
  <2> QED
    BY <2>3, <2>4
<1> HIDE DEF t
<1>8. /\ t.auth = s.auth /\ t.command = s.command /\ t.done = s.done /\ t.hello = s.hello /\ t.linked = s.linked
      /\ t.relay = FALSE /\ t.out = s.out /\ t.back = s.back /\ t.over = s.over
      /\ t.tmp = s.tmp /\ t.got = s.got /\ t.recv = s.recv
      /\ t.mark["c"] = s.mark["c"] /\ t.mark["s"] = s.mark["s"]
  BY <1>3, <1>7 DEF SameSteps, SameData
<1>9. /\ t.state["p"] = s.state["p"] /\ t.state["s"] = s.state["s"] /\ t.state["q"] = "gone"
      /\ t.send["s"] = s.send["s"] /\ t.send["p"] = s.send["p"] /\ t.send["q"] = SubSeq(b, 1, n)
  BY <1>3, <1>7, EndsAre, ZenonT(30) DEF Only, SameData
<1>10. Back(t) = Back(s) /\ Out(t) = Out(s) /\ Heard(t) = Heard(s)
  BY <1>8, <1>9 DEF Out, Back, Heard
<1>11. SoInTurn(t) /\ Shaking(t)
  BY <1>1, <1>8, <1>9, <1>10 DEF SoInTurn, Shaking
<1>12. Answering(t)
  BY <1>1, <1>5, <1>8, <1>9 DEF Answering, SoInTurn
<1>13. Noticed(t)
  BY <1>1, <1>5, <1>7, <1>8, <1>9 DEF Noticed
<1>14. SoJoined(t)
  BY <1>5, <1>6, <1>8, <1>9 DEF SoJoined, Up, Unmarked
<1>15. PassedOn(t)
  BY <1>5, <1>8 DEF PassedOn
<1>16. \E k \in 0..t.out : Run(t.got \o t.send["q"], k)
  <2>1. PICK k \in 0..s.out : Run(s.got \o s.send["q"], k)
    BY <1>5 DEF Carried
  <2>2. PICK d \in Seq(SoUnits) : o \o d = r \o b
    BY <1>4
  <2>3. Run(o \o d, k) /\ k \in Nat /\ s.out \in Nat
    BY <1>1, <2>1, <2>2, SoTyped DEF r, b
  <2>4. Len(o) \in 0..k /\ Run(o, Len(o))
    BY <1>4, <2>3, RunBegins
  <2>5. Len(o) \in 0..s.out
    BY <2>1, <2>3, <2>4
  <2>6. t.got \o t.send["q"] = o
    BY <1>8, <1>9 DEF o, r
  <2> QED
    BY <1>8, <2>4, <2>5, <2>6
<1>17. Carried(t)
  BY <1>5, <1>8, <1>10, <1>16 DEF Carried
<1> QED
  BY <1>5, <1>7, <1>8, <1>11, <1>12, <1>13, <1>14, <1>15, <1>17 DEF SoOk, t, x


-----------------------------------------------------------------------------
(* The invariant.                                                           *)

\* Who speaks another version.
LEMMA BarTyped ==
    ASSUME NEW s \in BarSet
    PROVE  /\ s.state \in [Ends -> SoStates] /\ s.mark \in [Ends -> SoMarks]
           /\ s.send \in [Ends -> Seq(SoUnits)] /\ s.recv \in [Ends -> Seq(SoUnits)]
           /\ s.tmp \in Seq(SoUnits) /\ s.linked \in BOOLEAN /\ s.out \in 0..SoOut /\ s.back \in 0..SoBack
           /\ SoOut \in Nat /\ SoBack \in Nat
BY SoAssumption DEF BarSet, SoAssumption

\* All but the ends of the connections is left alone.
BarSame(x, y) ==
    /\ y.version = x.version /\ y.auth = x.auth /\ y.command = x.command /\ y.hello = x.hello /\ y.done = x.done
    /\ y.relay = x.relay /\ y.over = x.over /\ y.back = x.back /\ y.got = x.got

LEMMA BarMark ==
    ASSUME NEW x \in BarSet, NEW es \in SUBSET Ends, NEW m \in SoMarks
    PROVE  /\ Mark(x, es, m) \in BarSet /\ BarSame(x, Mark(x, es, m))
           /\ Mark(x, es, m).state = x.state /\ Mark(x, es, m).send = x.send /\ Mark(x, es, m).recv = x.recv
           /\ Mark(x, es, m).linked = x.linked
           /\ \A e \in Ends : Mark(x, es, m).mark[e] = IF e \in es /\ x.mark[e] # "now" THEN m ELSE x.mark[e]
<1> DEFINE f == [e \in Ends |-> IF e \in es /\ x.mark[e] # "now" THEN m ELSE x.mark[e]]
           y == Mark(x, es, m)
<1>1. f \in [Ends -> SoMarks]
  BY BarTyped
<1>2. \A e \in Ends : f[e] = IF e \in es /\ x.mark[e] # "now" THEN m ELSE x.mark[e]
  OBVIOUS
<1>3. y = [x EXCEPT !.mark = f]
  BY DEF Mark
<1> HIDE DEF f, y
<1>4. /\ y \in BarSet /\ y.mark = f /\ BarSame(x, y) /\ y.state = x.state /\ y.send = x.send /\ y.recv = x.recv
      /\ y.linked = x.linked
  BY <1>1, <1>3 DEF BarSet, BarSame
<1> QED
  BY <1>2, <1>4 DEF y

\* What an end has come to, and what it has still to send.
Ended(x, e, c, w) == [x EXCEPT !.state[e] = c, !.send[e] = w]

LEMMA BarSends ==
    ASSUME NEW x \in BarSet, NEW e \in Ends, NEW c \in SoStates, NEW w \in Seq(SoUnits)
    PROVE  LET y == Ended(x, e, c, w)
           IN  /\ y \in BarSet /\ BarSame(x, y) /\ y.mark = x.mark /\ y.recv = x.recv /\ y.linked = x.linked
               /\ Only(y.state, x.state, e, c) /\ Only(y.send, x.send, e, w)
<1> DEFINE y == Ended(x, e, c, w)
<1> DEFINE f == [x.state EXCEPT ![e] = c]
           g == [x.send EXCEPT ![e] = w]
<1>1. y = [x EXCEPT !.state = f, !.send = g]
  BY DEF BarSet, Ended
<1>2. /\ f \in [Ends -> SoStates] /\ Only(f, x.state, e, c)
      /\ g \in [Ends -> Seq(SoUnits)] /\ Only(g, x.send, e, w)
  BY BarTyped DEF Only
<1> HIDE DEF f, g, y
<1>3. y \in BarSet /\ BarSame(x, y) /\ y.mark = x.mark /\ y.recv = x.recv /\ y.linked = x.linked /\ y.state = f /\ y.send = g
  BY <1>1, <1>2 DEF BarSet, BarSame
<1> QED
  BY <1>2, <1>3 DEF y

LEMMA BarAppSends ==
    ASSUME Barred(so), SoAppSends
    PROVE  Barred(so')
<1> DEFINE d == <<so.out + 1>>
           w == so.tmp \o d
           m == so.out + 1
<1>1. so \in BarSet /\ ~so.done["s"]
  BY DEF Barred
<1>2. m \in 0..SoOut /\ d \in Seq(SoUnits)
  <2>1. so.out \in Nat /\ SoOut \in Nat /\ so.out < SoOut /\ so.out <= SoOut
    BY <1>1, BarTyped DEF SoAppSends
  <2>4. m \in Nat /\ m \in 0..SoOut
    BY <2>1
  <2>2. m \in 0..SoOut /\ m \in SoUnits
    BY <2>4, Zenon DEF SoUnits
  <2> HIDE DEF m
  <2>3. <<m>> \in Seq(SoUnits)
    BY <2>2
  <2> QED
    BY <2>2, <2>3 DEF m
<1>3. w \in Seq(SoUnits)
  BY <1>1, <1>2, BarTyped, Cat
<1>4. so' = [so EXCEPT !.out = m, !.tmp = w]
  BY <1>1 DEF SoAppSends, TcpSend, BarSet
<1> HIDE DEF m, w
<1>5. /\ so' \in BarSet /\ BarSame(so, so') /\ so'.state = so.state /\ so'.mark = so.mark /\ so'.send = so.send
      /\ so'.recv = so.recv /\ so'.linked = so.linked
  BY <1>1, <1>2, <1>3, <1>4 DEF BarSet, BarSame
<1> QED
  BY <1>5 DEF Barred, BarSame

LEMMA BarConnects ==
    ASSUME Barred(so), SoConnect
    PROVE  Barred(so')
<1>1. so \in BarSet /\ so.send["s"] \in Seq(SoUnits) /\ so.state["s"] = "connecting"
  BY BarTyped, EndsAre DEF Barred, SoConnect
<1>2. CASE so' = Send([so EXCEPT !.state["s"] = "open"], "s", Hello)
  <2> DEFINE w == so.send["s"] \o Hello
  <2>1. Hello \in Seq(SoUnits) /\ "open" \in SoStates
    BY DEF Hello, SoUnits, SoStates
  <2>2. w \in Seq(SoUnits)
    BY <1>1, <2>1, Cat
  <2>3. so' = Ended(so, "s", "open", w)
    BY <1>1, <1>2 DEF Send, BarSet, Ended
  <2> HIDE DEF w
  <2>4. /\ so' \in BarSet /\ BarSame(so, so') /\ so'.mark = so.mark /\ so'.recv = so.recv /\ so'.linked = so.linked
        /\ Only(so'.state, so.state, "s", "open") /\ Only(so'.send, so.send, "s", w)
    BY <1>1, <2>1, <2>2, <2>3, EndsAre, BarSends
  <2>5. so'.state["q"] = so.state["q"] /\ so'.send["p"] = so.send["p"] /\ so'.state["s"] = "open"
    BY <2>4, EndsAre DEF Only
  <2> QED
    BY <2>4, <2>5 DEF Barred, BarSame
<1>3. CASE so' = Mark([so EXCEPT !.state["s"] = "failed"], {"c", "s"}, "now")
  <2> DEFINE x == [so EXCEPT !.state["s"] = "failed"]
             w == so.send["s"]
  <2>0. so' = Mark(x, {"c", "s"}, "now")
    BY <1>3
  <2>1. x = Ended(so, "s", "failed", w) /\ "failed" \in SoStates /\ w \in Seq(SoUnits)
    <3>1. so.send = [so.send EXCEPT !["s"] = w]
      BY <1>1, BarTyped
    <3>2. so = [so EXCEPT !.send = so.send]
      BY <1>1 DEF BarSet
    <3> QED
      BY <1>1, <3>1, <3>2 DEF SoStates, BarSet, Ended
  <2> HIDE DEF x, w
  <2>2. /\ x \in BarSet /\ BarSame(so, x) /\ x.mark = so.mark /\ x.recv = so.recv /\ x.linked = so.linked
        /\ Only(x.state, so.state, "s", "failed") /\ Only(x.send, so.send, "s", w)
    BY <1>1, <2>1, EndsAre, BarSends
  <2>3. /\ so' \in BarSet /\ BarSame(x, so') /\ so'.state = x.state /\ so'.send = x.send /\ so'.recv = x.recv
        /\ so'.linked = x.linked
        /\ \A e \in Ends : so'.mark[e] = IF e \in {"c", "s"} /\ x.mark[e] # "now" THEN "now" ELSE x.mark[e]
    <3> DEFINE z == Mark(x, {"c", "s"}, "now")
    <3>1. /\ z \in BarSet /\ BarSame(x, z) /\ z.state = x.state /\ z.send = x.send /\ z.recv = x.recv
          /\ z.linked = x.linked
          /\ \A e \in Ends : z.mark[e] = IF e \in {"c", "s"} /\ x.mark[e] # "now" THEN "now" ELSE x.mark[e]
      BY <2>2, EndsAre, BarMark
    <3> HIDE DEF z
    <3> QED
      BY <2>0, <3>1 DEF z
  <2>4. so'.state["q"] = so.state["q"] /\ so'.send["p"] = so.send["p"] /\ so'.state["s"] = "failed" /\ so'.mark["c"] # "none"
    BY <2>2, <2>3, EndsAre DEF Only
  <2> QED
    BY <2>2, <2>3, <2>4 DEF Barred, BarSame
<1> QED
  BY <1>2, <1>3 DEF SoConnect

\* The first unit ends the connection (mongoose.c:12865).
LEMMA BarMoves ==
    ASSUME Barred(so), NEW n \in 1..Len(so.send["s"]), so' = SocksRecv(Taken(so, "p", n))
    PROVE  Barred(so')
<1> DEFINE x == Taken(so, "p", n)
           a == so.recv["p"] \o SubSeq(so.send["s"], 1, n)
           b == SubSeq(so.send["s"], n + 1, Len(so.send["s"]))
           r == [so.recv EXCEPT !["p"] = a]
           d == [so.send EXCEPT !["s"] = b]
<1>1. so \in BarSet /\ so.recv["p"] \in Seq(SoUnits) /\ so.send["s"] \in Seq(SoUnits)
  BY BarTyped, EndsAre DEF Barred
<1>2. a \in Seq(SoUnits) /\ b \in Seq(SoUnits)
  BY <1>1, Moved
<1>3. x = [[so EXCEPT !.recv = r] EXCEPT !.send = d]
  BY DEF Taken, Peer, BarSet
<1> HIDE DEF a, b, x
<1>4. /\ r \in [Ends -> Seq(SoUnits)] /\ Only(r, so.recv, "p", a)
      /\ d \in [Ends -> Seq(SoUnits)] /\ Only(d, so.send, "s", b)
  BY <1>1, <1>2, BarTyped DEF Only
<1> HIDE DEF r, d
<1>5. /\ x \in BarSet /\ BarSame(so, x) /\ x.state = so.state /\ x.mark = so.mark /\ x.linked = so.linked
      /\ x.recv = r /\ x.send = d
  BY <1>1, <1>3, <1>4 DEF BarSet, BarSame
<1>6. x.recv["c"] = so.recv["c"] /\ x.send["p"] = so.send["p"]
  BY <1>4, <1>5, EndsAre DEF Only
<1>7. Barred(x) /\ ~x.version
  BY <1>5, <1>6 DEF Barred, BarSame, BarSet
<1>8. so' = x \/ so' = Mark(x, {"p"}, "now")
  <2> DEFINE z == Mark(x, {"p"}, "now")
  <2>4. BarSame(x, z)
    BY <1>5, EndsAre, BarMark
  <2>1. ~x.hello["p"] /\ ~x.done["p"] /\ ~z.hello["p"] /\ ~z.done["p"]
    BY <1>7, <2>4 DEF Barred, BarSame
  <2>2. Handshake(x) = x \/ Handshake(x) = z
    BY <1>7 DEF Handshake
  <2> HIDE DEF z
  <2>3. SocksRecv(x) = Handshake(x)
    BY <2>1, <2>2 DEF SocksRecv, HandleRequest
  <2> QED
    BY <2>2, <2>3 DEF x, z
<1>9. CASE so' = Mark(x, {"p"}, "now")
  <2>1. /\ so' \in BarSet /\ BarSame(x, so') /\ so'.state = x.state /\ so'.send = x.send /\ so'.recv = x.recv
        /\ so'.linked = x.linked
        /\ \A e \in Ends : so'.mark[e] = IF e \in {"p"} /\ x.mark[e] # "now" THEN "now" ELSE x.mark[e]
    <3> DEFINE z == Mark(x, {"p"}, "now")
    <3>1. /\ z \in BarSet /\ BarSame(x, z) /\ z.state = x.state /\ z.send = x.send /\ z.recv = x.recv
          /\ z.linked = x.linked
          /\ \A e \in Ends : z.mark[e] = IF e \in {"p"} /\ x.mark[e] # "now" THEN "now" ELSE x.mark[e]
      BY <1>5, EndsAre, BarMark
    <3> HIDE DEF z
    <3> QED
      BY <1>9, <3>1 DEF z
  <2>2. so'.mark["c"] = x.mark["c"]
    BY <2>1, EndsAre
  <2> QED
    BY <1>7, <2>1, <2>2 DEF Barred, BarSame
<1> QED
  BY <1>7, <1>8, <1>9

LEMMA BarCloses ==
    ASSUME Barred(so), NEW e \in {"s", "p"}, NEW n \in 0..Len(so.send[e]),
           so' = IF e = "s" THEN IfDisband(Gone(so, e, n)) ELSE Disband(Gone(so, e, n), e)
    PROVE  Barred(so')
<1> DEFINE x == Gone(so, e, n)
           w == SubSeq(so.send[e], 1, n)
<1>1. so \in BarSet /\ e \in Ends /\ so.send[e] \in Seq(SoUnits) /\ "gone" \in SoStates
  BY BarTyped, EndsAre DEF Barred, SoStates
<1>2. w \in Seq(SoUnits)
  BY <1>1
<1>3. x = Ended(so, e, "gone", w)
  BY <1>1 DEF Gone, Ended, BarSet
<1>w. e = "p" => w = <<>>
  <2>1. so.send["p"] = <<>> /\ Len(<<>>) = 0 /\ SubSeq(<<>>, 1, 0) = <<>>
    BY DEF Barred
  <2>2. e = "p" => n = 0
    BY <2>1
  <2> QED
    BY <2>1, <2>2
<1> HIDE DEF x, w
<1>4. /\ x \in BarSet /\ BarSame(so, x) /\ x.mark = so.mark /\ x.recv = so.recv /\ x.linked = so.linked
      /\ Only(x.state, so.state, e, "gone") /\ Only(x.send, so.send, e, w)
  BY <1>1, <1>2, <1>3, BarSends
<1>5. /\ x.state["q"] = so.state["q"] /\ x.send["p"] = <<>> /\ (e = "p" => x.state["s"] = so.state["s"])
  BY <1>4, <1>w, EndsAre DEF Only, Barred
<1>6. CASE e = "p"
  <2> DEFINE y == Mark(x, {"p"}, "sent")
  <2>1. so' = [y EXCEPT !.relay = FALSE] /\ ~x.relay
    BY <1>4, <1>6 DEF Disband, x, Barred, BarSame
  <2>2. /\ y \in BarSet /\ BarSame(x, y) /\ y.state = x.state /\ y.send = x.send /\ y.recv = x.recv /\ y.linked = x.linked
        /\ \A f \in Ends : y.mark[f] = IF f \in {"p"} /\ x.mark[f] # "now" THEN "sent" ELSE x.mark[f]
    BY <1>4, EndsAre, BarMark
  <2>3. y.mark["c"] = x.mark["c"]
    BY <2>2, EndsAre
  <2> HIDE DEF y
  <2>5. y.relay = FALSE
    BY <2>1, <2>2 DEF BarSame, BarSet
  <2>4. /\ so' \in BarSet /\ BarSame(y, so') /\ so'.state = y.state /\ so'.send = y.send /\ so'.recv = y.recv
        /\ so'.mark = y.mark /\ so'.linked = y.linked
    BY <2>1, <2>2, <2>5 DEF BarSet, BarSame
  <2> QED
    BY <1>4, <1>5, <1>6, <2>2, <2>3, <2>4 DEF Barred, BarSame
<1>7. CASE e = "s" /\ x.linked
  <2> DEFINE y == Mark(x, {"c", "s"}, "sent")
  <2>1. so' = [y EXCEPT !.linked = FALSE]
    BY <1>7 DEF IfDisband, x
  <2>2. /\ y \in BarSet /\ BarSame(x, y) /\ y.state = x.state /\ y.send = x.send /\ y.recv = x.recv
        /\ \A f \in Ends : y.mark[f] = IF f \in {"c", "s"} /\ x.mark[f] # "now" THEN "sent" ELSE x.mark[f]
    BY <1>4, EndsAre, BarMark
  <2>3. y.mark["c"] # "none"
    BY <2>2, EndsAre
  <2> HIDE DEF y
  <2>4. /\ so' \in BarSet /\ BarSame(y, so') /\ so'.state = y.state /\ so'.send = y.send /\ so'.recv = y.recv
        /\ so'.mark = y.mark /\ so'.linked = FALSE
    BY <2>1, <2>2 DEF BarSet, BarSame
  <2> QED
    BY <1>4, <1>5, <2>2, <2>3, <2>4 DEF Barred, BarSame
<1>8. CASE e = "s" /\ ~x.linked
  <2>1. so' = x
    BY <1>8 DEF IfDisband, x
  <2> QED
    BY <1>4, <1>5, <1>8, <2>1 DEF Barred, BarSame
<1> QED
  BY <1>6, <1>7, <1>8

LEMMA BarStep == Barred(so) /\ [SoNext]_soVars => Barred(so')
<1> SUFFICES ASSUME Barred(so), [SoNext]_soVars PROVE Barred(so')
  OBVIOUS
<1>1. CASE SoAppSends
  BY <1>1, BarAppSends
<1>2. CASE SoConnect
  BY <1>2, BarConnects
<1>3. CASE SoServes \/ SoTarget
  BY <1>3 DEF SoServes, SoTarget, Readable, Barred
<1>4. CASE SoMoves
  <2>1. PICK e \in {"s", "p"} : \E n \in 1..Len(so.send[Peer(e)]) :
            so' = IF e = "s" THEN IfRelay(IfResult(IfHello(Taken(so, e, n)))) ELSE SocksRecv(Taken(so, e, n))
    BY <1>4 DEF SoMoves, Taken
  <2>2. PICK n \in 1..Len(so.send[Peer(e)]) :
            so' = IF e = "s" THEN IfRelay(IfResult(IfHello(Taken(so, e, n)))) ELSE SocksRecv(Taken(so, e, n))
    BY <2>1
  <2>3. e # "s"
    BY <2>2 DEF Peer, Barred
  <2>4. n \in 1..Len(so.send["s"]) /\ so' = SocksRecv(Taken(so, "p", n))
    BY <2>2, <2>3 DEF Peer
  <2> QED
    BY <2>4, BarMoves
<1>5. CASE SoCloses
  <2>1. PICK e \in {"s", "p", "q"} : \E n \in 0..Len(so.send[e]) :
            /\ so.state[e] \in {"connecting", "open", "failed"}
            /\ so' = IF e = "s" THEN IfDisband(Gone(so, e, n)) ELSE Disband(Gone(so, e, n), e)
    BY <1>5 DEF SoCloses, Gone
  <2>2. e \in {"s", "p"}
    BY <2>1 DEF Barred
  <2> QED
    BY <2>1, <2>2, BarCloses
<1>6. CASE UNCHANGED soVars
  BY <1>6 DEF soVars
<1> QED
  BY <1>1, <1>2, <1>3, <1>4, <1>5, <1>6 DEF SoNext

LEMMA SoInitHolds == SoInit => SoInv
<1>1. SUFFICES ASSUME NEW v \in BOOLEAN, NEW a \in BOOLEAN, NEW c \in BOOLEAN,
                      so = [version |-> v, auth |-> a, command |-> c,
                            state |-> [e \in Ends |-> CASE e = "c" -> "open" [] e = "s" -> "connecting"
                                                        [] e = "p" -> "open" [] e = "q" -> "none"],
                            mark |-> [e \in Ends |-> "none"],
                            send |-> [e \in Ends |-> <<>>], recv |-> [e \in Ends |-> <<>>],
                            hello |-> [e \in Ends |-> FALSE], done |-> [e \in Ends |-> FALSE],
                            linked |-> TRUE, relay |-> FALSE, tmp |-> <<>>,
                            out |-> 0, back |-> 0, got |-> <<>>, over |-> FALSE]
               PROVE  SoInv
  BY DEF SoInit
<1>2. /\ so.auth \in BOOLEAN /\ so.command \in BOOLEAN /\ so.linked = TRUE /\ so.relay = FALSE /\ so.tmp = <<>>
      /\ so.out = 0 /\ so.back = 0 /\ so.got = <<>> /\ so.over = FALSE
      /\ \A e \in Ends : /\ so.mark[e] = "none" /\ so.send[e] = <<>> /\ so.recv[e] = <<>>
                         /\ so.hello[e] = FALSE /\ so.done[e] = FALSE
  BY <1>1
<1>3. so.state["c"] = "open" /\ so.state["s"] = "connecting" /\ so.state["p"] = "open" /\ so.state["q"] = "none"
  BY <1>1, EndsAre
<1>4. so.version \in BOOLEAN /\ (so.version => so \in SoSet) /\ (~so.version => so \in BarSet)
  <2>1. so.state \in [Ends -> SoStates]
    BY <1>1 DEF Ends, SoStates
  <2>2. so.mark \in [Ends -> SoMarks] /\ so.hello \in [Ends -> BOOLEAN] /\ so.done \in [Ends -> BOOLEAN]
    BY <1>1 DEF SoMarks
  <2>3. so.send \in [Ends -> Seq(SoUnits)] /\ so.recv \in [Ends -> Seq(SoUnits)]
    BY <1>1
  <2>4. 0 \in 0..SoOut /\ 0 \in 0..SoBack /\ <<>> \in Seq(SoUnits)
    BY SoAssumption DEF SoAssumption
  <2>5. so = [version |-> so.version, auth |-> so.auth, command |-> so.command, state |-> so.state, mark |-> so.mark,
              send |-> so.send, recv |-> so.recv, hello |-> so.hello, done |-> so.done,
              linked |-> so.linked, relay |-> so.relay, tmp |-> so.tmp, out |-> so.out,
              back |-> so.back, got |-> so.got, over |-> so.over]
    BY <1>1
  <2>6. so.version \in BOOLEAN
    BY <1>1
  <2> QED
    BY <1>2, <2>1, <2>2, <2>3, <2>4, <2>5, <2>6 DEF SoSet, BarSet
<1>5. Len(Out(so)) = 0 /\ Len(Back(so)) = 0
  <2>1. <<>> \o <<>> = <<>> /\ Len(<<>>) = 0
    BY ConcatEmptySeq, EmptySeq
  <2> QED
    BY <1>2, <2>1, EndsAre DEF Out, Back
<1>6. Run(so.tmp, so.out)
  BY <1>2 DEF Run
<1>h. /\ ~so.hello["p"] /\ ~so.hello["s"] /\ ~so.done["p"] /\ ~so.done["s"]
      /\ so.mark["c"] = "none" /\ so.mark["s"] = "none" /\ so.mark["p"] = "none"
      /\ so.send["q"] = <<>> /\ so.recv["q"] = <<>> /\ so.recv["c"] = <<>>
  BY <1>2, EndsAre
<1>7. SoInTurn(so)
  BY <1>3, <1>h DEF SoInTurn
<1>8. Shaking(so)
  <2>1. Len(Out(so)) <= 2
    BY <1>5
  <2> QED
    BY <1>5, <1>h, <2>1 DEF Shaking
<1>9. Answering(so)
  BY <1>2, <1>3, <1>h DEF Answering, Up, Unmarked
<1>10. Noticed(so)
  BY <1>2, <1>3, <1>6, <1>h DEF Noticed
<1>11. Quiet(so)
  BY <1>2, <1>3, <1>h DEF Quiet
<1>12. so.version => SoOk(so)
  BY <1>4, <1>7, <1>8, <1>9, <1>10, <1>11, <1>h DEF SoOk
<1>13. ~so.version => Barred(so)
  <2>1. so.send["p"] = <<>>
    BY <1>2, EndsAre
  <2> QED
    BY <1>2, <1>3, <1>4, <1>h, <2>1 DEF Barred
<1> QED
  BY <1>4, <1>12, <1>13 DEF SoInv

LEMMA SoStep == SoInv /\ [SoNext]_soVars => SoInv'
<1> SUFFICES ASSUME SoOk(so), [SoNext]_soVars PROVE SoOk(so')
  BY BarStep DEF SoInv
<1>1. CASE SoAppSends
  BY <1>1, StepAppSends DEF SoAppSends
<1>2. CASE SoConnect
  BY <1>2, StepConnects, StepFails DEF SoConnect
<1>3. CASE SoServes
  BY <1>3, StepServes DEF SoServes
<1>4. CASE SoMoves
  <2>1. PICK e \in {"s", "p"} : \E n \in 1..Len(so.send[Peer(e)]) :
            /\ so.state[e] = "open"
            /\ so' = IF e = "s" THEN IfRelay(IfResult(IfHello(Taken(so, e, n)))) ELSE SocksRecv(Taken(so, e, n))
    BY <1>4 DEF SoMoves, Readable, Taken
  <2>n. PICK n \in 1..Len(so.send[Peer(e)]) :
            /\ so.state[e] = "open"
            /\ so' = IF e = "s" THEN IfRelay(IfResult(IfHello(Taken(so, e, n)))) ELSE SocksRecv(Taken(so, e, n))
    BY <2>1
  <2>2. CASE e = "s"
    <3>1. n \in 1..Len(so.send["p"])
      BY <2>2 DEF Peer
    <3> QED
      BY <2>n, <2>2, <3>1, StepS
  <2>3. CASE e = "p"
    <3>1. n \in 1..Len(so.send["s"])
      BY <2>3 DEF Peer
    <3> QED
      BY <2>n, <2>3, <3>1, StepP
  <2> QED
    BY <2>2, <2>3
<1>5. CASE SoTarget
  <2>1. so.state["q"] = "open"
    BY <1>5 DEF SoTarget, Readable
  <2>2. CASE \E n \in 1..Len(so.send["q"]) :
                so' = [so EXCEPT !.got = @ \o SubSeq(so.send["q"], 1, n), !.send["q"] = SubSeq(@, n + 1, Len(@))]
    BY <2>1, <2>2, StepReads, ZenonT(30)
  <2>3. CASE /\ so.back < SoBack
             /\ so' = RelayData([so EXCEPT !.back = @ + 1, !.recv["q"] = @ \o <<so.back + 1>>], "q", "p")
    BY <2>1, <2>3, StepTargetSends
  <2>4. CASE so.back = SoBack /\ ~so.over /\ so' = Mark([so EXCEPT !.over = TRUE], {"q"}, "now")
    BY <2>1, <2>4, StepOver
  <2> QED
    BY <1>5, <2>2, <2>3, <2>4 DEF SoTarget
<1>6. CASE SoCloses
  <2>1. PICK e \in {"s", "p", "q"} : \E n \in 0..Len(so.send[e]) :
            /\ so.state[e] \in {"connecting", "open", "failed"}
            /\ \/ so.mark[e] = "now"
               \/ so.mark[e] = "sent" /\ n = Len(so.send[e])
               \/ e # "q" /\ so.state[Peer(e)] = "gone" /\ so.send[Peer(e)] = <<>>
            /\ so' = IF e = "s" THEN IfDisband(Gone(so, e, n)) ELSE Disband(Gone(so, e, n), e)
    BY <1>6 DEF SoCloses, Gone
  <2>n. PICK n \in 0..Len(so.send[e]) :
            /\ so.state[e] \in {"connecting", "open", "failed"}
            /\ \/ so.mark[e] = "now"
               \/ so.mark[e] = "sent" /\ n = Len(so.send[e])
               \/ e # "q" /\ so.state[Peer(e)] = "gone" /\ so.send[Peer(e)] = <<>>
            /\ so' = IF e = "s" THEN IfDisband(Gone(so, e, n)) ELSE Disband(Gone(so, e, n), e)
    BY <2>1
  <2>2. CASE e = "s"
    <3>1. so.mark["s"] # "none" \/ (so.state["p"] = "gone" /\ so.send["p"] = <<>>)
      BY <2>n, <2>2 DEF Peer
    <3> QED
      BY <2>n, <2>2, <3>1, CloseS
  <2>3. CASE e = "p"
    <3>1. so.mark["p"] = "now" \/ (so.mark["p"] = "sent" /\ n = Len(so.send["p"]))
              \/ (so.state["s"] = "gone" /\ so.send["s"] = <<>>)
      BY <2>n, <2>3 DEF Peer
    <3> QED
      BY <2>n, <2>3, <3>1, CloseP
  <2>4. CASE e = "q"
    BY <2>n, <2>4, CloseQ
  <2> QED
    BY <2>2, <2>3, <2>4
<1>7. CASE UNCHANGED soVars
  BY <1>7 DEF soVars
<1> QED
  BY <1>1, <1>2, <1>3, <1>4, <1>5, <1>6, <1>7 DEF SoNext

LEMMA SoImplies == SoInv => Relayed
<1>0. ASSUME Barred(so) PROVE Relayed
  <2>1. <<>> \in Seq(SoUnits) /\ Run(<<>>, 0) /\ so.out \in Nat /\ so.back \in Nat
    BY <1>0, BarTyped DEF Run, Barred
  <2>2. 0 \in 0..so.out /\ 0 \in 0..so.back
    BY <2>1
  <2>3. IsPrefix(<<>>, Counted(so.out)) /\ IsPrefix(<<>>, Counted(so.back))
    BY <2>1, <2>2, RunIsPrefix
  <2> QED
    BY <1>0, <2>3 DEF Relayed, InOrderRelayed, HeardOut, NoOneLeft, Barred
<1> SUFFICES ASSUME SoOk(so) PROVE Relayed
  BY <1>0 DEF SoInv
<1>1. so \in SoSet /\ SoInTurn(so) /\ Shaking(so) /\ Answering(so) /\ Noticed(so)
  BY DEF SoOk
<1>2. /\ so.got \in Seq(SoUnits) /\ so.send["q"] \in Seq(SoUnits) /\ so.recv["c"] \in Seq(SoUnits)
      /\ so.recv["s"] \in Seq(SoUnits) /\ so.send["p"] \in Seq(SoUnits)
      /\ so.out \in Nat /\ so.back \in Nat /\ SoBack \in Nat
  BY <1>1, SoTyped, EndsAre
<1>e. <<>> \in Seq(SoUnits) /\ Run(<<>>, 0) /\ 0 \in 0..so.out /\ 0 \in 0..so.back
  BY <1>2 DEF Run
<1>3. InOrderRelayed
  <2>1. \E n \in 0..so.out : Run(so.got, n)
    <3>1. CASE ~(so.done["p"] /\ so.command)
      BY <1>e, <3>1 DEF SoOk, Quiet
    <3>2. CASE so.done["p"] /\ so.command
      <4> DEFINE g == so.got
                 b == so.send["q"]
      <4>1. PICK k \in 0..so.out : Run(g \o b, k)
        BY <3>2 DEF SoOk, Carried
      <4>2. g \in Seq(SoUnits) /\ b \in Seq(SoUnits) /\ k \in Nat
        BY <1>2, <4>1
      <4> HIDE DEF g, b
      <4>3. Len(g) \in 0..k /\ Run(g, Len(g))
        BY <4>1, <4>2, RunBegins
      <4>4. Len(g) \in 0..so.out
        BY <1>2, <4>1, <4>2, <4>3
      <4> QED
        BY <4>3, <4>4 DEF g
    <3> QED
      BY <3>1, <3>2
  <2>2. \E n \in 0..so.back : Run(so.recv["c"], n)
    <3>1. CASE ~(so.done["p"] /\ so.command)
      BY <1>e, <3>1 DEF SoOk, Quiet
    <3>2. CASE so.done["p"] /\ so.command /\ ~so.done["s"]
      BY <1>e, <3>2 DEF SoOk, Carried
    <3>3. CASE so.done["p"] /\ so.command /\ so.done["s"]
      <4> DEFINE c == so.recv["c"]
                 b == Back(so)
      <4>1. c \in Seq(SoUnits) /\ b \in Seq(SoUnits) /\ Run(c \o b, so.back)
        <5>1. Back(so) \in Seq(SoUnits)
          BY <1>2, Lens DEF Back
        <5>2. Run(Heard(so), so.back)
          BY <3>3 DEF SoOk, Carried
        <5> QED
          BY <1>2, <5>1, <5>2 DEF Heard
      <4> HIDE DEF c, b
      <4>2. Len(c) \in 0..so.back /\ Run(c, Len(c))
        BY <1>2, <4>1, RunBegins
      <4> QED
        BY <4>2 DEF c
    <3> QED
      BY <3>1, <3>2, <3>3
  <2>3. IsPrefix(so.got, Counted(so.out))
    BY <1>2, <2>1, RunIsPrefix
  <2>4. IsPrefix(so.recv["c"], Counted(so.back))
    BY <1>2, <2>2, RunIsPrefix
  <2> QED
    BY <2>3, <2>4 DEF InOrderRelayed
<1>4. HeardOut
  <2>1. SUFFICES ASSUME so.over, so.mark["c"] # "none" PROVE so.recv["c"] = Counted(SoBack)
    BY DEF HeardOut
  <2>2. SoJoined(so) /\ Carried(so)
    BY <2>1 DEF SoOk, Quiet
  <2>3. so.back = SoBack /\ so.done["s"] /\ so.recv["s"] = <<>> /\ so.send["p"] = <<>>
    BY <2>1, <2>2 DEF SoJoined
  <2>4. Heard(so) = so.recv["c"]
    <3> DEFINE c == so.recv["c"]
    <3>1. <<>> \o <<>> = <<>> /\ c \o <<>> = c
      BY <1>2, ConcatEmptySeq, EmptySeq
    <3> QED
      BY <2>3, <3>1 DEF Heard, Back
  <2>5. Run(so.recv["c"], SoBack)
    BY <2>2, <2>3, <2>4 DEF Carried
  <2>6. SoBack \in 0..SoBack
    BY <1>2
  <2> QED
    BY <1>2, <2>5, <2>6, RunIsPrefix
<1>5. NoOneLeft
  BY <1>1 DEF NoOneLeft, Noticed
<1> QED
  BY <1>3, <1>4, <1>5 DEF Relayed

\* What the application sends reaches the target in order, and what the target sends the
\* application, nothing of the handshake between, and a target that ends is heard to the end:
\* for any amounts, however the parts come apart and whichever end is closed first
\* (mongoose.c:4074, 4116-4139, 12883-12894).
THEOREM RelayedHolds == SoSpec => []Relayed
<1>1. SoSpec => []SoInv
  BY SoInitHolds, SoStep, PTL DEF SoSpec
<1> QED
  BY <1>1, SoImplies, PTL

\* Every variable of the connections through a proxy stays in its domain.
THEOREM SocksTyped == SoSpec => []SoTypeOK
<1>1. SoSpec => []SoInv
  BY SoInitHolds, SoStep, PTL DEF SoSpec
<1>2. SoInv => SoTypeOK
  <2> SUFFICES ASSUME so \in SoSet \/ so \in BarSet PROVE SoTypeOK
    BY DEF SoInv, SoOk, Barred
  <2> QED
    BY SoTyped, BarTyped DEF SoTypeOK, SoStates, SoMarks
<1> QED
  BY <1>1, <1>2, PTL

-----------------------------------------------------------------------------
(***************************************************************************)
(* Lists in which every element is once, as mgr->active_connections and a  *)
(* broker's sessions are.                                                  *)
(***************************************************************************)
\* a comes before b in a list.
Before(list, a, b) == \E p, q \in DOMAIN list : p < q /\ list[p] = a /\ list[q] = b

\* A connection is put at the head of the list: LIST_ADD_HEAD.
Pushed(c, list) == <<c>> \o list

\* The elements of a list in which each is once.
LEMMA AtHead ==
    ASSUME NEW S, NEW list \in Seq(S), IsInjective(list), NEW c \in S, c \notin ToSet(list)
    PROVE  /\ Pushed(c, list) \in Seq(S) /\ IsInjective(Pushed(c, list))
           /\ ToSet(Pushed(c, list)) = ToSet(list) \cup {c}
           /\ \A a, b : Before(list, a, b) => Before(Pushed(c, list), a, b)
           /\ \A b \in ToSet(list) : Before(Pushed(c, list), c, b)
<1> SUFFICES ASSUME NEW more, more = <<c>> \o list
             PROVE  /\ more \in Seq(S) /\ IsInjective(more)
                    /\ ToSet(more) = ToSet(list) \cup {c}
                    /\ \A a, b : Before(list, a, b) => Before(more, a, b)
                    /\ \A b \in ToSet(list) : Before(more, c, b)
  BY DEF Pushed
<1>1. <<c>> \in Seq(S) /\ Len(<<c>>) = 1 /\ <<c>>[1] = c
  OBVIOUS
<1>2. /\ more \in Seq(S) /\ Len(more) = Len(list) + 1
      /\ more[1] = c /\ \A k \in 1..Len(list) : more[k + 1] = list[k]
  BY <1>1, ConcatProperties
<1>3. DOMAIN list = 1..Len(list) /\ DOMAIN more = 1..Len(list) + 1 /\ Len(list) \in Nat
  BY <1>2
<1>4. \A k \in 1..Len(list) + 1 : k = 1 \/ (k - 1 \in 1..Len(list) /\ more[k] = list[k - 1])
  <2> TAKE k \in 1..Len(list) + 1
  <2> SUFFICES ASSUME k # 1 PROVE k - 1 \in 1..Len(list) /\ more[k] = list[k - 1]
    OBVIOUS
  <2>1. k - 1 \in 1..Len(list) /\ (k - 1) + 1 = k
    BY <1>3
  <2> QED  BY <2>1, <1>2
<1>5. \A k \in 1..Len(list) : list[k] # c
  BY <1>3 DEF ToSet
<1>6. IsInjective(more)
  BY <1>2, <1>3, <1>4, <1>5 DEF IsInjective
<1>7. ToSet(more) = ToSet(list) \cup {c}
  <2>1. ASSUME NEW k \in DOMAIN list PROVE list[k] \in ToSet(more)
    <3>1. k + 1 \in DOMAIN more /\ more[k + 1] = list[k]
      BY <1>2, <1>3
    <3> QED  BY <3>1 DEF ToSet
  <2>2. c \in ToSet(more)
    BY <1>2, <1>3 DEF ToSet
  <2>3. \A x \in ToSet(more) : x \in ToSet(list) \cup {c}
    BY <1>2, <1>3, <1>4 DEF ToSet
  <2>4. \A x \in ToSet(list) : x \in ToSet(more)
    BY <2>1 DEF ToSet
  <2> QED  BY <2>2, <2>3, <2>4
<1>8. ASSUME NEW a, NEW b, Before(list, a, b) PROVE Before(more, a, b)
  <2>1. PICK p \in DOMAIN list, q \in DOMAIN list : p < q /\ list[p] = a /\ list[q] = b
    BY <1>8 DEF Before
  <2>2. p + 1 < q + 1 /\ p + 1 \in DOMAIN more /\ q + 1 \in DOMAIN more
    BY <2>1, <1>3
  <2>3. more[p + 1] = a /\ more[q + 1] = b
    BY <2>1, <1>2, <1>3
  <2> QED  BY <2>2, <2>3 DEF Before
<1>9. ASSUME NEW b \in ToSet(list) PROVE Before(more, c, b)
  <2>1. PICK q \in DOMAIN list : list[q] = b
    BY DEF ToSet
  <2>2. 1 < q + 1 /\ 1 \in DOMAIN more /\ q + 1 \in DOMAIN more /\ more[q + 1] = b
    BY <2>1, <1>2, <1>3
  <2> QED  BY <2>2, <1>2 DEF Before
<1> QED  BY <1>2, <1>6, <1>7, <1>8, <1>9

\* A list from which its only c was taken: the rest is there once, and in the same order.
LEMMA TakenOut ==
    ASSUME NEW S, NEW list \in Seq(S), IsInjective(list), NEW c \in ToSet(list)
    PROVE  /\ RemoveFirst(list, c) \in Seq(S) /\ IsInjective(RemoveFirst(list, c))
           /\ ToSet(RemoveFirst(list, c)) = ToSet(list) \ {c}
           /\ \A a, b : Before(list, a, b) /\ a # c /\ b # c => Before(RemoveFirst(list, c), a, b)
<1>1. PICK k \in 1..Len(list) : list[k] = c
  BY DEF ToSet
<1>2. \A j \in 1..Len(list) : list[j] = c <=> j = k
  BY <1>1 DEF IsInjective
<1> DEFINE I == {j \in 1..Len(list) : list[j] = c}
<1>3. I = {k} /\ k \in Nat
  BY <1>1, <1>2
<1>4. Min(I) = k
  BY <1>3 DEF Min
<1>5. RemoveFirst(list, c) = RemoveAt(list, k)
  BY <1>1, <1>3, <1>4 DEF RemoveFirst, SelectInSeq
<1> DEFINE less == RemoveAt(list, k)
           n == Len(list)
<1>6. n \in Nat /\ DOMAIN list = 1..n /\ k \in 1..n
  BY <1>1
<1> DEFINE A == SubSeq(list, 1, k - 1)
           B == SubSeq(list, k + 1, n)
<1>7. A \in Seq(S) /\ Len(A) = k - 1 /\ \A j \in 1..k - 1 : A[j] = list[j]
  BY <1>6, SubSeqProperties
<1>8. B \in Seq(S) /\ Len(B) = n - k /\ \A j \in 1..n - k : B[j] = list[k + j]
  <2>1. CASE k = n
    <3>1. k + 1 > n /\ 1..n - k = {} /\ n - k = 0
      BY <2>1, <1>6
    <3>2. B = <<>>
      BY <3>1, <1>6
    <3> QED  BY <3>1, <3>2
  <2>2. CASE k < n
    <3>1. k + 1 \in 1..n /\ n \in 1..n /\ n - (k + 1) + 1 = n - k
      BY <2>2, <1>6
    <3>2. \A j \in 1..n - k : B[j] = list[(k + 1) + j - 1]
      BY <3>1, <1>6, SubSeqProperties
    <3>3. \A j \in 1..n - k : (k + 1) + j - 1 = k + j
      BY <1>6
    <3>4. B \in Seq(S) /\ Len(B) = n - k
      BY <3>1, <1>6, SubSeqProperties
    <3> QED  BY <3>2, <3>3, <3>4
  <2>3. k = n \/ k < n
    <3> HIDE DEF n
    <3> QED  BY <1>6
  <2> HIDE DEF B, n
  <2> QED  BY <2>1, <2>2, <2>3
<1>9. /\ less \in Seq(S) /\ Len(less) = n - 1
      /\ \A j \in 1..n - 1 : less[j] = IF j < k THEN list[j] ELSE list[j + 1]
  <2>1. less = A \o B
    BY DEF RemoveAt
  <2> HIDE DEF A, B, less
  <2>2. less \in Seq(S) /\ Len(less) = n - 1
    <3>1. less \in Seq(S) /\ Len(less) = Len(A) + Len(B)
      BY <2>1, <1>7, <1>8, ConcatProperties
    <3> HIDE DEF n
    <3>2. (k - 1) + (n - k) = n - 1
      BY <1>6
    <3> QED  BY <3>1, <3>2, <1>7, <1>8
  <2>3. ASSUME NEW j \in 1..n - 1, j < k PROVE less[j] = list[j]
    <3>1. j \in 1..k - 1 /\ j \in 1..(k - 1) + (n - k)
      BY <2>3, <1>6
    <3>2. (A \o B)[j] = A[j]
      BY <3>1, <1>6, <1>7, <1>8
    <3> QED  BY <3>1, <3>2, <2>1, <1>7
  <2>4. ASSUME NEW j \in 1..n - 1, ~(j < k) PROVE less[j] = list[j + 1]
    <3>1. j > k - 1 /\ j \in 1..(k - 1) + (n - k) /\ j - (k - 1) \in 1..n - k /\ k + (j - (k - 1)) = j + 1
      BY <2>4, <1>6
    <3>2. (A \o B)[j] = B[j - (k - 1)]
      BY <3>1, <1>6, <1>7, <1>8
    <3>3. B[j - (k - 1)] = list[k + (j - (k - 1))]
      BY <3>1, <1>8
    <3> QED  BY <3>1, <3>2, <3>3, <2>1
  <2> QED  BY <2>2, <2>3, <2>4, <1>6
<1> HIDE DEF A, B, less, n, I
<1>10. DOMAIN less = 1..n - 1
  BY <1>9, <1>6
<1>11. \A j \in 1..n : j # k => LET i == IF j < k THEN j ELSE j - 1 IN i \in 1..n - 1 /\ less[i] = list[j]
  <2> TAKE j \in 1..n
  <2> HAVE j # k
  <2>1. CASE j < k
    BY <2>1, <1>6, <1>9
  <2>2. CASE j > k
    <3>1. j - 1 \in 1..n - 1 /\ ~(j - 1 < k) /\ (j - 1) + 1 = j
      BY <2>2, <1>6
    <3> QED  BY <3>1, <2>2, <1>6, <1>9
  <2> QED  BY <2>1, <2>2, <1>6
<1>12. \A i \in 1..n - 1 : LET j == IF i < k THEN i ELSE i + 1 IN j \in 1..n /\ j # k /\ less[i] = list[j]
  BY <1>6, <1>9
<1>13. IsInjective(less)
  <2> SUFFICES ASSUME NEW i \in 1..n - 1, NEW j \in 1..n - 1, less[i] = less[j] PROVE i = j
    BY <1>10 DEF IsInjective
  <2> DEFINE ii == IF i < k THEN i ELSE i + 1
             jj == IF j < k THEN j ELSE j + 1
  <2>1. ii \in 1..n /\ jj \in 1..n /\ list[ii] = list[jj]
    BY <1>12
  <2>2. ii = jj
    <3> HIDE DEF ii, jj
    <3> QED  BY <2>1, <1>6 DEF IsInjective
  <2> QED  BY <2>2, <1>6
<1>14. ToSet(less) = ToSet(list) \ {c}
  <2>1. \A x \in ToSet(less) : x \in ToSet(list) /\ x # c
    BY <1>2, <1>6, <1>10, <1>12 DEF ToSet, n
  <2>2. \A x \in ToSet(list) : x # c => x \in ToSet(less)
    BY <1>1, <1>6, <1>10, <1>11 DEF ToSet
  <2> QED  BY <2>1, <2>2
<1>15. ASSUME NEW a, NEW b, Before(list, a, b), a # c, b # c PROVE Before(less, a, b)
  <2>1. PICK p \in 1..n, q \in 1..n : p < q /\ list[p] = a /\ list[q] = b
    BY <1>15, <1>6 DEF Before
  <2> DEFINE pp == IF p < k THEN p ELSE p - 1
             qq == IF q < k THEN q ELSE q - 1
  <2>2. p # k /\ q # k
    BY <2>1, <1>1, <1>15
  <2>3. pp \in 1..n - 1 /\ qq \in 1..n - 1 /\ less[pp] = a /\ less[qq] = b
    BY <2>1, <2>2, <1>11
  <2>4. pp < qq
    BY <2>1, <2>2, <1>6
  <2> HIDE DEF pp, qq
  <2> QED  BY <2>3, <2>4, <1>10 DEF Before
<1> QED  BY <1>5, <1>9, <1>13, <1>14, <1>15 DEF less

-----------------------------------------------------------------------------
(***************************************************************************)
(* A tunnel: for any number of streams, dispatcher connections and rounds. *)
(* The loop over the connections is a function that is followed from one   *)
(* connection to the next (NatSet of FramingProofs).                       *)
(***************************************************************************)
\* What the values of the tunnel's state are.
TuConns == {<<"d", k>> : k \in 1..TuDials} \cup {<<"s", i>> : i \in TuIds}
TuSent == [stream : TuIds, end : BOOLEAN]

TuSet == [list : Seq(TuConns), marked : SUBSET TuConns, disp : 0..TuDials, dials : 0..TuDials, open : BOOLEAN,
          fresh : BOOLEAN, last : {0} \cup TuIds, timer : BOOLEAN, hold : BOOLEAN,
          on : [TuIds -> 0..TuDials], frames : [1..TuDials -> Seq(TuSent)], clash : BOOLEAN]

\* Where in what was sent a stream's end is.
EndsAt(f, i) == {k \in DOMAIN f : f[k] = EndFrame(i)}

\* There is at most the last dispatcher's connection, which is to come back when there is none.
Dispatched(t) ==
    /\ t.disp \in {0, t.dials} /\ (t.timer => t.disp = 0) /\ (t.open => t.disp # 0)
    /\ t.fresh => t.disp # 0 /\ ~t.open /\ <<"d", t.disp>> \notin t.marked
    /\ \A k \in 1..TuDials : <<"d", k>> \in Live(t) <=> k = t.disp

\* A stream is in front of the dispatcher's connection it was opened on, or to be closed.
Ranked(t) ==
    \A i \in TuIds : <<"s", i>> \in Live(t) =>
        /\ t.on[i] # 0
        /\ IF t.disp # 0 /\ t.on[i] = t.disp THEN Before(t.list, <<"s", i>>, <<"d", t.disp>>)
           ELSE <<"s", i>> \in t.marked

\* Ids are used once, and only for streams there were is an end sent.
IdsOnce(t) ==
    \A i \in TuIds :
        /\ t.on[i] <= t.dials /\ (t.on[i] # 0 => i <= t.last)
        /\ \A k \in 1..TuDials : EndsAt(t.frames[k], i) # {} => t.on[i] # 0

\* A stream of the dispatcher that is there has sent its end once, when it is gone.
EndOnce(t) ==
    t.disp # 0 => \A i \in TuIds : t.on[i] = t.disp =>
        IF <<"s", i>> \in Live(t) THEN EndsAt(t.frames[t.disp], i) = {}
        ELSE \E k \in Nat : EndsAt(t.frames[t.disp], i) = {k}

\* What each closing of a round keeps.
TuSound(t) ==
    /\ t \in TuSet /\ IsInjective(t.list) /\ t.marked \subseteq Live(t) /\ ~t.clash
    /\ Dispatched(t) /\ Ranked(t) /\ IdsOnce(t) /\ EndOnce(t)

\* Streams of a dispatcher that was lost are there until the round that also comes to the new one is over.
Calm(t) == t.disp # 0 /\ ~t.fresh => \A i \in TuIds : <<"s", i>> \in Live(t) => t.on[i] = t.disp

TuInv == TuSound(tu) /\ Calm(tu)

\* What the proofs use of the tunnel's constants.
LEMMA TuConstants == TuIds \subseteq Nat /\ TuDials \in Nat /\ \A i \in TuIds : i # 0 /\ i > 0
BY TuAssumption DEF TuAssumption

\* Streams and connections of dispatchers are told apart by their names.
LEMMA ConnsDiffer ==
    /\ \A i, j : <<"s", i>> = <<"s", j>> <=> i = j
    /\ \A i, j : <<"d", i>> = <<"d", j>> <=> i = j
    /\ \A i, j : <<"s", i>> # <<"d", j>>
    /\ \A k \in 1..TuDials : <<"d", k>> \in TuConns
    /\ \A i \in TuIds : <<"s", i>> \in TuConns
    /\ \A c \in TuConns : \/ c[1] = "s" /\ c[2] \in TuIds /\ c = <<"s", c[2]>>
                          \/ c[1] = "d" /\ c[1] # "s" /\ c[2] \in 1..TuDials /\ c = <<"d", c[2]>>
BY DEF TuConns

\* A frame that is sent ends the stream it says, and no other.
LEMMA FrameAdded ==
    ASSUME NEW f \in Seq(TuSent), NEW x \in TuSent
    PROVE  /\ Append(f, x) \in Seq(TuSent)
           /\ \A i : EndsAt(Append(f, x), i) = IF x = EndFrame(i) THEN EndsAt(f, i) \cup {Len(f) + 1} ELSE EndsAt(f, i)
<1> DEFINE g == Append(f, x)
<1>1. /\ g \in Seq(TuSent) /\ Len(f) \in Nat /\ DOMAIN f = 1..Len(f) /\ DOMAIN g = 1..Len(f) + 1
      /\ g[Len(f) + 1] = x /\ \A k \in 1..Len(f) : g[k] = f[k]
  BY AppendProperties
<1> HIDE DEF g
<1>2. ASSUME NEW i PROVE EndsAt(g, i) = IF x = EndFrame(i) THEN EndsAt(f, i) \cup {Len(f) + 1} ELSE EndsAt(f, i)
  <2>1. \A k \in 1..Len(f) + 1 : k \in 1..Len(f) \/ k = Len(f) + 1
    BY <1>1
  <2>2. \A k \in 1..Len(f) : k \in 1..Len(f) + 1 /\ k # Len(f) + 1
    BY <1>1
  <2>3. Len(f) + 1 \in 1..Len(f) + 1
    BY <1>1
  <2> QED  BY <2>1, <2>2, <2>3, <1>1 DEF EndsAt
<1> QED  BY <1>1, <1>2 DEF g

\* The frame that ends a stream is one of its own, and not one that carries data.
LEMMA EndFrames ==
    /\ \A i \in TuIds : EndFrame(i) \in TuSent
    /\ \A i, j : EndFrame(i) = EndFrame(j) <=> i = j
    /\ \A i, j : [stream |-> i, end |-> FALSE] # EndFrame(j)
    /\ \A i \in TuIds : [stream |-> i, end |-> FALSE] \in TuSent
<1>1. \A i, j : EndFrame(i) = EndFrame(j) <=> i = j
  <2> SUFFICES ASSUME NEW i, NEW j, EndFrame(i) = EndFrame(j) PROVE i = j
    OBVIOUS
  <2>1. EndFrame(i).stream = i /\ EndFrame(j).stream = j
    BY DEF EndFrame
  <2> QED  BY <2>1
<1>2. \A i, j : [stream |-> i, end |-> FALSE] # EndFrame(j)
  <2> TAKE i, j
  <2>1. EndFrame(j).end = TRUE /\ [stream |-> i, end |-> FALSE].end = FALSE
    BY DEF EndFrame
  <2> QED  BY <2>1
<1>3. \A i \in TuIds : EndFrame(i) \in TuSent /\ [stream |-> i, end |-> FALSE] \in TuSent
  BY DEF EndFrame, TuSent
<1> QED  BY <1>1, <1>2, <1>3

\* What sending a frame changes.
LEMMA Emitted ==
    ASSUME NEW t \in TuSet, NEW x \in TuSent, NEW u, u = Emit(t, x)
    PROVE  /\ u \in TuSet
           /\ u.list = t.list /\ u.marked = t.marked /\ u.disp = t.disp /\ u.dials = t.dials
           /\ u.open = t.open /\ u.fresh = t.fresh /\ u.last = t.last /\ u.timer = t.timer
           /\ u.on = t.on /\ u.clash = t.clash
           /\ \A k \in 1..TuDials : u.frames[k] = IF k = t.disp THEN Append(t.frames[k], x) ELSE t.frames[k]
<1>1. CASE t.disp = 0
  <2>1. u = t
    BY <1>1 DEF Emit
  <2> QED  BY <2>1, <1>1, TuConstants
<1>2. CASE t.disp # 0
  <2>1. t.disp \in 1..TuDials
    BY <1>2, TuConstants DEF TuSet
  <2> DEFINE g == [t.frames EXCEPT ![t.disp] = Append(@, x)]
  <2>2. g \in [1..TuDials -> Seq(TuSent)] /\ \A k \in 1..TuDials : g[k] = IF k = t.disp THEN Append(t.frames[k], x) ELSE t.frames[k]
    BY <2>1, FrameAdded DEF TuSet
  <2>3. u = [t EXCEPT !.frames = g]
    BY <1>2 DEF Emit
  <2> HIDE DEF g
  <2> QED  BY <2>2, <2>3 DEF TuSet
<1> QED  BY <1>1, <1>2

\* Closing a stream's connection, which tells the dispatcher that is there, keeps the tunnel sound.
LEMMA StreamClosed ==
    ASSUME NEW t, TuSound(t), NEW i \in TuIds, <<"s", i>> \in Live(t), NEW u, u = CloseStream(t, i)
    PROVE  TuSound(u) /\ u.disp = t.disp /\ u.fresh = t.fresh /\ u.on = t.on /\ u.clash = t.clash
           /\ u.marked = t.marked \ {<<"s", i>>} /\ Live(u) = Live(t) \ {<<"s", i>>}
<1> DEFINE c == <<"s", i>>
           l == RemoveFirst(t.list, c)
           v == [t EXCEPT !.list = l, !.marked = @ \ {c}]
<1>1. t \in TuSet /\ t.list \in Seq(TuConns) /\ IsInjective(t.list) /\ c \in ToSet(t.list)
  BY DEF TuSound, TuSet, Live
<1>2. /\ l \in Seq(TuConns) /\ IsInjective(l) /\ ToSet(l) = ToSet(t.list) \ {c}
      /\ \A a, b : Before(t.list, a, b) /\ a # c /\ b # c => Before(l, a, b)
  <2> HIDE DEF c
  <2> QED  BY <1>1, TakenOut
<1>3. u = Emit(v, EndFrame(i))
  BY DEF CloseStream
<1> HIDE DEF l
<1>4. /\ v \in TuSet /\ v.list = l /\ v.marked = t.marked \ {c} /\ v.disp = t.disp /\ v.dials = t.dials
      /\ v.open = t.open /\ v.fresh = t.fresh /\ v.last = t.last /\ v.timer = t.timer
      /\ v.on = t.on /\ v.clash = t.clash /\ v.frames = t.frames
  BY <1>1, <1>2 DEF TuSet
<1> HIDE DEF v
<1>5. /\ u \in TuSet /\ u.list = l /\ u.marked = t.marked \ {c} /\ u.disp = t.disp /\ u.dials = t.dials
      /\ u.open = t.open /\ u.fresh = t.fresh /\ u.last = t.last /\ u.timer = t.timer
      /\ u.on = t.on /\ u.clash = t.clash
      /\ \A k \in 1..TuDials : u.frames[k] = IF k = t.disp THEN Append(t.frames[k], EndFrame(i)) ELSE t.frames[k]
  BY <1>3, <1>4, Emitted, EndFrames
<1>6. Live(u) = Live(t) \ {c}
  BY <1>2, <1>5 DEF Live
<1>7. \A j : j # i => (<<"s", j>> \in Live(u) <=> <<"s", j>> \in Live(t)) /\ (<<"s", j>> \in u.marked <=> <<"s", j>> \in t.marked)
  BY <1>5, <1>6, ConnsDiffer
<1>8. \A k : (<<"d", k>> \in Live(u) <=> <<"d", k>> \in Live(t)) /\ (<<"d", k>> \in u.marked <=> <<"d", k>> \in t.marked)
  BY <1>5, <1>6, ConnsDiffer
<1>9. c \notin Live(u)
  BY <1>6
<1>10. Dispatched(u)
  BY <1>5, <1>8 DEF Dispatched, TuSound
<1>11. Ranked(u)
  <2> SUFFICES ASSUME NEW j \in TuIds, <<"s", j>> \in Live(u)
               PROVE  /\ u.on[j] # 0
                      /\ IF u.disp # 0 /\ u.on[j] = u.disp THEN Before(u.list, <<"s", j>>, <<"d", u.disp>>)
                         ELSE <<"s", j>> \in u.marked
    BY DEF Ranked
  <2>1. j # i /\ <<"s", j>> # c /\ <<"s", j>> \in Live(t) /\ <<"d", u.disp>> # c
    BY <1>7, <1>9, ConnsDiffer
  <2>2. /\ t.on[j] # 0
        /\ IF t.disp # 0 /\ t.on[j] = t.disp THEN Before(t.list, <<"s", j>>, <<"d", t.disp>>) ELSE <<"s", j>> \in t.marked
    BY <2>1 DEF TuSound, Ranked
  <2> HIDE DEF c
  <2> QED  BY <2>1, <2>2, <1>2, <1>5
<1>12. \A k \in 1..TuDials : t.frames[k] \in Seq(TuSent)
  BY <1>1 DEF TuSet
<1>13. \A k \in 1..TuDials, j \in TuIds : k # t.disp \/ j # i => EndsAt(u.frames[k], j) = EndsAt(t.frames[k], j)
  <2> TAKE k \in 1..TuDials, j \in TuIds
  <2>1. CASE k # t.disp
    BY <2>1, <1>5
  <2>2. CASE k = t.disp /\ j # i
    <3>1. u.frames[k] = Append(t.frames[k], EndFrame(i)) /\ EndFrame(i) \in TuSent /\ EndFrame(i) # EndFrame(j)
      BY <2>2, <1>5, EndFrames
    <3> QED  BY <3>1, <1>12, FrameAdded
  <2> QED  BY <2>1, <2>2
<1>14. t.on[i] # 0
  BY DEF TuSound, Ranked
<1>15. IdsOnce(u)
  BY <1>5, <1>13, <1>14 DEF TuSound, IdsOnce
<1>16. EndOnce(u)
  <2> SUFFICES ASSUME u.disp # 0, NEW j \in TuIds, u.on[j] = u.disp
               PROVE  IF <<"s", j>> \in Live(u) THEN EndsAt(u.frames[u.disp], j) = {}
                      ELSE \E k \in Nat : EndsAt(u.frames[u.disp], j) = {k}
    BY DEF EndOnce
  <2>1. u.disp = t.disp /\ t.disp \in 1..TuDials /\ t.on[j] = t.disp /\ t.disp # 0
    BY <1>1, <1>5, TuConstants DEF TuSet
  <2>2. IF <<"s", j>> \in Live(t) THEN EndsAt(t.frames[t.disp], j) = {}
        ELSE \E k \in Nat : EndsAt(t.frames[t.disp], j) = {k}
    BY <2>1 DEF TuSound, EndOnce
  <2>3. CASE j # i
    BY <2>1, <2>2, <2>3, <1>7, <1>13
  <2>4. CASE j = i
    <3>1. u.frames[t.disp] = Append(t.frames[t.disp], EndFrame(i)) /\ EndFrame(i) \in TuSent
      BY <2>1, <1>5, EndFrames
    <3>2. EndsAt(u.frames[t.disp], i) = EndsAt(t.frames[t.disp], i) \cup {Len(t.frames[t.disp]) + 1}
      BY <3>1, <2>1, <1>12, FrameAdded
    <3>3. EndsAt(t.frames[t.disp], i) = {}
      BY <2>2, <2>4
    <3>4. Len(t.frames[t.disp]) + 1 \in Nat
      BY <2>1, <1>12
    <3> QED  BY <3>2, <3>3, <3>4, <2>1, <2>4, <1>9
  <2> QED  BY <2>3, <2>4
<1>17. u.marked \subseteq Live(u)
  BY <1>5, <1>6 DEF TuSound
<1> QED  BY <1>2, <1>5, <1>6, <1>10, <1>11, <1>15, <1>16, <1>17 DEF TuSound

\* Closing the dispatcher's connection marks the streams opened on it and keeps the tunnel sound.
LEMMA DispatcherLost ==
    ASSUME NEW t, TuSound(t), NEW k \in 1..TuDials, <<"d", k>> \in t.marked, NEW u, u = LoseDispatcher(t, k)
    PROVE  TuSound(u) /\ u.disp = 0 /\ ~u.fresh
<1> DEFINE c == <<"d", k>>
           l == RemoveFirst(t.list, c)
           all == {<<"s", i>> : i \in StreamsOf(t)}
<1>1. t \in TuSet /\ t.list \in Seq(TuConns) /\ IsInjective(t.list) /\ c \in ToSet(t.list) /\ t.marked \subseteq ToSet(t.list)
  BY DEF TuSound, TuSet, Live
<1>2. l \in Seq(TuConns) /\ IsInjective(l) /\ ToSet(l) = ToSet(t.list) \ {c}
  <2> HIDE DEF c
  <2> QED  BY <1>1, TakenOut
<1>3. k = t.disp /\ k # 0
  BY <1>1, TuConstants DEF TuSound, Dispatched, Live
<1>4. all \subseteq ToSet(t.list) \ {c} /\ all \subseteq TuConns
  <2> SUFFICES ASSUME NEW i \in TuIds, <<"s", i>> \in Live(t) PROVE <<"s", i>> \in ToSet(t.list) \ {c} /\ <<"s", i>> \in TuConns
    BY DEF StreamsOf
  <2> QED  BY ConnsDiffer DEF Live
<1> DEFINE m == (t.marked \ {c}) \cup all
<1> HIDE DEF l, all
<1>5. u = [t EXCEPT !.list = l, !.marked = m, !.disp = 0, !.open = FALSE, !.timer = TRUE]
  BY DEF LoseDispatcher, l, all
<1>13. m \in SUBSET TuConns /\ 0 \in 0..TuDials
  BY <1>1, <1>4, TuConstants DEF TuSet
<1> HIDE DEF m
<1>6. /\ u \in TuSet /\ u.list = l /\ u.marked = m /\ u.disp = 0 /\ u.dials = t.dials
      /\ u.open = FALSE /\ u.fresh = t.fresh /\ u.last = t.last /\ u.on = t.on /\ u.clash = t.clash /\ u.frames = t.frames
  BY <1>1, <1>2, <1>5, <1>13 DEF TuSet
<1>7. Live(u) = Live(t) \ {c}
  BY <1>2, <1>6 DEF Live
<1>8. ~t.fresh
  BY <1>3 DEF TuSound, Dispatched
<1>9. Dispatched(u)
  <2>1. ASSUME NEW j \in 1..TuDials PROVE <<"d", j>> \notin Live(u)
    BY <1>3, <1>7, ConnsDiffer DEF TuSound, Dispatched
  <2> QED  BY <2>1, <1>6, <1>8, TuConstants DEF Dispatched
<1>10. Ranked(u)
  <2> SUFFICES ASSUME NEW j \in TuIds, <<"s", j>> \in Live(u) PROVE u.on[j] # 0 /\ <<"s", j>> \in u.marked
    BY <1>6 DEF Ranked
  <2>1. <<"s", j>> \in Live(t)
    BY <1>7
  <2> QED  BY <2>1, <1>6 DEF TuSound, Ranked, m, all, StreamsOf
<1>11. IdsOnce(u) /\ EndOnce(u)
  BY <1>6 DEF TuSound, IdsOnce, EndOnce
<1>12. u.marked \subseteq Live(u)
  BY <1>1, <1>4, <1>6, <1>7 DEF TuSound, Live, m
<1> QED  BY <1>2, <1>6, <1>8, <1>9, <1>10, <1>11, <1>12 DEF TuSound

\* Marking what is there and not the dispatcher's new connection.
LEMMA ConnMarked ==
    ASSUME NEW t, TuSound(t), NEW c \in Live(t), c = <<"d", t.disp>> => ~t.fresh, NEW u,
           u = [t EXCEPT !.marked = @ \cup {c}]
    PROVE  TuSound(u) /\ (Calm(t) => Calm(u))
<1>1. t \in TuSet /\ c \in TuConns
  BY DEF TuSound, TuSet, Live, ToSet
<1>2. /\ u \in TuSet /\ u.list = t.list /\ u.marked = t.marked \cup {c} /\ u.disp = t.disp /\ u.dials = t.dials
      /\ u.open = t.open /\ u.fresh = t.fresh /\ u.last = t.last /\ u.timer = t.timer
      /\ u.on = t.on /\ u.clash = t.clash /\ u.frames = t.frames
  BY <1>1 DEF TuSet
<1>3. Live(u) = Live(t)
  BY <1>2 DEF Live
<1>4. Dispatched(u)
  BY <1>2, <1>3 DEF TuSound, Dispatched
<1>5. Ranked(u)
  BY <1>2, <1>3 DEF TuSound, Ranked
<1>6. IdsOnce(u) /\ EndOnce(u)
  BY <1>2, <1>3 DEF TuSound, IdsOnce, EndOnce
<1>7. Calm(t) => Calm(u)
  BY <1>2, <1>3 DEF Calm
<1>8. IsInjective(u.list) /\ u.marked \subseteq Live(u) /\ ~u.clash
  BY <1>2, <1>3 DEF TuSound
<1> QED  BY <1>2, <1>4, <1>5, <1>6, <1>7, <1>8 DEF TuSound

\* A stream that is found, or opened at the head of the list, is there as the invariant asks.
LEMMA StreamFound ==
    ASSUME NEW t, TuSound(t), Calm(t), t.open, NEW i \in TuIds, NEW u, u = FindConn(t, i)
    PROVE  TuSound(u) /\ Calm(u) /\ u.disp = t.disp
<1>1. CASE <<"s", i>> \in Live(t) \/ i <= t.last
  BY <1>1 DEF FindConn
<1>2. CASE ~(<<"s", i>> \in Live(t) \/ i <= t.last)
  <2> DEFINE c == <<"s", i>>
             l == Pushed(c, t.list)
  <2>1. t \in TuSet /\ t.list \in Seq(TuConns) /\ IsInjective(t.list) /\ c \in TuConns /\ c \notin ToSet(t.list)
    BY <1>2, ConnsDiffer DEF TuSound, TuSet, Live
  <2>2. /\ l \in Seq(TuConns) /\ IsInjective(l) /\ ToSet(l) = ToSet(t.list) \cup {c}
        /\ \A a, b : Before(t.list, a, b) => Before(l, a, b)
        /\ \A b \in ToSet(t.list) : Before(l, c, b)
    <3> HIDE DEF c
    <3> QED  BY <2>1, AtHead
  <2> HIDE DEF l
  <2>3. t.disp \in 1..TuDials /\ t.disp # 0 /\ t.disp = t.dials /\ ~t.fresh
    BY <2>1, TuConstants DEF TuSound, Dispatched, TuSet
  <2> DEFINE o == [t.on EXCEPT ![i] = t.disp]
  <2>4. u = [t EXCEPT !.list = l, !.last = i, !.on = o]
    BY <1>2 DEF FindConn, l, Pushed
  <2>16. o \in [TuIds -> 0..TuDials] /\ \A j \in TuIds : o[j] = IF j = i THEN t.disp ELSE t.on[j]
    BY <2>1, <2>3 DEF TuSet
  <2> HIDE DEF o
  <2>5. /\ u \in TuSet /\ u.list = l /\ u.marked = t.marked /\ u.disp = t.disp /\ u.dials = t.dials
        /\ u.open = t.open /\ u.fresh = t.fresh /\ u.last = i /\ u.timer = t.timer
        /\ u.clash = t.clash /\ u.frames = t.frames
        /\ \A j \in TuIds : u.on[j] = IF j = i THEN t.disp ELSE t.on[j]
    BY <2>1, <2>2, <2>4, <2>16 DEF TuSet
  <2>6. Live(u) = Live(t) \cup {c}
    BY <2>2, <2>5 DEF Live
  <2>7. \A j : (j # i => (<<"s", j>> \in Live(u) <=> <<"s", j>> \in Live(t))) /\ (<<"d", j>> \in Live(u) <=> <<"d", j>> \in Live(t))
    BY <2>6, ConnsDiffer
  <2>8. c \in Live(u) /\ <<"d", t.disp>> \in Live(t)
    BY <2>3, <2>6 DEF TuSound, Dispatched
  <2>9. t.on[i] = 0 /\ \A k \in 1..TuDials : EndsAt(t.frames[k], i) = {}
    BY <1>2 DEF TuSound, IdsOnce
  <2>10. Dispatched(u)
    BY <2>5, <2>7 DEF TuSound, Dispatched
  <2>11. Ranked(u)
    <3> SUFFICES ASSUME NEW j \in TuIds, <<"s", j>> \in Live(u)
                 PROVE  /\ u.on[j] # 0
                        /\ IF u.disp # 0 /\ u.on[j] = u.disp THEN Before(u.list, <<"s", j>>, <<"d", u.disp>>)
                           ELSE <<"s", j>> \in u.marked
      BY DEF Ranked
    <3>1. CASE j = i
      BY <3>1, <2>2, <2>3, <2>5, <2>8 DEF Live
    <3>2. CASE j # i
      BY <3>2, <2>2, <2>5, <2>7, ZenonT(30) DEF TuSound, Ranked
    <3> QED  BY <3>1, <3>2
  <2>12. IdsOnce(u)
    <3> SUFFICES ASSUME NEW j \in TuIds
                 PROVE  /\ u.on[j] <= u.dials /\ (u.on[j] # 0 => j <= u.last)
                        /\ \A k \in 1..TuDials : EndsAt(u.frames[k], j) # {} => u.on[j] # 0
      BY DEF IdsOnce
    <3>1. CASE j = i
      BY <3>1, <2>3, <2>5, TuConstants
    <3>2. CASE j # i
      <4>1. t.on[j] # 0 => j <= i
        <5>1. t.last \in {0} \cup TuIds
          BY <2>1 DEF TuSet
        <5>4. TuIds \subseteq Nat
          BY TuConstants
        <5>2. j \in Nat /\ i \in Nat /\ t.last \in Nat
          <6>1. 0 \in Nat
            OBVIOUS
          <6>2. t.last = 0 \/ t.last \in TuIds
            BY <5>1
          <6> HIDE DEF c
          <6> QED  BY <5>4, <6>1, <6>2, Zenon
        <5>3. t.on[j] # 0 => j <= t.last
          BY DEF TuSound, IdsOnce
        <5> QED  BY <1>2, <5>2, <5>3
      <4> QED  BY <3>2, <4>1, <2>5 DEF TuSound, IdsOnce
    <3> QED  BY <3>1, <3>2
  <2>13. EndOnce(u)
    <3> SUFFICES ASSUME NEW j \in TuIds, u.on[j] = u.disp
                 PROVE  IF <<"s", j>> \in Live(u) THEN EndsAt(u.frames[u.disp], j) = {}
                        ELSE \E k \in Nat : EndsAt(u.frames[u.disp], j) = {k}
      BY DEF EndOnce
    <3>1. CASE j = i
      BY <3>1, <2>3, <2>5, <2>8, <2>9
    <3>2. CASE j # i
      BY <3>2, <2>3, <2>5, <2>7, ZenonT(30) DEF TuSound, EndOnce
    <3> QED  BY <3>1, <3>2
  <2>14. Calm(u)
    <3> SUFFICES ASSUME NEW j \in TuIds, <<"s", j>> \in Live(u) PROVE u.on[j] = u.disp
      BY DEF Calm
    <3> QED  BY <2>3, <2>5, <2>7 DEF Calm
  <2>15. IsInjective(u.list) /\ u.marked \subseteq Live(u) /\ ~u.clash
    BY <2>2, <2>5, <2>6 DEF TuSound
  <2> QED  BY <2>5, <2>10, <2>11, <2>12, <2>13, <2>14, <2>15 DEF TuSound
<1> QED  BY <1>1, <1>2

\* The loop does not go from a dispatcher's connection to one of its streams.
LEMMA NeverNext ==
    ASSUME NEW t, TuSound(t), Calm(t), t.open, NEW i \in TuIds, <<"s", i>> \in Live(t)
    PROVE  ~ComesNext(t.list, <<"d", t.disp>>, <<"s", i>>)
<1>1. Before(t.list, <<"s", i>>, <<"d", t.disp>>)
  BY DEF TuSound, Calm, Dispatched, Ranked
<1>2. PICK p, q \in DOMAIN t.list : p < q /\ t.list[p] = <<"s", i>> /\ t.list[q] = <<"d", t.disp>>
  BY <1>1 DEF Before
<1>3. SUFFICES ASSUME NEW k \in 1..Len(t.list) - 1, t.list[k] = <<"d", t.disp>>, t.list[k + 1] = <<"s", i>> PROVE FALSE
  BY DEF ComesNext
<1>4. t.list \in Seq(TuConns) /\ DOMAIN t.list = 1..Len(t.list) /\ Len(t.list) \in Nat /\ IsInjective(t.list)
  BY DEF TuSound, TuSet
<1>5. k \in DOMAIN t.list /\ k + 1 \in DOMAIN t.list /\ p \in Nat /\ q \in Nat /\ k \in Nat
  BY <1>4, <1>2
<1>6. k = q /\ k + 1 = p
  BY <1>2, <1>3, <1>4, <1>5 DEF IsInjective
<1> QED  BY <1>2, <1>5, <1>6
-----------------------------------------------------------------------------
\* A tunnel starts sound.
LEMMA TuInit_Inv == TuInit => TuInv
<1> SUFFICES ASSUME TuInit PROVE TuSound(tu) /\ Calm(tu)
  BY DEF TuInv
<1>1. /\ tu \in TuSet /\ tu.list = <<>> /\ tu.marked = {} /\ tu.disp = 0 /\ tu.dials = 0 /\ tu.open = FALSE /\ tu.fresh = FALSE
      /\ tu.clash = FALSE /\ tu.last = 0
      /\ (\A i \in TuIds : tu.on[i] = 0) /\ (\A k \in 1..TuDials : tu.frames[k] = <<>>)
  <2>1. <<>> \in Seq(TuSent) /\ <<>> \in Seq(TuConns)
    OBVIOUS
  <2> QED  BY <2>1, TuConstants DEF TuInit, TuSet
<1>2. Live(tu) = {} /\ IsInjective(tu.list)
  BY <1>1 DEF Live, ToSet, IsInjective
<1>3. Dispatched(tu)
  BY <1>1, <1>2, TuConstants DEF Dispatched
<1>4. Ranked(tu) /\ Calm(tu) /\ EndOnce(tu)
  BY <1>1, <1>2 DEF Ranked, Calm, EndOnce
<1>5. IdsOnce(tu)
  <2>1. \A i, k \in Nat : EndsAt(<<>>, i) = {}
    BY DEF EndsAt
  <2> QED  BY <2>1, <1>1, TuConstants DEF IdsOnce
<1> QED  BY <1>1, <1>2, <1>3, <1>4, <1>5 DEF TuSound

\* Connecting to the dispatcher again, whose new connection comes to the head of the list.
LEMMA TimerKeeps == TuInv /\ TuTimer => TuInv'
<1> SUFFICES ASSUME TuSound(tu), Calm(tu), TuTimer PROVE TuSound(tu') /\ Calm(tu')
  BY DEF TuInv
<1>0. tu \in TuSet /\ tu.disp = 0
  BY DEF TuSound, Dispatched, TuTimer
<1>1. CASE tu' = [tu EXCEPT !.hold = FALSE]
  <2>1. /\ tu' \in TuSet /\ tu'.list = tu.list /\ tu'.marked = tu.marked /\ tu'.disp = tu.disp /\ tu'.dials = tu.dials
        /\ tu'.open = tu.open /\ tu'.fresh = tu.fresh /\ tu'.last = tu.last /\ tu'.timer = tu.timer
        /\ tu'.on = tu.on /\ tu'.clash = tu.clash /\ tu'.frames = tu.frames
    BY <1>0, <1>1 DEF TuSet
  <2> QED  BY <2>1 DEF TuSound, Calm, Dispatched, Ranked, IdsOnce, EndOnce, Live
<1>2. ASSUME tu.dials < TuDials, NEW d, d = tu.dials + 1,
             tu' = [tu EXCEPT !.timer = FALSE, !.dials = @ + 1, !.disp = d, !.fresh = TRUE, !.list = <<<<"d", d>>>> \o @]
      PROVE  TuSound(tu') /\ Calm(tu')
  <2> DEFINE c == <<"d", d>>
             l == Pushed(c, tu.list)
  <2>1. d \in 1..TuDials /\ c \in TuConns /\ d # 0 /\ tu.dials \in Nat
    BY <1>0, <1>2, TuConstants, ConnsDiffer DEF TuSet
  <2>2. tu.list \in Seq(TuConns) /\ IsInjective(tu.list) /\ c \notin ToSet(tu.list)
    BY <1>0, <2>1 DEF TuSound, TuSet, Dispatched, Live
  <2>3. l \in Seq(TuConns) /\ IsInjective(l) /\ ToSet(l) = ToSet(tu.list) \cup {c}
    <3> HIDE DEF c
    <3> QED  BY <2>1, <2>2, AtHead
  <2> HIDE DEF l
  <2>4. /\ tu' \in TuSet /\ tu'.list = l /\ tu'.marked = tu.marked /\ tu'.disp = d /\ tu'.dials = d
        /\ tu'.open = tu.open /\ tu'.fresh = TRUE /\ tu'.last = tu.last /\ tu'.timer = FALSE
        /\ tu'.on = tu.on /\ tu'.clash = tu.clash /\ tu'.frames = tu.frames
    <3>1. tu' = [tu EXCEPT !.timer = FALSE, !.dials = d, !.disp = d, !.fresh = TRUE, !.list = l]
      BY <1>2 DEF l, Pushed
    <3>2. d \in 0..TuDials
      BY <2>1
    <3> QED  BY <1>0, <3>1, <3>2, <2>3 DEF TuSet
  <2>5. Live(tu') = Live(tu) \cup {c}
    BY <2>3, <2>4 DEF Live
  <2>6. \A j : (j # d => (<<"d", j>> \in Live(tu') <=> <<"d", j>> \in Live(tu))) /\ (<<"s", j>> \in Live(tu') <=> <<"s", j>> \in Live(tu))
    BY <2>5, ConnsDiffer
  <2>7. Dispatched(tu')
    <3>1. ~tu.open /\ <<"d", d>> \notin tu.marked
      BY <1>0, <2>2 DEF TuSound, Dispatched, Live
    <3>2. ASSUME NEW k \in 1..TuDials PROVE <<"d", k>> \in Live(tu') <=> k = d
      BY <1>0, <2>5, <2>6, TuConstants DEF TuSound, Dispatched
    <3> QED  BY <3>1, <3>2, <2>1, <2>4 DEF Dispatched
  <2>8. \A i \in TuIds : tu.on[i] # d /\ tu.on[i] <= tu.dials /\ tu.on[i] \in Nat
    BY <1>0, <1>2, <2>1, TuConstants DEF TuSound, IdsOnce, TuSet
  <2>9. Ranked(tu')
    BY <1>0, <2>4, <2>6, <2>8 DEF TuSound, Ranked
  <2>10. IdsOnce(tu')
    <3>1. \A i \in TuIds : tu.on[i] <= d
      BY <1>2, <2>1, <2>8
    <3> QED  BY <3>1, <2>4 DEF TuSound, IdsOnce
  <2>11. EndOnce(tu') /\ Calm(tu')
    BY <2>4, <2>8 DEF EndOnce, Calm
  <2>12. IsInjective(tu'.list) /\ tu'.marked \subseteq Live(tu') /\ ~tu'.clash
    BY <2>3, <2>4, <2>5 DEF TuSound
  <2> QED  BY <2>4, <2>7, <2>9, <2>10, <2>11, <2>12 DEF TuSound
<1> QED  BY <1>1, <1>2 DEF TuTimer

\* The application holds the reconnection back: nothing the invariant speaks of changes.
LEMMA HoldKeeps == TuInv /\ TuHold => TuInv'
<1> SUFFICES ASSUME TuSound(tu), Calm(tu), TuHold PROVE TuSound(tu') /\ Calm(tu')
  BY DEF TuInv
<1>0. tu \in TuSet
  BY DEF TuSound
<1>1. /\ tu' \in TuSet /\ tu'.list = tu.list /\ tu'.marked = tu.marked /\ tu'.disp = tu.disp /\ tu'.dials = tu.dials
      /\ tu'.open = tu.open /\ tu'.fresh = tu.fresh /\ tu'.last = tu.last /\ tu'.timer = tu.timer
      /\ tu'.on = tu.on /\ tu'.clash = tu.clash /\ tu'.frames = tu.frames
  BY <1>0 DEF TuSet, TuHold
<1> QED  BY <1>1 DEF TuSound, Calm, Dispatched, Ranked, IdsOnce, EndOnce, Live

\* The dispatcher accepts, or its connection is marked to be closed.
LEMMA DispatcherKeeps == TuInv /\ TuDispatcher => TuInv'
<1> SUFFICES ASSUME TuSound(tu), Calm(tu), TuDispatcher PROVE TuSound(tu') /\ Calm(tu')
  BY DEF TuInv
<1>0. tu \in TuSet /\ tu.disp # 0 /\ ~tu.fresh /\ tu.disp \in 1..TuDials
  BY TuConstants DEF TuSound, TuSet, TuDispatcher
<1>1. CASE tu' = [tu EXCEPT !.open = TRUE]
  <2>1. /\ tu' \in TuSet /\ tu'.list = tu.list /\ tu'.marked = tu.marked /\ tu'.disp = tu.disp /\ tu'.dials = tu.dials
        /\ tu'.open = TRUE /\ tu'.fresh = tu.fresh /\ tu'.last = tu.last /\ tu'.timer = tu.timer
        /\ tu'.on = tu.on /\ tu'.clash = tu.clash /\ tu'.frames = tu.frames
    BY <1>0, <1>1 DEF TuSet
  <2> QED  BY <2>1, <1>0 DEF TuSound, Calm, Dispatched, Ranked, IdsOnce, EndOnce, Live
<1>2. CASE tu' = [tu EXCEPT !.marked = @ \cup {<<"d", tu.disp>>}]
  <2>1. <<"d", tu.disp>> \in Live(tu)
    BY <1>0 DEF TuSound, Dispatched
  <2> QED  BY <2>1, <1>0, <1>2, ConnMarked
<1> QED  BY <1>1, <1>2 DEF TuDispatcher

\* A stream sends, or its connection is marked.
LEMMA StreamKeeps == TuInv /\ TuStream => TuInv'
<1> SUFFICES ASSUME TuSound(tu), Calm(tu), NEW i \in TuIds, <<"s", i>> \in Live(tu),
                    \/ tu' = Emit(tu, [stream |-> i, end |-> FALSE])
                    \/ tu' = [tu EXCEPT !.marked = @ \cup {<<"s", i>>}]
             PROVE  TuSound(tu') /\ Calm(tu')
  BY DEF TuInv, TuStream, StreamsOf
<1>0. tu \in TuSet
  BY DEF TuSound
<1>1. CASE tu' = Emit(tu, [stream |-> i, end |-> FALSE])
  <2> DEFINE x == [stream |-> i, end |-> FALSE]
  <2>1. x \in TuSent /\ \A j : x # EndFrame(j)
    BY EndFrames
  <2> HIDE DEF x
  <2>2. /\ tu' \in TuSet /\ tu'.list = tu.list /\ tu'.marked = tu.marked /\ tu'.disp = tu.disp /\ tu'.dials = tu.dials
        /\ tu'.open = tu.open /\ tu'.fresh = tu.fresh /\ tu'.last = tu.last /\ tu'.timer = tu.timer
        /\ tu'.on = tu.on /\ tu'.clash = tu.clash
        /\ \A k \in 1..TuDials : tu'.frames[k] = IF k = tu.disp THEN Append(tu.frames[k], x) ELSE tu.frames[k]
    <3>1. tu' = Emit(tu, x)
      BY <1>1 DEF x
    <3> QED  BY <3>1, <2>1, <1>0, Emitted
  <2>3. \A k \in 1..TuDials, j \in TuIds : EndsAt(tu'.frames[k], j) = EndsAt(tu.frames[k], j)
    <3> TAKE k \in 1..TuDials, j \in TuIds
    <3>1. tu.frames[k] \in Seq(TuSent)
      BY <1>0 DEF TuSet
    <3>2. EndsAt(Append(tu.frames[k], x), j) = EndsAt(tu.frames[k], j)
      BY <2>1, <3>1, FrameAdded
    <3> QED  BY <3>2, <2>2
  <2>4. Live(tu') = Live(tu)
    BY <2>2 DEF Live
  <2>5. EndOnce(tu')
    <3>1. tu.disp # 0 => tu.disp \in 1..TuDials
      BY <1>0, TuConstants DEF TuSet
    <3> QED  BY <3>1, <2>2, <2>3, <2>4 DEF TuSound, EndOnce
  <2>6. IdsOnce(tu')
    BY <2>2, <2>3 DEF TuSound, IdsOnce
  <2>7. Dispatched(tu') /\ Ranked(tu') /\ Calm(tu')
    BY <2>2, <2>4 DEF TuSound, Dispatched, Ranked, Calm
  <2>8. IsInjective(tu'.list) /\ tu'.marked \subseteq Live(tu') /\ ~tu'.clash
    BY <2>2, <2>4 DEF TuSound
  <2> QED  BY <2>2, <2>5, <2>6, <2>7, <2>8 DEF TuSound
<1>2. CASE tu' = [tu EXCEPT !.marked = @ \cup {<<"s", i>>}]
  <2>1. <<"s", i>> # <<"d", tu.disp>>
    BY ConnsDiffer
  <2> QED  BY <2>1, <1>2, ConnMarked
<1> QED  BY <1>1, <1>2

\* A frame of the dispatcher opens a stream, closes one at once, or changes nothing.
LEMMA FrameKeeps == TuInv /\ TuFrame => TuInv'
<1> SUFFICES ASSUME TuSound(tu), Calm(tu), TuFrame PROVE TuSound(tu') /\ Calm(tu')
  BY DEF TuInv
<1>1. tu.open
  BY DEF TuFrame
<1>2. PICK i \in TuIds, end \in BOOLEAN :
        LET t == FindConn(tu, i)
        IN  tu' = IF end /\ <<"s", i>> \in Live(t)
                  THEN [CloseStream(t, i) EXCEPT !.clash = @ \/ ComesNext(t.list, <<"d", tu.disp>>, <<"s", i>>)]
                  ELSE t
  BY DEF TuFrame
<1> DEFINE t == FindConn(tu, i)
           u == CloseStream(t, i)
           next == ComesNext(t.list, <<"d", tu.disp>>, <<"s", i>>)
<1>3. TuSound(t) /\ Calm(t) /\ t.disp = tu.disp
  BY <1>1, StreamFound
<1>4. tu' = IF end /\ <<"s", i>> \in Live(t) THEN [u EXCEPT !.clash = @ \/ next] ELSE t
  BY <1>2
<1>5. t.open
  BY <1>1 DEF FindConn, TuSound, TuSet
<1>6. ASSUME <<"s", i>> \in Live(t), tu' = [u EXCEPT !.clash = @ \/ next] PROVE TuSound(tu') /\ Calm(tu')
  <2>1. TuSound(u) /\ u.disp = t.disp /\ u.fresh = t.fresh /\ u.on = t.on /\ Live(u) = Live(t) \ {<<"s", i>>}
    <3> HIDE DEF t
    <3> QED  BY <1>3, <1>6, StreamClosed
  <2>2. ~next
    <3> HIDE DEF t
    <3>1. ~ComesNext(t.list, <<"d", t.disp>>, <<"s", i>>)
      BY <1>3, <1>5, <1>6, NeverNext
    <3> QED  BY <3>1, <1>3
  <2> HIDE DEF next, u, t
  <2>3. u \in TuSet /\ u.clash = FALSE
    BY <2>1 DEF TuSound, TuSet
  <2>4. (u.clash \/ next) = FALSE
    BY <2>2, <2>3, Zenon
  <2>5. tu' = [u EXCEPT !.clash = FALSE]
    BY <2>4, <1>6
  <2>6. tu' = u
    BY <2>3, <2>5 DEF TuSet
  <2>7. Calm(u)
    BY <2>1, <1>3 DEF Calm
  <2> QED  BY <2>1, <2>6, <2>7
<1> HIDE DEF t, u, next
<1> QED  BY <1>3, <1>4, <1>6

-----------------------------------------------------------------------------
\* Where the loop is when it has been at n connections.
Visited(t, f, n) == IF n = 0 THEN [t EXCEPT !.fresh = FALSE] ELSE CloseMarked(f[n - 1], t.list[n])
Visits(t) == CHOOSE at : at = [n \in 0..Len(t.list) |-> Visited(t, at, n)]

\* The round is defined for each connection it comes to: the loop reads only the one before.
LEMMA VisitsIs ==
    ASSUME NEW t, Len(t.list) \in Nat
    PROVE  \A n \in 0..Len(t.list) : Visits(t)[n] = Visited(t, Visits(t), n)
<1> DEFINE Good(n) == \E f : f = [k \in 0..n |-> Visited(t, f, k)]
           T == {n \in Nat : Good(n)}
<1>1. 0 \in T
  <2> DEFINE f == [k \in 0..0 |-> [t EXCEPT !.fresh = FALSE]]
  <2>1. \A k \in 0..0 : Visited(t, f, k) = [t EXCEPT !.fresh = FALSE]
    BY DEF Visited
  <2>2. f = [k \in 0..0 |-> Visited(t, f, k)]
    BY <2>1, Zenon
  <2> QED  BY <2>2
<1>2. ASSUME NEW n \in Nat, Good(n) PROVE Good(n + 1)
  <2>1. PICK f : f = [k \in 0..n |-> Visited(t, f, k)]
    BY <1>2
  <2> DEFINE g == [k \in 0..n + 1 |-> IF k = n + 1 THEN Visited(t, f, k) ELSE f[k]]
  <2>2. \A k \in 0..n : k \in 0..n + 1 /\ k # n + 1 /\ g[k] = f[k]
    OBVIOUS
  <2>3. ASSUME NEW k \in 0..n + 1 PROVE g[k] = Visited(t, g, k)
    <3>1. k = 0 \/ k - 1 \in 0..n
      OBVIOUS
    <3>2. k # 0 => g[k - 1] = f[k - 1]
      BY <3>1, <2>2
    <3>3. Visited(t, g, k) = Visited(t, f, k)
      <4> HIDE DEF g
      <4> QED  BY <3>2 DEF Visited
    <3>4. CASE k = n + 1
      BY <3>3, <3>4
    <3>5. CASE k # n + 1
      <4>1. k \in 0..n
        BY <3>5
      <4>2. f[k] = Visited(t, f, k)
        BY <2>1, <4>1
      <4> QED  BY <4>1, <4>2, <3>3, <2>2
    <3> QED  BY <3>4, <3>5
  <2>4. g = [k \in 0..n + 1 |-> g[k]]
    OBVIOUS
  <2> HIDE DEF g
  <2>5. g = [k \in 0..n + 1 |-> Visited(t, g, k)]
    BY <2>3, <2>4, Zenon
  <2> QED  BY <2>5
<1>3. Good(Len(t.list))
  <2> HIDE DEF Good
  <2>1. \A n \in Nat : n \in T => n + 1 \in T
    BY <1>2
  <2>2. Nat \subseteq T
    <3> HIDE DEF T
    <3> QED  BY <1>1, <2>1, NatSet
  <2> QED  BY <2>2
<1>4. Visits(t) = [n \in 0..Len(t.list) |-> Visited(t, Visits(t), n)]
  BY <1>3, Zenon DEF Visits
<1> QED  BY <1>4

\* The round as the lemmas speak of it is the model's.
LEMMA RoundIs == TuRound => tu' = Visits(tu)[Len(tu.list)]
BY Zenon DEF TuRound, Visits, Visited

\* As far as the loop has come nothing is marked, unless the dispatcher's connection was lost.
LEMMA RoundKeeps == TuInv /\ TuRound => TuInv'
<1> SUFFICES ASSUME TuSound(tu), Calm(tu), TuRound PROVE TuSound(tu') /\ Calm(tu')
  BY DEF TuInv
<1> DEFINE l == tu.list
           at == Visits(tu)
           Behind(t, n) == t.disp # 0 => \A c \in t.marked : \E j \in 1..Len(l) : j > n /\ l[j] = c
           Good(n) == TuSound(at[n]) /\ ~at[n].fresh /\ Behind(at[n], n)
           T == {n \in Nat : n <= Len(l) => Good(n)}
<1>1. tu \in TuSet /\ l \in Seq(TuConns) /\ Len(l) \in Nat /\ DOMAIN l = 1..Len(l) /\ IsInjective(l)
  BY DEF TuSound, TuSet
<1>2. \A n \in 0..Len(l) : at[n] = Visited(tu, at, n)
  BY <1>1, VisitsIs
<1> HIDE DEF at
<1>3. 0 \in T
  <2>1. at[0] = [tu EXCEPT !.fresh = FALSE]
    <3>1. 0 \in 0..Len(l)
      <4> HIDE DEF l
      <4> QED  BY <1>1
    <3>2. at[0] = Visited(tu, at, 0)
      BY <3>1, <1>2
    <3> QED  BY <3>2 DEF Visited
  <2> DEFINE u == at[0]
  <2>2. /\ u \in TuSet /\ u.list = tu.list /\ u.marked = tu.marked /\ u.disp = tu.disp /\ u.dials = tu.dials
        /\ u.open = tu.open /\ u.fresh = FALSE /\ u.last = tu.last /\ u.timer = tu.timer
        /\ u.on = tu.on /\ u.clash = tu.clash /\ u.frames = tu.frames
    BY <1>1, <2>1 DEF TuSet
  <2> HIDE DEF u, l
  <2>3. TuSound(u)
    BY <2>2 DEF TuSound, Dispatched, Ranked, IdsOnce, EndOnce, Live
  <2>4. Behind(u, 0)
    <3> SUFFICES ASSUME NEW c \in u.marked PROVE \E j \in 1..Len(l) : j > 0 /\ l[j] = c
      OBVIOUS
    <3>1. c \in ToSet(tu.list)
      BY <2>2 DEF TuSound, Live
    <3>2. PICK j \in DOMAIN l : l[j] = c
      BY <3>1 DEF ToSet, l
    <3> QED  BY <3>2, <1>1
  <2> HIDE DEF Behind
  <2> QED  BY <2>2, <2>3, <2>4 DEF u
<1>4. ASSUME NEW n \in Nat, n + 1 <= Len(l), Good(n) PROVE Good(n + 1)
  <2> DEFINE t == at[n]
             u == at[n + 1]
             c == l[n + 1]
  <2>1. n + 1 \in 1..Len(l) /\ n + 1 \in 0..Len(l) /\ n + 1 # 0 /\ (n + 1) - 1 = n
    BY <1>1, <1>4
  <2>2. u = CloseMarked(t, c)
    BY <1>2, <2>1 DEF Visited
  <2>3. TuSound(t) /\ ~t.fresh /\ Behind(t, n)
    BY <1>4
  <2>4. c \in TuConns
    BY <1>1, <2>1
  <2> HIDE DEF t, u
  <2>5. ASSUME t.disp # 0, NEW b \in t.marked, b # c PROVE \E j \in 1..Len(l) : j > n + 1 /\ l[j] = b
    <3>1. PICK j \in 1..Len(l) : j > n /\ l[j] = b
      BY <2>3, <2>5
    <3>2. j # n + 1
      BY <3>1, <2>5
    <3> HIDE DEF c, l
    <3>3. j > n + 1
      BY <3>1, <3>2, <1>1
    <3> QED  BY <3>1, <3>3
  <2>6. CASE c \notin t.marked
    <3>1. u = t
      BY <2>2, <2>6 DEF CloseMarked
    <3>2. Behind(u, n + 1)
      <4> HIDE DEF c
      <4> QED  BY <3>1, <2>5, <2>6
    <3> HIDE DEF Behind
    <3> QED  BY <3>1, <3>2, <2>3 DEF u
  <2>7. ASSUME c \in t.marked, NEW i \in TuIds, c = <<"s", i>>, u = CloseStream(t, i) PROVE Good(n + 1)
    <3>1. <<"s", i>> \in Live(t)
      <4> HIDE DEF c
      <4> QED  BY <2>3, <2>7 DEF TuSound
    <3>2. TuSound(u) /\ u.disp = t.disp /\ u.fresh = t.fresh /\ u.marked = t.marked \ {<<"s", i>>}
      BY <2>3, <2>7, <3>1, StreamClosed
    <3>3. Behind(u, n + 1)
      <4> HIDE DEF c
      <4> QED  BY <3>2, <2>5, <2>7
    <3> HIDE DEF Behind
    <3> QED  BY <3>2, <3>3, <2>3 DEF u
  <2>8. ASSUME c \in t.marked, NEW k \in 1..TuDials, c = <<"d", k>>, u = LoseDispatcher(t, k) PROVE Good(n + 1)
    <3>1. <<"d", k>> \in t.marked
      <4> HIDE DEF c
      <4> QED  BY <2>8
    <3>2. TuSound(u) /\ u.disp = 0 /\ ~u.fresh
      BY <2>3, <2>8, <3>1, DispatcherLost
    <3> QED  BY <3>2 DEF u
  <2>9. CASE c \in t.marked
    <3> HIDE DEF c, Good
    <3>1. CASE c[1] = "s"
      BY <3>1, <2>2, <2>4, <2>7, <2>9, ConnsDiffer DEF CloseMarked
    <3>2. CASE c[1] # "s"
      BY <3>2, <2>2, <2>4, <2>8, <2>9, ConnsDiffer DEF CloseMarked
    <3> QED  BY <3>1, <3>2
  <2> QED  BY <2>6, <2>9
<1>5. Good(Len(l))
  <2> HIDE DEF Good, l
  <2>1. \A n \in Nat : n \in T => n + 1 \in T
    BY <1>1, <1>4
  <2>2. Nat \subseteq T
    <3> HIDE DEF T
    <3> QED  BY <1>3, <2>1, NatSet
  <2> QED  BY <1>1, <2>2
<1>6. tu' = at[Len(l)]
  BY RoundIs DEF at
<1>7. TuSound(tu') /\ Behind(tu', Len(l))
  BY <1>5, <1>6
<1>8. tu'.disp # 0 => tu'.marked = {}
  <2> HIDE DEF l
  <2> QED  BY <1>1, <1>7
<1>9. Calm(tu')
  <2> HIDE DEF Behind, l
  <2> QED  BY <1>7, <1>8 DEF TuSound, Ranked, Calm
<1> QED  BY <1>7, <1>9
-----------------------------------------------------------------------------
\* The tunnel stays sound, and calm: whatever the dispatcher sends and however often it is lost and comes
\* back, a stream is in front of the connection it was opened on in the list of mg_mgr_poll, or it is marked
\* (mongoose.c:12285-12294, 4388-4415, 3928-3937).
THEOREM TuInvariant == TuSpec => []TuInv
<1>1. TuInit => TuInv
  BY TuInit_Inv
<1>2. TuInv /\ [TuNext]_tuVars => TuInv'
  <2> SUFFICES ASSUME TuInv, [TuNext]_tuVars PROVE TuInv'
    OBVIOUS
  <2>1. CASE UNCHANGED tuVars
    <3>1. tu' = tu
      BY <2>1 DEF tuVars
    <3> QED  BY <3>1 DEF TuInv
  <2> QED  BY <2>1, TimerKeeps, HoldKeeps, DispatcherKeeps, FrameKeeps, StreamKeeps, RoundKeeps DEF TuNext
<1> QED  BY <1>1, <1>2, PTL DEF TuSpec

\* What the invariant says of the streams.
LEMMA TuInvEnds == TuInv => StreamsEnd /\ TuTypeOK
<1> SUFFICES ASSUME TuSound(tu), Calm(tu) PROVE StreamsEnd /\ TuTypeOK
  BY DEF TuInv
<1>1. tu \in TuSet
  BY DEF TuSound
<1>2. StreamsOwned
  BY DEF StreamsOwned, StreamsOf, TuSound, Ranked
<1>3. NotTheNext
  BY DEF NotTheNext, TuSound
<1>4. EndsTold
  <2> SUFFICES ASSUME NEW i \in TuIds, tu.on[i] # 0, tu.on[i] = tu.disp, <<"s", i>> \notin Live(tu)
               PROVE  Cardinality(EndsAt(tu.frames[tu.disp], i)) = 1
    BY DEF EndsTold, StreamsOf, EndsAt
  <2>1. PICK k \in Nat : EndsAt(tu.frames[tu.disp], i) = {k}
    BY DEF TuSound, EndOnce
  <2> QED  BY <2>1, FS_Singleton
<1>5. TuTypeOK
  BY <1>1 DEF TuTypeOK, TuSound, TuSet
<1> QED  BY <1>2, <1>3, <1>4, <1>5 DEF StreamsEnd

\* The tunnel's state has its type: its list holds connections, and a dispatcher that is there is one of those
\* that were dialled (mongoose.c:12366-12435).
THEOREM TunnelTyped == TuSpec => []TuTypeOK
BY TuInvariant, TuInvEnds, PTL

\* No stream outlives its dispatcher by more than a round of the loop, none is the connection the loop has taken
\* as the next one when it is freed, and each that is gone has told the dispatcher so once (mongoose.c:4309-4352,
\* 12285-12378, 3928-3937).
THEOREM StreamsEndHolds == TuSpec => []StreamsEnd
BY TuInvariant, TuInvEnds, PTL

-----------------------------------------------------------------------------
(***************************************************************************)
(* An MQTT broker: for any clients and packets, however these are cut.     *)
(***************************************************************************)
\* A topic expression with a # nowhere but at its end.
IsFilter(t) == t \in Seq(STRING) /\ (Contains(t, "#") => Last(t) = "#")

\* Which packets there are, by their command.
LEMMA PacketIs ==
    ASSUME NEW p \in MqPackets
    PROVE  \/ p.cmd = "connect" /\ p = Conn
           \/ p.cmd = "pingreq" /\ p # Conn
           \/ p.cmd = "malformed" /\ p # Conn
           \/ p.cmd = "publish" /\ p # Conn /\ p.topic \in Seq(STRING)
           \/ /\ p.cmd = "subscribe" /\ p # Conn /\ p.topics \in Seq(Seq(STRING)) /\ p.whole \in BOOLEAN
              /\ p.whole \/ p.topics # <<>>
              /\ \A t \in ToSet(p.topics) : IsFilter(t)
<1>1. CASE p \in {Conn, PingReq, BadPacket}
  <2>1. Conn.cmd = "connect" /\ PingReq.cmd = "pingreq" /\ BadPacket.cmd = "malformed"
    BY DEF Conn, PingReq, BadPacket
  <2> QED  BY <2>1, <1>1
<1>2. CASE p \in [cmd : {"publish"}, topic : Seq(STRING), data : Nat]
  BY <1>2 DEF Conn
<1>3. CASE p \in [cmd : {"subscribe"}, topics : Seq(Seq(STRING)), whole : BOOLEAN]
           /\ (p.whole \/ p.topics # <<>>)
           /\ \A t \in ToSet(p.topics) : Contains(t, "#") => Last(t) = "#"
  <2>1. \A t \in ToSet(p.topics) : t \in Seq(STRING)
    BY <1>3 DEF ToSet
  <2>2. p.cmd = "subscribe" /\ p.topics \in Seq(Seq(STRING)) /\ p.whole \in BOOLEAN
    BY <1>3
  <2>3. p # Conn
    BY <2>2 DEF Conn
  <2> QED  BY <2>1, <2>2, <2>3, <1>3 DEF IsFilter
<1> QED  BY <1>1, <1>2, <1>3 DEF MqPackets

\* What the broker takes for a match is one.
LEMMA MatchIs ==
    ASSUME NEW t, IsFilter(t), NEW topic \in Seq(STRING)
    PROVE  MatchTopic(t, topic) <=> Covers(t, topic)
<1>0. t \in Seq(STRING) /\ Len(t) \in Nat /\ Len(topic) \in Nat
  BY DEF IsFilter
<1>1. CASE ~Contains(t, "#")
  <2>1. t # <<>> => Last(t) # "#"
    <3> SUFFICES ASSUME t # <<>> PROVE Last(t) # "#"
      OBVIOUS
    <3>1. Len(t) \in 1..Len(t)
      BY <1>0, EmptySeq
    <3> QED  BY <3>1, <1>1 DEF Contains, Last
  <2>2. MatchTopic(t, topic) <=> Len(topic) = Len(t) /\ SubSeq(topic, 1, Len(t)) = t
    BY <1>1 DEF MatchTopic
  <2>3. Len(topic) = Len(t) => SubSeq(topic, 1, Len(t)) = topic
    BY <1>0
  <2>4. MatchTopic(t, topic) <=> topic = t
    BY <2>2, <2>3
  <2> QED  BY <2>1, <2>4 DEF Covers
<1>2. CASE Contains(t, "#")
  <2>1. t # <<>> /\ Last(t) = "#" /\ Len(t) > 0
    <3>1. Len(t) > 0
      BY <1>0, <1>2 DEF Contains
    <3> QED  BY <3>1, <1>2, EmptySeq DEF IsFilter
  <2> DEFINE e == Front(t)
  <2>2. e \in Seq(STRING) /\ Len(e) = Len(t) - 1 /\ e # t
    <3>1. Len(t) - 1 \in Nat /\ Len(t) - 1 <= Len(t) /\ Len(t) - 1 # Len(t)
      BY <1>0, <2>1
    <3>2. e = SubSeq(t, 1, Len(t) - 1)
      BY DEF Front
    <3>3. e \in Seq(STRING) /\ Len(e) = Len(t) - 1
      <4> DEFINE n == Len(t) - 1
      <4>1. n \in Nat /\ 1 \in Int /\ \A i \in 1..n : t[i] \in STRING
        BY <1>0, <3>1
      <4> HIDE DEF n
      <4>2. SubSeq(t, 1, n) \in Seq(STRING) /\ Len(SubSeq(t, 1, n)) = IF 1 <= n THEN n - 1 + 1 ELSE 0
        BY <4>1, SubSeqProperties
      <4>3. Len(SubSeq(t, 1, n)) = n
        BY <4>1, <4>2
      <4> HIDE DEF e
      <4> QED  BY <3>2, <4>2, <4>3 DEF n
    <3> QED  BY <3>1, <3>3
  <2>3. MatchTopic(t, topic) <=> Len(topic) > Len(e) /\ SubSeq(topic, 1, Len(e)) = e
    BY <1>2, <2>2 DEF MatchTopic
  <2>4. SubSeq(e, 1, Len(e)) = e
    <3> HIDE DEF e
    <3> QED  BY <2>2
  <2>5. IsPrefix(e, topic) <=> Len(e) <= Len(topic) /\ SubSeq(topic, 1, Len(e)) = e
    BY <2>4 DEF IsPrefix
  <2>6. Len(topic) >= Len(t) <=> Len(topic) > Len(e)
    BY <1>0, <2>2
  <2>7. t = topic => IsPrefix(e, topic) /\ Len(topic) >= Len(t)
    <3>1. t = topic => SubSeq(topic, 1, Len(e)) = e
      BY <2>2 DEF Front
    <3> QED  BY <3>1, <2>5, <2>2, <1>0
  <2>8. Len(topic) > Len(e) => Len(e) <= Len(topic)
    BY <1>0, <2>2
  <2> HIDE DEF e
  <2>9. Covers(t, topic) <=> t = topic \/ (Len(topic) >= Len(t) /\ IsPrefix(e, topic))
    BY <2>1 DEF Covers, e
  <2> QED  BY <2>3, <2>5, <2>6, <2>7, <2>8, <2>9
<1> QED  BY <1>1, <1>2

-----------------------------------------------------------------------------
\* What the values of the broker's state are.
MqEntry == [client : MqClients, packet : MqPackets]
MqOut == {"connack", "suback"} \cup MqPackets
MqStates == {"open", "closing", "gone"}

MqSet == [plan : [MqClients -> MqPlans], sent : [MqClients -> Nat], done : [MqClients -> Nat],
          state : [MqClients -> MqStates], sessions : Seq(MqClients),
          subs : [MqClients -> Seq(Seq(STRING))], out : [MqClients -> Seq(MqOut)], log : Seq(MqEntry)]

\* What a client has asked for, as the history of the packets handled has it.
HasJoined(log, c) == \E j \in DOMAIN log : log[j] = [client |-> c, packet |-> Conn]
HasAsked(log, c, t) == \E j \in DOMAIN log : Said(log, j, c, "subscribe") /\ t \in ToSet(log[j].packet.topics)
DueOf(log, c) == FlattenSeq([k \in DOMAIN log |-> DueFor(log, c, k)])

\* A client in good standing has what it asked for, kept as it was asked.
InStanding(b, c) ==
    /\ \A t : t \in ToSet(b.subs[c]) <=> HasAsked(b.log, c, t)
    /\ b.subs[c] # <<>> => c \in ToSet(b.sessions)
    /\ b.out[c] = DueOf(b.log, c)

\* The broker between two packets.
MqSound(b) ==
    /\ b \in MqSet /\ IsInjective(b.sessions)
    /\ \A c \in MqClients :
        /\ c \in ToSet(b.sessions) <=> b.state[c] # "gone" /\ HasJoined(b.log, c)
        /\ \A k \in DOMAIN b.subs[c] : IsFilter(b.subs[c][k])
        /\ Len(b.subs[c]) <= MqMaxSubs
        /\ b.state[c] = "open" => InStanding(b, c)

\* How far a client is in what it sends.
MqPlace(b) ==
    \A c \in MqClients : b.sent[c] <= 2 * Len(b.plan[c]) /\ 2 * b.done[c] <= b.sent[c]

MqInv == MqSound(mq) /\ MqPlace(mq)

\* What one more packet adds to what was handled.
Handled(log, c, p) == Append(log, [client |-> c, packet |-> p])

\* What one more packet changes of what clients have asked for.
LEMMA LogMore ==
    ASSUME NEW log \in Seq(MqEntry), NEW c \in MqClients, NEW p \in MqPackets
    PROVE  /\ Handled(log, c, p) \in Seq(MqEntry)
           /\ \A d : HasJoined(Handled(log, c, p), d) <=> HasJoined(log, d) \/ (d = c /\ p = Conn)
           /\ \A d, t : HasAsked(Handled(log, c, p), d, t) <=>
                            HasAsked(log, d, t) \/ (d = c /\ p.cmd = "subscribe" /\ t \in ToSet(p.topics))
<1> SUFFICES ASSUME NEW more, more = Append(log, [client |-> c, packet |-> p])
    PROVE  /\ more \in Seq(MqEntry)
           /\ \A d : HasJoined(more, d) <=> HasJoined(log, d) \/ (d = c /\ p = Conn)
           /\ \A d, t : HasAsked(more, d, t) <=> HasAsked(log, d, t) \/ (d = c /\ p.cmd = "subscribe" /\ t \in ToSet(p.topics))
  BY DEF Handled
<1> DEFINE e == [client |-> c, packet |-> p]
<1>1. e \in MqEntry /\ e.client = c /\ e.packet = p
  BY DEF MqEntry
<1> HIDE DEF e
<1>2. /\ more \in Seq(MqEntry) /\ Len(log) \in Nat /\ DOMAIN log = 1..Len(log) /\ DOMAIN more = 1..Len(log) + 1
      /\ more[Len(log) + 1] = e /\ \A k \in 1..Len(log) : more[k] = log[k]
  BY <1>1, AppendProperties DEF e
<1>3. \A k : k \in DOMAIN more <=> k \in DOMAIN log \/ k = Len(log) + 1
  BY <1>2
<1>4. \A d : [client |-> d, packet |-> Conn] = e <=> d = c /\ p = Conn
  BY DEF e
<1>5. ASSUME NEW d PROVE HasJoined(more, d) <=> HasJoined(log, d) \/ (d = c /\ p = Conn)
  BY <1>2, <1>3, <1>4 DEF HasJoined
<1>6. ASSUME NEW d, NEW t
      PROVE HasAsked(more, d, t) <=> HasAsked(log, d, t) \/ (d = c /\ p.cmd = "subscribe" /\ t \in ToSet(p.topics))
  BY <1>1, <1>2, <1>3 DEF HasAsked, Said
<1> QED  BY <1>2, <1>5, <1>6

\* What is due for the packets before does not depend on those after.
LEMMA DueMore ==
    ASSUME NEW log \in Seq(MqEntry), NEW c \in MqClients, NEW p \in MqPackets,
           NEW d \in MqClients
    PROVE  /\ DueOf(Handled(log, c, p), d) = DueOf(log, d) \o DueFor(Handled(log, c, p), d, Len(log) + 1)
           /\ DueOf(log, d) \in Seq(MqOut)
<1> SUFFICES ASSUME NEW more, more = Append(log, [client |-> c, packet |-> p])
             PROVE  /\ DueOf(more, d) = DueOf(log, d) \o DueFor(more, d, Len(log) + 1)
                    /\ DueOf(log, d) \in Seq(MqOut)
  BY DEF Handled
<1> DEFINE n == Len(log)
           w == [k \in 1..n + 1 |-> DueFor(more, d, k)]
<1>1. /\ more \in Seq(MqEntry) /\ n \in Nat /\ DOMAIN log = 1..n /\ DOMAIN more = 1..n + 1
      /\ \A k \in 1..n : more[k] = log[k]
  <2>1. [client |-> c, packet |-> p] \in MqEntry
    BY DEF MqEntry
  <2> QED  BY <2>1, AppendProperties
<1>2. ASSUME NEW k \in 1..n PROVE DueFor(more, d, k) = DueFor(log, d, k)
  <2>1. \A j \in 1..k : more[j] = log[j]
    BY <1>1
  <2>2. more[k] = log[k]
    BY <1>1
  <2> QED  BY <2>1, <2>2 DEF DueFor, Said
<1>3. ASSUME NEW k \in 1..n + 1 PROVE DueFor(more, d, k) \in Seq(MqOut)
  <2>1. more[k].packet \in MqPackets
    <3>1. more[k] \in MqEntry
      BY <1>1
    <3> QED  BY <3>1 DEF MqEntry
  <2> DEFINE x == more[k].packet
  <2>2. "connack" \in MqOut /\ "suback" \in MqOut /\ x \in MqOut
    BY <2>1 DEF MqOut
  <2>3. DueFor(more, d, k) \in {<<"connack">>, <<"suback">>, <<x>>, <<>>}
    BY DEF DueFor
  <2> HIDE DEF x
  <2>4. <<"connack">> \in Seq(MqOut) /\ <<"suback">> \in Seq(MqOut)
    BY <2>2
  <2>5. <<x>> \in Seq(MqOut)
    BY <2>2
  <2>6. <<>> \in Seq(MqOut)
    OBVIOUS
  <2> HIDE DEF n, w
  <2> QED  BY <2>3, <2>4, <2>5, <2>6
<1>4. \A k \in 1..n + 1 : w[k] \in Seq(MqOut)
  BY <1>3
<1>5. DueOf(more, d) = FlattenSeq([k \in 1..n + 1 |-> w[k]])
  <2>1. [k \in DOMAIN more |-> DueFor(more, d, k)] = [k \in 1..n + 1 |-> w[k]]
    BY <1>1
  <2> QED  BY <2>1 DEF DueOf
<1>6. DueOf(log, d) = FlattenSeq([k \in 1..n |-> w[k]])
  <2>1. \A k \in 1..n : k \in 1..n + 1 /\ w[k] = DueFor(log, d, k)
    BY <1>1, <1>2
  <2>2. [k \in DOMAIN log |-> DueFor(log, d, k)] = [k \in 1..n |-> w[k]]
    BY <1>1, <2>1
  <2> QED  BY <2>2 DEF DueOf
<1>7. w[n + 1] = DueFor(more, d, n + 1)
  BY <1>1
<1> HIDE DEF w, n
<1>8. /\ FlattenSeq([k \in 1..n + 1 |-> w[k]]) = FlattenSeq([k \in 1..n |-> w[k]]) \o w[n + 1]
      /\ FlattenSeq([k \in 1..n |-> w[k]]) \in Seq(MqOut)
  BY <1>1, <1>4, FlattenMore
<1> QED  BY <1>5, <1>6, <1>7, <1>8 DEF n

\* What the packet handled last has for a client is decided by the history before it.
LEMMA AnswerIs ==
    ASSUME NEW log \in Seq(MqEntry), NEW c \in MqClients, NEW p \in MqPackets,
           NEW d \in MqClients
    PROVE  DueFor(Handled(log, c, p), d, Len(log) + 1) =
             IF d = c /\ p.cmd = "connect" THEN <<"connack">>
             ELSE IF d = c /\ p.cmd = "subscribe" THEN <<"suback">>
             ELSE IF p.cmd = "publish" /\ HasJoined(log, c) /\ \E t : HasAsked(log, d, t) /\ Covers(t, p.topic) THEN <<p>>
             ELSE <<>>
<1> DEFINE more == Handled(log, c, p)
           n == Len(log)
           joined == \E j \in 1..n + 1 : more[j] = [client |-> more[n + 1].client, packet |-> Conn]
           asked == \E j \in 1..n + 1 : /\ Said(more, j, d, "subscribe")
                                       /\ \E t \in ToSet(more[j].packet.topics) : Covers(t, p.topic)
<1>1. /\ more \in Seq(MqEntry) /\ n \in Nat /\ DOMAIN more = 1..n + 1 
      /\ more[n + 1] = [client |-> c, packet |-> p]
  <2>1. [client |-> c, packet |-> p] \in MqEntry
    BY DEF MqEntry
  <2> QED  BY <2>1, AppendProperties DEF Handled
<1>2. more[n + 1].client = c /\ more[n + 1].packet = p
  BY <1>1
<1>3. DueFor(more, d, n + 1) =
             IF d = c /\ p.cmd = "connect" THEN <<"connack">>
             ELSE IF d = c /\ p.cmd = "subscribe" THEN <<"suback">>
             ELSE IF p.cmd = "publish" /\ joined /\ asked THEN <<p>> ELSE <<>>
  <2> HIDE DEF n
  <2> QED  BY <1>2 DEF DueFor, Said
<1>4. joined <=> HasJoined(more, c)
  BY <1>1, <1>2 DEF HasJoined
<1>5. asked <=> \E t : HasAsked(more, d, t) /\ Covers(t, p.topic)
  BY <1>1 DEF HasAsked
<1>6. p.cmd = "publish" => p # Conn /\ p.cmd # "subscribe"
  BY DEF Conn
<1>7. /\ \A x : HasJoined(more, x) <=> HasJoined(log, x) \/ (x = c /\ p = Conn)
      /\ \A x, t : HasAsked(more, x, t) <=> HasAsked(log, x, t) \/ (x = c /\ p.cmd = "subscribe" /\ t \in ToSet(p.topics))
  BY LogMore
<1> HIDE DEF more, n, joined, asked
<1>8. p.cmd = "publish" => (joined <=> HasJoined(log, c)) /\ (asked <=> \E t : HasAsked(log, d, t) /\ Covers(t, p.topic))
  BY <1>4, <1>5, <1>6, <1>7
<1> QED  BY <1>3, <1>8 DEF n, more

-----------------------------------------------------------------------------
\* b became u by a packet p of c's: what does not depend on the kind of the packet.
Stepped(b, c, p, u) ==
    /\ u \in MqSet /\ u.plan = b.plan /\ u.sent = b.sent /\ u.done = b.done
    /\ u.log = Handled(b.log, c, p)
    /\ \A d \in MqClients : d # c => u.state[d] = b.state[d] /\ u.subs[d] = b.subs[d]

\* What the proofs use of the broker's constants.
LEMMA MqConstants == MqPlans \subseteq Seq(MqPackets) /\ MqMaxSubs \in Nat
BY MqAssumption DEF MqAssumption

\* The others are in good standing still, when they are sent what the packet has for them.
LEMMA OthersStand ==
    ASSUME NEW b, MqSound(b), NEW c \in MqClients, NEW p \in MqPackets, NEW u, Stepped(b, c, p, u),
           NEW d \in MqClients, d # c, b.state[d] = "open",
           \A x \in ToSet(b.sessions) : x \in ToSet(u.sessions),
           u.out[d] = b.out[d] \o DueFor(u.log, d, Len(b.log) + 1)
    PROVE  InStanding(u, d)
<1>1. b.log \in Seq(MqEntry) /\ InStanding(b, d) /\ u.log = Handled(b.log, c, p) /\ u.subs[d] = b.subs[d]
  BY DEF MqSound, MqSet, Stepped
<1>2. \A t : HasAsked(u.log, d, t) <=> HasAsked(b.log, d, t)
  BY <1>1, LogMore
<1>3. u.out[d] = DueOf(u.log, d)
  BY <1>1, DueMore DEF InStanding
<1> QED  BY <1>1, <1>2, <1>3 DEF InStanding

\* A client a packet has nothing for is sent nothing.
LEMMA NoAnswer == ASSUME NEW b, MqSound(b), NEW d \in MqClients PROVE b.out[d] \o <<>> = b.out[d]
<1>1. b.out[d] \in Seq(MqOut)
  BY DEF MqSound, MqSet
<1> QED  BY <1>1, ConcatEmptySeq

\* What closing a connection changes.
LEMMA MarkedClosing ==
    ASSUME NEW b \in MqSet, NEW c \in MqClients
    PROVE  LET u == CloseClient(b, c)
           IN  /\ u \in MqSet /\ u.plan = b.plan /\ u.sent = b.sent /\ u.done = b.done /\ u.sessions = b.sessions
               /\ u.subs = b.subs /\ u.out = b.out /\ u.log = b.log
               /\ \A d \in MqClients : u.state[d] = IF d = c THEN "closing" ELSE b.state[d]
<1> DEFINE s == [b.state EXCEPT ![c] = "closing"]
<1>1. s \in [MqClients -> MqStates] /\ \A d \in MqClients : s[d] = IF d = c THEN "closing" ELSE b.state[d]
  BY DEF MqSet, MqStates
<1> HIDE DEF s
<1>2. CloseClient(b, c) = [b EXCEPT !.state = s]
  BY DEF CloseClient, s
<1> QED  BY <1>1, <1>2 DEF MqSet

\* What sending a packet to a client changes.
LEMMA Responded ==
    ASSUME NEW b \in MqSet, NEW c \in MqClients, NEW x \in MqOut
    PROVE  LET u == Respond(b, c, x)
           IN  /\ u \in MqSet /\ u.plan = b.plan /\ u.sent = b.sent /\ u.done = b.done /\ u.sessions = b.sessions
               /\ u.subs = b.subs /\ u.state = b.state /\ u.log = b.log
               /\ \A d \in MqClients : u.out[d] = IF d = c THEN b.out[d] \o <<x>> ELSE b.out[d]
<1> DEFINE o == [b.out EXCEPT ![c] = Append(@, x)]
<1>1. \A d \in MqClients : b.out[d] \in Seq(MqOut)
  BY DEF MqSet
<1>2. Append(b.out[c], x) \in Seq(MqOut) /\ Append(b.out[c], x) = b.out[c] \o <<x>>
  BY <1>1, AppendProperties, AppendIsConcat
<1>3. o \in [MqClients -> Seq(MqOut)] /\ \A d \in MqClients : o[d] = IF d = c THEN b.out[d] \o <<x>> ELSE b.out[d]
  BY <1>1, <1>2 DEF MqSet
<1> HIDE DEF o
<1>4. Respond(b, c, x) = [b EXCEPT !.out = o]
  BY DEF Respond, o
<1> QED  BY <1>3, <1>4 DEF MqSet

\* A packet that was handled, put into the history.
Logged(h, c, p) == [h EXCEPT !.log = Append(@, [client |-> c, packet |-> p])]

\* The history changes and nothing else does.
LEMMA LogKept ==
    ASSUME NEW b \in MqSet, NEW c \in MqClients, NEW p \in MqPackets, NEW h \in MqSet, h.log = b.log
    PROVE  LET u == Logged(h, c, p)
           IN  /\ u \in MqSet /\ u.plan = h.plan /\ u.sent = h.sent /\ u.done = h.done /\ u.sessions = h.sessions
               /\ u.subs = h.subs /\ u.state = h.state /\ u.out = h.out /\ u.log = Handled(b.log, c, p)
<1>1. Handled(b.log, c, p) \in Seq(MqEntry)
  BY LogMore DEF MqSet
<1>2. Logged(h, c, p) = [h EXCEPT !.log = Handled(b.log, c, p)]
  BY DEF Handled, Logged
<1> QED  BY <1>1, <1>2 DEF MqSet

\* A packet that closes the connection has nothing for anybody.
LEMMA ClosedSound ==
    ASSUME NEW b, MqSound(b), NEW c \in MqClients, b.state[c] # "gone", NEW p \in MqPackets, NEW u, Stepped(b, c, p, u),
           u.state[c] = "closing", u.sessions = b.sessions, u.out = b.out,
           p = Conn => HasJoined(b.log, c),
           p.cmd = "publish" => ~HasJoined(b.log, c),
           \A k \in DOMAIN u.subs[c] : IsFilter(u.subs[c][k]), Len(u.subs[c]) <= MqMaxSubs
    PROVE  MqSound(u)
<1>1. b.log \in Seq(MqEntry) /\ u.log = Handled(b.log, c, p) /\ u \in MqSet
  BY DEF MqSound, MqSet, Stepped
<1>2. \A d : HasJoined(u.log, d) <=> HasJoined(b.log, d)
  BY <1>1, LogMore
<1>3. ASSUME NEW d \in MqClients
      PROVE /\ d \in ToSet(u.sessions) <=> u.state[d] # "gone" /\ HasJoined(u.log, d)
            /\ \A k \in DOMAIN u.subs[d] : IsFilter(u.subs[d][k])
            /\ Len(u.subs[d]) <= MqMaxSubs
            /\ u.state[d] = "open" => InStanding(u, d)
  <2>1. CASE d = c
    BY <2>1, <1>2 DEF MqSound
  <2>2. CASE d # c
    <3>1. u.state[d] = b.state[d] /\ u.subs[d] = b.subs[d]
      BY <2>2 DEF Stepped
    <3>2. DueFor(u.log, d, Len(b.log) + 1) = <<>>
      <4>1. DueFor(u.log, d, Len(b.log) + 1) =
              IF p.cmd = "publish" /\ HasJoined(b.log, c) /\ \E t : HasAsked(b.log, d, t) /\ Covers(t, p.topic) THEN <<p>> ELSE <<>>
        BY <1>1, <2>2, AnswerIs
      <4> QED  BY <4>1
    <3>4. u.out[d] = b.out[d] \o DueFor(u.log, d, Len(b.log) + 1)
      BY <3>2, NoAnswer
    <3>3. u.state[d] = "open" => InStanding(u, d)
      BY <2>2, <3>1, <3>4, OthersStand
    <3> QED  BY <3>1, <3>3, <1>2 DEF MqSound
  <2> QED  BY <2>1, <2>2
<1> QED  BY <1>1, <1>3 DEF MqSound

\* An answer to a packet of its own.
LEMMA OneStands ==
    ASSUME NEW b, MqSound(b), NEW c \in MqClients, NEW p \in MqPackets, NEW u, Stepped(b, c, p, u),
           b.state[c] = "open",
           u.out[c] = b.out[c] \o DueFor(u.log, c, Len(b.log) + 1),
           \A t : t \in ToSet(u.subs[c]) <=> t \in ToSet(b.subs[c]) \/ (p.cmd = "subscribe" /\ t \in ToSet(p.topics)),
           u.subs[c] # <<>> => c \in ToSet(u.sessions)
    PROVE  InStanding(u, c)
<1>1. b.log \in Seq(MqEntry) /\ InStanding(b, c) /\ u.log = Handled(b.log, c, p)
  BY DEF MqSound, MqSet, Stepped
<1>2. \A t : HasAsked(u.log, c, t) <=> HasAsked(b.log, c, t) \/ (p.cmd = "subscribe" /\ t \in ToSet(p.topics))
  BY <1>1, LogMore
<1>3. u.out[c] = DueOf(u.log, c)
  BY <1>1, DueMore DEF InStanding
<1> QED  BY <1>1, <1>2, <1>3 DEF InStanding

\* A client has a session when it is in the list.
LEMMA SessionIs == ASSUME NEW b, NEW c PROVE HasSession(b, c) <=> c \in ToSet(b.sessions)
BY DEF HasSession, Contains, ToSet

\* CONNECT: a session when there is none yet, and an answer.
LEMMA ConnectSound ==
    ASSUME NEW b, MqSound(b), NEW c \in MqClients, b.state[c] # "gone", NEW u, u = HandleNext(b, c, Conn)
    PROVE  MqSound(u) /\ Stepped(b, c, Conn, u) /\ u.state[c] # "gone"
<1>1. b \in MqSet /\ Conn.cmd = "connect" /\ Conn \in MqPackets /\ b.log \in Seq(MqEntry)
  BY DEF MqSound, Conn, MqPackets, MqSet
<1> DEFINE h == HandleConnect(b, c)
<1>2. u = Logged(h, c, Conn)
  BY <1>1 DEF HandleNext, Handle, Logged
<1>3. HasSession(b, c) <=> HasJoined(b.log, c)
  BY SessionIs DEF MqSound
<1>4. CASE HasSession(b, c)
  <2>1. h = CloseClient(b, c)
    BY <1>4 DEF HandleConnect
  <2> HIDE DEF h
  <2>2. /\ h \in MqSet /\ h.plan = b.plan /\ h.sent = b.sent /\ h.done = b.done /\ h.sessions = b.sessions
        /\ h.subs = b.subs /\ h.out = b.out /\ h.log = b.log
        /\ \A d \in MqClients : h.state[d] = IF d = c THEN "closing" ELSE b.state[d]
    BY <1>1, <2>1, MarkedClosing
  <2>3. /\ u \in MqSet /\ u.plan = h.plan /\ u.sent = h.sent /\ u.done = h.done /\ u.sessions = h.sessions
        /\ u.subs = h.subs /\ u.state = h.state /\ u.out = h.out /\ u.log = Handled(b.log, c, Conn)
    BY <1>1, <1>2, <2>2, LogKept
  <2>4. Stepped(b, c, Conn, u)
    BY <2>2, <2>3 DEF Stepped
  <2>5. MqSound(u)
    <3>1. /\ \A k \in DOMAIN u.subs[c] : IsFilter(u.subs[c][k])
          /\ Len(u.subs[c]) <= MqMaxSubs
      BY <2>2, <2>3 DEF MqSound
    <3> QED  BY <3>1, <2>2, <2>3, <2>4, <1>1, <1>3, <1>4, ClosedSound
  <2> QED  BY <2>2, <2>3, <2>4, <2>5
<1>5. CASE ~HasSession(b, c)
  <2> DEFINE l == Pushed(c, b.sessions)
             g == [b EXCEPT !.sessions = l]
  <2>1. h = Respond(g, c, "connack")
    BY <1>5 DEF HandleConnect, Pushed
  <2>2. l \in Seq(MqClients) /\ IsInjective(l) /\ ToSet(l) = ToSet(b.sessions) \cup {c}
    <3>1. b.sessions \in Seq(MqClients) /\ IsInjective(b.sessions) /\ c \notin ToSet(b.sessions)
      BY <1>5, SessionIs DEF MqSound, MqSet
    <3> QED  BY <3>1, AtHead
  <2> HIDE DEF l
  <2>3. /\ g \in MqSet /\ g.plan = b.plan /\ g.sent = b.sent /\ g.done = b.done /\ g.sessions = l
        /\ g.subs = b.subs /\ g.out = b.out /\ g.log = b.log /\ g.state = b.state
    BY <1>1, <2>2 DEF MqSet
  <2> HIDE DEF g, h
  <2>4. "connack" \in MqOut
    BY DEF MqOut
  <2>5. /\ h \in MqSet /\ h.plan = b.plan /\ h.sent = b.sent /\ h.done = b.done /\ h.sessions = l
        /\ h.subs = b.subs /\ h.state = b.state /\ h.log = b.log
        /\ \A d \in MqClients : h.out[d] = IF d = c THEN b.out[d] \o <<"connack">> ELSE b.out[d]
    BY <2>1, <2>3, <2>4, Responded
  <2>6. /\ u \in MqSet /\ u.plan = h.plan /\ u.sent = h.sent /\ u.done = h.done /\ u.sessions = h.sessions
        /\ u.subs = h.subs /\ u.state = h.state /\ u.out = h.out /\ u.log = Handled(b.log, c, Conn)
    BY <1>1, <1>2, <2>5, LogKept
  <2>7. Stepped(b, c, Conn, u)
    BY <2>5, <2>6 DEF Stepped
  <2>8. \A d : HasJoined(u.log, d) <=> HasJoined(b.log, d) \/ d = c
    BY <1>1, <2>6, LogMore
  <2>9. ToSet(u.sessions) = ToSet(b.sessions) \cup {c}
    BY <2>2, <2>5, <2>6
  <2>10. \A d \in MqClients : DueFor(u.log, d, Len(b.log) + 1) = IF d = c THEN <<"connack">> ELSE <<>>
    <3> TAKE d \in MqClients
    <3>1. DueFor(u.log, d, Len(b.log) + 1) =
             IF d = c /\ Conn.cmd = "connect" THEN <<"connack">>
             ELSE IF d = c /\ Conn.cmd = "subscribe" THEN <<"suback">>
             ELSE IF Conn.cmd = "publish" /\ HasJoined(b.log, c) /\ \E t : HasAsked(b.log, d, t) /\ Covers(t, Conn.topic) THEN <<Conn>>
             ELSE <<>>
      <4> DEFINE p == Conn
      <4>1. p \in MqPackets /\ b.log \in Seq(MqEntry)
        BY <1>1
      <4> HIDE DEF p
      <4>2. DueFor(Handled(b.log, c, p), d, Len(b.log) + 1) =
             IF d = c /\ p.cmd = "connect" THEN <<"connack">>
             ELSE IF d = c /\ p.cmd = "subscribe" THEN <<"suback">>
             ELSE IF p.cmd = "publish" /\ HasJoined(b.log, c) /\ \E t : HasAsked(b.log, d, t) /\ Covers(t, p.topic) THEN <<p>>
             ELSE <<>>
        BY <4>1, AnswerIs
      <4> QED  BY <4>2, <2>6 DEF p
    <3>2. Conn.cmd # "publish" /\ Conn.cmd # "subscribe"
      BY <1>1
    <3> QED  BY <3>1, <3>2, <1>1
  <2>11. ASSUME NEW d \in MqClients
         PROVE /\ d \in ToSet(u.sessions) <=> u.state[d] # "gone" /\ HasJoined(u.log, d)
               /\ \A k \in DOMAIN u.subs[d] : IsFilter(u.subs[d][k])
               /\ Len(u.subs[d]) <= MqMaxSubs
               /\ u.state[d] = "open" => InStanding(u, d)
    <3>1. d \in ToSet(u.sessions) <=> u.state[d] # "gone" /\ HasJoined(u.log, d)
      BY <2>5, <2>6, <2>8, <2>9 DEF MqSound
    <3>2. (\A k \in DOMAIN u.subs[d] : IsFilter(u.subs[d][k])) /\ Len(u.subs[d]) <= MqMaxSubs
      BY <2>5, <2>6 DEF MqSound
    <3>3. ASSUME u.state[d] = "open", d # c PROVE InStanding(u, d)
      <4>1. u.out[d] = b.out[d] \o DueFor(u.log, d, Len(b.log) + 1)
        <5>1. u.out[d] = b.out[d] /\ DueFor(u.log, d, Len(b.log) + 1) = <<>>
          BY <3>3, <2>5, <2>6, <2>10
        <5> QED  BY <5>1, NoAnswer
      <4>2. b.state[d] = "open" /\ \A x \in ToSet(b.sessions) : x \in ToSet(u.sessions)
        BY <3>3, <2>5, <2>6, <2>9
      <4> QED  BY <4>1, <4>2, <3>3, <2>7, <1>1, OthersStand
    <3>4. ASSUME u.state[c] = "open" PROVE InStanding(u, c)
      <4>1. u.out[c] = b.out[c] \o DueFor(u.log, c, Len(b.log) + 1)
        BY <2>5, <2>6, <2>10
      <4>2. b.state[c] = "open" /\ c \in ToSet(u.sessions) /\ u.subs[c] = b.subs[c]
        BY <3>4, <2>5, <2>6, <2>9
      <4> QED  BY <4>1, <4>2, <2>7, <1>1, OneStands
    <3> QED  BY <3>1, <3>2, <3>3, <3>4
  <2>12. MqSound(u)
    BY <2>2, <2>5, <2>6, <2>11 DEF MqSound
  <2> QED  BY <2>5, <2>6, <2>7, <2>12
<1> QED  BY <1>4, <1>5

\* The topics of a SUBSCRIBE after those that were there.
LEMMA TopicsJoined ==
    ASSUME NEW s \in Seq(Seq(STRING)), NEW t \in Seq(Seq(STRING)), NEW n \in Nat, n <= Len(t),
           \A k \in DOMAIN s : IsFilter(s[k]), \A x \in ToSet(t) : IsFilter(x)
    PROVE  LET u == s \o SubSeq(t, 1, n)
           IN  /\ u \in Seq(Seq(STRING)) /\ Len(u) = Len(s) + n
               /\ \A k \in DOMAIN u : IsFilter(u[k])
               /\ n = Len(t) => \A x : x \in ToSet(u) <=> x \in ToSet(s) \/ x \in ToSet(t)
<1> DEFINE v == SubSeq(t, 1, n)
<1>1. v \in Seq(Seq(STRING)) /\ Len(v) = n /\ \A k \in 1..n : v[k] = t[k]
  <2>1. n \in Int /\ 1 \in Int /\ \A k \in 1..n : t[k] \in Seq(STRING)
    OBVIOUS
  <2>2. /\ v \in Seq(Seq(STRING)) /\ Len(v) = IF 1 <= n THEN n - 1 + 1 ELSE 0
        /\ \A k \in 1..n - 1 + 1 : v[k] = t[1 + k - 1]
    BY <2>1, SubSeqProperties
  <2> HIDE DEF v
  <2>3. Len(v) = n
    BY <2>2
  <2>4. \A k \in 1..n : k \in 1..n - 1 + 1 /\ 1 + k - 1 = k
    OBVIOUS
  <2> QED  BY <2>2, <2>3, <2>4
<1> HIDE DEF v
<1> DEFINE u == s \o v
<1>2. /\ u \in Seq(Seq(STRING)) /\ Len(u) = Len(s) + n /\ Len(s) \in Nat
      /\ \A k \in 1..Len(s) : u[k] = s[k]
      /\ \A k \in 1..n : u[Len(s) + k] = t[k]
  <2>1. u \in Seq(Seq(STRING)) /\ Len(u) = Len(s) + n /\ Len(s) \in Nat
    <3>1. u \in Seq(Seq(STRING)) /\ Len(u) = Len(s) + Len(v)
      BY <1>1, ConcatProperties
    <3> HIDE DEF u
    <3> QED  BY <3>1, <1>1
  <2>2. ASSUME NEW k \in 1..Len(s) PROVE u[k] = s[k]
    <3>1. k \in 1..Len(s) + Len(v) /\ k <= Len(s)
      BY <1>1, <2>1
    <3> QED  BY <3>1, <1>1
  <2>3. ASSUME NEW k \in 1..n PROVE u[Len(s) + k] = t[k]
    <3>1. Len(s) + k \in 1..Len(s) + Len(v) /\ Len(s) + k > Len(s) /\ (Len(s) + k) - Len(s) = k
      BY <1>1, <2>1
    <3>2. u[Len(s) + k] = v[(Len(s) + k) - Len(s)]
      <4> DEFINE j == Len(s) + k
      <4>1. j \in 1..Len(s) + Len(v) /\ j > Len(s)
        BY <3>1
      <4> HIDE DEF j
      <4>2. (s \o v)[j] = v[j - Len(s)]
        BY <4>1, <1>1
      <4> QED  BY <4>2 DEF j
    <3> QED  BY <3>1, <3>2, <1>1
  <2> QED  BY <2>1, <2>2, <2>3
<1> HIDE DEF u
<1>3. DOMAIN u = 1..Len(s) + n /\ DOMAIN s = 1..Len(s) /\ DOMAIN t = 1..Len(t) /\ Len(t) \in Nat
  BY <1>2
<1>4. \A k \in 1..Len(s) + n : \/ k \in 1..Len(s) /\ u[k] = s[k]
                               \/ k - Len(s) \in 1..n /\ u[k] = t[k - Len(s)] /\ k - Len(s) \in DOMAIN t
  <2> TAKE k \in 1..Len(s) + n
  <2>1. CASE k <= Len(s)
    BY <2>1, <1>2
  <2>2. CASE ~(k <= Len(s))
    <3>1. k - Len(s) \in 1..n /\ Len(s) + (k - Len(s)) = k /\ k - Len(s) \in 1..Len(t)
      BY <2>2, <1>2, <1>3
    <3>2. u[Len(s) + (k - Len(s))] = t[k - Len(s)]
      BY <3>1, <1>2
    <3> QED  BY <3>1, <3>2, <1>3
  <2> QED  BY <2>1, <2>2
<1>5. \A k \in DOMAIN u : IsFilter(u[k])
  <2> TAKE k \in DOMAIN u
  <2>1. CASE k \in 1..Len(s) /\ u[k] = s[k]
    BY <2>1, <1>3
  <2>2. CASE k - Len(s) \in DOMAIN t /\ u[k] = t[k - Len(s)]
    <3>1. u[k] \in ToSet(t)
      BY <2>2 DEF ToSet
    <3> QED  BY <3>1
  <2> QED  BY <2>1, <2>2, <1>3, <1>4
<1>6. ASSUME n = Len(t), NEW x PROVE x \in ToSet(u) <=> x \in ToSet(s) \/ x \in ToSet(t)
  <2>1. x \in ToSet(u) => x \in ToSet(s) \/ x \in ToSet(t)
    BY <1>3, <1>4 DEF ToSet
  <2>2. x \in ToSet(s) => x \in ToSet(u)
    <3>1. \A k \in 1..Len(s) : k \in 1..Len(s) + n
      BY <1>2
    <3> QED  BY <3>1, <1>2, <1>3 DEF ToSet
  <2>3. x \in ToSet(t) => x \in ToSet(u)
    <3>1. \A k \in 1..n : Len(s) + k \in 1..Len(s) + n
      BY <1>2
    <3> QED  BY <3>1, <1>2, <1>3, <1>6, ZenonT(30) DEF ToSet
  <2> QED  BY <2>1, <2>2, <2>3
<1> QED  BY <1>2, <1>5, <1>6 DEF u, v

\* SUBSCRIBE: the topics are kept as long as there is room, and an answer tells so.
LEMMA SubscribeSound ==
    ASSUME NEW b, MqSound(b), NEW c \in MqClients, b.state[c] # "gone", NEW p \in MqPackets, p.cmd = "subscribe",
           NEW u, u = HandleNext(b, c, p)
    PROVE  MqSound(u) /\ Stepped(b, c, p, u) /\ u.state[c] # "gone"
<1>1. /\ b \in MqSet /\ b.log \in Seq(MqEntry) /\ p # Conn /\ p.cmd # "publish" /\ p.cmd # "connect"
      /\ p.topics \in Seq(Seq(STRING)) /\ p.whole \in BOOLEAN /\ (p.whole \/ p.topics # <<>>)
      /\ \A t \in ToSet(p.topics) : IsFilter(t)
  BY PacketIs DEF MqSound, MqSet
<1> DEFINE h == HandleSubscribe(b, c, p)
           given == Len(p.topics) - (IF p.whole THEN 0 ELSE 1)
           more == b.subs[c] \o SubSeq(p.topics, 1, given)
           s == [b.subs EXCEPT ![c] = more]
           kept == [b EXCEPT !.subs = s]
<1>2. u = Logged(h, c, p)
  BY <1>1 DEF HandleNext, Handle, Logged
<1>3. given \in Nat /\ given <= Len(p.topics) /\ (p.whole => given = Len(p.topics))
  <2>1. Len(p.topics) \in Nat /\ (p.topics # <<>> => Len(p.topics) > 0)
    BY <1>1, EmptySeq
  <2>2. CASE p.whole
    BY <2>1, <2>2
  <2>3. CASE ~p.whole
    BY <2>1, <2>3, <1>1
  <2> QED  BY <2>2, <2>3
<1>4. h = IF ~HasSession(b, c) \/ given > PerPacket \/ Len(b.subs[c]) + given > MqMaxSubs
          THEN CloseClient(b, c)
          ELSE IF p.whole /\ given > 0 THEN Respond(kept, c, "suback") ELSE CloseClient(kept, c)
  BY DEF HandleSubscribe
<1>5. b.subs[c] \in Seq(Seq(STRING)) /\ (\A k \in DOMAIN b.subs[c] : IsFilter(b.subs[c][k])) /\ Len(b.subs[c]) <= MqMaxSubs
  BY <1>1 DEF MqSound, MqSet
<1> HIDE DEF given
<1>6. /\ more \in Seq(Seq(STRING)) /\ Len(more) = Len(b.subs[c]) + given
      /\ \A k \in DOMAIN more : IsFilter(more[k])
      /\ p.whole => \A x : x \in ToSet(more) <=> x \in ToSet(b.subs[c]) \/ x \in ToSet(p.topics)
  BY <1>1, <1>3, <1>5, TopicsJoined
<1> HIDE DEF more
<1>7. s \in [MqClients -> Seq(Seq(STRING))] /\ \A d \in MqClients : s[d] = IF d = c THEN more ELSE b.subs[d]
  BY <1>1, <1>6 DEF MqSet
<1> HIDE DEF s
<1>8. /\ kept \in MqSet /\ kept.plan = b.plan /\ kept.sent = b.sent /\ kept.done = b.done /\ kept.sessions = b.sessions
      /\ kept.subs = s /\ kept.out = b.out /\ kept.log = b.log /\ kept.state = b.state
  BY <1>1, <1>7 DEF MqSet
<1> HIDE DEF kept, h
<1>9. ASSUME NEW g \in MqSet, h = CloseClient(g, c),
             g.plan = b.plan, g.sent = b.sent, g.done = b.done, g.sessions = b.sessions,
             g.out = b.out, g.log = b.log, g.state = b.state,
             \A d \in MqClients : d # c => g.subs[d] = b.subs[d],
             \A k \in DOMAIN g.subs[c] : IsFilter(g.subs[c][k]), Len(g.subs[c]) <= MqMaxSubs
      PROVE  MqSound(u) /\ Stepped(b, c, p, u) /\ u.state[c] # "gone"
  <2>1. /\ h \in MqSet /\ h.plan = g.plan /\ h.sent = g.sent /\ h.done = g.done /\ h.sessions = g.sessions
        /\ h.subs = g.subs /\ h.out = g.out /\ h.log = g.log
        /\ \A d \in MqClients : h.state[d] = IF d = c THEN "closing" ELSE g.state[d]
    BY <1>9, MarkedClosing
  <2>2. /\ u \in MqSet /\ u.plan = h.plan /\ u.sent = h.sent /\ u.done = h.done /\ u.sessions = h.sessions
        /\ u.subs = h.subs /\ u.state = h.state /\ u.out = h.out /\ u.log = Handled(b.log, c, p)
    BY <1>1, <1>2, <1>9, <2>1, LogKept
  <2>3. Stepped(b, c, p, u)
    BY <1>9, <2>1, <2>2 DEF Stepped
  <2>4. /\ u.state[c] = "closing" /\ u.sessions = b.sessions /\ u.out = b.out
        /\ (\A k \in DOMAIN u.subs[c] : IsFilter(u.subs[c][k])) /\ Len(u.subs[c]) <= MqMaxSubs
    BY <1>9, <2>1, <2>2
  <2> QED  BY <2>3, <2>4, <1>1, ClosedSound
<1>10. CASE ~HasSession(b, c) \/ given > PerPacket \/ Len(b.subs[c]) + given > MqMaxSubs
  <2>1. h = CloseClient(b, c)
    BY <1>4, <1>10
  <2> QED  BY <2>1, <1>1, <1>5, <1>9
<1>11. CASE ~(~HasSession(b, c) \/ given > PerPacket \/ Len(b.subs[c]) + given > MqMaxSubs) /\ ~(p.whole /\ given > 0)
  <2>1. h = CloseClient(kept, c)
    BY <1>4, <1>11
  <2>2. Len(more) <= MqMaxSubs
    <3>1. Len(b.subs[c]) \in Nat /\ MqMaxSubs \in Nat
      BY <1>5, MqConstants
    <3> QED  BY <3>1, <1>3, <1>6, <1>11
  <2>3. kept.subs[c] = more /\ \A d \in MqClients : d # c => kept.subs[d] = b.subs[d]
    BY <1>7, <1>8
  <2> QED  BY <2>1, <2>2, <2>3, <1>6, <1>8, <1>9
<1>12. CASE ~(~HasSession(b, c) \/ given > PerPacket \/ Len(b.subs[c]) + given > MqMaxSubs) /\ p.whole /\ given > 0
  <2>1. h = Respond(kept, c, "suback")
    BY <1>4, <1>12
  <2>2. Len(more) <= MqMaxSubs
    <3>1. Len(b.subs[c]) \in Nat /\ MqMaxSubs \in Nat
      BY <1>5, MqConstants
    <3> QED  BY <3>1, <1>3, <1>6, <1>12
  <2>3. "suback" \in MqOut
    BY DEF MqOut
  <2>4. /\ h \in MqSet /\ h.plan = b.plan /\ h.sent = b.sent /\ h.done = b.done /\ h.sessions = b.sessions
        /\ h.subs = s /\ h.state = b.state /\ h.log = b.log
        /\ \A d \in MqClients : h.out[d] = IF d = c THEN b.out[d] \o <<"suback">> ELSE b.out[d]
    BY <2>1, <2>3, <1>8, Responded
  <2>5. /\ u \in MqSet /\ u.plan = h.plan /\ u.sent = h.sent /\ u.done = h.done /\ u.sessions = h.sessions
        /\ u.subs = h.subs /\ u.state = h.state /\ u.out = h.out /\ u.log = Handled(b.log, c, p)
    BY <1>1, <1>2, <2>4, LogKept
  <2>6. Stepped(b, c, p, u)
    BY <2>4, <2>5, <1>7 DEF Stepped
  <2>7. \A d : HasJoined(u.log, d) <=> HasJoined(b.log, d)
    BY <1>1, <2>5, LogMore
  <2>8. \A d \in MqClients : DueFor(u.log, d, Len(b.log) + 1) = IF d = c THEN <<"suback">> ELSE <<>>
    <3> TAKE d \in MqClients
    <3>1. DueFor(u.log, d, Len(b.log) + 1) =
             IF d = c /\ p.cmd = "connect" THEN <<"connack">>
             ELSE IF d = c /\ p.cmd = "subscribe" THEN <<"suback">>
             ELSE IF p.cmd = "publish" /\ HasJoined(b.log, c) /\ \E t : HasAsked(b.log, d, t) /\ Covers(t, p.topic) THEN <<p>>
             ELSE <<>>
      <4>1. b.log \in Seq(MqEntry) /\ u.log = Handled(b.log, c, p)
        BY <1>1, <2>5
      <4>2. DueFor(Handled(b.log, c, p), d, Len(b.log) + 1) =
             IF d = c /\ p.cmd = "connect" THEN <<"connack">>
             ELSE IF d = c /\ p.cmd = "subscribe" THEN <<"suback">>
             ELSE IF p.cmd = "publish" /\ HasJoined(b.log, c) /\ \E t : HasAsked(b.log, d, t) /\ Covers(t, p.topic) THEN <<p>>
             ELSE <<>>
        BY <4>1, AnswerIs
      <4> QED  BY <4>1, <4>2
    <3> QED  BY <3>1, <1>1
  <2>9. c \in ToSet(b.sessions)
    BY <1>12, SessionIs
  <2>10. ASSUME NEW d \in MqClients
         PROVE /\ d \in ToSet(u.sessions) <=> u.state[d] # "gone" /\ HasJoined(u.log, d)
               /\ \A k \in DOMAIN u.subs[d] : IsFilter(u.subs[d][k])
               /\ Len(u.subs[d]) <= MqMaxSubs
               /\ u.state[d] = "open" => InStanding(u, d)
    <3>1. d \in ToSet(u.sessions) <=> u.state[d] # "gone" /\ HasJoined(u.log, d)
      BY <2>4, <2>5, <2>7 DEF MqSound
    <3>2. (\A k \in DOMAIN u.subs[d] : IsFilter(u.subs[d][k])) /\ Len(u.subs[d]) <= MqMaxSubs
      <4>1. CASE d = c
        BY <4>1, <2>2, <2>4, <2>5, <1>6, <1>7
      <4>2. CASE d # c
        BY <4>2, <2>4, <2>5, <1>7 DEF MqSound
      <4> QED  BY <4>1, <4>2
    <3>3. ASSUME u.state[d] = "open", d # c PROVE InStanding(u, d)
      <4>1. u.out[d] = b.out[d] /\ DueFor(u.log, d, Len(b.log) + 1) = <<>>
        BY <3>3, <2>4, <2>5, <2>8
      <4>2. u.out[d] = b.out[d] \o DueFor(u.log, d, Len(b.log) + 1)
        BY <4>1, NoAnswer
      <4>3. b.state[d] = "open" /\ \A x \in ToSet(b.sessions) : x \in ToSet(u.sessions)
        BY <3>3, <2>4, <2>5
      <4> QED  BY <4>2, <4>3, <3>3, <2>6, OthersStand
    <3>4. ASSUME u.state[c] = "open" PROVE InStanding(u, c)
      <4>1. u.out[c] = b.out[c] \o DueFor(u.log, c, Len(b.log) + 1)
        BY <2>4, <2>5, <2>8
      <4>2. b.state[c] = "open" /\ c \in ToSet(u.sessions) /\ u.subs[c] = more
        BY <3>4, <2>4, <2>5, <2>9, <1>7
      <4>3. \A t : t \in ToSet(u.subs[c]) <=> t \in ToSet(b.subs[c]) \/ (p.cmd = "subscribe" /\ t \in ToSet(p.topics))
        BY <4>2, <1>6, <1>12
      <4> QED  BY <4>1, <4>2, <4>3, <2>6, OneStands
    <3> QED  BY <3>1, <3>2, <3>3, <3>4
  <2>11. MqSound(u)
    BY <2>4, <2>5, <2>10 DEF MqSound
  <2> QED  BY <2>4, <2>5, <2>6, <2>11
<1> QED  BY <1>10, <1>11, <1>12

\* PUBLISH: each session with a topic that covers it is sent the message once.
LEMMA PublishSound ==
    ASSUME NEW b, MqSound(b), NEW c \in MqClients, b.state[c] # "gone", NEW p \in MqPackets, p.cmd = "publish",
           NEW u, u = HandleNext(b, c, p)
    PROVE  MqSound(u) /\ Stepped(b, c, p, u) /\ u.state[c] # "gone"
<1>1. /\ b \in MqSet /\ b.log \in Seq(MqEntry) /\ p # Conn /\ p.cmd # "subscribe" /\ p.cmd # "connect"
      /\ p.topic \in Seq(STRING) /\ p \in MqOut
  BY PacketIs DEF MqSound, MqSet, MqOut
<1> DEFINE h == HandlePublish(b, c, p)
           has(d) == HasSession(b, d) /\ \E k \in DOMAIN b.subs[d] : MatchTopic(b.subs[d][k], p.topic)
           o == [d \in MqClients |-> b.out[d] \o IF has(d) THEN <<p>> ELSE <<>>]
<1>2. u = Logged(h, c, p)
  BY <1>1 DEF HandleNext, Handle, Logged
<1>3. h = IF ~HasSession(b, c) THEN CloseClient(b, c) ELSE [b EXCEPT !.out = o]
  BY DEF HandlePublish
<1>4. HasSession(b, c) <=> HasJoined(b.log, c)
  BY SessionIs DEF MqSound
<1>5. CASE ~HasSession(b, c)
  <2>1. h = CloseClient(b, c)
    BY <1>3, <1>5
  <2> HIDE DEF h
  <2>2. /\ h \in MqSet /\ h.plan = b.plan /\ h.sent = b.sent /\ h.done = b.done /\ h.sessions = b.sessions
        /\ h.subs = b.subs /\ h.out = b.out /\ h.log = b.log
        /\ \A d \in MqClients : h.state[d] = IF d = c THEN "closing" ELSE b.state[d]
    BY <1>1, <2>1, MarkedClosing
  <2>3. /\ u \in MqSet /\ u.plan = h.plan /\ u.sent = h.sent /\ u.done = h.done /\ u.sessions = h.sessions
        /\ u.subs = h.subs /\ u.state = h.state /\ u.out = h.out /\ u.log = Handled(b.log, c, p)
    BY <1>1, <1>2, <2>2, LogKept
  <2>4. Stepped(b, c, p, u)
    BY <2>2, <2>3 DEF Stepped
  <2>5. MqSound(u)
    <3>1. /\ \A k \in DOMAIN u.subs[c] : IsFilter(u.subs[c][k])
          /\ Len(u.subs[c]) <= MqMaxSubs
      BY <2>2, <2>3 DEF MqSound
    <3> QED  BY <3>1, <2>2, <2>3, <2>4, <1>1, <1>4, <1>5, ClosedSound
  <2> QED  BY <2>2, <2>3, <2>4, <2>5
<1>6. CASE HasSession(b, c)
  <2>1. h = [b EXCEPT !.out = o]
    BY <1>3, <1>6
  <2>2. o \in [MqClients -> Seq(MqOut)]
    <3> SUFFICES ASSUME NEW d \in MqClients PROVE (b.out[d] \o IF has(d) THEN <<p>> ELSE <<>>) \in Seq(MqOut)
      OBVIOUS
    <3>1. b.out[d] \in Seq(MqOut) /\ <<p>> \in Seq(MqOut) /\ <<>> \in Seq(MqOut)
      BY <1>1 DEF MqSet
    <3> HIDE DEF has
    <3> QED  BY <3>1, ConcatProperties
  <2>3. \A d \in MqClients : o[d] = b.out[d] \o IF has(d) THEN <<p>> ELSE <<>>
    OBVIOUS
  <2> HIDE DEF h, o, has
  <2>4. /\ h \in MqSet /\ h.plan = b.plan /\ h.sent = b.sent /\ h.done = b.done /\ h.sessions = b.sessions
        /\ h.subs = b.subs /\ h.out = o /\ h.log = b.log /\ h.state = b.state
    BY <1>1, <2>1, <2>2 DEF MqSet
  <2>5. /\ u \in MqSet /\ u.plan = h.plan /\ u.sent = h.sent /\ u.done = h.done /\ u.sessions = h.sessions
        /\ u.subs = h.subs /\ u.state = h.state /\ u.out = h.out /\ u.log = Handled(b.log, c, p)
    BY <1>1, <1>2, <2>4, LogKept
  <2>6. Stepped(b, c, p, u)
    BY <2>4, <2>5 DEF Stepped
  <2>7. \A d : HasJoined(u.log, d) <=> HasJoined(b.log, d)
    BY <1>1, <2>5, LogMore
  <2>8. ASSUME NEW d \in MqClients, b.state[d] = "open"
        PROVE u.out[d] = b.out[d] \o DueFor(u.log, d, Len(b.log) + 1)
    <3>1. DueFor(Handled(b.log, c, p), d, Len(b.log) + 1) =
             IF d = c /\ p.cmd = "connect" THEN <<"connack">>
             ELSE IF d = c /\ p.cmd = "subscribe" THEN <<"suback">>
             ELSE IF p.cmd = "publish" /\ HasJoined(b.log, c) /\ \E t : HasAsked(b.log, d, t) /\ Covers(t, p.topic) THEN <<p>>
             ELSE <<>>
      BY <1>1, AnswerIs
    <3>2. has(d) <=> \E t : HasAsked(b.log, d, t) /\ Covers(t, p.topic)
      <4>1. InStanding(b, d) /\ \A k \in DOMAIN b.subs[d] : IsFilter(b.subs[d][k])
        BY <2>8 DEF MqSound
      <4>2. \A k \in DOMAIN b.subs[d] : MatchTopic(b.subs[d][k], p.topic) <=> Covers(b.subs[d][k], p.topic)
        BY <4>1, <1>1, MatchIs
      <4>3. ASSUME NEW k \in DOMAIN b.subs[d], MatchTopic(b.subs[d][k], p.topic)
            PROVE  \E t : HasAsked(b.log, d, t) /\ Covers(t, p.topic)
        <5>1. b.subs[d][k] \in ToSet(b.subs[d])
          BY DEF ToSet
        <5> QED  BY <5>1, <4>1, <4>2, <4>3 DEF InStanding
      <4>4. ASSUME NEW t, HasAsked(b.log, d, t), Covers(t, p.topic) PROVE has(d)
        <5>1. t \in ToSet(b.subs[d])
          BY <4>1, <4>4 DEF InStanding
        <5>2. PICK k \in DOMAIN b.subs[d] : b.subs[d][k] = t
          BY <5>1 DEF ToSet
        <5>3. b.subs[d] # <<>>
          BY <5>2
        <5>4. HasSession(b, d)
          BY <5>3, <4>1, SessionIs DEF InStanding
        <5> QED  BY <5>2, <5>4, <4>2, <4>4 DEF has
      <4> QED  BY <4>3, <4>4 DEF has
    <3>3. u.out[d] = b.out[d] \o IF has(d) THEN <<p>> ELSE <<>>
      BY <2>3, <2>4, <2>5
    <3>4. DueFor(u.log, d, Len(b.log) + 1) = IF has(d) THEN <<p>> ELSE <<>>
      BY <3>1, <3>2, <2>5, <1>1, <1>4, <1>6
    <3> QED  BY <3>3, <3>4
  <2>9. ASSUME NEW d \in MqClients
         PROVE /\ d \in ToSet(u.sessions) <=> u.state[d] # "gone" /\ HasJoined(u.log, d)
               /\ \A k \in DOMAIN u.subs[d] : IsFilter(u.subs[d][k])
               /\ Len(u.subs[d]) <= MqMaxSubs
               /\ u.state[d] = "open" => InStanding(u, d)
    <3>1. /\ d \in ToSet(u.sessions) <=> u.state[d] # "gone" /\ HasJoined(u.log, d)
          /\ (\A k \in DOMAIN u.subs[d] : IsFilter(u.subs[d][k])) /\ Len(u.subs[d]) <= MqMaxSubs
      BY <2>4, <2>5, <2>7 DEF MqSound
    <3>3. ASSUME u.state[d] = "open", d # c PROVE InStanding(u, d)
      <4>1. b.state[d] = "open" /\ \A x \in ToSet(b.sessions) : x \in ToSet(u.sessions)
        BY <3>3, <2>4, <2>5
      <4> QED  BY <4>1, <3>3, <2>6, <2>8, OthersStand
    <3>4. ASSUME u.state[c] = "open" PROVE InStanding(u, c)
      <4>1. b.state[c] = "open" /\ u.sessions = b.sessions /\ u.subs[c] = b.subs[c]
        BY <3>4, <2>4, <2>5
      <4>2. u.subs[c] # <<>> => c \in ToSet(u.sessions)
        BY <4>1 DEF MqSound, InStanding
      <4>3. \A t : t \in ToSet(u.subs[c]) <=> t \in ToSet(b.subs[c]) \/ (p.cmd = "subscribe" /\ t \in ToSet(p.topics))
        BY <4>1, <1>1
      <4> QED  BY <4>1, <4>2, <4>3, <2>6, <2>8, OneStands
    <3> QED  BY <3>1, <3>3, <3>4
  <2>10. MqSound(u)
    BY <2>4, <2>5, <2>9 DEF MqSound
  <2>11. u.state[c] # "gone"
    BY <2>4, <2>5
  <2> QED  BY <2>6, <2>10, <2>11
<1> QED  BY <1>5, <1>6

\* Packets that the broker answers with nothing.
LEMMA OtherSound ==
    ASSUME NEW b, MqSound(b), NEW c \in MqClients, b.state[c] # "gone", NEW p \in MqPackets,
           p.cmd \in {"pingreq", "malformed"}, NEW u, u = HandleNext(b, c, p)
    PROVE  MqSound(u) /\ Stepped(b, c, p, u) /\ u.state[c] # "gone"
<1>1. /\ b \in MqSet /\ b.log \in Seq(MqEntry) /\ p # Conn
      /\ p.cmd # "subscribe" /\ p.cmd # "connect" /\ p.cmd # "publish"
  BY PacketIs DEF MqSound, MqSet
<1>2. u = Logged(b, c, p)
  BY <1>1 DEF HandleNext, Handle, Logged
<1>3. /\ u \in MqSet /\ u.plan = b.plan /\ u.sent = b.sent /\ u.done = b.done /\ u.sessions = b.sessions
      /\ u.subs = b.subs /\ u.state = b.state /\ u.out = b.out /\ u.log = Handled(b.log, c, p)
  BY <1>1, <1>2, LogKept
<1>4. Stepped(b, c, p, u)
  BY <1>3 DEF Stepped
<1>5. \A d : HasJoined(u.log, d) <=> HasJoined(b.log, d)
  BY <1>1, <1>3, LogMore
<1>6. ASSUME NEW d \in MqClients PROVE u.out[d] = b.out[d] \o DueFor(u.log, d, Len(b.log) + 1)
  <2>1. DueFor(Handled(b.log, c, p), d, Len(b.log) + 1) =
             IF d = c /\ p.cmd = "connect" THEN <<"connack">>
             ELSE IF d = c /\ p.cmd = "subscribe" THEN <<"suback">>
             ELSE IF p.cmd = "publish" /\ HasJoined(b.log, c) /\ \E t : HasAsked(b.log, d, t) /\ Covers(t, p.topic) THEN <<p>>
             ELSE <<>>
    BY <1>1, AnswerIs
  <2>2. DueFor(u.log, d, Len(b.log) + 1) = <<>>
    BY <2>1, <1>1, <1>3
  <2> QED  BY <2>2, <1>3, NoAnswer
<1>7. ASSUME NEW d \in MqClients
      PROVE /\ d \in ToSet(u.sessions) <=> u.state[d] # "gone" /\ HasJoined(u.log, d)
            /\ \A k \in DOMAIN u.subs[d] : IsFilter(u.subs[d][k])
            /\ Len(u.subs[d]) <= MqMaxSubs
            /\ u.state[d] = "open" => InStanding(u, d)
  <2>1. /\ d \in ToSet(u.sessions) <=> u.state[d] # "gone" /\ HasJoined(u.log, d)
        /\ (\A k \in DOMAIN u.subs[d] : IsFilter(u.subs[d][k])) /\ Len(u.subs[d]) <= MqMaxSubs
    BY <1>3, <1>5 DEF MqSound
  <2>2. ASSUME u.state[d] = "open", d # c PROVE InStanding(u, d)
    <3>1. b.state[d] = "open" /\ \A x \in ToSet(b.sessions) : x \in ToSet(u.sessions)
      BY <2>2, <1>3
    <3> QED  BY <3>1, <2>2, <1>4, <1>6, OthersStand
  <2>3. ASSUME u.state[c] = "open" PROVE InStanding(u, c)
    <3>1. b.state[c] = "open" /\ u.sessions = b.sessions /\ u.subs[c] = b.subs[c]
      BY <2>3, <1>3
    <3>2. u.subs[c] # <<>> => c \in ToSet(u.sessions)
      BY <3>1 DEF MqSound, InStanding
    <3>3. \A t : t \in ToSet(u.subs[c]) <=> t \in ToSet(b.subs[c]) \/ (p.cmd = "subscribe" /\ t \in ToSet(p.topics))
      BY <3>1, <1>1
    <3> QED  BY <3>1, <3>2, <3>3, <1>4, <1>6, OneStands
  <2> QED  BY <2>1, <2>2, <2>3
<1> QED  BY <1>3, <1>4, <1>7 DEF MqSound

\* A packet, whichever it is, keeps the broker sound.
LEMMA HandledSound ==
    ASSUME NEW b, MqSound(b), NEW c \in MqClients, b.state[c] # "gone", NEW p \in MqPackets,
           NEW u, u = HandleNext(b, c, p)
    PROVE  MqSound(u) /\ Stepped(b, c, p, u) /\ u.state[c] # "gone"
<1>1. CASE p.cmd = "connect"
  <2>1. p = Conn
    BY <1>1, PacketIs
  <2> QED  BY <2>1, ConnectSound
<1>2. CASE p.cmd = "subscribe"
  BY <1>2, SubscribeSound
<1>3. CASE p.cmd = "publish"
  BY <1>3, PublishSound
<1>4. CASE p.cmd \in {"pingreq", "malformed"}
  BY <1>4, OtherSound
<1>5. p.cmd \in {"connect", "subscribe", "publish", "pingreq", "malformed"}
  BY PacketIs
<1> QED  BY <1>1, <1>2, <1>3, <1>4, <1>5

-----------------------------------------------------------------------------
\* The packets of c's from lo on, one after the other.
Handling(b, c, plan, lo, f, k) == IF k = lo THEN b ELSE HandleNext(f[k - 1], c, plan[k])
Handlings(b, c, plan, lo, hi) == CHOOSE at : at = [k \in lo..hi |-> Handling(b, c, plan, lo, at, k)]

\* The loop is defined for each packet it comes to: it reads only the one before.
LEMMA HandlingsAre ==
    ASSUME NEW b, NEW c, NEW plan, NEW lo \in Nat, NEW hi \in Nat, lo <= hi
    PROVE  \A k \in lo..hi : Handlings(b, c, plan, lo, hi)[k] = Handling(b, c, plan, lo, Handlings(b, c, plan, lo, hi), k)
<1> DEFINE Good(n) == \E f : f = [k \in lo..lo + n |-> Handling(b, c, plan, lo, f, k)]
           T == {n \in Nat : Good(n)}
<1>1. 0 \in T
  <2> DEFINE f == [k \in lo..lo + 0 |-> b]
  <2>1. \A k \in lo..lo + 0 : Handling(b, c, plan, lo, f, k) = b
    BY DEF Handling
  <2>2. f = [k \in lo..lo + 0 |-> Handling(b, c, plan, lo, f, k)]
    BY <2>1, Zenon
  <2> QED  BY <2>2
<1>2. ASSUME NEW n \in Nat, Good(n) PROVE Good(n + 1)
  <2>1. PICK f : f = [k \in lo..lo + n |-> Handling(b, c, plan, lo, f, k)]
    BY <1>2
  <2> DEFINE m == lo + (n + 1)
             g == [k \in lo..m |-> IF k = m THEN Handling(b, c, plan, lo, f, k) ELSE f[k]]
  <2>2. \A k \in lo..lo + n : k \in lo..m /\ k # m /\ g[k] = f[k]
    OBVIOUS
  <2>3. ASSUME NEW k \in lo..m PROVE g[k] = Handling(b, c, plan, lo, g, k)
    <3>1. k = lo \/ k - 1 \in lo..lo + n
      OBVIOUS
    <3>2. k # lo => g[k - 1] = f[k - 1]
      BY <3>1, <2>2
    <3>3. Handling(b, c, plan, lo, g, k) = Handling(b, c, plan, lo, f, k)
      <4> HIDE DEF g
      <4> QED  BY <3>2 DEF Handling
    <3>4. CASE k = m
      BY <3>3, <3>4
    <3>5. CASE k # m
      <4>1. k \in lo..lo + n
        BY <3>5
      <4>2. f[k] = Handling(b, c, plan, lo, f, k)
        BY <2>1, <4>1
      <4> QED  BY <4>1, <4>2, <3>3, <2>2
    <3> QED  BY <3>4, <3>5
  <2>4. g = [k \in lo..m |-> g[k]]
    OBVIOUS
  <2> HIDE DEF g
  <2>5. g = [k \in lo..m |-> Handling(b, c, plan, lo, g, k)]
    BY <2>3, <2>4, Zenon
  <2> QED  BY <2>5
<1>3. Good(hi - lo)
  <2> HIDE DEF Good
  <2>1. \A n \in Nat : n \in T => n + 1 \in T
    BY <1>2
  <2>2. Nat \subseteq T
    <3> HIDE DEF T
    <3> QED  BY <1>1, <2>1, NatSet
  <2>3. hi - lo \in Nat
    OBVIOUS
  <2> QED  BY <2>2, <2>3
<1>4. lo + (hi - lo) = hi
  OBVIOUS
<1>5. Handlings(b, c, plan, lo, hi) = [k \in lo..hi |-> Handling(b, c, plan, lo, Handlings(b, c, plan, lo, hi), k)]
  BY <1>3, <1>4, Zenon DEF Handlings
<1> QED  BY <1>5

\* Any number of packets leaves the broker as it is to be.
LEMMA BatchSound ==
    ASSUME NEW b, MqSound(b), NEW c \in MqClients, b.state[c] # "gone", NEW plan \in Seq(MqPackets),
           NEW lo \in Nat, NEW hi \in Nat, lo <= hi, hi <= Len(plan), NEW u, u = Handlings(b, c, plan, lo, hi)[hi]
    PROVE  /\ MqSound(u) /\ u.state[c] # "gone"
           /\ u.plan = b.plan /\ u.sent = b.sent /\ u.done = b.done
<1> DEFINE at == Handlings(b, c, plan, lo, hi)
           Good(k) == /\ MqSound(at[k]) /\ at[k].state[c] # "gone"
                      /\ at[k].plan = b.plan /\ at[k].sent = b.sent /\ at[k].done = b.done
           T == {n \in Nat : lo + n <= hi => Good(lo + n)}
<1>1. \A k \in lo..hi : at[k] = Handling(b, c, plan, lo, at, k)
  BY HandlingsAre
<1> HIDE DEF at
<1>2. 0 \in T
  <2>1. lo \in lo..hi /\ lo + 0 = lo
    OBVIOUS
  <2>2. at[lo] = b
    BY <2>1, <1>1 DEF Handling
  <2> QED  BY <2>1, <2>2
<1>3. ASSUME NEW n \in Nat, n \in T PROVE n + 1 \in T
  <2> SUFFICES ASSUME lo + (n + 1) <= hi PROVE Good(lo + (n + 1))
    OBVIOUS
  <2> DEFINE k == lo + (n + 1)
  <2>1. k \in lo..hi /\ k # lo /\ k - 1 = lo + n /\ lo + n <= hi /\ k \in 1..Len(plan)
    OBVIOUS
  <2>2. Good(k - 1)
    BY <2>1, <1>3
  <2>3. plan[k] \in MqPackets
    BY <2>1
  <2> HIDE DEF k
  <2>4. at[k] = HandleNext(at[k - 1], c, plan[k])
    BY <1>1, <2>1 DEF Handling
  <2>5. MqSound(at[k]) /\ Stepped(at[k - 1], c, plan[k], at[k]) /\ at[k].state[c] # "gone"
    BY <2>2, <2>3, <2>4, HandledSound
  <2>6. Good(k)
    BY <2>2, <2>5 DEF Stepped
  <2> QED  BY <2>6 DEF k
<1>4. Good(hi)
  <2> HIDE DEF Good
  <2>1. Nat \subseteq T
    <3> HIDE DEF T
    <3> QED  BY <1>2, <1>3, NatSet
  <2>2. hi - lo \in Nat /\ lo + (hi - lo) = hi
    OBVIOUS
  <2> QED  BY <2>1, <2>2
<1> QED  BY <1>4 DEF at

\* Ending a connection changes nothing for the others.
LEMMA ClosingSound ==
    ASSUME NEW b, MqSound(b), NEW c \in MqClients, b.state[c] # "gone", NEW u, u = CloseClient(b, c)
    PROVE  MqSound(u) /\ u.plan = b.plan /\ u.sent = b.sent /\ u.done = b.done
<1>1. /\ u \in MqSet /\ u.plan = b.plan /\ u.sent = b.sent /\ u.done = b.done /\ u.sessions = b.sessions
      /\ u.subs = b.subs /\ u.out = b.out /\ u.log = b.log
      /\ \A d \in MqClients : u.state[d] = IF d = c THEN "closing" ELSE b.state[d]
  BY MarkedClosing DEF MqSound
<1>2. ASSUME NEW d \in MqClients
      PROVE /\ d \in ToSet(u.sessions) <=> u.state[d] # "gone" /\ HasJoined(u.log, d)
            /\ \A k \in DOMAIN u.subs[d] : IsFilter(u.subs[d][k])
            /\ Len(u.subs[d]) <= MqMaxSubs
            /\ u.state[d] = "open" => InStanding(u, d)
  BY <1>1 DEF MqSound, InStanding
<1> QED  BY <1>1, <1>2 DEF MqSound

\* How far a client is, after a call that has read some of what it sent.
Placed(b, s, f) == [b EXCEPT !.sent = s, !.done = f]

\* How far clients are changes nothing of what is due.
LEMMA SentSound ==
    ASSUME NEW b, MqSound(b), NEW s \in [MqClients -> Nat], NEW f \in [MqClients -> Nat]
    PROVE  LET u == Placed(b, s, f)
           IN  MqSound(u) /\ u.plan = b.plan /\ u.sent = s /\ u.done = f /\ u.state = b.state
<1> SUFFICES ASSUME NEW u, u = [b EXCEPT !.sent = s, !.done = f]
             PROVE  MqSound(u) /\ u.plan = b.plan /\ u.sent = s /\ u.done = f /\ u.state = b.state
  BY DEF Placed
<1>1. /\ u \in MqSet /\ u.plan = b.plan /\ u.sent = s /\ u.done = f /\ u.sessions = b.sessions
      /\ u.subs = b.subs /\ u.out = b.out /\ u.log = b.log /\ u.state = b.state
  BY DEF MqSound, MqSet
<1> QED  BY <1>1 DEF MqSound, InStanding

\* A broker starts sound.
LEMMA MqInit_Inv == MqInit => MqInv
<1> SUFFICES ASSUME MqInit PROVE MqSound(mq) /\ MqPlace(mq)
  BY DEF MqInv
<1>1. PICK plan \in [MqClients -> MqPlans] :
        mq = [plan |-> plan, sent |-> [c \in MqClients |-> 0], done |-> [c \in MqClients |-> 0],
              state |-> [c \in MqClients |-> "open"], sessions |-> <<>>,
              subs |-> [c \in MqClients |-> <<>>], out |-> [c \in MqClients |-> <<>>], log |-> <<>>]
  BY DEF MqInit
<1>2. /\ mq \in MqSet /\ mq.plan = plan /\ mq.sessions = <<>> /\ mq.log = <<>>
      /\ \A c \in MqClients : /\ mq.sent[c] = 0 /\ mq.done[c] = 0 /\ mq.state[c] = "open"
                              /\ mq.subs[c] = <<>> /\ mq.out[c] = <<>>
  BY <1>1 DEF MqSet, MqStates
<1>3. \A c \in MqClients : plan[c] \in Seq(MqPackets)
  BY MqConstants
<1>4. MqPlace(mq)
  BY <1>2, <1>3 DEF MqPlace
<1>5. \A c : ~HasJoined(mq.log, c) /\ (\A t : ~HasAsked(mq.log, c, t))
  BY <1>2 DEF HasJoined, HasAsked
<1>6. ASSUME NEW c \in MqClients PROVE DueOf(mq.log, c) = <<>>
  <2>1. [k \in DOMAIN mq.log |-> DueFor(mq.log, c, k)] = <<>>
    BY <1>2
  <2>2. FlattenSeq(<<>>) = <<>>
    BY EmptySeq, JoinIs
  <2> QED  BY <2>1, <2>2 DEF DueOf
<1>7. ToSet(mq.sessions) = {} /\ IsInjective(mq.sessions)
  BY <1>2 DEF ToSet, IsInjective
<1>8. \A c \in MqClients : ToSet(mq.subs[c]) = {} /\ DOMAIN mq.subs[c] = {} /\ Len(mq.subs[c]) = 0
  BY <1>2 DEF ToSet
<1>9. 0 <= MqMaxSubs
  BY MqConstants
<1>10. ASSUME NEW c \in MqClients PROVE InStanding(mq, c)
  BY <1>2, <1>5, <1>6, <1>8 DEF InStanding
<1> QED  BY <1>2, <1>4, <1>5, <1>7, <1>8, <1>9, <1>10 DEF MqSound

\* MG_EV_CLOSE: the session goes, and with it what it subscribed.
LEMMA CloseKeeps == ASSUME MqInv, NEW c \in MqClients, MqClose(c) PROVE MqInv'
<1> DEFINE l == RemoveFirst(mq.sessions, c)
           s == [mq.state EXCEPT ![c] = "gone"]
           t == [mq.subs EXCEPT ![c] = <<>>]
<1>1. MqSound(mq) /\ MqPlace(mq) /\ mq \in MqSet /\ mq.state[c] # "gone"
  BY DEF MqInv, MqSound, MqClose
<1>2. l \in Seq(MqClients) /\ IsInjective(l) /\ ToSet(l) = ToSet(mq.sessions) \ {c}
  <2>1. mq.sessions \in Seq(MqClients) /\ IsInjective(mq.sessions)
    BY <1>1 DEF MqSound, MqSet
  <2>2. CASE c \in ToSet(mq.sessions)
    BY <2>1, <2>2, TakenOut
  <2>3. CASE c \notin ToSet(mq.sessions)
    <3>1. l = mq.sessions
      BY <2>3 DEF RemoveFirst, ToSet
    <3> QED  BY <3>1, <2>1, <2>3
  <2> QED  BY <2>2, <2>3
<1> HIDE DEF l
<1>3. /\ s \in [MqClients -> MqStates] /\ \A d \in MqClients : s[d] = IF d = c THEN "gone" ELSE mq.state[d]
      /\ t \in [MqClients -> Seq(Seq(STRING))] /\ \A d \in MqClients : t[d] = IF d = c THEN <<>> ELSE mq.subs[d]
  BY <1>1 DEF MqSet, MqStates
<1> HIDE DEF s, t
<1>4. mq' = [mq EXCEPT !.state = s, !.sessions = l, !.subs = t]
  BY DEF MqClose, s, l, t
<1>5. /\ mq' \in MqSet /\ mq'.plan = mq.plan /\ mq'.sent = mq.sent /\ mq'.done = mq.done /\ mq'.sessions = l
      /\ mq'.subs = t /\ mq'.out = mq.out /\ mq'.log = mq.log /\ mq'.state = s
  BY <1>1, <1>2, <1>3, <1>4 DEF MqSet
<1>6. MqPlace(mq')
  BY <1>1, <1>5 DEF MqPlace
<1>7. ASSUME NEW d \in MqClients
      PROVE /\ d \in ToSet(mq'.sessions) <=> mq'.state[d] # "gone" /\ HasJoined(mq'.log, d)
            /\ \A k \in DOMAIN mq'.subs[d] : IsFilter(mq'.subs[d][k])
            /\ Len(mq'.subs[d]) <= MqMaxSubs
            /\ mq'.state[d] = "open" => InStanding(mq', d)
  <2>1. CASE d = c
    <3>1. mq'.subs[d] = <<>> /\ mq'.state[d] = "gone"
      BY <2>1, <1>3, <1>5
    <3>2. DOMAIN mq'.subs[d] = {} /\ Len(mq'.subs[d]) = 0 /\ 0 <= MqMaxSubs
      BY <3>1, MqConstants
    <3> QED  BY <3>1, <3>2, <2>1, <1>2, <1>5
  <2>2. CASE d # c
    <3>1. mq'.subs[d] = mq.subs[d] /\ mq'.state[d] = mq.state[d] /\ (d \in ToSet(mq'.sessions) <=> d \in ToSet(mq.sessions))
      BY <2>2, <1>2, <1>3, <1>5
    <3> QED  BY <3>1, <1>1, <1>5 DEF MqSound, InStanding
  <2> QED  BY <2>1, <2>2
<1> QED  BY <1>2, <1>5, <1>6, <1>7 DEF MqInv, MqSound

\* A read that brings any number of packets, whole or cut, keeps the broker sound.
LEMMA ReceiveKeeps == ASSUME MqInv, NEW c \in MqClients, MqReceive(c) PROVE MqInv'
<1>1. MqSound(mq) /\ MqPlace(mq) /\ mq \in MqSet /\ mq.state[c] = "open"
  BY DEF MqInv, MqSound, MqReceive
<1> DEFINE plan == mq.plan[c]
           lo == mq.done[c]
<1>2. PICK n \in 1..2 * Len(plan) - mq.sent[c] :
        LET b0 == [mq EXCEPT !.sent[c] = @ + n]
            bad == {k \in mq.done[c] + 1..b0.sent[c] \div 2 : mq.plan[c][k] = BadPacket}
            last == IF bad = {} THEN b0.sent[c] \div 2 ELSE (CHOOSE k \in bad : \A j \in bad : k <= j) - 1
            at[k \in mq.done[c]..last] == IF k = mq.done[c] THEN b0 ELSE HandleNext(at[k - 1], c, mq.plan[c][k])
            b1 == at[last]
        IN  mq' = [(IF bad = {} THEN b1 ELSE CloseClient(b1, c)) EXCEPT !.done[c] = last]
  BY DEF MqReceive
<1> DEFINE b0 == [mq EXCEPT !.sent[c] = @ + n]
           hi == b0.sent[c] \div 2
           bad == {k \in mq.done[c] + 1..hi : mq.plan[c][k] = BadPacket}
           last == IF bad = {} THEN hi ELSE (CHOOSE k \in bad : \A j \in bad : k <= j) - 1
           b1 == Handlings(b0, c, plan, lo, last)[last]
           b2 == IF bad = {} THEN b1 ELSE CloseClient(b1, c)
<1>3. mq' = [b2 EXCEPT !.done[c] = last]
  BY <1>2, Zenon DEF Handlings, Handling
<1>4. plan \in Seq(MqPackets) /\ Len(plan) \in Nat /\ lo \in Nat /\ mq.sent[c] \in Nat /\ 2 * lo <= mq.sent[c]
  <2>1. plan \in MqPlans
    BY <1>1 DEF MqSet
  <2>2. plan \in Seq(MqPackets)
    BY <2>1, MqConstants
  <2>3. lo \in Nat /\ mq.sent[c] \in Nat /\ 2 * lo <= mq.sent[c]
    BY <1>1 DEF MqSet, MqPlace
  <2> HIDE DEF plan, lo
  <2> QED  BY <2>2, <2>3
<1> DEFINE s == [mq.sent EXCEPT ![c] = @ + n]
<1>5. /\ s \in [MqClients -> Nat] /\ s[c] = mq.sent[c] + n /\ \A d \in MqClients : d # c => s[d] = mq.sent[d]
      /\ s[c] <= 2 * Len(plan)
  <2>1. n \in Nat /\ mq.sent[c] + n <= 2 * Len(plan)
    <3> HIDE DEF plan
    <3> QED  BY <1>4
  <2>2. mq.sent \in [MqClients -> Nat]
    BY <1>1 DEF MqSet
  <2> HIDE DEF plan
  <2>3. mq.sent[c] + n \in Nat
    BY <2>1, <2>2
  <2> QED  BY <2>1, <2>2, <2>3
<1>6. MqSound(b0) /\ b0.plan = mq.plan /\ b0.sent = s /\ b0.done = mq.done /\ b0.state = mq.state
  <2>1. mq.done \in [MqClients -> Nat]
    BY <1>1 DEF MqSet
  <2>2. b0 = Placed(mq, s, mq.done)
    BY <1>1 DEF MqSet, Placed
  <2> HIDE DEF b0, s
  <2> QED  BY <2>1, <2>2, <1>1, <1>5, SentSound
<1> HIDE DEF b0, s
<1>7. hi \in Nat /\ lo <= hi /\ hi <= Len(plan) /\ 2 * hi <= s[c]
  <2>1. hi = s[c] \div 2 /\ s[c] \in Nat /\ 2 * lo <= s[c]
    BY <1>4, <1>5, <1>6
  <2> HIDE DEF plan, lo, hi
  <2> QED  BY <2>1, <1>4, <1>5, SMTT(20)
<1> HIDE DEF hi
<1>8. last \in Nat /\ lo <= last /\ last <= hi
  <2>1. CASE bad = {}
    BY <2>1, <1>7
  <2>2. CASE bad # {}
    <3> DEFINE m == CHOOSE k \in bad : \A j \in bad : k <= j
    <3>1. bad \subseteq Nat
      BY <1>4, <1>7
    <3>2. m \in bad
      <4> HIDE DEF bad
      <4> QED  BY <3>1, <2>2, LeastIs
    <3>3. m \in lo + 1..hi
      BY <3>2
    <3>4. last = m - 1
      BY <2>2
    <3> HIDE DEF m, bad, lo, last
    <3> QED  BY <3>3, <3>4, <1>4, <1>7
  <2> QED  BY <2>1, <2>2
<1> HIDE DEF last, bad
<1>9. /\ MqSound(b1) /\ b1.state[c] # "gone"
      /\ b1.plan = mq.plan /\ b1.sent = s /\ b1.done = mq.done
  <2>1. last <= Len(plan) /\ b0.state[c] # "gone"
    <3> HIDE DEF plan, lo
    <3> QED  BY <1>1, <1>4, <1>6, <1>7, <1>8
  <2> HIDE DEF plan, lo
  <2> QED  BY <2>1, <1>4, <1>6, <1>8, BatchSound
<1> HIDE DEF b1
<1>10. MqSound(b2) /\ b2.plan = mq.plan /\ b2.sent = s /\ b2.done = mq.done
  BY <1>9, ClosingSound
<1> HIDE DEF b2
<1> DEFINE f == [mq.done EXCEPT ![c] = last]
<1>11. f \in [MqClients -> Nat] /\ f[c] = last /\ \A d \in MqClients : d # c => f[d] = mq.done[d]
  BY <1>1, <1>8 DEF MqSet
<1>12. mq' = Placed(b2, s, f)
  <2>1. b2 \in MqSet
    BY <1>10 DEF MqSound
  <2> QED  BY <2>1, <1>3, <1>10 DEF MqSet, Placed
<1> HIDE DEF f
<1>13. MqSound(mq') /\ mq'.plan = mq.plan /\ mq'.sent = s /\ mq'.done = f
  BY <1>5, <1>10, <1>11, <1>12, SentSound
<1>14. MqPlace(mq')
  <2> SUFFICES ASSUME NEW d \in MqClients PROVE s[d] <= 2 * Len(mq.plan[d]) /\ 2 * f[d] <= s[d]
    BY <1>13 DEF MqPlace
  <2>1. CASE d = c
    <3>1. 2 * last <= s[c]
      <4>1. s[c] \in Nat
        BY <1>5
      <4> QED  BY <4>1, <1>7, <1>8
    <3> QED  BY <3>1, <2>1, <1>5, <1>11
  <2>2. CASE d # c
    BY <2>2, <1>1, <1>5, <1>11 DEF MqPlace
  <2> QED  BY <2>1, <2>2
<1> QED  BY <1>13, <1>14 DEF MqInv

-----------------------------------------------------------------------------
\* The broker stays sound: between two events a client has a session from its CONNECT until it is gone, its
\* session has the topics it asked for, and it was sent what is due (mongoose.c:10711-10879).
THEOREM MqInvariant == MqSpec => []MqInv
<1>1. MqInit => MqInv
  BY MqInit_Inv
<1>2. MqInv /\ [MqNext]_mqVars => MqInv'
  <2> SUFFICES ASSUME MqInv, [MqNext]_mqVars PROVE MqInv'
    OBVIOUS
  <2>1. CASE UNCHANGED mqVars
    <3>1. mq' = mq
      BY <2>1 DEF mqVars
    <3> QED  BY <3>1 DEF MqInv
  <2>2. ASSUME NEW c \in MqClients, MqReceive(c) \/ MqClose(c) PROVE MqInv'
    BY <2>2, ReceiveKeeps, CloseKeeps
  <2> QED  BY <2>1, <2>2 DEF MqNext
<1> QED  BY <1>1, <1>2, PTL DEF MqSpec

\* What the invariant says of the sessions and of what clients are sent.
LEMMA MqInvBrokers == MqInv => Brokered /\ MqTypeOK
<1> SUFFICES ASSUME MqSound(mq), MqPlace(mq) PROVE Brokered /\ MqTypeOK
  BY DEF MqInv
<1>1. mq \in MqSet
  BY DEF MqSound
<1>2. ToSet(mq.sessions) \subseteq MqClients
  <2>1. mq.sessions \in Seq(MqClients)
    BY <1>1 DEF MqSet
  <2> QED  BY <2>1 DEF ToSet
<1>3. \A c : [client |-> c, packet |-> Conn] \in ToSet(mq.log) <=> HasJoined(mq.log, c)
  BY DEF ToSet, HasJoined
<1>4. SessionsLive
  BY <1>2, <1>3 DEF SessionsLive, MqSound
<1>5. MessagesDue
  BY DEF MessagesDue, Due, DueOf, MqSound, InStanding
<1>6. MqTypeOK
  <2> SUFFICES ASSUME NEW c \in MqClients
               PROVE  /\ mq.state[c] \in {"open", "closing", "gone"}
                      /\ mq.done[c] <= mq.sent[c] \div 2 /\ mq.sent[c] <= 2 * Len(mq.plan[c])
                      /\ Len(mq.subs[c]) <= MqMaxSubs
    BY <1>2 DEF MqTypeOK
  <2>1. mq.state[c] \in MqStates /\ mq.done[c] \in Nat /\ mq.sent[c] \in Nat
    BY <1>1 DEF MqSet
  <2>2. mq.sent[c] <= 2 * Len(mq.plan[c]) /\ 2 * mq.done[c] <= mq.sent[c] /\ Len(mq.subs[c]) <= MqMaxSubs
    BY DEF MqSound, MqPlace
  <2>3. mq.done[c] <= mq.sent[c] \div 2
    BY <2>1, <2>2
  <2> QED  BY <2>1, <2>2, <2>3 DEF MqStates
<1> QED  BY <1>4, <1>5, <1>6 DEF Brokered

\* The broker's state has its type: no more packets are handled than have come, and no session keeps more topics
\* than it has room for (mongoose.c:10376-10415, 10759-10807).
THEOREM MqttTyped == MqSpec => []MqTypeOK
BY MqInvariant, MqInvBrokers, PTL

\* For any clients and packets: exactly the clients that have connected and are not gone have a session, one
\* each, and a client in good standing has been sent its answers and the messages that its topics cover, each once and in
\* the order the broker handled them (mongoose.c:10719-10879).
THEOREM BrokeredHolds == MqSpec => []Brokered
BY MqInvariant, MqInvBrokers, PTL
=============================================================================
