-------------------------- MODULE EventLoopProofs --------------------------
(***************************************************************************)
(* Proofs about the event loop (EventLoop), for any number of connections, *)
(* any limits and whatever handlers and peers do.                          *)
(***************************************************************************)
EXTENDS EventLoop, SequenceTheorems, FiniteSetTheorems, WellFoundedInduction, TLAPS

-----------------------------------------------------------------------------
(***************************************************************************)
(* The inductive invariant.                                                *)
(***************************************************************************)
Kinds == {"none", "tcp", "udp", "acc", "out", "child"}
FlagSet == SUBSET {"CONNECTING", "SAC", "CI"}
PeerStates == {"asked", "up", "shut", "broken"}
TimerStates == {"off", "armed", "due"}
Alive == {"new", "open", "failed"}
Lives == {"none", "new", "open", "failed", "closed"}
ConnSet == [kind : Kinds, flags : FlagSet, peer : PeerStates, from : EvSources \cup {"none"},
            in : Nat, recv : Nat, send : Nat, timer : TimerStates,
            life : Lives, doomed : BOOLEAN, lost : BOOLEAN, rang : BOOLEAN]

Places == {"idle", "walk", "close", "free", "freed"}
Stages == {"none", "connect", "read", "child", "write", "poll", "timer", "done"}
PassSet == [at : Places, cur : EvConns \cup {NoConn}, nxt : EvConns \cup {NoConn}, stage : Stages,
            todo : SUBSET EvConns, rd : SUBSET EvConns, wr : SUBSET EvConns]

EvDomains ==
    /\ pass \in PassSet /\ backlog \in Nat /\ dgrams \in Seq(EvSources) /\ came \in Nat
    /\ acts \in 0..EvActs /\ odd = {}

\* What is true of one connection at all times.  A connection is being opened for as long as
\* its outcome is not known, one that failed is to be closed, one is to be closed at once
\* because a handler said so or because its peer is gone.
ConnOK(r) ==
    /\ r.kind = "none" <=> r.life = "none"
    /\ "CONNECTING" \in r.flags <=> r.life = "new"
    /\ "CONNECTING" \in r.flags => r.kind = "out"
    /\ r.life = "failed" => "CI" \in r.flags
    /\ "CI" \in r.flags => r.doomed \/ r.peer = "broken"
    /\ r.timer # "off" => ~r.rang
    /\ r.kind \in {"acc", "out"} => r.recv <= EvRecvMax

ConnsOK(cs) == cs \in [EvConns -> ConnSet] /\ \A c \in EvConns : ConnOK(cs[c])

\* A child of cs that gets the datagrams of its source.
Serves(r) == r.kind = "child" /\ r.life \in Alive
SingleChild(cs) == \A c, d \in EvConns : Serves(cs[c]) /\ Serves(cs[d]) /\ cs[c].from = cs[d].from => c = d

\* l is a list of the connections of cs that are alive, each once.
Chain(l, cs) == l \in Seq(EvConns) /\ IsInjective(l) /\ ToSet(l) = LiveIn(cs)

Walking == pass.at \in {"walk", "close", "free"} => pass.cur \in ToSet(list) /\ pass.nxt = After(pass.cur, list)

\* What a stage of mg_mgr_handle_conn takes for granted of the connection in hand.
StageOK ==
    pass.at = "walk" =>
        /\ pass.stage = "connect" => "CONNECTING" \in conn[pass.cur].flags
        /\ pass.stage \in {"read", "child"} => "CONNECTING" \notin conn[pass.cur].flags
        /\ pass.stage = "child" => dgrams # <<>> /\ Child(Head(dgrams)) # {}
        /\ pass.stage = "write" => "CONNECTING" \notin conn[pass.cur].flags /\ "CI" \notin conn[pass.cur].flags
        /\ pass.stage \in {"poll", "timer"} => conn[pass.cur].life # "failed"
        /\ pass.stage = "timer" => conn[pass.cur].timer = "due"

Pushed(r) == r.life = "closed" /\ ~r.doomed /\ r.peer # "broken" => ~r.lost
AllPushed == pass.at \notin {"free", "freed"} => \A c \in EvConns : Pushed(conn[c])

Freeing ==
    /\ pass.at = "free" => \A c \in pass.todo : conn[c].life = "closed" \/ c = pass.cur \/ c \in Rest(pass.cur, list)
    /\ pass.at = "freed" => \A c \in pass.todo : conn[c].life = "closed"

EvInv ==
    /\ EvDomains /\ ConnsOK(conn) /\ Chain(list, conn) /\ SingleChild(conn)
    /\ Walking /\ WalkCovers /\ StageOK /\ AllPushed /\ Freeing

-----------------------------------------------------------------------------
(***************************************************************************)
(* Lists.                                                                  *)
(***************************************************************************)
LEMMA PositionIs ==
    ASSUME NEW l \in Seq(EvConns), IsInjective(l), NEW i \in 1..Len(l)
    PROVE  Position(l[i], l) = i
BY DEF Position, IsInjective

LEMMA MemberAt ==
    ASSUME NEW l \in Seq(EvConns), NEW c \in ToSet(l)
    PROVE  \E i \in 1..Len(l) : c = l[i]
BY DEF ToSet

\* A connection is followed by the next one and by what follows that.
LEMMA Following ==
    ASSUME NEW l \in Seq(EvConns), IsInjective(l), NEW c \in ToSet(l)
    PROVE  \/ After(c, l) = NoConn /\ Rest(c, l) = {}
           \/ /\ After(c, l) \in ToSet(l) \ {c}
              /\ Rest(c, l) = {After(c, l)} \cup Rest(After(c, l), l)
              /\ After(c, l) \notin Rest(After(c, l), l)
<1>1. PICK i \in 1..Len(l) : c = l[i]
  BY MemberAt
<1>2. Position(c, l) = i
  BY <1>1, PositionIs
<1>3. CASE i = Len(l)
  BY <1>2, <1>3 DEF After, Rest
<1>4. CASE i # Len(l)
  <2>1. i + 1 \in 1..Len(l) /\ l[i + 1] # c
    BY <1>1, <1>4 DEF IsInjective
  <2>2. Position(l[i + 1], l) = i + 1
    BY <2>1, PositionIs
  <2>3. After(c, l) = l[i + 1] /\ After(c, l) \in ToSet(l)
    BY <1>2, <1>4, <2>1 DEF After, ToSet
  <2>4. Rest(c, l) = {l[j] : j \in i + 1..Len(l)}
    BY <1>2 DEF Rest
  <2>5. Rest(l[i + 1], l) = {l[j] : j \in i + 2..Len(l)}
    BY <2>2 DEF Rest
  <2>6. l[i + 1] \notin Rest(l[i + 1], l)
    BY <2>1, <2>5 DEF IsInjective
  <2>7. i + 1..Len(l) = {i + 1} \cup (i + 2..Len(l))
    BY <1>4
  <2>. QED  BY <2>1, <2>3, <2>4, <2>5, <2>6, <2>7
<1>. QED  BY <1>3, <1>4

\* A connection is added at the head: mg_add_conn.
LEMMA Prepended ==
    ASSUME NEW l \in Seq(EvConns), IsInjective(l), NEW x \in EvConns, x \notin ToSet(l)
    PROVE  /\ <<x>> \o l \in Seq(EvConns) /\ IsInjective(<<x>> \o l)
           /\ ToSet(<<x>> \o l) = {x} \cup ToSet(l)
           /\ \A c \in ToSet(l) : After(c, <<x>> \o l) = After(c, l) /\ Rest(c, <<x>> \o l) = Rest(c, l)
<1>. DEFINE m == <<x>> \o l
<1>1. m \in Seq(EvConns) /\ Len(m) = Len(l) + 1 /\ m[1] = x /\ \A i \in 1..Len(l) : m[i + 1] = l[i]
  OBVIOUS
<1>. HIDE DEF m
<1>0. DOMAIN l = 1..Len(l) /\ \A a, b \in 1..Len(l) : l[a] = l[b] => a = b
  BY DEF IsInjective
<1>2. \A i \in 1..Len(l) : l[i] # x
  BY DEF ToSet
<1>3. IsInjective(m)
  <2>. SUFFICES ASSUME NEW i \in 1..Len(m), NEW j \in 1..Len(m), m[i] = m[j] PROVE i = j
    BY <1>1 DEF IsInjective
  <2>1. CASE i = 1 \/ j = 1
    <3>1. \A k \in 1..Len(m) : k = 1 \/ (k - 1 \in 1..Len(l) /\ m[k] = l[k - 1])
      BY <1>1
    <3>. QED  BY <1>1, <1>2, <2>1, <3>1
  <2>2. CASE i # 1 /\ j # 1
    <3>1. i - 1 \in 1..Len(l) /\ j - 1 \in 1..Len(l) /\ m[i] = l[i - 1] /\ m[j] = l[j - 1]
      BY <1>1, <2>2, SMTT(30)
    <3>2. l[i - 1] = l[j - 1]
      BY <3>1
    <3>3. i - 1 = j - 1
      BY <1>0, <3>1, <3>2
    <3>. QED  BY <3>3
  <2>. QED  BY <2>1, <2>2
<1>4. ToSet(m) = {x} \cup ToSet(l)
  <2>1. \A i \in 1..Len(m) : m[i] \in {x} \cup ToSet(l)
    <3>. SUFFICES ASSUME NEW i \in 1..Len(m) PROVE m[i] \in {x} \cup ToSet(l)
      OBVIOUS
    <3>1. i = 1 \/ (i - 1 \in 1..Len(l) /\ m[i] = l[i - 1])
      BY <1>1
    <3>. QED  BY <1>1, <3>1 DEF ToSet
  <2>2. ASSUME NEW i \in 1..Len(l) PROVE l[i] \in ToSet(m)
    <3>1. i + 1 \in 1..Len(m) /\ m[i + 1] = l[i] /\ DOMAIN m = 1..Len(m)
      BY <1>1
    <3>. QED  BY <3>1 DEF ToSet
  <2>3. x \in ToSet(m)
    BY <1>1 DEF ToSet
  <2>4. DOMAIN m = 1..Len(m) /\ DOMAIN l = 1..Len(l)
    BY <1>1
  <2>5. ToSet(m) \subseteq {x} \cup ToSet(l)
    BY <2>1, <2>4 DEF ToSet
  <2>6. ToSet(l) \subseteq ToSet(m)
    <3>. SUFFICES ASSUME NEW c \in ToSet(l) PROVE c \in ToSet(m)
      OBVIOUS
    <3>. QED  BY <2>2, MemberAt
  <2>. QED  BY <2>3, <2>5, <2>6
<1>5. ASSUME NEW c \in ToSet(l)
      PROVE  After(c, m) = After(c, l) /\ Rest(c, m) = Rest(c, l)
  <2>1. PICK i \in 1..Len(l) : c = l[i]
    BY MemberAt
  <2>2. i + 1 \in 1..Len(m) /\ m[i + 1] = c
    BY <1>1, <2>1
  <2>3. Position(c, l) = i /\ Position(c, m) = i + 1
    BY <1>1, <1>3, <2>1, <2>2, PositionIs
  <2>4. After(c, m) = After(c, l)
    BY <1>1, <2>3 DEF After
  <2>5. Rest(c, l) = {l[j] : j \in i + 1..Len(l)} /\ Rest(c, m) = {m[j] : j \in i + 2..Len(m)}
    BY <1>1, <2>3, SMTT(30) DEF Rest
  <2>6. \A j \in i + 1..Len(l) : j + 1 \in i + 2..Len(m) /\ m[j + 1] = l[j]
    BY <1>1
  <2>7. \A j \in i + 2..Len(m) : j - 1 \in i + 1..Len(l) /\ m[j] = l[j - 1]
    BY <1>1
  <2>8. Rest(c, m) = Rest(c, l)
    <3>1. Rest(c, l) \subseteq Rest(c, m)
      BY <2>5, <2>6
    <3>2. Rest(c, m) \subseteq Rest(c, l)
      BY <2>5, <2>7
    <3>. QED  BY <3>1, <3>2
  <2>. QED  BY <2>4, <2>8
<1>. QED  BY <1>1, <1>3, <1>4, <1>5 DEF m

\* A connection is taken out: mg_remove_conn.
LEMMA Removed ==
    ASSUME NEW l \in Seq(EvConns), IsInjective(l), NEW c \in ToSet(l)
    PROVE  LET m == RemoveAt(l, Position(c, l))
           IN  /\ m \in Seq(EvConns) /\ IsInjective(m) /\ ToSet(m) = ToSet(l) \ {c}
               /\ After(c, l) # NoConn => Rest(After(c, l), m) = Rest(After(c, l), l)
<1>. DEFINE m == RemoveAt(l, Position(c, l))
<1>1. PICK i \in 1..Len(l) : c = l[i]
  BY MemberAt
<1>2. Position(c, l) = i
  BY <1>1, PositionIs
<1>3. /\ SubSeq(l, 1, i - 1) \in Seq(EvConns) /\ Len(SubSeq(l, 1, i - 1)) = i - 1
      /\ \A j \in 1..i - 1 : SubSeq(l, 1, i - 1)[j] = l[j]
  BY SubSeqProperties
<1>4. /\ SubSeq(l, i + 1, Len(l)) \in Seq(EvConns) /\ Len(SubSeq(l, i + 1, Len(l))) = Len(l) - i
      /\ \A j \in 1..Len(l) - i : SubSeq(l, i + 1, Len(l))[j] = l[j + i]
  BY SubSeqProperties
<1>. DEFINE before == SubSeq(l, 1, i - 1)
            behind == SubSeq(l, i + 1, Len(l))
<1>5. /\ m \in Seq(EvConns) /\ Len(m) = Len(l) - 1 /\ DOMAIN m = 1..Len(m)
      /\ \A j \in 1..Len(m) : m[j] = IF j < i THEN l[j] ELSE l[j + 1]
  <2>. HIDE DEF before, behind
  <2>1. m = before \o behind
    BY <1>2 DEF m, RemoveAt, before, behind
  <2>2. /\ before \in Seq(EvConns) /\ Len(before) = i - 1 /\ \A j \in 1..i - 1 : before[j] = l[j]
        /\ behind \in Seq(EvConns) /\ Len(behind) = Len(l) - i /\ \A j \in 1..Len(l) - i : behind[j] = l[j + i]
    BY <1>3, <1>4 DEF before, behind
  <2>. HIDE DEF m
  <2>3. /\ m \in Seq(EvConns) /\ Len(m) = Len(before) + Len(behind)
        /\ \A j \in 1..Len(before) + Len(behind) : m[j] = IF j <= Len(before) THEN before[j] ELSE behind[j - Len(before)]
    BY <2>1, <2>2, ConcatProperties
  <2>4. Len(m) = Len(l) - 1
    BY <2>2, <2>3
  <2>5. ASSUME NEW j \in 1..Len(m) PROVE m[j] = IF j < i THEN l[j] ELSE l[j + 1]
    <3>1. CASE j < i
      BY <2>2, <2>3, <3>1
    <3>2. CASE j >= i
      <4>1. m[j] = behind[j - (i - 1)] /\ j - (i - 1) \in 1..Len(l) - i
        BY <2>2, <2>3, <2>4, <3>2
      <4>2. behind[j - (i - 1)] = l[(j - (i - 1)) + i]
        BY <2>2, <4>1
      <4>3. (j - (i - 1)) + i = j + 1
        OBVIOUS
      <4>. QED  BY <3>2, <4>1, <4>2, <4>3
    <3>. QED  BY <3>1, <3>2
  <2>6. DOMAIN m = 1..Len(m)
    BY <2>3
  <2>. QED  BY <2>3, <2>4, <2>5, <2>6
<1>. HIDE DEF m, before, behind
<1>0. DOMAIN l = 1..Len(l) /\ \A a, b \in 1..Len(l) : l[a] = l[b] => a = b
  BY DEF IsInjective
<1>6. IsInjective(m)
  <2>. SUFFICES ASSUME NEW a \in 1..Len(m), NEW b \in 1..Len(m), m[a] = m[b] PROVE a = b
    BY <1>5 DEF IsInjective
  <2>. DEFINE A == IF a < i THEN a ELSE a + 1
              B == IF b < i THEN b ELSE b + 1
  <2>1. A \in 1..Len(l) /\ B \in 1..Len(l) /\ m[a] = l[A] /\ m[b] = l[B]
    BY <1>5
  <2>. HIDE DEF A, B
  <2>2. A = B
    BY <1>0, <2>1
  <2>. QED  BY <2>2 DEF A, B
<1>7. ToSet(m) = ToSet(l) \ {c}
  <2>1. ASSUME NEW j \in 1..Len(m) PROVE m[j] \in ToSet(l) \ {c}
    <3>. DEFINE J == IF j < i THEN j ELSE j + 1
    <3>1. J \in 1..Len(l) /\ J # i /\ m[j] = l[J]
      BY <1>5
    <3>. HIDE DEF J
    <3>. QED  BY <1>0, <1>1, <3>1 DEF ToSet
  <2>2. \A j \in 1..Len(l) : j # i => \E k \in 1..Len(m) : m[k] = l[j]
    <3>. SUFFICES ASSUME NEW j \in 1..Len(l), j # i PROVE \E k \in 1..Len(m) : m[k] = l[j]
      OBVIOUS
    <3>1. CASE j < i
      BY <1>5, <3>1
    <3>2. CASE j > i
      <4>1. j - 1 \in 1..Len(m) /\ m[j - 1] = l[j]
        BY <1>5, <3>2
      <4>. QED  BY <4>1
    <3>. QED  BY <3>1, <3>2
  <2>3. ToSet(m) \subseteq ToSet(l) \ {c}
    BY <1>5, <2>1 DEF ToSet
  <2>4. ASSUME NEW d \in ToSet(l) \ {c} PROVE d \in ToSet(m)
    <3>1. PICK j \in 1..Len(l) : d = l[j] /\ j # i
      BY <1>1, MemberAt
    <3>. QED  BY <1>5, <2>2, <3>1 DEF ToSet
  <2>. QED  BY <2>3, <2>4
<1>8. ASSUME After(c, l) # NoConn
      PROVE  Rest(After(c, l), m) = Rest(After(c, l), l)
  <2>1. i + 1 \in 1..Len(l) /\ After(c, l) = l[i + 1]
    BY <1>2, <1>8 DEF After
  <2>2. i \in 1..Len(m) /\ m[i] = l[i + 1]
    BY <1>5, <2>1
  <2>3. Position(l[i + 1], l) = i + 1 /\ Position(l[i + 1], m) = i
    BY <1>5, <1>6, <2>1, <2>2, PositionIs
  <2>4. /\ Rest(l[i + 1], l) = {l[j] : j \in {k \in 1..Len(l) : k > i + 1}}
        /\ Rest(l[i + 1], m) = {m[j] : j \in {k \in 1..Len(m) : k > i}}
    BY <1>0, <1>5, <2>3 DEF Rest
  <2>5. \A j \in 1..Len(m) : j > i => j + 1 \in 1..Len(l) /\ j + 1 > i + 1 /\ m[j] = l[j + 1]
    BY <1>5
  <2>6. \A j \in 1..Len(l) : j > i + 1 => j - 1 \in 1..Len(m) /\ j - 1 > i /\ m[j - 1] = l[j]
    <3>. SUFFICES ASSUME NEW j \in 1..Len(l), j > i + 1
                  PROVE  j - 1 \in 1..Len(m) /\ j - 1 > i /\ m[j - 1] = l[j]
      OBVIOUS
    <3>1. j - 1 \in 1..Len(m) /\ ~(j - 1 < i) /\ (j - 1) + 1 = j
      BY <1>5
    <3>. QED  BY <1>5, <3>1
  <2>7. Rest(l[i + 1], m) \subseteq Rest(l[i + 1], l)
    BY <2>4, <2>5
  <2>8. Rest(l[i + 1], l) \subseteq Rest(l[i + 1], m)
    BY <2>4, <2>6
  <2>9. Rest(l[i + 1], m) = Rest(l[i + 1], l)
    BY <2>7, <2>8
  <2>. QED  BY <2>1, <2>9
<1>. QED  BY <1>5, <1>6, <1>7, <1>8 DEF m

-----------------------------------------------------------------------------
(***************************************************************************)
(* What a handler may do while it is called.                               *)
(***************************************************************************)
\* The next identifier is one that was not used.
LEMMA NextIsFresh ==
    ASSUME NEW cs, FreshIn(cs) # {}
    PROVE  NextIn(cs) \in EvConns /\ cs[NextIn(cs)].kind = "none"
<1>1. FreshIn(cs) \subseteq Nat
  BY EvAssumption, FS_CardinalityType DEF FreshIn
<1>2. PICK c \in FreshIn(cs) : \A d \in FreshIn(cs) : <<d, c>> \notin OpToRel(<, Nat)
  BY <1>1, WFMin, NatLessThanWellFounded, Zenon
<1>3. \A d \in FreshIn(cs) : ~(d < c)
  BY <1>1, <1>2, Zenon DEF OpToRel
<1>5. \A d \in FreshIn(cs) : c <= d
  BY <1>1, <1>3
<1>4. NextIn(cs) \in FreshIn(cs)
  BY <1>5 DEF NextIn
<1>. QED  BY <1>4 DEF FreshIn

\* A connection as a handler leaves it.
Kept(r, q) ==
    /\ q \in ConnSet
    /\ q.kind = r.kind /\ q.peer = r.peer /\ q.from = r.from /\ q.life = r.life
    /\ q.recv = r.recv \/ q.recv = 0
    /\ q.lost <=> r.lost
    /\ "CONNECTING" \in q.flags <=> "CONNECTING" \in r.flags
    /\ "CI" \in r.flags => "CI" \in q.flags
    /\ "CI" \in q.flags => "CI" \in r.flags \/ q.doomed
    /\ r.doomed => q.doomed
    /\ q.life = "closed" => (q.doomed <=> r.doomed)
    /\ (q.timer = r.timer /\ (q.rang <=> r.rang)) \/ (q.timer = "armed" /\ ~q.rang)

Opening == [Blank EXCEPT !.kind = "out", !.flags = {"CONNECTING"}, !.peer = "asked", !.life = "new"]

\* The connections ns and their list nl, as a handler leaves cs and l.
Served(cs, ns, l, nl) ==
    \/ nl = l /\ DOMAIN ns = EvConns /\ ns \in [EvConns -> ConnSet] /\ \A d \in EvConns : Kept(cs[d], ns[d])
    \/ \E x \in EvConns : cs[x].kind = "none" /\ ns = [cs EXCEPT ![x] = Opening] /\ nl = <<x>> \o l

LEMMA KeptSame ==
    ASSUME NEW r \in ConnSet
    PROVE  Kept(r, r)
BY DEF Kept

LEMMA ServedSame ==
    ASSUME NEW cs \in [EvConns -> ConnSet], NEW l
    PROVE  Served(cs, cs, l, l)
BY KeptSame DEF Served

LEMMA KeptChanges ==
    ASSUME NEW r \in ConnSet, r.life \in Alive
    PROVE  /\ Kept(r, [r EXCEPT !.send = @ + 1])
           /\ Kept(r, [r EXCEPT !.flags = @ \cup {"SAC"}])
           /\ Kept(r, [r EXCEPT !.flags = @ \ {"SAC"}])
           /\ Kept(r, [r EXCEPT !.flags = @ \cup {"CI"}, !.doomed = TRUE])
           /\ Kept(r, [r EXCEPT !.timer = "armed", !.rang = FALSE])
           /\ Kept(r, [r EXCEPT !.recv = 0])
<1>1. Kept(r, [r EXCEPT !.send = @ + 1])
  BY DEF Kept, ConnSet
<1>2. Kept(r, [r EXCEPT !.flags = @ \cup {"SAC"}])
  BY DEF Kept, ConnSet, FlagSet
<1>3. Kept(r, [r EXCEPT !.flags = @ \ {"SAC"}])
  BY DEF Kept, ConnSet, FlagSet
<1>4. Kept(r, [r EXCEPT !.flags = @ \cup {"CI"}, !.doomed = TRUE])
  BY DEF Kept, ConnSet, FlagSet, Alive
<1>5. Kept(r, [r EXCEPT !.timer = "armed", !.rang = FALSE])
  BY DEF Kept, ConnSet, TimerStates
<1>6. Kept(r, [r EXCEPT !.recv = 0])
  BY DEF Kept, ConnSet
<1>. QED  BY <1>1, <1>2, <1>3, <1>4, <1>5, <1>6

\* A change of one connection that lives.
LEMMA ServedOne ==
    ASSUME NEW cs \in [EvConns -> ConnSet], NEW l, NEW d \in EvConns, NEW r, Kept(cs[d], r)
    PROVE  Served(cs, [cs EXCEPT ![d] = r], l, l)
BY KeptSame DEF Served, Kept

LEMMA HandledServes ==
    ASSUME NEW cs \in [EvConns -> ConnSet], NEW l, NEW c \in EvConns, acts \in 0..EvActs,
           NEW h \in Handled(cs, l, c)
    PROVE  Served(cs, h.cs, l, h.l) /\ acts + h.n \in 0..EvActs
<1>. USE DEF Alive
<1>1. CASE h = [cs |-> cs, l |-> l, n |-> 0]
  BY <1>1, ServedSame, EvAssumption
<1>2. CASE h # [cs |-> cs, l |-> l, n |-> 0]
  <2>. DEFINE live == LiveIn(cs)
              On(d, r) == [cs |-> [cs EXCEPT ![d] = r], l |-> l, n |-> 1]
  <2>1. acts # EvActs
    BY <1>2 DEF Handled
  <2>2. acts + 1 \in 0..EvActs
    BY <2>1, EvAssumption
  <2>3. \/ \E d \in live : \/ h = On(d, [cs[d] EXCEPT !.send = @ + 1])
                           \/ h = On(d, [cs[d] EXCEPT !.flags = @ \cup {"SAC"}])
                           \/ h = On(d, [cs[d] EXCEPT !.flags = @ \ {"SAC"}])
                           \/ h = On(d, [cs[d] EXCEPT !.flags = @ \cup {"CI"}, !.doomed = TRUE])
                           \/ h = On(d, [cs[d] EXCEPT !.timer = "armed", !.rang = FALSE])
                           \/ h = On(d, [cs[d] EXCEPT !.recv = 0])
        \/ FreshIn(cs) # {} /\ h = Connect(cs, l)
    BY <1>2, <2>1 DEF Handled
  <2>4. ASSUME NEW d \in live, NEW r, h = On(d, r), Kept(cs[d], r)
        PROVE  Served(cs, h.cs, l, h.l) /\ acts + h.n \in 0..EvActs
    <3>1. h.cs = [cs EXCEPT ![d] = r] /\ h.l = l /\ h.n = 1
      BY <2>4
    <3>2. d \in EvConns
      BY DEF LiveIn
    <3>. QED  BY <2>2, <2>4, <3>1, <3>2, ServedOne
  <2>5. \A d \in live : cs[d] \in ConnSet /\ cs[d].life \in Alive
    BY DEF LiveIn
  <2>6. CASE FreshIn(cs) # {} /\ h = Connect(cs, l)
    <3>1. h.cs = [cs EXCEPT ![NextIn(cs)] = Opening] /\ h.l = <<NextIn(cs)>> \o l /\ h.n = 1
      BY <2>6 DEF Connect, Opening
    <3>. QED  BY <2>2, <2>6, <3>1, NextIsFresh DEF Served
  <2>. HIDE DEF live, On
  <2>. QED  BY <2>3, <2>4, <2>5, <2>6, KeptChanges
<1>. QED  BY <1>1, <1>2

\* What is true of connections and their list is not undone by a handler.
LEMMA KeptOK ==
    ASSUME NEW r \in ConnSet, NEW q, Kept(r, q), ConnOK(r)
    PROVE  ConnOK(q) /\ (Serves(q) => Serves(r)) /\ (Pushed(r) => Pushed(q))
<1>1. ConnOK(q)
  BY EvAssumption DEF Kept, ConnOK, ConnSet
<1>. QED  BY <1>1 DEF Kept, Serves, Pushed

LEMMA OpeningOK == Opening \in ConnSet /\ ConnOK(Opening) /\ ~Serves(Opening) /\ Pushed(Opening)
<1>1. Opening \in ConnSet
  BY DEF Opening, Blank, ConnSet, Kinds, FlagSet, PeerStates, TimerStates, Lives
<1>2. /\ Opening.kind = "out" /\ Opening.flags = {"CONNECTING"} /\ Opening.life = "new" /\ Opening.timer = "off"
      /\ Opening.recv = 0
  BY DEF Opening, Blank
<1>. QED  BY <1>1, <1>2, EvAssumption DEF ConnOK, Serves, Pushed

LEMMA ServedKeeps ==
    ASSUME NEW cs, NEW ns, NEW l, NEW nl, ConnsOK(cs), Chain(l, cs), Served(cs, ns, l, nl)
    PROVE  /\ ConnsOK(ns) /\ Chain(nl, ns)
           /\ \A c \in ToSet(l) : c \in ToSet(nl) /\ After(c, nl) = After(c, l) /\ Rest(c, nl) = Rest(c, l)
           /\ SingleChild(cs) => SingleChild(ns)
           /\ \A d \in EvConns : /\ Pushed(cs[d]) => Pushed(ns[d])
                                 /\ cs[d].life = "closed" => ns[d].life = "closed"
                                 /\ cs[d].kind # "none" => /\ ns[d].kind = cs[d].kind /\ ns[d].life = cs[d].life
                                                           /\ ns[d].from = cs[d].from
                                                           /\ "CONNECTING" \in ns[d].flags <=> "CONNECTING" \in cs[d].flags
<1>. USE DEF Alive
<1>1. CASE nl = l /\ ns \in [EvConns -> ConnSet] /\ \A d \in EvConns : Kept(cs[d], ns[d])
  <2>1. ConnsOK(ns) /\ \A d \in EvConns : (Serves(ns[d]) => Serves(cs[d])) /\ (Pushed(cs[d]) => Pushed(ns[d]))
    BY <1>1, KeptOK DEF ConnsOK
  <2>2. \A d \in EvConns : /\ ns[d].kind = cs[d].kind /\ ns[d].life = cs[d].life /\ ns[d].from = cs[d].from
                           /\ "CONNECTING" \in ns[d].flags <=> "CONNECTING" \in cs[d].flags
    BY <1>1 DEF Kept
  <2>3. Chain(nl, ns)
    BY <1>1, <2>2 DEF Chain, LiveIn
  <2>4. SingleChild(cs) => SingleChild(ns)
    BY <2>1, <2>2 DEF SingleChild
  <2>. QED  BY <1>1, <2>1, <2>2, <2>3, <2>4
<1>2. ASSUME NEW x \in EvConns, cs[x].kind = "none", ns = [cs EXCEPT ![x] = Opening], nl = <<x>> \o l
      PROVE  /\ ConnsOK(ns) /\ Chain(nl, ns)
             /\ \A c \in ToSet(l) : c \in ToSet(nl) /\ After(c, nl) = After(c, l) /\ Rest(c, nl) = Rest(c, l)
             /\ SingleChild(cs) => SingleChild(ns)
             /\ \A d \in EvConns : d # x => ns[d] = cs[d]
             /\ Pushed(ns[x]) /\ cs[x].life = "none"
  <2>1. \A d \in EvConns : ns[d] = IF d = x THEN Opening ELSE cs[d]
    BY <1>2 DEF ConnsOK
  <2>2. ConnsOK(ns)
    <3>1. ns \in [EvConns -> ConnSet]
      BY <1>2, OpeningOK DEF ConnsOK
    <3>. QED  BY <2>1, <3>1, OpeningOK DEF ConnsOK
  <2>3. cs[x].life = "none" /\ x \notin ToSet(l)
    BY <1>2 DEF ConnsOK, ConnOK, Chain, LiveIn
  <2>4. /\ nl \in Seq(EvConns) /\ IsInjective(nl) /\ ToSet(nl) = {x} \cup ToSet(l)
        /\ \A c \in ToSet(l) : After(c, nl) = After(c, l) /\ Rest(c, nl) = Rest(c, l)
    BY <1>2, <2>3, Prepended DEF Chain
  <2>5. LiveIn(ns) = {x} \cup LiveIn(cs)
    <3>1. Opening.life = "new"
      BY DEF Opening, Blank
    <3>. QED  BY <2>1, <3>1 DEF LiveIn
  <2>6. SingleChild(cs) => SingleChild(ns)
    BY <2>1, OpeningOK DEF SingleChild
  <2>. QED  BY <2>1, <2>2, <2>3, <2>4, <2>5, <2>6, OpeningOK DEF Chain
<1>3. CASE \E x \in EvConns : cs[x].kind = "none" /\ ns = [cs EXCEPT ![x] = Opening] /\ nl = <<x>> \o l
  BY <1>2, <1>3
<1>. QED  BY <1>1, <1>3 DEF Served

\* mg_call: a handler is called on c, after c's life has become life.
LEMMA CallServes ==
    ASSUME acts \in 0..EvActs, odd = {}, NEW cs \in [EvConns -> ConnSet], NEW c \in EvConns, NEW ev, NEW l,
           NEW life \in Lives, Call(c, ev, cs, l, life), InOrder(c, ev)
    PROVE  /\ [cs EXCEPT ![c].life = life] \in [EvConns -> ConnSet]
           /\ Served([cs EXCEPT ![c].life = life], conn', l, list')
           /\ acts' \in 0..EvActs /\ odd' = {}
<1>1. [cs EXCEPT ![c].life = life] \in [EvConns -> ConnSet]
  BY DEF ConnSet
<1>. DEFINE given == [cs EXCEPT ![c].life = life]
<1>2. PICK h \in Handled(given, l, c) : conn' = h.cs /\ list' = h.l /\ acts' = acts + h.n
  BY DEF Call
<1>3. odd' = {}
  BY DEF Call
<1>. HIDE DEF given
<1>4. given \in [EvConns -> ConnSet]
  BY <1>1 DEF given
<1>5. Served(given, conn', l, list') /\ acts' \in 0..EvActs
  BY <1>2, <1>4, HandledServes
<1>. QED  BY <1>1, <1>3, <1>5 DEF given

-----------------------------------------------------------------------------
(***************************************************************************)
(* The walk.                                                               *)
(***************************************************************************)
LEMMA StageGives ==
    ASSUME NEW k, NEW c, NEW cs, NEW p
    PROVE  LET next == Stage(k, c, cs, p)
           IN  /\ next \in {"connect", "read", "write", "poll", "timer", "done"}
               /\ next = "connect" => k = "start" /\ "CONNECTING" \in cs[c].flags
               /\ next = "read" => k = "connect" \/ (k = "start" /\ "CONNECTING" \notin cs[c].flags)
               /\ next = "timer" => cs[c].timer = "due"
               /\ next = "write" => "CI" \notin cs[c].flags /\ (k = "start" => "CONNECTING" \notin cs[c].flags)
               /\ next = "write" => k \in {"start", "connect", "read", "child"}
               /\ next \in {"poll", "timer"} => k \in {"write", "poll"} \/ "CI" \notin cs[c].flags
BY DEF Stage

\* Where the pass q is in the list l of the connections cs.
WalkOK(q, l, cs) ==
    /\ q \in PassSet /\ q.at \in {"walk", "close"}
    /\ q.cur \in ToSet(l) /\ q.nxt = After(q.cur, l)
    /\ q.at = "walk" => /\ q.todo = Rest(q.cur, l)
                        /\ q.stage # "child"
                        /\ q.stage = "connect" => "CONNECTING" \in cs[q.cur].flags
                        /\ q.stage = "read" => "CONNECTING" \notin cs[q.cur].flags
                        /\ q.stage = "timer" => cs[q.cur].timer = "due"
                        /\ q.stage = "write" => "CONNECTING" \notin cs[q.cur].flags /\ "CI" \notin cs[q.cur].flags
                        /\ q.stage \in {"poll", "timer"} => cs[q.cur].life # "failed"

LEMMA AfterType ==
    ASSUME NEW l \in Seq(EvConns), IsInjective(l), NEW c \in ToSet(l)
    PROVE  c \in EvConns /\ After(c, l) \in EvConns \cup {NoConn} /\ Rest(c, l) \subseteq EvConns
<1>1. ToSet(l) \subseteq EvConns
  BY DEF ToSet
<1>2. Rest(c, l) \subseteq EvConns
  BY DEF Rest
<1>. QED  BY <1>1, <1>2, Following

LEMMA NoConnIsNone == NoConn \notin EvConns
BY EvAssumption, FS_CardinalityType DEF NoConn

LEMMA VisitGives ==
    ASSUME NEW l \in Seq(EvConns), IsInjective(l), l # <<>>, NEW c \in ToSet(l) \cup {NoConn}, NEW cs,
           NEW p, p.todo \subseteq EvConns, p.rd \subseteq EvConns, p.wr \subseteq EvConns,
           c # NoConn => p.todo \ {c} = Rest(c, l),
           \A d \in ToSet(l) : cs[d].life = "failed" => "CI" \in cs[d].flags
    PROVE  WalkOK(Visit(c, l, cs, p), l, cs)
<1>1. CASE c = NoConn
  <2>1. Head(l) \in ToSet(l)
    BY DEF ToSet
  <2>2. Head(l) \in EvConns /\ After(Head(l), l) \in EvConns \cup {NoConn}
    BY <2>1, AfterType
  <2>. DEFINE q == [at |-> "close", cur |-> Head(l), nxt |-> After(Head(l), l), stage |-> "none",
                    todo |-> {}, rd |-> {}, wr |-> {}]
  <2>3. Visit(c, l, cs, p) = q
    BY <1>1 DEF Visit, Idle
  <2>4. q \in PassSet
    BY <2>2 DEF PassSet, Places, Stages
  <2>. QED  BY <2>1, <2>3, <2>4 DEF WalkOK
<1>2. CASE c # NoConn
  <2>1. c \in ToSet(l)
    BY <1>2
  <2>2. c \in EvConns /\ After(c, l) \in EvConns \cup {NoConn} /\ Rest(c, l) \subseteq EvConns
    BY <2>1, AfterType
  <2>. DEFINE k == Stage("start", c, cs, p)
              q == [at |-> "walk", cur |-> c, nxt |-> After(c, l), stage |-> k,
                    todo |-> p.todo \ {c}, rd |-> p.rd \ {p.cur}, wr |-> p.wr \ {p.cur}]
  <2>3. Visit(c, l, cs, p) = q
    BY <1>2 DEF Visit
  <2>4. /\ k \in {"connect", "read", "write", "poll", "timer", "done"}
        /\ k = "connect" => "CONNECTING" \in cs[c].flags
        /\ k = "read" => "CONNECTING" \notin cs[c].flags
        /\ k = "timer" => cs[c].timer = "due"
        /\ k = "write" => "CONNECTING" \notin cs[c].flags /\ "CI" \notin cs[c].flags
        /\ k \in {"poll", "timer"} => "CI" \notin cs[c].flags
    BY StageGives
  <2>. HIDE DEF k
  <2>5. q \in PassSet
    BY <2>2, <2>4 DEF PassSet, Places, Stages
  <2>. QED  BY <1>2, <2>1, <2>3, <2>4, <2>5 DEF WalkOK
<1>. QED  BY <1>1, <1>2

\* What follows a handler: another stage of this connection, or the next connection.
LEMMA GoGives ==
    ASSUME pass \in PassSet, pass.at = "walk", list' \in Seq(EvConns), IsInjective(list'),
           pass.cur \in ToSet(list'), pass.nxt = After(pass.cur, list'), pass.todo = Rest(pass.cur, list'),
           pass.stage \in {"connect", "read", "child"} => "CONNECTING" \notin conn'[pass.cur].flags,
           pass.stage \in {"write", "poll"} => conn'[pass.cur].life # "failed",
           \A d \in ToSet(list') : conn'[d].life = "failed" => "CI" \in conn'[d].flags, Go
    PROVE  WalkOK(pass', list', conn')
<1>. DEFINE k == Stage(pass.stage, pass.cur, conn', pass)
<1>1. /\ k \in {"connect", "read", "write", "poll", "timer", "done"}
      /\ k = "connect" => pass.stage = "start" /\ "CONNECTING" \in conn'[pass.cur].flags
      /\ k = "read" => pass.stage = "connect" \/ (pass.stage = "start" /\ "CONNECTING" \notin conn'[pass.cur].flags)
      /\ k = "timer" => conn'[pass.cur].timer = "due"
      /\ k = "write" => "CONNECTING" \notin conn'[pass.cur].flags /\ "CI" \notin conn'[pass.cur].flags
      /\ k \in {"poll", "timer"} => conn'[pass.cur].life # "failed"
  BY StageGives
<1>2. pass' = IF k # "done" THEN [pass EXCEPT !.stage = k] ELSE Visit(pass.nxt, list', conn', pass)
  BY DEF Go
<1>. HIDE DEF k
<1>3. CASE k # "done"
  <2>1. pass' = [pass EXCEPT !.stage = k]
    BY <1>2, <1>3
  <2>2. /\ pass' \in PassSet /\ pass'.at = pass.at /\ pass'.cur = pass.cur /\ pass'.nxt = pass.nxt
        /\ pass'.stage = k /\ pass'.todo = pass.todo
    BY <1>1, <2>1 DEF PassSet, Stages
  <2>. QED  BY <1>1, <2>2 DEF WalkOK
<1>4. CASE k = "done"
  <2>1. pass' = Visit(pass.nxt, list', conn', pass)
    BY <1>2, <1>4
  <2>2. \/ pass.nxt = NoConn
        \/ pass.nxt \in ToSet(list') /\ pass.todo \ {pass.nxt} = Rest(pass.nxt, list')
    BY Following
  <2>3. pass.todo \subseteq EvConns /\ pass.rd \subseteq EvConns /\ pass.wr \subseteq EvConns
    BY DEF PassSet
  <2>4. list' # <<>>
    BY DEF ToSet
  <2>. QED  BY <2>1, <2>2, <2>3, <2>4, VisitGives
<1>. QED  BY <1>3, <1>4

LEMMA WalkDone ==
    ASSUME WalkOK(pass', list', conn'), ConnsOK(conn'), Chain(list', conn'), SingleChild(conn'),
           \A c \in EvConns : Pushed(conn'[c]),
           backlog' \in Nat, dgrams' \in Seq(EvSources), came' \in Nat, acts' \in 0..EvActs, odd' = {}
    PROVE  EvInv'
<1>1. EvDomains'
  BY DEF EvDomains, WalkOK
<1>2. Walking' /\ WalkCovers' /\ StageOK'
  BY DEF Walking, WalkCovers, StageOK, WalkOK
<1>3. AllPushed' /\ Freeing'
  BY DEF AllPushed, Freeing, WalkOK
<1>4. ConnsOK(conn)' /\ Chain(list, conn)' /\ SingleChild(conn)'
  BY DEF ConnsOK, Chain, SingleChild, LiveIn
<1>. QED  BY <1>1, <1>2, <1>3, <1>4 DEF EvInv

\* A step of the first walk: the program makes cs and l of the connections and their list,
\* and then a handler may act.
LEMMA WalkStep ==
    ASSUME EvInv, pass.at = "walk", NEW cs, NEW l,
           ConnsOK(cs), Chain(l, cs), SingleChild(cs), \A c \in EvConns : Pushed(cs[c]),
           \A c \in ToSet(list) : c \in ToSet(l) /\ After(c, l) = After(c, list) /\ Rest(c, l) = Rest(c, list),
           Served(cs, conn', l, list'), acts' \in 0..EvActs, odd' = {},
           pass.stage = "connect" => "CONNECTING" \notin cs[pass.cur].flags,
           pass.stage # "connect" => cs[pass.cur].life = conn[pass.cur].life,
           backlog' \in Nat, dgrams' \in Seq(EvSources), came' \in Nat, Go
    PROVE  EvInv'
<1>1. pass \in PassSet /\ pass.cur \in ToSet(list) /\ pass.nxt = After(pass.cur, list) /\ pass.todo = Rest(pass.cur, list)
  BY DEF EvInv, EvDomains, Walking, WalkCovers
<1>2. pass.cur \in ToSet(l) /\ pass.nxt = After(pass.cur, l) /\ pass.todo = Rest(pass.cur, l)
  BY <1>1
<1>3. /\ ConnsOK(conn') /\ Chain(list', conn') /\ SingleChild(conn') /\ \A c \in EvConns : Pushed(conn'[c])
      /\ \A c \in ToSet(l) : c \in ToSet(list') /\ After(c, list') = After(c, l) /\ Rest(c, list') = Rest(c, l)
  BY ServedKeeps
<1>4. pass.cur \in EvConns /\ cs[pass.cur].kind # "none"
  BY <1>2 DEF Chain, LiveIn, ConnsOK, ConnOK
<1>5. /\ pass.stage = "connect" => "CONNECTING" \notin conn'[pass.cur].flags
      /\ pass.stage # "connect" => conn'[pass.cur].life = conn[pass.cur].life
  BY <1>4, ServedKeeps
<1>8. ConnOK(conn[pass.cur]) /\ \A d \in EvConns : ConnOK(conn'[d])
  BY <1>3, <1>4 DEF EvInv, ConnsOK
<1>9. /\ pass.stage \in {"connect", "read", "child"} => "CONNECTING" \notin conn'[pass.cur].flags
      /\ pass.stage \in {"write", "poll"} => conn'[pass.cur].life # "failed"
  BY <1>4, <1>5, <1>8 DEF EvInv, StageOK, ConnOK
<1>6. /\ list' \in Seq(EvConns) /\ IsInjective(list')
      /\ pass.cur \in ToSet(list') /\ pass.nxt = After(pass.cur, list') /\ pass.todo = Rest(pass.cur, list')
  BY <1>2, <1>3 DEF Chain
<1>10. \A d \in ToSet(list') : conn'[d].life = "failed" => "CI" \in conn'[d].flags
  BY <1>3, <1>8 DEF Chain, LiveIn, ConnOK
<1>7. WalkOK(pass', list', conn')
  BY <1>1, <1>6, <1>9, <1>10, GoGives
<1>. QED  BY <1>3, <1>7, WalkDone

\* One connection is changed, and neither ends nor becomes another one's child.
LEMMA OneChanged ==
    ASSUME EvInv, NEW c \in EvConns, NEW r \in ConnSet, ConnOK(r), conn[c].life \in Alive, r.life \in Alive,
           r.kind = conn[c].kind, r.from = conn[c].from, pass.at \notin {"free", "freed"} => \A d \in EvConns : Pushed(conn[d])
    PROVE  LET cs == [conn EXCEPT ![c] = r]
           IN  /\ ConnsOK(cs) /\ Chain(list, cs) /\ SingleChild(cs)
               /\ pass.at \notin {"free", "freed"} => \A d \in EvConns : Pushed(cs[d])
               /\ cs[c] = r
<1>. DEFINE cs == [conn EXCEPT ![c] = r]
<1>1. ConnsOK(conn) /\ Chain(list, conn) /\ SingleChild(conn)
  BY DEF EvInv
<1>2. cs \in [EvConns -> ConnSet] /\ \A d \in EvConns : cs[d] = IF d = c THEN r ELSE conn[d]
  BY <1>1 DEF ConnsOK
<1>. HIDE DEF cs
<1>3. ConnsOK(cs)
  BY <1>1, <1>2 DEF ConnsOK
<1>4. LiveIn(cs) = LiveIn(conn)
  BY <1>2 DEF LiveIn, Alive
<1>5. SingleChild(cs)
  BY <1>1, <1>2 DEF SingleChild, Serves
<1>6. pass.at \notin {"free", "freed"} => \A d \in EvConns : Pushed(cs[d])
  BY <1>2 DEF Pushed, Alive
<1>. QED  BY <1>1, <1>2, <1>3, <1>4, <1>5, <1>6 DEF Chain, cs

\* The connection in hand lives.
LEMMA InHand ==
    ASSUME EvInv, pass.at \in {"walk", "close", "free"}
    PROVE  /\ pass.cur \in EvConns /\ conn[pass.cur] \in ConnSet /\ ConnOK(conn[pass.cur])
           /\ conn[pass.cur].life \in Alive /\ conn[pass.cur].kind # "none"
<1>1. pass.cur \in ToSet(list) /\ Chain(list, conn) /\ ConnsOK(conn)
  BY DEF EvInv, Walking
<1>. QED  BY <1>1 DEF Chain, LiveIn, ConnsOK, ConnOK, Alive

\* A handler is called on c during the first walk, after c has become r.
LEMMA CallStep ==
    ASSUME EvInv, pass.at = "walk", NEW c \in EvConns, conn[c].life \in Alive, NEW cs, NEW r \in ConnSet, NEW ev, NEW life \in Lives,
           cs \in [EvConns -> ConnSet], [cs EXCEPT ![c].life = life] = [conn EXCEPT ![c] = r],
           Call(c, ev, cs, list, life), InOrder(c, ev),
           ConnOK(r), r.life \in Alive, r.kind = conn[c].kind, r.from = conn[c].from,
           pass.stage = "connect" => pass.cur = c /\ "CONNECTING" \notin r.flags,
           pass.stage # "connect" => r.life = conn[c].life,
           backlog' \in Nat, dgrams' \in Seq(EvSources), came' \in Nat, Go
    PROVE  EvInv'
<1>1. acts \in 0..EvActs /\ odd = {} /\ \A d \in EvConns : Pushed(conn[d])
  BY DEF EvInv, EvDomains, AllPushed
<1>. DEFINE now == [conn EXCEPT ![c] = r]
<1>2. Served(now, conn', list, list') /\ acts' \in 0..EvActs /\ odd' = {}
  <2>1. Served([cs EXCEPT ![c].life = life], conn', list, list') /\ acts' \in 0..EvActs /\ odd' = {}
    BY <1>1, CallServes
  <2>. QED  BY <2>1
<1>3. /\ ConnsOK(now) /\ Chain(list, now) /\ SingleChild(now) /\ \A d \in EvConns : Pushed(now[d])
      /\ now[c] = r
  BY <1>1, OneChanged
<1>5. \A d \in EvConns : d # c => now[d] = conn[d]
  BY DEF EvInv, ConnsOK
<1>6. pass.cur \in EvConns
  BY InHand
<1>. HIDE DEF now
<1>4. /\ pass.stage = "connect" => "CONNECTING" \notin now[pass.cur].flags
      /\ pass.stage # "connect" => now[pass.cur].life = conn[pass.cur].life
  BY <1>3, <1>5, <1>6
<1>. QED  BY <1>2, <1>3, <1>4, WalkStep

\* No handler is called.
LEMMA QuietStep ==
    ASSUME EvInv, pass.at = "walk", pass.stage # "connect", NEW c \in EvConns, conn[c].life \in Alive, NEW r \in ConnSet,
           conn' = [conn EXCEPT ![c] = r], UNCHANGED <<list, odd, acts>>,
           ConnOK(r), r.life \in Alive, r.life = conn[c].life, r.kind = conn[c].kind, r.from = conn[c].from,
           backlog' \in Nat, dgrams' \in Seq(EvSources), came' \in Nat, Go
    PROVE  EvInv'
<1>1. acts \in 0..EvActs /\ odd = {} /\ \A d \in EvConns : Pushed(conn[d])
  BY DEF EvInv, EvDomains, AllPushed
<1>2. ConnsOK(conn') /\ Chain(list, conn') /\ SingleChild(conn') /\ \A d \in EvConns : Pushed(conn'[d])
  BY <1>1, OneChanged
<1>3. Served(conn', conn', list, list')
  BY <1>2, ServedSame DEF ConnsOK
<1>4. \A d \in EvConns : conn'[d].life = conn[d].life
  BY DEF EvInv, ConnsOK
<1>5. conn'[pass.cur].life = conn[pass.cur].life
  BY <1>4, InHand
<1>. QED  BY <1>1, <1>2, <1>3, <1>5, WalkStep

LEMMA KeepsRest ==
    ASSUME EvInv, UNCHANGED <<backlog, dgrams, came>>
    PROVE  backlog' \in Nat /\ dgrams' \in Seq(EvSources) /\ came' \in Nat
BY DEF EvInv, EvDomains

-----------------------------------------------------------------------------
(***************************************************************************)
(* The actions of the first walk.                                          *)
(***************************************************************************)
LEMMA ConnectStep == EvInv /\ HandleConnect => EvInv'
<1>. SUFFICES ASSUME EvInv, HandleConnect PROVE EvInv'
  OBVIOUS
<1>. DEFINE c == pass.cur
            bad == conn[c].peer = "broken"
            fs == (conn[c].flags \ {"CONNECTING"}) \cup (IF bad THEN {"CI"} ELSE {})
            life == IF bad THEN "failed" ELSE "open"
            r == [conn[c] EXCEPT !.flags = fs, !.life = life]
            cs == [conn EXCEPT ![c].flags = fs]
<1>1. pass.at = "walk" /\ pass.stage = "connect" /\ Call(c, "connect", cs, list, life) /\ Go
      /\ UNCHANGED <<backlog, dgrams, came>>
  BY DEF HandleConnect, At
<1>2. /\ c \in EvConns /\ conn[c] \in ConnSet /\ ConnOK(conn[c]) /\ conn[c].life \in Alive
  BY <1>1, InHand
<1>3. "CONNECTING" \in conn[c].flags /\ conn \in [EvConns -> ConnSet]
  BY <1>1 DEF EvInv, StageOK, ConnsOK
<1>4. conn[c].life = "new" /\ conn[c].kind = "out" /\ conn[c].flags \in FlagSet
  BY <1>2, <1>3 DEF ConnOK, ConnSet
<1>5. fs \in FlagSet /\ "CONNECTING" \notin fs /\ ("CI" \in fs <=> "CI" \in conn[c].flags \/ bad)
  BY <1>4 DEF FlagSet
<1>6. life \in {"open", "failed"} /\ (life = "failed" <=> bad)
  OBVIOUS
<1>. HIDE DEF fs, life
<1>7. /\ r \in ConnSet /\ r.flags = fs /\ r.life = life /\ r.kind = conn[c].kind /\ r.from = conn[c].from
      /\ r.peer = conn[c].peer /\ r.recv = conn[c].recv /\ r.timer = conn[c].timer
      /\ (r.rang <=> conn[c].rang) /\ (r.doomed <=> conn[c].doomed)
  BY <1>2, <1>5, <1>6 DEF ConnSet, Lives
<1>8. cs \in [EvConns -> ConnSet]
  BY <1>2, <1>3, <1>5 DEF ConnSet
<1>9. [cs EXCEPT ![c].life = life] = [conn EXCEPT ![c] = r]
  BY <1>2, <1>3
<1>10. ConnOK(r)
  BY <1>2, <1>4, <1>5, <1>6, <1>7 DEF ConnOK
<1>11. InOrder(c, "connect")
  BY <1>4 DEF InOrder
<1>12. r.life \in Alive /\ life \in Lives
  BY <1>6, <1>7 DEF Alive, Lives
<1>. HIDE DEF r, cs
<1>. QED
  BY <1>1, <1>2, <1>5, <1>7, <1>8, <1>9, <1>10, <1>11, <1>12, KeepsRest, CallStep

\* A connection is added at the head of the list, and its handler is called: mg_accept_conn and mg_if_recv_udp_cb.
LEMMA AddedStep ==
    ASSUME EvInv, pass.at = "walk", Fresh # {}, NEW r \in ConnSet, r.life = "new", r.kind \in {"acc", "child"}, r.flags \subseteq {"SAC"},
           r.timer = "off", r.recv = 0, r.kind = "child" => Child(r.from) = {},
           Call(NextId, "accept", [conn EXCEPT ![NextId] = r], <<NextId>> \o list, "open")
    PROVE  \E now : \E l : 
             /\ ConnsOK(now) /\ Chain(l, now) /\ SingleChild(now) /\ \A d \in EvConns : Pushed(now[d])
             /\ \A d \in ToSet(list) : /\ d \in ToSet(l) /\ After(d, l) = After(d, list) /\ Rest(d, l) = Rest(d, list)
                                       /\ now[d] = conn[d]
             /\ Served(now, conn', l, list') /\ acts' \in 0..EvActs /\ odd' = {}
             /\ NextId \in EvConns /\ now[NextId].kind = r.kind /\ now[NextId].life = "open" /\ now[NextId].from = r.from
<1>. DEFINE c == NextId
            cs == [conn EXCEPT ![c] = r]
            now == [cs EXCEPT ![c].life = "open"]
            l == <<c>> \o list
            q == [r EXCEPT !.life = "open"]
<1>1. /\ ConnsOK(conn) /\ Chain(list, conn) /\ SingleChild(conn) /\ \A d \in EvConns : Pushed(conn[d])
      /\ acts \in 0..EvActs /\ odd = {} /\ conn \in [EvConns -> ConnSet]
  BY DEF EvInv, EvDomains, AllPushed, ConnsOK
<1>2. c \in EvConns /\ conn[c].kind = "none"
  BY NextIsFresh DEF Fresh, NextId
<1>3. conn[c].life = "none" /\ c \notin ToSet(list)
  BY <1>1, <1>2 DEF ConnsOK, ConnOK, Chain, LiveIn
<1>. HIDE DEF c
<1>4. /\ q \in ConnSet /\ q.life = "open" /\ q.kind = r.kind /\ q.from = r.from /\ q.flags = r.flags
      /\ q.timer = r.timer /\ q.recv = r.recv
  BY DEF ConnSet, Lives
<1>5. ConnOK(q)
  BY <1>4, EvAssumption DEF ConnOK
<1>6. cs \in [EvConns -> ConnSet] /\ now = [conn EXCEPT ![c] = q]
  BY <1>1, <1>2
<1>7. InOrder(c, "accept")
  BY <1>3 DEF InOrder
<1>8. Served(now, conn', l, list') /\ acts' \in 0..EvActs /\ odd' = {}
  <2>1. Call(c, "accept", cs, l, "open")
    BY DEF c
  <2>2. "open" \in Lives
    BY DEF Lives
  <2>. HIDE DEF cs, l
  <2>. QED  BY <1>1, <1>2, <1>6, <1>7, <2>1, <2>2, CallServes
<1>. HIDE DEF q
<1>9. \A d \in EvConns : now[d] = IF d = c THEN q ELSE conn[d]
  BY <1>1, <1>6
<1>10. now \in [EvConns -> ConnSet]
  BY <1>1, <1>2, <1>4, <1>6
<1>. HIDE DEF now, cs
<1>11. ConnsOK(now) /\ \A d \in EvConns : Pushed(now[d])
  BY <1>1, <1>4, <1>5, <1>9, <1>10 DEF ConnsOK, Pushed
<1>12. /\ l \in Seq(EvConns) /\ IsInjective(l) /\ ToSet(l) = {c} \cup ToSet(list)
       /\ \A d \in ToSet(list) : After(d, l) = After(d, list) /\ Rest(d, l) = Rest(d, list)
  BY <1>1, <1>2, <1>3, Prepended DEF Chain
<1>. HIDE DEF l
<1>13. Chain(l, now)
  <2>1. LiveIn(now) = {c} \cup LiveIn(conn)
    BY <1>2, <1>4, <1>9 DEF LiveIn
  <2>. QED  BY <1>1, <1>12, <2>1 DEF Chain
<1>14. SingleChild(now)
  <2>1. ASSUME NEW d \in EvConns, Serves(conn[d]), conn[d].from = q.from PROVE ~Serves(q)
    <3>1. d \in Child(r.from)
      BY <1>4, <2>1 DEF Child, Live, LiveIn, Serves, Alive
    <3>. QED  BY <1>4, <3>1 DEF Serves
  <2>. QED  BY <1>1, <1>9, <2>1 DEF SingleChild
<1>15. \A d \in ToSet(list) : d \in EvConns /\ d # c
  BY <1>1, <1>3 DEF Chain, LiveIn
<1>16. now[c].kind = r.kind /\ now[c].life = "open" /\ now[c].from = r.from
  BY <1>2, <1>4, <1>9
<1>. QED  BY <1>2, <1>8, <1>9, <1>11, <1>12, <1>13, <1>14, <1>15, <1>16 DEF c

\* Nothing is changed.
LEMMA SameStep ==
    ASSUME EvInv, pass.at = "walk", pass.stage # "connect", UNCHANGED <<conn, list, odd, acts>>,
           backlog' \in Nat, dgrams' \in Seq(EvSources), came' \in Nat, Go
    PROVE  EvInv'
<1>1. /\ ConnsOK(conn) /\ Chain(list, conn) /\ SingleChild(conn) /\ \A d \in EvConns : Pushed(conn[d])
      /\ acts \in 0..EvActs /\ odd = {}
  BY DEF EvInv, EvDomains, AllPushed
<1>2. Served(conn, conn', list, list')
  BY <1>1, ServedSame DEF ConnsOK
<1>. QED  BY <1>1, <1>2, WalkStep

LEMMA NewAccepted ==
    LET r == [Blank EXCEPT !.kind = "acc", !.life = "new"]
    IN  /\ r \in ConnSet /\ r.life = "new" /\ r.kind = "acc" /\ r.flags = {} /\ r.timer = "off" /\ r.recv = 0
BY DEF Blank, ConnSet, Kinds, FlagSet, PeerStates, TimerStates, Lives

LEMMA NewChild ==
    ASSUME NEW s \in EvSources
    PROVE  LET r == [Blank EXCEPT !.kind = "child", !.from = s, !.flags = {"SAC"}, !.life = "new"]
           IN  /\ r \in ConnSet /\ r.life = "new" /\ r.kind = "child" /\ r.flags = {"SAC"} /\ r.timer = "off" /\ r.recv = 0
               /\ r.from = s
BY DEF Blank, ConnSet, Kinds, FlagSet, PeerStates, TimerStates, Lives

LEMMA AcceptStep == EvInv /\ HandleAccept => EvInv'
<1>. SUFFICES ASSUME EvInv, HandleAccept PROVE EvInv'
  OBVIOUS
<1>1. pass.at = "walk" /\ pass.stage = "read" /\ UNCHANGED <<dgrams, came>> /\ Go
  BY DEF HandleAccept, At
<1>2. backlog \in Nat /\ dgrams' \in Seq(EvSources) /\ came' \in Nat
  BY <1>1 DEF EvInv, EvDomains
<1>3. CASE backlog = 0 \/ Fresh = {}
  <2>1. UNCHANGED <<conn, list, odd, acts, backlog>>
    BY <1>3 DEF HandleAccept
  <2>. QED  BY <1>1, <1>2, <2>1, SameStep
<1>4. CASE ~(backlog = 0 \/ Fresh = {})
  <2>. DEFINE r == [Blank EXCEPT !.kind = "acc", !.life = "new"]
  <2>1. backlog' = backlog - 1 /\ Call(NextId, "accept", [conn EXCEPT ![NextId] = r], <<NextId>> \o list, "open")
    BY <1>4 DEF HandleAccept
  <2>2. backlog' \in Nat
    BY <1>2, <1>4, <2>1
  <2>3. r \in ConnSet /\ r.life = "new" /\ r.kind = "acc" /\ r.flags = {} /\ r.timer = "off" /\ r.recv = 0
    BY NewAccepted
  <2>. HIDE DEF r
  <2>4. PICK now, l :
             /\ ConnsOK(now) /\ Chain(l, now) /\ SingleChild(now) /\ \A d \in EvConns : Pushed(now[d])
             /\ \A d \in ToSet(list) : /\ d \in ToSet(l) /\ After(d, l) = After(d, list) /\ Rest(d, l) = Rest(d, list)
                                       /\ now[d] = conn[d]
             /\ Served(now, conn', l, list') /\ acts' \in 0..EvActs /\ odd' = {}
    BY <1>1, <1>4, <2>1, <2>3, AddedStep
  <2>5. now[pass.cur].life = conn[pass.cur].life
    BY <1>1, <2>4 DEF EvInv, Walking
  <2>. QED  BY <1>1, <1>2, <2>2, <2>4, <2>5, WalkStep
<1>. QED  BY <1>3, <1>4

LEMMA LifeKept ==
    ASSUME NEW cs \in [EvConns -> ConnSet], NEW c \in EvConns
    PROVE  [cs EXCEPT ![c].life = cs[c].life] = cs
<1>1. cs[c] = [cs[c] EXCEPT !.life = cs[c].life]
  BY DEF ConnSet
<1>. QED  BY <1>1

\* mg_recv_common: c, of which q.in bytes are left in its socket, is given n bytes.
LEMMA ReceiveStep ==
    ASSUME EvInv, pass.at = "walk", pass.stage # "connect", NEW c \in EvConns, conn[c].life \in Alive,
           "CONNECTING" \notin conn[c].flags, NEW n \in Nat, NEW k \in Nat, NEW cs,
           cs = [conn EXCEPT ![c] = [conn[c] EXCEPT !.in = k]],
           conn[c].kind \in {"acc", "out"} => conn[c].recv + n <= EvRecvMax, Receive(c, n, cs),
           backlog' \in Nat, dgrams' \in Seq(EvSources), came' \in Nat, Go
    PROVE  EvInv'
<1>. DEFINE q == [conn[c] EXCEPT !.in = k]
            m == conn[c].recv + n
            r == [conn[c] EXCEPT !.in = k, !.recv = m]
<1>1. conn[c] \in ConnSet /\ ConnOK(conn[c]) /\ conn \in [EvConns -> ConnSet]
  BY DEF EvInv, ConnsOK
<1>2. /\ q \in ConnSet /\ q.kind = conn[c].kind /\ q.from = conn[c].from /\ q.life = conn[c].life
      /\ q.flags = conn[c].flags /\ q.peer = conn[c].peer /\ q.timer = conn[c].timer /\ q.recv = conn[c].recv
      /\ (q.doomed <=> conn[c].doomed) /\ (q.rang <=> conn[c].rang)
  BY <1>1 DEF ConnSet
<1>3. m \in Nat
  BY <1>1 DEF ConnSet
<1>4. conn[c].kind \in {"acc", "out"} => m <= EvRecvMax
  OBVIOUS
<1>. HIDE DEF m
<1>5. /\ r \in ConnSet /\ r.kind = conn[c].kind /\ r.from = conn[c].from /\ r.life = conn[c].life
      /\ r.flags = conn[c].flags /\ r.peer = conn[c].peer /\ r.timer = conn[c].timer /\ r.recv = m
      /\ (r.doomed <=> conn[c].doomed) /\ (r.rang <=> conn[c].rang)
  BY <1>1, <1>3 DEF ConnSet
<1>6. CASE Has(c, "CI")
  <2>1. conn' = cs /\ UNCHANGED <<list, odd, acts>>
    BY <1>6 DEF Receive
  <2>2. ConnOK(q)
    BY <1>1, <1>2 DEF ConnOK
  <2>3. conn' = [conn EXCEPT ![c] = q]
    BY <2>1
  <2>. HIDE DEF q
  <2>. QED  BY <1>2, <2>1, <2>2, <2>3, QuietStep
<1>7. CASE ~Has(c, "CI")
  <2>. DEFINE given == [cs EXCEPT ![c].recv = @ + n]
  <2>1. Call(c, "recv", given, list, conn[c].life)
    BY <1>7 DEF Receive
  <2>2. given = [conn EXCEPT ![c] = r]
    BY <1>1 DEF m
  <2>3. given \in [EvConns -> ConnSet]
    BY <1>1, <1>5, <2>2
  <2>4. [given EXCEPT ![c].life = conn[c].life] = [conn EXCEPT ![c] = r]
    <3>1. given[c].life = conn[c].life
      BY <1>1, <1>5, <2>2
    <3>. HIDE DEF given, r
    <3>2. [given EXCEPT ![c].life = given[c].life] = given
      BY <2>3, LifeKept
    <3>. QED  BY <2>2, <3>1, <3>2
  <2>5. ConnOK(r)
    BY <1>1, <1>4, <1>5 DEF ConnOK
  <2>6. conn[c].life = "open"
    BY <1>1, <1>7 DEF ConnOK, Has, Alive
  <2>7. InOrder(c, "recv")
    BY <1>7, <2>6 DEF InOrder
  <2>8. conn[c].life \in Lives
    BY <2>6 DEF Lives
  <2>. HIDE DEF r, given
  <2>. QED  BY <1>5, <2>1, <2>3, <2>4, <2>5, <2>7, <2>8, CallStep
<1>. QED  BY <1>6, <1>7

LEMMA ReadStep == EvInv /\ HandleRead => EvInv'
<1>. SUFFICES ASSUME EvInv, HandleRead PROVE EvInv'
  OBVIOUS
<1>. DEFINE c == pass.cur
            room == EvRecvMax - conn[c].recv
            n == IF conn[c].in > room THEN room ELSE conn[c].in
<1>1. pass.at = "walk" /\ pass.stage = "read" /\ c # 1 /\ Go /\ UNCHANGED <<backlog, dgrams, came>>
  BY DEF HandleRead, At
<1>2. /\ c \in EvConns /\ conn[c] \in ConnSet /\ ConnOK(conn[c]) /\ conn[c].life \in Alive
      /\ conn \in [EvConns -> ConnSet]
  BY <1>1, InHand DEF EvInv, ConnsOK
<1>3. "CONNECTING" \notin conn[c].flags
  BY <1>1 DEF EvInv, StageOK
<1>4. conn[c].in \in Nat /\ conn[c].recv \in Nat /\ room \in Int
  BY <1>2, EvAssumption DEF ConnSet
<1>5. CASE n > 0
  <2>1. Receive(c, n, [conn EXCEPT ![c].in = @ - n])
    BY <1>5 DEF HandleRead
  <2>2. n \in Nat /\ conn[c].in - n \in Nat /\ conn[c].recv + n <= EvRecvMax
    <3>. DEFINE x == conn[c].in  y == conn[c].recv  z == x - n
    <3>1. x \in Nat /\ y \in Nat /\ EvRecvMax \in Nat /\ n > 0 /\ n = IF x > EvRecvMax - y THEN EvRecvMax - y ELSE x
      BY <1>4, <1>5, EvAssumption
    <3>. HIDE DEF x, y, n
    <3>2. n \in Nat /\ z \in Nat /\ y + n <= EvRecvMax
      BY <3>1
    <3>. QED  BY <3>2 DEF x, y
  <2>. DEFINE k == conn[c].in - n
  <2>3. [conn EXCEPT ![c].in = @ - n] = [conn EXCEPT ![c] = [conn[c] EXCEPT !.in = k]]
    BY <1>2
  <2>. HIDE DEF n, k
  <2>4. Receive(c, n, [conn EXCEPT ![c] = [conn[c] EXCEPT !.in = k]])
    BY <2>1, <2>3
  <2>5. n \in Nat /\ k \in Nat /\ conn[c].recv + n <= EvRecvMax
    BY <2>2 DEF k
  <2>6. backlog' \in Nat /\ dgrams' \in Seq(EvSources) /\ came' \in Nat
    BY <1>1, KeepsRest
  <2>. HIDE DEF c
  <2>. QED  BY <1>1, <1>2, <1>3, <2>4, <2>5, <2>6, ReceiveStep
<1>6. CASE ~(n > 0)
  <2>. DEFINE fs == conn[c].flags \cup (IF conn[c].peer = "broken" THEN {"CI"}
                                        ELSE IF conn[c].peer = "shut" \/ conn[c].recv = EvRecvMax THEN {"SAC"} ELSE {})
              r == [conn[c] EXCEPT !.flags = fs]
  <2>1. conn' = [conn EXCEPT ![c].flags = fs] /\ UNCHANGED <<list, odd, acts>>
    BY <1>6 DEF HandleRead
  <2>2. conn[c].flags \in FlagSet
    BY <1>2 DEF ConnSet
  <2>3. fs \in FlagSet /\ "CONNECTING" \notin fs /\ conn[c].flags \subseteq fs
        /\ ("CI" \in fs => "CI" \in conn[c].flags \/ conn[c].peer = "broken")
    BY <1>3, <2>2 DEF FlagSet
  <2>. HIDE DEF fs
  <2>4. /\ r \in ConnSet /\ r.kind = conn[c].kind /\ r.from = conn[c].from /\ r.life = conn[c].life
        /\ r.flags = fs /\ r.peer = conn[c].peer /\ r.timer = conn[c].timer /\ r.recv = conn[c].recv
        /\ (r.doomed <=> conn[c].doomed) /\ (r.rang <=> conn[c].rang)
    BY <1>2, <2>3 DEF ConnSet
  <2>5. ConnOK(r)
    BY <1>2, <1>3, <2>3, <2>4 DEF ConnOK
  <2>6. conn' = [conn EXCEPT ![c] = r]
    BY <1>2, <2>1
  <2>7. backlog' \in Nat /\ dgrams' \in Seq(EvSources) /\ came' \in Nat
    BY <1>1, KeepsRest
  <2>. HIDE DEF r, c
  <2>. QED  BY <1>1, <1>2, <2>1, <2>4, <2>5, <2>6, <2>7, QuietStep
<1>. QED  BY <1>5, <1>6

\* A child is told of the datagram next.
LEMMA ToChild ==
    ASSUME EvInv, pass.at = "walk", NEW now, NEW l,
           ConnsOK(now), Chain(l, now), SingleChild(now), \A d \in EvConns : Pushed(now[d]),
           \A d \in ToSet(list) : d \in ToSet(l) /\ After(d, l) = After(d, list) /\ Rest(d, l) = Rest(d, list),
           Served(now, conn', l, list'), acts' \in 0..EvActs, odd' = {},
           dgrams # <<>>, NEW c \in EvConns, Serves(now[c]), now[c].from = Head(dgrams),
           pass.cur \in EvConns, now[pass.cur].kind # "none", "CONNECTING" \notin now[pass.cur].flags,
           pass' = [pass EXCEPT !.stage = "child"], UNCHANGED <<backlog, dgrams, came>>
    PROVE  EvInv'
<1>1. /\ ConnsOK(conn') /\ Chain(list', conn') /\ SingleChild(conn') /\ \A d \in EvConns : Pushed(conn'[d])
      /\ \A d \in ToSet(l) : d \in ToSet(list') /\ After(d, list') = After(d, l) /\ Rest(d, list') = Rest(d, l)
  BY ServedKeeps
<1>2. conn'[c].kind = "child" /\ conn'[c].life = now[c].life /\ conn'[c].from = Head(dgrams)
  BY ServedKeeps DEF Serves
<1>3. pass \in PassSet /\ pass.cur \in ToSet(list) /\ pass.nxt = After(pass.cur, list) /\ pass.todo = Rest(pass.cur, list)
  BY DEF EvInv, EvDomains, Walking, WalkCovers
<1>4. /\ pass' \in PassSet /\ pass'.at = "walk" /\ pass'.cur = pass.cur /\ pass'.nxt = pass.nxt /\ pass'.todo = pass.todo
      /\ pass'.stage = "child"
  BY <1>3 DEF PassSet, Stages
<1>5. Walking' /\ WalkCovers'
  BY <1>1, <1>3, <1>4 DEF Walking, WalkCovers
<1>6. c \in Child(Head(dgrams))'
  BY <1>2 DEF Child, Live, LiveIn, Serves, Alive
<1>11. "CONNECTING" \notin conn'[pass.cur].flags
  BY ServedKeeps
<1>7. StageOK'
  BY <1>4, <1>6, <1>11 DEF StageOK
<1>8. AllPushed' /\ Freeing'
  BY <1>1, <1>4 DEF AllPushed, Freeing
<1>9. EvDomains'
  BY <1>4 DEF EvDomains, EvInv
<1>10. ConnsOK(conn)' /\ Chain(list, conn)' /\ SingleChild(conn)'
  BY <1>1 DEF ConnsOK, Chain, SingleChild, LiveIn
<1>. QED  BY <1>5, <1>7, <1>8, <1>9, <1>10 DEF EvInv

LEMMA UdpStep == EvInv /\ HandleUdp => EvInv'
<1>. SUFFICES ASSUME EvInv, HandleUdp PROVE EvInv'
  OBVIOUS
<1>1. pass.at = "walk" /\ pass.stage = "read" /\ UNCHANGED <<backlog, came>>
  BY DEF HandleUdp, At
<1>2. backlog' \in Nat /\ came' \in Nat /\ dgrams \in Seq(EvSources)
  BY <1>1 DEF EvInv, EvDomains
<1>3. /\ ConnsOK(conn) /\ Chain(list, conn) /\ SingleChild(conn) /\ \A d \in EvConns : Pushed(conn[d])
      /\ acts \in 0..EvActs /\ odd = {}
  BY <1>1 DEF EvInv, EvDomains, AllPushed
<1>8. pass.cur \in EvConns /\ conn[pass.cur].kind # "none" /\ "CONNECTING" \notin conn[pass.cur].flags
  BY <1>1, InHand DEF EvInv, StageOK
<1>. DEFINE s == Head(dgrams)
<1>4. CASE dgrams = <<>>
  <2>1. UNCHANGED <<conn, list, odd, acts, dgrams>> /\ Go
    BY <1>4 DEF HandleUdp
  <2>. QED  BY <1>1, <1>2, <2>1, SameStep
<1>5. CASE dgrams # <<>> /\ Child(s) = {} /\ Fresh # {}
  <2>. DEFINE r == [Blank EXCEPT !.kind = "child", !.from = s, !.flags = {"SAC"}, !.life = "new"]
  <2>1. /\ Call(NextId, "accept", [conn EXCEPT ![NextId] = r], <<NextId>> \o list, "open")
        /\ pass' = [pass EXCEPT !.stage = "child"] /\ UNCHANGED dgrams
    BY <1>5 DEF HandleUdp
  <2>2. s \in EvSources
    BY <1>2, <1>5
  <2>3. r \in ConnSet /\ r.life = "new" /\ r.kind = "child" /\ r.flags = {"SAC"} /\ r.timer = "off" /\ r.recv = 0 /\ r.from = s
    BY <2>2, NewChild
  <2>. HIDE DEF r
  <2>4. PICK now, l :
             /\ ConnsOK(now) /\ Chain(l, now) /\ SingleChild(now) /\ \A d \in EvConns : Pushed(now[d])
             /\ \A d \in ToSet(list) : /\ d \in ToSet(l) /\ After(d, l) = After(d, list) /\ Rest(d, l) = Rest(d, list)
                                       /\ now[d] = conn[d]
             /\ Served(now, conn', l, list') /\ acts' \in 0..EvActs /\ odd' = {}
             /\ NextId \in EvConns /\ now[NextId].kind = r.kind /\ now[NextId].life = "open" /\ now[NextId].from = r.from
    BY <1>1, <1>5, <2>1, <2>3, AddedStep
  <2>5. Serves(now[NextId])
    BY <2>3, <2>4 DEF Serves, Alive
  <2>6. pass.cur \in EvConns /\ now[pass.cur].kind # "none" /\ "CONNECTING" \notin now[pass.cur].flags
    BY <1>1, <1>8, <2>4 DEF EvInv, Walking
  <2>. QED  BY <1>1, <1>5, <2>1, <2>3, <2>4, <2>5, <2>6, ToChild
<1>6. CASE dgrams # <<>> /\ Child(s) = {} /\ Fresh = {}
  <2>1. UNCHANGED <<conn, list, odd, acts, dgrams>> /\ Go
    BY <1>6 DEF HandleUdp
  <2>. QED  BY <1>1, <1>2, <2>1, SameStep
<1>7. CASE dgrams # <<>> /\ Child(s) # {}
  <2>1. pass' = [pass EXCEPT !.stage = "child"] /\ UNCHANGED <<conn, list, odd, acts, dgrams>>
    BY <1>7 DEF HandleUdp
  <2>2. PICK c \in EvConns : Serves(conn[c]) /\ conn[c].from = s
    BY <1>7 DEF Child, Live, LiveIn, Serves, Alive
  <2>3. Served(conn, conn', list, list')
    BY <1>3, <2>1, ServedSame DEF ConnsOK
  <2>. QED  BY <1>1, <1>3, <1>7, <1>8, <2>1, <2>2, <2>3, ToChild
<1>. QED  BY <1>4, <1>5, <1>6, <1>7

LEMMA ChildStep == EvInv /\ HandleChild => EvInv'
<1>. SUFFICES ASSUME EvInv, HandleChild PROVE EvInv'
  OBVIOUS
<1>. DEFINE c == CHOOSE d \in Child(Head(dgrams)) : TRUE
<1>1. /\ pass.at = "walk" /\ pass.stage = "child" /\ Receive(c, 1, conn) /\ dgrams' = Tail(dgrams) /\ Go
      /\ UNCHANGED <<backlog, came>>
  BY DEF HandleChild, At
<1>2. dgrams # <<>> /\ Child(Head(dgrams)) # {}
  BY <1>1 DEF EvInv, StageOK
<1>3. c \in Child(Head(dgrams))
  BY <1>2
<1>4. backlog' \in Nat /\ came' \in Nat /\ dgrams' \in Seq(EvSources)
  BY <1>1, <1>2 DEF EvInv, EvDomains
<1>. HIDE DEF c
<1>5. c \in EvConns /\ conn[c].kind = "child" /\ conn[c].life \in Alive
  BY <1>3 DEF Child, Live, LiveIn, Alive
<1>6. conn[c] \in ConnSet /\ ConnOK(conn[c]) /\ conn \in [EvConns -> ConnSet]
  BY <1>5 DEF EvInv, ConnsOK
<1>7. "CONNECTING" \notin conn[c].flags /\ conn[c].in \in Nat
  BY <1>5, <1>6 DEF ConnOK, ConnSet
<1>8. conn = [conn EXCEPT ![c] = [conn[c] EXCEPT !.in = conn[c].in]]
  <2>1. conn[c] = [conn[c] EXCEPT !.in = conn[c].in]
    BY <1>6 DEF ConnSet
  <2>. QED  BY <1>5, <1>6, <2>1
<1>. QED  BY <1>1, <1>4, <1>5, <1>7, <1>8, ReceiveStep

\* A handler is called on the connection in hand, which has become r and is of the same life.
LEMMA CurrentStep ==
    ASSUME EvInv, pass.at = "walk", pass.stage # "connect", NEW ev, ev \in {"send", "poll", "timer"},
           ev = "timer" => ~conn[pass.cur].rang,
           ev = "send" => pass.stage = "write", ev \in {"poll", "timer"} => pass.stage = ev,
           NEW r \in ConnSet, ConnOK(r), r.life = conn[pass.cur].life, r.kind = conn[pass.cur].kind, r.from = conn[pass.cur].from,
           Call(pass.cur, ev, [conn EXCEPT ![pass.cur] = r], list, conn[pass.cur].life),
           Go, UNCHANGED <<backlog, dgrams, came>>
    PROVE  EvInv'
<1>. DEFINE c == pass.cur
            cs == [conn EXCEPT ![c] = r]
<1>1. c \in EvConns /\ conn[c].life \in Alive /\ conn \in [EvConns -> ConnSet]
  BY InHand DEF EvInv, ConnsOK
<1>2. cs \in [EvConns -> ConnSet] /\ cs[c].life = conn[c].life
  BY <1>1
<1>3. [cs EXCEPT ![c].life = conn[c].life] = cs
  BY <1>1, <1>2, LifeKept
<1>8. ev = "send" => conn[c].life = "open" /\ ~Has(c, "CI")
  BY <1>1, InHand DEF EvInv, StageOK, ConnOK, Alive, Has
<1>9. ev \in {"poll", "timer"} => conn[c].life \in {"new", "open"}
  BY <1>1 DEF EvInv, StageOK, Alive
<1>4. InOrder(c, ev)
  BY <1>8, <1>9 DEF InOrder
<1>5. conn[c].life \in Lives /\ r.life \in Alive
  BY <1>1 DEF Alive, Lives
<1>6. Call(c, ev, cs, list, conn[c].life)
  OBVIOUS
<1>7. [cs EXCEPT ![c].life = conn[c].life] = [conn EXCEPT ![c] = r]
  BY <1>3
<1>. HIDE DEF cs, c
<1>. QED  BY <1>1, <1>2, <1>4, <1>5, <1>6, <1>7, KeepsRest, CallStep DEF c

LEMMA WriteStep == EvInv /\ HandleWrite => EvInv'
<1>. SUFFICES ASSUME EvInv, HandleWrite PROVE EvInv'
  OBVIOUS
<1>. DEFINE c == pass.cur
<1>1. pass.at = "walk" /\ pass.stage = "write" /\ Go /\ UNCHANGED <<backlog, dgrams, came>>
  BY DEF HandleWrite, At
<1>2. c \in EvConns /\ conn[c] \in ConnSet /\ ConnOK(conn[c]) /\ conn \in [EvConns -> ConnSet]
  BY <1>1, InHand DEF EvInv, ConnsOK
<1>3. CASE conn[c].peer = "broken"
  <2>. DEFINE fs == conn[c].flags \cup {"CI"}
              r == [conn[c] EXCEPT !.flags = fs]
  <2>1. Call(c, "send", [conn EXCEPT ![c].flags = fs], list, conn[c].life)
    BY <1>3 DEF HandleWrite
  <2>2. conn[c].flags \in FlagSet
    BY <1>2 DEF ConnSet
  <2>3. fs \in FlagSet /\ "CI" \in fs /\ ("CONNECTING" \in fs <=> "CONNECTING" \in conn[c].flags)
    BY <2>2 DEF FlagSet
  <2>. HIDE DEF fs
  <2>4. /\ r \in ConnSet /\ r.kind = conn[c].kind /\ r.from = conn[c].from /\ r.life = conn[c].life
        /\ r.flags = fs /\ r.peer = conn[c].peer /\ r.timer = conn[c].timer /\ r.recv = conn[c].recv
        /\ (r.doomed <=> conn[c].doomed) /\ (r.rang <=> conn[c].rang)
    BY <1>2, <2>3 DEF ConnSet
  <2>5. ConnOK(r)
    BY <1>2, <1>3, <2>3, <2>4 DEF ConnOK
  <2>6. [conn EXCEPT ![c].flags = fs] = [conn EXCEPT ![c] = r]
    BY <1>2
  <2>7. Call(c, "send", [conn EXCEPT ![c] = r], list, conn[c].life)
    BY <2>1, <2>6
  <2>. HIDE DEF r
  <2>. QED  BY <1>1, <2>4, <2>5, <2>7, CurrentStep
<1>4. CASE conn[c].peer # "broken"
  <2>1. PICK n \in 1..conn[c].send : Call(c, "send", [conn EXCEPT ![c].send = @ - n], list, conn[c].life)
    BY <1>4 DEF HandleWrite
  <2>. DEFINE m == conn[c].send - n
              r == [conn[c] EXCEPT !.send = m]
  <2>2. m \in Nat
    BY <1>2 DEF ConnSet
  <2>3. [conn EXCEPT ![c].send = @ - n] = [conn EXCEPT ![c] = r]
    BY <1>2
  <2>4. Call(c, "send", [conn EXCEPT ![c] = r], list, conn[c].life)
    BY <2>1, <2>3
  <2>. HIDE DEF m
  <2>5. /\ r \in ConnSet /\ r.kind = conn[c].kind /\ r.from = conn[c].from /\ r.life = conn[c].life
        /\ r.flags = conn[c].flags /\ r.peer = conn[c].peer /\ r.timer = conn[c].timer /\ r.recv = conn[c].recv
        /\ (r.doomed <=> conn[c].doomed) /\ (r.rang <=> conn[c].rang)
    BY <1>2, <2>2 DEF ConnSet
  <2>6. ConnOK(r)
    BY <1>2, <2>5 DEF ConnOK
  <2>. HIDE DEF r
  <2>. QED  BY <1>1, <2>4, <2>5, <2>6, CurrentStep
<1>. QED  BY <1>3, <1>4

LEMMA PollStep == EvInv /\ HandlePoll => EvInv'
<1>. SUFFICES ASSUME EvInv, HandlePoll PROVE EvInv'
  OBVIOUS
<1>. DEFINE c == pass.cur
<1>1. /\ pass.at = "walk" /\ pass.stage = "poll" /\ Go /\ UNCHANGED <<backlog, dgrams, came>>
      /\ Call(c, "poll", conn, list, conn[c].life)
  BY DEF HandlePoll, At
<1>2. c \in EvConns /\ conn[c] \in ConnSet /\ ConnOK(conn[c]) /\ conn \in [EvConns -> ConnSet]
  BY <1>1, InHand DEF EvInv, ConnsOK
<1>3. conn = [conn EXCEPT ![c] = conn[c]]
  BY <1>2
<1>4. Call(c, "poll", [conn EXCEPT ![c] = conn[c]], list, conn[c].life)
  BY <1>1, <1>3
<1>. QED  BY <1>1, <1>2, <1>4, CurrentStep

LEMMA TimerStep == EvInv /\ HandleTimer => EvInv'
<1>. SUFFICES ASSUME EvInv, HandleTimer PROVE EvInv'
  OBVIOUS
<1>. DEFINE c == pass.cur
            r == [conn[c] EXCEPT !.timer = "off", !.rang = TRUE]
<1>1. /\ pass.at = "walk" /\ pass.stage = "timer" /\ Go /\ UNCHANGED <<backlog, dgrams, came>>
      /\ Call(c, "timer", [conn EXCEPT ![c].timer = "off", ![c].rang = TRUE], list, conn[c].life)
  BY DEF HandleTimer, At
<1>2. c \in EvConns /\ conn[c] \in ConnSet /\ ConnOK(conn[c]) /\ conn \in [EvConns -> ConnSet]
  BY <1>1, InHand DEF EvInv, ConnsOK
<1>3. conn[c].timer = "due"
  BY <1>1 DEF EvInv, StageOK
<1>4. ~conn[c].rang
  BY <1>2, <1>3 DEF ConnOK
<1>5. [conn EXCEPT ![c].timer = "off", ![c].rang = TRUE] = [conn EXCEPT ![c] = r]
  BY <1>2 DEF ConnSet
<1>6. Call(c, "timer", [conn EXCEPT ![c] = r], list, conn[c].life)
  BY <1>1, <1>5
<1>7. /\ r \in ConnSet /\ r.kind = conn[c].kind /\ r.from = conn[c].from /\ r.life = conn[c].life
      /\ r.flags = conn[c].flags /\ r.peer = conn[c].peer /\ r.timer = "off" /\ r.recv = conn[c].recv
      /\ (r.doomed <=> conn[c].doomed)
  BY <1>2 DEF ConnSet, TimerStates
<1>8. ConnOK(r)
  BY <1>2, <1>7 DEF ConnOK
<1>. HIDE DEF r
<1>. QED  BY <1>1, <1>4, <1>6, <1>7, <1>8, CurrentStep

LEMMA PassStep == EvInv /\ Pass => EvInv'
<1>. SUFFICES ASSUME EvInv, Pass PROVE EvInv'
  OBVIOUS
<1>1. /\ pass.at = "walk" /\ pass' = Visit(pass.nxt, list, conn, pass)
      /\ UNCHANGED <<conn, list, odd, acts, backlog, dgrams, came>>
  BY DEF Pass, At
<1>2. /\ ConnsOK(conn) /\ Chain(list, conn) /\ SingleChild(conn) /\ \A d \in EvConns : Pushed(conn[d])
      /\ pass \in PassSet /\ pass.cur \in ToSet(list) /\ pass.nxt = After(pass.cur, list) /\ pass.todo = Rest(pass.cur, list)
      /\ backlog \in Nat /\ dgrams \in Seq(EvSources) /\ came \in Nat /\ acts \in 0..EvActs /\ odd = {}
  BY <1>1 DEF EvInv, EvDomains, Walking, WalkCovers, AllPushed
<1>3. \/ pass.nxt = NoConn
      \/ pass.nxt \in ToSet(list) /\ pass.todo \ {pass.nxt} = Rest(pass.nxt, list)
  BY <1>2, Following DEF Chain
<1>4. pass.todo \subseteq EvConns /\ pass.rd \subseteq EvConns /\ pass.wr \subseteq EvConns /\ list # <<>>
  BY <1>2 DEF PassSet, ToSet
<1>6. \A d \in ToSet(list) : conn[d].life = "failed" => "CI" \in conn[d].flags
  BY <1>2 DEF ConnsOK, ConnOK, Chain, LiveIn
<1>5. WalkOK(pass', list, conn)
  BY <1>1, <1>2, <1>3, <1>4, <1>6, VisitGives DEF Chain
<1>. QED  BY <1>1, <1>2, <1>5, WalkDone

LEMMA SelectStep == EvInv /\ Select => EvInv'
<1>. SUFFICES ASSUME EvInv, Select PROVE EvInv'
  OBVIOUS
<1>. DEFINE p == [Idle EXCEPT !.todo = Live, !.rd = {c \in Live : Readable(c)}, !.wr = {c \in Live : Writable(c)}]
<1>1. /\ pass.at = "idle" /\ list # <<>> /\ pass' = Visit(Head(list), list, conn, p)
      /\ UNCHANGED <<conn, list, backlog, dgrams, came, odd, acts>>
  BY DEF Select
<1>2. /\ ConnsOK(conn) /\ Chain(list, conn) /\ SingleChild(conn) /\ \A d \in EvConns : Pushed(conn[d])
      /\ backlog \in Nat /\ dgrams \in Seq(EvSources) /\ came \in Nat /\ acts \in 0..EvActs /\ odd = {}
  BY <1>1 DEF EvInv, EvDomains, AllPushed
<1>3. p.todo = Live /\ p.todo \subseteq EvConns /\ p.rd \subseteq EvConns /\ p.wr \subseteq EvConns
  BY DEF Idle, Live, LiveIn
<1>4. Head(list) = list[1] /\ 1 \in 1..Len(list)
  BY <1>1, <1>2 DEF Chain
<1>5. Head(list) \in ToSet(list)
  BY <1>2, <1>4 DEF ToSet, Chain
<1>6. Rest(Head(list), list) = ToSet(list) \ {Head(list)}
  <2>1. Position(list[1], list) = 1
    BY <1>2, <1>4, PositionIs DEF Chain
  <2>2. DOMAIN list = 1..Len(list) /\ \A i, j \in 1..Len(list) : list[i] = list[j] => i = j
    BY <1>2 DEF Chain, IsInjective
  <2>3. Rest(list[1], list) = {list[j] : j \in {k \in 1..Len(list) : k > 1}}
    BY <2>1, <2>2 DEF Rest
  <2>4. \A j \in 1..Len(list) : j > 1 <=> list[j] # list[1]
    BY <1>4, <2>2
  <2>5. Rest(list[1], list) = ToSet(list) \ {list[1]}
    BY <2>2, <2>3, <2>4 DEF ToSet
  <2>. QED  BY <1>4, <2>5
<1>7. p.todo \ {Head(list)} = Rest(Head(list), list)
  BY <1>2, <1>3, <1>6 DEF Chain, Live
<1>. HIDE DEF p
<1>9. \A d \in ToSet(list) : conn[d].life = "failed" => "CI" \in conn[d].flags
  BY <1>2 DEF ConnsOK, ConnOK, Chain, LiveIn
<1>8. WalkOK(pass', list, conn)
  BY <1>1, <1>2, <1>3, <1>5, <1>7, <1>9, VisitGives DEF Chain
<1>. QED  BY <1>1, <1>2, <1>8, WalkDone

-----------------------------------------------------------------------------
(***************************************************************************)
(* Closing, peers, and the theorems.                                       *)
(***************************************************************************)
\* The connection in hand is closed; its handler may act.
LEMMA CloseGives ==
    ASSUME EvInv, pass.at \in {"close", "free"}, Close(pass.cur)
    PROVE  /\ ConnsOK(conn') /\ Chain(list', conn') /\ SingleChild(conn') /\ acts' \in 0..EvActs /\ odd' = {}
           /\ conn'[pass.cur].life = "closed"
           /\ \A d \in EvConns : conn[d].life = "closed" => conn'[d].life = "closed"
           /\ pass.nxt # NoConn => pass.nxt \in ToSet(list') /\ Rest(pass.nxt, list') = Rest(pass.nxt, list)
           /\ Marked(pass.cur) /\ (\A d \in EvConns : Pushed(conn[d])) => \A d \in EvConns : Pushed(conn'[d])
<1>. DEFINE c == pass.cur
            r == [Blank EXCEPT !.kind = conn[c].kind, !.peer = conn[c].peer, !.doomed = conn[c].doomed, !.lost = conn[c].send > 0]
            q == [r EXCEPT !.life = "closed"]
            cs == [conn EXCEPT ![c] = r]
            now == [cs EXCEPT ![c].life = "closed"]
            l == RemoveAt(list, Position(c, list))
<1>1. /\ c \in EvConns /\ conn[c] \in ConnSet /\ ConnOK(conn[c]) /\ conn[c].life \in Alive /\ conn[c].kind # "none"
      /\ conn \in [EvConns -> ConnSet]
  BY InHand DEF EvInv, ConnsOK
<1>2. /\ ConnsOK(conn) /\ Chain(list, conn) /\ SingleChild(conn) /\ acts \in 0..EvActs /\ odd = {}
      /\ c \in ToSet(list) /\ pass.nxt = After(c, list)
  BY DEF EvInv, EvDomains, Walking
<1>3. Call(c, "close", cs, l, "closed")
  BY DEF Close
<1>4. r \in ConnSet
  <2>. DEFINE k == conn[c].kind  p == conn[c].peer  d == conn[c].doomed  x == conn[c].send > 0
              b == [Blank EXCEPT !.kind = k, !.peer = p, !.doomed = d, !.lost = x]
  <2>1. k \in Kinds /\ p \in PeerStates /\ d \in BOOLEAN /\ x \in BOOLEAN
    BY <1>1 DEF ConnSet
  <2>2. r = b
    OBVIOUS
  <2>. HIDE DEF k, p, d, x
  <2>3. b \in ConnSet
    BY <2>1 DEF Blank, ConnSet, FlagSet, TimerStates, Lives
  <2>. QED  BY <2>2, <2>3
<1>5. /\ r.kind = conn[c].kind /\ r.peer = conn[c].peer /\ (r.doomed <=> conn[c].doomed) /\ (r.lost <=> conn[c].send > 0)
      /\ r.flags = {} /\ r.timer = "off" /\ r.recv = 0
  BY <1>1 DEF Blank
<1>. HIDE DEF r
<1>6. /\ q \in ConnSet /\ q.kind = conn[c].kind /\ q.peer = conn[c].peer /\ (q.doomed <=> conn[c].doomed)
      /\ (q.lost <=> conn[c].send > 0) /\ q.flags = {} /\ q.timer = "off" /\ q.recv = 0 /\ q.life = "closed"
  BY <1>4, <1>5 DEF ConnSet, Lives
<1>7. ConnOK(q)
  BY <1>1, <1>6, EvAssumption DEF ConnOK
<1>8. cs \in [EvConns -> ConnSet] /\ now = [conn EXCEPT ![c] = q]
  BY <1>1, <1>4
<1>. HIDE DEF q
<1>9. \A d \in EvConns : now[d] = IF d = c THEN q ELSE conn[d]
  BY <1>1, <1>8
<1>10. now \in [EvConns -> ConnSet]
  BY <1>1, <1>6, <1>8
<1>11. InOrder(c, "close")
  BY <1>1 DEF InOrder, Alive
<1>12. Served(now, conn', l, list') /\ acts' \in 0..EvActs /\ odd' = {}
  <2>1. "closed" \in Lives
    BY DEF Lives
  <2>. HIDE DEF cs, l
  <2>. QED  BY <1>1, <1>2, <1>3, <1>8, <1>11, <2>1, CallServes
<1>. HIDE DEF now
<1>13. ConnsOK(now)
  BY <1>2, <1>7, <1>9, <1>10 DEF ConnsOK
<1>14. /\ l \in Seq(EvConns) /\ IsInjective(l) /\ ToSet(l) = ToSet(list) \ {c}
       /\ pass.nxt # NoConn => Rest(pass.nxt, l) = Rest(pass.nxt, list)
  BY <1>2, Removed DEF Chain
<1>. HIDE DEF l
<1>15. Chain(l, now)
  <2>1. LiveIn(now) = LiveIn(conn) \ {c}
    BY <1>6, <1>9 DEF LiveIn
  <2>. QED  BY <1>2, <1>14, <2>1 DEF Chain
<1>16. SingleChild(now)
  <2>1. ~Serves(q)
    BY <1>6 DEF Serves, Alive
  <2>. QED  BY <1>2, <1>9, <2>1 DEF SingleChild
<1>17. /\ ConnsOK(conn') /\ Chain(list', conn') /\ SingleChild(conn')
       /\ \A d \in ToSet(l) : d \in ToSet(list') /\ Rest(d, list') = Rest(d, l)
       /\ \A d \in EvConns : (Pushed(now[d]) => Pushed(conn'[d])) /\ (now[d].life = "closed" => conn'[d].life = "closed")
  BY <1>12, <1>13, <1>15, <1>16, ServedKeeps
<1>18. conn'[c].life = "closed"
  BY <1>1, <1>6, <1>9, <1>17
<1>19. \A d \in EvConns : conn[d].life = "closed" => conn'[d].life = "closed"
  BY <1>6, <1>9, <1>17
<1>20. pass.nxt # NoConn => pass.nxt \in ToSet(list') /\ Rest(pass.nxt, list') = Rest(pass.nxt, list)
  <2>1. pass.nxt = NoConn \/ pass.nxt \in ToSet(list) \ {c}
    BY <1>2, Following DEF Chain
  <2>. QED  BY <1>14, <1>17, <2>1
<1>21. ASSUME Marked(c), \A d \in EvConns : Pushed(conn[d]) PROVE \A d \in EvConns : Pushed(conn'[d])
  <2>1. conn[c].send \in Nat
    BY <1>1 DEF ConnSet
  <2>2. Pushed(q)
    BY <1>1, <1>6, <1>21, <2>1 DEF Marked, Has, ConnOK, Pushed
  <2>. QED  BY <1>9, <1>17, <1>21, <2>2
<1>. QED  BY <1>12, <1>17, <1>18, <1>19, <1>20, <1>21

LEMMA CloseMarkedStep == EvInv /\ CloseMarked => EvInv'
<1>. SUFFICES ASSUME EvInv, CloseMarked PROVE EvInv'
  OBVIOUS
<1>1. pass.at = "close" /\ Onward(Idle) /\ UNCHANGED <<backlog, dgrams, came>>
  BY DEF CloseMarked
<1>2. /\ ConnsOK(conn) /\ Chain(list, conn) /\ SingleChild(conn) /\ \A d \in EvConns : Pushed(conn[d])
      /\ acts \in 0..EvActs /\ odd = {} /\ pass \in PassSet /\ pass.nxt = After(pass.cur, list) /\ pass.cur \in ToSet(list)
  BY <1>1 DEF EvInv, EvDomains, Walking, AllPushed
<1>3. /\ ConnsOK(conn') /\ Chain(list', conn') /\ SingleChild(conn') /\ \A d \in EvConns : Pushed(conn'[d])
      /\ acts' \in 0..EvActs /\ odd' = {} /\ (pass.nxt # NoConn => pass.nxt \in ToSet(list'))
  <2>1. CASE Marked(pass.cur)
    <3>1. Close(pass.cur)
      BY <2>1 DEF CloseMarked
    <3>. QED  BY <1>1, <1>2, <2>1, <3>1, CloseGives
  <2>2. CASE ~Marked(pass.cur)
    <3>1. UNCHANGED <<conn, list, odd, acts>>
      BY <2>2 DEF CloseMarked
    <3>2. pass.nxt # NoConn => pass.nxt \in ToSet(list)
      BY <1>2, Following DEF Chain
    <3>. QED  BY <1>2, <3>1, <3>2
  <2>. QED  BY <2>1, <2>2
<1>4. CASE pass.nxt = NoConn
  <2>1. pass' = Idle
    BY <1>1, <1>4 DEF Onward
  <2>2. pass' \in PassSet /\ pass'.at = "idle"
    BY <2>1 DEF Idle, PassSet, Places, Stages
  <2>3. EvDomains'
    BY <1>1, <1>3, <2>2, KeepsRest DEF EvDomains
  <2>4. Walking' /\ WalkCovers' /\ StageOK' /\ AllPushed' /\ Freeing'
    BY <1>3, <2>2 DEF Walking, WalkCovers, StageOK, AllPushed, Freeing
  <2>5. ConnsOK(conn)' /\ Chain(list, conn)' /\ SingleChild(conn)'
    BY <1>3 DEF ConnsOK, Chain, SingleChild, LiveIn
  <2>. QED  BY <2>3, <2>4, <2>5 DEF EvInv
<1>5. CASE pass.nxt # NoConn
  <2>1. pass' = [pass EXCEPT !.cur = pass.nxt, !.nxt = After(pass.nxt, list')]
    BY <1>1, <1>5 DEF Onward
  <2>2. pass.nxt \in ToSet(list') /\ pass.nxt \in EvConns /\ After(pass.nxt, list') \in EvConns \cup {NoConn}
    BY <1>3, <1>5, AfterType DEF Chain
  <2>3. pass' \in PassSet /\ pass'.at = "close" /\ pass'.cur = pass.nxt /\ pass'.nxt = After(pass.nxt, list')
    BY <1>1, <1>2, <2>1, <2>2 DEF PassSet
  <2>4. WalkOK(pass', list', conn')
    BY <2>2, <2>3 DEF WalkOK
  <2>. QED  BY <1>1, <1>3, <2>4, KeepsRest, WalkDone
<1>. QED  BY <1>4, <1>5

LEMMA CloseAllStep == EvInv /\ CloseAll => EvInv'
<1>. SUFFICES ASSUME EvInv, CloseAll PROVE EvInv'
  OBVIOUS
<1>. DEFINE over == [pass EXCEPT !.at = "freed", !.cur = NoConn]
<1>1. pass.at = "free" /\ Close(pass.cur) /\ Onward(over) /\ UNCHANGED <<backlog, dgrams, came>>
  BY DEF CloseAll
<1>2. /\ Chain(list, conn) /\ pass \in PassSet /\ pass.nxt = After(pass.cur, list) /\ pass.cur \in ToSet(list)
      /\ \A c \in pass.todo : conn[c].life = "closed" \/ c = pass.cur \/ c \in Rest(pass.cur, list)
      /\ pass.todo \subseteq EvConns
  BY <1>1 DEF EvInv, EvDomains, Walking, Freeing, PassSet
<1>3. /\ ConnsOK(conn') /\ Chain(list', conn') /\ SingleChild(conn') /\ acts' \in 0..EvActs /\ odd' = {}
      /\ conn'[pass.cur].life = "closed" /\ \A d \in EvConns : conn[d].life = "closed" => conn'[d].life = "closed"
      /\ pass.nxt # NoConn => pass.nxt \in ToSet(list') /\ Rest(pass.nxt, list') = Rest(pass.nxt, list)
  BY <1>1, CloseGives
<1>4. \A c \in pass.todo : conn'[c].life = "closed" \/ c \in Rest(pass.cur, list)
  BY <1>2, <1>3
<1>5. ConnsOK(conn)' /\ Chain(list, conn)' /\ SingleChild(conn)'
  BY <1>3 DEF ConnsOK, Chain, SingleChild, LiveIn
<1>6. CASE pass.nxt = NoConn
  <2>1. pass' = over
    BY <1>1, <1>6 DEF Onward
  <2>2. pass' \in PassSet /\ pass'.at = "freed" /\ pass'.todo = pass.todo
    BY <1>2, <2>1 DEF PassSet, Places
  <2>3. Rest(pass.cur, list) = {}
    <3>1. NoConn \notin ToSet(list)
      BY <1>2, NoConnIsNone DEF Chain, LiveIn
    <3>2. Rest(pass.cur, list) = {} \/ After(pass.cur, list) \in ToSet(list)
      BY <1>2, Following DEF Chain
    <3>. QED  BY <1>2, <1>6, <3>1, <3>2
  <2>4. Walking' /\ WalkCovers' /\ StageOK' /\ AllPushed'
    BY <2>2 DEF Walking, WalkCovers, StageOK, AllPushed
  <2>5. Freeing'
    BY <1>4, <2>2, <2>3 DEF Freeing
  <2>6. EvDomains'
    BY <1>1, <1>3, <2>2, KeepsRest DEF EvDomains
  <2>. QED  BY <1>5, <2>4, <2>5, <2>6 DEF EvInv
<1>7. CASE pass.nxt # NoConn
  <2>1. pass' = [pass EXCEPT !.cur = pass.nxt, !.nxt = After(pass.nxt, list')]
    BY <1>1, <1>7 DEF Onward
  <2>2. pass.nxt \in ToSet(list') /\ pass.nxt \in EvConns /\ After(pass.nxt, list') \in EvConns \cup {NoConn}
    BY <1>3, <1>7, AfterType DEF Chain
  <2>3. /\ pass' \in PassSet /\ pass'.at = "free" /\ pass'.cur = pass.nxt /\ pass'.nxt = After(pass.nxt, list')
        /\ pass'.todo = pass.todo
    BY <1>1, <1>2, <2>1, <2>2 DEF PassSet
  <2>4. Rest(pass.cur, list) = {pass.nxt} \cup Rest(pass.nxt, list)
    BY <1>2, <1>7, Following DEF Chain
  <2>5. \A c \in pass.todo : conn'[c].life = "closed" \/ c = pass.nxt \/ c \in Rest(pass.nxt, list')
    BY <1>3, <1>4, <1>7, <2>4
  <2>6. Freeing'
    BY <2>3, <2>5 DEF Freeing
  <2>7. Walking' /\ WalkCovers' /\ StageOK' /\ AllPushed'
    BY <2>2, <2>3 DEF Walking, WalkCovers, StageOK, AllPushed
  <2>8. EvDomains'
    BY <1>1, <1>3, <2>3, KeepsRest DEF EvDomains
  <2>. QED  BY <1>5, <2>6, <2>7, <2>8 DEF EvInv
<1>. QED  BY <1>6, <1>7

LEMMA FreeStep == EvInv /\ FreeMgr => EvInv'
<1>. SUFFICES ASSUME EvInv, FreeMgr PROVE EvInv'
  OBVIOUS
<1>. DEFINE h == Head(list)
<1>1. /\ pass.at = "idle" /\ list # <<>>
      /\ pass' = [Idle EXCEPT !.at = "free", !.cur = h, !.nxt = After(h, list), !.todo = Live]
      /\ UNCHANGED <<conn, list, backlog, dgrams, came, odd, acts>>
  BY DEF FreeMgr
<1>2. ConnsOK(conn) /\ Chain(list, conn) /\ SingleChild(conn)
  BY DEF EvInv
<1>3. h = list[1] /\ 1 \in 1..Len(list) /\ DOMAIN list = 1..Len(list)
  BY <1>1, <1>2 DEF Chain
<1>4. h \in ToSet(list)
  BY <1>3 DEF ToSet
<1>5. h \in EvConns /\ After(h, list) \in EvConns \cup {NoConn}
  BY <1>2, <1>4, AfterType DEF Chain
<1>. HIDE DEF h
<1>6. /\ pass' \in PassSet /\ pass'.at = "free" /\ pass'.cur = h /\ pass'.nxt = After(h, list) /\ pass'.todo = Live
  BY <1>1, <1>5 DEF Idle, PassSet, Places, Stages, Live, LiveIn
<1>7. \A c \in Live : c = h \/ c \in Rest(h, list)
  <2>1. Position(list[1], list) = 1
    BY <1>2, <1>3, PositionIs DEF Chain
  <2>2. Rest(list[1], list) = {list[j] : j \in {k \in 1..Len(list) : k > 1}}
    BY <1>3, <2>1 DEF Rest
  <2>3. \A j \in 1..Len(list) : j = 1 \/ j > 1
    OBVIOUS
  <2>4. Live = {list[j] : j \in 1..Len(list)}
    BY <1>2, <1>3 DEF Chain, ToSet, Live
  <2>5. \A c \in Live : c = list[1] \/ c \in Rest(list[1], list)
    BY <2>2, <2>3, <2>4
  <2>. QED  BY <1>3, <2>5
<1>8. Walking' /\ WalkCovers' /\ StageOK' /\ AllPushed'
  BY <1>1, <1>4, <1>6 DEF Walking, WalkCovers, StageOK, AllPushed
<1>9. Freeing'
  BY <1>1, <1>6, <1>7 DEF Freeing
<1>10. EvDomains'
  BY <1>1, <1>6 DEF EvInv, EvDomains
<1>11. ConnsOK(conn)' /\ Chain(list, conn)' /\ SingleChild(conn)'
  BY <1>1, <1>2 DEF ConnsOK, Chain, SingleChild, LiveIn
<1>. QED  BY <1>8, <1>9, <1>10, <1>11 DEF EvInv

\* A peer, or time, changes a connection that lives and nothing that the program decides by.
LEMMA PeerStep ==
    ASSUME EvInv, NEW c \in Live, NEW r \in ConnSet, ConnOK(r), conn' = [conn EXCEPT ![c] = r],
           r.life = conn[c].life, r.kind = conn[c].kind, r.from = conn[c].from, r.flags = conn[c].flags,
           r.timer = conn[c].timer \/ (r.timer = "due" /\ conn[c].timer = "armed"),
           UNCHANGED <<list, pass, odd, acts, backlog, dgrams, came>>
    PROVE  EvInv'
<1>1. c \in EvConns /\ conn[c].life \in Alive /\ conn \in [EvConns -> ConnSet]
  BY DEF Live, LiveIn, Alive, EvInv, ConnsOK
<1>2. /\ ConnsOK(conn') /\ Chain(list, conn') /\ SingleChild(conn')
      /\ pass.at \notin {"free", "freed"} => \A d \in EvConns : Pushed(conn'[d])
  BY <1>1, OneChanged DEF EvInv, AllPushed
<1>3. \A d \in EvConns : conn'[d] = IF d = c THEN r ELSE conn[d]
  BY <1>1
<1>4. \A d \in EvConns : /\ conn'[d].life = conn[d].life /\ conn'[d].kind = conn[d].kind /\ conn'[d].from = conn[d].from
                         /\ conn'[d].flags = conn[d].flags /\ (conn[d].timer = "due" => conn'[d].timer = "due")
  BY <1>1, <1>3
<1>5. Walking' /\ WalkCovers' /\ AllPushed'
  BY <1>2 DEF Walking, WalkCovers, AllPushed, EvInv
<1>6. StageOK'
  <2>1. Child(Head(dgrams))' = Child(Head(dgrams))
    BY <1>4 DEF Child, Live, LiveIn
  <2>2. pass.at = "walk" => pass.cur \in EvConns
    BY InHand
  <2>. QED  BY <1>4, <2>1, <2>2 DEF EvInv, StageOK
<1>7. Freeing'
  <2>1. pass.todo \subseteq EvConns
    BY DEF EvInv, EvDomains, PassSet
  <2>. QED  BY <1>4, <2>1 DEF EvInv, Freeing
<1>8. EvDomains'
  BY DEF EvInv, EvDomains
<1>9. ConnsOK(conn)' /\ Chain(list, conn)' /\ SingleChild(conn)'
  BY <1>2 DEF ConnsOK, Chain, SingleChild, LiveIn
<1>. QED  BY <1>5, <1>6, <1>7, <1>8, <1>9 DEF EvInv

LEMMA PeersStep == EvInv /\ Peers => EvInv'
<1>. SUFFICES ASSUME EvInv, Peers PROVE EvInv'
  OBVIOUS
<1>1. CASE PeerConnects \/ DatagramComes
  <2>1. /\ UNCHANGED <<conn, list, pass, odd, acts>> /\ backlog' \in Nat /\ dgrams' \in Seq(EvSources) /\ came' \in Nat
        /\ dgrams # <<>> => dgrams' # <<>> /\ Head(dgrams') = Head(dgrams)
    <3>0. backlog \in Nat /\ dgrams \in Seq(EvSources) /\ came \in Nat
      BY DEF EvInv, EvDomains
    <3>1. CASE PeerConnects
      BY <3>0, <3>1 DEF PeerConnects, Same
    <3>2. CASE DatagramComes
      <4>1. PICK s \in EvSources : dgrams' = Append(dgrams, s)
        BY <3>2 DEF DatagramComes
      <4>2. UNCHANGED <<conn, backlog, list, pass, odd, acts>> /\ came' \in Nat
        BY <3>0, <3>2 DEF DatagramComes, Same
      <4>3. dgrams' \in Seq(EvSources) /\ (dgrams # <<>> => dgrams' # <<>> /\ Head(dgrams') = Head(dgrams))
        BY <3>0, <4>1, AppendProperties
      <4>. QED  BY <3>0, <4>2, <4>3
    <3>. QED  BY <1>1, <3>1, <3>2
  <2>2. EvDomains' /\ Walking' /\ WalkCovers' /\ AllPushed' /\ Freeing'
    BY <2>1 DEF EvInv, EvDomains, Walking, WalkCovers, AllPushed, Freeing
  <2>3. StageOK'
    BY <2>1 DEF EvInv, StageOK, Child, Live, LiveIn
  <2>4. ConnsOK(conn)' /\ Chain(list, conn)' /\ SingleChild(conn)'
    BY <2>1 DEF EvInv, ConnsOK, Chain, SingleChild, LiveIn
  <2>. QED  BY <2>2, <2>3, <2>4 DEF EvInv
<1>2. ASSUME NEW c \in EvConns, c \in Live, PeerSends(c) \/ PeerLeaves(c) \/ PeerAnswers(c) \/ TimerDue(c)
      PROVE  EvInv'
  <2>1. conn[c] \in ConnSet /\ ConnOK(conn[c]) /\ conn \in [EvConns -> ConnSet] /\ conn[c].life \in Alive
    BY <1>2 DEF EvInv, ConnsOK, Live, LiveIn, Alive
  <2>2. UNCHANGED <<list, pass, odd, acts, backlog, dgrams, came>>
    BY <1>2 DEF PeerSends, PeerLeaves, PeerAnswers, TimerDue, Same
  <2>3. CASE PeerSends(c)
    <3>. DEFINE m == conn[c].in + 1  r == [conn[c] EXCEPT !.in = m]
    <3>1. conn' = [conn EXCEPT ![c] = r]
      BY <2>1, <2>3 DEF PeerSends
    <3>2. m \in Nat
      BY <2>1 DEF ConnSet
    <3>. HIDE DEF m
    <3>3. /\ r \in ConnSet /\ r.kind = conn[c].kind /\ r.from = conn[c].from /\ r.life = conn[c].life
          /\ r.flags = conn[c].flags /\ r.peer = conn[c].peer /\ r.timer = conn[c].timer /\ r.recv = conn[c].recv
          /\ (r.doomed <=> conn[c].doomed) /\ (r.rang <=> conn[c].rang)
      BY <2>1, <3>2 DEF ConnSet
    <3>4. ConnOK(r)
      BY <2>1, <3>3 DEF ConnOK
    <3>. HIDE DEF r
    <3>. QED  BY <1>2, <2>2, <3>1, <3>3, <3>4, PeerStep
  <2>4. ASSUME NEW p \in PeerStates, conn' = [conn EXCEPT ![c].peer = p], conn[c].peer # "broken"
        PROVE  EvInv'
    <3>. DEFINE r == [conn[c] EXCEPT !.peer = p]
    <3>1. conn' = [conn EXCEPT ![c] = r]
      BY <2>1, <2>4
    <3>2. /\ r \in ConnSet /\ r.kind = conn[c].kind /\ r.from = conn[c].from /\ r.life = conn[c].life
          /\ r.flags = conn[c].flags /\ r.timer = conn[c].timer /\ r.recv = conn[c].recv
          /\ (r.doomed <=> conn[c].doomed) /\ (r.rang <=> conn[c].rang)
      BY <2>1 DEF ConnSet
    <3>3. ConnOK(r)
      BY <2>1, <2>4, <3>2 DEF ConnOK
    <3>. HIDE DEF r
    <3>. QED  BY <1>2, <2>2, <3>1, <3>2, <3>3, PeerStep
  <2>5. CASE PeerLeaves(c) \/ PeerAnswers(c)
    <3>1. \E p \in PeerStates : conn' = [conn EXCEPT ![c].peer = p] /\ conn[c].peer # "broken"
      BY <2>5 DEF PeerLeaves, PeerAnswers, PeerStates
    <3>. QED  BY <2>4, <3>1
  <2>6. CASE TimerDue(c)
    <3>. DEFINE r == [conn[c] EXCEPT !.timer = "due"]
    <3>1. conn' = [conn EXCEPT ![c] = r] /\ conn[c].timer = "armed"
      BY <2>1, <2>6 DEF TimerDue
    <3>2. /\ r \in ConnSet /\ r.kind = conn[c].kind /\ r.from = conn[c].from /\ r.life = conn[c].life
          /\ r.flags = conn[c].flags /\ r.timer = "due" /\ r.peer = conn[c].peer /\ r.recv = conn[c].recv
          /\ (r.doomed <=> conn[c].doomed) /\ (r.rang <=> conn[c].rang)
      BY <2>1 DEF ConnSet, TimerStates
    <3>3. ConnOK(r)
      BY <2>1, <3>1, <3>2 DEF ConnOK
    <3>. HIDE DEF r
    <3>. QED  BY <1>2, <2>2, <3>1, <3>2, <3>3, PeerStep
  <2>. QED  BY <1>2, <2>3, <2>5, <2>6
<1>. QED  BY <1>1, <1>2 DEF Peers

LEMMA EvInvInit == EvInit => EvInv
<1>. SUFFICES ASSUME EvInit PROVE EvInv
  OBVIOUS
<1>1. PICK udp \in EvUdp :
        conn = [c \in EvConns |-> IF c = 1 THEN [Blank EXCEPT !.kind = IF udp THEN "udp" ELSE "tcp", !.life = "open"] ELSE Blank]
  BY DEF EvInit
<1>2. list = <<1>> /\ pass = Idle /\ backlog = 0 /\ dgrams = <<>> /\ came = 0 /\ acts = 0 /\ odd = {}
  BY DEF EvInit
<1>. DEFINE k == IF udp THEN "udp" ELSE "tcp"
            first == [Blank EXCEPT !.kind = k, !.life = "open"]
<1>3. k \in {"udp", "tcp"}
  OBVIOUS
<1>. HIDE DEF k
<1>4. /\ first \in ConnSet /\ first.kind = k /\ first.life = "open" /\ first.flags = {} /\ first.timer = "off" /\ first.recv = 0
  BY <1>3 DEF Blank, ConnSet, Kinds, FlagSet, PeerStates, TimerStates, Lives
<1>5. /\ Blank \in ConnSet /\ Blank.kind = "none" /\ Blank.life = "none" /\ Blank.flags = {} /\ Blank.timer = "off"
      /\ Blank.recv = 0
  BY DEF Blank, ConnSet, Kinds, FlagSet, PeerStates, TimerStates, Lives
<1>6. conn = [c \in EvConns |-> IF c = 1 THEN first ELSE Blank]
  BY <1>1 DEF k
<1>. HIDE DEF first
<1>7. ConnOK(first) /\ ConnOK(Blank)
  BY <1>3, <1>4, <1>5, EvAssumption DEF ConnOK
<1>8. ConnsOK(conn)
  BY <1>4, <1>5, <1>6, <1>7 DEF ConnsOK
<1>9. SingleChild(conn) /\ AllPushed
  BY <1>3, <1>4, <1>5, <1>6 DEF SingleChild, Serves, AllPushed, Pushed, Alive
<1>10. Chain(list, conn)
  <2>1. 1 \in EvConns
    BY EvAssumption
  <2>2. LiveIn(conn) = {1}
    BY <1>4, <1>5, <1>6, <2>1 DEF LiveIn
  <2>3. list \in Seq(EvConns) /\ IsInjective(list) /\ ToSet(list) = {1}
    BY <1>2, <2>1 DEF IsInjective, ToSet
  <2>. QED  BY <2>2, <2>3 DEF Chain
<1>11. pass \in PassSet /\ pass.at = "idle"
  BY <1>2 DEF Idle, PassSet, Places, Stages
<1>12. EvDomains
  BY <1>2, <1>11, EvAssumption DEF EvDomains
<1>13. Walking /\ WalkCovers /\ StageOK /\ Freeing
  BY <1>11 DEF Walking, WalkCovers, StageOK, Freeing
<1>. QED  BY <1>8, <1>9, <1>10, <1>12, <1>13 DEF EvInv

LEMMA EvInvNext == EvInv /\ [EvNext]_evVars => EvInv'
<1>1. CASE EvNext
  BY <1>1, ConnectStep, AcceptStep, ReadStep, UdpStep, ChildStep, WriteStep, PollStep, TimerStep, PassStep, SelectStep,
     CloseMarkedStep, CloseAllStep, PeersStep, FreeStep DEF EvNext, Loop
<1>2. CASE UNCHANGED evVars
  <2>. SUFFICES ASSUME EvInv PROVE EvInv'
    BY <1>2
  <2>1. EvDomains' /\ Walking' /\ WalkCovers' /\ AllPushed' /\ Freeing'
    BY <1>2 DEF evVars, EvInv, EvDomains, Walking, WalkCovers, AllPushed, Freeing
  <2>2. StageOK'
    BY <1>2 DEF evVars, EvInv, StageOK, Child, Live, LiveIn
  <2>3. ConnsOK(conn)' /\ Chain(list, conn)' /\ SingleChild(conn)'
    BY <1>2 DEF evVars, EvInv, ConnsOK, Chain, SingleChild, LiveIn
  <2>. QED  BY <2>1, <2>2, <2>3 DEF EvInv
<1>. QED  BY <1>1, <1>2

LEMMA EvInvHolds == EvSpec => []EvInv
<1>. QED  BY EvInvInit, EvInvNext, PTL DEF EvSpec

\* The walks of mg_mgr_poll and mg_mgr_free keep two pointers into active_connections: neither is to a
\* connection that has been freed, and the first walk goes to each connection that was there, once.
THEOREM WalksHoldAlways == EvSpec => []WalksHold
<1>1. EvInv => WalksHold
  <2>. SUFFICES ASSUME EvInv PROVE WalksHold
    OBVIOUS
  <2>1. Walking /\ WalkCovers /\ Chain(list, conn)
    BY DEF EvInv
  <2>2. pass.at \in {"walk", "close", "free"} => pass.nxt \in ToSet(list) \cup {NoConn}
    BY <2>1, Following DEF Walking, Chain
  <2>. QED  BY <2>1, <2>2 DEF WalksHold, WalkersLive, Walking
<1>. QED  BY <1>1, EvInvHolds, PTL

\* A handler is told of a connection's events in their order, and of a timer once each time it was set.
THEOREM CalledAlways == EvSpec => []Called
<1>1. EvInv => Called
  BY DEF EvInv, EvDomains, Called, EventsInOrder, TimerOnce
<1>. QED  BY <1>1, EvInvHolds, PTL

\* A connection that ends has sent what it had to send, unless a handler or its peer ended it at once, and
\* no connection holds more than recv_mbuf_limit.
THEOREM BufferedAlways == EvSpec => []Buffered
<1>1. EvInv => Buffered
  BY DEF EvInv, AllPushed, ConnsOK, ConnOK, Buffered, OutputPushed, RecvBounded, Pushed
<1>. QED  BY <1>1, EvInvHolds, PTL

\* Datagrams of one source go to one connection (mg_if_recv_udp_cb).
THEOREM OneChildAlways == EvSpec => []OneChild
<1>1. EvInv => OneChild
  <2>. SUFFICES ASSUME EvInv, NEW s \in EvSources PROVE Cardinality(Child(s)) <= 1
    BY DEF OneChild
  <2>1. \A c, d \in Child(s) : c = d
    BY DEF EvInv, SingleChild, Serves, Child, Live, LiveIn, Alive
  <2>2. CASE Child(s) = {}
    BY <2>2, FS_EmptySet
  <2>3. CASE Child(s) # {}
    <3>1. PICK c : Child(s) = {c}
      BY <2>1, <2>3
    <3>2. Cardinality({c}) = 1
      BY FS_Singleton
    <3>. QED  BY <3>1, <3>2
  <2>. QED  BY <2>2, <2>3
<1>. QED  BY <1>1, EvInvHolds, PTL

\* mg_mgr_free closes every connection that was in the list when it began, whatever their handlers open meanwhile.
THEOREM FreedAllAlways == EvSpec => []FreedAll
<1>1. EvInv => FreedAll
  BY DEF EvInv, Freeing, FreedAll
<1>. QED  BY <1>1, EvInvHolds, PTL

\* The connections, the list and the counts stay in their domains: the list has the connections that live.
THEOREM EventLoopTyped == EvSpec => []EvTypeOK
<1>1. EvInv => EvTypeOK
  <2>. SUFFICES ASSUME EvInv PROVE EvTypeOK
    OBVIOUS
  <2>1. ASSUME NEW c \in EvConns
        PROVE  /\ conn[c].kind \in {"none", "tcp", "udp", "acc", "out", "child"}
               /\ conn[c].flags \subseteq {"CONNECTING", "SAC", "CI"}
               /\ conn[c].life \in {"none", "new", "open", "failed", "closed"}
               /\ conn[c].recv \in Nat /\ conn[c].send \in Nat
               /\ conn[c].timer \in {"off", "armed", "due"}
    <3>1. conn[c] \in ConnSet
      BY DEF EvInv, ConnsOK
    <3>. QED  BY <3>1 DEF ConnSet, Kinds, FlagSet, TimerStates, Lives
  <2>2. ToSet(list) = Live /\ acts \in 0..EvActs
    BY DEF EvInv, Chain, Live, EvDomains
  <2>. QED  BY <2>1, <2>2 DEF EvTypeOK
<1>. QED  BY <1>1, EvInvHolds, PTL
=============================================================================
