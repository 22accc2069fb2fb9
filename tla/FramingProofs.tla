--------------------------- MODULE FramingProofs ---------------------------
(***************************************************************************)
(* Proofs about ChunkedBody and WebSocket, where what arrives is cut       *)
(* anywhere: what the parser of chunks finds and decodes in place is what  *)
(* the client has sent, for any number and length of chunks; a body is     *)
(* handed over whole and once, and a connection is not ended in the middle *)
(* of one; and the frames of a WebSocket, and the messages of which they   *)
(* are fragments, are handed over whole, once and in order.                *)
(***************************************************************************)
EXTENDS ChunkedBody, WebSocket, SequenceTheorems, WellFoundedInduction, TLAPS

-----------------------------------------------------------------------------
(***************************************************************************)
(* Induction over sets of naturals, and sequences of sequences put one     *)
(* after the other.                                                        *)
(***************************************************************************)
LEMMA NatSet ==
    ASSUME NEW S, 0 \in S, \A n \in Nat : n \in S => n + 1 \in S
    PROVE  Nat \subseteq S
<1> DEFINE Bad == Nat \ S
<1>1. SUFFICES ASSUME Bad # {} PROVE FALSE
  OBVIOUS
<1>2. Bad \subseteq Nat
  OBVIOUS
<1>3. PICK b \in Bad : \A d \in Bad : <<d, b>> \notin OpToRel(<, Nat)
  BY <1>1, <1>2, WFMin, NatLessThanWellFounded, Zenon
<1>4. \A d \in Bad : ~(d < b)
  BY <1>2, <1>3, Zenon DEF OpToRel
<1>5. b # 0 /\ b \in Nat
  OBVIOUS
<1>6. b - 1 \in Nat /\ b - 1 < b
  BY <1>5
<1>7. b - 1 \in S
  BY <1>4, <1>6
<1>8. b \in S
  BY <1>5, <1>6, <1>7
<1> QED
  BY <1>8

\* One step of FlattenSeq.
Joining(ss, f, i) == IF i = 1 THEN ss[i] ELSE f[i - 1] \o ss[i]

LEMMA JoinExists ==
    ASSUME NEW S, NEW ss \in Seq(Seq(S))
    PROVE  \E f \in [1..Len(ss) -> Seq(S)] : f = [i \in 1..Len(ss) |-> Joining(ss, f, i)]
<1> DEFINE Good(n) == \E f \in [1..n -> Seq(S)] : \A i \in 1..n : f[i] = Joining(ss, f, i)
           T == {n \in Nat : n <= Len(ss) => Good(n)}
<1>0. Len(ss) \in Nat /\ \A i \in 1..Len(ss) : ss[i] \in Seq(S)
  OBVIOUS
<1>1. 0 \in T
  <2>1. [i \in 1..0 |-> <<>>] \in [1..0 -> Seq(S)] /\ 1..0 = {}
    OBVIOUS
  <2> QED  BY <2>1
<1>2. ASSUME NEW n \in Nat, Good(n), n + 1 <= Len(ss) PROVE Good(n + 1)
  <2>1. PICK f \in [1..n -> Seq(S)] : \A i \in 1..n : f[i] = Joining(ss, f, i)
    BY <1>2
  <2> DEFINE v == Joining(ss, f, n + 1)
             g == [i \in 1..n + 1 |-> IF i = n + 1 THEN v ELSE f[i]]
  <2>2. v \in Seq(S)
    <3>1. CASE n = 0
      BY <3>1, <1>0, <1>2 DEF Joining
    <3>2. CASE n # 0
      <4>1. n \in 1..n /\ (n + 1) - 1 = n /\ n + 1 # 1 /\ n + 1 \in 1..Len(ss)
        BY <3>2, <1>0, <1>2
      <4>2. f[n] \in Seq(S) /\ ss[n + 1] \in Seq(S)
        BY <4>1, <1>0
      <4> QED  BY <4>1, <4>2, ConcatProperties DEF Joining
    <3> QED  BY <3>1, <3>2
  <2> HIDE DEF v
  <2>3. g \in [1..n + 1 -> Seq(S)]
    BY <2>2
  <2>4. ASSUME NEW i \in 1..n + 1 PROVE g[i] = Joining(ss, g, i)
    <3>1. i = 1 \/ (i - 1 \in 1..n /\ i - 1 # n + 1 /\ i - 1 \in 1..n + 1)
      OBVIOUS
    <3>2. i # 1 => g[i - 1] = f[i - 1]
      BY <3>1
    <3>3. Joining(ss, g, i) = Joining(ss, f, i)
      BY <3>2 DEF Joining
    <3> QED  BY <3>3, <2>1 DEF v
  <2> QED  BY <2>3, <2>4
<1>3. Good(Len(ss))
  <2> HIDE DEF Good
  <2>1. \A n \in Nat : n \in T => n + 1 \in T
    BY <1>0, <1>2
  <2>2. Nat \subseteq T
    <3> HIDE DEF T
    <3> QED  BY <1>1, <2>1, NatSet
  <2> QED  BY <1>0, <2>2
<1>5. PICK f \in [1..Len(ss) -> Seq(S)] : \A i \in 1..Len(ss) : f[i] = Joining(ss, f, i)
  BY <1>3
<1>6. f = [i \in 1..Len(ss) |-> Joining(ss, f, i)]
  BY <1>5
<1> QED  BY <1>6

Joins(ss, n, f) == \A i \in 1..n : f[i] = Joining(ss, f, i)
SameTo(n, f, g) == \A i \in 1..n : f[i] = g[i]

\* Two such functions agree as far as their sequences do.
LEMMA JoinAgrees ==
    ASSUME NEW ss, NEW tt, NEW n \in Nat, NEW f, NEW g,
           SameTo(n, ss, tt), Joins(ss, n, f), Joins(tt, n, g)
    PROVE  SameTo(n, f, g)
<1> DEFINE T == {i \in Nat : i \in 1..n => f[i] = g[i]}
<1>1. 0 \in T
  OBVIOUS
<1>2. ASSUME NEW i \in Nat, i \in T PROVE i + 1 \in T
  <2> SUFFICES ASSUME i + 1 \in 1..n PROVE f[i + 1] = g[i + 1]
    OBVIOUS
  <2>1. i + 1 = 1 \/ (i \in 1..n /\ (i + 1) - 1 = i)
    OBVIOUS
  <2>2. Joining(ss, f, i + 1) = Joining(tt, g, i + 1)
    BY <1>2, <2>1 DEF Joining, SameTo
  <2> QED  BY <2>2 DEF Joins
<1>3. Nat \subseteq T
  <2> HIDE DEF T
  <2> QED  BY <1>1, <1>2, NatSet
<1> QED  BY <1>3 DEF SameTo

Joined(ss) == CHOOSE f : f = [i \in 1..Len(ss) |-> Joining(ss, f, i)]

LEMMA JoinIs ==
    ASSUME NEW S, NEW ss \in Seq(Seq(S))
    PROVE  /\ Joined(ss) \in [1..Len(ss) -> Seq(S)]
           /\ \A i \in 1..Len(ss) : Joined(ss)[i] = Joining(ss, Joined(ss), i)
           /\ ss # <<>> => FlattenSeq(ss) = Joined(ss)[Len(ss)]
           /\ ss = <<>> => FlattenSeq(ss) = <<>>
<1> DEFINE P(f) == f = [i \in 1..Len(ss) |-> Joining(ss, f, i)]
<1>1. PICK f : P(f) /\ f \in [1..Len(ss) -> Seq(S)]
  BY JoinExists
<1>2. P(Joined(ss))
  BY <1>1 DEF Joined
<1>3. \A i \in 1..Len(ss) : Joined(ss)[i] = Joining(ss, Joined(ss), i)
  BY <1>2
<1>4. \A i \in 1..Len(ss) : f[i] = Joining(ss, f, i)
  BY <1>1
<1>5. Len(ss) \in Nat
  OBVIOUS
<1>6. \A i \in 1..Len(ss) : Joined(ss)[i] = f[i]
  <2>1. SameTo(Len(ss), ss, ss) /\ Joins(ss, Len(ss), Joined(ss)) /\ Joins(ss, Len(ss), f)
    BY <1>3, <1>4 DEF SameTo, Joins
  <2>2. SameTo(Len(ss), Joined(ss), f)
    BY <2>1, <1>5, JoinAgrees
  <2> QED  BY <2>2 DEF SameTo
<1>7. Joined(ss) = f
  <2>1. f = [i \in 1..Len(ss) |-> f[i]]
    BY <1>1
  <2>2. Joined(ss) = [i \in 1..Len(ss) |-> Joined(ss)[i]]
    BY <1>2
  <2> QED  BY <2>1, <2>2, <1>6
<1>8. ss # <<>> => FlattenSeq(ss) = Joined(ss)[Len(ss)]
  BY DEF FlattenSeq, Joined, Joining
<1>9. ss = <<>> => FlattenSeq(ss) = <<>>
  BY DEF FlattenSeq
<1> QED  BY <1>1, <1>3, <1>7, <1>8, <1>9

LEMMA FlattenType ==
    ASSUME NEW S, NEW ss \in Seq(Seq(S))
    PROVE  FlattenSeq(ss) \in Seq(S)
<1>1. CASE ss = <<>>
  BY <1>1, JoinIs, EmptySeq
<1>2. CASE ss # <<>>
  <2>1. Len(ss) \in 1..Len(ss)
    BY <1>2, EmptySeq
  <2> QED  BY <2>1, <1>2, JoinIs
<1> QED  BY <1>1, <1>2

\* One more sequence comes after those before it.
LEMMA FlattenMore ==
    ASSUME NEW S, NEW n \in Nat, NEW w, \A i \in 1..n + 1 : w[i] \in Seq(S)
    PROVE  /\ FlattenSeq([i \in 1..n + 1 |-> w[i]]) = FlattenSeq([i \in 1..n |-> w[i]]) \o w[n + 1]
           /\ FlattenSeq([i \in 1..n |-> w[i]]) \in Seq(S)
           /\ FlattenSeq([i \in 1..n + 1 |-> w[i]]) \in Seq(S)
<1> DEFINE ss == [i \in 1..n |-> w[i]]
           tt == [i \in 1..n + 1 |-> w[i]]
<1>1. /\ ss \in Seq(Seq(S)) /\ Len(ss) = n
      /\ tt \in Seq(Seq(S)) /\ Len(tt) = n + 1
      /\ \A i \in 1..n : ss[i] = tt[i]
      /\ tt[n + 1] = w[n + 1] /\ w[n + 1] \in Seq(S)
  OBVIOUS
<1> HIDE DEF ss, tt
<1>2. FlattenSeq(ss) \in Seq(S) /\ FlattenSeq(tt) \in Seq(S)
  BY <1>1, FlattenType
<1>3. tt # <<>> /\ FlattenSeq(tt) = Joined(tt)[n + 1] /\ n + 1 \in 1..n + 1
  BY <1>1, JoinIs
<1>4. Joined(tt)[n + 1] = Joining(tt, Joined(tt), n + 1)
  BY <1>1, <1>3, JoinIs
<1>5. CASE n = 0
  <2>0. ss = <<>>
    BY <1>1, <1>5, EmptySeq
  <2>1. ss = <<>> /\ FlattenSeq(ss) = <<>>
    BY <2>0, <1>1, JoinIs
  <2>2. FlattenSeq(tt) = w[n + 1]
    BY <1>1, <1>3, <1>4, <1>5 DEF Joining
  <2>3. FlattenSeq(tt) = FlattenSeq(ss) \o w[n + 1]
    BY <2>1, <2>2, <1>1, ConcatEmptySeq
  <2> QED  BY <2>3, <1>2 DEF ss, tt
<1>6. CASE n # 0
  <2>1. \A i \in 1..n : i \in 1..n + 1
    OBVIOUS
  <2>2. \A i \in 1..n : Joined(ss)[i] = Joining(ss, Joined(ss), i) /\ Joined(tt)[i] = Joining(tt, Joined(tt), i)
    BY <1>1, <2>1, JoinIs
  <2>3. \A i \in 1..n : Joined(ss)[i] = Joined(tt)[i]
    <3>1. SameTo(n, ss, tt) /\ Joins(ss, n, Joined(ss)) /\ Joins(tt, n, Joined(tt))
      BY <1>1, <2>2 DEF SameTo, Joins
    <3>2. SameTo(n, Joined(ss), Joined(tt))
      BY <3>1, JoinAgrees
    <3> QED  BY <3>2 DEF SameTo
  <2>4. ss # <<>> /\ FlattenSeq(ss) = Joined(ss)[n] /\ n \in 1..n /\ (n + 1) - 1 = n /\ n + 1 # 1
    BY <1>1, <1>6, JoinIs
  <2>5. FlattenSeq(tt) = FlattenSeq(ss) \o w[n + 1]
    BY <1>1, <1>3, <1>4, <2>3, <2>4 DEF Joining
  <2> QED  BY <2>5, <1>2 DEF ss, tt
<1> QED  BY <1>5, <1>6

Flat(w, n) == FlattenSeq([i \in 1..n |-> w[i]])
SeqsOf(S, n, w) == \A i \in 1..n : w[i] \in Seq(S)

\* Sequence m + 1 is in the whole of n sequences after those before it.
PlacedAt(S, w, n, m) ==
    /\ Flat(w, m) \in Seq(S) /\ Flat(w, m + 1) \in Seq(S) /\ Flat(w, n) \in Seq(S) /\ w[m + 1] \in Seq(S)
    /\ Len(Flat(w, m)) \in Nat /\ Len(Flat(w, m + 1)) \in Nat /\ Len(Flat(w, n)) \in Nat /\ Len(w[m + 1]) \in Nat
    /\ Flat(w, m + 1) = Flat(w, m) \o w[m + 1]
    /\ Len(Flat(w, m + 1)) = Len(Flat(w, m)) + Len(w[m + 1])
    /\ Len(Flat(w, m + 1)) <= Len(Flat(w, n))
    /\ \A k \in 1..Len(Flat(w, m)) : Flat(w, n)[k] = Flat(w, m)[k]
    /\ \A k \in 1..Len(w[m + 1]) : Flat(w, n)[Len(Flat(w, m)) + k] = w[m + 1][k]

LEMMA FlatAt ==
    ASSUME NEW S, NEW n \in Nat, NEW w, SeqsOf(S, n, w), NEW m \in Nat, m < n
    PROVE  PlacedAt(S, w, n, m)
<1>1. ASSUME NEW k \in Nat, k < n
      PROVE  /\ Flat(w, k) \in Seq(S) /\ Flat(w, k + 1) \in Seq(S)
             /\ Flat(w, k + 1) = Flat(w, k) \o w[k + 1]
             /\ w[k + 1] \in Seq(S)
  <2>1. \A i \in 1..k + 1 : w[i] \in Seq(S)
    BY <1>1 DEF SeqsOf
  <2>2. w[k + 1] \in Seq(S)
    BY <2>1
  <2>3. /\ FlattenSeq([i \in 1..k + 1 |-> w[i]]) = FlattenSeq([i \in 1..k |-> w[i]]) \o w[k + 1]
        /\ FlattenSeq([i \in 1..k |-> w[i]]) \in Seq(S)
        /\ FlattenSeq([i \in 1..k + 1 |-> w[i]]) \in Seq(S)
    BY <1>1, <2>1, FlattenMore
  <2> QED  BY <2>2, <2>3 DEF Flat
<1> DEFINE Before(k) == /\ Len(Flat(w, m + 1)) <= Len(Flat(w, k))
                        /\ \A j \in 1..Len(Flat(w, m + 1)) : Flat(w, k)[j] = Flat(w, m + 1)[j]
           T == {k \in Nat : m + 1 + k <= n => Before(m + 1 + k)}
<1>2. Flat(w, m) \in Seq(S) /\ Flat(w, m + 1) \in Seq(S) /\ w[m + 1] \in Seq(S) /\ Flat(w, m + 1) = Flat(w, m) \o w[m + 1]
  BY <1>1
<1>3. 0 \in T
  BY <1>2
<1>4. ASSUME NEW k \in Nat, m + 1 + k < n, Before(m + 1 + k) PROVE Before(m + 1 + (k + 1))
  <2> DEFINE c == m + 1 + k
  <2>1. c \in Nat /\ c < n /\ m + 1 + (k + 1) = c + 1
    BY <1>4
  <2>2. /\ Flat(w, c) \in Seq(S) /\ w[c + 1] \in Seq(S)
        /\ Flat(w, c + 1) = Flat(w, c) \o w[c + 1]
    BY <2>1, <1>1
  <2>3. /\ Len(Flat(w, c + 1)) = Len(Flat(w, c)) + Len(w[c + 1])
        /\ \A j \in 1..Len(Flat(w, c)) : Flat(w, c + 1)[j] = Flat(w, c)[j]
    <3> DEFINE x == Flat(w, c)
               y == w[c + 1]
    <3>1. x \in Seq(S) /\ y \in Seq(S) /\ Flat(w, c + 1) = x \o y
      BY <2>2
    <3> HIDE DEF x, y
    <3>2. Len(x \o y) = Len(x) + Len(y) /\ \A j \in 1..Len(x) : (x \o y)[j] = x[j]
      BY <3>1
    <3> QED  BY <3>1, <3>2 DEF x, y
  <2>4. Len(Flat(w, m + 1)) \in Nat /\ Len(Flat(w, c)) \in Nat /\ Len(w[c + 1]) \in Nat
    BY <1>2, <2>2
  <2>5. Before(c)
    BY <1>4
  <2> HIDE DEF c
  <2>6. Before(c + 1)
    BY <2>3, <2>4, <2>5
  <2> QED  BY <2>1, <2>6
<1>5. n - (m + 1) \in Nat /\ m + 1 + (n - (m + 1)) = n
  OBVIOUS
<1>6. Before(n)
  <2> HIDE DEF Before
  <2>1. \A k \in Nat : k \in T => k + 1 \in T
    <3> SUFFICES ASSUME NEW k \in Nat, k \in T, m + 1 + (k + 1) <= n PROVE Before(m + 1 + (k + 1))
      OBVIOUS
    <3>1. m + 1 + k < n /\ m + 1 + k <= n
      OBVIOUS
    <3> QED  BY <3>1, <1>4
  <2>2. Nat \subseteq T
    <3> HIDE DEF T
    <3> QED  BY <1>3, <2>1, NatSet
  <2>3. n - (m + 1) \in T
    BY <1>5, <2>2
  <2> QED  BY <2>3, <1>5
<1>7. Flat(w, n) \in Seq(S)
  <2>1. n - 1 \in Nat /\ n - 1 < n /\ (n - 1) + 1 = n
    OBVIOUS
  <2> QED  BY <2>1, <1>1
<1>8. /\ Len(Flat(w, m + 1)) = Len(Flat(w, m)) + Len(w[m + 1])
      /\ Len(Flat(w, m)) \in Nat /\ Len(w[m + 1]) \in Nat
      /\ \A k \in 1..Len(Flat(w, m)) : Flat(w, m + 1)[k] = Flat(w, m)[k]
      /\ \A k \in 1..Len(w[m + 1]) : Flat(w, m + 1)[Len(Flat(w, m)) + k] = w[m + 1][k]
  BY <1>2
<1>9. \A k \in 1..Len(Flat(w, m)) : Flat(w, n)[k] = Flat(w, m)[k]
  BY <1>6, <1>8
<1>10. ASSUME NEW k \in 1..Len(w[m + 1]) PROVE Flat(w, n)[Len(Flat(w, m)) + k] = w[m + 1][k]
  <2>1. Len(Flat(w, m)) + k \in 1..Len(Flat(w, m + 1))
    BY <1>8
  <2> QED  BY <2>1, <1>6, <1>8
<1>11. Len(Flat(w, n)) \in Nat /\ Len(Flat(w, m + 1)) \in Nat
  BY <1>2, <1>7
<1> QED  BY <1>2, <1>6, <1>7, <1>8, <1>9, <1>10, <1>11 DEF PlacedAt

LEMMA FlatNone == ASSUME NEW w PROVE Flat(w, 0) = <<>>
<1>1. [i \in 1..0 |-> w[i]] = <<>>
  OBVIOUS
<1> QED  BY <1>1 DEF Flat, FlattenSeq

-----------------------------------------------------------------------------
(***************************************************************************)
(* What the client sends, by its requests.                                 *)
(***************************************************************************)
Units == {<<"head", i>> : i \in 1..N} \cup {<<"size", n>> : n \in Nat}
         \cup {<<"data", i, c, k>> : i \in 1..N, c \in Nat, k \in Nat} \cup {<<"end">>}
Asked == [1..N -> Requests]

CountIn(r, i) == Len(r[i].chunks)
DataIn(r, i, c) == [k \in 1..r[i].chunks[c] |-> <<"data", i, c, k>>]
ChunkIn(r, i, c) == <<Size(Len(DataIn(r, i, c)))>> \o DataIn(r, i, c) \o <<End>>
DatasIn(r, i) == [c \in 1..CountIn(r, i) |-> DataIn(r, i, c)]
ChunksIn(r, i) == [c \in 1..CountIn(r, i) |-> ChunkIn(r, i, c)]
PayIn(r, i) == Flat(DatasIn(r, i), CountIn(r, i))
WireIn(r, i) == <<HeadOf(i)>> \o Flat(ChunksIn(r, i), CountIn(r, i)) \o <<Size(0), End>>
WiresIn(r) == [i \in 1..N |-> WireIn(r, i)]
StreamIn(r) == Flat(WiresIn(r), N)
EndIn(r, i) == Len(Flat(WiresIn(r), i))

LEMMA UnitIs ==
    /\ \A i \in 1..N : HeadOf(i) \in Units /\ HeadOf(i)[1] = "head" /\ HeadOf(i)[2] = i
    /\ \A n \in Nat : Size(n) \in Units /\ Size(n)[1] = "size" /\ Size(n)[2] = n
    /\ End \in Units /\ End[1] = "end"
    /\ \A i \in 1..N, c \in Nat, k \in Nat : <<"data", i, c, k>> \in Units
    /\ \A u \in Units : /\ u[1] = "head" => u[2] \in 1..N /\ u = HeadOf(u[2])
                        /\ u[1] = "size" => u[2] \in Nat /\ u = Size(u[2])
                        /\ u[1] = "end" => u = End
BY DEF Units, HeadOf, Size, End

LEMMA Asks ==
    ASSUME NEW r \in Asked, NEW i \in 1..N
    PROVE  /\ r[i] \in Requests /\ r[i].method \in {"POST", "PATCH"} /\ r[i].chunks \in Seq(Nat \ {0})
           /\ CountIn(r, i) \in Nat
           /\ \A c \in 1..CountIn(r, i) : r[i].chunks[c] \in Nat /\ r[i].chunks[c] > 0 /\ c \in Nat
<1>1. r[i] \in [method : {"POST", "PATCH"}, chunks : Seq(Nat \ {0})]
  BY ChunkedBodyAssumption DEF Asked, ChunkedBodyAssumption
<1>2. r[i].chunks \in Seq(Nat \ {0})
  BY <1>1
<1> QED  BY <1>1, <1>2 DEF CountIn, Asked

\* A chunk is its size, its data and the end of a line.
LEMMA ChunkIs ==
    ASSUME NEW r \in Asked, NEW i \in 1..N, NEW c \in 1..CountIn(r, i)
    PROVE  LET d == DataIn(r, i, c)
               n == r[i].chunks[c]
               w == ChunkIn(r, i, c)
           IN  /\ d \in Seq(Units) /\ Len(d) = n /\ \A k \in 1..n : d[k][1] = "data"
               /\ w \in Seq(Units) /\ Len(w) = n + 2 /\ w[1] = Size(n) /\ w[n + 2] = End
               /\ \A k \in 1..n : w[k + 1] = d[k]
<1> DEFINE d == DataIn(r, i, c)
           n == r[i].chunks[c]
<1>1. n \in Nat /\ n > 0 /\ c \in Nat
  BY Asks
<1>2. d \in Seq(Units) /\ Len(d) = n /\ \A k \in 1..n : d[k][1] = "data"
  BY <1>1, UnitIs DEF DataIn
<1>3. ChunkIn(r, i, c) = <<Size(n)>> \o d \o <<End>>
  BY <1>2 DEF ChunkIn
<1>4. Size(n) \in Units /\ End \in Units
  BY <1>1, UnitIs
<1> HIDE DEF d, n
<1>5. <<Size(n)>> \o d \in Seq(Units) /\ Len(<<Size(n)>> \o d) = n + 1
      /\ (<<Size(n)>> \o d)[1] = Size(n) /\ \A k \in 1..n : (<<Size(n)>> \o d)[k + 1] = d[k]
  BY <1>1, <1>2, <1>4
<1> DEFINE x == <<Size(n)>> \o d
<1>6. x \in Seq(Units) /\ Len(x) = n + 1 /\ x[1] = Size(n) /\ \A k \in 1..n : x[k + 1] = d[k]
  BY <1>5
<1> HIDE DEF x
<1>7. x \o <<End>> \in Seq(Units) /\ Len(x \o <<End>>) = n + 2
      /\ (x \o <<End>>)[1] = Size(n) /\ (x \o <<End>>)[n + 2] = End
      /\ \A k \in 1..n : (x \o <<End>>)[k + 1] = d[k]
  BY <1>1, <1>4, <1>6
<1> QED  BY <1>1, <1>2, <1>3, <1>7 DEF x, d, n

\* The data and the chunks of a request, up to one of them.
LEMMA BodyTo ==
    ASSUME NEW r \in Asked, NEW i \in 1..N, NEW c \in Nat, c <= CountIn(r, i)
    PROVE  /\ Flat(DatasIn(r, i), c) \in Seq(Units) /\ Flat(ChunksIn(r, i), c) \in Seq(Units)
           /\ PayIn(r, i) \in Seq(Units)
           /\ Len(Flat(DatasIn(r, i), c)) <= Len(PayIn(r, i))
           /\ \A k \in 1..Len(Flat(DatasIn(r, i), c)) : PayIn(r, i)[k] = Flat(DatasIn(r, i), c)[k]
<1>1. SeqsOf(Units, CountIn(r, i), DatasIn(r, i)) /\ SeqsOf(Units, CountIn(r, i), ChunksIn(r, i))
  BY ChunkIs DEF DatasIn, ChunksIn, SeqsOf
<1>2. CASE c = CountIn(r, i) /\ c # 0
  <2>1. c - 1 \in Nat /\ c - 1 < CountIn(r, i) /\ (c - 1) + 1 = c
    BY <1>2
  <2>2. PlacedAt(Units, DatasIn(r, i), CountIn(r, i), c - 1) /\ PlacedAt(Units, ChunksIn(r, i), CountIn(r, i), c - 1)
    BY <1>1, <2>1, FlatAt, Asks
  <2>3. Flat(DatasIn(r, i), CountIn(r, i)) \in Seq(Units) /\ Flat(ChunksIn(r, i), CountIn(r, i)) \in Seq(Units)
    BY <2>2 DEF PlacedAt
  <2> QED  BY <1>2, <2>3 DEF PayIn
<1>3. CASE c < CountIn(r, i)
  <2>1. CountIn(r, i) \in Nat
    BY Asks
  <2>2. PlacedAt(Units, DatasIn(r, i), CountIn(r, i), c) /\ PlacedAt(Units, ChunksIn(r, i), CountIn(r, i), c)
    BY <1>1, <1>3, <2>1, FlatAt
  <2> QED  BY <2>2 DEF PayIn, PlacedAt
<1>4. CASE c = CountIn(r, i) /\ c = 0
  <2>1. Flat(DatasIn(r, i), 0) = <<>> /\ Flat(ChunksIn(r, i), 0) = <<>>
    BY FlatNone
  <2> QED  BY <1>4, <2>1, EmptySeq DEF PayIn
<1> QED  BY <1>2, <1>3, <1>4, Asks

\* A wire is a head, the chunks and the last chunk, of size 0.
LEMMA WireIs ==
    ASSUME NEW r \in Asked, NEW i \in 1..N
    PROVE  LET f == Flat(ChunksIn(r, i), CountIn(r, i))
               w == WireIn(r, i)
           IN  /\ f \in Seq(Units) /\ w \in Seq(Units) /\ Len(w) = Len(f) + 3
               /\ w[1] = HeadOf(i) /\ w[Len(f) + 2] = Size(0) /\ w[Len(f) + 3] = End
               /\ \A k \in 1..Len(f) : w[k + 1] = f[k]
<1> DEFINE f == Flat(ChunksIn(r, i), CountIn(r, i))
           h == HeadOf(i)
           z == Size(0)
           e == End
<1>1. f \in Seq(Units)
  <2>1. CountIn(r, i) \in Nat /\ CountIn(r, i) <= CountIn(r, i)
    BY Asks
  <2> QED  BY <2>1, BodyTo
<1>2. h \in Units /\ z \in Units /\ e \in Units
  BY UnitIs
<1>3. WireIn(r, i) = <<h>> \o f \o <<z, e>>
  BY DEF WireIn
<1> HIDE DEF f, h, z, e
<1> DEFINE x == <<h>> \o f
<1>4. x \in Seq(Units) /\ Len(x) = Len(f) + 1 /\ x[1] = h /\ \A k \in 1..Len(f) : x[k + 1] = f[k]
  BY <1>1, <1>2
<1> HIDE DEF x
<1>5. x \o <<z, e>> \in Seq(Units) /\ Len(x \o <<z, e>>) = Len(f) + 3
      /\ (x \o <<z, e>>)[1] = h /\ (x \o <<z, e>>)[Len(f) + 2] = z /\ (x \o <<z, e>>)[Len(f) + 3] = e
      /\ \A k \in 1..Len(f) : (x \o <<z, e>>)[k + 1] = f[k]
  BY <1>1, <1>2, <1>4
<1> QED  BY <1>1, <1>3, <1>5 DEF x, f, h, z, e

LEMMA StreamIs ==
    ASSUME NEW r \in Asked, NEW i \in 1..N
    PROVE  /\ StreamIn(r) \in Seq(Units) /\ EndIn(r, i - 1) \in Nat /\ EndIn(r, i) \in Nat
           /\ EndIn(r, i) = EndIn(r, i - 1) + Len(WireIn(r, i)) /\ EndIn(r, i) <= Len(StreamIn(r))
           /\ \A k \in 1..Len(WireIn(r, i)) : StreamIn(r)[EndIn(r, i - 1) + k] = WireIn(r, i)[k]
<1> DEFINE w == WiresIn(r)
           m == i - 1
           n == N
<1>1. SeqsOf(Units, n, w)
  BY WireIs DEF WiresIn, SeqsOf
<1>2. m \in Nat /\ m < n /\ n \in Nat
  BY ChunkedBodyAssumption DEF ChunkedBodyAssumption
<1>3. w[m + 1] = WireIn(r, i)
  BY DEF WiresIn
<1>6. /\ StreamIn(r) = Flat(w, n) /\ EndIn(r, i - 1) = Len(Flat(w, m)) /\ EndIn(r, i) = Len(Flat(w, m + 1))
  BY DEF StreamIn, EndIn
<1> HIDE DEF w, m, n
<1>4. PlacedAt(Units, w, n, m)
  BY <1>1, <1>2, FlatAt
<1> QED  BY <1>3, <1>4, <1>6 DEF PlacedAt

-----------------------------------------------------------------------------
\* Where chunk c of the first request starts in the stream, the last chunk being the one after all others, and
\* how much data comes before it.
StartOf(r, c) == 2 + Len(Flat(ChunksIn(r, 1), c - 1))
DataTo(r, c) == Len(Flat(DatasIn(r, 1), c - 1))

LEMMA One == 1 \in 1..N
BY ChunkedBodyAssumption DEF ChunkedBodyAssumption

LEMMA FirstEnds == ASSUME NEW r \in Asked PROVE EndIn(r, 0) = 0
<1>1. Flat(WiresIn(r), 0) = <<>>
  BY FlatNone
<1> QED  BY <1>1 DEF EndIn

LEMMA ChunkAfter ==
    ASSUME NEW r \in Asked, NEW c \in 1..CountIn(r, 1)
    PROVE  LET f == Flat(ChunksIn(r, 1), CountIn(r, 1))
               g == Flat(ChunksIn(r, 1), c - 1)
               p == Flat(DatasIn(r, 1), c - 1)
               d == DataIn(r, 1, c)
               n == r[1].chunks[c]
           IN  /\ g \in Seq(Units) /\ p \in Seq(Units)
               /\ Len(Flat(ChunksIn(r, 1), c)) = Len(g) + n + 2 /\ Len(Flat(ChunksIn(r, 1), c)) <= Len(f)
               /\ f[Len(g) + 1] = Size(n) /\ f[Len(g) + n + 2] = End
               /\ \A k \in 1..n : f[Len(g) + 1 + k] = d[k]
               /\ Len(Flat(DatasIn(r, 1), c)) = Len(p) + n /\ Flat(DatasIn(r, 1), c) = p \o d
<1> DEFINE w == ChunksIn(r, 1)
           x == DatasIn(r, 1)
           m == CountIn(r, 1)
           b == c - 1
           n == r[1].chunks[c]
           d == DataIn(r, 1, c)
<1>1. SeqsOf(Units, m, w) /\ SeqsOf(Units, m, x)
  BY ChunkIs, One DEF ChunksIn, DatasIn, SeqsOf
<1>2. m \in Nat /\ b \in Nat /\ b < m /\ n \in Nat
  BY Asks, One
<1>3. b + 1 = c /\ w[b + 1] = ChunkIn(r, 1, c) /\ x[b + 1] = d
  BY DEF ChunksIn, DatasIn
<1>4. /\ Len(d) = n /\ Len(w[b + 1]) = n + 2 /\ w[b + 1][1] = Size(n) /\ w[b + 1][n + 2] = End
      /\ \A k \in 1..n : w[b + 1][k + 1] = d[k]
  BY <1>3, ChunkIs, One, SMTT(20)
<1> HIDE DEF w, x, m, b, n, d
<1>5. PlacedAt(Units, w, m, b)
  BY <1>1, <1>2, FlatAt
<1>6. PlacedAt(Units, x, m, b)
  BY <1>1, <1>2, FlatAt
<1>7. Len(Flat(w, b)) \in Nat
  BY <1>5 DEF PlacedAt
<1>8. /\ Flat(w, m)[Len(Flat(w, b)) + 1] = Size(n) /\ Flat(w, m)[Len(Flat(w, b)) + n + 2] = End
      /\ \A k \in 1..n : Flat(w, m)[Len(Flat(w, b)) + 1 + k] = d[k]
  <2>1. 1 \in 1..Len(w[b + 1]) /\ n + 2 \in 1..Len(w[b + 1]) /\ \A k \in 1..n : k + 1 \in 1..Len(w[b + 1])
    BY <1>2, <1>4
  <2>2. /\ Flat(w, m)[Len(Flat(w, b)) + 1] = w[b + 1][1] /\ Flat(w, m)[Len(Flat(w, b)) + (n + 2)] = w[b + 1][n + 2]
        /\ \A k \in 1..n : Flat(w, m)[Len(Flat(w, b)) + (k + 1)] = w[b + 1][k + 1]
    BY <2>1, <1>5 DEF PlacedAt
  <2>3. Len(Flat(w, b)) + (n + 2) = Len(Flat(w, b)) + n + 2 /\ \A k \in 1..n : Len(Flat(w, b)) + (k + 1) = Len(Flat(w, b)) + 1 + k
    BY <1>2, <1>7
  <2> QED  BY <2>2, <2>3, <1>4
<1>9. Len(Flat(w, b + 1)) = Len(Flat(w, b)) + n + 2 /\ Len(Flat(x, b + 1)) = Len(Flat(x, b)) + n /\ Flat(x, b + 1) = Flat(x, b) \o d
  <2>1. Len(Flat(w, b + 1)) = Len(Flat(w, b)) + (n + 2)
    BY <1>4, <1>5 DEF PlacedAt
  <2>2. x[b + 1] = d
    BY <1>3
  <2>3. Len(Flat(x, b + 1)) = Len(Flat(x, b)) + n /\ Flat(x, b + 1) = Flat(x, b) \o d
    BY <2>2, <1>4, <1>6 DEF PlacedAt
  <2> QED  BY <2>1, <2>3, <1>2, <1>7
<1>10. Flat(w, b) \in Seq(Units) /\ Flat(x, b) \in Seq(Units) /\ Len(Flat(w, b + 1)) <= Len(Flat(w, m))
  BY <1>5, <1>6 DEF PlacedAt
<1> QED  BY <1>3, <1>8, <1>9, <1>10 DEF w, x, m, b, n, d

\* The chunks of the first request in the stream.
LEMMA ChunkInStream ==
    ASSUME NEW r \in Asked, NEW c \in 1..CountIn(r, 1)
    PROVE  LET a == StartOf(r, c)
               n == r[1].chunks[c]
           IN  /\ a \in Nat /\ a >= 2 /\ n \in Nat /\ n > 0
               /\ StreamIn(r)[a] = Size(n) /\ StreamIn(r)[a + n + 1] = End
               /\ \A k \in 1..n : StreamIn(r)[a + k] = DataIn(r, 1, c)[k]
               /\ StartOf(r, c + 1) = a + n + 2 /\ a + n + 3 <= EndIn(r, 1)
               /\ DataTo(r, c) \in Nat /\ DataTo(r, c + 1) = DataTo(r, c) + n
               /\ \A k \in 1..n : PayIn(r, 1)[DataTo(r, c) + k] = DataIn(r, 1, c)[k]
<1> DEFINE f == Flat(ChunksIn(r, 1), CountIn(r, 1))
           g == Flat(ChunksIn(r, 1), c - 1)
           p == Flat(DatasIn(r, 1), c - 1)
           d == DataIn(r, 1, c)
           n == r[1].chunks[c]
           w == WireIn(r, 1)
           t == StreamIn(r)
<1>1. n \in Nat /\ n > 0
  BY Asks, One
<1>2. /\ g \in Seq(Units) /\ p \in Seq(Units)
      /\ Len(Flat(ChunksIn(r, 1), c)) = Len(g) + n + 2 /\ Len(Flat(ChunksIn(r, 1), c)) <= Len(f)
      /\ f[Len(g) + 1] = Size(n) /\ f[Len(g) + n + 2] = End
      /\ \A k \in 1..n : f[Len(g) + 1 + k] = d[k]
      /\ Len(Flat(DatasIn(r, 1), c)) = Len(p) + n /\ Flat(DatasIn(r, 1), c) = p \o d
  BY ChunkAfter
<1>3. /\ f \in Seq(Units) /\ Len(w) = Len(f) + 3
      /\ \A k \in 1..Len(f) : w[k + 1] = f[k]
  BY WireIs, One
<1>4. EndIn(r, 1) = Len(w) /\ \A k \in 1..Len(w) : t[k] = w[k]
  <2>1. 1 - 1 = 0
    OBVIOUS
  <2>2. /\ EndIn(r, 1) = EndIn(r, 0) + Len(w)
        /\ \A k \in 1..Len(w) : t[EndIn(r, 0) + k] = w[k]
    BY <2>1, StreamIs, One
  <2>3. Len(w) \in Nat
    BY WireIs, One
  <2> QED  BY <2>2, <2>3, FirstEnds
<1>5. /\ StartOf(r, c) = 2 + Len(g) /\ StartOf(r, c + 1) = 2 + Len(Flat(ChunksIn(r, 1), c))
      /\ DataTo(r, c) = Len(p) /\ DataTo(r, c + 1) = Len(Flat(DatasIn(r, 1), c))
  <2>1. (c + 1) - 1 = c
    OBVIOUS
  <2> QED  BY <2>1 DEF StartOf, DataTo
<1>6. Len(g) \in Nat /\ Len(p) \in Nat /\ Len(f) \in Nat
  BY <1>2, <1>3
<1>10. /\ Len(Flat(ChunksIn(r, 1), c)) = Len(g) + n + 2 /\ Len(g) + n + 2 <= Len(f)
       /\ Len(Flat(DatasIn(r, 1), c)) = Len(p) + n
  BY <1>2
<1>7. \A k \in 1..n : PayIn(r, 1)[Len(p) + k] = d[k]
  <2>1. c \in Nat /\ c <= CountIn(r, 1)
    BY Asks, One
  <2>2. \A k \in 1..Len(Flat(DatasIn(r, 1), c)) : PayIn(r, 1)[k] = Flat(DatasIn(r, 1), c)[k]
    BY <2>1, BodyTo, One
  <2>3. d \in Seq(Units) /\ Len(d) = n
    BY ChunkIs, One
  <2>4. \A k \in 1..n : Flat(DatasIn(r, 1), c)[Len(p) + k] = d[k]
    <3>1. Flat(DatasIn(r, 1), c) = p \o d /\ p \in Seq(Units)
      BY <1>2
    <3> HIDE DEF p, d, n
    <3>2. \A k \in 1..n : (p \o d)[Len(p) + k] = d[k]
      BY <1>1, <1>6, <2>3, <3>1
    <3> QED  BY <3>1, <3>2
  <2>5. \A k \in 1..n : Len(p) + k \in 1..Len(Flat(DatasIn(r, 1), c))
    BY <1>1, <1>10, <1>6, SMTT(20)
  <2> QED  BY <2>2, <2>4, <2>5
<1> HIDE DEF f, g, p, d, n, w, t
<1>8. /\ t[2 + Len(g)] = Size(n) /\ t[2 + Len(g) + n + 1] = End
      /\ \A k \in 1..n : t[2 + Len(g) + k] = d[k]
  <2>1. \A j \in 1..Len(f) : t[j + 1] = f[j]
    BY <1>3, <1>4, <1>6
  <2>2. Len(g) + 1 \in 1..Len(f) /\ Len(g) + n + 2 \in 1..Len(f) /\ \A k \in 1..n : Len(g) + 1 + k \in 1..Len(f)
    BY <1>1, <1>10, <1>6
  <2>3. /\ t[(Len(g) + 1) + 1] = Size(n) /\ t[(Len(g) + n + 2) + 1] = End
        /\ \A k \in 1..n : t[(Len(g) + 1 + k) + 1] = d[k]
    BY <1>2, <2>1, <2>2
  <2>4. /\ (Len(g) + 1) + 1 = 2 + Len(g) /\ (Len(g) + n + 2) + 1 = 2 + Len(g) + n + 1
        /\ \A k \in 1..n : (Len(g) + 1 + k) + 1 = 2 + Len(g) + k
    BY <1>1, <1>6
  <2> QED  BY <2>3, <2>4
<1>9. StartOf(r, c + 1) = StartOf(r, c) + n + 2 /\ StartOf(r, c) + n + 3 <= EndIn(r, 1) /\ DataTo(r, c + 1) = DataTo(r, c) + n
  <2>1. EndIn(r, 1) = Len(f) + 3
    BY <1>3, <1>4
  <2>2. StartOf(r, c + 1) = 2 + (Len(g) + n + 2)
    BY <1>10, <1>5
  <2>3. StartOf(r, c) = 2 + Len(g)
    BY <1>5
  <2>4. Len(g) + n + 2 <= Len(f)
    BY <1>10
  <2>5. DataTo(r, c + 1) = DataTo(r, c) + n
    BY <1>10, <1>5
  <2> QED  BY <1>1, <1>6, <2>1, <2>2, <2>3, <2>4, <2>5
<1>11. StartOf(r, c) \in Nat /\ StartOf(r, c) >= 2 /\ StartOf(r, c) = 2 + Len(g) /\ DataTo(r, c) = Len(p)
  BY <1>5, <1>6
<1> QED  BY <1>1, <1>6, <1>11, <1>7, <1>8, <1>9 DEF f, g, p, d, n, w, t

\* After them comes the last chunk, which ends the request.
LEMMA LastInStream ==
    ASSUME NEW r \in Asked
    PROVE  LET a == StartOf(r, CountIn(r, 1) + 1)
           IN  /\ a \in Nat /\ a >= 2 /\ a + 1 = EndIn(r, 1) /\ EndIn(r, 1) <= Len(StreamIn(r))
               /\ StreamIn(r)[1] = HeadOf(1) /\ StreamIn(r)[a] = Size(0) /\ StreamIn(r)[a + 1] = End
               /\ DataTo(r, CountIn(r, 1) + 1) = Len(PayIn(r, 1))
<1> DEFINE f == Flat(ChunksIn(r, 1), CountIn(r, 1))
           w == WireIn(r, 1)
           t == StreamIn(r)
<1>1. /\ f \in Seq(Units) /\ Len(w) = Len(f) + 3
      /\ w[1] = HeadOf(1) /\ w[Len(f) + 2] = Size(0) /\ w[Len(f) + 3] = End
  BY WireIs, One
<1>2. EndIn(r, 1) = Len(w) /\ (\A k \in 1..Len(w) : t[k] = w[k]) /\ EndIn(r, 1) <= Len(t)
  <2>1. 1 - 1 = 0
    OBVIOUS
  <2>2. /\ EndIn(r, 1) = EndIn(r, 0) + Len(w) /\ EndIn(r, 1) <= Len(t)
        /\ \A k \in 1..Len(w) : t[EndIn(r, 0) + k] = w[k]
    BY <2>1, StreamIs, One
  <2>3. Len(w) \in Nat
    BY WireIs, One
  <2> QED  BY <2>2, <2>3, FirstEnds
<1>3. (CountIn(r, 1) + 1) - 1 = CountIn(r, 1)
  BY Asks, One
<1>4. StartOf(r, CountIn(r, 1) + 1) = 2 + Len(f) /\ DataTo(r, CountIn(r, 1) + 1) = Len(PayIn(r, 1))
  BY <1>3 DEF StartOf, DataTo, PayIn
<1>5. Len(f) \in Nat
  BY <1>1
<1> HIDE DEF f, w, t
<1>6. 1 \in 1..Len(w) /\ 2 + Len(f) \in 1..Len(w) /\ 2 + Len(f) + 1 \in 1..Len(w) /\ 2 + Len(f) = Len(f) + 2 /\ 2 + Len(f) + 1 = Len(f) + 3
  BY <1>1, <1>5
<1> QED  BY <1>1, <1>2, <1>4, <1>5, <1>6 DEF f, w, t

-----------------------------------------------------------------------------
(***************************************************************************)
(* The loop over the chunks of a buffer.                                   *)
(***************************************************************************)
\* What holds at a position when it holds at all later ones holds everywhere.
LEMMA Down ==
    ASSUME NEW L \in Nat, NEW S,
           \A q \in 1..L + 1 : (\A p \in 1..L + 1 : p > q => p \in S) => q \in S
    PROVE  1..L + 1 \subseteq S
<1> DEFINE T == {k \in Nat : \A q \in 1..L + 1 : q + k > L + 1 => q \in S}
<1>1. 0 \in T
  OBVIOUS
<1>2. ASSUME NEW k \in Nat, k \in T PROVE k + 1 \in T
  <2> SUFFICES ASSUME NEW q \in 1..L + 1, q + (k + 1) > L + 1 PROVE q \in S
    OBVIOUS
  <2>1. \A p \in 1..L + 1 : p > q => p \in S
    BY <1>2
  <2> QED  BY <2>1
<1>3. Nat \subseteq T
  <2> HIDE DEF T
  <2> QED  BY <1>1, <1>2, NatSet
<1>4. L + 1 \in T
  BY <1>3
<1> QED  BY <1>4

\* One step of the loop.
ScanStep(b, f, q) ==
    IF ~ChunkAt(b, q)
    THEN [data |-> <<>>, next |-> q, zero |-> FALSE]
    ELSE IF b[q][2] = 0
    THEN [data |-> <<>>, next |-> q + 2, zero |-> TRUE]
    ELSE [f[q + b[q][2] + 2] EXCEPT !.data = SubSeq(b, q + 1, q + b[q][2]) \o @]

ScanOf(b) == CHOOSE f : f = [q \in 1..Len(b) + 1 |-> ScanStep(b, f, q)]

Results(b) == [data : Seq(Units), next : 1..Len(b) + 1, zero : BOOLEAN]

\* A chunk that is whole ends in the buffer.
LEMMA ChunkEnds ==
    ASSUME NEW b \in Seq(Units), NEW q \in 1..Len(b) + 1, ChunkAt(b, q)
    PROVE  /\ b[q][2] \in Nat /\ b[q] = Size(b[q][2]) /\ q \in 1..Len(b)
           /\ q + b[q][2] + 2 \in 1..Len(b) + 1 /\ q + b[q][2] + 2 > q
           /\ q + 2 \in 1..Len(b) + 1
<1>1. q \in 1..Len(b) /\ b[q][1] = "size" /\ q + b[q][2] + 1 <= Len(b)
  BY DEF ChunkAt
<1>2. b[q] \in Units
  BY <1>1
<1>3. b[q][2] \in Nat /\ b[q] = Size(b[q][2])
  BY <1>1, <1>2, UnitIs
<1> QED  BY <1>1, <1>3

LEMMA StepType ==
    ASSUME NEW b \in Seq(Units), NEW q \in 1..Len(b) + 1, NEW f,
           \A p \in 1..Len(b) + 1 : p > q => f[p] \in Results(b)
    PROVE  ScanStep(b, f, q) \in Results(b)
<1>1. CASE ~ChunkAt(b, q)
  BY <1>1, EmptySeq DEF ScanStep, Results
<1>2. CASE ChunkAt(b, q)
  <2>1. /\ b[q][2] \in Nat /\ q \in 1..Len(b)
        /\ q + b[q][2] + 2 \in 1..Len(b) + 1 /\ q + b[q][2] + 2 > q
        /\ q + 2 \in 1..Len(b) + 1
    BY <1>2, ChunkEnds
  <2>2. CASE b[q][2] = 0
    BY <1>2, <2>1, <2>2, EmptySeq DEF ScanStep, Results
  <2>3. CASE b[q][2] # 0
    <3> DEFINE x == f[q + b[q][2] + 2]
               d == SubSeq(b, q + 1, q + b[q][2])
    <3>1. x \in Results(b)
      BY <2>1
    <3>2. d \in Seq(Units)
      <4>1. q + b[q][2] <= Len(b)
        BY <2>1
      <4>2. \A k \in q + 1..q + b[q][2] : b[k] \in Units
        BY <2>1, <4>1
      <4> QED  BY <2>1, <4>2, SubSeqProperties
    <3>3. ScanStep(b, f, q) = [x EXCEPT !.data = d \o @]
      BY <1>2, <2>3 DEF ScanStep
    <3> HIDE DEF x, d
    <3>4. d \o x.data \in Seq(Units)
      BY <3>1, <3>2, ConcatProperties DEF Results
    <3> QED  BY <3>1, <3>3, <3>4 DEF Results
  <2> QED  BY <2>2, <2>3
<1> QED  BY <1>1, <1>2

LEMMA ScanExists ==
    ASSUME NEW b \in Seq(Units)
    PROVE  \E f : f = [q \in 1..Len(b) + 1 |-> ScanStep(b, f, q)]
<1> DEFINE L == Len(b)
           Good(k) == \E f : \A q \in 1..L + 1 : q + k > L + 1 => f[q] = ScanStep(b, f, q)
           T == {k \in Nat : Good(k)}
<1>0. L \in Nat
  OBVIOUS
<1>1. 0 \in T
  BY <1>0
<1>2. ASSUME NEW k \in Nat, Good(k) PROVE Good(k + 1)
  <2>1. PICK f : \A q \in 1..L + 1 : q + k > L + 1 => f[q] = ScanStep(b, f, q)
    BY <1>2
  <2> DEFINE v == ScanStep(b, f, L + 1 - k)
             g == [q \in 1..L + 1 |-> IF q = L + 1 - k THEN v ELSE f[q]]
  <2>2. ASSUME NEW q \in 1..L + 1, q + (k + 1) > L + 1 PROVE g[q] = ScanStep(b, g, q)
    <3>1. ScanStep(b, g, q) = ScanStep(b, f, q)
      <4>1. CASE ChunkAt(b, q)
        <5>1. q + b[q][2] + 2 \in 1..L + 1 /\ q + b[q][2] + 2 > q
          BY <4>1, ChunkEnds
        <5>2. b[q][2] \in Nat
          BY <4>1, ChunkEnds
        <5>3. g[q + b[q][2] + 2] = f[q + b[q][2] + 2]
          BY <5>1, <5>2, <2>2, <1>0, SMTT(20)
        <5> HIDE DEF g
        <5> QED  BY <5>3 DEF ScanStep
      <4>2. CASE ~ChunkAt(b, q)
        BY <4>2 DEF ScanStep
      <4> QED  BY <4>1, <4>2
    <3>2. CASE q = L + 1 - k
      BY <3>1, <3>2
    <3>3. CASE q # L + 1 - k
      <4>1. q + k > L + 1
        BY <1>0, <2>2, <3>3
      <4> QED  BY <2>1, <3>1, <3>3, <4>1
    <3> QED  BY <3>2, <3>3
  <2> HIDE DEF g
  <2> QED  BY <2>2
<1>3. Good(L + 1)
  <2> HIDE DEF Good
  <2>1. \A k \in Nat : k \in T => k + 1 \in T
    BY <1>2
  <2>2. Nat \subseteq T
    <3> HIDE DEF T
    <3> QED  BY <1>1, <2>1, NatSet
  <2> QED  BY <1>0, <2>2
<1>4. PICK f : \A q \in 1..L + 1 : q + (L + 1) > L + 1 => f[q] = ScanStep(b, f, q)
  BY <1>3
<1> DEFINE h == [q \in 1..L + 1 |-> f[q]]
<1>5. ASSUME NEW q \in 1..L + 1 PROVE h[q] = ScanStep(b, h, q)
  <2>1. f[q] = ScanStep(b, f, q)
    BY <1>4, <1>0
  <2>2. ScanStep(b, h, q) = ScanStep(b, f, q)
    <3>1. CASE ChunkAt(b, q)
      <4>1. q + b[q][2] + 2 \in 1..L + 1
        BY <3>1, ChunkEnds
      <4>2. h[q + b[q][2] + 2] = f[q + b[q][2] + 2]
        BY <4>1
      <4> HIDE DEF h
      <4> QED  BY <4>2 DEF ScanStep
    <3>2. CASE ~ChunkAt(b, q)
      BY <3>2 DEF ScanStep
    <3> QED  BY <3>1, <3>2
  <2> QED  BY <2>1, <2>2
<1>6. h = [q \in 1..L + 1 |-> ScanStep(b, h, q)]
  <2>1. h = [q \in 1..L + 1 |-> h[q]]
    OBVIOUS
  <2> HIDE DEF h
  <2> QED  BY <1>5, <2>1
<1> QED  BY <1>6

\* What the loop finds, at each position.
LEMMA ScanIs ==
    ASSUME NEW b \in Seq(Units), NEW p \in 1..Len(b) + 1
    PROVE  /\ Scan(b, p) = ScanStep(b, ScanOf(b), p)
           /\ Scan(b, p) = ScanOf(b)[p]
           /\ Scan(b, p) \in Results(b)
<1>1. ScanOf(b) = [q \in 1..Len(b) + 1 |-> ScanStep(b, ScanOf(b), q)]
  <2> DEFINE P(f) == f = [q \in 1..Len(b) + 1 |-> ScanStep(b, f, q)]
  <2>1. PICK g : P(g)
    BY ScanExists
  <2>2. P(CHOOSE f : P(f))
    BY <2>1
  <2> QED  BY <2>2 DEF ScanOf
<1>2. \A q \in 1..Len(b) + 1 : Scan(b, q) = ScanOf(b)[q]
  BY DEF Scan, ScanOf, ScanStep
<1>3. \A q \in 1..Len(b) + 1 : ScanOf(b)[q] = ScanStep(b, ScanOf(b), q)
  BY <1>1
<1> DEFINE S == {q \in 1..Len(b) + 1 : ScanOf(b)[q] \in Results(b)}
<1>4. ASSUME NEW q \in 1..Len(b) + 1, \A k \in 1..Len(b) + 1 : k > q => k \in S
      PROVE  q \in S
  <2>1. ScanStep(b, ScanOf(b), q) \in Results(b)
    BY <1>4, StepType
  <2> QED  BY <1>3, <2>1
<1>5. 1..Len(b) + 1 \subseteq S
  <2> HIDE DEF S
  <2>1. Len(b) \in Nat
    OBVIOUS
  <2> QED  BY <1>4, <2>1, Down
<1>6. p \in S
  BY <1>5
<1> QED  BY <1>2, <1>3, <1>6

\* The loop ends at once, at the last chunk, or goes on after a chunk.
LEMMA ScanNone ==
    ASSUME NEW b \in Seq(Units), NEW p \in 1..Len(b) + 1, ~ChunkAt(b, p)
    PROVE  Scan(b, p).data = <<>> /\ Scan(b, p).next = p /\ Scan(b, p).zero = FALSE
BY ScanIs DEF ScanStep

LEMMA ScanLast ==
    ASSUME NEW b \in Seq(Units), NEW p \in 1..Len(b) + 1, ChunkAt(b, p), b[p][2] = 0
    PROVE  Scan(b, p).data = <<>> /\ Scan(b, p).next = p + 2 /\ Scan(b, p).zero = TRUE
BY ScanIs DEF ScanStep

LEMMA ScanOn ==
    ASSUME NEW b \in Seq(Units), NEW p \in 1..Len(b) + 1, ChunkAt(b, p), b[p][2] # 0
    PROVE  LET s == Scan(b, p)
               q == p + b[p][2] + 2
               x == Scan(b, q)
           IN  /\ q \in 1..Len(b) + 1 /\ x \in Results(b)
               /\ s.data = SubSeq(b, p + 1, p + b[p][2]) \o x.data
               /\ s.next = x.next /\ s.zero = x.zero
<1> DEFINE q == p + b[p][2] + 2
           x == Scan(b, q)
<1>1. q \in 1..Len(b) + 1
  BY ChunkEnds
<1> HIDE DEF q
<1>2. x = ScanOf(b)[q] /\ x \in Results(b)
  BY <1>1, ScanIs
<1> HIDE DEF x
<1>3. Scan(b, p) = [x EXCEPT !.data = SubSeq(b, p + 1, p + b[p][2]) \o @]
  <2>1. Scan(b, p) = [ScanOf(b)[p + b[p][2] + 2] EXCEPT !.data = SubSeq(b, p + 1, p + b[p][2]) \o @]
    BY ScanIs DEF ScanStep
  <2> QED  BY <2>1, <1>2 DEF q
<1>4. /\ Scan(b, p).data = SubSeq(b, p + 1, p + b[p][2]) \o x.data
      /\ Scan(b, p).next = x.next /\ Scan(b, p).zero = x.zero
  BY <1>2, <1>3 DEF Results
<1> QED  BY <1>1, <1>2, <1>4 DEF q, x

\* A part of a sequence.
LEMMA PartIs ==
    ASSUME NEW S, NEW s \in Seq(S), NEW m \in Nat, NEW n \in Nat, m <= n + 1, n <= Len(s), m >= 1
    PROVE  /\ SubSeq(s, m, n) \in Seq(S) /\ Len(SubSeq(s, m, n)) = n + 1 - m
           /\ \A k \in 1..n + 1 - m : SubSeq(s, m, n)[k] = s[m + k - 1]
<1>1. \A k \in m..n : s[k] \in S
  OBVIOUS
<1>2. SubSeq(s, m, n) \in Seq(S)
  BY <1>1, SubSeqProperties
<1>3. Len(SubSeq(s, m, n)) = n + 1 - m
  BY <1>1, SubSeqProperties
<1>4. \A k \in 1..n + 1 - m : SubSeq(s, m, n)[k] = s[m + k - 1]
  BY <1>1, SubSeqProperties
<1> QED  BY <1>2, <1>3, <1>4

\* The data found is shorter than the chunks it stood in.
Shrinks(b, p) == Len(Scan(b, p).data) + p <= Scan(b, p).next

LEMMA ScanShrinks ==
    ASSUME NEW b \in Seq(Units), NEW p \in 1..Len(b) + 1
    PROVE  /\ Scan(b, p).data \in Seq(Units) /\ Len(Scan(b, p).data) \in Nat
           /\ Scan(b, p).next \in 1..Len(b) + 1 /\ Scan(b, p).zero \in BOOLEAN
           /\ Shrinks(b, p)
<1> DEFINE S == {q \in 1..Len(b) + 1 : Shrinks(b, q)}
<1>1. ASSUME NEW q \in 1..Len(b) + 1, \A k \in 1..Len(b) + 1 : k > q => k \in S
      PROVE  q \in S
  <2>1. CASE ~ChunkAt(b, q)
    <3>1. Scan(b, q).data = <<>> /\ Scan(b, q).next = q /\ Len(<<>>) = 0
      BY <2>1, ScanNone
    <3>2. Len(Scan(b, q).data) = 0
      BY <3>1
    <3> QED  BY <3>1, <3>2 DEF Shrinks
  <2>2. CASE ChunkAt(b, q) /\ b[q][2] = 0
    <3>1. Scan(b, q).data = <<>> /\ Scan(b, q).next = q + 2 /\ Len(<<>>) = 0
      BY <2>2, ScanLast
    <3>2. Len(Scan(b, q).data) = 0
      BY <3>1
    <3> QED  BY <3>1, <3>2 DEF Shrinks
  <2>3. CASE ChunkAt(b, q) /\ b[q][2] # 0
    <3> DEFINE n == b[q][2]
               t == q + n + 2
               d == SubSeq(b, q + 1, q + n)
               x == Scan(b, t)
    <3>1. t \in 1..Len(b) + 1 /\ t > q /\ n \in Nat
      BY <2>3, ChunkEnds
    <3>2. /\ x \in Results(b) /\ Scan(b, q).data = d \o x.data
          /\ Scan(b, q).next = x.next
      BY <2>3, ScanOn
    <3>3. d \in Seq(Units) /\ Len(d) = n
      <4>1. q + 1 \in Nat /\ q + n \in Nat /\ q + 1 <= q + n + 1 /\ q + n <= Len(b) /\ q + 1 >= 1
        BY <3>1, SMTT(20)
      <4>2. (q + n) + 1 - (q + 1) = n
        BY <3>1
      <4> HIDE DEF n
      <4> QED  BY <4>1, <4>2, PartIs
    <3>4. Shrinks(b, t)
      BY <1>1, <3>1
    <3> HIDE DEF d, n, t
    <3>5. Len(x.data) + t <= x.next
      BY <3>4 DEF Shrinks
    <3> HIDE DEF x
    <3>6. x.data \in Seq(Units) /\ x.next \in Nat
      BY <3>2 DEF Results
    <3>7. Len(d \o x.data) = n + Len(x.data) /\ Len(x.data) \in Nat
      <4> DEFINE y == x.data
      <4>1. y \in Seq(Units)
        BY <3>6
      <4> HIDE DEF y
      <4>2. Len(d \o y) = Len(d) + Len(y) /\ Len(y) \in Nat
        BY <3>3, <4>1
      <4> QED  BY <3>3, <4>2 DEF y
    <3>8. n + Len(x.data) + q <= x.next
      <4>1. t = q + n + 2
        BY DEF t
      <4> DEFINE l == Len(x.data)
                 k == x.next
      <4>2. l \in Nat /\ k \in Nat /\ l + t <= k
        BY <3>5, <3>6, <3>7
      <4> HIDE DEF l, k
      <4>3. n + l + q <= k
        BY <3>1, <4>1, <4>2
      <4> QED  BY <4>3 DEF l, k
    <3> QED  BY <3>2, <3>7, <3>8 DEF Shrinks
  <2> QED  BY <2>1, <2>2, <2>3
<1>2. 1..Len(b) + 1 \subseteq S
  <2> HIDE DEF S
  <2>1. Len(b) \in Nat
    OBVIOUS
  <2> QED  BY <1>1, <2>1, Down
<1>3. Scan(b, p) \in Results(b)
  BY ScanIs
<1>4. Scan(b, p).data \in Seq(Units) /\ Scan(b, p).next \in 1..Len(b) + 1 /\ Scan(b, p).zero \in BOOLEAN
  BY <1>3 DEF Results
<1> QED  BY <1>2, <1>4, LenProperties

\* Data is found only where a chunk starts that is not the last.
LEMMA ScanData ==
    ASSUME NEW b \in Seq(Units), NEW p \in 1..Len(b) + 1, Scan(b, p).data # <<>>
    PROVE  ChunkAt(b, p) /\ b[p][2] # 0
BY ScanNone, ScanLast, ZenonT(30)

-----------------------------------------------------------------------------
(***************************************************************************)
(* The loop over what was sent.                                            *)
(***************************************************************************)
\* What is in b from position p on was sent e units later.
Shifted(r, b, p, e) == \A k \in p..Len(b) : b[k] = StreamIn(r)[k + e]

\* The loop gets from chunk c to chunk d.
Gets(r, b, p, c, e, d) ==
    LET s == Scan(b, p)
    IN  /\ DataTo(r, c) \in Nat /\ DataTo(r, d) \in Nat
        /\ DataTo(r, c) <= DataTo(r, d) /\ DataTo(r, d) <= Len(PayIn(r, 1))
        /\ s.data = SubSeq(PayIn(r, 1), DataTo(r, c) + 1, DataTo(r, d))
        /\ s.zero => d = CountIn(r, 1) + 1 /\ s.next + e = EndIn(r, 1) + 1
        /\ ~s.zero => /\ s.next + e = StartOf(r, d) /\ ~ChunkAt(b, s.next)
                      /\ Len(b) + e < EndIn(r, 1)

LEMMA DataIs ==
    ASSUME NEW r \in Asked, NEW c \in 1..CountIn(r, 1) + 1
    PROVE  DataTo(r, c) \in Nat /\ DataTo(r, c) <= Len(PayIn(r, 1)) /\ StartOf(r, c) \in Nat /\ StartOf(r, c) >= 2
           /\ PayIn(r, 1) \in Seq(Units)
<1>1. c - 1 \in Nat /\ c - 1 <= CountIn(r, 1)
  BY Asks, One
<1>2. /\ Flat(DatasIn(r, 1), c - 1) \in Seq(Units) /\ Flat(ChunksIn(r, 1), c - 1) \in Seq(Units)
      /\ PayIn(r, 1) \in Seq(Units)
      /\ Len(Flat(DatasIn(r, 1), c - 1)) <= Len(PayIn(r, 1))
  BY <1>1, BodyTo, One
<1> DEFINE g == Flat(ChunksIn(r, 1), c - 1)
           p == Flat(DatasIn(r, 1), c - 1)
<1>3. Len(g) \in Nat /\ Len(p) \in Nat
  BY <1>2
<1> QED  BY <1>2, <1>3 DEF StartOf, DataTo

LEMMA PartFrom ==
    ASSUME NEW S, NEW s \in Seq(S), NEW i \in Nat, NEW j \in Nat, i <= j, j <= Len(s)
    PROVE  /\ SubSeq(s, i + 1, j) \in Seq(S) /\ Len(SubSeq(s, i + 1, j)) = j - i
           /\ \A n \in 1..j - i : SubSeq(s, i + 1, j)[n] = s[i + n]
<1>1. i + 1 \in Nat /\ i + 1 >= 1 /\ i + 1 <= j + 1 /\ (j + 1) - (i + 1) = j - i
  OBVIOUS
<1>2. \A n \in Nat : (i + 1) + n - 1 = i + n
  OBVIOUS
<1>3. /\ SubSeq(s, i + 1, j) \in Seq(S) /\ Len(SubSeq(s, i + 1, j)) = (j + 1) - (i + 1)
      /\ \A n \in 1..(j + 1) - (i + 1) : SubSeq(s, i + 1, j)[n] = s[(i + 1) + n - 1]
  BY <1>1, PartIs
<1> DEFINE x == SubSeq(s, i + 1, j)
<1>4. x \in Seq(S) /\ Len(x) = j - i /\ \A n \in 1..j - i : x[n] = s[(i + 1) + n - 1]
  BY <1>1, <1>3
<1> HIDE DEF x
<1>5. ASSUME NEW n \in 1..j - i PROVE x[n] = s[i + n]
  <2>1. n \in Nat
    OBVIOUS
  <2> QED  BY <1>2, <1>4, <2>1
<1> QED  BY <1>4, <1>5 DEF x

LEMMA SubSeqJoin ==
    ASSUME NEW S, NEW s \in Seq(S), NEW i \in Nat, NEW j \in Nat, NEW k \in Nat,
           i <= j, j <= k, k <= Len(s)
    PROVE  SubSeq(s, i + 1, j) \o SubSeq(s, j + 1, k) = SubSeq(s, i + 1, k)
<1> DEFINE x == SubSeq(s, i + 1, j)
           y == SubSeq(s, j + 1, k)
           z == SubSeq(s, i + 1, k)
<1>1. x \in Seq(S) /\ Len(x) = j - i /\ \A n \in 1..j - i : x[n] = s[i + n]
  BY PartFrom
<1>2. y \in Seq(S) /\ Len(y) = k - j /\ \A n \in 1..k - j : y[n] = s[j + n]
  BY PartFrom
<1>3. z \in Seq(S) /\ Len(z) = k - i /\ \A n \in 1..k - i : z[n] = s[i + n]
  <2>1. i <= k
    OBVIOUS
  <2> QED  BY <2>1, PartFrom
<1> HIDE DEF x, y, z
<1>4. x \o y \in Seq(S) /\ Len(x \o y) = k - i /\ \A n \in 1..k - i : (x \o y)[n] = s[i + n]
  BY <1>1, <1>2
<1>5. x \o y = z
  <2>1. \A n \in 1..Len(z) : (x \o y)[n] = z[n]
    BY <1>3, <1>4
  <2>2. x \o y \in Seq(S) /\ z \in Seq(S) /\ Len(x \o y) = Len(z)
    BY <1>3, <1>4
  <2> DEFINE v == x \o y
  <2>3. v \in Seq(S) /\ Len(v) = Len(z) /\ \A n \in 1..Len(z) : v[n] = z[n]
    BY <2>1, <2>2
  <2> HIDE DEF v
  <2>4. v = z
    BY <2>2, <2>3, SeqEqual
  <2> QED  BY <2>4 DEF v
<1> QED  BY <1>5 DEF x, y, z

LEMMA NoPart == ASSUME NEW S, NEW s \in Seq(S), NEW i \in Nat, i <= Len(s) PROVE SubSeq(s, i + 1, i) = <<>>
<1>1. i + 1 \in Nat /\ i + 1 >= 1 /\ i + 1 <= i + 1 /\ (i + 1) - (i + 1) = 0
  OBVIOUS
<1>2. SubSeq(s, i + 1, i) \in Seq(S) /\ Len(SubSeq(s, i + 1, i)) = 0
  BY <1>1, PartIs
<1> QED  BY <1>2, EmptySeq

\* A chunk of the first request that is in the buffer is seen there.
LEMMA ChunkSeen ==
    ASSUME NEW r \in Asked, NEW b \in Seq(Units), NEW e \in Int, NEW p \in 1..Len(b) + 1,
           NEW c \in 1..CountIn(r, 1), p + e = StartOf(r, c), Shifted(r, b, p, e)
    PROVE  LET n == r[1].chunks[c]
           IN  /\ ChunkAt(b, p) <=> p + n + 1 <= Len(b)
               /\ ChunkAt(b, p) => /\ b[p][2] = n /\ n # 0
                                   /\ SubSeq(b, p + 1, p + n) = SubSeq(PayIn(r, 1), DataTo(r, c) + 1, DataTo(r, c + 1))
<1> DEFINE n == r[1].chunks[c]
           t == StreamIn(r)
           y == PayIn(r, 1)
           d == DataIn(r, 1, c)
           i == DataTo(r, c)
           j == DataTo(r, c + 1)
<1>1. /\ n \in Nat /\ n > 0 /\ t[p + e] = Size(n) /\ t[p + e + n + 1] = End
      /\ \A k \in 1..n : t[p + e + k] = d[k]
      /\ i \in Nat /\ j = i + n
      /\ \A k \in 1..n : y[i + k] = d[k]
  <2> DEFINE a == StartOf(r, c)
  <2>1. /\ n \in Nat /\ n > 0 /\ t[a] = Size(n) /\ t[a + n + 1] = End
        /\ \A k \in 1..n : t[a + k] = d[k]
        /\ i \in Nat /\ j = i + n
        /\ \A k \in 1..n : y[i + k] = d[k]
    BY ChunkInStream
  <2>2. a = p + e
    OBVIOUS
  <2> HIDE DEF a, n, t, y, d, i, j
  <2> QED  BY <2>1, <2>2
<1>2. j <= Len(y) /\ y \in Seq(Units)
  <2>1. c + 1 \in 1..CountIn(r, 1) + 1
    BY Asks, One
  <2> QED  BY <2>1, DataIs
<1>3. \A k \in p..Len(b) : b[k] = t[k + e]
  BY DEF Shifted
<1>4. Size(n)[1] = "size" /\ Size(n)[2] = n
  BY <1>1, UnitIs
<1> HIDE DEF n, t, y, d, i, j
<1>5. ASSUME p <= Len(b) PROVE b[p] = Size(n) /\ b[p][1] = "size" /\ b[p][2] = n
  BY <1>1, <1>3, <1>4, <1>5, SMTT(20)
<1>6. ASSUME p + n + 1 <= Len(b) PROVE ChunkAt(b, p)
  <2>1. p <= Len(b) /\ p + n + 1 \in p..Len(b) /\ p + n + 1 + e = p + e + n + 1
    BY <1>1, <1>6
  <2>2. b[p + n + 1] = End
    BY <1>1, <1>3, <2>1
  <2> QED  BY <1>5, <1>6, <2>1, <2>2 DEF ChunkAt
<1>7. ASSUME ChunkAt(b, p)
      PROVE  /\ b[p][2] = n /\ n # 0 /\ p + n + 1 <= Len(b)
             /\ SubSeq(b, p + 1, p + n) = SubSeq(y, i + 1, j)
  <2>1. p <= Len(b) /\ p + b[p][2] + 1 <= Len(b)
    BY <1>7 DEF ChunkAt
  <2>2. b[p][2] = n /\ p + n + 1 <= Len(b)
    BY <1>5, <2>1
  <2> DEFINE x == SubSeq(b, p + 1, p + n)
             z == SubSeq(y, i + 1, j)
             m == p + n
  <2>3. x \in Seq(Units) /\ Len(x) = n /\ \A k \in 1..n : x[k] = b[p + k]
    <3>0. n \in Nat /\ p + n + 1 <= Len(b) /\ p \in Nat /\ Len(b) \in Nat
      <4>1. Len(b) \in Nat
        BY LenProperties
      <4>2. p \in Nat
        BY <4>1
      <4> QED
        BY <1>1, <2>2, <4>1, <4>2
    <3>1. p \in Nat /\ m \in Nat /\ p <= m /\ m <= Len(b) /\ m - p = n
      BY <3>0
    <3> HIDE DEF m
    <3>2. /\ SubSeq(b, p + 1, m) \in Seq(Units) /\ Len(SubSeq(b, p + 1, m)) = m - p
          /\ \A k \in 1..m - p : SubSeq(b, p + 1, m)[k] = b[p + k]
      BY <3>1, PartFrom
    <3> QED  BY <3>1, <3>2 DEF m
  <2>4. z \in Seq(Units) /\ Len(z) = n /\ \A k \in 1..n : z[k] = y[i + k]
    <3>1. j \in Nat /\ i <= j /\ j <= Len(y) /\ j - i = n
      BY <1>1, <1>2
    <3>2. /\ SubSeq(y, i + 1, j) \in Seq(Units) /\ Len(SubSeq(y, i + 1, j)) = j - i
          /\ \A k \in 1..j - i : SubSeq(y, i + 1, j)[k] = y[i + k]
      BY <3>1, <1>1, <1>2, PartFrom
    <3> QED  BY <3>1, <3>2
  <2>5. ASSUME NEW k \in 1..n PROVE x[k] = z[k]
    <3>1. p + k \in p..Len(b) /\ (p + k) + e = p + e + k
      <4>1. Len(b) \in Nat
        BY LenProperties
      <4>2. n \in Nat /\ p + n + 1 <= Len(b)
        BY <1>1, <2>2
      <4>3. p \in Nat
        BY <4>1
      <4>4. k \in Nat /\ k >= 1 /\ k <= n
        BY <4>2
      <4>5. e \in Int
        OBVIOUS
      <4>6. p + k \in p..Len(b)
        BY <4>1, <4>2, <4>3, <4>4
      <4>7. (p + k) + e = p + e + k
        BY <4>3, <4>4, <4>5
      <4> QED  BY <4>6, <4>7
    <3>2. b[p + k] = t[p + e + k]
      BY <3>1, <1>3
    <3> QED  BY <3>2, <2>3, <2>4, <1>1
  <2> HIDE DEF x, z
  <2>6. x = z
    BY <2>3, <2>4, <2>5, SeqEqual
  <2>7. n # 0
    BY <1>1
  <2>8. SubSeq(b, p + 1, p + n) = SubSeq(y, i + 1, j)
    BY <2>6 DEF x, z
  <2> QED  BY <2>2, <2>7, <2>8
<1> QED  BY <1>6, <1>7 DEF n, t, y, d, i, j

\* So is the last chunk.
LEMMA LastSeen ==
    ASSUME NEW r \in Asked, NEW b \in Seq(Units), NEW e \in Int, NEW p \in 1..Len(b) + 1,
           p + e = StartOf(r, CountIn(r, 1) + 1), Shifted(r, b, p, e)
    PROVE  /\ ChunkAt(b, p) <=> p + 1 <= Len(b)
           /\ ChunkAt(b, p) => b[p][2] = 0
<1> DEFINE t == StreamIn(r)
<1>1. t[p + e] = Size(0) /\ t[p + e + 1] = End
  <2>1. StartOf(r, CountIn(r, 1) + 1) = p + e
    OBVIOUS
  <2> QED  BY <2>1, LastInStream
<1>2. Size(0)[1] = "size" /\ Size(0)[2] = 0
  BY UnitIs
<1>3. \A k \in p..Len(b) : b[k] = t[k + e]
  BY DEF Shifted
<1> HIDE DEF t
<1>4. ASSUME p <= Len(b) PROVE b[p][1] = "size" /\ b[p][2] = 0
  BY <1>1, <1>2, <1>3, <1>4
<1>5. ASSUME p + 1 <= Len(b) PROVE ChunkAt(b, p)
  <2>1. p <= Len(b) /\ p + 1 \in p..Len(b) /\ (p + 1) + e = p + e + 1 /\ p + 0 + 1 = p + 1
    BY <1>5
  <2>2. b[p + 1] = End
    BY <1>1, <1>3, <2>1
  <2> QED  BY <1>4, <1>5, <2>1, <2>2 DEF ChunkAt
<1>6. ASSUME ChunkAt(b, p) PROVE b[p][2] = 0 /\ p + 1 <= Len(b)
  <2>1. p <= Len(b) /\ p + b[p][2] + 1 <= Len(b)
    BY <1>6 DEF ChunkAt
  <2> QED  BY <1>4, <2>1
<1> QED  BY <1>5, <1>6

\* From the start of a chunk the loop gets the data of the whole chunks after it.
LEMMA ScanStream ==
    ASSUME NEW r \in Asked, NEW b \in Seq(Units), NEW e \in Int, NEW p \in 1..Len(b) + 1,
           NEW c \in 1..CountIn(r, 1) + 1, p + e = StartOf(r, c), Shifted(r, b, p, e)
    PROVE  \E d \in 1..CountIn(r, 1) + 1 : Gets(r, b, p, c, e, d)
<1> DEFINE C == CountIn(r, 1)
           Starts(q, k) == q + e = StartOf(r, k) /\ Shifted(r, b, q, e)
           Ok(q, k) == \E d \in 1..C + 1 : Gets(r, b, q, k, e, d)
           S == {k \in 1..C + 1 : \A q \in 1..Len(b) + 1 : Starts(q, k) => Ok(q, k)}
<1>0. C \in Nat
  BY Asks, One
<1>1. ASSUME NEW k \in 1..C + 1, \A m \in 1..C + 1 : m > k => m \in S,
             NEW q \in 1..Len(b) + 1, Starts(q, k)
      PROVE  Ok(q, k)
  <2> DEFINE y == PayIn(r, 1)
             s == Scan(b, q)
  <2>1. DataTo(r, k) \in Nat /\ DataTo(r, k) <= Len(y) /\ y \in Seq(Units)
    BY DataIs
  <2>2. ASSUME ~ChunkAt(b, q) PROVE Ok(q, k)
    <3>1. s.data = <<>> /\ s.next = q /\ s.zero = FALSE
      BY <2>2, ScanNone
    <3>2. SubSeq(y, DataTo(r, k) + 1, DataTo(r, k)) = <<>>
      BY <2>1, NoPart
    <3>3. Len(b) + e < EndIn(r, 1)
      <4>1. CASE k \in 1..C
        <5> DEFINE n == r[1].chunks[k]
        <5>1. ~(q + n + 1 <= Len(b))
          BY <1>1, <2>2, <4>1, ChunkSeen
        <5>2. n \in Nat /\ StartOf(r, k) + n + 3 <= EndIn(r, 1)
          BY <4>1, ChunkInStream
        <5>3. EndIn(r, 1) \in Nat
          BY StreamIs, One
        <5> HIDE DEF n
        <5> QED  BY <1>1, <5>1, <5>2, <5>3
      <4>2. CASE k = C + 1
        <5>1. ~(q + 1 <= Len(b))
          BY <1>1, <2>2, <4>2, LastSeen
        <5>2. StartOf(r, k) + 1 = EndIn(r, 1) /\ StartOf(r, k) \in Nat
          BY <4>2, LastInStream
        <5> QED  BY <1>1, <5>1, <5>2
      <4> QED  BY <1>0, <4>1, <4>2
    <3>4. s.next + e = StartOf(r, k) /\ ~ChunkAt(b, s.next)
      BY <1>1, <2>2, <3>1
    <3>5. Gets(r, b, q, k, e, k)
      BY <2>1, <3>1, <3>2, <3>3, <3>4 DEF Gets
    <3> QED  BY <3>5
  <2>3. ASSUME ChunkAt(b, q), k = C + 1 PROVE Ok(q, k)
    <3>1. b[q][2] = 0
      BY <1>1, <2>3, LastSeen
    <3>2. s.data = <<>> /\ s.next = q + 2 /\ s.zero = TRUE
      BY <2>3, <3>1, ScanLast
    <3>3. SubSeq(y, DataTo(r, k) + 1, DataTo(r, k)) = <<>>
      BY <2>1, NoPart
    <3>4. StartOf(r, k) + 1 = EndIn(r, 1) /\ StartOf(r, k) \in Nat
      BY <2>3, LastInStream
    <3>5. s.next + e = EndIn(r, 1) + 1
      BY <1>1, <3>2, <3>4
    <3>6. Gets(r, b, q, k, e, k)
      BY <2>1, <2>3, <3>2, <3>3, <3>5 DEF Gets
    <3> QED  BY <3>6
  <2>4. ASSUME ChunkAt(b, q), k # C + 1 PROVE Ok(q, k)
    <3> DEFINE n == r[1].chunks[k]
               t == q + n + 2
               x == Scan(b, t)
    <3>1. k \in 1..C /\ k + 1 \in 1..C + 1 /\ k + 1 > k
      BY <1>0, <2>4
    <3>2. /\ b[q][2] = n /\ n # 0 /\ q + n + 1 <= Len(b)
          /\ SubSeq(b, q + 1, q + n) = SubSeq(y, DataTo(r, k) + 1, DataTo(r, k + 1))
      BY <1>1, <2>4, <3>1, ChunkSeen
    <3>3. /\ StartOf(r, k + 1) = StartOf(r, k) + n + 2 /\ StartOf(r, k) \in Nat
          /\ DataTo(r, k + 1) = DataTo(r, k) + n /\ n \in Nat
      BY <3>1, ChunkInStream
    <3>4. /\ t \in 1..Len(b) + 1 /\ x \in Results(b)
          /\ s.data = SubSeq(b, q + 1, q + n) \o x.data
          /\ s.next = x.next /\ s.zero = x.zero
      <4>1. b[q][2] # 0 /\ b[q][2] = n
        BY <3>2
      <4> HIDE DEF n
      <4> QED  BY <2>4, <4>1, ScanOn
    <3>5. Starts(t, k + 1)
      <4>1. t + e = StartOf(r, k + 1)
        <5>1. q + e = StartOf(r, k)
          BY <1>1
        <5> HIDE DEF n
        <5> QED  BY <5>1, <3>3
      <4>2. \A m \in t..Len(b) : m \in q..Len(b)
        <5> HIDE DEF n
        <5> QED  BY <3>3
      <4> QED  BY <1>1, <4>1, <4>2 DEF Shifted
    <3> HIDE DEF t, n
    <3>6. PICK d \in 1..C + 1 : Gets(r, b, t, k + 1, e, d)
      BY <1>1, <3>1, <3>4, <3>5
    <3>7. /\ DataTo(r, d) \in Nat /\ DataTo(r, k + 1) \in Nat
          /\ DataTo(r, k + 1) <= DataTo(r, d) /\ DataTo(r, d) <= Len(y)
          /\ x.data = SubSeq(y, DataTo(r, k + 1) + 1, DataTo(r, d))
      BY <3>6 DEF Gets
    <3>8. DataTo(r, k) <= DataTo(r, k + 1) /\ DataTo(r, k) <= DataTo(r, d)
      <4>1. DataTo(r, k + 1) = DataTo(r, k) + n /\ n \in Nat
        BY <3>3
      <4>2. DataTo(r, k + 1) <= DataTo(r, d) /\ DataTo(r, d) \in Nat
        BY <3>7
      <4> QED  BY <2>1, <4>1, <4>2
    <3>9. s.data = SubSeq(y, DataTo(r, k) + 1, DataTo(r, d))
      <4>1. s.data = SubSeq(y, DataTo(r, k) + 1, DataTo(r, k + 1)) \o SubSeq(y, DataTo(r, k + 1) + 1, DataTo(r, d))
        BY <3>2, <3>4, <3>7
      <4> HIDE DEF s, y
      <4> QED  BY <2>1, <3>7, <3>8, <4>1, SubSeqJoin
    <3>10. Gets(r, b, q, k, e, d)
      <4>1. /\ x.zero => d = CountIn(r, 1) + 1 /\ x.next + e = EndIn(r, 1) + 1
            /\ ~x.zero => /\ x.next + e = StartOf(r, d) /\ ~ChunkAt(b, x.next)
                          /\ Len(b) + e < EndIn(r, 1)
        BY <3>6 DEF Gets
      <4>2. s.next = x.next /\ s.zero = x.zero
        BY <3>4
      <4> QED  BY <2>1, <3>7, <3>8, <3>9, <4>1, <4>2 DEF Gets
    <3> QED  BY <3>10
  <2> QED  BY <2>2, <2>3, <2>4
<1>2. ASSUME NEW k \in 1..C + 1, \A m \in 1..C + 1 : m > k => m \in S PROVE k \in S
  BY <1>1, <1>2
<1>3. 1..C + 1 \subseteq S
  <2> HIDE DEF S, C
  <2> QED  BY <1>0, <1>2, Down
<1>4. Ok(p, c)
  BY <1>3
<1> QED  BY <1>4

-----------------------------------------------------------------------------
(***************************************************************************)
(* One step of the connection.                                             *)
(***************************************************************************)
\* What the model says of the requests, in the terms above.
LEMMA Sends ==
    ASSUME requests \in Asked
    PROVE  /\ \A i \in 1..N : Payload(i) = PayIn(requests, i)
           /\ Stream = StreamIn(requests)
           /\ \A i \in 0..N : EndOf(i) = EndIn(requests, i)
<1>1. ASSUME NEW i \in 1..N
      PROVE  Payload(i) = PayIn(requests, i) /\ Wire(i) = WireIn(requests, i)
  <2>1. \A c \in 1..CountIn(requests, i) : Data(i, c) = DataIn(requests, i, c)
    BY DEF Data, DataIn
  <2>2. [c \in 1..Len(requests[i].chunks) |-> Data(i, c)]
            = [c \in 1..CountIn(requests, i) |-> DatasIn(requests, i)[c]]
    BY <2>1 DEF DatasIn, CountIn
  <2>3. [c \in 1..Len(requests[i].chunks) |-> <<Size(Len(Data(i, c)))>> \o Data(i, c) \o <<End>>]
            = [c \in 1..CountIn(requests, i) |-> ChunksIn(requests, i)[c]]
    <3>1. \A c \in 1..CountIn(requests, i) :
             <<Size(Len(Data(i, c)))>> \o Data(i, c) \o <<End>> = ChunkIn(requests, i, c)
      BY <2>1 DEF ChunkIn
    <3> QED  BY <3>1 DEF ChunksIn, CountIn
  <2>4. Payload(i) = PayIn(requests, i)
    BY <2>2 DEF Payload, PayIn, Flat
  <2>5. Wire(i) = WireIn(requests, i)
    BY <2>3 DEF Wire, WireIn, Flat
  <2> QED  BY <2>4, <2>5
<1>2. Stream = StreamIn(requests)
  <2>1. [i \in 1..N |-> Wire(i)] = [i \in 1..N |-> WiresIn(requests)[i]]
    BY <1>1 DEF WiresIn
  <2> QED  BY <2>1 DEF Stream, StreamIn, Flat
<1>3. ASSUME NEW i \in 0..N PROVE EndOf(i) = EndIn(requests, i)
  <2>1. \A j \in 1..i : j \in 1..N
    BY ChunkedBodyAssumption DEF ChunkedBodyAssumption
  <2>2. \A j \in 1..i : Wire(j) = WiresIn(requests)[j]
    BY <1>1, <2>1 DEF WiresIn
  <2>3. [j \in 1..i |-> Wire(j)] = [j \in 1..i |-> WiresIn(requests)[j]]
    BY <2>2
  <2> QED  BY <2>3 DEF EndOf, EndIn, Flat
<1> QED  BY <1>1, <1>2, <1>3

\* The same after a step, which leaves the requests alone.
LEMMA SendsOn ==
    ASSUME requests \in Asked, UNCHANGED requests
    PROVE  /\ \A i \in 1..N : Payload(i)' = PayIn(requests, i)
           /\ Stream' = StreamIn(requests)
           /\ \A i \in 0..N : EndOf(i)' = EndIn(requests, i)
<1>1. \A i \in 1..N : Payload(i)' = Payload(i) /\ Wire(i)' = Wire(i)
  BY DEF Payload, Wire, Data
<1>2. Stream' = Stream
  BY DEF Stream, Wire, Data
<1>3. \A i \in 0..N : EndOf(i)' = EndOf(i)
  BY DEF EndOf, Wire, Data
<1> QED  BY <1>1, <1>2, <1>3, Sends

\* w is x, then y, then z.
InTurn(S, w, x, y, z) ==
    /\ w \in Seq(S) /\ Len(w) = Len(x) + Len(y) + Len(z)
    /\ \A k \in 1..Len(x) : w[k] = x[k]
    /\ \A k \in 1..Len(y) : w[Len(x) + k] = y[k]
    /\ \A k \in 1..Len(z) : w[Len(x) + Len(y) + k] = z[k]

LEMMA Three ==
    ASSUME NEW S, NEW x \in Seq(S), NEW y \in Seq(S), NEW z \in Seq(S), NEW w, w = x \o y \o z
    PROVE  InTurn(S, w, x, y, z)
<1> DEFINE v == x \o y
<1>1. v \in Seq(S) /\ Len(v) = Len(x) + Len(y) /\ (\A k \in 1..Len(x) : v[k] = x[k])
      /\ \A k \in 1..Len(y) : v[Len(x) + k] = y[k]
  OBVIOUS
<1> HIDE DEF v
<1>0. w = v \o z
  BY DEF v
<1>2. w \in Seq(S) /\ Len(w) = Len(v) + Len(z) /\ (\A k \in 1..Len(v) : w[k] = v[k])
      /\ \A k \in 1..Len(z) : w[Len(v) + k] = z[k]
  <2>1. v \in Seq(S)
    BY <1>1
  <2>2. /\ v \o z \in Seq(S) /\ Len(v \o z) = Len(v) + Len(z) /\ (\A k \in 1..Len(v) : (v \o z)[k] = v[k])
        /\ \A k \in 1..Len(z) : (v \o z)[Len(v) + k] = z[k]
    BY <2>1
  <2> QED  BY <1>0, <2>2
<1>3. Len(x) \in Nat /\ Len(y) \in Nat /\ Len(z) \in Nat
  OBVIOUS
<1>4. \A k \in 1..Len(x) : w[k] = x[k]
  BY <1>1, <1>2, <1>3
<1>5. \A k \in 1..Len(y) : w[Len(x) + k] = y[k]
  <2>1. \A k \in 1..Len(y) : Len(x) + k \in 1..Len(v)
    BY <1>1, <1>3
  <2> QED  BY <2>1, <1>1, <1>2
<1> QED  BY <1>1, <1>2, <1>3, <1>4, <1>5 DEF InTurn

\* Chunked by its parts.
BodyIn(buf) == Tail(buf)
FoundIn(buf) == Scan(Tail(buf), bodyLen + 1)
BodyOf(buf) ==
    SubSeq(Tail(buf), 1, bodyLen) \o FoundIn(buf).data
    \o SubSeq(Tail(buf), FoundIn(buf).next, Len(Tail(buf)))
NewBuf(buf) == <<buf[1]>> \o BodyOf(buf)
Total(buf) == rcvd + (Len(buf) - Len(recv))
MsgLen(buf) == IF FoundIn(buf).zero THEN 1 + Len(BodyOf(buf)) ELSE 1
Endless(buf) == ~FoundIn(buf).zero /\ requests[buf[1][2]].method = "POST"
Keeps(buf) ==
    /\ Endless(buf) \/ MsgLen(buf) > Total(buf)
    /\ recv' = NewBuf(buf) /\ rcvd' = Total(buf) /\ delivered' = delivered
Hands(buf) ==
    /\ ~Endless(buf) /\ ~(MsgLen(buf) > Total(buf))
    /\ recv' = SubSeq(NewBuf(buf), MsgLen(buf) + 1, 1 + Len(BodyOf(buf)))
    /\ rcvd' = 0
    /\ delivered' = Append(delivered, [request |-> buf[1][2], body |-> BodyOf(buf), len |-> MsgLen(buf)])

LEMMA ChunkedIs ==
    ASSUME NEW buf, Chunked(buf)
    PROVE  /\ buf[1][1] = "head" /\ Len(buf) - 1 >= bodyLen
           /\ bodyLen' = bodyLen + Len(FoundIn(buf).data) /\ status' = status
           /\ Keeps(buf) \/ Hands(buf)
BY Zenon DEF Chunked, Keeps, Hands, Endless, MsgLen, Total, NewBuf, BodyOf, FoundIn

\* What the body becomes.
LEMMA BodyIs ==
    ASSUME NEW buf \in Seq(Units), Len(buf) >= 1, bodyLen \in Nat, Len(buf) - 1 >= bodyLen
    PROVE  LET b == Tail(buf)
               s == FoundIn(buf)
               w == BodyOf(buf)
               v == NewBuf(buf)
           IN  /\ b \in Seq(Units) /\ Len(b) = Len(buf) - 1 /\ (\A k \in 1..Len(b) : b[k] = buf[k + 1])
               /\ bodyLen + 1 \in 1..Len(b) + 1
               /\ s = Scan(b, bodyLen + 1)
               /\ s.data \in Seq(Units) /\ Len(s.data) \in Nat /\ s.next \in 1..Len(b) + 1
               /\ s.zero \in BOOLEAN
               /\ w \in Seq(Units) /\ Len(w) = bodyLen + Len(s.data) + (Len(b) + 1 - s.next)
               /\ Len(w) \in Nat /\ Len(w) <= Len(b) /\ bodyLen + Len(s.data) <= Len(w)
               /\ \A k \in 1..bodyLen : w[k] = b[k]
               /\ \A k \in 1..Len(s.data) : w[bodyLen + k] = s.data[k]
               /\ \A k \in 1..Len(b) + 1 - s.next : w[bodyLen + Len(s.data) + k] = b[s.next + k - 1]
               /\ v \in Seq(Units) /\ Len(v) = Len(w) + 1 /\ v[1] = buf[1]
               /\ \A k \in 1..Len(w) : v[k + 1] = w[k]
<1> DEFINE b == Tail(buf)
           s == FoundIn(buf)
           w == BodyOf(buf)
           v == NewBuf(buf)
           m == bodyLen
           y == s.data
           x == SubSeq(b, 1, m)
           z == SubSeq(b, s.next, Len(b))
<1>1. b \in Seq(Units) /\ Len(b) = Len(buf) - 1 /\ (\A k \in 1..Len(b) : b[k] = buf[k + 1])
      /\ buf[1] \in Units
  BY EmptySeq
<1>2. Len(b) \in Nat /\ m \in Nat /\ m <= Len(b) /\ m + 1 \in 1..Len(b) + 1
  BY <1>1
<1>3. s = Scan(b, m + 1)
  BY DEF FoundIn
<1> HIDE DEF b, m
<1>4. /\ y \in Seq(Units) /\ Len(y) \in Nat /\ s.next \in 1..Len(b) + 1 /\ s.zero \in BOOLEAN
      /\ Len(y) + (m + 1) <= s.next
  BY <1>1, <1>2, <1>3, ScanShrinks DEF Shrinks
<1>5. x \in Seq(Units) /\ Len(x) = m /\ \A k \in 1..m : x[k] = b[k]
  <2>1. 0 + 1 = 1 /\ m - 0 = m /\ 0 <= m
    BY <1>2
  <2>2. /\ SubSeq(b, 0 + 1, m) \in Seq(Units) /\ Len(SubSeq(b, 0 + 1, m)) = m - 0
        /\ \A k \in 1..m - 0 : SubSeq(b, 0 + 1, m)[k] = b[0 + k]
    BY <1>1, <1>2, <2>1, PartFrom
  <2>3. \A k \in 1..m : 0 + k = k
    OBVIOUS
  <2> HIDE DEF x
  <2>4. x = SubSeq(b, 0 + 1, m)
    BY <2>1 DEF x
  <2> QED  BY <2>1, <2>2, <2>3, <2>4
<1>6. z \in Seq(Units) /\ Len(z) = Len(b) + 1 - s.next /\ \A k \in 1..Len(b) + 1 - s.next : z[k] = b[s.next + k - 1]
  <2> DEFINE q == s.next
  <2>1. q \in Nat /\ q <= Len(b) + 1 /\ q >= 1
    BY <1>2, <1>4
  <2> HIDE DEF q
  <2>2. /\ SubSeq(b, q, Len(b)) \in Seq(Units) /\ Len(SubSeq(b, q, Len(b))) = Len(b) + 1 - q
        /\ \A k \in 1..Len(b) + 1 - q : SubSeq(b, q, Len(b))[k] = b[q + k - 1]
    BY <1>1, <1>2, <2>1, PartIs
  <2> QED  BY <2>2 DEF q
<1>7. w = x \o y \o z
  BY DEF BodyOf, b, m
<1> HIDE DEF s, x, y, z, w, v
<1>8. /\ w \in Seq(Units) /\ Len(w) = Len(x) + Len(y) + Len(z)
      /\ \A k \in 1..Len(x) : w[k] = x[k]
      /\ \A k \in 1..Len(y) : w[Len(x) + k] = y[k]
      /\ \A k \in 1..Len(z) : w[Len(x) + Len(y) + k] = z[k]
  <2>1. x \in Seq(Units) /\ y \in Seq(Units) /\ z \in Seq(Units)
    BY <1>4, <1>5, <1>6
  <2>2. InTurn(Units, w, x, y, z)
    BY <1>7, <2>1, Three
  <2> QED  BY <2>2 DEF InTurn
<1>9. Len(w) = m + Len(y) + (Len(b) + 1 - s.next) /\ Len(w) \in Nat /\ Len(w) <= Len(b) /\ m + Len(y) <= Len(w)
  <2> DEFINE l == Len(y)
             q == s.next
             n == Len(b)
             o == Len(w)
  <2>1. l \in Nat /\ q \in 1..n + 1 /\ n \in Nat /\ m \in Nat /\ l + (m + 1) <= q
    BY <1>2, <1>4
  <2>2. o = Len(x) + l + Len(z) /\ Len(x) = m /\ Len(z) = n + 1 - q
    BY <1>5, <1>6, <1>8
  <2> HIDE DEF l, q, n, o
  <2>3. o = m + l + (n + 1 - q) /\ o \in Nat /\ o <= n /\ m + l <= o
    BY <2>1, <2>2
  <2> QED  BY <2>3 DEF l, q, n, o
<1>10. v = <<buf[1]>> \o w
  BY DEF v, w, NewBuf
<1>11. v \in Seq(Units) /\ Len(v) = Len(w) + 1 /\ v[1] = buf[1] /\ \A k \in 1..Len(w) : v[k + 1] = w[k]
  <2> DEFINE u == buf[1]
  <2>1. u \in Units
    BY <1>1
  <2> HIDE DEF u
  <2>2. <<u>> \o w \in Seq(Units) /\ Len(<<u>> \o w) = Len(w) + 1 /\ (<<u>> \o w)[1] = u
        /\ \A k \in 1..Len(w) : (<<u>> \o w)[k + 1] = w[k]
    BY <1>8, <2>1
  <2> QED  BY <1>10, <2>2 DEF u
<1>12. \A k \in 1..m : w[k] = b[k]
  BY <1>5, <1>8
<1>13. \A k \in 1..Len(y) : w[m + k] = y[k]
  BY <1>5, <1>8
<1>14. \A k \in 1..Len(b) + 1 - s.next : w[m + Len(y) + k] = b[s.next + k - 1]
  BY <1>5, <1>6, <1>8
<1> QED
  BY <1>1, <1>2, <1>3, <1>4, <1>8, <1>9, <1>11, <1>12, <1>13, <1>14 DEF s, y, w, v, b, m

-----------------------------------------------------------------------------
(***************************************************************************)
(* The types.                                                              *)
(***************************************************************************)
Deliveries == [request : 1..N, body : Seq(Units), len : Nat]

CkTyped ==
    /\ requests \in Asked
    /\ sent \in Nat /\ sent <= Len(StreamIn(requests))
    /\ bodyLen \in Nat /\ rcvd \in Nat
    /\ recv \in Seq(Units) /\ Len(recv) <= sent
    /\ status \in {"open", "rejected", "aborted"}
    /\ delivered \in Seq(Deliveries)

\* The buffer with n more units.
Buf(n) == recv \o SubSeq(StreamIn(requests), sent + 1, sent + n)

BufHolds(n) ==
    /\ Buf(n) \in Seq(Units) /\ Len(Buf(n)) = Len(recv) + n
    /\ \A k \in 1..Len(recv) : Buf(n)[k] = recv[k]
    /\ \A k \in 1..n : Buf(n)[Len(recv) + k] = StreamIn(requests)[sent + k]

ReadsNow(i, n) ==
    /\ status = "open" /\ requests' = requests
    /\ n >= 1 /\ sent' = sent + n /\ sent + n <= Len(StreamIn(requests))
    /\ EndIn(requests, i - 1) <= sent /\ sent < EndIn(requests, i)
    /\ ~Pipelining => Len(delivered) >= i - 1 /\ sent + n <= EndIn(requests, i)
    /\ Garbage(Buf(n)) \/ Abort(Buf(n)) \/ Chunked(Buf(n))
    /\ BufHolds(n)

LEMMA BufIs ==
    ASSUME CkTyped, NEW n \in Nat, sent + n <= Len(StreamIn(requests))
    PROVE  BufHolds(n)
<1> DEFINE t == StreamIn(requests)
           j == sent + n
           x == SubSeq(t, sent + 1, j)
<1>1. t \in Seq(Units)
  BY StreamIs, One DEF CkTyped
<1>2. sent \in Nat /\ j \in Nat /\ sent <= j /\ j <= Len(t) /\ j - sent = n
  BY DEF CkTyped
<1> HIDE DEF t, j
<1>3. x \in Seq(Units) /\ Len(x) = n /\ \A k \in 1..n : x[k] = t[sent + k]
  <2>1. x \in Seq(Units) /\ Len(x) = j - sent /\ \A k \in 1..j - sent : x[k] = t[sent + k]
    BY <1>1, <1>2, PartFrom
  <2> QED  BY <1>2, <2>1
<1>4. recv \in Seq(Units)
  BY DEF CkTyped
<1>5. Buf(n) = recv \o x
  BY DEF Buf, t, j
<1> HIDE DEF x
<1>6. /\ recv \o x \in Seq(Units) /\ Len(recv \o x) = Len(recv) + Len(x)
      /\ \A k \in 1..Len(recv) : (recv \o x)[k] = recv[k]
      /\ \A k \in 1..Len(x) : (recv \o x)[Len(recv) + k] = x[k]
  BY <1>3, <1>4
<1> QED  BY <1>3, <1>5, <1>6 DEF BufHolds, t

LEMMA Reads ==
    ASSUME CkTyped, Receive
    PROVE  \E i \in 1..N, n \in Nat : ReadsNow(i, n)
<1>1. requests \in Asked /\ N \in Nat /\ sent \in Nat
  BY ChunkedBodyAssumption DEF CkTyped, ChunkedBodyAssumption
<1>2. PICK i \in 1..N :
        /\ EndOf(i - 1) <= sent /\ sent < EndOf(i)
        /\ Pipelining \/ Len(delivered) >= i - 1
        /\ \E n \in 1..(IF Pipelining THEN EndOf(N) ELSE EndOf(i)) - sent :
            /\ sent' = sent + n
            /\ LET buf == recv \o SubSeq(Stream, sent + 1, sent + n)
               IN  Garbage(buf) \/ Abort(buf) \/ Chunked(buf)
  BY DEF Receive
<1>3. PICK n \in 1..(IF Pipelining THEN EndOf(N) ELSE EndOf(i)) - sent :
            /\ sent' = sent + n
            /\ LET buf == recv \o SubSeq(Stream, sent + 1, sent + n)
               IN  Garbage(buf) \/ Abort(buf) \/ Chunked(buf)
  BY <1>2
<1>4. EndOf(i - 1) = EndIn(requests, i - 1) /\ EndOf(i) = EndIn(requests, i) /\ EndOf(N) = EndIn(requests, N)
      /\ Stream = StreamIn(requests)
  <2>1. i - 1 \in 0..N /\ i \in 0..N /\ N \in 0..N
    BY <1>1
  <2> QED  BY <1>1, <2>1, Sends
<1>5. EndIn(requests, N) = Len(StreamIn(requests))
  BY DEF EndIn, StreamIn
<1>6. EndIn(requests, i) \in Nat /\ EndIn(requests, i) <= Len(StreamIn(requests)) /\ Len(StreamIn(requests)) \in Nat
  <2>1. StreamIn(requests) \in Seq(Units)
    BY <1>1, StreamIs
  <2> QED  BY <1>1, <2>1, StreamIs, LenProperties
<1>7. n \in Nat /\ n >= 1 /\ sent + n <= Len(StreamIn(requests)) /\ (~Pipelining => sent + n <= EndIn(requests, i))
  <2>1. CASE Pipelining
    BY <1>1, <1>3, <1>4, <1>5, <1>6, <2>1
  <2>2. CASE ~Pipelining
    <3>1. n \in 1..EndIn(requests, i) - sent
      BY <1>3, <1>4, <2>2
    <3> QED  BY <3>1, <1>1, <1>6
  <2> QED  BY <2>1, <2>2
<1>8. BufHolds(n)
  BY <1>7, BufIs
<1>9. Garbage(Buf(n)) \/ Abort(Buf(n)) \/ Chunked(Buf(n))
  BY <1>3, <1>4 DEF Buf
<1>10. status = "open" /\ requests' = requests
  BY DEF Receive
<1>11. ReadsNow(i, n)
  BY <1>2, <1>3, <1>4, <1>7, <1>8, <1>9, <1>10 DEF ReadsNow
<1> QED  BY <1>7, <1>11

\* What is left in the buffer when a request is handed over.
LEMMA LeftIs ==
    ASSUME NEW v \in Seq(Units), NEW m \in Nat, m <= Len(v)
    PROVE  /\ SubSeq(v, m + 1, Len(v)) \in Seq(Units) /\ Len(SubSeq(v, m + 1, Len(v))) = Len(v) - m
           /\ \A k \in 1..Len(v) - m : SubSeq(v, m + 1, Len(v))[k] = v[m + k]
<1>1. Len(v) \in Nat /\ Len(v) <= Len(v)
  OBVIOUS
<1> QED  BY <1>1, PartFrom

LEMMA CkTypedInit == CkInit => CkTyped
<1> SUFFICES ASSUME CkInit PROVE CkTyped
  OBVIOUS
<1>1. requests \in Asked
  BY DEF CkInit, Asked
<1>2. Len(StreamIn(requests)) \in Nat
  BY <1>1, StreamIs, One, LenProperties
<1>3. recv = <<>> /\ recv \in Seq(Units) /\ Len(recv) = 0 /\ delivered \in Seq(Deliveries)
  BY DEF CkInit
<1> QED  BY <1>1, <1>2, <1>3 DEF CkInit, CkTyped

LEMMA CkTypedNext == CkTyped /\ [CkNext]_ckVars => CkTyped'
<1> SUFFICES ASSUME CkTyped, [CkNext]_ckVars PROVE CkTyped'
  OBVIOUS
<1>1. CASE UNCHANGED ckVars
  BY <1>1 DEF ckVars, CkTyped
<1>2. CASE Receive
  <2>1. PICK i \in 1..N, n \in Nat : ReadsNow(i, n)
    BY <1>2, Reads
  <2> DEFINE buf == Buf(n)
  <2>2. /\ requests' = requests /\ sent' = sent + n /\ sent + n <= Len(StreamIn(requests)) /\ n >= 1
        /\ status = "open" /\ buf \in Seq(Units) /\ Len(buf) = Len(recv) + n
    BY <2>1 DEF ReadsNow, BufHolds
  <2>3. /\ sent \in Nat /\ bodyLen \in Nat /\ rcvd \in Nat /\ recv \in Seq(Units) /\ Len(recv) \in Nat
        /\ Len(recv) <= sent /\ delivered \in Seq(Deliveries) /\ requests \in Asked
    BY DEF CkTyped
  <2>4. Len(buf) \in Nat /\ Len(buf) <= sent + n /\ Len(buf) >= 1 /\ Total(buf) \in Nat
    BY <2>2, <2>3 DEF Total
  <2>5. Garbage(buf) \/ Abort(buf) \/ Chunked(buf)
    BY <2>1 DEF ReadsNow
  <2>6. requests' \in Asked /\ sent' \in Nat /\ sent' <= Len(StreamIn(requests'))
    BY <2>2, <2>3
  <2> HIDE DEF buf
  <2>7. CASE Garbage(buf)
    <3>1. /\ recv' = buf /\ rcvd' = Total(buf) /\ bodyLen' = bodyLen /\ delivered' = delivered
          /\ status' \in {"open", "rejected", "aborted"}
      BY <2>2, <2>7 DEF Garbage, Total
    <3> QED  BY <3>1, <2>2, <2>3, <2>4, <2>6 DEF CkTyped
  <2>8. CASE Abort(buf)
    <3>1. /\ recv' = recv /\ rcvd' = rcvd /\ bodyLen' = bodyLen /\ delivered' = delivered /\ status' = "aborted"
      BY <2>8 DEF Abort
    <3> QED  BY <3>1, <2>2, <2>3, <2>6 DEF CkTyped
  <2>9. CASE Chunked(buf)
    <3> DEFINE w == BodyOf(buf)
               v == NewBuf(buf)
               f == FoundIn(buf)
    <3>1. /\ buf[1][1] = "head" /\ Len(buf) - 1 >= bodyLen
          /\ bodyLen' = bodyLen + Len(f.data) /\ status' = status /\ (Keeps(buf) \/ Hands(buf))
      BY <2>9, ChunkedIs
    <3>2. /\ Len(f.data) \in Nat /\ f.zero \in BOOLEAN /\ w \in Seq(Units) /\ Len(w) \in Nat /\ Len(w) <= Len(buf) - 1
          /\ v \in Seq(Units) /\ Len(v) = Len(w) + 1
      BY <2>2, <2>3, <2>4, <3>1, BodyIs
    <3>3. buf[1] \in Units /\ buf[1][2] \in 1..N
      <4>1. buf[1] \in Units
        BY <2>2, <2>4
      <4> QED  BY <3>1, <4>1, UnitIs
    <3>4. bodyLen' \in Nat /\ status' \in {"open", "rejected", "aborted"}
      <4> DEFINE k == Len(f.data)
      <4>1. k \in Nat /\ bodyLen' = bodyLen + k /\ status' = status
        BY <3>1, <3>2
      <4> HIDE DEF k, f, v, w
      <4>2. bodyLen' \in Nat
        BY <4>1, <2>3
      <4> QED  BY <4>1, <4>2, <2>2
    <3>5. CASE Keeps(buf)
      <4>1. recv' = v /\ rcvd' = Total(buf) /\ delivered' = delivered
        BY <3>5 DEF Keeps
      <4>2. Len(v) <= sent + n
        BY <2>2, <2>3, <2>4, <3>2
      <4> HIDE DEF v
      <4> QED  BY <2>2, <2>3, <2>4, <2>6, <3>2, <3>4, <4>1, <4>2 DEF CkTyped
    <3>6. CASE Hands(buf)
      <4> DEFINE m == MsgLen(buf)
                 x == SubSeq(v, m + 1, Len(v))
      <4>1. /\ recv' = SubSeq(v, m + 1, 1 + Len(w)) /\ rcvd' = 0
            /\ delivered' = Append(delivered, [request |-> buf[1][2], body |-> w, len |-> m])
        BY <3>6 DEF Hands
      <4>2. m \in Nat /\ m <= Len(v)
        BY <3>2 DEF MsgLen
      <4>3. 1 + Len(w) = Len(v)
        BY <3>2
      <4>4. recv' = x
        BY <4>1, <4>3
      <4> HIDE DEF v, m
      <4>5. x \in Seq(Units) /\ Len(x) = Len(v) - m
        BY <3>2, <4>2, LeftIs
      <4>6. Len(x) <= sent + n
        BY <2>2, <2>3, <2>4, <3>2, <4>2, <4>5
      <4>7. delivered' \in Seq(Deliveries)
        <5> DEFINE e == [request |-> buf[1][2], body |-> w, len |-> m]
        <5>1. e \in Deliveries
          BY <3>2, <3>3, <4>2 DEF Deliveries
        <5> HIDE DEF e
        <5>2. Append(delivered, e) \in Seq(Deliveries)
          BY <2>3, <5>1
        <5> QED  BY <4>1, <5>2 DEF e
      <4> HIDE DEF x
      <4>8. recv' \in Seq(Units) /\ Len(recv') <= sent' /\ rcvd' \in Nat
        BY <2>2, <4>1, <4>4, <4>5, <4>6
      <4> QED  BY <2>6, <3>4, <4>7, <4>8 DEF CkTyped
    <3> QED  BY <3>1, <3>5, <3>6
  <2> QED  BY <2>5, <2>7, <2>8, <2>9
<1> QED  BY <1>1, <1>2 DEF CkNext

\* Every variable of the connection stays in its domain, and decoding only
\* shortens what recv_mbuf holds.
THEOREM CkTypeCorrect == CkSpec => []CkTypeOK
<1>1. CkTyped => CkTypeOK
  <2> SUFFICES ASSUME CkTyped PROVE CkTypeOK
    OBVIOUS
  <2>1. \A k \in 1..Len(delivered) : delivered[k].request \in 1..N
    <3> SUFFICES ASSUME NEW k \in 1..Len(delivered) PROVE delivered[k].request \in 1..N
      OBVIOUS
    <3>1. delivered[k] \in Deliveries
      BY DEF CkTyped
    <3> QED  BY <3>1 DEF Deliveries
  <2> QED  BY <2>1 DEF CkTyped, CkTypeOK, Asked
<1> QED  BY <1>1, CkTypedInit, CkTypedNext, PTL DEF CkSpec

-----------------------------------------------------------------------------
(***************************************************************************)
(* The first request, decoded in place.                                    *)
(***************************************************************************)
\* What follows position q of b follows position p of a.
Follows(a, p, b, q) ==
    /\ p \in 1..Len(a) + 1 /\ q \in 1..Len(b) + 1 /\ Len(a) - p = Len(b) - q
    /\ \A k \in 0..Len(a) - p : a[p + k] = b[q + k]

LEMMA ChunkMoved ==
    ASSUME NEW a \in Seq(Units), NEW b \in Seq(Units), NEW p \in Nat, NEW q \in Nat,
           Follows(a, p, b, q), ChunkAt(a, p)
    PROVE  ChunkAt(b, q)
<1> DEFINE n == a[p][2]
<1>1. /\ p \in 1..Len(a) + 1 /\ q \in 1..Len(b) + 1 /\ Len(a) - p = Len(b) - q
      /\ \A k \in 0..Len(a) - p : a[p + k] = b[q + k]
  BY DEF Follows
<1>2. n \in Nat /\ p \in 1..Len(a)
  BY <1>1, ChunkEnds
<1>3. a[p][1] = "size" /\ p + n + 1 <= Len(a) /\ a[p + n + 1] = End
  BY DEF ChunkAt
<1> HIDE DEF n
<1>4. Len(a) \in Nat /\ Len(b) \in Nat
  OBVIOUS
<1>5. 0 \in 0..Len(a) - p /\ n + 1 \in 0..Len(a) - p /\ p + 0 = p /\ q + 0 = q
      /\ p + (n + 1) = p + n + 1 /\ q + (n + 1) = q + n + 1
  <2>1. n \in Nat /\ p \in Nat /\ q \in Nat /\ Len(a) \in Nat
    BY <1>2, <1>4
  <2>2. p + n + 1 <= Len(a)
    BY <1>3
  <2>3. 0 \in 0..Len(a) - p /\ n + 1 \in 0..Len(a) - p
    BY <2>1, <2>2
  <2>4. p + 0 = p /\ q + 0 = q /\ p + (n + 1) = p + n + 1 /\ q + (n + 1) = q + n + 1
    BY <2>1
  <2> QED  BY <2>3, <2>4
<1>6. a[p] = b[q] /\ a[p + n + 1] = b[q + n + 1]
  <2>1. a[p + 0] = b[q + 0] /\ a[p + (n + 1)] = b[q + (n + 1)]
    BY <1>1, <1>5
  <2> QED  BY <2>1, <1>5
<1>7. q <= Len(b) /\ q + n + 1 <= Len(b)
  BY <1>1, <1>2, <1>3, <1>4
<1>8. b[q][1] = "size" /\ b[q][2] = n /\ b[q + n + 1] = End
  BY <1>3, <1>6 DEF n
<1> QED  BY <1>7, <1>8 DEF ChunkAt

\* m units are sent; v holds the head, the data before chunk c, and what was sent from there on, e units later.
InPlace(r, v, m, c, e) ==
    /\ Len(v) >= DataTo(r, c) + 1 /\ Len(v) + e = m /\ DataTo(r, c) + 2 + e = StartOf(r, c)
    /\ v[1] = HeadOf(1)
    /\ \A k \in 1..DataTo(r, c) : v[k + 1] = PayIn(r, 1)[k]
    /\ \A k \in DataTo(r, c) + 2..Len(v) : v[k] = StreamIn(r)[k + e]

\* While the first request, a POST, is on its way.
OnItsWay ==
    requests[1].method = "POST" /\ delivered = <<>> =>
        /\ status = "open" /\ rcvd = sent
        /\ \/ sent = 0 /\ recv = <<>> /\ bodyLen = 0
           \/ /\ sent < EndIn(requests, 1) /\ recv # <<>>
              /\ ~ChunkAt(Tail(recv), bodyLen + 1)
              /\ \E c \in 1..CountIn(requests, 1) + 1, e \in Int :
                    InPlace(requests, recv, sent, c, e) /\ bodyLen = DataTo(requests, c)

\* When it was handed over.
HandedWhole ==
    requests[1].method = "POST" /\ delivered # <<>> /\ ~Pipelining =>
        delivered[1] = [request |-> 1, body |-> PayIn(requests, 1), len |-> Len(PayIn(requests, 1)) + 1]

LEMMA BufInPlace ==
    ASSUME CkTyped, OnItsWay, requests[1].method = "POST", delivered = <<>>,
           NEW i \in 1..N, NEW n \in Nat, ReadsNow(i, n)
    PROVE  \E c \in 1..CountIn(requests, 1) + 1, e \in Int :
               InPlace(requests, Buf(n), sent + n, c, e) /\ bodyLen = DataTo(requests, c)
<1> DEFINE r == requests
           buf == Buf(n)
           t == StreamIn(requests)
<1>1. /\ buf \in Seq(Units) /\ Len(buf) = Len(recv) + n /\ n >= 1
      /\ \A k \in 1..Len(recv) : buf[k] = recv[k]
      /\ \A k \in 1..n : buf[Len(recv) + k] = t[sent + k]
  BY DEF ReadsNow, BufHolds
<1>2. r \in Asked /\ sent \in Nat /\ recv \in Seq(Units) /\ Len(recv) \in Nat
  BY DEF CkTyped
<1>3. CASE sent = 0 /\ recv = <<>> /\ bodyLen = 0
  <2>1. StartOf(r, 1) = 2 /\ DataTo(r, 1) = 0
    <3>1. Flat(ChunksIn(r, 1), 0) = <<>> /\ Flat(DatasIn(r, 1), 0) = <<>> /\ 1 - 1 = 0 /\ Len(<<>>) = 0
      BY FlatNone
    <3> QED  BY <3>1 DEF StartOf, DataTo
  <2>2. Len(recv) = 0
    BY <1>3
  <2> HIDE DEF buf, t
  <2>3. Len(buf) = n /\ \A k \in 1..n : buf[k] = t[k]
    BY <1>1, <1>3, <2>2
  <2>4. t[1] = HeadOf(1) /\ 1 \in 1..n
    BY <1>1, <1>2, LastInStream DEF t
  <2>5. buf[1] = HeadOf(1)
    BY <2>3, <2>4
  <2>6. \A k \in 2..n : buf[k] = t[k + 0]
    BY <2>3
  <2>7. InPlace(r, buf, sent + n, 1, 0)
    BY <1>1, <1>3, <2>1, <2>3, <2>5, <2>6 DEF InPlace, t
  <2>8. 1 \in 1..CountIn(r, 1) + 1 /\ 0 \in Int
    BY <1>2, Asks, One
  <2> QED  BY <1>3, <2>1, <2>7, <2>8 DEF buf
<1>4. CASE ~(sent = 0 /\ recv = <<>> /\ bodyLen = 0)
  <2>1. PICK c \in 1..CountIn(r, 1) + 1, e \in Int :
            InPlace(r, recv, sent, c, e) /\ bodyLen = DataTo(r, c)
    BY <1>4 DEF OnItsWay
  <2> DEFINE d == DataTo(r, c)
             l == Len(recv)
             y == PayIn(r, 1)
  <2>2. /\ l >= d + 1 /\ l + e = sent /\ d + 2 + e = StartOf(r, c)
        /\ recv[1] = HeadOf(1)
        /\ \A k \in 1..d : recv[k + 1] = y[k]
        /\ \A k \in d + 2..l : recv[k] = t[k + e]
    BY <2>1 DEF InPlace
  <2>3. d \in Nat
    BY <1>2, DataIs
  <2>4. l \in Nat
    BY <1>2
  <2>5. Len(buf) = l + n
    BY <1>1
  <2>6. (\A k \in 1..l : buf[k] = recv[k]) /\ \A k \in 1..n : buf[l + k] = t[sent + k]
    BY <1>1
  <2> HIDE DEF d, l, y, t, buf
  <2>7. Len(buf) >= d + 1 /\ Len(buf) + e = sent + n
    <3>1. l >= d + 1 /\ l + e = sent /\ n >= 1
      BY <1>1, <2>2
    <3> QED  BY <3>1, <1>2, <2>3, <2>4, <2>5
  <2>8. buf[1] = HeadOf(1) /\ \A k \in 1..d : buf[k + 1] = y[k]
    <3>1. 1 \in 1..l /\ \A k \in 1..d : k + 1 \in 1..l
      BY <2>2, <2>3, <2>4
    <3> QED  BY <3>1, <2>2, <2>6
  <2>9. ASSUME NEW k \in d + 2..Len(buf) PROVE buf[k] = t[k + e]
    <3>1. CASE k \in d + 2..l
      <4>1. k \in 1..l
        BY <2>3, <3>1
      <4> QED  BY <2>2, <2>6, <3>1, <4>1
    <3>2. CASE k > l
      <4>1. k - l \in 1..n /\ l + (k - l) = k /\ sent + (k - l) = k + e
        BY <1>2, <2>2, <2>3, <2>4, <2>5, <3>2
      <4>2. buf[l + (k - l)] = t[sent + (k - l)]
        BY <2>6, <4>1
      <4> QED  BY <4>1, <4>2
    <3> QED  BY <3>1, <3>2, <2>3, <2>4
  <2>10. InPlace(r, buf, sent + n, c, e)
    BY <2>2, <2>7, <2>8, <2>9 DEF InPlace, d, y, t
  <2> QED  BY <2>1, <2>10 DEF buf
<1> QED  BY <1>3, <1>4

\* The loop of mg_handle_chunked on it.
LEMMA Decodes ==
    ASSUME NEW r \in Asked, NEW buf \in Seq(Units), NEW m \in Nat, NEW c \in 1..CountIn(r, 1) + 1,
           NEW e \in Int, InPlace(r, buf, m, c, e), bodyLen = DataTo(r, c)
    PROVE  /\ buf[1] = HeadOf(1) /\ Len(buf) >= 1 /\ Len(buf) - 1 >= bodyLen /\ bodyLen \in Nat
           /\ \E d \in 1..CountIn(r, 1) + 1 : Gets(r, Tail(buf), bodyLen + 1, c, e + 1, d)
<1> DEFINE b == Tail(buf)
           t == StreamIn(r)
           p == bodyLen + 1
<1>1. DataTo(r, c) \in Nat
  BY DataIs
<1>2. /\ Len(buf) >= bodyLen + 1 /\ Len(buf) + e = m /\ bodyLen + 2 + e = StartOf(r, c)
      /\ buf[1] = HeadOf(1)
      /\ \A k \in bodyLen + 2..Len(buf) : buf[k] = t[k + e]
  BY DEF InPlace
<1>3. Len(buf) >= 1 /\ Len(buf) - 1 >= bodyLen /\ bodyLen \in Nat
  BY <1>1, <1>2
<1>4. b \in Seq(Units) /\ Len(b) = Len(buf) - 1 /\ (\A k \in 1..Len(b) : b[k] = buf[k + 1]) /\ p \in 1..Len(b) + 1
  BY <1>3, BodyIs
<1> HIDE DEF b, t
<1>5. p + (e + 1) = StartOf(r, c) /\ e + 1 \in Int
  BY <1>2, <1>3
<1>6. ASSUME NEW k \in p..Len(b) PROVE b[k] = t[k + (e + 1)]
  <2>1. k \in 1..Len(b) /\ k + 1 \in bodyLen + 2..Len(buf) /\ (k + 1) + e = k + (e + 1)
    <3>1. bodyLen \in Nat /\ Len(b) = Len(buf) - 1 /\ e \in Int /\ p = bodyLen + 1
      BY <1>3, <1>4
    <3>2. Len(buf) \in Nat
      BY LenProperties
    <3>3. k \in Int /\ k >= bodyLen + 1 /\ k <= Len(b)
      BY <3>1, <3>2
    <3> HIDE DEF p
    <3>4. k \in 1..Len(b) /\ k + 1 \in bodyLen + 2..Len(buf)
      BY <3>1, <3>2, <3>3
    <3>5. (k + 1) + e = k + (e + 1)
      BY <3>1, <3>3
    <3> QED  BY <3>4, <3>5
  <2>2. b[k] = buf[k + 1] /\ buf[k + 1] = t[(k + 1) + e]
    BY <1>2, <1>4, <2>1
  <2> QED  BY <2>1, <2>2
<1>7. Shifted(r, b, p, e + 1)
  BY <1>6 DEF Shifted, t
<1> HIDE DEF p
<1>8. \E d \in 1..CountIn(r, 1) + 1 : Gets(r, b, p, c, e + 1, d)
  BY <1>4, <1>5, <1>7, ScanStream
<1> QED  BY <1>2, <1>3, <1>8 DEF b, p

\* The decoded body: what was decoded before, what is found now, and the rest.
DecodedTo(r, buf, m, e, d) ==
    LET w == BodyOf(buf)
        b == Tail(buf)
        q == FoundIn(buf).next
    IN  /\ DataTo(r, d) = bodyLen + Len(FoundIn(buf).data) /\ DataTo(r, d) \in Nat
        /\ q \in Nat /\ q >= bodyLen + 1
        /\ Len(w) = DataTo(r, d) + (Len(b) + 1 - q)
        /\ \A k \in 1..DataTo(r, d) : w[k] = PayIn(r, 1)[k]
        /\ \A k \in 1..Len(b) + 1 - q : w[DataTo(r, d) + k] = b[q + k - 1]
        /\ \A k \in 1..Len(b) + 1 - q : w[DataTo(r, d) + k] = StreamIn(r)[q + k + e]
        /\ Len(b) + 1 = Len(buf) /\ Len(b) + 1 + e = m

LEMMA DecodesTo ==
    ASSUME NEW r \in Asked, NEW buf \in Seq(Units), NEW m \in Nat, NEW c \in 1..CountIn(r, 1) + 1,
           NEW e \in Int, InPlace(r, buf, m, c, e), bodyLen = DataTo(r, c),
           NEW d \in 1..CountIn(r, 1) + 1, Gets(r, Tail(buf), bodyLen + 1, c, e + 1, d)
    PROVE  DecodedTo(r, buf, m, e, d)
<1> DEFINE w == BodyOf(buf)
           b == Tail(buf)
           s == FoundIn(buf)
           q == s.next
           l == Len(s.data)
           i == bodyLen
           j == DataTo(r, d)
           y == PayIn(r, 1)
           t == StreamIn(r)
<1>1. Len(buf) >= 1 /\ Len(buf) - 1 >= bodyLen /\ bodyLen \in Nat
  BY Decodes
<1>2. /\ b \in Seq(Units) /\ Len(b) = Len(buf) - 1 /\ (\A k \in 1..Len(b) : b[k] = buf[k + 1])
      /\ s = Scan(b, i + 1)
      /\ s.data \in Seq(Units) /\ l \in Nat /\ q \in 1..Len(b) + 1
      /\ w \in Seq(Units) /\ Len(w) = i + l + (Len(b) + 1 - q)
      /\ Len(w) \in Nat /\ Len(w) <= Len(b)
      /\ \A k \in 1..i : w[k] = b[k]
      /\ \A k \in 1..l : w[i + k] = s.data[k]
      /\ \A k \in 1..Len(b) + 1 - q : w[i + l + k] = b[q + k - 1]
  BY <1>1, BodyIs
<1>3. /\ i = DataTo(r, c) /\ j \in Nat /\ i <= j /\ j <= Len(y)
      /\ s.data = SubSeq(y, i + 1, j)
  BY <1>2 DEF Gets
<1>4. y \in Seq(Units)
  BY DataIs
<1>5. l = j - i /\ \A k \in 1..j - i : s.data[k] = y[i + k]
  <2> DEFINE z == SubSeq(y, i + 1, j)
  <2>1. i \in Nat /\ j \in Nat /\ i <= j /\ j <= Len(y) /\ s.data = z
    BY <1>1, <1>3
  <2> HIDE DEF i, j, y, s
  <2>2. Len(z) = j - i /\ \A k \in 1..j - i : z[k] = y[i + k]
    BY <2>1, <1>4, PartFrom
  <2> HIDE DEF z
  <2> QED  BY <2>1, <2>2
<1>6. /\ Len(buf) + e = m /\ \A k \in 1..i : buf[k + 1] = y[k]
      /\ \A k \in i + 2..Len(buf) : buf[k] = t[k + e]
  BY DEF InPlace
<1>7. Len(b) \in Nat /\ i \in Nat /\ i <= Len(b) /\ Len(buf) = Len(b) + 1 /\ i + l = j
  <2>1. Len(buf) >= 1 /\ Len(buf) - 1 >= i /\ i \in Nat
    BY <1>1
  <2>2. b \in Seq(Units) /\ Len(b) = Len(buf) - 1
    BY <1>2
  <2>3. Len(b) \in Nat
    BY <2>2
  <2>4. l = j - i /\ j \in Nat
    BY <1>3, <1>5
  <2>5. Len(buf) \in Nat
    OBVIOUS
  <2> HIDE DEF b, i, l, j
  <2> QED  BY <2>1, <2>2, <2>3, <2>4, <2>5
<1>8. /\ l \in Nat /\ q \in 1..Len(b) + 1 /\ Len(w) = i + l + (Len(b) + 1 - q) /\ Len(w) <= Len(b)
      /\ \A k \in 1..i : w[k] = b[k]
      /\ \A k \in 1..l : w[i + k] = s.data[k]
      /\ \A k \in 1..Len(b) + 1 - q : w[i + l + k] = b[q + k - 1]
      /\ \A k \in 1..Len(b) : b[k] = buf[k + 1]
  BY <1>2
<1> HIDE DEF w, b, s, q, l, i, j, y, t
<1>9. q \in Nat /\ q >= i + 1
  <2>1. l \in Nat /\ q \in 1..Len(b) + 1 /\ Len(w) = i + l + (Len(b) + 1 - q) /\ Len(w) <= Len(b)
    BY <1>8
  <2> QED  BY <1>7, <2>1
<1>10. Len(w) = j + (Len(b) + 1 - q)
  BY <1>7, <1>8
<1>11. ASSUME NEW k \in 1..j PROVE w[k] = y[k]
  <2>1. CASE k \in 1..i
    <3>1. k \in 1..Len(b)
      BY <1>7, <2>1
    <3> QED  BY <3>1, <2>1, <1>6, <1>8
  <2>2. CASE k > i
    <3>1. k - i \in 1..l /\ k - i \in 1..j - i /\ i + (k - i) = k
      <4>1. l = j - i /\ j \in Nat /\ i \in Nat
        BY <1>3, <1>5, <1>7
      <4> QED  BY <4>1, <2>2
    <3>2. w[i + (k - i)] = s.data[k - i] /\ s.data[k - i] = y[i + (k - i)]
      BY <1>5, <1>8, <3>1
    <3> QED  BY <3>1, <3>2
  <2> QED  BY <2>1, <2>2, <1>3, <1>7
<1>12. ASSUME NEW k \in 1..Len(b) + 1 - q PROVE w[j + k] = b[q + k - 1] /\ w[j + k] = t[q + k + e]
  <2>1. w[j + k] = b[q + k - 1]
    BY <1>7, <1>8
  <2>2. q + k - 1 \in 1..Len(b) /\ (q + k - 1) + 1 = q + k /\ q + k \in i + 2..Len(buf)
    BY <1>7, <1>9
  <2>3. b[q + k - 1] = buf[(q + k - 1) + 1] /\ buf[q + k] = t[q + k + e]
    BY <1>6, <1>8, <2>2
  <2> QED  BY <2>1, <2>2, <2>3
<1>13. Len(b) + 1 + e = m
  <2>1. Len(buf) + e = m
    BY <1>6
  <2> QED  BY <1>7, <2>1
<1> QED
  BY <1>3, <1>7, <1>9, <1>10, <1>11, <1>12, <1>13 DEF DecodedTo, w, b, s, q, l, i, j, y, t

\* Without the last chunk the buffer stays, decoded further.
LEMMA StaysInPlace ==
    ASSUME NEW r \in Asked, NEW buf \in Seq(Units), NEW m \in Nat, NEW c \in 1..CountIn(r, 1) + 1,
           NEW e \in Int, InPlace(r, buf, m, c, e), bodyLen = DataTo(r, c),
           NEW d \in 1..CountIn(r, 1) + 1, Gets(r, Tail(buf), bodyLen + 1, c, e + 1, d), ~FoundIn(buf).zero
    PROVE  /\ m < EndIn(r, 1)
           /\ InPlace(r, NewBuf(buf), m, d, StartOf(r, d) - DataTo(r, d) - 2)
           /\ ~ChunkAt(Tail(NewBuf(buf)), DataTo(r, d) + 1)
           /\ NewBuf(buf) \in Seq(Units) /\ NewBuf(buf) # <<>>
<1> DEFINE w == BodyOf(buf)
           v == NewBuf(buf)
           b == Tail(buf)
           q == FoundIn(buf).next
           j == DataTo(r, d)
           y == PayIn(r, 1)
           t == StreamIn(r)
           a == StartOf(r, d)
           x == a - j - 2
<1>1. /\ Len(buf) >= 1 /\ Len(buf) - 1 >= bodyLen /\ bodyLen \in Nat /\ buf[1] = HeadOf(1)
  BY Decodes
<1>2. /\ j \in Nat /\ q \in Nat
      /\ Len(w) = j + (Len(b) + 1 - q)
      /\ \A k \in 1..j : w[k] = y[k]
      /\ \A k \in 1..Len(b) + 1 - q : w[j + k] = b[q + k - 1]
      /\ \A k \in 1..Len(b) + 1 - q : w[j + k] = t[q + k + e]
      /\ Len(b) + 1 = Len(buf) /\ Len(b) + 1 + e = m
  <2>1. DecodedTo(r, buf, m, e, d)
    BY DecodesTo
  <2> QED  BY <2>1 DEF DecodedTo
<1>3. /\ b \in Seq(Units) /\ w \in Seq(Units) /\ v \in Seq(Units) /\ Len(v) = Len(w) + 1 /\ v[1] = buf[1]
      /\ \A k \in 1..Len(w) : v[k + 1] = w[k]
      /\ FoundIn(buf) = Scan(b, bodyLen + 1) /\ q \in 1..Len(b) + 1
  BY <1>1, BodyIs
<1>4. q + (e + 1) = a /\ ~ChunkAt(b, q) /\ Len(b) + (e + 1) < EndIn(r, 1)
  BY <1>3 DEF Gets
<1>5. a \in Nat
  BY DataIs
<1>6. Len(b) \in Nat /\ Len(w) \in Nat /\ EndIn(r, 1) \in Nat
  BY <1>3, StreamIs, One
<1>7. m < EndIn(r, 1)
  <2> DEFINE n == Len(b)
  <2>1. n + 1 + e = m /\ n + (e + 1) < EndIn(r, 1) /\ n \in Nat
    BY <1>2, <1>4, <1>6
  <2> HIDE DEF n
  <2> QED  BY <2>1
<1> HIDE DEF w, v, b, q, j, y, t, a
<1>8. Len(v) >= j + 1 /\ Len(v) + x = m /\ j + 2 + x = a /\ x \in Int
  <2>1. Len(w) = j + (Len(b) + 1 - q) /\ Len(b) + 1 + e = m /\ j \in Nat
    BY <1>2
  <2>2. Len(v) = Len(w) + 1 /\ q \in 1..Len(b) + 1
    BY <1>3
  <2>3. q + (e + 1) = a
    BY <1>4
  <2> QED  BY <1>5, <1>6, <2>1, <2>2, <2>3, SMTT(20)
<1>9. ASSUME NEW k \in 1..j PROVE v[k + 1] = y[k]
  <2>1. k \in 1..Len(w)
    <3>1. Len(w) = j + (Len(b) + 1 - q) /\ q \in 1..Len(b) + 1 /\ j \in Nat
      BY <1>2, <1>3
    <3> QED  BY <3>1, <1>6
  <2> QED  BY <2>1, <1>2, <1>3
<1>10. ASSUME NEW k \in j + 2..Len(v) PROVE v[k] = t[k + x]
  <2>1. /\ k - 1 \in 1..Len(w) /\ (k - 1) + 1 = k /\ k - 1 - j \in 1..Len(b) + 1 - q
        /\ j + (k - 1 - j) = k - 1 /\ q + (k - 1 - j) + e = k + x
    <3>1. Len(w) = j + (Len(b) + 1 - q) /\ j \in Nat /\ q \in Nat
      BY <1>2
    <3>2. Len(v) = Len(w) + 1
      BY <1>3
    <3>3. q + (e + 1) = a
      BY <1>4
    <3> QED  BY <3>1, <3>2, <3>3, <1>5, <1>6
  <2>2. v[(k - 1) + 1] = w[k - 1]
    BY <2>1, <1>3
  <2>3. w[j + (k - 1 - j)] = t[q + (k - 1 - j) + e]
    BY <2>1, <1>2
  <2> QED  BY <2>1, <2>2, <2>3
<1>11. InPlace(r, v, m, d, x)
  <2>1. v[1] = HeadOf(1)
    BY <1>1, <1>3
  <2> HIDE DEF x
  <2> QED  BY <1>8, <1>9, <1>10, <2>1 DEF InPlace, j, y, t, a
<1>12. v # <<>> /\ Tail(v) \in Seq(Units) /\ Len(Tail(v)) = Len(w) /\ \A k \in 1..Len(w) : Tail(v)[k] = w[k]
  <2>1. v # <<>> /\ Len(v) >= 1
    BY <1>3, <1>6, EmptySeq
  <2>2. Tail(v) \in Seq(Units) /\ Len(Tail(v)) = Len(v) - 1 /\ \A k \in 1..Len(v) - 1 : Tail(v)[k] = v[k + 1]
    BY <1>3, <2>1
  <2>3. Len(v) - 1 = Len(w)
    BY <1>3, <1>6
  <2> QED  BY <2>1, <2>2, <2>3, <1>3
<1>13. Follows(Tail(v), j + 1, b, q)
  <2> DEFINE z == Tail(v)
  <2>1. /\ Len(w) = j + (Len(b) + 1 - q) /\ j \in Nat /\ q \in 1..Len(b) + 1
    BY <1>2, <1>3
  <2>2. Len(z) = Len(w)
    BY <1>12
  <2>3. j + 1 \in 1..Len(z) + 1 /\ Len(z) - (j + 1) = Len(b) - q
    BY <2>1, <2>2, <1>6
  <2>4. ASSUME NEW k \in 0..Len(z) - (j + 1) PROVE z[j + 1 + k] = b[q + k]
    <3>1. k + 1 \in 1..Len(b) + 1 - q /\ j + (k + 1) = j + 1 + k /\ q + (k + 1) - 1 = q + k /\ j + (k + 1) \in 1..Len(w)
      BY <2>1, <2>2, <1>6, SMTT(20)
    <3>2. w[j + (k + 1)] = b[q + (k + 1) - 1]
      BY <1>2, <3>1
    <3>3. z[j + (k + 1)] = w[j + (k + 1)]
      BY <1>12, <3>1
    <3> QED  BY <3>1, <3>2, <3>3
  <2> HIDE DEF z
  <2>5. Follows(z, j + 1, b, q)
    BY <2>1, <2>3, <2>4 DEF Follows
  <2> QED  BY <2>5 DEF z
<1>14. ~ChunkAt(Tail(v), j + 1)
  <2>1. j + 1 \in Nat /\ q \in Nat
    BY <1>2
  <2> QED  BY <1>3, <1>4, <1>12, <1>13, <2>1, ChunkMoved
<1> QED  BY <1>3, <1>7, <1>11, <1>12, <1>14 DEF v, j, a

\* With it the body is the payload, if nothing comes after it.
LEMMA BodyWhole ==
    ASSUME NEW r \in Asked, NEW buf \in Seq(Units), NEW m \in Nat, NEW c \in 1..CountIn(r, 1) + 1,
           NEW e \in Int, InPlace(r, buf, m, c, e), bodyLen = DataTo(r, c),
           NEW d \in 1..CountIn(r, 1) + 1, Gets(r, Tail(buf), bodyLen + 1, c, e + 1, d), FoundIn(buf).zero,
           m <= EndIn(r, 1)
    PROVE  BodyOf(buf) = PayIn(r, 1) /\ Len(PayIn(r, 1)) \in Nat
<1> DEFINE w == BodyOf(buf)
           b == Tail(buf)
           q == FoundIn(buf).next
           y == PayIn(r, 1)
<1>1. /\ Len(buf) >= 1 /\ Len(buf) - 1 >= bodyLen /\ bodyLen \in Nat
  BY Decodes
<1>2. b \in Seq(Units) /\ w \in Seq(Units) /\ FoundIn(buf) = Scan(b, bodyLen + 1) /\ q \in 1..Len(b) + 1
  BY <1>1, BodyIs
<1>3. d = CountIn(r, 1) + 1 /\ q + (e + 1) = EndIn(r, 1) + 1
  BY <1>2 DEF Gets
<1>4. DataTo(r, d) = Len(y)
  BY <1>3, LastInStream
<1>5. y \in Seq(Units)
  BY DataIs
<1>6. /\ Len(w) = DataTo(r, d) + (Len(b) + 1 - q)
      /\ \A k \in 1..DataTo(r, d) : w[k] = y[k]
      /\ Len(b) + 1 + e = m
  <2>1. DecodedTo(r, buf, m, e, d)
    BY DecodesTo
  <2> QED  BY <2>1 DEF DecodedTo
<1> HIDE DEF w, b, q, y
<1>7. Len(b) + 1 - q = 0
  <2>1. q \in 1..Len(b) + 1 /\ Len(b) \in Nat
    BY <1>2
  <2>2. Len(b) + 1 + e = m /\ q + (e + 1) = EndIn(r, 1) + 1 /\ EndIn(r, 1) \in Nat
    BY <1>3, <1>6, StreamIs, One
  <2> QED  BY <2>1, <2>2
<1>8. Len(y) \in Nat
  BY <1>5
<1>9. Len(w) = Len(y) /\ \A k \in 1..Len(y) : w[k] = y[k]
  BY <1>4, <1>6, <1>7, <1>8
<1>10. w = y
  BY <1>2, <1>5, <1>9, SeqEqual
<1> QED  BY <1>8, <1>10 DEF w, y

LEMMA FirstNext ==
    ASSUME CkTyped, OnItsWay, requests[1].method = "POST", delivered = <<>>, Receive
    PROVE  OnItsWay' /\ HandedWhole'
<1> DEFINE r == requests
<1>1. PICK i \in 1..N, n \in Nat : ReadsNow(i, n)
  BY Reads
<1> DEFINE buf == Buf(n)
           m == sent + n
<1>2. PICK c \in 1..CountIn(r, 1) + 1, e \in Int : InPlace(r, buf, m, c, e) /\ bodyLen = DataTo(r, c)
  BY <1>1, BufInPlace
<1>3. /\ r' = r /\ r \in Asked /\ sent' = m /\ m \in Nat /\ status = "open" /\ n >= 1
      /\ buf \in Seq(Units) /\ Len(buf) = Len(recv) + n
      /\ recv \in Seq(Units) /\ Len(recv) \in Nat /\ Len(recv) <= sent /\ sent \in Nat
  BY <1>1 DEF ReadsNow, BufHolds, CkTyped
<1>4. rcvd = sent
  BY DEF OnItsWay
<1>5. PICK d \in 1..CountIn(r, 1) + 1 : Gets(r, Tail(buf), bodyLen + 1, c, e + 1, d)
  BY <1>2, <1>3, Decodes
<1>6. /\ buf[1] = HeadOf(1) /\ Len(buf) >= 1 /\ Len(buf) - 1 >= bodyLen /\ bodyLen \in Nat
      /\ buf[1][1] = "head" /\ buf[1][2] = 1
  <2>1. buf[1] = HeadOf(1) /\ Len(buf) >= 1 /\ Len(buf) - 1 >= bodyLen /\ bodyLen \in Nat
    BY <1>2, <1>3, Decodes
  <2>2. HeadOf(1)[1] = "head" /\ HeadOf(1)[2] = 1
    BY UnitIs, One
  <2> QED  BY <2>1, <2>2
<1>7. Chunked(buf)
  <2>1. Garbage(buf) \/ Abort(buf) \/ Chunked(buf)
    BY <1>1 DEF ReadsNow
  <2>2. ~Garbage(buf)
    BY <1>6 DEF Garbage
  <2>3. ~Abort(buf)
    <3>1. ~(Len(buf) - 1 < bodyLen)
      BY <1>3, <1>6
    <3> QED  BY <3>1 DEF Abort
  <2> QED  BY <2>1, <2>2, <2>3
<1>8. bodyLen' = bodyLen + Len(FoundIn(buf).data) /\ status' = status /\ (Keeps(buf) \/ Hands(buf))
  BY <1>7, ChunkedIs
<1>9. DataTo(r, d) = bodyLen + Len(FoundIn(buf).data)
  <2>1. DecodedTo(r, buf, m, e, d)
    BY <1>2, <1>3, <1>5, DecodesTo
  <2> QED  BY <2>1 DEF DecodedTo
<1>10. Total(buf) = m /\ MsgLen(buf) <= m /\ FoundIn(buf).zero \in BOOLEAN
  <2>1. Len(BodyOf(buf)) \in Nat /\ Len(BodyOf(buf)) <= Len(Tail(buf)) /\ Len(Tail(buf)) = Len(buf) - 1
        /\ FoundIn(buf).zero \in BOOLEAN
    BY <1>3, <1>6, BodyIs
  <2> DEFINE l == Len(BodyOf(buf))
             o == Len(buf)
             h == Len(recv)
  <2>2. l \in Nat /\ l <= o - 1 /\ o = h + n /\ h \in Nat /\ h <= sent /\ sent \in Nat /\ n >= 1 /\ o >= 1
    BY <1>3, <1>6, <2>1
  <2>3. Total(buf) = rcvd + (o - h) /\ (MsgLen(buf) = 1 + l \/ MsgLen(buf) = 1)
    BY DEF Total, MsgLen
  <2> HIDE DEF l, o, h, buf
  <2>4. rcvd + (o - h) = m /\ 1 + l <= m /\ 1 <= m
    BY <1>4, <2>2
  <2> QED  BY <2>1, <2>3, <2>4
<1>11. CASE ~FoundIn(buf).zero
  <2>1. Endless(buf)
    BY <1>6, <1>11 DEF Endless
  <2>2. recv' = NewBuf(buf) /\ rcvd' = m /\ delivered' = delivered
    BY <1>8, <1>10, <2>1 DEF Keeps, Hands
  <2> DEFINE x == StartOf(r, d) - DataTo(r, d) - 2
  <2>3. /\ m < EndIn(r, 1)
        /\ InPlace(r, NewBuf(buf), m, d, x)
        /\ ~ChunkAt(Tail(NewBuf(buf)), DataTo(r, d) + 1)
        /\ NewBuf(buf) \in Seq(Units) /\ NewBuf(buf) # <<>>
    BY <1>2, <1>3, <1>5, <1>11, StaysInPlace
  <2>4. x \in Int
    BY <1>3, DataIs
  <2> HIDE DEF x, buf
  <2>5. /\ sent' < EndIn(requests', 1) /\ recv' # <<>> /\ ~ChunkAt(Tail(recv'), bodyLen' + 1)
        /\ bodyLen' = DataTo(requests', d) /\ InPlace(requests', recv', sent', d, x)
        /\ d \in 1..CountIn(requests', 1) + 1
    BY <1>3, <1>8, <1>9, <2>2, <2>3
  <2>6. OnItsWay'
    BY <1>3, <1>8, <2>2, <2>4, <2>5 DEF OnItsWay, ChunkAt
  <2>7. HandedWhole'
    BY <2>2 DEF HandedWhole
  <2> QED  BY <2>6, <2>7
<1>12. CASE FoundIn(buf).zero
  <2>1. ~Endless(buf) /\ ~(MsgLen(buf) > Total(buf))
    <3>1. ~Endless(buf)
      BY <1>12 DEF Endless
    <3>2. MsgLen(buf) \in Int
      <4>1. Len(BodyOf(buf)) \in Nat
        BY <1>3, <1>6, BodyIs
      <4> QED  BY <4>1 DEF MsgLen
    <3> QED  BY <3>1, <3>2, <1>3, <1>10
  <2>2. delivered' = Append(delivered, [request |-> buf[1][2], body |-> BodyOf(buf), len |-> MsgLen(buf)])
    BY <1>8, <2>1 DEF Keeps, Hands
  <2> DEFINE g == [request |-> buf[1][2], body |-> BodyOf(buf), len |-> MsgLen(buf)]
  <2>3. delivered' # <<>> /\ delivered'[1] = g
    <3>1. delivered' = Append(<<>>, g)
      BY <2>2
    <3> HIDE DEF g
    <3> QED  BY <3>1
  <2>4. OnItsWay'
    BY <2>3 DEF OnItsWay
  <2>5. ASSUME ~Pipelining PROVE g = [request |-> 1, body |-> PayIn(r, 1), len |-> Len(PayIn(r, 1)) + 1]
    <3>1. Len(delivered) >= i - 1 /\ m <= EndIn(r, i)
      BY <1>1, <2>5 DEF ReadsNow
    <3>2. Len(delivered) = 0
      OBVIOUS
    <3>3. i = 1
      BY <3>1, <3>2
    <3>4. BodyOf(buf) = PayIn(r, 1) /\ Len(PayIn(r, 1)) \in Nat
      BY <1>2, <1>3, <1>5, <1>12, <3>1, <3>3, BodyWhole
    <3>5. MsgLen(buf) = Len(PayIn(r, 1)) + 1
      BY <1>12, <3>4 DEF MsgLen
    <3> QED  BY <1>6, <3>4, <3>5
  <2>6. HandedWhole'
    BY <1>3, <2>3, <2>5 DEF HandedWhole
  <2> QED  BY <2>4, <2>6
<1> QED  BY <1>10, <1>11, <1>12

-----------------------------------------------------------------------------
\* What the first request and its body come to.
CkInv == CkTyped /\ OnItsWay /\ HandedWhole

LEMMA CkInvInit == CkInit => CkInv
<1> SUFFICES ASSUME CkInit PROVE CkInv
  OBVIOUS
<1>1. OnItsWay /\ HandedWhole
  BY DEF CkInit, OnItsWay, HandedWhole
<1> QED  BY <1>1, CkTypedInit DEF CkInv

LEMMA CkInvNext == CkInv /\ [CkNext]_ckVars => CkInv'
<1> SUFFICES ASSUME CkInv, [CkNext]_ckVars PROVE CkInv'
  OBVIOUS
<1>0. CkTyped'
  BY CkTypedNext DEF CkInv
<1>1. CASE UNCHANGED ckVars
  <2>1. OnItsWay' /\ HandedWhole'
    BY <1>1 DEF ckVars, CkInv, OnItsWay, HandedWhole, ChunkAt
  <2> QED  BY <1>0, <2>1 DEF CkInv
<1>2. CASE Receive
  <2>0. requests' = requests
    BY <1>2 DEF Receive
  <2>1. CASE requests[1].method = "POST" /\ delivered = <<>>
    BY <1>0, <1>2, <2>1, FirstNext DEF CkInv
  <2>2. CASE requests[1].method # "POST"
    BY <1>0, <2>0, <2>2 DEF CkInv, OnItsWay, HandedWhole
  <2>3. CASE requests[1].method = "POST" /\ delivered # <<>>
    <3>1. PICK i \in 1..N, n \in Nat : ReadsNow(i, n)
      BY <1>2, Reads DEF CkInv
    <3>2. delivered' = delivered \/ \E x : delivered' = Append(delivered, x)
      <4>1. Garbage(Buf(n)) \/ Abort(Buf(n)) \/ Chunked(Buf(n))
        BY <3>1 DEF ReadsNow
      <4>2. CASE Chunked(Buf(n))
        <5>1. Keeps(Buf(n)) \/ Hands(Buf(n))
          BY <4>2, ChunkedIs
        <5> QED  BY <5>1 DEF Keeps, Hands
      <4> QED  BY <4>1, <4>2 DEF Garbage, Abort
    <3>3. delivered \in Seq(Deliveries)
      BY DEF CkInv, CkTyped
    <3>4. delivered' # <<>> /\ delivered'[1] = delivered[1]
      <4>1. Len(delivered) >= 1
        BY <2>3, <3>3
      <4>2. ASSUME NEW x, delivered' = Append(delivered, x) PROVE delivered' # <<>> /\ delivered'[1] = delivered[1]
        BY <3>3, <4>1, <4>2
      <4> QED  BY <2>3, <3>2, <4>2
    <3> QED  BY <1>0, <2>0, <2>3, <3>4 DEF CkInv, OnItsWay, HandedWhole
  <2> QED  BY <2>1, <2>2, <2>3
<1> QED  BY <1>1, <1>2 DEF CkNext

\* What the invariant says of recv_mbuf.
LEMMA InPlaceIs == CkInv => DecodedInPlace
<1> SUFFICES ASSUME CkInv, requests[1].method = "POST", delivered = <<>>, recv # <<>>
             PROVE  /\ recv[1] = HeadOf(1)
                    /\ SubSeq(recv, 2, bodyLen + 1) = SubSeq(Payload(1), 1, bodyLen)
                    /\ LET rest == SubSeq(recv, bodyLen + 2, Len(recv))
                       IN  /\ rest = SubSeq(Stream, sent - Len(rest) + 1, sent)
                           /\ ~ChunkAt(rest, 1)
  BY DEF DecodedInPlace
<1> DEFINE r == requests
           y == PayIn(r, 1)
           t == StreamIn(r)
           l == Len(recv)
           i == bodyLen
           x == SubSeq(recv, i + 2, l)
<1>1. /\ r \in Asked /\ recv \in Seq(Units) /\ l \in Nat /\ sent \in Nat /\ sent <= Len(t) /\ i \in Nat
  BY DEF CkInv, CkTyped
<1>2. Payload(1) = y /\ Stream = t
  BY <1>1, Sends, One
<1>3. ~ChunkAt(Tail(recv), i + 1)
      /\ \E c \in 1..CountIn(r, 1) + 1, e \in Int : InPlace(r, recv, sent, c, e) /\ i = DataTo(r, c)
  BY DEF CkInv, OnItsWay
<1>4. PICK c \in 1..CountIn(r, 1) + 1, e \in Int : InPlace(r, recv, sent, c, e) /\ i = DataTo(r, c)
  BY <1>3
<1>5. /\ l >= i + 1 /\ l + e = sent /\ recv[1] = HeadOf(1)
      /\ \A k \in 1..i : recv[k + 1] = y[k]
      /\ \A k \in i + 2..l : recv[k] = t[k + e]
      /\ i + 2 + e >= 2
  <2>1. StartOf(r, c) >= 2
    BY <1>1, DataIs
  <2> QED  BY <1>4, <2>1 DEF InPlace
<1>6. i <= Len(y) /\ y \in Seq(Units) /\ t \in Seq(Units)
  <2>1. DataTo(r, c) <= Len(y) /\ y \in Seq(Units)
    BY <1>1, DataIs
  <2>2. t \in Seq(Units)
    BY <1>1, StreamIs, One
  <2> QED  BY <1>4, <2>1, <2>2
<1>15. l >= i + 1 /\ l + e = sent /\ i + 2 + e >= 2 /\ l \in Nat /\ i \in Nat /\ sent \in Nat /\ sent <= Len(t)
  BY <1>1, <1>5
<1> HIDE DEF r, y, t, l, i
<1>7. SubSeq(recv, 2, i + 1) = SubSeq(y, 1, i)
  <2> DEFINE u == SubSeq(recv, 1 + 1, i + 1)
             v == SubSeq(y, 0 + 1, i)
  <2>0. 1 + 1 = 2 /\ 0 + 1 = 1 /\ (i + 1) - 1 = i /\ i - 0 = i /\ i + 1 \in Nat /\ 1 <= i + 1 /\ i + 1 <= Len(recv) /\ 0 <= i
    BY <1>15 DEF l
  <2>1. u \in Seq(Units) /\ Len(u) = (i + 1) - 1 /\ \A k \in 1..(i + 1) - 1 : u[k] = recv[1 + k]
    BY <2>0, <1>1, PartFrom
  <2>2. v \in Seq(Units) /\ Len(v) = i - 0 /\ \A k \in 1..i - 0 : v[k] = y[0 + k]
    BY <2>0, <1>6, <1>15, PartFrom
  <2> HIDE DEF u, v
  <2>3. u \in Seq(Units) /\ Len(u) = i /\ \A k \in 1..i : u[k] = recv[1 + k]
    BY <2>0, <2>1
  <2>4. v \in Seq(Units) /\ Len(v) = i /\ \A k \in 1..i : v[k] = y[0 + k]
    BY <2>0, <2>2
  <2>5. ASSUME NEW k \in 1..i PROVE u[k] = v[k]
    <3>1. 1 + k = k + 1 /\ 0 + k = k
      OBVIOUS
    <3> QED  BY <2>3, <2>4, <3>1, <1>5
  <2>6. u = v
    BY <2>3, <2>4, <2>5, SeqEqual
  <2> QED  BY <2>0, <2>6 DEF u, v
<1>8. x \in Seq(Units) /\ Len(x) = l - (i + 1) /\ \A k \in 1..l - (i + 1) : x[k] = recv[i + 1 + k]
  <2>1. (i + 1) + 1 = i + 2 /\ i + 1 \in Nat /\ i + 1 <= l /\ l <= Len(recv) /\ l \in Nat
    BY <1>15 DEF l
  <2> DEFINE u == SubSeq(recv, (i + 1) + 1, l)
  <2>2. u \in Seq(Units) /\ Len(u) = l - (i + 1) /\ \A k \in 1..l - (i + 1) : u[k] = recv[i + 1 + k]
    BY <2>1, <1>1, PartFrom
  <2>3. u = x
    BY <2>1
  <2> HIDE DEF u, x
  <2> QED  BY <2>2, <2>3
<1> HIDE DEF x
<1>9. x = SubSeq(t, sent - Len(x) + 1, sent)
  <2> DEFINE o == sent - Len(x)
             z == SubSeq(t, o + 1, sent)
  <2>0. o \in Nat /\ o <= sent /\ sent - o = l - (i + 1) /\ o = i + 1 + e
    <3>1. Len(x) = l - (i + 1)
      BY <1>8
    <3> QED  BY <3>1, <1>15
  <2> HIDE DEF o
  <2>1. z \in Seq(Units) /\ Len(z) = sent - o /\ \A k \in 1..sent - o : z[k] = t[o + k]
    BY <2>0, <1>6, <1>15, PartFrom
  <2>2. ASSUME NEW k \in 1..l - (i + 1) PROVE x[k] = z[k]
    <3>1. i + 1 + k \in i + 2..l /\ (i + 1 + k) + e = o + k
      BY <1>15, <2>0
    <3>2. recv[i + 1 + k] = t[(i + 1 + k) + e]
      BY <3>1, <1>5
    <3> QED  BY <3>1, <3>2, <2>0, <2>1, <1>8
  <2> HIDE DEF z
  <2>3. x = z
    BY <2>0, <2>1, <2>2, <1>8, SeqEqual
  <2> QED  BY <2>3 DEF z, o
<1>10. ~ChunkAt(x, 1)
  <2> DEFINE b == Tail(recv)
  <2>1. b \in Seq(Units) /\ Len(b) = l - 1 /\ \A k \in 1..l - 1 : b[k] = recv[k + 1]
    BY <1>1 DEF l
  <2> HIDE DEF b
  <2>2. 1 \in 1..Len(x) + 1 /\ i + 1 \in 1..Len(b) + 1 /\ Len(x) - 1 = Len(b) - (i + 1)
    <3>1. Len(x) = l - (i + 1) /\ Len(b) = l - 1
      BY <1>8, <2>1
    <3> QED  BY <3>1, <1>15
  <2>3. ASSUME NEW k \in 0..Len(x) - 1 PROVE x[1 + k] = b[i + 1 + k]
    <3>1. Len(x) = l - (i + 1)
      BY <1>8
    <3>2. 1 + k \in 1..l - (i + 1) /\ i + 1 + k \in 1..l - 1 /\ i + 1 + (1 + k) = (i + 1 + k) + 1
      BY <3>1, <1>15
    <3> QED  BY <3>2, <1>8, <2>1
  <2>4. Follows(x, 1, b, i + 1)
    BY <2>2, <2>3 DEF Follows
  <2>5. ~ChunkAt(b, i + 1)
    BY <1>3 DEF b
  <2>6. i + 1 \in Nat
    BY <1>15
  <2> QED  BY <1>8, <2>1, <2>4, <2>5, <2>6, ChunkMoved
<1> QED
  BY <1>2, <1>5, <1>7, <1>9, <1>10 DEF x, i, l

\* recv_mbuf always holds the head, the data decoded so far and what is not
\* decoded yet, whether or not the client waits for its requests to be handled.
THEOREM CkInPlace == CkSpec => []DecodedInPlace
BY CkInvInit, CkInvNext, InPlaceIs, PTL DEF CkSpec

\* The body the application gets is the data of the chunks, all of it and in
\* order, from a client that waits for its requests to be handled.
THEOREM CkDecoded == ASSUME ~Pipelining PROVE CkSpec => []Decoded
<1>1. CkInv => Decoded
  <2> SUFFICES ASSUME CkInv PROVE Decoded
    OBVIOUS
  <2>1. Payload(1) = PayIn(requests, 1)
    BY Sends, One DEF CkInv, CkTyped
  <2>2. BodyIntact
    BY <2>1 DEF CkInv, HandedWhole, BodyIntact
  <2> QED  BY <2>2, InPlaceIs DEF Decoded
<1> QED  BY <1>1, CkInvInit, CkInvNext, PTL DEF CkSpec

\* A POST is handed over as soon as its last chunk has arrived.
THEOREM CkHandedOver == CkSpec => []HandedOver
<1>1. CkInv => HandedOver
  <2> SUFFICES ASSUME CkInv, requests[1].method = "POST", sent >= EndOf(1), delivered = <<>> PROVE FALSE
    BY DEF HandedOver
  <2>1. requests \in Asked /\ sent \in Nat
    BY DEF CkInv, CkTyped
  <2>2. EndOf(1) = EndIn(requests, 1)
    <3>1. 1 \in 0..N
      BY ChunkedBodyAssumption DEF ChunkedBodyAssumption
    <3> QED  BY <2>1, <3>1, Sends
  <2>3. EndIn(requests, 1) \in Nat /\ EndIn(requests, 1) > 0
    <3>1. StartOf(requests, CountIn(requests, 1) + 1) + 1 = EndIn(requests, 1)
          /\ StartOf(requests, CountIn(requests, 1) + 1) \in Nat
      BY <2>1, LastInStream
    <3> QED  BY <3>1
  <2>4. sent = 0 \/ sent < EndIn(requests, 1)
    BY DEF CkInv, OnItsWay
  <2> QED  BY <2>1, <2>2, <2>3, <2>4
<1> QED  BY <1>1, CkInvInit, CkInvNext, PTL DEF CkSpec

-----------------------------------------------------------------------------
(***************************************************************************)
(* The assertion of mg_handle_chunked.                                     *)
(***************************************************************************)
\* Place k of n sequences is a place of one of them.
At(w, k, i, j) == j \in 1..Len(w[i]) /\ k = Len(Flat(w, i - 1)) + j

LEMMA FlatFrom ==
    ASSUME NEW S, NEW n \in Nat, NEW w, SeqsOf(S, n, w), NEW k \in 1..Len(Flat(w, n))
    PROVE  \E i \in 1..n, j \in Nat : At(w, k, i, j) /\ Flat(w, n)[k] = w[i][j]
<1> DEFINE Some(m) == \A q \in 1..Len(Flat(w, m)) : \E i \in 1..m, j \in Nat : At(w, q, i, j)
           T == {m \in Nat : m <= n => Some(m)}
<1>1. 0 \in T
  <2>1. Flat(w, 0) = <<>> /\ Len(<<>>) = 0
    BY FlatNone
  <2> QED  BY <2>1
<1>2. ASSUME NEW m \in Nat, Some(m), m < n PROVE Some(m + 1)
  <2>1. PlacedAt(S, w, n, m)
    BY <1>2, FlatAt
  <2>2. /\ Len(Flat(w, m + 1)) = Len(Flat(w, m)) + Len(w[m + 1])
        /\ Len(Flat(w, m)) \in Nat /\ Len(w[m + 1]) \in Nat
    BY <2>1 DEF PlacedAt
  <2> SUFFICES ASSUME NEW q \in 1..Len(Flat(w, m + 1)) PROVE \E i \in 1..m + 1, j \in Nat : At(w, q, i, j)
    OBVIOUS
  <2>3. CASE q \in 1..Len(Flat(w, m))
    <3>1. PICK i \in 1..m, j \in Nat : At(w, q, i, j)
      BY <1>2, <2>3
    <3>2. i \in 1..m + 1
      OBVIOUS
    <3> QED  BY <3>1, <3>2
  <2>4. CASE q > Len(Flat(w, m))
    <3> DEFINE j == q - Len(Flat(w, m))
    <3>1. j \in 1..Len(w[m + 1]) /\ j \in Nat /\ q = Len(Flat(w, m)) + j /\ m + 1 \in 1..m + 1 /\ (m + 1) - 1 = m
      BY <2>2, <2>4
    <3>2. At(w, q, m + 1, j)
      BY <3>1 DEF At
    <3> QED  BY <3>1, <3>2
  <2> QED  BY <2>2, <2>3, <2>4
<1>3. Some(n)
  <2> HIDE DEF Some
  <2>1. ASSUME NEW m \in Nat, m \in T PROVE m + 1 \in T
    <3> SUFFICES ASSUME m + 1 <= n PROVE Some(m + 1)
      OBVIOUS
    <3>1. m < n /\ Some(m)
      BY <2>1
    <3> QED  BY <3>1, <1>2
  <2>2. Nat \subseteq T
    <3> HIDE DEF T
    <3> QED  BY <1>1, <2>1, NatSet
  <2> QED  BY <2>2
<1>4. PICK i \in 1..n, j \in Nat : At(w, k, i, j)
  BY <1>3
<1>5. PlacedAt(S, w, n, i - 1) /\ (i - 1) + 1 = i
  <2>1. i - 1 \in Nat /\ i - 1 < n /\ (i - 1) + 1 = i
    OBVIOUS
  <2> QED  BY <2>1, FlatAt
<1>6. Flat(w, n)[k] = w[i][j]
  BY <1>4, <1>5 DEF PlacedAt, At
<1> QED  BY <1>4, <1>6

\* The unit after the head of a request without a body is its last chunk.
LEMMA AfterHead ==
    ASSUME NEW r \in Asked, NEW i \in 1..N, PayIn(r, i) = <<>>,
           NEW k \in 1..Len(StreamIn(r)), StreamIn(r)[k] = HeadOf(i), k + 1 <= Len(StreamIn(r))
    PROVE  StreamIn(r)[k + 1] = Size(0)
<1> DEFINE w == WiresIn(r)
<1>1. SeqsOf(Units, N, w)
  BY WireIs DEF WiresIn, SeqsOf
<1>2. N \in Nat
  BY ChunkedBodyAssumption DEF ChunkedBodyAssumption
<1>3. PICK x \in 1..N, j \in Nat : At(w, k, x, j) /\ StreamIn(r)[k] = w[x][j]
  <2> HIDE DEF w
  <2>1. StreamIn(r) = Flat(w, N)
    BY DEF StreamIn, w
  <2> QED  BY <1>1, <1>2, <2>1, FlatFrom
<1>4. w[x] = WireIn(r, x)
  BY DEF WiresIn
<1> DEFINE f == Flat(ChunksIn(r, x), CountIn(r, x))
           v == WireIn(r, x)
<1>5. /\ f \in Seq(Units) /\ v \in Seq(Units) /\ Len(v) = Len(f) + 3
      /\ v[1] = HeadOf(x) /\ v[Len(f) + 2] = Size(0) /\ v[Len(f) + 3] = End
      /\ \A q \in 1..Len(f) : v[q + 1] = f[q]
  BY WireIs
<1>6. Len(f) \in Nat
  BY <1>5
<1>7. j \in 1..Len(v) /\ k = EndIn(r, x - 1) + j
  BY <1>3, <1>4 DEF At, EndIn
<1>8. v[j] = HeadOf(i)
  BY <1>3, <1>4
<1>9. \A q \in 1..Len(f) : f[q] # HeadOf(i)
  <2> SUFFICES ASSUME NEW q \in 1..Len(f) PROVE f[q] # HeadOf(i)
    OBVIOUS
  <2> DEFINE c == ChunksIn(r, x)
  <2>1. SeqsOf(Units, CountIn(r, x), c) /\ CountIn(r, x) \in Nat
    BY Asks, ChunkIs DEF ChunksIn, SeqsOf
  <2> HIDE DEF c
  <2>2. PICK d \in 1..CountIn(r, x), o \in Nat : At(c, q, d, o) /\ Flat(c, CountIn(r, x))[q] = c[d][o]
    <3> DEFINE l == CountIn(r, x)
    <3>1. q \in 1..Len(Flat(c, l))
      BY DEF c
    <3>2. l \in Nat /\ SeqsOf(Units, l, c)
      BY <2>1
    <3> HIDE DEF l
    <3>3. \E d \in 1..l, o \in Nat : At(c, q, d, o) /\ Flat(c, l)[q] = c[d][o]
      BY <3>1, <3>2, FlatFrom
    <3> QED  BY <3>3 DEF l
  <2>3. c[d] = ChunkIn(r, x, d)
    BY DEF c, ChunksIn
  <2> DEFINE n == r[x].chunks[d]
             u == ChunkIn(r, x, d)
             y == DataIn(r, x, d)
  <2>4. /\ Len(u) = n + 2 /\ u[1] = Size(n) /\ u[n + 2] = End
        /\ \A z \in 1..n : u[z + 1] = y[z] /\ y[z][1] = "data"
    BY ChunkIs
  <2>5. n \in Nat
    BY Asks
  <2>6. o \in 1..Len(u) /\ f[q] = u[o]
    BY <2>2, <2>3 DEF At, c
  <2>7. HeadOf(i)[1] = "head" /\ Size(n)[1] = "size" /\ End[1] = "end"
    BY <2>5, UnitIs
  <2> HIDE DEF n, u, y, f
  <2>8. o = 1 \/ o = n + 2 \/ (o - 1 \in 1..n /\ (o - 1) + 1 = o)
    BY <2>4, <2>5, <2>6
  <2>9. u[o][1] # "head"
    BY <2>4, <2>7, <2>8
  <2> QED  BY <2>6, <2>7, <2>9
<1>10. HeadOf(i)[1] = "head" /\ Size(0)[1] = "size" /\ End[1] = "end" /\ HeadOf(i)[2] = i /\ HeadOf(x)[2] = x
  BY UnitIs
<1> HIDE DEF f, v, w
<1>11. j = 1
  <2>1. j = 1 \/ j = Len(f) + 2 \/ j = Len(f) + 3 \/ (j - 1 \in 1..Len(f) /\ (j - 1) + 1 = j)
    BY <1>5, <1>6, <1>7
  <2> QED  BY <2>1, <1>5, <1>8, <1>9, <1>10
<1>12. x = i
  BY <1>5, <1>8, <1>10, <1>11
<1>13. Len(f) = 0
  <2>1. CountIn(r, i) = 0
    <3> SUFFICES ASSUME CountIn(r, i) # 0 PROVE FALSE
      OBVIOUS
    <3> DEFINE m == CountIn(r, i)
               p == DatasIn(r, i)
    <3>1. m \in Nat /\ 1 \in 1..m /\ 0 < m
      BY Asks
    <3>2. SeqsOf(Units, m, p)
      BY ChunkIs DEF DatasIn, SeqsOf
    <3>3. p[1] = DataIn(r, i, 1)
      BY <3>1 DEF DatasIn
    <3>4. Len(p[1]) > 0
      <4> DEFINE y == DataIn(r, i, 1)
                 n == r[i].chunks[1]
      <4>1. Len(y) = n
        BY <3>1, ChunkIs
      <4>2. n > 0
        BY <3>1, Asks
      <4> HIDE DEF y, n, p
      <4>3. p[1] = y
        BY <3>3 DEF y
      <4> QED  BY <4>1, <4>2, <4>3
    <3> HIDE DEF m, p
    <3>5. PlacedAt(Units, p, m, 0) /\ 0 + 1 = 1
      BY <3>1, <3>2, FlatAt
    <3>6. Len(Flat(p, 1)) = Len(Flat(p, 0)) + Len(p[1]) /\ Len(Flat(p, 1)) <= Len(Flat(p, m)) /\ Len(Flat(p, 0)) \in Nat
          /\ Len(p[1]) \in Nat
      BY <3>5 DEF PlacedAt
    <3>7. Len(Flat(p, m)) # 0
      <4>1. Len(Flat(p, m)) \in Nat /\ Len(Flat(p, 1)) \in Nat
        BY <3>5 DEF PlacedAt
      <4> QED  BY <3>4, <3>6, <4>1
    <3> QED  BY <3>7 DEF PayIn, m, p
  <2>2. f = Flat(ChunksIn(r, i), 0)
    BY <1>12, <2>1 DEF f
  <2>3. f = <<>>
    BY <2>2, FlatNone
  <2> QED  BY <2>3
<1>14. v[2] = Size(0)
  BY <1>5, <1>13
<1>15. /\ \A q \in 1..Len(v) : StreamIn(r)[EndIn(r, x - 1) + q] = v[q]
       /\ EndIn(r, x - 1) \in Nat
  BY StreamIs DEF v
<1>16. 2 \in 1..Len(v) /\ EndIn(r, x - 1) + 2 = k + 1
  BY <1>5, <1>7, <1>11, <1>13, <1>15
<1> QED  BY <1>14, <1>15, <1>16

\* No request that was handed over had a body.
Clean == \A k \in 1..Len(delivered) : PayIn(requests, delivered[k].request) = <<>>

\* The last units sent are in the buffer.
Latest(r, v, m) == \A k \in 1..Len(v) : v[k] = StreamIn(r)[m - Len(v) + k]

NoAbort ==
    Clean =>
        /\ status # "aborted"
        /\ recv = <<>> => bodyLen = 0
        /\ recv # <<>> /\ recv[1][1] = "head" =>
             /\ bodyLen <= Len(recv) - 1
             /\ PayIn(requests, recv[1][2]) = <<>> => bodyLen = 0 /\ Latest(requests, recv, sent) /\ rcvd >= Len(recv)

LEMMA CleanBefore ==
    ASSUME CkTyped, CkTyped', requests' = requests, Clean',
           delivered' = delivered \/ \E x : delivered' = Append(delivered, x)
    PROVE  Clean
<1>1. delivered \in Seq(Deliveries)
  BY DEF CkTyped
<1>2. CASE delivered' = delivered
  BY <1>2 DEF Clean
<1>3. ASSUME NEW x, delivered' = Append(delivered, x) PROVE Clean
  <2> SUFFICES ASSUME NEW k \in 1..Len(delivered) PROVE PayIn(requests, delivered[k].request) = <<>>
    BY DEF Clean
  <2>1. k \in 1..Len(delivered') /\ delivered'[k] = delivered[k]
    BY <1>1, <1>3
  <2>2. PayIn(requests', delivered'[k].request) = <<>>
    BY <2>1 DEF Clean
  <2> QED  BY <2>1, <2>2
<1> QED  BY <1>2, <1>3

\* A head without a body at the start of the buffer.
LEMMA BareIs ==
    ASSUME CkTyped, NoAbort, Clean, NEW i \in 1..N, NEW n \in Nat, ReadsNow(i, n),
           Buf(n)[1][1] = "head", PayIn(requests, Buf(n)[1][2]) = <<>>
    PROVE  /\ bodyLen = 0 /\ Latest(requests, Buf(n), sent + n) /\ rcvd >= Len(recv)
           /\ FoundIn(Buf(n)).data = <<>>
           /\ Len(Buf(n)) > 1 => Buf(n)[2] = Size(0)
<1> DEFINE buf == Buf(n)
           t == StreamIn(requests)
           l == Len(recv)
           m == sent + n
           o == Len(buf)
<1>1. /\ buf \in Seq(Units) /\ o = l + n /\ n >= 1
      /\ \A k \in 1..l : buf[k] = recv[k]
      /\ \A k \in 1..n : buf[l + k] = t[sent + k]
      /\ m <= Len(t)
  BY DEF ReadsNow, BufHolds
<1>2. /\ requests \in Asked /\ sent \in Nat /\ recv \in Seq(Units) /\ l \in Nat /\ l <= sent /\ rcvd \in Nat
  BY DEF CkTyped
<1>3. recv # <<>> => l >= 1 /\ buf[1] = recv[1]
  <2>1. recv # <<>> => l >= 1
    BY <1>2, EmptySeq
  <2> HIDE DEF l, buf, t
  <2> QED  BY <1>1, <1>2, <2>1
<1>4. bodyLen = 0 /\ rcvd >= l /\ (recv # <<>> => Latest(requests, recv, sent))
  <2>1. CASE recv = <<>>
    <3>1. l = 0
      BY <2>1
    <3> QED  BY <2>1, <3>1, <1>2 DEF NoAbort
  <2>2. CASE recv # <<>>
    <3>1. recv[1][1] = "head" /\ PayIn(requests, recv[1][2]) = <<>>
      BY <1>3, <2>2
    <3> QED  BY <2>2, <3>1 DEF NoAbort
  <2> QED  BY <2>1, <2>2
<1>5. \A k \in 1..l : recv[k] = t[sent - l + k]
  <2>1. CASE recv = <<>>
    <3>1. l = 0
      BY <2>1
    <3> QED  BY <3>1
  <2>2. CASE recv # <<>>
    BY <2>2, <1>4 DEF Latest
  <2> QED  BY <2>1, <2>2
<1>6. buf[1] \in Units /\ buf[1][2] \in 1..N /\ buf[1] = HeadOf(buf[1][2])
  <2>1. 1 \in 1..o
    BY <1>1, <1>2
  <2>2. buf[1] \in Units
    BY <1>1, <2>1
  <2> QED  BY <2>2, UnitIs
<1> HIDE DEF buf, t, l, o
<1>7. ASSUME NEW k \in 1..o PROVE buf[k] = t[m - o + k]
  <2>1. CASE k \in 1..l
    <3>1. sent - l + k = m - o + k
      BY <1>1, <1>2
    <3> QED  BY <2>1, <3>1, <1>1, <1>5
  <2>2. CASE k > l
    <3>1. k - l \in 1..n /\ l + (k - l) = k /\ sent + (k - l) = m - o + k
      BY <1>1, <1>2, <2>2, SMTT(20)
    <3>2. buf[l + (k - l)] = t[sent + (k - l)]
      BY <3>1, <1>1
    <3> QED  BY <3>1, <3>2
  <2> QED  BY <2>1, <2>2, <1>1, <1>2
<1>8. Latest(requests, buf, m)
  <2> HIDE DEF m
  <2> QED  BY <1>7 DEF Latest, t, o
<1>9. o > 1 => buf[2] = Size(0)
  <2> SUFFICES ASSUME o > 1 PROVE buf[2] = Size(0)
    OBVIOUS
  <2> DEFINE k == m - o + 1
             i0 == buf[1][2]
  <2>1. /\ k \in 1..Len(t) /\ k + 1 <= Len(t) /\ 1 \in 1..o /\ 2 \in 1..o /\ m - o + 2 = k + 1
    <3>1. Len(t) \in Nat
      BY <1>2, StreamIs, One, LenProperties DEF t
    <3> QED  BY <1>1, <1>2, <3>1
  <2>2. t[k] = HeadOf(i0)
    BY <2>1, <1>6, <1>7
  <2>3. i0 \in 1..N /\ PayIn(requests, i0) = <<>>
    BY <1>6 DEF buf
  <2>4. buf[2] = t[k + 1]
    BY <2>1, <1>7
  <2> HIDE DEF k, i0
  <2>5. t[k + 1] = Size(0)
    BY <1>2, <2>1, <2>2, <2>3, AfterHead DEF t
  <2> QED  BY <2>4, <2>5
<1>10. FoundIn(buf).data = <<>>
  <2> SUFFICES ASSUME FoundIn(buf).data # <<>> PROVE FALSE
    OBVIOUS
  <2> DEFINE b == Tail(buf)
  <2>1. o >= 1 /\ bodyLen \in Nat /\ o - 1 >= bodyLen
    BY <1>1, <1>2, <1>4
  <2>2. b \in Seq(Units) /\ Len(b) = o - 1 /\ \A k \in 1..Len(b) : b[k] = buf[k + 1]
    BY <1>1, <2>1, BodyIs DEF o
  <2>3. FoundIn(buf) = Scan(b, 1) /\ 1 \in 1..Len(b) + 1
    <3>1. bodyLen + 1 = 1
      BY <1>4
    <3>2. FoundIn(buf) = Scan(b, bodyLen + 1)
      BY DEF FoundIn
    <3>3. Len(b) \in Nat
      BY <2>2
    <3> QED  BY <3>1, <3>2, <3>3
  <2> HIDE DEF b
  <2>4. ChunkAt(b, 1) /\ b[1][2] # 0
    BY <2>2, <2>3, ScanData
  <2>5. 1 \in 1..Len(b)
    BY <2>2, <2>3, <2>4, ChunkEnds
  <2>6. b[1] = buf[2] /\ o > 1
    <3>1. 1 + 1 = 2
      OBVIOUS
    <3>2. b[1] = buf[1 + 1]
      BY <2>2, <2>5
    <3>3. o > 1
      <4>1. Len(b) = o - 1 /\ o \in Nat
        BY <1>1, <1>2, <2>2
      <4> QED  BY <2>5, <4>1
    <3> QED  BY <3>1, <3>2, <3>3
  <2>7. Size(0)[2] = 0
    BY UnitIs
  <2> QED  BY <1>9, <2>4, <2>6, <2>7
<1> QED  BY <1>4, <1>8, <1>9, <1>10 DEF buf, l, o

\* Without its last chunk nothing of it is changed.
LEMMA BareStays ==
    ASSUME NEW buf \in Seq(Units), Len(buf) >= 1, bodyLen = 0, FoundIn(buf).data = <<>>,
           Len(buf) > 1 => buf[2] = Size(0), ~FoundIn(buf).zero
    PROVE  NewBuf(buf) = buf
<1> DEFINE b == Tail(buf)
           w == BodyOf(buf)
           v == NewBuf(buf)
           q == FoundIn(buf).next
<1>1. bodyLen \in Nat /\ Len(buf) - 1 >= bodyLen
  OBVIOUS
<1>2. /\ b \in Seq(Units) /\ Len(b) = Len(buf) - 1 /\ (\A k \in 1..Len(b) : b[k] = buf[k + 1])
      /\ Len(w) = bodyLen + Len(FoundIn(buf).data) + (Len(b) + 1 - q)
      /\ \A k \in 1..Len(b) + 1 - q : w[bodyLen + Len(FoundIn(buf).data) + k] = b[q + k - 1]
      /\ v \in Seq(Units) /\ Len(v) = Len(w) + 1 /\ v[1] = buf[1]
      /\ \A k \in 1..Len(w) : v[k + 1] = w[k]
      /\ bodyLen + 1 \in 1..Len(b) + 1
  BY <1>1, BodyIs
<1>3. FoundIn(buf) = Scan(b, 1) /\ 1 \in 1..Len(b) + 1 /\ Len(FoundIn(buf).data) = 0
  <2>1. bodyLen + 1 = 1 /\ Len(<<>>) = 0
    OBVIOUS
  <2>2. FoundIn(buf) = Scan(b, bodyLen + 1)
    BY DEF FoundIn
  <2> QED  BY <1>2, <2>1, <2>2
<1> HIDE DEF b, w, v
<1>4. q = 1
  <2>1. CASE ChunkAt(b, 1)
    <3>1. 1 \in 1..Len(b) /\ 1 + 1 = 2
      BY <1>2, <1>3, <2>1, ChunkEnds
    <3>2. b[1] = buf[2] /\ Len(buf) > 1
      <4>1. b[1] = buf[1 + 1]
        BY <1>2, <3>1
      <4> QED  BY <4>1, <3>1, <1>2
    <3>3. b[1][2] = 0
      <4>1. Size(0)[2] = 0
        BY UnitIs
      <4> QED  BY <3>2, <4>1
    <3>4. Scan(b, 1).zero = TRUE
      <4>1. b \in Seq(Units) /\ 1 \in 1..Len(b) + 1
        BY <1>2, <1>3
      <4> QED  BY <2>1, <3>3, <4>1, ScanLast
    <3> QED  BY <3>4, <1>3
  <2>2. CASE ~ChunkAt(b, 1)
    <3>1. b \in Seq(Units) /\ 1 \in 1..Len(b) + 1
      BY <1>2, <1>3
    <3>2. Scan(b, 1).next = 1
      BY <2>2, <3>1, ScanNone
    <3> QED  BY <3>2, <1>3
  <2> QED  BY <2>1, <2>2
<1>5. Len(b) \in Nat
  BY <1>2
<1>6. Len(w) = Len(b)
  <2>1. Len(w) = 0 + 0 + (Len(b) + 1 - 1)
    BY <1>2, <1>3, <1>4
  <2> QED  BY <2>1, <1>5
<1>7. ASSUME NEW k \in 1..Len(b) PROVE w[k] = b[k]
  <2>1. k \in 1..Len(b) + 1 - q /\ 0 + 0 + k = k /\ q + k - 1 = k
    BY <1>4, <1>5
  <2>2. w[bodyLen + Len(FoundIn(buf).data) + k] = b[q + k - 1]
    BY <1>2, <2>1
  <2> QED  BY <1>3, <2>1, <2>2
<1>8. Len(v) = Len(buf)
  <2>1. Len(v) = Len(b) + 1 /\ Len(b) = Len(buf) - 1 /\ Len(buf) \in Nat
    BY <1>2, <1>6
  <2> QED  BY <2>1
<1>9. ASSUME NEW k \in 1..Len(v) PROVE v[k] = buf[k]
  <2>1. CASE k = 1
    BY <1>2, <2>1
  <2>2. CASE k # 1
    <3>1. k - 1 \in 1..Len(b) /\ (k - 1) + 1 = k
      <4>1. Len(v) = Len(b) + 1
        BY <1>2, <1>6
      <4> QED  BY <2>2, <4>1, <1>5
    <3>2. v[(k - 1) + 1] = w[k - 1] /\ b[k - 1] = buf[(k - 1) + 1]
      BY <1>2, <1>6, <3>1
    <3> QED  BY <3>1, <3>2, <1>7
  <2> QED  BY <2>1, <2>2
<1>10. v = buf
  <2>1. v \in Seq(Units)
    BY <1>2
  <2> QED  BY <2>1, <1>8, <1>9, SeqEqual
<1> QED  BY <1>10 DEF v

LEMMA NoAbortNext ==
    ASSUME CkTyped, CkTyped', NoAbort, Receive
    PROVE  NoAbort'
<1>1. PICK i \in 1..N, n \in Nat : ReadsNow(i, n)
  BY Reads
<1> DEFINE buf == Buf(n)
           i0 == buf[1][2]
<1>2. /\ requests' = requests /\ sent' = sent + n /\ status = "open" /\ n >= 1
      /\ buf \in Seq(Units) /\ Len(buf) = Len(recv) + n
      /\ \A k \in 1..Len(recv) : buf[k] = recv[k]
      /\ Garbage(buf) \/ Abort(buf) \/ Chunked(buf)
  BY <1>1 DEF ReadsNow, BufHolds
<1>3. /\ recv \in Seq(Units) /\ Len(recv) \in Nat /\ bodyLen \in Nat /\ rcvd \in Nat /\ delivered \in Seq(Deliveries)
      /\ sent \in Nat
  BY DEF CkTyped
<1>4. Len(buf) \in Nat /\ Len(buf) >= 1 /\ 1 \in 1..Len(buf)
  BY <1>2, <1>3
<1>5. delivered' = delivered \/ \E x : delivered' = Append(delivered, x)
  <2>1. CASE Chunked(buf)
    <3>1. Keeps(buf) \/ Hands(buf)
      BY <2>1, ChunkedIs
    <3> QED  BY <3>1 DEF Keeps, Hands
  <2> QED  BY <1>2, <2>1 DEF Garbage, Abort
<1> SUFFICES ASSUME Clean'
             PROVE  /\ status' # "aborted"
                    /\ recv' = <<>> => bodyLen' = 0
                    /\ recv' # <<>> /\ recv'[1][1] = "head" =>
                         /\ bodyLen' <= Len(recv') - 1
                         /\ PayIn(requests', recv'[1][2]) = <<>> => bodyLen' = 0 /\ Latest(requests', recv', sent') /\ rcvd' >= Len(recv')
  BY DEF NoAbort
<1>6. Clean
  BY <1>2, <1>5, CleanBefore
<1>7. recv # <<>> => Len(recv) >= 1 /\ buf[1] = recv[1]
  <2>1. recv # <<>> => Len(recv) >= 1
    BY <1>3, EmptySeq
  <2> HIDE DEF buf
  <2> QED  BY <1>2, <1>3, <2>1
<1>8. buf[1][1] = "head" => bodyLen <= Len(buf) - 1
  <2> SUFFICES ASSUME buf[1][1] = "head" PROVE bodyLen <= Len(buf) - 1
    OBVIOUS
  <2>1. CASE recv = <<>>
    <3>1. bodyLen = 0
      BY <1>6, <2>1 DEF NoAbort
    <3> QED  BY <1>4, <3>1
  <2>2. CASE recv # <<>>
    <3>1. recv[1][1] = "head"
      BY <1>7, <2>2
    <3>2. bodyLen <= Len(recv) - 1
      BY <1>6, <2>2, <3>1 DEF NoAbort
    <3>3. Len(buf) = Len(recv) + n
      BY <1>2
    <3> HIDE DEF buf
    <3> QED  BY <1>3, <3>2, <3>3
  <2> QED  BY <2>1, <2>2
<1>9. CASE Garbage(buf)
  <2>1. buf[1][1] # "head" /\ recv' = buf /\ status' \in {"open", "rejected"}
    BY <1>2, <1>9 DEF Garbage
  <2>2. recv' # <<>>
    <3>1. Len(buf) # 0 /\ Len(<<>>) = 0
      BY <1>4
    <3> HIDE DEF buf
    <3> QED  BY <2>1, <3>1
  <2> HIDE DEF buf
  <2> QED  BY <2>1, <2>2
<1>10. CASE Abort(buf)
  <2>1. buf[1][1] = "head" /\ Len(buf) - 1 < bodyLen
    BY <1>10 DEF Abort
  <2> HIDE DEF buf
  <2> QED  BY <1>3, <1>4, <1>8, <2>1
<1>11. CASE Chunked(buf)
  <2> DEFINE w == BodyOf(buf)
             v == NewBuf(buf)
             s == FoundIn(buf)
  <2>1. /\ buf[1][1] = "head" /\ Len(buf) - 1 >= bodyLen
        /\ bodyLen' = bodyLen + Len(s.data) /\ status' = status /\ (Keeps(buf) \/ Hands(buf))
    BY <1>11, ChunkedIs
  <2>2. /\ Len(s.data) \in Nat /\ s.zero \in BOOLEAN /\ w \in Seq(Units) /\ Len(w) \in Nat /\ Len(w) <= Len(buf) - 1
        /\ bodyLen + Len(s.data) <= Len(w)
        /\ v \in Seq(Units) /\ Len(v) = Len(w) + 1 /\ v[1] = buf[1]
    BY <1>2, <1>3, <1>4, <2>1, BodyIs
  <2>3. PayIn(requests, i0) = <<>> =>
          /\ bodyLen = 0 /\ Latest(requests, buf, sent + n) /\ rcvd >= Len(recv)
          /\ s.data = <<>> /\ (Len(buf) > 1 => buf[2] = Size(0))
    BY <1>1, <1>6, <2>1, BareIs
  <2>4. PayIn(requests, i0) = <<>> => bodyLen' = 0
    <3>1. Len(<<>>) = 0
      OBVIOUS
    <3> QED  BY <2>1, <2>3, <3>1
  <2>5. PayIn(requests, i0) = <<>> /\ ~s.zero => v = buf
    BY <1>2, <1>4, <2>3, BareStays
  <2>6. v # <<>>
    <3>1. Len(v) # 0 /\ Len(<<>>) = 0
      BY <2>2
    <3> HIDE DEF v
    <3> QED  BY <3>1
  <2>7. CASE Keeps(buf)
    <3>1. recv' = v /\ rcvd' = Total(buf) /\ (Endless(buf) \/ MsgLen(buf) > Total(buf))
      BY <2>7 DEF Keeps
    <3>2. bodyLen' <= Len(recv') - 1
      <4>1. bodyLen' <= Len(w) /\ Len(w) = Len(v) - 1
        BY <2>1, <2>2
      <4> HIDE DEF w, v
      <4> QED  BY <3>1, <4>1
    <3>3. ASSUME PayIn(requests, i0) = <<>>
          PROVE  bodyLen' = 0 /\ Latest(requests', recv', sent') /\ rcvd' >= Len(recv')
      <4>1. Total(buf) >= Len(buf) /\ Total(buf) \in Nat
        <5>1. rcvd >= Len(recv)
          BY <2>3, <3>3
        <5>2. Len(buf) = Len(recv) + n
          BY <1>2
        <5> HIDE DEF buf
        <5> QED  BY <1>3, <1>4, <5>1, <5>2 DEF Total
      <4>2. ~s.zero
        <5> SUFFICES ASSUME s.zero PROVE FALSE
          OBVIOUS
        <5>1. ~Endless(buf) /\ MsgLen(buf) = 1 + Len(w)
          BY DEF Endless, MsgLen
        <5> HIDE DEF buf, w
        <5> QED  BY <1>4, <2>2, <3>1, <4>1, <5>1
      <4>3. v = buf
        BY <2>5, <3>3, <4>2
      <4>4. Latest(requests, buf, sent + n)
        BY <2>3, <3>3
      <4>5. Latest(requests', recv', sent')
        <5>1. recv' = buf
          BY <3>1, <4>3
        <5>2. requests' = requests /\ sent' = sent + n
          BY <1>2
        <5> HIDE DEF buf
        <5> QED  BY <4>4, <5>1, <5>2
      <4>6. rcvd' >= Len(recv')
        BY <3>1, <4>1, <4>3
      <4> QED  BY <2>4, <3>3, <4>5, <4>6
    <3>4. recv' # <<>> /\ recv'[1] = buf[1]
      BY <2>2, <2>6, <3>1
    <3>5. status' # "aborted"
      BY <1>2, <2>1
    <3> HIDE DEF v
    <3> QED  BY <1>2, <3>2, <3>3, <3>4, <3>5
  <2>8. CASE Hands(buf)
    <3>1. /\ recv' = SubSeq(v, MsgLen(buf) + 1, 1 + Len(w))
          /\ delivered' = Append(delivered, [request |-> i0, body |-> w, len |-> MsgLen(buf)])
      BY <2>8 DEF Hands
    <3>2. PayIn(requests, i0) = <<>>
      <4> DEFINE g == [request |-> i0, body |-> w, len |-> MsgLen(buf)]
                 k == Len(delivered) + 1
      <4>1. g.request = i0
        OBVIOUS
      <4> HIDE DEF g
      <4>2. k \in 1..Len(delivered') /\ delivered'[k] = g
        BY <1>3, <3>1 DEF g
      <4>3. PayIn(requests', delivered'[k].request) = <<>>
        BY <4>2 DEF Clean
      <4> QED  BY <1>2, <4>1, <4>2, <4>3
    <3>3. bodyLen' = 0 /\ status' # "aborted"
      BY <1>2, <2>1, <2>4, <3>2
    <3>4. recv' = <<>> \/ recv'[1][1] # "head"
      <4>1. CASE s.zero
        <5> DEFINE m == 1 + Len(w)
        <5>1. MsgLen(buf) = m /\ Len(v) = m /\ m \in Nat
          BY <2>2, <4>1 DEF MsgLen
        <5> HIDE DEF v, m
        <5>2. SubSeq(v, m + 1, m) = <<>>
          <6>1. m <= Len(v)
            BY <5>1
          <6> QED  BY <2>2, <5>1, <6>1, NoPart
        <5> QED  BY <3>1, <5>1, <5>2 DEF m
      <4>2. CASE ~s.zero
        <5>1. MsgLen(buf) = 1
          BY <4>2 DEF MsgLen
        <5>2. v = buf /\ 1 + Len(w) = Len(buf)
          <6>1. v = buf
            BY <2>5, <3>2, <4>2
          <6>2. Len(v) = Len(w) + 1 /\ Len(w) \in Nat
            BY <2>2
          <6> HIDE DEF v, w, buf
          <6> QED  BY <6>1, <6>2
        <5>3. recv' = SubSeq(buf, 1 + 1, Len(buf))
          BY <3>1, <5>1, <5>2
        <5>4. /\ SubSeq(buf, 1 + 1, Len(buf)) \in Seq(Units) /\ Len(SubSeq(buf, 1 + 1, Len(buf))) = Len(buf) - 1
              /\ \A k \in 1..Len(buf) - 1 : SubSeq(buf, 1 + 1, Len(buf))[k] = buf[1 + k]
          BY <1>2, <1>4, LeftIs
        <5>5. CASE Len(buf) > 1
          <6>1. 1 \in 1..Len(buf) - 1 /\ 1 + 1 = 2
            BY <1>4, <5>5
          <6>2. recv'[1] = buf[2]
            BY <5>3, <5>4, <6>1
          <6>3. buf[2] = Size(0) /\ Size(0)[1] = "size"
            BY <2>3, <3>2, <5>5, UnitIs
          <6> QED  BY <6>2, <6>3
        <5>6. CASE ~(Len(buf) > 1)
          <6>1. Len(buf) - 1 = 0
            BY <1>4, <5>6
          <6> QED  BY <5>3, <5>4, <6>1, EmptySeq
        <5> QED  BY <5>5, <5>6
      <4> QED  BY <2>2, <4>1, <4>2
    <3> QED  BY <3>3, <3>4
  <2> QED  BY <2>1, <2>7, <2>8
<1> QED  BY <1>2, <1>9, <1>10, <1>11

\* The assertion of mg_handle_chunked only fails after a request with a body
\* was handed over on the same connection.
THEOREM CkAborts == CkSpec => []AbortsAfterBody
<1> DEFINE I == CkTyped /\ NoAbort
<1>1. CkInit => I
  <2> SUFFICES ASSUME CkInit PROVE I
    OBVIOUS
  <2>1. NoAbort
    BY DEF CkInit, NoAbort
  <2> QED  BY <2>1, CkTypedInit
<1>2. I /\ [CkNext]_ckVars => I'
  <2> SUFFICES ASSUME CkTyped, NoAbort, [CkNext]_ckVars PROVE I'
    OBVIOUS
  <2>1. CkTyped'
    BY CkTypedNext
  <2>2. CASE Receive
    BY <2>1, <2>2, NoAbortNext
  <2>3. CASE UNCHANGED ckVars
    BY <2>1, <2>3 DEF ckVars, NoAbort, Clean
  <2> QED  BY <2>2, <2>3 DEF CkNext
<1>3. I => AbortsAfterBody
  <2> SUFFICES ASSUME CkTyped, NoAbort, status = "aborted"
               PROVE  \E k \in 1..Len(delivered) : Payload(delivered[k].request) # <<>>
    BY DEF AbortsAfterBody
  <2>1. PICK k \in 1..Len(delivered) : PayIn(requests, delivered[k].request) # <<>>
    BY DEF NoAbort, Clean
  <2>2. delivered[k].request \in 1..N
    <3>1. delivered[k] \in Deliveries
      BY DEF CkTyped
    <3> QED  BY <3>1 DEF Deliveries
  <2>3. Payload(delivered[k].request) = PayIn(requests, delivered[k].request)
    BY <2>2, Sends DEF CkTyped
  <2> QED  BY <2>1, <2>3
<1> QED  BY <1>1, <1>2, <1>3, PTL DEF CkSpec

-----------------------------------------------------------------------------
(***************************************************************************)
(* WebSocket.  A plan is the frames one after the other, so what has come  *)
(* and is not dealt with is always the rest of it from the beginning of    *)
(* some frame on, behind what was put together of a message, if anything.  *)
(***************************************************************************)
\* A set of numbers that is not empty has a least one.
LEMMA LeastIs ==
    ASSUME NEW S, S \subseteq Nat, S # {}
    PROVE  \E k \in S : \A j \in S : k <= j
<1>1. PICK k \in S : \A j \in S : <<j, k>> \notin OpToRel(<, Nat)
  BY WFMin, NatLessThanWellFounded, Zenon
<1>2. \A j \in S : ~(j < k)
  BY <1>1, Zenon DEF OpToRel
<1>3. \A j \in S : k <= j
  BY <1>2
<1> QED  BY <1>3

\* What the values of a WebSocket connection are.
WsBytes == {Flags(fin, op) : fin \in BOOLEAN, op \in Nat} \cup {Length(e, n) : e \in Nat, n \in Nat} \cup {Mask}
           \cup {Byte(f, i) : f \in Nat, i \in Nat}
WsEvents == [ev : {"request", "done", "frame", "control"}, data : Seq(WsBytes)]

WsSet == [plan : WsPlans, server : BOOLEAN, defrag : BOOLEAN, upgraded : BOOLEAN, alive : BOOLEAN,
          sent : Nat, recv : Seq(WsBytes), reass : Nat, run : BOOLEAN, flags : SUBSET {"SAC", "CI"},
          got : Seq(WsEvents), out : Seq({"own", "101", "ping"}), idle : 0..WsIdle + 1, lost : BOOLEAN]

\* Where frame d + 1 of a plan begins, and what has come from there on when s bytes have been sent.
PlanFrames(p) == [f \in 1..Len(p) |-> Frame(p, f)]
Off(p, d) == Len(Flat(PlanFrames(p), d))
Coming(p, d, s) == SubSeq(FrameBytes(p), Off(p, d) + 1, s)

\* What the proofs use of the constants.
LEMMA WsConstants == WsIdle \in Nat /\ WsIdle # 0 /\ WsPings \in Nat
BY WsAssumption DEF WsAssumption

\* What a frame of a plan is.
LEMMA PlanIs ==
    ASSUME NEW p \in WsPlans
    PROVE  /\ p \in Seq(WsFrames) /\ Len(p) \in Nat /\ DOMAIN p = 1..Len(p) /\ Orderly(p)
           /\ \A f \in 1..Len(p) : /\ p[f].fin \in BOOLEAN /\ p[f].op \in Nat /\ p[f].ext \in Nat /\ p[f].n \in Nat
                                   /\ IsControl(p[f].op) => p[f].fin /\ p[f].op # 0
<1>1. p \in Seq(WsFrames) /\ Orderly(p)
  BY WsAssumption DEF WsAssumption
<1>2. Len(p) \in Nat /\ DOMAIN p = 1..Len(p)
  BY <1>1
<1>3. \A f \in 1..Len(p) : p[f] \in WsFrames
  BY <1>1
<1>4. \A f \in 1..Len(p) : p[f].fin \in BOOLEAN /\ p[f].op \in Nat /\ p[f].ext \in Nat /\ p[f].n \in Nat
  BY <1>3 DEF WsFrames
<1>5. \A f \in 1..Len(p) : IsControl(p[f].op) => p[f].fin /\ p[f].op # 0
  BY <1>1, <1>2 DEF Orderly, IsControl
<1> QED  BY <1>1, <1>2, <1>4, <1>5

\* When no control frame comes between fragments, a frame goes on with a message when the one before has no end.
LEMMA GoesOn ==
    ASSUME NEW p \in WsPlans, ~Interrupted(p), NEW f \in 1..Len(p)
    PROVE  p[f].op = 0 <=> f > 1 /\ ~p[f - 1].fin
<1>1. /\ Len(p) \in Nat /\ DOMAIN p = 1..Len(p) /\ f \in Nat
      /\ \A g \in 1..Len(p) : p[g].op \in Nat /\ (IsControl(p[g].op) => p[g].fin /\ p[g].op # 0)
  BY PlanIs
<1>2. ~IsControl(p[f].op) => (p[f].op = 0 <=> Midway(p, f))
  BY <1>1, PlanIs DEF Orderly
<1>3. \A g \in 1..Len(p) : g > 1 /\ IsControl(p[g].op) => p[g - 1].fin
  BY <1>1 DEF Interrupted
<1>4. ASSUME f > 1, ~p[f - 1].fin PROVE p[f].op = 0
  <2>1. f - 1 \in 1..f - 1 /\ f - 1 \in 1..Len(p) /\ (f - 1) + 1..f - 1 = {}
    BY <1>1, <1>4
  <2>2. ~IsControl(p[f].op) /\ ~IsControl(p[f - 1].op)
    BY <1>1, <1>3, <1>4, <2>1
  <2>3. Midway(p, f)
    BY <2>1, <2>2, <1>4 DEF Midway
  <2> QED  BY <1>2, <2>2, <2>3
<1>5. ASSUME p[f].op = 0 PROVE f > 1 /\ ~p[f - 1].fin
  <2>1. ~IsControl(p[f].op)
    BY <1>1, <1>5
  <2>2. PICK g \in 1..f - 1 : ~IsControl(p[g].op) /\ ~p[g].fin /\ \A h \in g + 1..f - 1 : IsControl(p[h].op)
    BY <1>2, <1>5, <2>1 DEF Midway
  <2>3. CASE g = f - 1
    BY <2>2, <2>3, <1>1
  <2>4. CASE g # f - 1
    <3>1. g + 1 \in g + 1..f - 1 /\ g + 1 \in 1..Len(p) /\ g + 1 > 1 /\ (g + 1) - 1 = g
      BY <2>2, <2>4, <1>1
    <3>2. IsControl(p[g + 1].op)
      BY <2>2, <3>1
    <3>3. p[(g + 1) - 1].fin
      BY <3>1, <3>2, <1>3
    <3> QED  BY <3>1, <3>3, <2>2
  <2> QED  BY <2>3, <2>4
<1> QED  BY <1>4, <1>5

\* The units of a frame.
LEMMA FrameIs ==
    ASSUME NEW p \in WsPlans, NEW f \in 1..Len(p)
    PROVE  /\ Frame(p, f) \in Seq(WsBytes) /\ Len(Frame(p, f)) = 2 + p[f].ext + p[f].n
           /\ Frame(p, f)[1] = Flags(p[f].fin, p[f].op) /\ Frame(p, f)[2] = Length(p[f].ext, p[f].n)
           /\ FramePayload(p, f) \in Seq(WsBytes) /\ Len(FramePayload(p, f)) = p[f].n
           /\ \A k \in 1..p[f].n : Frame(p, f)[(2 + p[f].ext) + k] = FramePayload(p, f)[k]
<1> DEFINE e == p[f].ext
           n == p[f].n
           a == <<Flags(p[f].fin, p[f].op), Length(e, n)>>
           b == [i \in 1..e |-> Mask]
           c == FramePayload(p, f)
<1>1. e \in Nat /\ n \in Nat /\ p[f].fin \in BOOLEAN /\ p[f].op \in Nat /\ f \in Nat
  BY PlanIs
<1>2. Flags(p[f].fin, p[f].op) \in WsBytes /\ Length(e, n) \in WsBytes /\ Mask \in WsBytes
      /\ \A i \in 1..n : Byte(f, i) \in WsBytes
  BY <1>1 DEF WsBytes
<1>3. a \in Seq(WsBytes) /\ Len(a) = 2 /\ a[1] = Flags(p[f].fin, p[f].op) /\ a[2] = Length(e, n)
  BY <1>2
<1>4. b \in Seq(WsBytes) /\ Len(b) = e
  <2>1. b \in [1..e -> WsBytes]
    BY <1>2
  <2> HIDE DEF b
  <2> QED  BY <2>1, <1>1
<1>5. c \in Seq(WsBytes) /\ Len(c) = n
  <2>1. c \in [1..n -> WsBytes]
    BY <1>2 DEF FramePayload
  <2> HIDE DEF c
  <2> QED  BY <2>1, <1>1
<1>6. Frame(p, f) = a \o b \o c
  BY DEF Frame
<1> HIDE DEF a, b, c, e, n
<1>7. InTurn(WsBytes, Frame(p, f), a, b, c)
  BY <1>3, <1>4, <1>5, <1>6, Three
<1>8. /\ Frame(p, f) \in Seq(WsBytes) /\ Len(Frame(p, f)) = Len(a) + Len(b) + Len(c)
      /\ \A k \in 1..Len(a) : Frame(p, f)[k] = a[k]
      /\ \A k \in 1..Len(c) : Frame(p, f)[Len(a) + Len(b) + k] = c[k]
  BY <1>7 DEF InTurn
<1>9. 1 \in 1..Len(a) /\ 2 \in 1..Len(a)
  BY <1>3
<1> QED  BY <1>1, <1>3, <1>4, <1>5, <1>8, <1>9 DEF e, n, c

\* The bytes of a plan are its frames, one after the other.
LEMMA BytesAre ==
    ASSUME NEW p \in WsPlans
    PROVE  /\ FrameBytes(p) = Flat(PlanFrames(p), Len(p)) /\ SeqsOf(WsBytes, Len(p), PlanFrames(p))
           /\ FrameBytes(p) \in Seq(WsBytes) /\ Off(p, 0) = 0 /\ Off(p, Len(p)) = Len(FrameBytes(p))
<1>1. Len(p) \in Nat /\ DOMAIN p = 1..Len(p)
  BY PlanIs
<1>2. \A f \in 1..Len(p) : PlanFrames(p)[f] = Frame(p, f)
  BY DEF PlanFrames
<1>3. [f \in DOMAIN p |-> Frame(p, f)] = [f \in 1..Len(p) |-> PlanFrames(p)[f]]
  BY <1>1, <1>2
<1>4. FrameBytes(p) = Flat(PlanFrames(p), Len(p))
  BY <1>3 DEF FrameBytes, Flat
<1>5. SeqsOf(WsBytes, Len(p), PlanFrames(p))
  BY <1>2, FrameIs DEF SeqsOf
<1>6. FrameBytes(p) \in Seq(WsBytes)
  <2> DEFINE ss == [f \in 1..Len(p) |-> PlanFrames(p)[f]]
  <2>1. ss \in [1..Len(p) -> Seq(WsBytes)]
    BY <1>5 DEF SeqsOf
  <2> HIDE DEF ss
  <2>2. ss \in Seq(Seq(WsBytes))
    BY <2>1, <1>1
  <2>3. FlattenSeq(ss) \in Seq(WsBytes)
    BY <2>2, FlattenType
  <2> QED  BY <2>3, <1>4 DEF ss, Flat
<1>7. Off(p, 0) = 0
  BY FlatNone DEF Off
<1> QED  BY <1>4, <1>5, <1>6, <1>7 DEF Off

\* Where a frame is among the bytes of its plan.
LEMMA FrameStarts ==
    ASSUME NEW p \in WsPlans, NEW d \in Nat, d < Len(p)
    PROVE  /\ Off(p, d) \in Nat /\ Off(p, d + 1) \in Nat /\ Off(p, d + 1) <= Len(FrameBytes(p))
           /\ Off(p, d + 1) = Off(p, d) + (2 + p[d + 1].ext + p[d + 1].n)
           /\ \A k \in 1..2 + p[d + 1].ext + p[d + 1].n : FrameBytes(p)[Off(p, d) + k] = Frame(p, d + 1)[k]
<1>1. Len(p) \in Nat /\ d + 1 \in 1..Len(p)
  BY PlanIs
<1>2. PlanFrames(p)[d + 1] = Frame(p, d + 1)
  BY <1>1 DEF PlanFrames
<1>3. PlacedAt(WsBytes, PlanFrames(p), Len(p), d)
  BY <1>1, BytesAre, FlatAt
<1>4. Len(Frame(p, d + 1)) = 2 + p[d + 1].ext + p[d + 1].n
  BY <1>1, FrameIs
<1> QED  BY <1>2, <1>3, <1>4, BytesAre DEF PlacedAt, Off

\* Where a frame begins is among the bytes of its plan.
LEMMA OffIs ==
    ASSUME NEW p \in WsPlans, NEW d \in 0..Len(p)
    PROVE  Off(p, d) \in Nat /\ Off(p, d) <= Len(FrameBytes(p)) /\ Len(FrameBytes(p)) \in Nat /\ Len(p) \in Nat
<1>1. Len(p) \in Nat /\ FrameBytes(p) \in Seq(WsBytes)
  BY PlanIs, BytesAre
<1>2. CASE d < Len(p)
  <2>1. d \in Nat /\ d + 1 \in 1..Len(p)
    BY <1>1, <1>2
  <2>2. p[d + 1].ext \in Nat /\ p[d + 1].n \in Nat
    BY <2>1, PlanIs
  <2>3. Off(p, d) \in Nat /\ Off(p, d + 1) <= Len(FrameBytes(p))
        /\ Off(p, d + 1) = Off(p, d) + (2 + p[d + 1].ext + p[d + 1].n)
    BY <2>1, <1>2, FrameStarts
  <2>4. Len(FrameBytes(p)) \in Nat
    BY <1>1
  <2> QED  BY <1>1, <2>2, <2>3, <2>4, SMTT(20)
<1>3. CASE d = Len(p)
  BY <1>1, <1>3, BytesAre
<1> QED  BY <1>1, <1>2, <1>3

\* Part of a part.
LEMMA PartOfPart ==
    ASSUME NEW S, NEW s \in Seq(S), NEW i \in Nat, NEW j \in Nat, i <= j, j <= Len(s),
           NEW a \in Nat, NEW b \in Nat, a <= b, b <= j - i
    PROVE  SubSeq(SubSeq(s, i + 1, j), a + 1, b) = SubSeq(s, (i + a) + 1, i + b)
<1> DEFINE t == SubSeq(s, i + 1, j)
<1>1. t \in Seq(S) /\ Len(t) = j - i /\ \A n \in 1..j - i : t[n] = s[i + n]
  BY PartFrom
<1> HIDE DEF t
<1>2. SubSeq(t, a + 1, b) \in Seq(S) /\ Len(SubSeq(t, a + 1, b)) = b - a /\ \A n \in 1..b - a : SubSeq(t, a + 1, b)[n] = t[a + n]
  BY <1>1, PartFrom
<1>3. i + a \in Nat /\ i + b \in Nat /\ i + a <= i + b /\ i + b <= Len(s) /\ (i + b) - (i + a) = b - a
  OBVIOUS
<1>4. SubSeq(s, (i + a) + 1, i + b) \in Seq(S) /\ Len(SubSeq(s, (i + a) + 1, i + b)) = b - a
      /\ \A n \in 1..b - a : SubSeq(s, (i + a) + 1, i + b)[n] = s[(i + a) + n]
  BY <1>3, PartFrom
<1>5. \A n \in 1..b - a : SubSeq(t, a + 1, b)[n] = SubSeq(s, (i + a) + 1, i + b)[n]
  <2> TAKE n \in 1..b - a
  <2>1. a + n \in 1..j - i /\ i + (a + n) = (i + a) + n
    OBVIOUS
  <2> QED  BY <2>1, <1>1, <1>2, <1>4
<1>6. \A x \in Seq(S), y \in Seq(S) : Len(x) = Len(y) /\ (\A n \in 1..Len(x) : x[n] = y[n]) => x = y
  BY SeqEqual
<1> QED  BY <1>2, <1>4, <1>5, <1>6 DEF t

\* What has come and is not consumed begins with a frame, as far as it has come.
LEMMA ComingIs ==
    ASSUME NEW p \in WsPlans, NEW d \in 0..Len(p), NEW s \in Nat, Off(p, d) <= s, s <= Len(FrameBytes(p))
    PROVE  LET c == Coming(p, d, s)
               f == p[d + 1]
           IN  /\ c \in Seq(WsBytes) /\ Len(c) = s - Off(p, d)
               /\ Len(c) > 0 => d < Len(p) /\ d + 1 \in 1..Len(p) /\ c[1] = Flags(f.fin, f.op)
               /\ Len(c) > 1 => c[2] = Length(f.ext, f.n)
               /\ d < Len(p) => Off(p, d + 1) = Off(p, d) + (2 + f.ext + f.n)
               /\ d < Len(p) /\ Off(p, d + 1) <= s =>
                    /\ SubSeq(c, (2 + f.ext) + 1, 2 + f.ext + f.n) = FramePayload(p, d + 1)
                    /\ SubSeq(c, (2 + f.ext + f.n) + 1, Len(c)) = Coming(p, d + 1, s)
<1> DEFINE c == Coming(p, d, s)
           e == p[d + 1].ext
           n == p[d + 1].n
           all == FrameBytes(p)
           o == Off(p, d)
<1>1. all \in Seq(WsBytes) /\ Len(all) \in Nat /\ o \in Nat /\ Len(p) \in Nat /\ Off(p, Len(p)) = Len(all)
  BY OffIs, BytesAre
<1>2. c \in Seq(WsBytes) /\ Len(c) = s - o /\ \A k \in 1..s - o : c[k] = all[o + k]
  <2> HIDE DEF all, o
  <2> QED  BY <1>1, PartFrom, SMTT(20) DEF Coming, all, o
<1>3. Len(c) > 0 => d < Len(p)
  BY <1>1, <1>2
<1>4. CASE ~(d < Len(p))
  BY <1>2, <1>3, <1>4
<1>5. CASE d < Len(p)
  <2>1. d \in Nat /\ d + 1 \in 1..Len(p) /\ d + 1 \in 0..Len(p)
    BY <1>1, <1>5
  <2>2. /\ Off(p, d + 1) \in Nat /\ Off(p, d + 1) <= Len(all) /\ Off(p, d + 1) = o + (2 + e + n)
        /\ \A k \in 1..2 + e + n : all[o + k] = Frame(p, d + 1)[k]
    BY <2>1, <1>5, FrameStarts
  <2>3. e \in Nat /\ n \in Nat
    BY <2>1, PlanIs
  <2>4. /\ Len(Frame(p, d + 1)) = 2 + e + n
        /\ Frame(p, d + 1)[1] = Flags(p[d + 1].fin, p[d + 1].op) /\ Frame(p, d + 1)[2] = Length(e, n)
        /\ FramePayload(p, d + 1) \in Seq(WsBytes) /\ Len(FramePayload(p, d + 1)) = n
        /\ \A k \in 1..n : Frame(p, d + 1)[(2 + e) + k] = FramePayload(p, d + 1)[k]
    BY <2>1, FrameIs
  <2> HIDE DEF c, all, o, e, n
  <2>5. \A k \in 1..2 + e + n : k <= s - o => c[k] = Frame(p, d + 1)[k]
    BY <1>2, <2>2, <1>1, <2>3
  <2>6. Len(c) > 0 => c[1] = Flags(p[d + 1].fin, p[d + 1].op)
    <3>1. Len(c) > 0 => 1 \in 1..2 + e + n /\ 1 <= s - o
      BY <1>1, <1>2, <2>3
    <3> QED  BY <3>1, <2>4, <2>5
  <2>7. Len(c) > 1 => c[2] = Length(e, n)
    <3>1. Len(c) > 1 => 2 \in 1..2 + e + n /\ 2 <= s - o
      BY <1>1, <1>2, <2>3
    <3> QED  BY <3>1, <2>4, <2>5
  <2>8. ASSUME Off(p, d + 1) <= s
        PROVE  /\ SubSeq(c, (2 + e) + 1, 2 + e + n) = FramePayload(p, d + 1)
               /\ SubSeq(c, (2 + e + n) + 1, Len(c)) = Coming(p, d + 1, s)
    <3>1. 2 + e + n <= s - o /\ 2 + e + n <= Len(c) /\ 2 + e \in Nat /\ 2 + e + n \in Nat /\ 2 + e <= 2 + e + n
          /\ (2 + e + n) - (2 + e) = n /\ s - o \in Nat
      BY <2>8, <2>2, <2>3, <1>1, <1>2
    <3> DEFINE x == SubSeq(c, (2 + e) + 1, 2 + e + n)
    <3>2. x \in Seq(WsBytes) /\ Len(x) = n /\ \A k \in 1..n : x[k] = c[(2 + e) + k]
      <4> DEFINE i == 2 + e
                 j == 2 + e + n
      <4>1. i \in Nat /\ j \in Nat /\ i <= j /\ j <= Len(c) /\ j - i = n /\ c \in Seq(WsBytes)
        BY <3>1, <1>2
      <4> HIDE DEF i, j
      <4>2. SubSeq(c, i + 1, j) \in Seq(WsBytes) /\ Len(SubSeq(c, i + 1, j)) = j - i
            /\ \A k \in 1..j - i : SubSeq(c, i + 1, j)[k] = c[i + k]
        BY <4>1, PartFrom
      <4> QED  BY <4>1, <4>2 DEF i, j
    <3>3. \A k \in 1..n : x[k] = FramePayload(p, d + 1)[k]
      <4> TAKE k \in 1..n
      <4>1. (2 + e) + k \in 1..2 + e + n /\ (2 + e) + k <= s - o
        BY <3>1, <2>3
      <4> QED  BY <4>1, <3>2, <2>5, <2>4
    <3>4. x = FramePayload(p, d + 1)
      <4> HIDE DEF x
      <4>1. \A a \in Seq(WsBytes), b \in Seq(WsBytes) : Len(a) = Len(b) /\ (\A k \in 1..Len(a) : a[k] = b[k]) => a = b
        BY SeqEqual
      <4> QED  BY <4>1, <3>2, <3>3, <2>4
    <3>5. SubSeq(c, (2 + e + n) + 1, Len(c)) = SubSeq(all, (o + (2 + e + n)) + 1, o + (s - o))
      <4>1. c = SubSeq(all, o + 1, s)
        BY DEF c, Coming, all, o
      <4>2. o <= s /\ s <= Len(all) /\ Len(c) <= s - o /\ Len(c) \in Nat /\ Len(c) = s - o
        BY <1>2, <3>1 DEF all, o
      <4>3. SubSeq(SubSeq(all, o + 1, s), (2 + e + n) + 1, s - o) = SubSeq(all, (o + (2 + e + n)) + 1, o + (s - o))
        <5> DEFINE i == 2 + e + n
                   j == s - o
        <5>1. i \in Nat /\ j \in Nat /\ i <= j /\ j <= s - o /\ all \in Seq(WsBytes) /\ o \in Nat /\ o <= s /\ s <= Len(all)
          BY <1>1, <4>2, <3>1
        <5> HIDE DEF i, j
        <5>2. SubSeq(SubSeq(all, o + 1, s), i + 1, j) = SubSeq(all, (o + i) + 1, o + j)
          BY <5>1, PartOfPart
        <5> QED  BY <5>2 DEF i, j
      <4> QED  BY <4>1, <4>2, <4>3
    <3>6. o + (s - o) = s
      BY <1>1
    <3>7. Coming(p, d + 1, s) = SubSeq(all, (o + (2 + e + n)) + 1, s)
      BY <2>2 DEF Coming, all
    <3> HIDE DEF x
    <3> QED  BY <3>4, <3>5, <3>6, <3>7 DEF x
  <2> QED  BY <1>2, <1>5, <2>1, <2>2, <2>6, <2>7, <2>8 DEF c, o, e, n
<1> QED  BY <1>4, <1>5

\* Part of what is behind something.
LEMMA PartBehind ==
    ASSUME NEW S, NEW h \in Seq(S), NEW c \in Seq(S), NEW i \in Nat, NEW j \in Nat, i <= j, j <= Len(c)
    PROVE  SubSeq(h \o c, (Len(h) + i) + 1, Len(h) + j) = SubSeq(c, i + 1, j)
<1> DEFINE b == h \o c
           m == Len(h)
<1>1. b \in Seq(S) /\ Len(b) = m + Len(c) /\ m \in Nat /\ Len(c) \in Nat /\ \A k \in 1..Len(c) : b[m + k] = c[k]
  OBVIOUS
<1> HIDE DEF b, m
<1> DEFINE x == SubSeq(b, (m + i) + 1, m + j)
           y == SubSeq(c, i + 1, j)
<1>2. m + i \in Nat /\ m + j \in Nat /\ m + i <= m + j /\ m + j <= Len(b) /\ (m + j) - (m + i) = j - i
  BY <1>1
<1>3. x \in Seq(S) /\ Len(x) = j - i /\ \A n \in 1..j - i : x[n] = b[(m + i) + n]
  <2> DEFINE from == m + i
             to == m + j
  <2>1. from \in Nat /\ to \in Nat /\ from <= to /\ to <= Len(b) /\ to - from = j - i /\ b \in Seq(S)
    BY <1>1, <1>2
  <2> HIDE DEF from, to
  <2>2. /\ SubSeq(b, from + 1, to) \in Seq(S) /\ Len(SubSeq(b, from + 1, to)) = to - from
        /\ \A n \in 1..to - from : SubSeq(b, from + 1, to)[n] = b[from + n]
    BY <2>1, PartFrom
  <2>3. to - from = j - i
    BY <2>1
  <2> QED  BY <2>2, <2>3 DEF from, to
<1>4. y \in Seq(S) /\ Len(y) = j - i /\ \A n \in 1..j - i : y[n] = c[i + n]
  BY PartFrom
<1> HIDE DEF x, y
<1>5. \A n \in 1..j - i : x[n] = y[n]
  <2> TAKE n \in 1..j - i
  <2>1. i + n \in 1..Len(c) /\ (m + i) + n = m + (i + n)
    BY <1>1
  <2> QED  BY <2>1, <1>1, <1>3, <1>4
<1>6. x = y
  <2>1. \A u \in Seq(S), v \in Seq(S) : Len(u) = Len(v) /\ (\A k \in 1..Len(u) : u[k] = v[k]) => u = v
    BY SeqEqual
  <2> QED  BY <2>1, <1>3, <1>4, <1>5
<1> QED  BY <1>6 DEF x, y, b, m

\* What is found behind what was put together.
LEMMA Found ==
    ASSUME ws \in WsSet, NEW h \in Seq(WsBytes), NEW d \in 0..Len(ws.plan),
           Off(ws.plan, d) <= ws.sent, ws.sent <= Len(FrameBytes(ws.plan)),
           ws.recv = h \o Coming(ws.plan, d, ws.sent), NEW at, at = Len(h)
    PROVE  LET f == ws.plan[d + 1]
           IN  /\ WholeAt(at) <=> d < Len(ws.plan) /\ Off(ws.plan, d + 1) <= ws.sent
               /\ Len(ws.recv) > at => d < Len(ws.plan) /\ d + 1 \in 1..Len(ws.plan) /\ ws.recv[at + 1] = Flags(f.fin, f.op)
               /\ Len(ws.recv) > at + 1 => ws.recv[at + 2] = Length(f.ext, f.n)
               /\ WholeAt(at) =>
                    /\ Len(ws.recv) > at
                    /\ SubSeq(ws.recv, at + FrameHeaderLen(at) + 1, at + FrameLen(at)) = FramePayload(ws.plan, d + 1)
                    /\ FrameRest(at + FrameLen(at) + 1) = Coming(ws.plan, d + 1, ws.sent)
<1> DEFINE p == ws.plan
           c == Coming(p, d, ws.sent)
           e == p[d + 1].ext
           n == p[d + 1].n
           b == ws.recv
<1>1. p \in WsPlans /\ ws.sent \in Nat /\ b = h \o c
  BY DEF WsSet
<1>2. /\ c \in Seq(WsBytes) /\ Len(c) = ws.sent - Off(p, d)
      /\ Len(c) > 0 => d < Len(p) /\ d + 1 \in 1..Len(p) /\ c[1] = Flags(p[d + 1].fin, p[d + 1].op)
      /\ Len(c) > 1 => c[2] = Length(e, n)
      /\ d < Len(p) => Off(p, d + 1) = Off(p, d) + (2 + e + n)
      /\ d < Len(p) /\ Off(p, d + 1) <= ws.sent =>
           /\ SubSeq(c, (2 + e) + 1, 2 + e + n) = FramePayload(p, d + 1)
           /\ SubSeq(c, (2 + e + n) + 1, Len(c)) = Coming(p, d + 1, ws.sent)
  <2> HIDE DEF p
  <2>1. Off(p, d) <= ws.sent /\ ws.sent <= Len(FrameBytes(p)) /\ d \in 0..Len(p)
    BY DEF p
  <2> QED  BY <1>1, <2>1, ComingIs
<1>3. d < Len(p) => e \in Nat /\ n \in Nat
  <2>1. d < Len(p) => d + 1 \in 1..Len(p)
    <3>1. Len(p) \in Nat
      BY <1>1, PlanIs
    <3> HIDE DEF p
    <3> QED  BY <3>1
  <2> HIDE DEF p
  <2> QED  BY <1>1, <2>1, PlanIs
<1>4. Off(p, d) \in Nat /\ Len(p) \in Nat
  <2> HIDE DEF p
  <2>1. d \in 0..Len(p)
    BY DEF p
  <2> QED  BY <1>1, <2>1, OffIs
<1>5. /\ b \in Seq(WsBytes) /\ Len(b) = at + Len(c) /\ at \in Nat /\ Len(c) \in Nat
      /\ \A k \in 1..Len(c) : b[at + k] = c[k]
  <2>1. c \in Seq(WsBytes) /\ b = h \o c
    BY <1>1, <1>2
  <2> HIDE DEF c, b
  <2>2. /\ h \o c \in Seq(WsBytes) /\ Len(h \o c) = Len(h) + Len(c) /\ Len(h) \in Nat /\ Len(c) \in Nat
        /\ \A k \in 1..Len(c) : (h \o c)[Len(h) + k] = c[k]
    BY <2>1
  <2> QED  BY <2>1, <2>2
<1>6. \A i, j \in Nat : i <= j /\ j <= Len(c) => SubSeq(b, (at + i) + 1, at + j) = SubSeq(c, i + 1, j)
  <2> SUFFICES ASSUME NEW i \in Nat, NEW j \in Nat, i <= j, j <= Len(c)
               PROVE  SubSeq(b, (at + i) + 1, at + j) = SubSeq(c, i + 1, j)
    OBVIOUS
  <2>1. c \in Seq(WsBytes) /\ b = h \o c
    BY <1>1, <1>2
  <2> HIDE DEF c, b
  <2>2. SubSeq(h \o c, (Len(h) + i) + 1, Len(h) + j) = SubSeq(c, i + 1, j)
    BY <2>1, PartBehind
  <2> QED  BY <2>1, <2>2
<1>7. Len(b) > at => d < Len(p) /\ d + 1 \in 1..Len(p) /\ b[at + 1] = Flags(p[d + 1].fin, p[d + 1].op)
  <2> HIDE DEF c, b, p
  <2> QED  BY <1>2, <1>5
<1>8. Len(b) > at + 1 => b[at + 2] = Length(e, n)
  <2> HIDE DEF c, b, p, e, n
  <2>1. Len(b) > at + 1 => 2 \in 1..Len(c)
    BY <1>5
  <2> QED  BY <2>1, <1>2, <1>5, SMTT(20)
<1>9. Len(b) > at + 1 => FrameHeaderLen(at) = 2 + e /\ FrameLen(at) = 2 + e + n
  <2> HIDE DEF c, p, e, n
  <2> QED  BY <1>8 DEF FrameHeaderLen, FrameLen, Length
<1>10. Len(b) > at => b[at + 1].kind = "flags"
  BY <1>7 DEF Flags
<1>13. /\ Len(c) = ws.sent - Off(p, d) /\ (d < Len(p) => Off(p, d + 1) = Off(p, d) + (2 + e + n))
       /\ ws.sent \in Nat /\ Off(p, d) \in Nat
  BY <1>1, <1>2, <1>4
<1>11. WholeAt(at) <=> d < Len(p) /\ Off(p, d + 1) <= ws.sent
  <2>1. WholeAt(at) <=> Len(b) >= at + 2 /\ b[at + 1].kind = "flags" /\ Len(b) >= at + FrameLen(at)
    BY DEF WholeAt
  <2>2. Len(b) >= at + 2 => Len(b) > at + 1 /\ Len(b) > at
    BY <1>5
  <2> HIDE DEF c, b, p, e, n
  <2>3. ASSUME WholeAt(at) PROVE d < Len(p) /\ Off(p, d + 1) <= ws.sent
    <3>1. d < Len(p) /\ FrameLen(at) = 2 + e + n /\ Len(b) >= at + FrameLen(at)
      BY <2>1, <2>2, <2>3, <1>7, <1>9
    <3>2. Len(b) = at + Len(c) /\ at \in Nat /\ Len(c) \in Nat /\ e \in Nat /\ n \in Nat
      BY <3>1, <1>3, <1>5
    <3>3. Len(b) >= at + (2 + e + n)
      BY <3>1
    <3>4. Len(c) >= 2 + e + n
      BY <3>2, <3>3
    <3> QED  BY <3>1, <3>2, <3>4, <1>13, SMTT(20)
  <2>4. ASSUME d < Len(p), Off(p, d + 1) <= ws.sent PROVE WholeAt(at)
    <3>1. Len(c) >= 2 + e + n
      BY <2>4, <1>13, <1>3, SMTT(20)
    <3>2. Len(b) >= at + 2 /\ Len(b) >= at + (2 + e + n)
      BY <3>1, <2>4, <1>3, <1>5, SMTT(20)
    <3> QED  BY <3>2, <2>1, <2>2, <1>9, <1>10
  <2> QED  BY <2>3, <2>4
<1>12. ASSUME WholeAt(at)
       PROVE  /\ Len(b) > at
              /\ SubSeq(b, at + FrameHeaderLen(at) + 1, at + FrameLen(at)) = FramePayload(p, d + 1)
              /\ FrameRest(at + FrameLen(at) + 1) = Coming(p, d + 1, ws.sent)
  <2>1. d < Len(p) /\ Off(p, d + 1) <= ws.sent
    BY <1>11, <1>12
  <2>2. FrameRest(at + FrameLen(at) + 1) = SubSeq(b, at + FrameLen(at) + 1, Len(b))
    BY DEF FrameRest
  <2> HIDE DEF c, b, p, e, n
  <2>3. Len(c) >= 2 + e + n /\ e \in Nat /\ n \in Nat
    BY <2>1, <1>13, <1>3, SMTT(20)
  <2>4. Len(b) > at + 1 /\ Len(b) > at
    BY <2>3, <1>5
  <2>5. FrameHeaderLen(at) = 2 + e /\ FrameLen(at) = 2 + e + n
    BY <2>4, <1>9
  <2>6. 2 + e \in Nat /\ 2 + e + n \in Nat /\ 2 + e <= 2 + e + n /\ 2 + e + n <= Len(c) /\ Len(c) <= Len(c)
    BY <2>3, <1>5
  <2>7. SubSeq(b, (at + (2 + e)) + 1, at + (2 + e + n)) = SubSeq(c, (2 + e) + 1, 2 + e + n)
    BY <2>6, <1>6
  <2>8. SubSeq(b, (at + (2 + e + n)) + 1, at + Len(c)) = SubSeq(c, (2 + e + n) + 1, Len(c))
    BY <2>6, <1>5, <1>6
  <2> QED  BY <2>1, <2>2, <2>4, <2>5, <2>7, <2>8, <1>2, <1>5
<1> QED  BY <1>7, <1>8, <1>11, <1>12

-----------------------------------------------------------------------------
\* Frame g is the first of the message that frame f belongs to.
Starts(p, f, g) == g \in 1..f /\ (g = 1 \/ p[g - 1].fin) /\ \A h \in g..f - 1 : ~p[h].fin

\* Each frame's message has one first frame.
LEMMA FirstIs ==
    ASSUME NEW p \in WsPlans, NEW f \in 1..Len(p)
    PROVE  Starts(p, f, FirstOf(p, f)) /\ \A g : Starts(p, f, g) => g = FirstOf(p, f)
<1>1. f \in Nat /\ f >= 1 /\ Len(p) \in Nat
  BY PlanIs
<1> DEFINE D == {k \in Nat : k < f /\ (f - k = 1 \/ p[(f - k) - 1].fin)}
<1>2. f - 1 \in D
  <2>1. f - 1 \in Nat /\ f - 1 < f /\ f - (f - 1) = 1
    BY <1>1
  <2> QED  BY <2>1
<1>3. PICK k \in D : \A j \in D : k <= j
  <2>1. D \subseteq Nat
    OBVIOUS
  <2> HIDE DEF D
  <2> QED  BY <1>2, <2>1, LeastIs
<1>4. k \in Nat /\ k < f /\ f - k \in 1..f /\ (f - k = 1 \/ p[(f - k) - 1].fin)
  BY <1>1, <1>3
<1>5. ASSUME NEW h \in f - k..f - 1, p[h].fin PROVE FALSE
  <2>1. h \in Int /\ f - h \in Nat /\ (f - h) - 1 \in Nat /\ (f - h) - 1 < k /\ (f - h) - 1 < f /\ f - ((f - h) - 1) = h + 1 /\ (h + 1) - 1 = h
    BY <1>1, <1>4
  <2>2. (f - h) - 1 \in D
    BY <2>1, <1>5
  <2>3. k <= (f - h) - 1
    BY <2>2, <1>3
  <2> QED  BY <2>1, <2>3, <1>4
<1> HIDE DEF D
<1>6. Starts(p, f, f - k)
  BY <1>4, <1>5 DEF Starts
<1>7. ASSUME NEW g, NEW g2, Starts(p, f, g), Starts(p, f, g2), g < g2 PROVE FALSE
  <2>1. g \in 1..f /\ g2 \in 1..f /\ g2 # 1 /\ g2 - 1 \in g..f - 1
    BY <1>1, <1>7 DEF Starts
  <2> QED  BY <2>1, <1>7 DEF Starts
<1>8. \A g, g2 : Starts(p, f, g) /\ Starts(p, f, g2) => g = g2
  <2> SUFFICES ASSUME NEW g, NEW g2, Starts(p, f, g), Starts(p, f, g2) PROVE g = g2
    OBVIOUS
  <2>1. g \in 1..f /\ g2 \in 1..f
    BY DEF Starts
  <2>2. ~(g < g2) /\ ~(g2 < g)
    BY <1>7
  <2> QED  BY <2>1, <2>2, <1>1
<1>9. Starts(p, f, FirstOf(p, f))
  <2>1. FirstOf(p, f) = CHOOSE g \in 1..f : (g = 1 \/ p[g - 1].fin) /\ \A h \in g..f - 1 : ~p[h].fin
    BY DEF FirstOf
  <2>2. \E g \in 1..f : (g = 1 \/ p[g - 1].fin) /\ \A h \in g..f - 1 : ~p[h].fin
    BY <1>6 DEF Starts
  <2> QED  BY <2>1, <2>2 DEF Starts
<1> QED  BY <1>8, <1>9

\* What a message has grows by the payload of each of its frames.
LEMMA GatheredIs ==
    ASSUME NEW p \in WsPlans, NEW f \in 1..Len(p)
    PROVE  /\ Gathered(p, f) \in Seq(WsBytes)
           /\ f = 1 \/ p[f - 1].fin => Gathered(p, f) = FramePayload(p, f)
           /\ f > 1 /\ ~p[f - 1].fin => f - 1 \in 1..Len(p) /\ Gathered(p, f) = Gathered(p, f - 1) \o FramePayload(p, f)
<1> DEFINE first == FirstOf(p, f)
           w == [i \in 1..Len(p) |-> FramePayload(p, first + i - 1)]
<1>1. f \in Nat /\ f >= 1 /\ Len(p) \in Nat /\ f <= Len(p)
  BY PlanIs
<1>2. Starts(p, f, first) /\ \A g : Starts(p, f, g) => g = first
  BY FirstIs
<1>3. first \in 1..f
  BY <1>2 DEF Starts
<1> HIDE DEF first
<1>4. \A i \in 1..f - first + 1 : i \in 1..Len(p) /\ first + i - 1 \in 1..Len(p)
  BY <1>1, <1>3
<1>5. \A i \in 1..f - first + 1 : w[i] = FramePayload(p, first + i - 1) /\ w[i] \in Seq(WsBytes)
  BY <1>4, FrameIs
<1> DEFINE n == f - first
<1>6. n \in Nat /\ n + 1 = f - first + 1 /\ n + 1 \in 1..f - first + 1 /\ first + (n + 1) - 1 = f /\ \A i \in 1..n : i \in 1..n + 1
  BY <1>1, <1>3
<1>7. Gathered(p, f) = FlattenSeq([i \in 1..n + 1 |-> w[i]])
  <2>1. Gathered(p, f) = FlattenSeq([i \in 1..f - first + 1 |-> FramePayload(p, first + i - 1)])
    BY DEF Gathered, first
  <2>2. [i \in 1..f - first + 1 |-> FramePayload(p, first + i - 1)] = [i \in 1..n + 1 |-> w[i]]
    BY <1>5, <1>6
  <2> QED  BY <2>1, <2>2
<1>8. /\ FlattenSeq([i \in 1..n + 1 |-> w[i]]) = FlattenSeq([i \in 1..n |-> w[i]]) \o w[n + 1]
      /\ FlattenSeq([i \in 1..n |-> w[i]]) \in Seq(WsBytes)
      /\ FlattenSeq([i \in 1..n + 1 |-> w[i]]) \in Seq(WsBytes)
  <2>1. \A i \in 1..n + 1 : w[i] \in Seq(WsBytes)
    BY <1>5, <1>6
  <2> HIDE DEF w, n
  <2> QED  BY <2>1, <1>6, FlattenMore
<1>9. w[n + 1] = FramePayload(p, f)
  BY <1>5, <1>6
<1>10. ASSUME f = 1 \/ p[f - 1].fin PROVE Gathered(p, f) = FramePayload(p, f)
  <2>1. Starts(p, f, f)
    BY <1>1, <1>10 DEF Starts
  <2>2. n = 0
    BY <2>1, <1>2, <1>1
  <2>3. FlattenSeq([i \in 1..n |-> w[i]]) = <<>>
    BY <2>2, FlatNone DEF Flat
  <2>4. FramePayload(p, f) \in Seq(WsBytes)
    BY FrameIs
  <2>5. <<>> \o FramePayload(p, f) = FramePayload(p, f)
    BY <2>4
  <2> HIDE DEF w, n
  <2> QED  BY <2>3, <2>5, <1>7, <1>8, <1>9
<1>11. ASSUME f > 1, ~p[f - 1].fin PROVE f - 1 \in 1..Len(p) /\ Gathered(p, f) = Gathered(p, f - 1) \o FramePayload(p, f)
  <2>1. f - 1 \in 1..Len(p) /\ f - 1 \in Nat
    BY <1>1, <1>11
  <2>2. first # f
    BY <1>11, <1>2, <1>1 DEF Starts
  <2>3. first \in 1..f - 1 /\ \A h \in first..(f - 1) - 1 : h \in first..f - 1
    BY <2>2, <1>1, <1>3
  <2>4. Starts(p, f - 1, first)
    BY <2>3, <1>2 DEF Starts
  <2>5. FirstOf(p, f - 1) = first
    BY <2>1, <2>4, FirstIs
  <2>6. Gathered(p, f - 1) = FlattenSeq([i \in 1..(f - 1) - first + 1 |-> FramePayload(p, first + i - 1)])
    BY <2>5 DEF Gathered
  <2>7. (f - 1) - first + 1 = n
    BY <1>1, <1>3
  <2>8. [i \in 1..n |-> FramePayload(p, first + i - 1)] = [i \in 1..n |-> w[i]]
    BY <1>5, <1>6
  <2>9. Gathered(p, f - 1) = FlattenSeq([i \in 1..n |-> w[i]])
    BY <2>6, <2>7, <2>8
  <2> HIDE DEF w, n
  <2> QED  BY <2>1, <2>9, <1>7, <1>8, <1>9
<1>12. Gathered(p, f) \in Seq(WsBytes)
  BY <1>7, <1>8
<1> QED  BY <1>10, <1>11, <1>12

\* The messages of a plan, frame by frame.
MsgsOf(p) == [f \in 1..Len(p) |-> MessageOf(p, f)]

\* The messages of a plan are those its frames end.
LEMMA MessagesAre ==
    ASSUME NEW p \in WsPlans
    PROVE  /\ Messages(p) = Flat(MsgsOf(p), Len(p)) /\ SeqsOf(WsEvents, Len(p), MsgsOf(p))
           /\ Flat(MsgsOf(p), 0) = <<>>
           /\ \A f \in 1..Len(p) : MsgsOf(p)[f] = MessageOf(p, f)
<1>1. Len(p) \in Nat /\ DOMAIN p = 1..Len(p)
  BY PlanIs
<1>2. \A f \in 1..Len(p) : MsgsOf(p)[f] = MessageOf(p, f)
  BY DEF MsgsOf
<1>3. [f \in DOMAIN p |-> MessageOf(p, f)] = [f \in 1..Len(p) |-> MsgsOf(p)[f]]
  BY <1>1, <1>2
<1>4. Messages(p) = Flat(MsgsOf(p), Len(p))
  BY <1>3 DEF Messages, Flat
<1>5. ASSUME NEW f \in 1..Len(p) PROVE MsgsOf(p)[f] \in Seq(WsEvents)
  <2> DEFINE e == [ev |-> IF IsControl(p[f].op) THEN "control" ELSE "frame", data |-> Gathered(p, f)]
  <2>1. e \in WsEvents
    BY GatheredIs DEF WsEvents
  <2>2. MessageOf(p, f) = IF p[f].fin THEN <<e>> ELSE <<>>
    BY DEF MessageOf
  <2> HIDE DEF e
  <2>3. <<e>> \in Seq(WsEvents) /\ <<>> \in Seq(WsEvents)
    BY <2>1
  <2> QED  BY <2>2, <2>3, <1>2
<1> QED  BY <1>2, <1>4, <1>5, FlatNone DEF SeqsOf

\* What one more frame adds to the messages.
LEMMA OneMore ==
    ASSUME NEW p \in WsPlans, NEW d \in Nat, d < Len(p)
    PROVE  /\ Flat(MsgsOf(p), d) \in Seq(WsEvents) /\ Flat(MsgsOf(p), d + 1) \in Seq(WsEvents)
           /\ Flat(MsgsOf(p), d + 1) = Flat(MsgsOf(p), d) \o MessageOf(p, d + 1)
<1>1. Len(p) \in Nat /\ d + 1 \in 1..Len(p)
  BY PlanIs
<1>2. PlacedAt(WsEvents, MsgsOf(p), Len(p), d)
  BY <1>1, MessagesAre, FlatAt
<1>3. MsgsOf(p)[d + 1] = MessageOf(p, d + 1)
  BY <1>1, MessagesAre
<1> QED  BY <1>2, <1>3 DEF PlacedAt

\* The messages up to a frame are the first of all.
LEMMA FirstMessages ==
    ASSUME NEW p \in WsPlans, NEW d \in 0..Len(p)
    PROVE  IsPrefix(Flat(MsgsOf(p), d), Messages(p))
<1>1. Len(p) \in Nat /\ d \in Nat
  BY PlanIs
<1> DEFINE s == Flat(MsgsOf(p), d)
           t == Messages(p)
<1>2. CASE d < Len(p)
  <2>1. PlacedAt(WsEvents, MsgsOf(p), Len(p), d)
    BY <1>1, <1>2, MessagesAre, FlatAt
  <2>2. /\ s \in Seq(WsEvents) /\ t \in Seq(WsEvents) /\ Len(s) \in Nat /\ Len(s) <= Len(t)
        /\ \A k \in 1..Len(s) : t[k] = s[k]
    BY <2>1, MessagesAre DEF PlacedAt
  <2> HIDE DEF s, t
  <2>3. SubSeq(t, 0 + 1, Len(s)) \in Seq(WsEvents) /\ Len(SubSeq(t, 0 + 1, Len(s))) = Len(s) - 0
        /\ \A n \in 1..Len(s) - 0 : SubSeq(t, 0 + 1, Len(s))[n] = t[0 + n]
    BY <2>2, PartFrom
  <2>4. SubSeq(s, 1, Len(s)) = s
    BY <2>2
  <2>5. SubSeq(t, 1, Len(s)) = s
    <3> DEFINE u == SubSeq(t, 1, Len(s))
    <3>1. u \in Seq(WsEvents) /\ Len(u) = Len(s) /\ \A n \in 1..Len(s) : u[n] = s[n]
      BY <2>2, <2>3
    <3> HIDE DEF u
    <3>2. \A a \in Seq(WsEvents), b \in Seq(WsEvents) : Len(a) = Len(b) /\ (\A k \in 1..Len(a) : a[k] = b[k]) => a = b
      BY SeqEqual
    <3> QED  BY <3>1, <3>2, <2>2 DEF u
  <2>6. IsPrefix(s, t)
    BY <2>2, <2>4, <2>5 DEF IsPrefix
  <2> QED  BY <2>6 DEF s, t
<1>3. CASE d = Len(p)
  <2>1. s = t
    BY <1>3, MessagesAre
  <2>2. t \in Seq(WsEvents)
    <3> DEFINE ss == [f \in 1..Len(p) |-> MsgsOf(p)[f]]
    <3>1. ss \in [1..Len(p) -> Seq(WsEvents)]
      BY MessagesAre DEF SeqsOf
    <3> HIDE DEF ss
    <3>2. ss \in Seq(Seq(WsEvents))
      BY <3>1, <1>1
    <3>3. FlattenSeq(ss) \in Seq(WsEvents)
      BY <3>2, FlattenType
    <3> QED  BY <3>3, MessagesAre DEF ss, Flat
  <2>3. Len(t) <= Len(t)
    BY <2>2
  <2> HIDE DEF s, t
  <2>4. IsPrefix(t, t)
    BY <2>3 DEF IsPrefix
  <2> QED  BY <2>1, <2>4 DEF s, t
<1> QED  BY <1>1, <1>2, <1>3

\* What the handler was told of frames, after one more event.
IsMessage(e) == e.ev \in {"frame", "control"}

\* What the handler was told of frames grows by an event that is one.
LEMMA TellsMore ==
    ASSUME NEW got \in Seq(WsEvents), NEW e \in WsEvents
    PROVE  /\ FramesIn(got) \in Seq(WsEvents)
           /\ FramesIn(Append(got, e)) = FramesIn(got) \o (IF IsMessage(e) THEN <<e>> ELSE <<>>)
<1> DEFINE more == Append(got, e)
           n == Len(got)
           w == [k \in 1..n + 1 |-> IF more[k].ev \in {"frame", "control"} THEN <<more[k]>> ELSE <<>>]
<1>1. /\ more \in Seq(WsEvents) /\ n \in Nat /\ DOMAIN got = 1..n /\ DOMAIN more = 1..n + 1
      /\ more[n + 1] = e /\ \A k \in 1..n : more[k] = got[k]
  BY AppendProperties
<1> HIDE DEF more, n
<1>2. ASSUME NEW k \in 1..n + 1 PROVE w[k] \in Seq(WsEvents)
  <2>1. more[k] \in WsEvents
    BY <1>1
  <2> DEFINE x == more[k]
  <2>2. w[k] \in {<<x>>, <<>>}
    OBVIOUS
  <2> HIDE DEF x, w
  <2>3. <<x>> \in Seq(WsEvents) /\ <<>> \in Seq(WsEvents)
    BY <2>1 DEF x
  <2> QED  BY <2>2, <2>3
<1>3. FramesIn(more) = FlattenSeq([k \in 1..n + 1 |-> w[k]])
  <2>1. [k \in DOMAIN more |-> IF more[k].ev \in {"frame", "control"} THEN <<more[k]>> ELSE <<>>] = [k \in 1..n + 1 |-> w[k]]
    BY <1>1
  <2> QED  BY <2>1 DEF FramesIn
<1>4. FramesIn(got) = FlattenSeq([k \in 1..n |-> w[k]])
  <2>1. \A k \in 1..n : k \in 1..n + 1 /\ more[k] = got[k]
    BY <1>1
  <2>2. [k \in DOMAIN got |-> IF got[k].ev \in {"frame", "control"} THEN <<got[k]>> ELSE <<>>] = [k \in 1..n |-> w[k]]
    BY <1>1, <2>1
  <2> QED  BY <2>2 DEF FramesIn
<1>5. w[n + 1] = IF IsMessage(e) THEN <<e>> ELSE <<>>
  BY <1>1 DEF IsMessage
<1> HIDE DEF w
<1>6. /\ FlattenSeq([k \in 1..n + 1 |-> w[k]]) = FlattenSeq([k \in 1..n |-> w[k]]) \o w[n + 1]
      /\ FlattenSeq([k \in 1..n |-> w[k]]) \in Seq(WsEvents)
  BY <1>1, <1>2, FlattenMore
<1> QED  BY <1>3, <1>4, <1>5, <1>6 DEF more


-----------------------------------------------------------------------------
(* What is held while frames come in: d frames of the plan are dealt with.  *)

\* Nothing is put together, or x is, under the flags of the first fragment without its opcode.
Plain(w, d) == w.recv = Coming(w.plan, d, w.sent) /\ w.reass = 0
Merged(w, d, x) == /\ w.defrag /\ w.reass = Len(x)
                   /\ w.recv = (<<Flags(FALSE, 0)>> \o x) \o Coming(w.plan, d, w.sent)

Buffered(w, d) ==
    /\ Plain(w, d) \/ \E x \in Seq(WsBytes) : Merged(w, d, x)
    /\ ~w.defrag => Plain(w, d)
    /\ w.defrag /\ ~Interrupted(w.plan) =>
           IF d = 0 \/ w.plan[d].fin THEN Plain(w, d) ELSE Merged(w, d, Gathered(w.plan, d))

\* The handler was told of d frames, or of the messages they end.
ToldSoFar(w, d) ==
    /\ ~w.defrag => /\ Len(FramesIn(w.got)) = d
                    /\ \A k \in 1..d : FramesIn(w.got)[k].data = FramePayload(w.plan, k)
    /\ w.defrag /\ ~Interrupted(w.plan) => FramesIn(w.got) = Flat(MsgsOf(w.plan), d)
    /\ (\A f \in 1..Len(w.plan) : w.plan[f].fin) =>
           /\ Len(FramesIn(w.got)) = d
           /\ d > 0 /\ d = Len(w.plan) /\ w.plan[d].op = 8 => "SAC" \in w.flags

\* Frames come after the handshake.
AsAsked(w, d) ==
    /\ ~w.upgraded => d = 0 /\ w.got = <<>> /\ ~w.run
    /\ w.upgraded => w.got # <<>>
    /\ \A k \in 1..Len(w.got) : w.got[k].ev = "done" => \A j \in 1..k - 1 : w.got[j].ev = "request"

\* No frame that has come is left lying.
Waits(w, d) ==
    ~w.defrag \/ ~Interrupted(w.plan) =>
        /\ ~w.lost
        /\ ~w.run /\ w.upgraded /\ w.got[Len(w.got)].ev # "request" => d = Len(w.plan) \/ w.sent < Off(w.plan, d + 1)

WsAt(w, d) == /\ Off(w.plan, d) <= w.sent /\ w.sent <= Len(FrameBytes(w.plan))
              /\ Buffered(w, d) /\ ToldSoFar(w, d) /\ AsAsked(w, d) /\ Waits(w, d)

WsInv == ws \in WsSet /\ \E d \in 0..Len(ws.plan) : WsAt(ws, d)

\* A value of the connection by its fields.
LEMMA WsFields ==
    ASSUME NEW w \in WsSet
    PROVE  /\ w.plan \in WsPlans /\ w.server \in BOOLEAN /\ w.defrag \in BOOLEAN /\ w.upgraded \in BOOLEAN
           /\ w.alive \in BOOLEAN /\ w.sent \in Nat /\ w.recv \in Seq(WsBytes) /\ w.reass \in Nat /\ w.run \in BOOLEAN
           /\ w.flags \in SUBSET {"SAC", "CI"} /\ w.got \in Seq(WsEvents) /\ w.out \in Seq({"own", "101", "ping"})
           /\ w.idle \in 0..WsIdle + 1 /\ w.lost \in BOOLEAN
BY DEF WsSet

\* What a step outside mg_deliver_websocket_data leaves alone.
Untouched(u, w) == /\ u.plan = w.plan /\ u.defrag = w.defrag /\ u.sent = w.sent /\ u.recv = w.recv /\ u.reass = w.reass

\* What is held stays what it was when a step leaves it alone.
LEMMA StaysBuffered ==
    ASSUME NEW u, NEW w, Untouched(u, w), NEW d, Buffered(w, d)
    PROVE  Buffered(u, d)
<1>1. \A e : Plain(u, e) <=> Plain(w, e)
  BY DEF Untouched, Plain
<1>2. \A e, x : Merged(u, e, x) <=> Merged(w, e, x)
  BY DEF Untouched, Merged
<1> QED  BY <1>1, <1>2 DEF Untouched, Buffered

\* So does what the handler was told of frames.
LEMMA StaysTold ==
    ASSUME NEW u, NEW w, Untouched(u, w), u.flags = w.flags, FramesIn(u.got) = FramesIn(w.got), NEW d, ToldSoFar(w, d)
    PROVE  ToldSoFar(u, d)
BY DEF Untouched, ToldSoFar

\* Seconds, pings and the end of the connection change nothing of it.
LEMMA WsTicks ==
    ASSUME WsInv, Second \/ WsPing \/ WsClose
    PROVE  WsInv'
<1>0. ws \in WsSet /\ WsIdle \in Nat
  BY WsConstants DEF WsInv
<1>1. PICK d \in 0..Len(ws.plan) : WsAt(ws, d)
  BY DEF WsInv
<1>2. /\ Untouched(ws', ws) /\ ws'.flags = ws.flags /\ ws'.got = ws.got /\ ws'.upgraded = ws.upgraded
      /\ ws'.run = ws.run /\ ws'.lost = ws.lost /\ ws' \in WsSet
  <2>1. CASE Second
    <3>1. ws' = [ws EXCEPT !.idle = ws.idle + 1] /\ ws.idle + 1 \in 0..WsIdle + 1
      BY <2>1, <1>0, WsFields DEF Second
    <3> QED  BY <3>1, <1>0 DEF WsSet, Untouched
  <2>2. CASE WsPing
    <3>1. ws' = [ws EXCEPT !.out = Append(ws.out, "ping"), !.idle = 0] /\ 0 \in 0..WsIdle + 1
      BY <2>2, <1>0 DEF WsPing
    <3>2. Append(ws.out, "ping") \in Seq({"own", "101", "ping"})
      BY <1>0, WsFields, AppendProperties
    <3> QED  BY <3>1, <3>2, <1>0 DEF WsSet, Untouched
  <2>3. CASE WsClose
    <3>1. ws' = [ws EXCEPT !.alive = FALSE]
      BY <2>3 DEF WsClose
    <3> QED  BY <3>1, <1>0 DEF WsSet, Untouched
  <2> QED  BY <2>1, <2>2, <2>3
<1>3. Buffered(ws', d) /\ ToldSoFar(ws', d)
  BY <1>1, <1>2, StaysBuffered, StaysTold DEF WsAt
<1>4. AsAsked(ws', d) /\ Waits(ws', d) /\ Off(ws'.plan, d) <= ws'.sent /\ ws'.sent <= Len(FrameBytes(ws'.plan))
  BY <1>1, <1>2 DEF WsAt, AsAsked, Waits, Untouched
<1>5. d \in 0..Len(ws'.plan)
  BY <1>2 DEF Untouched
<1> QED  BY <1>2, <1>3, <1>4, <1>5 DEF WsInv, WsAt

\* A handler that was told of nothing was told of no frame.
LEMMA NoFrames == FramesIn(<<>>) = <<>>
<1> DEFINE w == [k \in 1..0 |-> IF <<>>[k].ev \in {"frame", "control"} THEN <<<<>>[k]>> ELSE <<>>]
<1>1. [k \in DOMAIN <<>> |-> IF <<>>[k].ev \in {"frame", "control"} THEN <<<<>>[k]>> ELSE <<>>] = [k \in 1..0 |-> w[k]]
  OBVIOUS
<1>2. Flat(w, 0) = <<>>
  BY FlatNone
<1> QED  BY <1>1, <1>2 DEF FramesIn, Flat

\* Nothing has come.
LEMMA WsStarts == WsInit => WsInv
<1> SUFFICES ASSUME WsInit PROVE WsInv
  OBVIOUS
<1>1. PICK p \in WsPlans, server \in BOOLEAN, b \in BOOLEAN :
        ws = [plan |-> p, server |-> server, defrag |-> b, upgraded |-> FALSE, alive |-> TRUE,
              sent |-> 0, recv |-> <<>>, reass |-> 0, run |-> FALSE, flags |-> {},
              got |-> <<>>, out |-> <<>>, idle |-> 0, lost |-> FALSE]
  BY DEF WsInit
<1>2. ws \in WsSet
  <2>1. <<>> \in Seq(WsBytes) /\ <<>> \in Seq(WsEvents) /\ <<>> \in Seq({"own", "101", "ping"}) /\ 0 \in 0..WsIdle + 1
    BY WsConstants
  <2> QED  BY <1>1, <2>1 DEF WsSet
<1>3. /\ ws.plan = p /\ ws.sent = 0 /\ ws.recv = <<>> /\ ws.reass = 0 /\ ws.run = FALSE /\ ws.got = <<>> /\ ws.upgraded = FALSE
      /\ ws.lost = FALSE
  BY <1>1
<1>4. /\ Off(p, 0) = 0 /\ Len(p) \in Nat /\ Len(FrameBytes(p)) \in Nat /\ FrameBytes(p) \in Seq(WsBytes)
  BY BytesAre, PlanIs
<1>5. Coming(p, 0, 0) = <<>>
  BY <1>4, NoPart DEF Coming
<1>6. Buffered(ws, 0)
  BY <1>3, <1>5 DEF Buffered, Plain
<1>7. ToldSoFar(ws, 0)
  <2>1. FramesIn(ws.got) = <<>>
    BY <1>3, NoFrames
  <2>2. Flat(MsgsOf(ws.plan), 0) = <<>>
    BY FlatNone
  <2> QED  BY <2>1, <2>2 DEF ToldSoFar
<1>8. AsAsked(ws, 0) /\ Waits(ws, 0)
  BY <1>3 DEF AsAsked, Waits
<1>9. 0 \in 0..Len(ws.plan) /\ Off(ws.plan, 0) <= ws.sent /\ ws.sent <= Len(FrameBytes(ws.plan))
  BY <1>3, <1>4
<1> QED  BY <1>2, <1>6, <1>7, <1>8, <1>9 DEF WsInv, WsAt

\* Short sequences of the values at hand.
LEMMA ShortSeqs ==
    ASSUME NEW S, NEW q \in S, NEW f \in S
    PROVE  /\ Append(<<>>, q) = <<q>> /\ Append(<<q>>, f) = <<q, f>> /\ <<>> \in Seq(S)
           /\ <<q>> \in Seq(S) /\ Len(<<q>>) = 1 /\ <<q>>[1] = q
           /\ <<q, f>> \in Seq(S) /\ Len(<<q, f>>) = 2 /\ <<q, f>>[1] = q /\ <<q, f>>[2] = f
<1>1. Append(<<>>, q) = <<q>> /\ <<>> \in Seq(S)
  OBVIOUS
<1>3. <<q>> \in Seq(S) /\ Len(<<q>>) = 1 /\ <<q>>[1] = q
  OBVIOUS
<1>4. <<q, f>> \in Seq(S)
  OBVIOUS
<1>5. Len(<<q, f>>) = 2 /\ <<q, f>>[1] = q /\ <<q, f>>[2] = f
  OBVIOUS
<1>2. Append(<<q>>, f) = <<q, f>>
  <2> DEFINE s == <<q>>
             t == <<q, f>>
  <2>1. s \in Seq(S) /\ Len(s) = 1 /\ s[1] = q /\ t \in Seq(S) /\ Len(t) = 2 /\ t[1] = q /\ t[2] = f
    BY <1>3, <1>4, <1>5
  <2> HIDE DEF s, t
  <2>2. Append(s, f) \in Seq(S) /\ Len(Append(s, f)) = 2 /\ Append(s, f)[1] = q /\ Append(s, f)[2] = f
    <3>3. f \in S
      OBVIOUS
    <3>4. \A g \in Seq(S), e \in S : /\ Append(g, e) \in Seq(S) /\ Len(Append(g, e)) = Len(g) + 1
                                     /\ Append(g, e)[Len(g) + 1] = e /\ \A k \in 1..Len(g) : Append(g, e)[k] = g[k]
      BY AppendProperties
    <3>1. Append(s, f) \in Seq(S) /\ Len(Append(s, f)) = Len(s) + 1 /\ Append(s, f)[Len(s) + 1] = f
          /\ \A k \in 1..Len(s) : Append(s, f)[k] = s[k]
      BY <2>1, <3>3, <3>4
    <3>2. 1 \in 1..Len(s)
      BY <2>1
    <3> QED  BY <2>1, <3>1, <3>2
  <2> DEFINE u == Append(s, f)
  <2> HIDE DEF u
  <2>3. u \in Seq(S) /\ Len(u) = 2 /\ u[1] = q /\ u[2] = f
    BY <2>2 DEF u
  <2>4. \A k \in 1..Len(u) : u[k] = t[k]
    BY <2>1, <2>3
  <2>5. \A a \in Seq(S), b \in Seq(S) : Len(a) = Len(b) /\ (\A k \in 1..Len(a) : a[k] = b[k]) => a = b
    BY SeqEqual
  <2>6. u = t
    BY <2>1, <2>3, <2>4, <2>5
  <2> QED  BY <2>6 DEF s, t, u
<1> QED  BY <1>1, <1>2, <1>3, <1>4, <1>5

\* Flags are bytes of the connection.
LEMMA FlagBytes ==
    ASSUME NEW fin \in BOOLEAN, NEW op \in Nat
    PROVE  Flags(fin, op) \in WsBytes
<1>1. Flags(fin, op) \in {Flags(fin2, op2) : fin2 \in BOOLEAN, op2 \in Nat}
  OBVIOUS
<1> QED  BY <1>1 DEF WsBytes

\* The handshake tells of the request and, where it is accepted, of its end.
LEMMA WsShakes ==
    ASSUME WsInv, Upgrade \/ Accepted
    PROVE  WsInv'
<1> DEFINE q == [ev |-> "request", data |-> <<>>]
           f == [ev |-> "done", data |-> <<>>]
<1>0. ws \in WsSet /\ ~ws.upgraded
  BY DEF WsInv, Upgrade, Accepted
<1>1. PICK d \in 0..Len(ws.plan) : WsAt(ws, d)
  BY DEF WsInv
<1>2. d = 0 /\ ws.got = <<>> /\ ~ws.run
  BY <1>0, <1>1 DEF WsAt, AsAsked
<1>3. /\ ws' \in WsSet /\ Untouched(ws', ws) /\ ws'.upgraded /\ ws'.lost = ws.lost
      /\ \/ ws'.got = <<q>>
         \/ ws'.run /\ ws'.got \in {<<f>>, <<q, f>>}
  <2>1. q \in WsEvents /\ f \in WsEvents
    <3>1. <<>> \in Seq(WsBytes)
      OBVIOUS
    <3> QED  BY <3>1 DEF WsEvents
  <2>2. /\ Append(<<>>, q) = <<q>> /\ Append(<<>>, f) = <<f>> /\ Append(<<q>>, f) = <<q, f>>
        /\ <<q>> \in Seq(WsEvents) /\ <<f>> \in Seq(WsEvents) /\ <<q, f>> \in Seq(WsEvents)
    <3> HIDE DEF q, f
    <3> QED  BY <2>1, ShortSeqs
  <2>3. CASE Upgrade
    <3> DEFINE w == WsTold([ws EXCEPT !.upgraded = TRUE], "request", <<>>)
    <3>1. w \in WsSet /\ Untouched(w, ws) /\ w.upgraded = TRUE /\ w.lost = ws.lost /\ w.got = <<q>>
      <4>1. w = [[ws EXCEPT !.upgraded = TRUE] EXCEPT !.got = Append(ws.got, q)]
        BY <1>0 DEF WsTold, WsSet
      <4>2. Append(ws.got, q) = <<q>>
        BY <1>2, <2>2
      <4> HIDE DEF q, f, w
      <4> QED  BY <4>1, <4>2, <2>2, <1>0 DEF WsSet, Untouched
    <3>2. \/ \E x \in {"SAC", "CI"} : ws' = [w EXCEPT !.flags = {x}]
          \/ \E own \in BOOLEAN :
               ws' = WsTold([w EXCEPT !.out = IF own THEN <<"own">> ELSE <<"101">>, !.run = TRUE], "done", <<>>)
      BY <2>3 DEF Upgrade
    <3> HIDE DEF w
    <3>3. ASSUME NEW x \in {"SAC", "CI"}, ws' = [w EXCEPT !.flags = {x}]
          PROVE  ws' \in WsSet /\ Untouched(ws', w) /\ ws'.upgraded /\ ws'.lost = w.lost /\ ws'.got = <<q>>
      <4>1. {x} \in SUBSET {"SAC", "CI"}
        OBVIOUS
      <4> DEFINE y == {x}
      <4> HIDE DEF q, f, y
      <4>2. ws' = [w EXCEPT !.flags = y]
        BY <3>3 DEF y
      <4> QED  BY <3>1, <4>1, <4>2 DEF WsSet, Untouched, y
    <3>4. ASSUME NEW own \in BOOLEAN,
                 ws' = WsTold([w EXCEPT !.out = IF own THEN <<"own">> ELSE <<"101">>, !.run = TRUE], "done", <<>>)
          PROVE  ws' \in WsSet /\ Untouched(ws', w) /\ ws'.upgraded /\ ws'.lost = w.lost /\ ws'.run /\ ws'.got = <<q, f>>
      <4> DEFINE o == IF own THEN <<"own">> ELSE <<"101">>
      <4>1. o \in Seq({"own", "101", "ping"})
        <5>1. <<"own">> \in Seq({"own", "101", "ping"}) /\ <<"101">> \in Seq({"own", "101", "ping"})
          BY ShortSeqs
        <5> QED  BY <5>1
      <4> HIDE DEF o
      <4>2. ws' = [[w EXCEPT !.out = o, !.run = TRUE] EXCEPT !.got = Append(w.got, f)]
        BY <3>1, <3>4 DEF WsTold, WsSet, o
      <4>3. Append(w.got, f) = <<q, f>>
        BY <3>1, <2>2
      <4> HIDE DEF q, f
      <4> QED  BY <4>1, <4>2, <4>3, <3>1, <2>2 DEF WsSet, Untouched
    <3> HIDE DEF q, f
    <3>5. Untouched(w, ws) /\ (Untouched(ws', w) => Untouched(ws', ws))
      BY <3>1 DEF Untouched
    <3>6. CASE \E x \in {"SAC", "CI"} : ws' = [w EXCEPT !.flags = {x}]
      <4>1. ws' \in WsSet /\ Untouched(ws', w) /\ ws'.upgraded /\ ws'.lost = w.lost /\ ws'.got = <<q>>
        BY <3>3, <3>6, Zenon
      <4> QED  BY <3>1, <3>5, <4>1
    <3>7. CASE \E own \in BOOLEAN :
                 ws' = WsTold([w EXCEPT !.out = IF own THEN <<"own">> ELSE <<"101">>, !.run = TRUE], "done", <<>>)
      BY <3>1, <3>4, <3>5, <3>7
    <3> QED  BY <3>2, <3>6, <3>7
  <2>4. CASE Accepted
    <3>1. ws' = [[ws EXCEPT !.upgraded = TRUE, !.run = TRUE] EXCEPT !.got = Append(ws.got, f)]
      BY <1>0, <2>4 DEF Accepted, WsTold, WsSet
    <3>2. Append(ws.got, f) = <<f>>
      BY <1>2, <2>2
    <3> HIDE DEF q, f
    <3> QED  BY <3>1, <3>2, <1>0, <2>2 DEF WsSet, Untouched
  <2> QED  BY <2>3, <2>4
<1>4. q \in WsEvents /\ f \in WsEvents /\ ~IsMessage(q) /\ ~IsMessage(f) /\ q.ev = "request" /\ f.ev = "done"
  <2>1. <<>> \in Seq(WsBytes)
    OBVIOUS
  <2> QED  BY <2>1 DEF WsEvents, IsMessage
<1> HIDE DEF q, f
<1>5. FramesIn(ws'.got) = FramesIn(ws.got)
  <2>1. <<>> \in Seq(WsEvents) /\ <<q>> \in Seq(WsEvents) /\ <<q>> = Append(<<>>, q) /\ <<f>> = Append(<<>>, f)
        /\ <<q, f>> = Append(<<q>>, f)
    BY <1>4
  <2>2. \A s \in Seq(WsEvents), e \in WsEvents : ~IsMessage(e) /\ FramesIn(s) = <<>> => FramesIn(Append(s, e)) = <<>>
    <3> SUFFICES ASSUME NEW s \in Seq(WsEvents), NEW e \in WsEvents, ~IsMessage(e), FramesIn(s) = <<>>
                 PROVE  FramesIn(Append(s, e)) = <<>>
      OBVIOUS
    <3>1. FramesIn(Append(s, e)) = FramesIn(s) \o <<>>
      BY TellsMore
    <3> QED  BY <3>1
  <2>3. FramesIn(<<>>) = <<>>
    BY NoFrames
  <2>4. FramesIn(<<q>>) = <<>> /\ FramesIn(<<f>>) = <<>>
    BY <2>1, <2>2, <2>3, <1>4
  <2>5. FramesIn(<<q, f>>) = <<>>
    BY <2>1, <2>2, <2>4, <1>4
  <2> QED  BY <2>3, <2>4, <2>5, <1>2, <1>3
<1>6. Buffered(ws', d)
  BY <1>1, <1>3, StaysBuffered DEF WsAt
<1>7. ToldSoFar(ws', d)
  BY <1>1, <1>2, <1>3, <1>5 DEF WsAt, ToldSoFar, Untouched
<1>8. AsAsked(ws', d)
  <2>1. ws'.got \in {<<q>>, <<f>>, <<q, f>>}
    BY <1>3
  <2>2. \A g \in {<<q>>, <<f>>, <<q, f>>} : \A k \in 1..Len(g) : g[k].ev = "done" => \A j \in 1..k - 1 : g[j].ev = "request"
    <3>1. \A k \in 1..Len(<<q>>) : <<q>>[k].ev = "done" => \A j \in 1..k - 1 : <<q>>[j].ev = "request"
      BY <1>4, ShortSeqs
    <3>2. \A k \in 1..Len(<<f>>) : <<f>>[k].ev = "done" => \A j \in 1..k - 1 : <<f>>[j].ev = "request"
      BY <1>4, ShortSeqs
    <3>3. \A k \in 1..Len(<<q, f>>) : <<q, f>>[k].ev = "done" => \A j \in 1..k - 1 : <<q, f>>[j].ev = "request"
      BY <1>4, ShortSeqs
    <3> QED  BY <3>1, <3>2, <3>3
  <2>3. ws'.got # <<>>
    BY <2>1
  <2> QED  BY <2>1, <2>2, <2>3, <1>3 DEF AsAsked
<1>9. Waits(ws', d)
  <2>1. ws'.run \/ ws'.got[Len(ws'.got)].ev = "request"
    <3>1. <<q>>[Len(<<q>>)].ev = "request"
      BY <1>4, ShortSeqs
    <3> QED  BY <3>1, <1>3
  <2> QED  BY <2>1, <1>1, <1>3 DEF WsAt, Waits, Untouched
<1>10. d \in 0..Len(ws'.plan) /\ Off(ws'.plan, d) <= ws'.sent /\ ws'.sent <= Len(FrameBytes(ws'.plan))
  BY <1>1, <1>3 DEF WsAt, Untouched
<1> QED  BY <1>3, <1>6, <1>7, <1>8, <1>9, <1>10 DEF WsInv, WsAt

\* What comes more is behind what has come.
LEMMA WsGets ==
    ASSUME WsInv, WsReceive
    PROVE  WsInv'
<1> DEFINE p == ws.plan
           all == FrameBytes(p)
<1>0. ws \in WsSet /\ p \in WsPlans /\ ws.sent \in Nat /\ ws.recv \in Seq(WsBytes) /\ ws.upgraded \in BOOLEAN
  BY WsFields DEF WsInv
<1>1. PICK d \in 0..Len(p) : WsAt(ws, d)
  BY DEF WsInv
<1>2. PICK n \in 1..Len(all) - ws.sent :
        ws' = [ws EXCEPT !.recv = ws.recv \o SubSeq(all, ws.sent + 1, ws.sent + n), !.sent = ws.sent + n,
                         !.run = ws.upgraded, !.idle = 0]
  BY DEF WsReceive
<1>3. all \in Seq(WsBytes) /\ Len(all) \in Nat /\ Off(p, d) \in Nat /\ Len(p) \in Nat
  <2> HIDE DEF p
  <2> QED  BY <1>0, BytesAre, OffIs DEF all
<1> DEFINE new == SubSeq(all, ws.sent + 1, ws.sent + n)
           m == ws.sent + n
           buf == ws.recv \o new
<1>4. Off(p, d) <= ws.sent /\ ws.sent <= m /\ m <= Len(all) /\ m \in Nat /\ n \in Nat
  BY <1>0, <1>1, <1>3 DEF WsAt
<1>5. new \in Seq(WsBytes)
  <2> HIDE DEF all, m
  <2> QED  BY <1>0, <1>3, <1>4, PartFrom DEF m
<1>6. buf \in Seq(WsBytes)
  <2> HIDE DEF new
  <2> QED  BY <1>0, <1>5
<1>7. /\ ws' \in WsSet /\ ws'.plan = ws.plan /\ ws'.defrag = ws.defrag /\ ws'.sent = m /\ ws'.recv = buf
      /\ ws'.reass = ws.reass /\ ws'.flags = ws.flags /\ ws'.got = ws.got /\ ws'.upgraded = ws.upgraded
      /\ ws'.run = ws.upgraded /\ ws'.lost = ws.lost
  <2>1. ws' = [ws EXCEPT !.recv = buf, !.sent = m, !.run = ws.upgraded, !.idle = 0] /\ 0 \in 0..WsIdle + 1
    BY <1>2, WsConstants
  <2> HIDE DEF buf, m
  <2> QED  BY <2>1, <1>0, <1>4, <1>6 DEF WsSet
<1>8. Coming(p, d, m) = Coming(p, d, ws.sent) \o new /\ Coming(p, d, ws.sent) \in Seq(WsBytes)
  <2>1. Coming(p, d, m) = SubSeq(all, Off(p, d) + 1, m) /\ Coming(p, d, ws.sent) = SubSeq(all, Off(p, d) + 1, ws.sent)
    BY DEF Coming
  <2> HIDE DEF all, p, m
  <2> DEFINE i == Off(p, d)
             j == ws.sent
  <2>4. i \in Nat /\ j \in Nat /\ m \in Nat /\ i <= j /\ j <= m /\ m <= Len(all) /\ all \in Seq(WsBytes)
    BY <1>0, <1>3, <1>4
  <2>2. SubSeq(all, i + 1, m) = SubSeq(all, i + 1, j) \o SubSeq(all, j + 1, m)
    <3> HIDE DEF i, j
    <3> QED  BY <2>4, SubSeqJoin
  <2>3. SubSeq(all, Off(p, d) + 1, ws.sent) \in Seq(WsBytes)
    BY <1>0, <1>3, <1>4, PartFrom
  <2> QED  BY <2>1, <2>2, <2>3 DEF m
<1> HIDE DEF new, buf, m
<1>9. Plain(ws, d) => Plain(ws', d)
  BY <1>7, <1>8 DEF Plain, buf
<1>10. \A x \in Seq(WsBytes) : Merged(ws, d, x) => Merged(ws', d, x)
  <2> SUFFICES ASSUME NEW x \in Seq(WsBytes), Merged(ws, d, x) PROVE Merged(ws', d, x)
    OBVIOUS
  <2> DEFINE h == <<Flags(FALSE, 0)>> \o x
             c == Coming(p, d, ws.sent)
  <2>1. h \in Seq(WsBytes)
    <3>1. Flags(FALSE, 0) \in WsBytes
      BY FlagBytes
    <3> DEFINE b == Flags(FALSE, 0)
    <3>4. b \in WsBytes
      BY <3>1
    <3> HIDE DEF b
    <3>2. <<b>> \in Seq(WsBytes)
      BY <3>4
    <3>3. <<b>> \o x \in Seq(WsBytes)
      BY <3>2
    <3> QED  BY <3>3 DEF b
  <2>2. ws.recv = h \o c
    BY DEF Merged
  <2> HIDE DEF h, c
  <2>3. (h \o c) \o new = h \o (c \o new)
    BY <2>1, <1>5, <1>8, SMTT(20) DEF c
  <2>4. ws'.recv = h \o Coming(p, d, m)
    BY <2>2, <2>3, <1>7, <1>8 DEF c, buf
  <2> QED  BY <2>4, <1>7 DEF Merged, h
<1>11. Buffered(ws', d)
  <2>1. Buffered(ws, d)
    BY <1>1 DEF WsAt
  <2>2. d = 0 \/ ws.plan[d].fin \/ Gathered(ws.plan, d) \in Seq(WsBytes)
    <3>1. d # 0 => d \in 1..Len(p)
      BY <1>3
    <3> QED  BY <3>1, <1>0, GatheredIs
  <2> QED  BY <2>1, <2>2, <1>7, <1>9, <1>10 DEF Buffered
<1>12. ToldSoFar(ws', d)
  BY <1>1, <1>7 DEF WsAt, ToldSoFar
<1>13. AsAsked(ws', d)
  BY <1>1, <1>7 DEF WsAt, AsAsked
<1>14. Waits(ws', d)
  BY <1>1, <1>7 DEF WsAt, Waits
<1>15. d \in 0..Len(ws'.plan) /\ Off(ws'.plan, d) <= ws'.sent /\ ws'.sent <= Len(FrameBytes(ws'.plan))
  <2> HIDE DEF p
  <2>1. ws'.plan = p
    BY <1>7 DEF p
  <2>2. Off(p, d) <= m
    BY <1>0, <1>3, <1>4
  <2> QED  BY <2>1, <2>2, <1>4, <1>7 DEF all
<1> QED  BY <1>7, <1>11, <1>12, <1>13, <1>14, <1>15 DEF WsInv, WsAt

-----------------------------------------------------------------------------
\* What is behind something.
LEMMA BehindIs ==
    ASSUME NEW S, NEW g \in Seq(S), NEW y \in Seq(S)
    PROVE  /\ g \o y \in Seq(S) /\ Len(g \o y) = Len(g) + Len(y) /\ Len(g) \in Nat /\ Len(y) \in Nat
           /\ \A k \in 1..Len(g) : (g \o y)[k] = g[k]
           /\ \A k \in 1..Len(y) : (g \o y)[Len(g) + k] = y[k]
<1>1. g \o y \in Seq(S) /\ Len(g \o y) = Len(g) + Len(y) /\ Len(g) \in Nat /\ Len(y) \in Nat
  OBVIOUS
<1>2. \A k \in 1..Len(g) : (g \o y)[k] = g[k]
  OBVIOUS
<1>3. \A k \in 1..Len(y) : (g \o y)[Len(g) + k] = y[k]
  OBVIOUS
<1> QED  BY <1>1, <1>2, <1>3

\* What is put together, behind its flags.
LEMMA Kept ==
    ASSUME NEW x \in Seq(WsBytes)
    PROVE  LET h == <<Flags(FALSE, 0)>> \o x
           IN  h \in Seq(WsBytes) /\ Len(h) = 1 + Len(x) /\ h[1] = Flags(FALSE, 0) /\ \A k \in 1..Len(x) : h[1 + k] = x[k]
<1> DEFINE b == Flags(FALSE, 0)
<1>1. b \in WsBytes
  BY FlagBytes
<1> HIDE DEF b
<1>2. <<b>> \in Seq(WsBytes) /\ Len(<<b>>) = 1 /\ <<b>>[1] = b
  BY <1>1
<1> DEFINE s == <<b>>
<1> HIDE DEF s
<1>3. s \in Seq(WsBytes) /\ Len(s) = 1 /\ s[1] = b
  BY <1>2 DEF s
<1>4. /\ s \o x \in Seq(WsBytes) /\ Len(s \o x) = Len(s) + Len(x)
      /\ \A k \in 1..Len(s) : (s \o x)[k] = s[k]
      /\ \A k \in 1..Len(x) : (s \o x)[Len(s) + k] = x[k]
  <2>1. \A g \in Seq(WsBytes), y \in Seq(WsBytes) :
            /\ g \o y \in Seq(WsBytes) /\ Len(g \o y) = Len(g) + Len(y)
            /\ \A k \in 1..Len(g) : (g \o y)[k] = g[k]
            /\ \A k \in 1..Len(y) : (g \o y)[Len(g) + k] = y[k]
    BY BehindIs
  <2> QED  BY <1>3, <2>1
<1>5. 1 \in 1..Len(s)
  BY <1>3
<1>6. s \o x \in Seq(WsBytes) /\ Len(s \o x) = 1 + Len(x) /\ (s \o x)[1] = b /\ \A k \in 1..Len(x) : (s \o x)[1 + k] = x[k]
  BY <1>3, <1>4, <1>5
<1> QED  BY <1>6 DEF s, b

\* What is found where nothing was put together.
LEMMA PlainFound ==
    ASSUME ws \in WsSet, NEW d \in 0..Len(ws.plan), WsAt(ws, d), Plain(ws, d)
    PROVE  LET f == ws.plan[d + 1]
           IN  /\ WholeAt(0) <=> d < Len(ws.plan) /\ Off(ws.plan, d + 1) <= ws.sent
               /\ Len(ws.recv) > 0 => d < Len(ws.plan) /\ d + 1 \in 1..Len(ws.plan) /\ ws.recv[1] = Flags(f.fin, f.op)
               /\ Len(ws.recv) > 1 => ws.recv[2] = Length(f.ext, f.n)
               /\ WholeAt(0) =>
                    /\ Len(ws.recv) > 0 /\ FrameHeaderLen(0) \in Nat /\ FrameLen(0) \in Nat
                    /\ SubSeq(ws.recv, FrameHeaderLen(0) + 1, FrameLen(0)) = FramePayload(ws.plan, d + 1)
                    /\ FrameRest(FrameLen(0) + 1) = Coming(ws.plan, d + 1, ws.sent)
<1> DEFINE p == ws.plan
           c == Coming(p, d, ws.sent)
           f == ws.plan[d + 1]
           h == <<>>
<1>1. p \in WsPlans /\ ws.sent \in Nat /\ Off(p, d) <= ws.sent /\ ws.sent <= Len(FrameBytes(p)) /\ ws.recv = c
  BY WsFields DEF WsAt, Plain
<1>2. c \in Seq(WsBytes)
  <2> HIDE DEF p
  <2>1. d \in 0..Len(p)
    BY DEF p
  <2> QED  BY <1>1, <2>1, ComingIs
<1>3. h \in Seq(WsBytes) /\ Len(h) = 0 /\ ws.recv = h \o Coming(ws.plan, d, ws.sent)
  BY <1>1, <1>2
<1>4. Off(ws.plan, d) <= ws.sent /\ ws.sent <= Len(FrameBytes(ws.plan))
  BY <1>1
<1> HIDE DEF h, p, c, f
<1>5. /\ WholeAt(0) <=> d < Len(ws.plan) /\ Off(ws.plan, d + 1) <= ws.sent
      /\ Len(ws.recv) > 0 => d < Len(ws.plan) /\ d + 1 \in 1..Len(ws.plan) /\ ws.recv[0 + 1] = Flags(ws.plan[d + 1].fin, ws.plan[d + 1].op)
      /\ Len(ws.recv) > 0 + 1 => ws.recv[0 + 2] = Length(ws.plan[d + 1].ext, ws.plan[d + 1].n)
      /\ WholeAt(0) =>
            /\ Len(ws.recv) > 0
            /\ SubSeq(ws.recv, 0 + FrameHeaderLen(0) + 1, 0 + FrameLen(0)) = FramePayload(ws.plan, d + 1)
            /\ FrameRest(0 + FrameLen(0) + 1) = Coming(ws.plan, d + 1, ws.sent)
  BY <1>3, <1>4, Found
<1>6. WholeAt(0) => FrameHeaderLen(0) \in Nat /\ FrameLen(0) \in Nat
  <2> SUFFICES ASSUME WholeAt(0) PROVE FrameHeaderLen(0) \in Nat /\ FrameLen(0) \in Nat
    OBVIOUS
  <2>1. d + 1 \in 1..Len(ws.plan) /\ ws.plan \in WsPlans
    BY <1>5, WsFields
  <2>2. ws.plan[d + 1].ext \in Nat /\ ws.plan[d + 1].n \in Nat
    BY <2>1, PlanIs
  <2>3. Len(ws.recv) > 1
    <3>1. ws.recv \in Seq(WsBytes)
      BY WsFields
    <3>2. Len(ws.recv) \in Nat
      BY <3>1
    <3> QED  BY <3>2 DEF WholeAt
  <2>4. ws.recv[0 + 2].ext = ws.plan[d + 1].ext /\ ws.recv[0 + 2].n = ws.plan[d + 1].n
    BY <2>3, <1>5 DEF Length
  <2>5. FrameHeaderLen(0) = 2 + ws.recv[0 + 2].ext /\ FrameLen(0) = FrameHeaderLen(0) + ws.recv[0 + 2].n
    BY DEF FrameHeaderLen, FrameLen
  <2>6. FrameHeaderLen(0) = 2 + ws.plan[d + 1].ext
    BY <2>4, <2>5, Zenon
  <2>7. FrameLen(0) = FrameHeaderLen(0) + ws.plan[d + 1].n
    BY <2>4, <2>5, Zenon
  <2>8. FrameHeaderLen(0) \in Nat
    BY <2>2, <2>6
  <2> QED  BY <2>2, <2>7, <2>8
<1>7. /\ WholeAt(0) <=> d < Len(ws.plan) /\ Off(ws.plan, d + 1) <= ws.sent
      /\ Len(ws.recv) > 0 => d < Len(ws.plan) /\ d + 1 \in 1..Len(ws.plan) /\ ws.recv[1] = Flags(ws.plan[d + 1].fin, ws.plan[d + 1].op)
      /\ Len(ws.recv) > 1 => ws.recv[2] = Length(ws.plan[d + 1].ext, ws.plan[d + 1].n)
  BY <1>5
<1>8. WholeAt(0) =>
          /\ Len(ws.recv) > 0
          /\ SubSeq(ws.recv, FrameHeaderLen(0) + 1, FrameLen(0)) = FramePayload(ws.plan, d + 1)
          /\ FrameRest(FrameLen(0) + 1) = Coming(ws.plan, d + 1, ws.sent)
  <2> SUFFICES ASSUME WholeAt(0)
      PROVE  /\ Len(ws.recv) > 0
             /\ SubSeq(ws.recv, FrameHeaderLen(0) + 1, FrameLen(0)) = FramePayload(ws.plan, d + 1)
             /\ FrameRest(FrameLen(0) + 1) = Coming(ws.plan, d + 1, ws.sent)
    OBVIOUS
  <2> DEFINE a == FrameHeaderLen(0)
             e == FrameLen(0)
  <2>1. a \in Nat /\ e \in Nat
    BY <1>6
  <2>2. /\ Len(ws.recv) > 0
        /\ SubSeq(ws.recv, 0 + a + 1, 0 + e) = FramePayload(ws.plan, d + 1)
        /\ FrameRest(0 + e + 1) = Coming(ws.plan, d + 1, ws.sent)
    BY <1>5
  <2> HIDE DEF a, e
  <2>3. 0 + a + 1 = a + 1 /\ 0 + e = e /\ 0 + e + 1 = e + 1
    BY <2>1
  <2>4. /\ Len(ws.recv) > 0
        /\ SubSeq(ws.recv, a + 1, e) = FramePayload(ws.plan, d + 1)
        /\ FrameRest(e + 1) = Coming(ws.plan, d + 1, ws.sent)
    BY <2>2, <2>3, Zenon
  <2> QED  BY <2>4 DEF a, e
<1> QED  BY <1>6, <1>7, <1>8, Zenon

\* Where the next frame is looked for when nothing was put together.
LEMMA PlainStart ==
    ASSUME ws \in WsSet, NEW d \in 0..Len(ws.plan), WsAt(ws, d), Plain(ws, d)
    PROVE  LET f == ws.plan[d + 1]
           IN  /\ ~Reassembling => Start = 0
               /\ Reassembling => /\ ws.defrag /\ d + 1 \in 1..Len(ws.plan) /\ (f.op = 0 \/ ~f.fin)
                                  /\ ws.recv[1] = Flags(f.fin, f.op)
               /\ Reassembling /\ f.op # 0 => Start = 0
               /\ Reassembling /\ f.op = 0 => Start = 1 /\ ~WholeAt(1)
<1> DEFINE f == ws.plan[d + 1]
<1>1. ws.recv \in Seq(WsBytes) /\ ws.reass = 0
  BY WsFields DEF Plain
<1>2. ws.recv # <<>> => Len(ws.recv) > 0 /\ Len(ws.recv) >= 1
  BY <1>1
<1>3. ~Reassembling => Start = 0
  BY DEF Start, Continues
<1>4. Reassembling => /\ ws.defrag /\ d + 1 \in 1..Len(ws.plan) /\ ws.recv[1] = Flags(f.fin, f.op) /\ Len(ws.recv) >= 1
  BY <1>2, PlainFound DEF Reassembling
<1>5. Reassembling => f.op = 0 \/ ~f.fin
  BY <1>4 DEF Reassembling, IsFragment, Flags
<1>6. Reassembling /\ f.op # 0 => Start = 0
  BY <1>4, <1>5 DEF Start, Continues, IsFirstFragment, Flags
<1>7. Reassembling /\ f.op = 0 => Start = 1
  BY <1>1, <1>4 DEF Start, Continues, IsFirstFragment, Flags
<1>8. ~WholeAt(1)
  <2> SUFFICES ASSUME WholeAt(1) PROVE FALSE
    OBVIOUS
  <2>1. Len(ws.recv) >= 1 + 2 /\ ws.recv[1 + 1].kind = "flags"
    BY DEF WholeAt
  <2>2. Len(ws.recv) > 1
    BY <1>1, <2>1
  <2>3. ws.recv[2].kind = "length"
    <3>1. ws.recv[2] = Length(ws.plan[d + 1].ext, ws.plan[d + 1].n)
      BY <2>2, PlainFound
    <3> QED  BY <3>1 DEF Length
  <2> QED  BY <2>1, <2>3
<1> QED  BY <1>3, <1>4, <1>5, <1>6, <1>7, <1>8

\* Where the next frame is looked for behind what was put together.
LEMMA MergedStart ==
    ASSUME ws \in WsSet, NEW d \in 0..Len(ws.plan), WsAt(ws, d), NEW x \in Seq(WsBytes), Merged(ws, d, x)
    PROVE  LET h == <<Flags(FALSE, 0)>> \o x
           IN  /\ Reassembling /\ ws.defrag /\ Start = Len(h) /\ Len(h) = 1 + Len(x) /\ Len(h) \in Nat /\ h \in Seq(WsBytes)
               /\ ws.recv = h \o Coming(ws.plan, d, ws.sent) /\ ws.recv[1] = Flags(FALSE, 0)
               /\ SubSeq(ws.recv, 2, 1 + ws.reass) = x
<1> DEFINE h == <<Flags(FALSE, 0)>> \o x
           c == Coming(ws.plan, d, ws.sent)
<1>1. ws.plan \in WsPlans /\ ws.recv = h \o c /\ ws.defrag /\ ws.reass = Len(x)
  BY WsFields DEF Merged
<1>2. h \in Seq(WsBytes) /\ Len(h) = 1 + Len(x) /\ h[1] = Flags(FALSE, 0) /\ Len(x) \in Nat /\ \A k \in 1..Len(x) : h[1 + k] = x[k]
  <2>1. h \in Seq(WsBytes) /\ Len(h) = 1 + Len(x) /\ h[1] = Flags(FALSE, 0) /\ \A k \in 1..Len(x) : h[1 + k] = x[k]
    BY Kept
  <2>2. Len(x) \in Nat
    OBVIOUS
  <2> QED  BY <2>1, <2>2
<1>3. c \in Seq(WsBytes)
  <2> DEFINE p == ws.plan
  <2>1. Off(p, d) <= ws.sent /\ ws.sent <= Len(FrameBytes(p)) /\ d \in 0..Len(p) /\ p \in WsPlans /\ ws.sent \in Nat
    BY <1>1, WsFields DEF WsAt
  <2> HIDE DEF p
  <2>2. Coming(p, d, ws.sent) \in Seq(WsBytes)
    BY <2>1, ComingIs
  <2> QED  BY <2>2 DEF p
<1> HIDE DEF h, c
<1>4. /\ ws.recv \in Seq(WsBytes) /\ Len(ws.recv) = Len(h) + Len(c) /\ Len(c) \in Nat /\ Len(h) \in Nat
      /\ \A k \in 1..Len(h) : ws.recv[k] = h[k]
  <2>1. h \in Seq(WsBytes) /\ c \in Seq(WsBytes)
    BY <1>2, <1>3
  <2>2. /\ h \o c \in Seq(WsBytes) /\ Len(h \o c) = Len(h) + Len(c) /\ Len(c) \in Nat /\ Len(h) \in Nat
        /\ \A k \in 1..Len(h) : (h \o c)[k] = h[k]
    BY <2>1, BehindIs
  <2> QED  BY <2>2, <1>1
<1>5. ws.recv[1] = Flags(FALSE, 0) /\ ws.recv # <<>> /\ Len(ws.recv) >= 1 + ws.reass
  <2>1. 1 \in 1..Len(h) /\ Len(ws.recv) >= Len(h) /\ Len(ws.recv) > 0
    BY <1>2, <1>4
  <2>2. ws.recv[1] = Flags(FALSE, 0)
    BY <2>1, <1>2, <1>4
  <2>3. ws.recv # <<>>
    BY <2>1
  <2> QED  BY <2>1, <2>2, <2>3, <1>1, <1>2
<1>6. Reassembling
  BY <1>1, <1>5 DEF Reassembling, IsFragment, Flags
<1>7. Start = Len(h)
  BY <1>1, <1>2, <1>5, <1>6 DEF Start, Continues, IsFirstFragment, Flags
<1>8. SubSeq(ws.recv, 2, 1 + ws.reass) = x
  <2> DEFINE j == 1 + ws.reass
             y == SubSeq(ws.recv, 1 + 1, j)
  <2>1. j \in Nat /\ 1 <= j /\ j <= Len(ws.recv) /\ j - 1 = Len(x)
    BY <1>1, <1>2, <1>4
  <2> HIDE DEF j
  <2>2. y \in Seq(WsBytes) /\ Len(y) = j - 1 /\ \A n \in 1..j - 1 : y[n] = ws.recv[1 + n]
    BY <2>1, <1>4, PartFrom
  <2>3. \A n \in 1..Len(x) : y[n] = x[n]
    <3> TAKE n \in 1..Len(x)
    <3>1. 1 + n \in 1..Len(h)
      BY <1>2
    <3> QED  BY <3>1, <2>1, <2>2, <1>2, <1>4
  <2> HIDE DEF y
  <2>4. \A a \in Seq(WsBytes), b \in Seq(WsBytes) : Len(a) = Len(b) /\ (\A k \in 1..Len(a) : a[k] = b[k]) => a = b
    BY SeqEqual
  <2>5. y = x
    BY <2>1, <2>2, <2>3, <2>4
  <2> QED  BY <2>5 DEF y, j
<1> QED  BY <1>1, <1>2, <1>4, <1>5, <1>6, <1>7, <1>8 DEF h, c

-----------------------------------------------------------------------------
\* What the handler has been told of after one more frame that is, or ends, a message.
LEMMA TellsOn ==
    ASSUME ws \in WsSet, NEW d \in 0..Len(ws.plan), WsAt(ws, d), d < Len(ws.plan), ws.run,
           NEW e \in WsEvents, IsMessage(e),
           ~ws.defrag => e.data = FramePayload(ws.plan, d + 1),
           ws.defrag /\ ~Interrupted(ws.plan) => MessageOf(ws.plan, d + 1) = <<e>>,
           NEW u \in WsSet, u.plan = ws.plan, u.defrag = ws.defrag, u.upgraded = ws.upgraded,
           u.got = Append(ws.got, e),
           d + 1 = Len(ws.plan) /\ ws.plan[d + 1].op = 8 /\ (\A f \in 1..Len(ws.plan) : ws.plan[f].fin) => "SAC" \in u.flags
    PROVE  ToldSoFar(u, d + 1) /\ AsAsked(u, d + 1) /\ u.got # <<>>
<1> DEFINE p == ws.plan
           old == FramesIn(ws.got)
           new == FramesIn(u.got)
<1>1. p \in WsPlans /\ Len(p) \in Nat /\ ws.got \in Seq(WsEvents)
  BY WsFields, PlanIs
<1>2. d \in Nat /\ d + 1 \in 1..Len(p)
  BY <1>1
<1>3. old \in Seq(WsEvents) /\ new = old \o <<e>>
  BY <1>1, TellsMore
<1>4. Append(old, e) = old \o <<e>>
  BY <1>3, AppendIsConcat
<1> HIDE DEF old, new
<1>5. /\ new \in Seq(WsEvents) /\ Len(new) = Len(old) + 1 /\ new[Len(old) + 1] = e
      /\ \A k \in 1..Len(old) : new[k] = old[k]
  BY <1>3, <1>4, AppendProperties
<1>6. ASSUME ~ws.defrag
      PROVE  Len(new) = d + 1 /\ \A k \in 1..d + 1 : new[k].data = FramePayload(p, k)
  <2>1. Len(old) = d /\ \A k \in 1..d : old[k].data = FramePayload(p, k)
    BY <1>6 DEF WsAt, ToldSoFar, old
  <2>2. \A k \in 1..d + 1 : k \in 1..d \/ k = d + 1
    BY <1>2
  <2> QED  BY <2>1, <2>2, <1>5, <1>6
<1>7. ASSUME ws.defrag, ~Interrupted(p) PROVE new = Flat(MsgsOf(p), d + 1)
  <2>1. old = Flat(MsgsOf(p), d)
    BY <1>7 DEF WsAt, ToldSoFar, old
  <2>2. Flat(MsgsOf(p), d + 1) = Flat(MsgsOf(p), d) \o MessageOf(p, d + 1)
    BY <1>1, <1>2, OneMore
  <2> QED  BY <2>1, <2>2, <1>3, <1>7
<1>8. ASSUME \A f \in 1..Len(p) : p[f].fin PROVE Len(new) = d + 1
  <2>1. Len(old) = d
    BY <1>8 DEF WsAt, ToldSoFar, old
  <2> QED  BY <2>1, <1>5
<1>9. ToldSoFar(u, d + 1)
  BY <1>6, <1>7, <1>8 DEF ToldSoFar, new
<1>10. u.upgraded /\ u.got # <<>> /\ u.got \in Seq(WsEvents)
  <2>1. ws.upgraded
    BY DEF WsAt, AsAsked
  <2> QED  BY <2>1, <1>1, AppendProperties
<1>11. ASSUME NEW k \in 1..Len(u.got), u.got[k].ev = "done", NEW j \in 1..k - 1 PROVE u.got[j].ev = "request"
  <2>1. /\ Len(u.got) = Len(ws.got) + 1 /\ u.got[Len(ws.got) + 1] = e /\ Len(ws.got) \in Nat
        /\ \A i \in 1..Len(ws.got) : u.got[i] = ws.got[i]
    BY <1>1, AppendProperties
  <2>2. e.ev # "done"
    BY DEF IsMessage
  <2>3. k \in 1..Len(ws.got) /\ j \in 1..Len(ws.got)
    BY <1>11, <2>1, <2>2
  <2>4. ws.got[k].ev = "done"
    BY <1>11, <2>1, <2>3
  <2>5. ws.got[j].ev = "request"
    BY <2>3, <2>4 DEF WsAt, AsAsked
  <2> QED  BY <2>1, <2>3, <2>5
<1>12. AsAsked(u, d + 1)
  BY <1>10, <1>11 DEF AsAsked
<1> QED  BY <1>9, <1>10, <1>12

\* Control frames and others are told of by different events.
LEMMA EventIs ==
    ASSUME NEW fin, NEW op, NEW x \in Seq(WsBytes)
    PROVE  LET e == [ev |-> Event(Flags(fin, op)), data |-> x]
           IN  /\ e \in WsEvents /\ IsMessage(e) /\ e.data = x
               /\ e.ev = (IF IsControl(op) THEN "control" ELSE "frame")
<1>1. Event(Flags(fin, op)) = IF IsControl(op) THEN "control" ELSE "frame"
  BY DEF Event, Flags
<1>2. Event(Flags(fin, op)) \in {"frame", "control"}
  BY <1>1
<1> DEFINE v == Event(Flags(fin, op))
<1> HIDE DEF v
<1>3. v \in {"frame", "control"}
  BY <1>2 DEF v
<1>4. [ev |-> v, data |-> x] \in WsEvents /\ IsMessage([ev |-> v, data |-> x])
  BY <1>3 DEF WsEvents, IsMessage
<1> QED  BY <1>1, <1>4 DEF v

\* A frame that is no fragment is handed over; what follows stays.
LEMMA WsDelivers ==
    ASSUME WsInv, DeliverWhole
    PROVE  WsInv'
<1> DEFINE p == ws.plan
           b == ws.recv[1]
           rest == FrameRest(FrameLen(0) + 1)
           last == IF rest = <<>> THEN b ELSE rest[1]
           data == SubSeq(ws.recv, FrameHeaderLen(0) + 1, FrameLen(0))
           e == [ev |-> Event(b), data |-> data]
           flags == IF last.op = 8 THEN ws.flags \cup {"SAC"} ELSE ws.flags
<1>1. PICK d \in 0..Len(ws.plan) : WsAt(ws, d)
  BY DEF WsInv
<1>2. ws \in WsSet /\ ws.run /\ ~Reassembling /\ WholeAt(0) /\ p \in WsPlans /\ Len(p) \in Nat
      /\ ws.sent \in Nat /\ ws.got \in Seq(WsEvents) /\ ws.flags \in SUBSET {"SAC", "CI"}
  <2>1. ws \in WsSet
    BY DEF WsInv
  <2> QED  BY <2>1, WsFields, PlanIs DEF DeliverWhole
<1> DEFINE f == p[d + 1]
<1>3. Plain(ws, d)
  BY <1>1, <1>2, MergedStart DEF WsAt, Buffered
<1>4. /\ d < Len(p) /\ Off(p, d + 1) <= ws.sent /\ d + 1 \in 1..Len(p) /\ b = Flags(f.fin, f.op) /\ Len(ws.recv) > 0
      /\ data = FramePayload(p, d + 1) /\ rest = Coming(p, d + 1, ws.sent)
  BY <1>1, <1>2, <1>3, PlainFound
<1>5. d \in Nat /\ data \in Seq(WsBytes) /\ d + 1 \in 0..Len(p) /\ f.op \in Nat /\ f.fin \in BOOLEAN
  <2> HIDE DEF p, data
  <2> QED  BY <1>2, <1>4, FrameIs, PlanIs
<1>6. e \in WsEvents /\ IsMessage(e) /\ e.data = data /\ e.ev = IF IsControl(f.op) THEN "control" ELSE "frame"
  <2> HIDE DEF p, data, b, f
  <2> QED  BY <1>4, <1>5, EventIs
<1>7. ws' = [[ws EXCEPT !.got = Append(ws.got, e)] EXCEPT !.recv = rest, !.reass = 0, !.flags = flags]
  <2> HIDE DEF data, rest
  <2> QED  BY <1>2 DEF DeliverWhole, WsTold, WsSet, data, rest
<1>8. rest \in Seq(WsBytes) /\ Len(rest) = ws.sent - Off(p, d + 1) /\ Off(p, d + 1) \in Nat
  <2>1. ws.sent <= Len(FrameBytes(p))
    BY <1>1 DEF WsAt
  <2> HIDE DEF p, rest
  <2> QED  BY <1>2, <1>4, <1>5, <2>1, ComingIs, OffIs
<1>9. flags \in SUBSET {"SAC", "CI"} /\ (last.op = 8 => "SAC" \in flags)
  <2> HIDE DEF last
  <2> QED  BY <1>2
<1>10. /\ ws' \in WsSet /\ ws'.plan = p /\ ws'.defrag = ws.defrag /\ ws'.sent = ws.sent /\ ws'.recv = rest /\ ws'.reass = 0
       /\ ws'.flags = flags /\ ws'.got = Append(ws.got, e) /\ ws'.upgraded = ws.upgraded /\ ws'.run /\ ws'.lost = ws.lost
  <2>1. Append(ws.got, e) \in Seq(WsEvents)
    <3> HIDE DEF e
    <3> QED  BY <1>2, <1>6, AppendProperties
  <2> DEFINE g == Append(ws.got, e)
  <2> HIDE DEF g, rest, flags, e
  <2>2. ws' = [[ws EXCEPT !.got = g] EXCEPT !.recv = rest, !.reass = 0, !.flags = flags] /\ g \in Seq(WsEvents)
    BY <1>7, <2>1 DEF g
  <2> QED  BY <2>2, <1>2, <1>8, <1>9 DEF WsSet, g
<1>11. ws.defrag => f.op # 0 /\ f.fin
  <2>1. ws.recv # <<>>
    <3>1. ws.recv \in Seq(WsBytes)
      BY <1>2, WsFields
    <3> QED  BY <3>1, <1>4
  <2>2. b.fin = f.fin /\ b.op = f.op
    BY <1>4 DEF Flags
  <2> QED  BY <2>1, <2>2, <1>2 DEF Reassembling, IsFragment
<1> HIDE DEF e, flags, data, rest, b
<1>12. ToldSoFar(ws', d + 1) /\ AsAsked(ws', d + 1) /\ ws'.got # <<>>
  <2>1. ~ws.defrag => e.data = FramePayload(p, d + 1)
    BY <1>4, <1>6
  <2>2. ASSUME ws.defrag, ~Interrupted(p) PROVE MessageOf(p, d + 1) = <<e>>
    <3>1. d + 1 = 1 \/ p[(d + 1) - 1].fin
      <4>1. f.op = 0 <=> d + 1 > 1 /\ ~p[(d + 1) - 1].fin
        BY <1>2, <1>4, <2>2, GoesOn
      <4> QED  BY <4>1, <1>5, <1>11, <2>2
    <3>2. Gathered(p, d + 1) = FramePayload(p, d + 1)
      BY <3>1, <1>2, <1>4, GatheredIs
    <3>3. e = [ev |-> IF IsControl(f.op) THEN "control" ELSE "frame", data |-> Gathered(p, d + 1)]
      BY <3>2, <1>4, <1>6 DEF e
    <3> QED  BY <3>3, <1>11, <2>2 DEF MessageOf
  <2>3. ASSUME d + 1 = Len(p), f.op = 8 PROVE "SAC" \in flags
    <3>1. Off(p, d + 1) = Len(FrameBytes(p)) /\ Len(FrameBytes(p)) \in Nat
      BY <1>2, <2>3, BytesAre, <1>8
    <3>2. ws.sent <= Len(FrameBytes(p))
      BY <1>1 DEF WsAt
    <3>3. Len(rest) = 0
      BY <3>1, <3>2, <1>2, <1>4, <1>8
    <3>4. rest = <<>>
      BY <3>3, <1>8
    <3>5. last.op = 8
      BY <3>4, <1>4, <2>3 DEF Flags
    <3> QED  BY <3>5, <1>9
  <2>4. d + 1 = Len(p) /\ f.op = 8 => "SAC" \in ws'.flags
    BY <2>3, <1>10
  <2> HIDE DEF last
  <2> QED  BY <2>1, <2>2, <2>4, <1>1, <1>2, <1>4, <1>6, <1>10, TellsOn
<1>13. Plain(ws', d + 1)
  BY <1>4, <1>10 DEF Plain
<1>14. Buffered(ws', d + 1)
  BY <1>10, <1>11, <1>13 DEF Buffered
<1>15. Waits(ws', d + 1)
  BY <1>1, <1>10 DEF WsAt, Waits
<1>16. d + 1 \in 0..Len(ws'.plan) /\ Off(ws'.plan, d + 1) <= ws'.sent /\ ws'.sent <= Len(FrameBytes(ws'.plan))
  BY <1>1, <1>4, <1>5, <1>10 DEF WsAt
<1> QED  BY <1>10, <1>12, <1>14, <1>15, <1>16 DEF WsInv, WsAt

\* What the handler has been told of after a fragment that ends no message.
LEMMA TellsNot ==
    ASSUME ws \in WsSet, NEW d \in 0..Len(ws.plan), WsAt(ws, d), d < Len(ws.plan), ws.run, ws.defrag,
           ~ws.plan[d + 1].fin,
           NEW u, u.plan = ws.plan, u.defrag = ws.defrag, u.upgraded = ws.upgraded, u.got = ws.got
    PROVE  ToldSoFar(u, d + 1) /\ AsAsked(u, d + 1)
<1>1. ws.plan \in WsPlans /\ Len(ws.plan) \in Nat
  BY WsFields, PlanIs
<1>2. d \in Nat /\ d + 1 \in 1..Len(ws.plan)
  BY <1>1
<1>3. ASSUME ~Interrupted(ws.plan) PROVE FramesIn(u.got) = Flat(MsgsOf(ws.plan), d + 1)
  <2>1. FramesIn(ws.got) = Flat(MsgsOf(ws.plan), d)
    BY <1>3 DEF WsAt, ToldSoFar
  <2>2. /\ Flat(MsgsOf(ws.plan), d + 1) = Flat(MsgsOf(ws.plan), d) \o MessageOf(ws.plan, d + 1)
        /\ Flat(MsgsOf(ws.plan), d) \in Seq(WsEvents)
    BY <1>1, <1>2, OneMore
  <2>3. MessageOf(ws.plan, d + 1) = <<>>
    BY DEF MessageOf
  <2>4. Flat(MsgsOf(ws.plan), d) \o <<>> = Flat(MsgsOf(ws.plan), d)
    BY <2>2, ConcatEmptySeq
  <2> QED  BY <2>1, <2>2, <2>3, <2>4
<1>4. ~\A f \in 1..Len(ws.plan) : ws.plan[f].fin
  BY <1>2
<1>5. ToldSoFar(u, d + 1)
  BY <1>3, <1>4 DEF ToldSoFar
<1>6. AsAsked(u, d + 1)
  BY DEF WsAt, AsAsked
<1> QED  BY <1>5, <1>6

\* The buffer after a fragment: flags without the opcode, what there was, the fragment, what follows.
KeptAs(k, y, x, rest) ==
    /\ k = (<<Flags(FALSE, 0)>> \o (y \o x)) \o rest /\ y \o x \in Seq(WsBytes) /\ k \in Seq(WsBytes)
    /\ Len(y \o x) = Len(y) + Len(x) /\ Len(y) + Len(x) \in Nat
    /\ SubSeq(k, 2 + (Len(y) + Len(x)), Len(k)) = rest

\* That buffer ends with what follows.
LEMMA KeptIs ==
    ASSUME NEW y \in Seq(WsBytes), NEW x \in Seq(WsBytes), NEW rest \in Seq(WsBytes)
    PROVE  KeptAs(<<Flags(FALSE, 0)>> \o y \o x \o rest, y, x, rest)
<1> DEFINE s == <<Flags(FALSE, 0)>>
           kept == s \o y \o x \o rest
           z == y \o x
           h == s \o z
<1>1. s \in Seq(WsBytes)
  <2> DEFINE b == Flags(FALSE, 0)
  <2>1. b \in WsBytes
    BY FlagBytes
  <2> HIDE DEF b
  <2>2. <<b>> \in Seq(WsBytes)
    BY <2>1
  <2> QED  BY <2>2 DEF b
<1>2. z \in Seq(WsBytes) /\ Len(z) = Len(y) + Len(x) /\ Len(z) \in Nat
  BY BehindIs
<1>3. h \in Seq(WsBytes) /\ Len(h) = 1 + Len(z)
  <2> HIDE DEF z
  <2> QED  BY <1>2, Kept
<1>4. (s \o y) \o x = s \o z
  <2> HIDE DEF s
  <2> QED  BY <1>1, ConcatAssociative
<1>5. kept = h \o rest
  BY <1>4
<1> HIDE DEF kept, z, h, s
<1>6. kept \in Seq(WsBytes) /\ Len(kept) = Len(h) + Len(rest) /\ Len(rest) \in Nat
  BY <1>3, <1>5, BehindIs
<1>7. SubSeq(kept, (Len(h) + 0) + 1, Len(h) + Len(rest)) = SubSeq(rest, 0 + 1, Len(rest))
  BY <1>3, <1>5, <1>6, PartBehind, SMTT(20)
<1>8. SubSeq(rest, 0 + 1, Len(rest)) = rest
  OBVIOUS
<1>9. (Len(h) + 0) + 1 = 2 + (Len(y) + Len(x))
  BY <1>2, <1>3
<1>10. SubSeq(kept, 2 + (Len(y) + Len(x)), Len(kept)) = rest
  BY <1>6, <1>7, <1>8, <1>9
<1> QED  BY <1>2, <1>5, <1>6, <1>10 DEF kept, h, s, z, KeptAs

\* Where a message that is put together has got to.
LEMMA Gathers ==
    ASSUME WsInv, NEW d \in 0..Len(ws.plan), WsAt(ws, d), ws.defrag, ~Interrupted(ws.plan), d < Len(ws.plan)
    PROVE  LET open == d # 0 /\ ~ws.plan[d].fin
           IN  /\ ~open => Plain(ws, d) /\ ws.plan[d + 1].op # 0 /\ Gathered(ws.plan, d + 1) = FramePayload(ws.plan, d + 1)
               /\ open => /\ Merged(ws, d, Gathered(ws.plan, d)) /\ ws.plan[d + 1].op = 0 /\ Gathered(ws.plan, d) \in Seq(WsBytes)
                          /\ Gathered(ws.plan, d + 1) = Gathered(ws.plan, d) \o FramePayload(ws.plan, d + 1)
<1> DEFINE p == ws.plan
           open == d # 0 /\ ~ws.plan[d].fin
<1>1. p \in WsPlans /\ Len(p) \in Nat /\ ~Interrupted(p)
  BY WsFields, PlanIs DEF WsInv
<1>2. d \in Nat /\ d + 1 \in 1..Len(p) /\ (d + 1) - 1 = d /\ (d + 1 > 1 <=> d # 0) /\ (d + 1 = 1 <=> d = 0)
  BY <1>1
<1>3. IF d = 0 \/ p[d].fin THEN Plain(ws, d) ELSE Merged(ws, d, Gathered(p, d))
  BY DEF WsAt, Buffered
<1> DEFINE n == d + 1
<1>4. n \in 1..Len(p) /\ n - 1 = d /\ (n > 1 <=> d # 0) /\ (n = 1 <=> d = 0)
  BY <1>2
<1> HIDE DEF p, n
<1>5. /\ p[n].op = 0 <=> n > 1 /\ ~p[n - 1].fin
      /\ n = 1 \/ p[n - 1].fin => Gathered(p, n) = FramePayload(p, n)
      /\ n > 1 /\ ~p[n - 1].fin => n - 1 \in 1..Len(p) /\ Gathered(p, n) = Gathered(p, n - 1) \o FramePayload(p, n)
  BY <1>1, <1>4, GoesOn, GatheredIs
<1>6. d \in 1..Len(p) => Gathered(p, d) \in Seq(WsBytes)
  BY <1>1, GatheredIs
<1>7. ASSUME open PROVE n > 1 /\ ~p[n - 1].fin
  BY <1>4, <1>7 DEF p
<1>8. ASSUME ~open PROVE n = 1 \/ p[n - 1].fin
  BY <1>4, <1>8 DEF p
<1>9. ASSUME ~open PROVE Plain(ws, d) /\ p[n].op # 0 /\ Gathered(p, n) = FramePayload(p, n)
  <2>1. ~(n > 1 /\ ~p[n - 1].fin)
    BY <1>4, <1>8, <1>9
  <2>2. Plain(ws, d)
    BY <1>3, <1>9 DEF p
  <2> QED  BY <2>1, <2>2, <1>5, <1>8, <1>9
<1>10. ASSUME open PROVE Merged(ws, d, Gathered(p, d)) /\ p[n].op = 0 /\ Gathered(p, d) \in Seq(WsBytes)
                         /\ Gathered(p, n) = Gathered(p, d) \o FramePayload(p, n)
  <2>1. Merged(ws, d, Gathered(p, d))
    BY <1>3, <1>10 DEF p
  <2>2. n - 1 \in 1..Len(p) /\ Gathered(p, n) = Gathered(p, n - 1) \o FramePayload(p, n) /\ p[n].op = 0
    BY <1>5, <1>7, <1>10
  <2> QED  BY <2>1, <2>2, <1>4, <1>6
<1> QED  BY <1>9, <1>10 DEF p, n

\* A fragment is put behind those before it, and the last one hands them over.
LEMMA WsMerges ==
    ASSUME WsInv, DeliverFragment
    PROVE  WsInv'
<1> DEFINE p == ws.plan
           b == ws.recv[Start + 1]
           data == SubSeq(ws.recv, Start + FrameHeaderLen(Start) + 1, Start + FrameLen(Start))
           before == IF IsFirstFragment(b) THEN <<>> ELSE SubSeq(ws.recv, 2, 1 + ws.reass)
           len == Len(before) + Len(data)
           rest == FrameRest(Start + FrameLen(Start) + 1)
           kept == <<Flags(ws.recv[1].fin, 0)>> \o before \o data \o rest
           e == [ev |-> Event(b), data |-> before \o data]
<1>1. PICK d \in 0..Len(ws.plan) : WsAt(ws, d)
  BY DEF WsInv
<1>2. ws \in WsSet /\ ws.run /\ Reassembling /\ WholeAt(Start) /\ p \in WsPlans /\ Len(p) \in Nat
      /\ ws.sent \in Nat /\ ws.got \in Seq(WsEvents)
  <2>1. ws \in WsSet
    BY DEF WsInv
  <2> QED  BY <2>1, WsFields, PlanIs DEF DeliverFragment
<1> DEFINE f == p[d + 1]
\* The fragment, and what was put together before it.
<1>3. /\ d < Len(p) /\ Off(p, d + 1) <= ws.sent /\ d + 1 \in 1..Len(p) /\ b = Flags(f.fin, f.op)
      /\ data = FramePayload(p, d + 1) /\ rest = Coming(p, d + 1, ws.sent)
      /\ ws.recv[1].fin = FALSE /\ ws.defrag /\ before \in Seq(WsBytes)
      /\ Plain(ws, d) => before = <<>> /\ ~f.fin
      /\ \A x \in Seq(WsBytes) : Merged(ws, d, x) /\ (f.fin \/ f.op = 0) => before = x
  <2>1. CASE Plain(ws, d)
    <3>1. Start = 0 /\ ws.defrag /\ f.op # 0 /\ ~f.fin /\ ws.recv[1] = Flags(f.fin, f.op)
      BY <1>1, <1>2, <2>1, PlainStart
    <3>2. /\ d < Len(p) /\ Off(p, d + 1) <= ws.sent /\ d + 1 \in 1..Len(p)
          /\ SubSeq(ws.recv, FrameHeaderLen(0) + 1, FrameLen(0)) = FramePayload(p, d + 1)
          /\ FrameRest(FrameLen(0) + 1) = Coming(p, d + 1, ws.sent)
          /\ FrameHeaderLen(0) \in Nat /\ FrameLen(0) \in Nat
      <4>1. WholeAt(0)
        BY <1>2, <3>1
      <4> QED  BY <4>1, <1>1, <1>2, <2>1, PlainFound
    <3>3. b = Flags(f.fin, f.op) /\ IsFirstFragment(b)
      BY <3>1 DEF IsFirstFragment, Flags
    <3>4. before = <<>>
      BY <3>3
    <3>5. data = FramePayload(p, d + 1) /\ rest = Coming(p, d + 1, ws.sent)
      <4>1. 0 + FrameHeaderLen(0) + 1 = FrameHeaderLen(0) + 1 /\ 0 + FrameLen(0) = FrameLen(0) /\ 0 + FrameLen(0) + 1 = FrameLen(0) + 1
        BY <3>2
      <4> QED  BY <4>1, <3>1, <3>2, Zenon
    <3>6. \A x \in Seq(WsBytes) : ~(Merged(ws, d, x) /\ (f.fin \/ f.op = 0))
      BY <3>1
    <3>7. ws.recv[1].fin = FALSE
      <4>1. f.fin \in BOOLEAN
        BY <1>2, <3>2, PlanIs
      <4> QED  BY <4>1, <3>1 DEF Flags
    <3>8. before \in Seq(WsBytes)
      <4>1. <<>> \in Seq(WsBytes)
        OBVIOUS
      <4> HIDE DEF before
      <4> QED  BY <3>4, <4>1
    <3> HIDE DEF before, data, rest, b, f, p
    <3> QED  BY <3>1, <3>2, <3>3, <3>4, <3>5, <3>6, <3>7, <3>8
  <2>2. CASE ~Plain(ws, d)
    <3>1. PICK x \in Seq(WsBytes) : Merged(ws, d, x)
      BY <1>1, <2>2 DEF WsAt, Buffered
    <3> DEFINE h == <<Flags(FALSE, 0)>> \o x
    <3>2. /\ ws.defrag /\ Start = Len(h) /\ h \in Seq(WsBytes) /\ ws.recv = h \o Coming(p, d, ws.sent)
          /\ ws.recv[1] = Flags(FALSE, 0) /\ Len(h) \in Nat
      BY <1>1, <1>2, <3>1, MergedStart
    <3>3. \A y \in Seq(WsBytes) : Merged(ws, d, y) => SubSeq(ws.recv, 2, 1 + ws.reass) = y
      BY <1>1, <1>2, MergedStart
    <3> HIDE DEF h
    <3>4. /\ d < Len(p) /\ Off(p, d + 1) <= ws.sent /\ d + 1 \in 1..Len(p) /\ b = Flags(f.fin, f.op)
          /\ data = FramePayload(p, d + 1) /\ rest = Coming(p, d + 1, ws.sent)
      <4>1. Off(p, d) <= ws.sent /\ ws.sent <= Len(FrameBytes(p))
        BY <1>1 DEF WsAt
      <4> DEFINE at == Start
      <4>2. at = Len(h) /\ WholeAt(at)
        BY <3>2, <1>2
      <4> HIDE DEF at
      <4>3. /\ WholeAt(at) <=> d < Len(p) /\ Off(p, d + 1) <= ws.sent
            /\ Len(ws.recv) > at => d < Len(p) /\ d + 1 \in 1..Len(p) /\ ws.recv[at + 1] = Flags(f.fin, f.op)
            /\ WholeAt(at) =>
                 /\ Len(ws.recv) > at
                 /\ SubSeq(ws.recv, at + FrameHeaderLen(at) + 1, at + FrameLen(at)) = FramePayload(p, d + 1)
                 /\ FrameRest(at + FrameLen(at) + 1) = Coming(p, d + 1, ws.sent)
        BY <4>1, <4>2, <3>2, <1>2, Found
      <4>4. /\ d < Len(p) /\ Off(p, d + 1) <= ws.sent /\ d + 1 \in 1..Len(p) /\ ws.recv[at + 1] = Flags(f.fin, f.op)
            /\ SubSeq(ws.recv, at + FrameHeaderLen(at) + 1, at + FrameLen(at)) = FramePayload(p, d + 1)
            /\ FrameRest(at + FrameLen(at) + 1) = Coming(p, d + 1, ws.sent)
        <5> HIDE DEF p, f
        <5> QED  BY <4>2, <4>3
      <4> QED  BY <4>4 DEF at
    <3>5. SubSeq(ws.recv, 2, 1 + ws.reass) = x
      BY <3>1, <3>3
    <3>6. before \in Seq(WsBytes)
      <4>1. <<>> \in Seq(WsBytes)
        OBVIOUS
      <4> QED  BY <4>1, <3>5
    <3>7. f.fin \/ f.op = 0 => before = SubSeq(ws.recv, 2, 1 + ws.reass)
      <4>1. f.fin \/ f.op = 0 => ~IsFirstFragment(b)
        BY <3>4 DEF IsFirstFragment, Flags
      <4> QED  BY <4>1
    <3>8. ws.recv[1].fin = FALSE
      BY <3>2 DEF Flags
    <3> HIDE DEF before, data, rest, b, f, p
    <3> QED  BY <2>2, <3>2, <3>3, <3>4, <3>6, <3>7, <3>8
  <2> QED  BY <2>1, <2>2
<1>4. d \in Nat /\ data \in Seq(WsBytes) /\ d + 1 \in 0..Len(p) /\ f.op \in Nat /\ f.fin \in BOOLEAN
  <2> HIDE DEF p, data
  <2> QED  BY <1>2, <1>3, FrameIs, PlanIs
<1>5. rest \in Seq(WsBytes)
  <2>1. ws.sent <= Len(FrameBytes(p))
    BY <1>1 DEF WsAt
  <2> HIDE DEF p, rest
  <2> QED  BY <1>2, <1>3, <1>4, <2>1, ComingIs
<1>6. /\ kept = (<<Flags(FALSE, 0)>> \o (before \o data)) \o rest /\ before \o data \in Seq(WsBytes) /\ kept \in Seq(WsBytes)
      /\ Len(before \o data) = len /\ len \in Nat
      /\ SubSeq(kept, 2 + len, Len(kept)) = rest
  <2> HIDE DEF before, data, rest
  <2>1. kept = <<Flags(FALSE, 0)>> \o before \o data \o rest
    <3>1. Flags(ws.recv[1].fin, 0) = Flags(FALSE, 0)
      BY <1>3
    <3> QED  BY <3>1
  <2> HIDE DEF kept
  <2>2. before \in Seq(WsBytes) /\ data \in Seq(WsBytes) /\ rest \in Seq(WsBytes)
    BY <1>3, <1>4, <1>5
  <2>3. KeptAs(<<Flags(FALSE, 0)>> \o before \o data \o rest, before, data, rest)
    BY <2>2, KeptIs
  <2>4. KeptAs(kept, before, data, rest)
    BY <2>1, <2>3, Zenon
  <2> QED  BY <2>4 DEF KeptAs
<1>7. ws' = IF ~b.fin THEN [ws EXCEPT !.recv = kept, !.reass = len]
            ELSE [[ws EXCEPT !.got = Append(ws.got, e)] EXCEPT !.recv = SubSeq(kept, 2 + len, Len(kept)), !.reass = 0]
  <2>1. ws' = IF ~b.fin THEN [ws EXCEPT !.recv = kept, !.reass = len]
              ELSE [WsTold(ws, Event(b), before \o data) EXCEPT !.recv = SubSeq(kept, 2 + len, Len(kept)), !.reass = 0]
    BY DEF DeliverFragment
  <2> HIDE DEF b, before, data, kept, len
  <2> QED  BY <2>1 DEF WsTold
<1>8. b.fin = f.fin
  BY <1>3 DEF Flags
<1>9. CASE ~f.fin
  <2> DEFINE y == before \o data
  <2> HIDE DEF kept, len, before, data, rest, b, e
  <2>1. /\ ws' \in WsSet /\ ws'.plan = p /\ ws'.defrag = ws.defrag /\ ws'.sent = ws.sent /\ ws'.recv = kept /\ ws'.reass = len
        /\ ws'.flags = ws.flags /\ ws'.got = ws.got /\ ws'.upgraded = ws.upgraded /\ ws'.run /\ ws'.lost = ws.lost
    <3>1. ws' = [ws EXCEPT !.recv = kept, !.reass = len]
      BY <1>7, <1>8, <1>9
    <3> QED  BY <3>1, <1>2, <1>6 DEF WsSet
  <2>2. Merged(ws', d + 1, y) /\ y \in Seq(WsBytes)
    BY <2>1, <1>3, <1>6 DEF Merged
  <2>3. ASSUME ~Interrupted(p) PROVE y = Gathered(p, d + 1)
    <3>1. CASE d # 0 /\ ~p[d].fin
      <4>1. /\ Merged(ws, d, Gathered(p, d)) /\ f.op = 0 /\ Gathered(p, d) \in Seq(WsBytes)
            /\ Gathered(p, d + 1) = Gathered(p, d) \o FramePayload(p, d + 1)
        BY <1>1, <1>3, <2>3, <3>1, Gathers
      <4>2. before = Gathered(p, d)
        BY <4>1, <1>3
      <4> QED  BY <4>1, <4>2, <1>3
    <3>2. CASE ~(d # 0 /\ ~p[d].fin)
      <4>1. Plain(ws, d) /\ Gathered(p, d + 1) = FramePayload(p, d + 1)
        BY <1>1, <1>3, <2>3, <3>2, Gathers
      <4>2. before = <<>>
        BY <4>1, <1>3
      <4>3. <<>> \o data = data
        BY <1>4, ConcatEmptySeq
      <4> QED  BY <4>1, <4>2, <4>3, <1>3
    <3> QED  BY <3>1, <3>2
  <2> HIDE DEF y
  <2>4. Buffered(ws', d + 1)
    <3>1. d + 1 # 0
      BY <1>4
    <3> QED  BY <3>1, <2>1, <2>2, <2>3, <1>3, <1>9 DEF Buffered
  <2>5. ToldSoFar(ws', d + 1) /\ AsAsked(ws', d + 1)
    BY <2>1, <1>1, <1>2, <1>3, <1>9, TellsNot
  <2>6. Waits(ws', d + 1)
    BY <1>1, <2>1 DEF WsAt, Waits
  <2>7. d + 1 \in 0..Len(ws'.plan) /\ Off(ws'.plan, d + 1) <= ws'.sent /\ ws'.sent <= Len(FrameBytes(ws'.plan))
    BY <1>1, <1>3, <1>4, <2>1 DEF WsAt
  <2> QED  BY <2>1, <2>4, <2>5, <2>6, <2>7 DEF WsInv, WsAt
<1>10. CASE f.fin
  <2>1. e \in WsEvents /\ IsMessage(e) /\ e.data = before \o data /\ e.ev = IF IsControl(f.op) THEN "control" ELSE "frame"
    <3> DEFINE y == before \o data
    <3>1. y \in Seq(WsBytes) /\ e = [ev |-> Event(b), data |-> y]
      BY <1>6
    <3> HIDE DEF y, b, e, f, p
    <3> QED  BY <3>1, <1>3, EventIs DEF y
  <2> HIDE DEF kept, len, before, data, rest, b, e
  <2>2. /\ ws' \in WsSet /\ ws'.plan = p /\ ws'.defrag = ws.defrag /\ ws'.sent = ws.sent /\ ws'.recv = rest /\ ws'.reass = 0
        /\ ws'.flags = ws.flags /\ ws'.got = Append(ws.got, e) /\ ws'.upgraded = ws.upgraded /\ ws'.run /\ ws'.lost = ws.lost
    <3> DEFINE g == Append(ws.got, e)
    <3>1. g \in Seq(WsEvents)
      BY <1>2, <2>1, AppendProperties
    <3>2. ws' = [[ws EXCEPT !.got = g] EXCEPT !.recv = rest, !.reass = 0]
      BY <1>6, <1>7, <1>8, <1>10
    <3> HIDE DEF g
    <3> QED  BY <3>1, <3>2, <1>2, <1>5 DEF WsSet, g
  <2>3. ASSUME ~Interrupted(p) PROVE MessageOf(p, d + 1) = <<e>> /\ ~\A k \in 1..Len(p) : p[k].fin
    <3>1. d # 0 /\ ~p[d].fin
      <4>1. ~(d # 0 /\ ~p[d].fin) => Plain(ws, d)
        BY <1>1, <1>3, <2>3, Gathers
      <4> QED  BY <4>1, <1>3, <1>10
    <3>2. /\ Merged(ws, d, Gathered(p, d)) /\ Gathered(p, d) \in Seq(WsBytes)
          /\ Gathered(p, d + 1) = Gathered(p, d) \o FramePayload(p, d + 1)
      BY <1>1, <1>3, <2>3, <3>1, Gathers
    <3>3. before = Gathered(p, d)
      BY <3>2, <1>3, <1>10
    <3>4. e.data = Gathered(p, d + 1)
      BY <3>2, <3>3, <2>1, <1>3
    <3>5. e = [ev |-> IF IsControl(f.op) THEN "control" ELSE "frame", data |-> Gathered(p, d + 1)]
      BY <3>4, <2>1 DEF e
    <3>6. MessageOf(p, d + 1) = <<e>>
      BY <3>5, <1>10 DEF MessageOf
    <3>7. d \in 1..Len(p)
      BY <3>1, <1>2, <1>4
    <3> QED  BY <3>1, <3>6, <3>7
  <2>4. ASSUME \A k \in 1..Len(p) : p[k].fin PROVE ~Interrupted(p)
    <3>1. DOMAIN p = 1..Len(p)
      BY <1>2, PlanIs
    <3>2. \A k \in 1..Len(p) : k > 1 => k - 1 \in 1..Len(p)
      BY <1>2
    <3> HIDE DEF p
    <3> QED  BY <3>1, <3>2, <2>4 DEF Interrupted
  <2>5. ToldSoFar(ws', d + 1) /\ AsAsked(ws', d + 1) /\ ws'.got # <<>>
    BY <2>1, <2>2, <2>3, <2>4, <1>1, <1>2, <1>3, TellsOn
  <2>6. Plain(ws', d + 1)
    BY <1>3, <2>2 DEF Plain
  <2>7. Buffered(ws', d + 1)
    BY <2>2, <2>6, <1>10 DEF Buffered
  <2>8. Waits(ws', d + 1)
    BY <1>1, <2>2 DEF WsAt, Waits
  <2>9. d + 1 \in 0..Len(ws'.plan) /\ Off(ws'.plan, d + 1) <= ws'.sent /\ ws'.sent <= Len(FrameBytes(ws'.plan))
    BY <1>1, <1>3, <1>4, <2>2 DEF WsAt
  <2> QED  BY <2>2, <2>5, <2>7, <2>8, <2>9 DEF WsInv, WsAt
<1> QED  BY <1>4, <1>9, <1>10

\* Where the bytes are not a frame yet, no frame is left lying.
LEMMA WsWaits ==
    ASSUME WsInv, Wait
    PROVE  WsInv'
<1> DEFINE p == ws.plan
           misread == Misread
<1>1. PICK d \in 0..Len(ws.plan) : WsAt(ws, d)
  BY DEF WsInv
<1>2. ws \in WsSet /\ ~WholeAt(Start) /\ p \in WsPlans /\ Len(p) \in Nat /\ ws.sent \in Nat
  <2>1. ws \in WsSet
    BY DEF WsInv
  <2> QED  BY <2>1, WsFields, PlanIs DEF Wait
<1>3. misread \in BOOLEAN
  BY DEF Misread
<1>4. /\ ws' \in WsSet /\ Untouched(ws', ws) /\ ws'.flags = ws.flags /\ ws'.got = ws.got /\ ws'.upgraded = ws.upgraded
      /\ ws'.run = FALSE /\ ws'.lost = misread
  <2>1. ws' = [ws EXCEPT !.run = FALSE, !.lost = misread]
    BY DEF Wait
  <2> HIDE DEF misread
  <2> QED  BY <2>1, <1>2, <1>3 DEF WsSet, Untouched
<1>5. Buffered(ws', d) /\ ToldSoFar(ws', d)
  BY <1>1, <1>4, StaysBuffered, StaysTold DEF WsAt
<1>6. AsAsked(ws', d)
  BY <1>1, <1>4 DEF WsAt, AsAsked
<1>7. ASSUME ~ws.defrag \/ ~Interrupted(p)
      PROVE  ~misread /\ ~(d < Len(p) /\ Off(p, d + 1) <= ws.sent)
  <2>1. CASE Plain(ws, d)
    <3>1. ~(Reassembling /\ p[d + 1].op = 0)
      <4> SUFFICES ASSUME Reassembling, p[d + 1].op = 0 PROVE FALSE
        OBVIOUS
      <4>1. ws.defrag /\ d + 1 \in 1..Len(p) /\ (p[d + 1].op = 0 \/ ~p[d + 1].fin)
        BY <1>1, <1>2, <2>1, PlainStart
      <4>2. d < Len(p) /\ ~Interrupted(p)
        BY <1>2, <1>7, <4>1
      <4>3. d # 0 /\ ~p[d].fin /\ Merged(ws, d, Gathered(p, d)) /\ Gathered(p, d) \in Seq(WsBytes)
        BY <1>1, <4>1, <4>2, Gathers
      <4> DEFINE x == Gathered(p, d)
                 c == Coming(p, d, ws.sent)
                 h == <<Flags(FALSE, 0)>> \o x
      <4>4. h \in Seq(WsBytes) /\ Len(h) = 1 + Len(x) /\ Len(x) \in Nat /\ ws.recv = h \o c /\ ws.recv = c
        <5>1. x \in Seq(WsBytes)
          BY <4>3
        <5>2. h \in Seq(WsBytes) /\ Len(h) = 1 + Len(x)
          BY <5>1, Kept
        <5> QED  BY <5>1, <5>2, <4>3, <2>1 DEF Plain, Merged
      <4>5. c \in Seq(WsBytes)
        BY <4>4, <1>2, WsFields
      <4> HIDE DEF h, c, x
      <4>6. Len(h \o c) = Len(h) + Len(c) /\ Len(c) \in Nat
        <5>1. h \in Seq(WsBytes)
          BY <4>4
        <5> QED  BY <5>1, <4>5
      <4> QED  BY <4>4, <4>6
    <3>2. Start = 0
      BY <3>1, <1>1, <1>2, <2>1, PlainStart
    <3>3. ~(d < Len(p) /\ Off(p, d + 1) <= ws.sent)
      BY <3>2, <1>1, <1>2, <2>1, PlainFound
    <3>4. Len(ws.recv) > 0 => ws.recv[1].kind = "flags"
      <4>1. Len(ws.recv) > 0 => ws.recv[1] = Flags(p[d + 1].fin, p[d + 1].op)
        BY <1>1, <1>2, <2>1, PlainFound
      <4> QED  BY <4>1 DEF Flags
    <3> QED  BY <3>2, <3>3, <3>4 DEF Misread
  <2>2. CASE ~Plain(ws, d)
    <3>1. PICK x \in Seq(WsBytes) : Merged(ws, d, x)
      BY <1>1, <2>2 DEF WsAt, Buffered
    <3> DEFINE h == <<Flags(FALSE, 0)>> \o x
               at == Start
    <3>2. at = Len(h) /\ h \in Seq(WsBytes) /\ ws.recv = h \o Coming(p, d, ws.sent)
      BY <1>1, <1>2, <3>1, MergedStart
    <3>3. Off(p, d) <= ws.sent /\ ws.sent <= Len(FrameBytes(p))
      BY <1>1 DEF WsAt
    <3>4. ~WholeAt(at)
      BY <1>2
    <3> HIDE DEF h, at
    <3>5. /\ WholeAt(at) <=> d < Len(p) /\ Off(p, d + 1) <= ws.sent
          /\ Len(ws.recv) > at => ws.recv[at + 1] = Flags(p[d + 1].fin, p[d + 1].op)
      BY <3>2, <3>3, <1>2, Found
    <3>6. ~misread
      BY <3>5 DEF Misread, Flags, at
    <3> QED  BY <3>4, <3>5, <3>6
  <2> QED  BY <2>1, <2>2
<1> HIDE DEF misread
<1>8. Waits(ws', d)
  <2> SUFFICES ASSUME ~ws'.defrag \/ ~Interrupted(ws'.plan)
               PROVE  ~ws'.lost /\ (d = Len(ws'.plan) \/ ws'.sent < Off(ws'.plan, d + 1))
    BY DEF Waits
  <2>1. ~misread /\ ~(d < Len(p) /\ Off(p, d + 1) <= ws.sent)
    BY <1>4, <1>7 DEF Untouched
  <2>2. d = Len(p) \/ ws.sent < Off(p, d + 1)
    <3> SUFFICES ASSUME d # Len(p) PROVE ws.sent < Off(p, d + 1)
      OBVIOUS
    <3>1. d < Len(p) /\ d + 1 \in 0..Len(p)
      BY <1>2
    <3> HIDE DEF p
    <3>2. Off(p, d + 1) \in Nat
      BY <3>1, <1>2, OffIs
    <3> QED  BY <3>1, <3>2, <2>1, <1>2
  <2> QED  BY <2>1, <2>2, <1>4 DEF Untouched
<1>9. d \in 0..Len(ws'.plan) /\ Off(ws'.plan, d) <= ws'.sent /\ ws'.sent <= Len(FrameBytes(ws'.plan))
  BY <1>1, <1>4 DEF WsAt, Untouched
<1> QED  BY <1>4, <1>5, <1>6, <1>8, <1>9 DEF WsInv, WsAt

-----------------------------------------------------------------------------
\* The frames of a connection are dealt with one by one, each when it is there.
THEOREM WsInvariant == WsSpec => []WsInv
<1>1. WsInv /\ [WsNext]_wsVars => WsInv'
  <2> SUFFICES ASSUME WsInv, [WsNext]_wsVars PROVE WsInv'
    OBVIOUS
  <2>1. CASE Upgrade \/ Accepted
    BY <2>1, WsShakes
  <2>2. CASE WsReceive
    BY <2>2, WsGets
  <2>3. CASE DeliverWhole
    BY <2>3, WsDelivers
  <2>4. CASE DeliverFragment
    BY <2>4, WsMerges
  <2>5. CASE Wait
    BY <2>5, WsWaits
  <2>6. CASE Second \/ WsPing \/ WsClose
    BY <2>6, WsTicks
  <2>7. CASE UNCHANGED wsVars
    <3>1. ws' = ws
      BY <2>7 DEF wsVars
    <3> QED  BY <3>1 DEF WsInv
  <2> QED  BY <2>1, <2>2, <2>3, <2>4, <2>5, <2>6, <2>7 DEF WsNext
<1> QED  BY <1>1, WsStarts, PTL DEF WsSpec

\* The values of the connection are what they are said to be, and what is received begins with flags.
THEOREM WsTyped == WsSpec => []WsTypeOK
<1>1. WsInv => WsTypeOK
  <2> SUFFICES ASSUME WsInv PROVE WsTypeOK
    OBVIOUS
  <2>1. ws \in WsSet
    BY DEF WsInv
  <2>2. PICK d \in 0..Len(ws.plan) : WsAt(ws, d)
    BY DEF WsInv
  <2>3. ws.sent \in 0..Len(FrameBytes(ws.plan))
    <3> DEFINE p == ws.plan
    <3>1. ws.sent \in Nat /\ ws.sent <= Len(FrameBytes(p)) /\ p \in WsPlans /\ d \in 0..Len(p)
      BY <2>1, <2>2, WsFields DEF WsAt
    <3> HIDE DEF p
    <3>2. Len(FrameBytes(p)) \in Nat
      BY <3>1, OffIs
    <3> QED  BY <3>1, <3>2 DEF p
  <2>4. ASSUME ws.recv # <<>> PROVE ws.recv[1].kind = "flags"
    <3>1. CASE Plain(ws, d)
      <4>1. ws.recv \in Seq(WsBytes)
        BY <2>1, WsFields
      <4>2. Len(ws.recv) > 0
        BY <4>1, <2>4
      <4>3. ws.recv[1] = Flags(ws.plan[d + 1].fin, ws.plan[d + 1].op)
        BY <4>2, <2>1, <2>2, <3>1, PlainFound
      <4> QED  BY <4>3 DEF Flags
    <3>2. CASE ~Plain(ws, d)
      <4>1. PICK x \in Seq(WsBytes) : Merged(ws, d, x)
        BY <2>2, <3>2 DEF WsAt, Buffered
      <4>2. ws.recv[1] = Flags(FALSE, 0)
        BY <4>1, <2>1, <2>2, MergedStart
      <4> QED  BY <4>2 DEF Flags
    <3> QED  BY <3>1, <3>2
  <2> QED  BY <2>1, <2>3, <2>4, WsFields DEF WsTypeOK
<1> QED  BY <1>1, WsInvariant, PTL

\* Wherever the network cuts frames, the handler gets the messages that were sent, once each, in
\* order and whole, after the handshake, and a close is seen: FramesArrive (mongoose.c:9579).
THEOREM FramesArriveHolds == WsSpec => []FramesArrive
<1>1. WsInv => FramesArrive
  <2> SUFFICES ASSUME WsInv PROVE FramesArrive
    OBVIOUS
  <2> DEFINE p == ws.plan
  <2>1. ws \in WsSet /\ p \in WsPlans /\ Len(p) \in Nat /\ DOMAIN p = 1..Len(p) /\ ws.got \in Seq(WsEvents)
    <3>1. ws \in WsSet
      BY DEF WsInv
    <3> QED  BY <3>1, WsFields, PlanIs
  <2>2. PICK d \in 0..Len(p) : WsAt(ws, d)
    BY DEF WsInv
  <2>3. d \in Nat /\ ws.sent \in Nat /\ Frames = FramesIn(ws.got)
    BY <2>1, WsFields DEF Frames
  <2>4. MessagesWhole
    <3> SUFFICES ASSUME ws.defrag, ~Interrupted(p)
                 PROVE  /\ IsPrefix(Frames, Messages(p))
                        /\ ws.run = FALSE /\ ws.upgraded /\ ws.got[Len(ws.got)].ev # "request"
                           /\ ws.sent = Len(FrameBytes(p)) => Len(Frames) = Len(Messages(p))
      BY DEF MessagesWhole
    <3>1. Frames = Flat(MsgsOf(p), d)
      BY <2>2, <2>3 DEF WsAt, ToldSoFar
    <3>2. IsPrefix(Frames, Messages(p))
      BY <3>1, <2>1, FirstMessages
    <3>3. ASSUME ws.run = FALSE, ws.upgraded, ws.got[Len(ws.got)].ev # "request", ws.sent = Len(FrameBytes(p))
          PROVE  Len(Frames) = Len(Messages(p))
      <4>1. d = Len(p) \/ ws.sent < Off(p, d + 1)
        BY <2>2, <3>3 DEF WsAt, Waits
      <4>2. d = Len(p)
        <5> SUFFICES ASSUME d # Len(p) PROVE FALSE
          OBVIOUS
        <5>1. d + 1 \in 0..Len(p)
          BY <2>1
        <5> HIDE DEF p
        <5>2. Off(p, d + 1) <= Len(FrameBytes(p)) /\ Off(p, d + 1) \in Nat /\ Len(FrameBytes(p)) \in Nat
          BY <5>1, <2>1, OffIs
        <5>3. ws.sent < Off(p, d + 1) /\ ws.sent = Len(FrameBytes(p))
          BY <4>1, <3>3 DEF p
        <5> QED  BY <5>2, <5>3
      <4> QED  BY <4>2, <3>1, <2>1, MessagesAre
    <3> QED  BY <3>2, <3>3
  <2>5. FramesWhole
    <3> SUFFICES ASSUME ~ws.defrag, NEW k \in DOMAIN Frames PROVE Frames[k].data = FramePayload(p, k)
      BY DEF FramesWhole
    <3>1. Len(Frames) = d /\ \A i \in 1..d : Frames[i].data = FramePayload(p, i)
      BY <2>2, <2>3 DEF WsAt, ToldSoFar
    <3>2. Frames \in Seq(WsEvents)
      <4>1. [ev |-> "done", data |-> <<>>] \in WsEvents
        <5>1. <<>> \in Seq(WsBytes)
          OBVIOUS
        <5> QED  BY <5>1 DEF WsEvents
      <4> QED  BY <4>1, <2>1, <2>3, TellsMore
    <3>3. k \in 1..d
      BY <3>1, <3>2
    <3> QED  BY <3>1, <3>3
  <2>6. DoneFirst
    <3>1. DOMAIN ws.got = 1..Len(ws.got)
      BY <2>1
    <3> QED  BY <3>1, <2>2 DEF WsAt, AsAsked, DoneFirst
  <2>7. CloseSeen
    <3> SUFFICES ASSUME Len(p) > 0, p[Len(p)].op = 8, Len(p) = Len(Frames), \A f \in DOMAIN p : p[f].fin
                 PROVE  "SAC" \in ws.flags
      BY DEF CloseSeen
    <3>1. \A f \in 1..Len(p) : p[f].fin
      BY <2>1
    <3>2. Len(Frames) = d /\ (d > 0 /\ d = Len(p) /\ p[d].op = 8 => "SAC" \in ws.flags)
      BY <3>1, <2>2, <2>3 DEF WsAt, ToldSoFar
    <3> QED  BY <3>2
  <2> QED  BY <2>4, <2>5, <2>6, <2>7 DEF FramesArrive
<1> QED  BY <1>1, WsInvariant, PTL
=============================================================================
