-------------------------- MODULE HttpConnProofs --------------------------
(***************************************************************************)
(* Proofs about one HTTP connection (HttpConn), for any number of          *)
(* requests, any lengths and limits, and any way in which bytes are cut up *)
(* and responses are taken; and that, for a client that waits, it is the   *)
(* connection RequestReply specifies.                                      *)
(***************************************************************************)
EXTENDS MCHttpConn, SequenceTheorems, FiniteSetTheorems, WellFoundedInduction, TLAPS

-----------------------------------------------------------------------------
(***************************************************************************)
(* Where the requests start in the client's stream.  Start is defined by   *)
(* recursion; that there is such a function, and that it grows by at least *)
(* a head from each request to the next, takes induction over sets.        *)
(***************************************************************************)
LEMMA SetInduction ==
    ASSUME NEW S, 0 \in S, \A n \in Nat : n \in S => n + 1 \in S
    PROVE  Nat \subseteq S
<1> DEFINE Bad == Nat \ S
<1>1. SUFFICES ASSUME Bad # {} PROVE FALSE
  OBVIOUS
<1>2. Bad \subseteq Nat
  OBVIOUS
<1>3. PICK b \in Bad : \A d \in Bad : <<d, b>> \notin OpToRel(<, Nat)
  BY <1>1, <1>2, WFMin, NatLessThanWellFounded, Zenon
<1>4. \A d \in Bad : ~(d < b)
  BY <1>2, <1>3, Zenon DEF OpToRel
<1>5. b # 0 /\ b \in Nat
  OBVIOUS
<1>6. b - 1 \in Nat /\ b - 1 < b
  BY <1>5
<1>7. b - 1 \in S
  BY <1>4, <1>6
<1>8. b \in S
  BY <1>5, <1>6, <1>7
<1> QED
  BY <1>8

\* The length of a request is positive.
LEMMA Lengths ==
    ASSUME NEW i \in 1..N
    PROVE  MessageLen(i) \in Nat /\ MessageLen(i) >= HeadLen
           /\ HeadLen \in Nat /\ HeadLen > 0 /\ N \in Nat /\ BodyLen[i] \in Nat
BY HttpConnAssumption DEF HttpConnAssumption, MessageLen

Next1(f, i) == IF i = 1 THEN 0 ELSE f[i - 1] + HeadLen + BodyLen[i - 1]

LEMMA StartExists == \E f : f = [i \in 1..N+1 |-> Next1(f, i)]
<1>n. N \in Nat
  BY HttpConnAssumption DEF HttpConnAssumption
<1> DEFINE Good(n) == \E f \in [1..N+1 -> Nat] :
                         \A i \in 1..N+1 : i <= n => f[i] = Next1(f, i)
           S == {n \in Nat : n <= N + 1 => Good(n)}
<1>1. 0 \in S
  <2>1. [i \in 1..N+1 |-> 0] \in [1..N+1 -> Nat]
    OBVIOUS
  <2>2. \A i \in 1..N+1 : ~(i <= 0)
    BY <1>n
  <2> QED
    BY <2>1, <2>2
<1>2. ASSUME NEW n \in Nat, n \in S PROVE n + 1 \in S
  <2>1. SUFFICES ASSUME n + 1 <= N + 1 PROVE Good(n + 1)
    OBVIOUS
  <2>2. PICK f \in [1..N+1 -> Nat] : \A i \in 1..N+1 : i <= n => f[i] = Next1(f, i)
    BY <1>2, <1>n, <2>1
  <2> DEFINE v == Next1(f, n + 1)
             h == [f EXCEPT ![n + 1] = v]
  <2>3. v \in Nat
    <3>1. CASE n = 0
      BY <3>1 DEF Next1
    <3>2. CASE n # 0
      <4>1. n \in 1..N /\ n \in 1..N+1 /\ (n + 1) - 1 = n /\ n + 1 # 1
        BY <1>n, <2>1, <3>2
      <4>2. f[n] \in Nat /\ HeadLen \in Nat /\ BodyLen[n] \in Nat
        BY <2>2, <4>1, Lengths
      <4> QED
        BY <4>1, <4>2 DEF Next1
    <3> QED
      BY <3>1, <3>2
  <2>4. h \in [1..N+1 -> Nat]
    BY <2>3
  <2>5. ASSUME NEW i \in 1..N+1, i <= n + 1 PROVE h[i] = Next1(h, i)
    <3>1. i # 1 => i - 1 \in 1..N+1 /\ i - 1 # n + 1
      BY <1>n, <2>5
    <3>2. Next1(h, i) = Next1(f, i)
      BY <3>1 DEF Next1
    <3>3. CASE i = n + 1
      BY <3>2, <3>3
    <3>4. CASE i # n + 1
      <4>1. i <= n
        BY <1>n, <2>5, <3>4
      <4>2. h[i] = f[i]
        BY <3>4
      <4> QED
        BY <2>2, <3>2, <4>1, <4>2
    <3> QED
      BY <3>3, <3>4
  <2> HIDE DEF h, v
  <2> QED
    BY <2>4, <2>5
<1>3. N + 1 \in S
  <2> HIDE DEF S
  <2>1. Nat \subseteq S
    BY <1>1, <1>2, SetInduction
  <2> QED
    BY <1>n, <2>1
<1>4. PICK f \in [1..N+1 -> Nat] : \A i \in 1..N+1 : i <= N + 1 => f[i] = Next1(f, i)
  BY <1>3, <1>n
<1>5. f = [i \in 1..N+1 |-> Next1(f, i)]
  BY <1>4, <1>n
<1> QED
  BY <1>5

LEMMA StartIs ==
    /\ DOMAIN Start = 1..N+1
    /\ \A i \in 1..N+1 : Start[i] = IF i = 1 THEN 0
                                    ELSE Start[i - 1] + HeadLen + BodyLen[i - 1]
<1>1. Start = [i \in 1..N+1 |-> IF i = 1 THEN 0
                                ELSE Start[i - 1] + HeadLen + BodyLen[i - 1]]
  BY StartExists DEF Start, Next1
<1> QED
  BY <1>1

LEMMA StartGrows ==
    /\ Start[1] = 0
    /\ \A i \in 1..N : Start[i + 1] = Start[i] + MessageLen(i)
    /\ \A i \in 1..N+1 : Start[i] \in Nat
    /\ \A i, j \in 1..N+1 : i < j => Start[i] + HeadLen <= Start[j]
<1>n. N \in Nat /\ HeadLen \in Nat /\ HeadLen > 0
  BY HttpConnAssumption DEF HttpConnAssumption
<1>1. Start[1] = 0
  BY <1>n, StartIs
<1>2. \A i \in 1..N+1 : Start[i] \in Nat
  <2> DEFINE S == {n \in Nat : n + 1 <= N + 1 => Start[n + 1] \in Nat}
  <2>1. 0 \in S
    BY <1>1
  <2>2. ASSUME NEW n \in Nat, n \in S PROVE n + 1 \in S
    <3>1. SUFFICES ASSUME n + 2 <= N + 1 PROVE Start[n + 2] \in Nat
      OBVIOUS
    <3>2. Start[n + 1] \in Nat /\ n + 1 \in 1..N
      BY <1>n, <2>2, <3>1
    <3>3. n + 2 \in 1..N+1 /\ (n + 2) - 1 = n + 1 /\ n + 2 # 1
      BY <1>n, <3>1
    <3>4. Start[n + 2] = Start[n + 1] + HeadLen + BodyLen[n + 1]
      BY <3>3, StartIs
    <3> QED
      BY <3>2, <3>4, Lengths
  <2>3. Nat \subseteq S
    <3> HIDE DEF S
    <3> QED
      BY <2>1, <2>2, SetInduction
  <2>4. ASSUME NEW i \in 1..N+1 PROVE Start[i] \in Nat
    <3>1. i - 1 \in S /\ (i - 1) + 1 = i
      BY <1>n, <2>3
    <3> QED
      BY <1>n, <3>1
  <2> QED
    BY <2>4
<1>3. ASSUME NEW i \in 1..N PROVE Start[i + 1] = Start[i] + MessageLen(i)
  <2>1. i + 1 \in 1..N+1 /\ (i + 1) - 1 = i /\ i + 1 # 1 /\ i \in 1..N+1
    BY <1>n
  <2>2. Start[i + 1] = Start[i] + HeadLen + BodyLen[i]
    BY <2>1, StartIs
  <2> QED
    BY <1>2, <2>1, <2>2, Lengths DEF MessageLen
<1>4. ASSUME NEW i \in 1..N+1
      PROVE  \A j \in 1..N+1 : i < j => Start[i] + HeadLen <= Start[j]
  <2> DEFINE S == {n \in Nat : i + n + 1 <= N + 1 =>
                                  Start[i] + HeadLen <= Start[i + n + 1]}
  <2>1. 0 \in S
    <3>1. SUFFICES ASSUME i + 1 <= N + 1 PROVE Start[i] + HeadLen <= Start[i + 1]
      OBVIOUS
    <3>2. i \in 1..N
      BY <1>n, <3>1
    <3> QED
      BY <1>n, <1>2, <1>3, <3>2, Lengths
  <2>2. ASSUME NEW n \in Nat, n \in S PROVE n + 1 \in S
    <3>1. SUFFICES ASSUME i + (n + 1) + 1 <= N + 1
                   PROVE  Start[i] + HeadLen <= Start[i + (n + 1) + 1]
      OBVIOUS
    <3>2. i + n + 1 \in 1..N /\ i + n + 1 \in 1..N+1
      BY <1>n, <3>1
    <3>3. Start[i] + HeadLen <= Start[i + n + 1]
      BY <1>n, <2>2, <3>2
    <3>4. i + (n + 1) + 1 = (i + n + 1) + 1
      OBVIOUS
    <3>5. Start[i + (n + 1) + 1] = Start[i + n + 1] + MessageLen(i + n + 1)
      BY <1>3, <3>2, <3>4
    <3>6. Start[i] \in Nat /\ Start[i + n + 1] \in Nat
          /\ MessageLen(i + n + 1) \in Nat
      BY <1>2, <3>2, Lengths
    <3> QED
      BY <1>n, <3>3, <3>5, <3>6
  <2>3. Nat \subseteq S
    <3> HIDE DEF S
    <3> QED
      BY <2>1, <2>2, SetInduction
  <2>4. ASSUME NEW j \in 1..N+1, i < j PROVE Start[i] + HeadLen <= Start[j]
    <3>1. j - i - 1 \in S /\ i + (j - i - 1) + 1 = j
      BY <1>n, <2>3, <2>4, SMTT(30)
    <3> QED
      BY <1>n, <3>1
  <2> QED
    BY <2>4
<1> QED
  BY <1>1, <1>2, <1>3, <1>4


\* The request at the front, when what was consumed is a number of requests.
LEMMA CurrentIs ==
    ASSUME NEW d \in 0..N, consumed = Start[d + 1]
    PROVE  Current = d + 1
<1>n. N \in Nat /\ HeadLen \in Nat /\ HeadLen > 0
  BY HttpConnAssumption DEF HttpConnAssumption
<1>1. ASSUME NEW i \in 1..N PROVE Start[i + 1] <= Start[d + 1] <=> i <= d
  <2>1. i + 1 \in 1..N+1 /\ d + 1 \in 1..N+1
    BY <1>n
  <2>2. /\ Start[i + 1] \in Nat /\ Start[d + 1] \in Nat
        /\ i + 1 < d + 1 => Start[i + 1] + HeadLen <= Start[d + 1]
        /\ d + 1 < i + 1 => Start[d + 1] + HeadLen <= Start[i + 1]
    BY <2>1, StartGrows
  <2>3. i + 1 = d + 1 => Start[i + 1] = Start[d + 1]
    OBVIOUS
  <2> QED
    BY <1>n, <2>2, <2>3
<1>2. {i \in 1..N : Start[i + 1] <= consumed} = 1..d
  BY <1>n, <1>1
<1>3. Cardinality(1..d) = d
  <2>1. Cardinality(1..d) = IF 1 > d THEN 0 ELSE d - 1 + 1
    BY <1>n, FS_Interval
  <2> QED
    BY <1>n, <2>1
<1> QED
  BY <1>2, <1>3 DEF Current

-----------------------------------------------------------------------------
(***************************************************************************)
(* The order in which units of responses are put into the output.  d is    *)
(* the latest request that was answered, q how many units of its response  *)
(* are queued or sent, and r gives the length of each response.            *)
(***************************************************************************)
\* A unit, and its parts.
At(i, p) == <<i, p>>

LEMMA AtParts ==
    ASSUME NEW i, NEW p
    PROVE  /\ At(i, p)[1] = i /\ At(i, p)[2] = p
           /\ i \in 1..N /\ p \in Nat => At(i, p) \in Unit
BY DEF At, Unit

LEMMA UnitIsAt ==
    ASSUME NEW u \in Unit
    PROVE  u = At(u[1], u[2]) /\ u[1] \in 1..N /\ u[2] \in Nat
BY DEF At, Unit

Follows(u, v, r) == \/ v = At(u[1], u[2] + 1)
                    \/ u[1] < v[1] /\ v[2] = 1 /\ u[2] = r[u[1]]

Before(u, v) == u[1] < v[1] \/ (u[1] = v[1] /\ u[2] < v[2])

Flow(out, d, q, r) ==
    /\ d = 0 => Len(out) = 0
    /\ \A k \in 1..Len(out) : out[k][1] <= d /\ (out[k][1] = d => out[k][2] <= q)
    /\ q > 0 => Len(out) > 0 /\ out[Len(out)] = At(d, q)
    /\ \A p \in 1..q : \E m \in 1..Len(out) : out[m] = At(d, p)
    /\ \A k \in 1..Len(out) - 1 : Follows(out[k], out[k + 1], r)
    /\ \A k, l \in 1..Len(out) : k < l => Before(out[k], out[l])

\* new is out with n more units of response d, numbered from q on.
Extends(new, out, d, q, n) ==
    /\ new \in Seq(Unit) /\ Len(new) = Len(out) + n
    /\ \A k \in 1..Len(out) : new[k] = out[k]
    /\ \A k \in 1..n : new[Len(out) + k] = At(d, q + k)

LEMMA Extended ==
    ASSUME N \in Nat,
           NEW out \in Seq(Unit), NEW d \in 1..N, NEW q \in Nat, NEW n \in Nat
    PROVE  Extends(out \o [k \in 1..n |-> At(d, q + k)], out, d, q, n)
<1> DEFINE b == [k \in 1..n |-> At(d, q + k)]
           new == out \o b
<1>1. \A k \in 1..n : q + k \in Nat /\ At(d, q + k) \in Unit
  BY AtParts
<1>2. b \in [1..n -> Unit] /\ \A k \in 1..n : b[k] = At(d, q + k)
  BY <1>1
<1>3. new = out \o b
  OBVIOUS
<1> SUFFICES Extends(new, out, d, q, n)
  OBVIOUS
<1> HIDE DEF b, new
<1>4. /\ new \in Seq(Unit) /\ Len(new) = Len(out) + n
      /\ \A k \in 1..Len(out) : new[k] = out[k]
      /\ \A k \in 1..n : new[Len(out) + k] = b[k]
  <2>1. b \in Seq(Unit) /\ Len(b) = n
    BY <1>2
  <2>4. new \in Seq(Unit)
    BY <1>3, <2>1, ConcatProperties
  <2>5. Len(new) = Len(out) + n
    BY <1>3, <2>1, ConcatProperties
  <2>2. \A k \in 1..Len(out) : new[k] = out[k]
    BY <1>3, <2>1, ConcatProperties
  <2>3. ASSUME NEW k \in 1..n PROVE new[Len(out) + k] = b[k]
    BY <1>3, <2>1
  <2> QED
    BY <2>2, <2>3, <2>4, <2>5
<1> QED
  BY <1>2, <1>4 DEF Extends

\* More of the latest response.
LEMMA GrowFlow ==
    ASSUME N \in Nat,
           NEW out \in Seq(Unit), NEW d \in 1..N, NEW q \in Nat, q > 0, NEW n \in Nat,
           NEW r, Flow(out, d, q, r), NEW new, Extends(new, out, d, q, n)
    PROVE  Flow(new, d, q + n, r)
<1> DEFINE L == Len(out)
<1>1. /\ L \in Nat /\ Len(new) = L + n
      /\ \A k \in 1..L : new[k] = out[k] /\ out[k] \in Unit
      /\ \A k \in 1..n : new[L + k] = At(d, q + k)
  BY DEF Extends
<1>2. /\ L > 0 /\ out[L] = At(d, q)
      /\ \A k \in 1..L : out[k][1] <= d /\ (out[k][1] = d => out[k][2] <= q)
      /\ \A p \in 1..q : \E m \in 1..L : out[m] = At(d, p)
      /\ \A k \in 1..L - 1 : Follows(out[k], out[k + 1], r)
      /\ \A k, l \in 1..L : k < l => Before(out[k], out[l])
  BY DEF Flow
<1>3. \A k \in 1..L : new[k][1] \in Nat /\ new[k][2] \in Nat
  <2>n. N \in Nat
    BY HttpConnAssumption DEF HttpConnAssumption
  <2>1. ASSUME NEW u \in Unit PROVE u[1] \in Nat /\ u[2] \in Nat
    BY <2>n, <2>1 DEF Unit
  <2> QED
    BY <1>1, <2>1
<1>d. d \in Nat /\ d # 0
  BY HttpConnAssumption DEF HttpConnAssumption
<1> HIDE DEF L
<1>4. \A k \in 1..L + n : \/ k \in 1..L
                          \/ k - L \in 1..n /\ new[k] = At(d, q + (k - L))
  <2> SUFFICES ASSUME NEW k \in 1..L + n, k \notin 1..L
               PROVE  k - L \in 1..n /\ new[k] = At(d, q + (k - L))
    OBVIOUS
  <2>1. k - L \in 1..n /\ L + (k - L) = k
    BY <1>1
  <2> QED
    BY <1>1, <2>1
<1>5. ASSUME NEW k \in 1..L + n
      PROVE  new[k][1] <= d /\ (new[k][1] = d => new[k][2] <= q + n)
  <2>1. CASE k \in 1..L
    <3>1. new[k] = out[k] /\ new[k][1] \in Nat /\ new[k][2] \in Nat
      BY <1>1, <1>3, <2>1
    <3>2. out[k][1] <= d /\ (out[k][1] = d => out[k][2] <= q)
      BY <1>2, <2>1
    <3> QED
      BY <1>d, <3>1, <3>2
  <2>2. CASE k - L \in 1..n /\ new[k] = At(d, q + (k - L))
    <3>1. new[k][1] = d /\ new[k][2] = q + (k - L)
      BY <2>2, AtParts
    <3> QED
      BY <1>1, <1>d, <2>2, <3>1
  <2> QED
    BY <1>4, <2>1, <2>2
<1>6. new[L + n] = At(d, q + n)
  <2>1. CASE n = 0
    BY <1>1, <1>2, <2>1
  <2>2. CASE n # 0
    BY <1>1, <2>2
  <2> QED
    BY <2>1, <2>2
<1>7. ASSUME NEW p \in 1..q + n PROVE \E m \in 1..L + n : new[m] = At(d, p)
  <2>1. CASE p <= q
    <3>1. p \in 1..q
      BY <2>1
    <3>2. PICK m \in 1..L : out[m] = At(d, p)
      BY <1>2, <3>1, Zenon
    <3>3. m \in 1..L + n /\ new[m] = out[m]
      BY <1>1
    <3> QED
      BY <3>2, <3>3
  <2>2. CASE p > q
    <3>1. p - q \in 1..n /\ L + (p - q) \in 1..L + n /\ q + (p - q) = p
      BY <1>1, <2>2
    <3>2. new[L + (p - q)] = At(d, q + (p - q))
      BY <1>1, <3>1
    <3> QED
      BY <3>1, <3>2
  <2>3. p <= q \/ p > q
    OBVIOUS
  <2> QED
    BY <2>1, <2>2, <2>3
<1>8. ASSUME NEW k \in 1..L + n - 1 PROVE Follows(new[k], new[k + 1], r)
  <2>1. CASE k < L
    <3>1. k \in 1..L - 1 /\ k \in 1..L /\ k + 1 \in 1..L
      BY <1>1, <2>1
    <3> QED
      BY <1>1, <1>2, <3>1
  <2>2. CASE k = L
    <3>1. new[k] = At(d, q) /\ 1 \in 1..n
      BY <1>1, <1>2, <2>2
    <3>2. new[k + 1] = At(d, q + 1)
      BY <1>1, <2>2, <3>1
    <3> QED
      <4>1. new[k][1] = d /\ new[k][2] = q
        BY <3>1, AtParts
      <4>2. new[k + 1] = At(new[k][1], new[k][2] + 1)
        BY <3>2, <4>1
      <4> QED
        BY <4>2 DEF Follows
  <2>3. CASE k > L
    <3>1. k - L \in 1..n /\ (k - L) + 1 \in 1..n /\ L + ((k - L) + 1) = k + 1
          /\ L + (k - L) = k
      BY <1>1, <2>3
    <3>2. new[k] = At(d, q + (k - L))
      BY <1>1, <3>1
    <3>3. new[k + 1] = At(d, q + ((k - L) + 1))
      BY <1>1, <3>1
    <3>4. q + ((k - L) + 1) = (q + (k - L)) + 1
      BY <1>1
    <3> QED
      <4>1. new[k][1] = d /\ new[k][2] = q + (k - L)
        BY <3>2, AtParts
      <4>2. new[k + 1] = At(new[k][1], new[k][2] + 1)
        BY <3>3, <3>4, <4>1
      <4> QED
        BY <4>2 DEF Follows
  <2> QED
    BY <1>1, <2>1, <2>2, <2>3
<1>9. ASSUME NEW k \in 1..L + n, NEW l \in 1..L + n, k < l
      PROVE  Before(new[k], new[l])
  <2>1. CASE l \in 1..L
    <3>1. k \in 1..L
      BY <1>1, <1>9, <2>1
    <3> QED
      BY <1>1, <1>2, <1>9, <2>1, <3>1
  <2>2. CASE l - L \in 1..n /\ new[l] = At(d, q + (l - L))
    <3>1. CASE k \in 1..L
      <4>1. new[k][1] <= d /\ (new[k][1] = d => new[k][2] <= q)
        BY <1>1, <1>2, <3>1
      <4>2. new[l][1] = d /\ new[l][2] = q + (l - L)
        BY <2>2, AtParts
      <4> QED
        BY <1>1, <1>3, <1>d, <2>2, <3>1, <4>1, <4>2 DEF Before
    <3>2. CASE k - L \in 1..n /\ new[k] = At(d, q + (k - L))
      BY <1>1, <1>9, <1>d, <2>2, <3>2, AtParts DEF Before
    <3> QED
      BY <1>4, <3>1, <3>2
  <2> QED
    BY <1>4, <2>1, <2>2
<1>10. L + n > 0 /\ Len(new) = L + n /\ ~(d = 0)
  BY <1>1, <1>2, <1>d DEF L
<1> DEFINE M == Len(new)
<1>11. /\ M > 0 /\ new[M] = At(d, q + n)
       /\ \A k \in 1..M : new[k][1] <= d /\ (new[k][1] = d => new[k][2] <= q + n)
       /\ \A p \in 1..q + n : \E m \in 1..M : new[m] = At(d, p)
       /\ \A k \in 1..M - 1 : Follows(new[k], new[k + 1], r)
       /\ \A k, l \in 1..M : k < l => Before(new[k], new[l])
  <2>1. M = L + n /\ M > 0
    BY <1>10
  <2> HIDE DEF M
  <2>2. \A k \in 1..M :
            new[k][1] <= d /\ (new[k][1] = d => new[k][2] <= q + n)
    BY <1>5, <2>1
  <2>3. \A p \in 1..q + n : \E m \in 1..M : new[m] = At(d, p)
    BY <1>7, <2>1
  <2>4. \A k \in 1..M - 1 : Follows(new[k], new[k + 1], r)
    BY <1>1, <1>8, <2>1
  <2>5. \A k, l \in 1..M : k < l => Before(new[k], new[l])
    BY <1>9, <2>1
  <2> QED
    BY <1>6, <2>1, <2>2, <2>3, <2>4, <2>5
<1> QED
  BY <1>1, <1>10, <1>11 DEF Flow


\* The start of the next response, when the latest one is complete.
LEMMA NewFlow ==
    ASSUME N \in Nat,
           NEW out \in Seq(Unit), NEW d \in 0..N - 1, NEW q \in Nat, NEW r, NEW s,
           Flow(out, d, q, r), d > 0 => q > 0 /\ q = r[d],
           \A i \in 1..d : s[i] = r[i],
           NEW n \in Nat, n > 0, NEW new, Extends(new, out, d + 1, 0, n)
    PROVE  Flow(new, d + 1, n, s)
<1> DEFINE L == Len(out)
           e == d + 1
<1>1. /\ L \in Nat /\ Len(new) = L + n /\ e \in Nat /\ e > d
      /\ \A k \in 1..L : new[k] = out[k] /\ out[k] \in Unit
      /\ \A k \in 1..n : new[L + k] = At(e, 0 + k)
  BY DEF Extends
<1>2. /\ d = 0 => L = 0
      /\ q > 0 => L > 0 /\ out[L] = At(d, q)
      /\ \A k \in 1..L : out[k][1] <= d
      /\ \A k \in 1..L - 1 : Follows(out[k], out[k + 1], r)
      /\ \A k, l \in 1..L : k < l => Before(out[k], out[l])
  BY DEF Flow
<1>3. \A k \in 1..L : /\ new[k][1] \in 1..d /\ new[k][2] \in Nat
                      /\ new[k][1] \in Nat /\ new[k][1] < e
  <2> SUFFICES ASSUME NEW k \in 1..L
               PROVE  /\ new[k][1] \in 1..d /\ new[k][2] \in Nat
                      /\ new[k][1] \in Nat /\ new[k][1] < e
    OBVIOUS
  <2>1. out[k] \in Unit /\ new[k] = out[k] /\ out[k][1] <= d
    BY <1>1, <1>2
  <2>2. out[k][1] \in 1..N /\ out[k][2] \in Nat
    BY <2>1, UnitIsAt
  <2>3. out[k][1] \in Nat /\ out[k][1] >= 1 /\ out[k][1] < e
    BY <1>1, <2>1, <2>2
  <2> QED
    BY <2>1, <2>2, <2>3
<1>d. d \in Nat
  OBVIOUS
<1> HIDE DEF L, e
<1>4. \A k \in 1..L + n : \/ k \in 1..L
                          \/ /\ k - L \in 1..n /\ new[k] = At(e, k - L)
                             /\ new[k][1] = e /\ new[k][2] = k - L
  <2> SUFFICES ASSUME NEW k \in 1..L + n, k \notin 1..L
               PROVE  /\ k - L \in 1..n /\ new[k] = At(e, k - L)
                      /\ new[k][1] = e /\ new[k][2] = k - L
    OBVIOUS
  <2>1. k - L \in 1..n /\ L + (k - L) = k /\ 0 + (k - L) = k - L
    BY <1>1
  <2>2. new[k] = At(e, k - L)
    BY <1>1, <2>1
  <2> QED
    BY <2>1, <2>2, AtParts
<1>5. ASSUME NEW k \in 1..L + n
      PROVE  new[k][1] <= e /\ (new[k][1] = e => new[k][2] <= n)
  <2>1. CASE k \in 1..L
    BY <1>1, <1>3, <2>1
  <2>2. CASE k - L \in 1..n /\ new[k][1] = e /\ new[k][2] = k - L
    BY <1>1, <2>2
  <2> QED
    BY <1>4, <2>1, <2>2
<1>6. ASSUME NEW p \in 1..n PROVE L + p \in 1..L + n /\ new[L + p] = At(e, p)
  BY <1>1
<1>7. ASSUME NEW k \in 1..L + n - 1 PROVE Follows(new[k], new[k + 1], s)
  <2>1. CASE k < L
    <3>1. k \in 1..L - 1 /\ k \in 1..L /\ k + 1 \in 1..L
      BY <1>1, <2>1
    <3>2. new[k] = out[k] /\ new[k + 1] = out[k + 1]
      BY <1>1, <3>1
    <3>3. Follows(out[k], out[k + 1], r)
      BY <1>2, <3>1
    <3>4. s[out[k][1]] = r[out[k][1]]
      BY <1>3, <3>1, <3>2
    <3> QED
      BY <3>2, <3>3, <3>4 DEF Follows
  <2>2. CASE k = L
    <3>1. L > 0 /\ d > 0 /\ 1 \in 1..n
      BY <1>1, <1>2, <1>d, <2>2
    <3>2. q > 0 /\ q = r[d] /\ new[k] = At(d, q) /\ s[d] = r[d]
      BY <1>1, <1>2, <1>d, <2>2, <3>1
    <3>3. new[k + 1] = At(e, 1)
      BY <1>6, <2>2, <3>1
    <3>4. new[k][1] = d /\ new[k][2] = q /\ new[k + 1][1] = e /\ new[k + 1][2] = 1
      BY <3>2, <3>3, AtParts
    <3> QED
      BY <1>1, <3>2, <3>4 DEF Follows
  <2>3. CASE k > L
    <3>0. k \in Nat /\ k >= 1 /\ k <= L + n - 1 /\ L \in Nat
      BY <1>1
    <3>1. k - L \in 1..n /\ (k + 1) - L \in 1..n /\ k \in 1..L + n
          /\ k + 1 \in 1..L + n /\ k \notin 1..L /\ k + 1 \notin 1..L
          /\ (k + 1) - L = (k - L) + 1
      BY <2>3, <3>0
    <3>2. new[k][1] = e /\ new[k][2] = k - L /\ new[k + 1] = At(e, (k + 1) - L)
      BY <1>4, <3>1
    <3>3. new[k + 1] = At(new[k][1], new[k][2] + 1)
      BY <3>1, <3>2
    <3> QED
      BY <3>3 DEF Follows
  <2> QED
    BY <1>1, <2>1, <2>2, <2>3
<1>8. ASSUME NEW k \in 1..L + n, NEW l \in 1..L + n, k < l
      PROVE  Before(new[k], new[l])
  <2>1. CASE l \in 1..L
    <3>1. k \in 1..L
      BY <1>1, <1>8, <2>1
    <3> QED
      BY <1>1, <1>2, <1>8, <2>1, <3>1
  <2>2. CASE l - L \in 1..n /\ new[l][1] = e /\ new[l][2] = l - L
    <3>1. CASE k \in 1..L
      BY <1>1, <1>3, <2>2, <3>1 DEF Before
    <3>2. CASE k - L \in 1..n /\ new[k][1] = e /\ new[k][2] = k - L
      BY <1>1, <1>8, <2>2, <3>2, SMTT(30) DEF Before
    <3> QED
      BY <1>4, <3>1, <3>2
  <2> QED
    BY <1>4, <2>1, <2>2
<1> DEFINE M == Len(new)
<1>9. /\ M > 0 /\ new[M] = At(e, n)
      /\ \A k \in 1..M : new[k][1] <= e /\ (new[k][1] = e => new[k][2] <= n)
      /\ \A p \in 1..n : \E m \in 1..M : new[m] = At(e, p)
      /\ \A k \in 1..M - 1 : Follows(new[k], new[k + 1], s)
      /\ \A k, l \in 1..M : k < l => Before(new[k], new[l])
  <2>1. M = L + n /\ M > 0 /\ M \in Nat
    BY <1>1
  <2> HIDE DEF M
  <2>2. \A k \in 1..M :
            new[k][1] <= e /\ (new[k][1] = e => new[k][2] <= n)
    BY <1>5, <2>1
  <2>3. \A p \in 1..n : \E m \in 1..M : new[m] = At(e, p)
    BY <1>6, <2>1
  <2>4. \A k \in 1..M - 1 : Follows(new[k], new[k + 1], s)
    BY <1>1, <1>7, <2>1
  <2>5. \A k, l \in 1..M : k < l => Before(new[k], new[l])
    BY <1>8, <2>1
  <2>6. new[M] = At(e, n)
    BY <1>6, <2>1
  <2> QED
    BY <2>1, <2>2, <2>3, <2>4, <2>5, <2>6
<1>10. Flow(new, e, n, s)
  BY <1>1, <1>9 DEF Flow
<1> QED
  BY <1>10 DEF e

\* Once the last unit there will be is at the client, nothing is queued.
LEMMA Drained ==
    ASSUME N \in Nat,
           NEW g \in Seq(Unit), NEW s \in Seq(Unit), NEW d \in 1..N, NEW q \in Nat,
           NEW r, Flow(g \o s, d, q, r),
           NEW p \in Nat, p >= q, NEW m \in 1..Len(g), g[m] = At(d, p)
    PROVE  s = <<>>
<1> DEFINE out == g \o s
<1>1. /\ Len(out) = Len(g) + Len(s) /\ Len(g) \in Nat /\ Len(s) \in Nat
      /\ \A k \in 1..Len(g) : out[k] = g[k]
  BY ConcatProperties
<1> SUFFICES ASSUME Len(s) # 0 PROVE FALSE
  OBVIOUS
<1>2. /\ \A k \in 1..Len(out) : out[k][1] <= d /\ (out[k][1] = d => out[k][2] <= q)
      /\ \A k, l \in 1..Len(out) : k < l => Before(out[k], out[l])
  BY DEF Flow
<1>3. out \in Seq(Unit)
  BY ConcatProperties
<1> HIDE DEF out
<1> DEFINE l == Len(g) + 1
<1>4. l \in 1..Len(out) /\ m \in 1..Len(out) /\ m < l
  BY <1>1
<1>5. out[l] \in Unit
  BY <1>3, <1>4
<1>6. out[l][1] \in Nat /\ out[l][2] \in Nat
  BY <1>5, UnitIsAt
<1>7. out[m][1] = d /\ out[m][2] = p
  BY <1>1, AtParts
<1>8. Before(out[m], out[l])
  BY <1>2, <1>4
<1>9. out[l][1] <= d /\ (out[l][1] = d => out[l][2] <= q)
  BY <1>2, <1>4
<1> QED
  BY <1>6, <1>7, <1>8, <1>9 DEF Before


-----------------------------------------------------------------------------
(***************************************************************************)
(* The output side: what queueing and the transfer of a file make of it.   *)
(***************************************************************************)
FileSet == [open : BOOLEAN, for : 0..N, pos : Nat, cl : Nat, sent : Nat,
            keepalive : BOOLEAN]
OutSet == [send : Seq(Unit), file : FileSet, flags : SUBSET {"CI", "SAC"}]

\* A file that is open belongs to a request and is not read beyond its end.
FileOK(f) == f.open => f.for \in 1..N /\ f.pos <= FileLen[f.for]

LEMMA Constants ==
    /\ N \in Nat /\ HeadLen \in Nat /\ HeadLen > 0
    /\ SendMax \in Nat /\ SendMax > 0 /\ InlineLen \in Nat /\ InlineLen > 0
    /\ RecvMax \in Nat /\ RecvMax > 0
    /\ \A i \in 1..N : FileLen[i] \in Nat /\ BodyLen[i] \in Nat
BY HttpConnAssumption DEF HttpConnAssumption

LEMMA NoFileType == NoFile \in FileSet /\ FileOK(NoFile) /\ ~NoFile.open /\ NoFile.sent = 0
BY Constants DEF NoFile, FileSet, FileOK

\* The file after n more units were queued.
Advanced(f, n) == [f EXCEPT !.pos = @ + n, !.sent = @ + n]

LEMMA AdvancedIs ==
    ASSUME NEW f \in FileSet, NEW n \in Nat
    PROVE  /\ Advanced(f, n) \in FileSet
           /\ Advanced(f, n).open = f.open /\ Advanced(f, n).for = f.for
           /\ Advanced(f, n).cl = f.cl
           /\ Advanced(f, n).pos = f.pos + n /\ Advanced(f, n).sent = f.sent + n
<1>1. f.pos + n \in Nat /\ f.sent + n \in Nat
  BY DEF FileSet
<1> DEFINE p == f.pos + n
           c == f.sent + n
<1>2. Advanced(f, n) = [f EXCEPT !.pos = p, !.sent = c]
  BY DEF Advanced
<1> HIDE DEF p, c
<1>3. /\ Advanced(f, n).open = f.open /\ Advanced(f, n).for = f.for
      /\ Advanced(f, n).cl = f.cl
      /\ Advanced(f, n).pos = p /\ Advanced(f, n).sent = c
  BY <1>2 DEF FileSet
<1>4. p \in Nat /\ c \in Nat => Advanced(f, n) \in FileSet
  BY <1>2 DEF FileSet
<1> QED
  BY <1>1, <1>3, <1>4 DEF p, c

\* What mg_http_transfer_file_data does with an open file.
Moves(o, t, n) ==
    LET f == o.file IN
    /\ t = [send |-> t.send, file |-> t.file, flags |-> t.flags]
    /\ n \in Nat
    /\ n <= FileLen[f.for] - f.pos
    /\ n = 0 \/ Len(o.send) + n <= SendMax
    /\ t.send = o.send \o [k \in 1..n |-> At(f.for, (f.pos + 1) + k)]
    /\ t.file = IF f.sent + n >= f.cl THEN NoFile ELSE Advanced(f, n)
    /\ t.flags \in {o.flags, o.flags \cup {"SAC"}}
    /\ f.sent <= f.cl => \/ n = FileLen[f.for] - f.pos
                         \/ n = f.cl - f.sent
                         \/ Len(o.send) + n >= SendMax

LEMMA Transfers ==
    ASSUME NEW o \in OutSet, FileOK(o.file)
    PROVE  IF o.file.open
           THEN \E n \in Nat : Moves(o, Transfer(o), n)
           ELSE Transfer(o) = o
<1>1. CASE ~o.file.open
  BY <1>1 DEF Transfer
<1>2. CASE o.file.open
  <2> DEFINE f == o.file
             room == IF Len(o.send) >= SendMax THEN 0 ELSE SendMax - Len(o.send)
             left == IF f.sent > f.cl THEN room ELSE f.cl - f.sent
             rest == FileLen[f.for] - f.pos
             n == MinOf(MinOf(room, left), rest)
             done == f.sent + n >= f.cl
             blk == [k \in 1..n |-> <<f.for, f.pos + k + 1>>]
             t == Transfer(o)
  <2>1. t = [send |-> o.send \o blk,
             file |-> IF done THEN NoFile ELSE Advanced(f, n),
             flags |-> o.flags \cup (IF done /\ ~f.keepalive THEN {"SAC"} ELSE {})]
    BY <1>2 DEF Transfer, Advanced
  <2>2. /\ f \in FileSet /\ o.send \in Seq(Unit)
        /\ f.for \in 1..N /\ f.pos <= FileLen[f.for]
    BY <1>2 DEF OutSet, FileOK
  <2>3. /\ f.pos \in Nat /\ f.cl \in Nat /\ f.sent \in Nat /\ rest \in Nat
        /\ Len(o.send) \in Nat /\ SendMax \in Nat
    BY <2>2, Constants DEF FileSet
  <2> HIDE DEF f, t
  <2>4. room \in Nat /\ (room = 0 \/ Len(o.send) + room = SendMax)
        /\ Len(o.send) + room >= SendMax
    <3>1. CASE Len(o.send) >= SendMax
      <4>1. room = 0
        BY <3>1
      <4> HIDE DEF room
      <4> QED
        BY <2>3, <3>1, <4>1
    <3>2. CASE ~(Len(o.send) >= SendMax)
      <4>1. room = SendMax - Len(o.send)
        BY <3>2
      <4> HIDE DEF room
      <4> QED
        BY <2>3, <3>2, <4>1
    <3> QED
      BY <3>1, <3>2
  <2> HIDE DEF room, rest
  <2>5. left \in Nat /\ (f.sent <= f.cl => left = f.cl - f.sent)
    BY <2>3, <2>4
  <2> HIDE DEF left
  <2>6. /\ n \in Nat /\ n <= room /\ n <= rest
        /\ n = room \/ n = left \/ n = rest
    BY <2>3, <2>4, <2>5 DEF MinOf
  <2> HIDE DEF n
  <2>7. n = 0 \/ Len(o.send) + n <= SendMax
    BY <2>3, <2>4, <2>6
  <2>8. f.sent <= f.cl => \/ n = rest
                          \/ n = f.cl - f.sent
                          \/ Len(o.send) + n >= SendMax
    BY <2>4, <2>5, <2>6
  <2>9. t.send = o.send \o [k \in 1..n |-> At(f.for, (f.pos + 1) + k)]
    <3>1. \A k \in 1..n : f.pos + k + 1 = (f.pos + 1) + k
      BY <2>3, <2>6
    <3>2. blk = [k \in 1..n |-> At(f.for, (f.pos + 1) + k)]
      BY <3>1 DEF At
    <3> HIDE DEF blk
    <3> QED
      BY <2>1, <3>2
  <2>10. t.file = IF f.sent + n >= f.cl THEN NoFile ELSE Advanced(f, n)
    BY <2>1
  <2>11. t.flags \in {o.flags, o.flags \cup {"SAC"}}
    <3>1. t.flags = o.flags \cup (IF done /\ ~f.keepalive THEN {"SAC"} ELSE {})
      BY <2>1
    <3>2. o.flags \cup {} = o.flags
      OBVIOUS
    <3> QED
      BY <3>1, <3>2
  <2>13. t = [send |-> t.send, file |-> t.file, flags |-> t.flags]
    BY <2>1
  <2>12. Moves(o, t, n)
    BY <2>13, <2>6, <2>7, <2>8, <2>9, <2>10, <2>11 DEF Moves, rest, f
  <2> QED
    BY <1>2, <2>6, <2>12 DEF t
<1> QED
  BY <1>1, <1>2


LEMMA MovesType ==
    ASSUME NEW o \in OutSet, FileOK(o.file), o.file.open,
           NEW t, NEW n \in Nat, Moves(o, t, n)
    PROVE  /\ t \in OutSet /\ FileOK(t.file)
           /\ Extends(t.send, o.send, o.file.for, o.file.pos + 1, n)
<1> DEFINE f == o.file
<1>1. /\ f \in FileSet /\ o.send \in Seq(Unit) /\ f.for \in 1..N /\ f.pos <= FileLen[f.for]
      /\ o.flags \in SUBSET {"CI", "SAC"}
  BY DEF OutSet, FileOK
<1>2. f.pos \in Nat /\ f.open /\ FileLen[f.for] \in Nat
  BY <1>1, Constants DEF FileSet
<1>3. Extends(t.send, o.send, f.for, f.pos + 1, n)
  <2>1. t.send = o.send \o [k \in 1..n |-> At(f.for, (f.pos + 1) + k)]
    BY DEF Moves
  <2>2. f.pos + 1 \in Nat
    BY <1>2
  <2> HIDE DEF f
  <2> QED
    BY <1>1, <2>1, <2>2, Extended, Constants
<1>4. t.send \in Seq(Unit)
  BY <1>3 DEF Extends
<1>5. t.file \in FileSet /\ FileOK(t.file)
  <2>1. CASE f.sent + n >= f.cl
    BY <2>1, NoFileType DEF Moves
  <2>2. CASE ~(f.sent + n >= f.cl)
    <3>1. t.file = Advanced(f, n) /\ n <= FileLen[f.for] - f.pos
      BY <2>2 DEF Moves
    <3>2. /\ t.file \in FileSet /\ t.file.for = f.for
          /\ t.file.pos = f.pos + n
      BY <1>1, <3>1, AdvancedIs
    <3> QED
      BY <1>1, <1>2, <3>1, <3>2 DEF FileOK
  <2> QED
    BY <2>1, <2>2
<1>6. t.flags \in SUBSET {"CI", "SAC"}
  BY <1>1 DEF Moves
<1>7. t = [send |-> t.send, file |-> t.file, flags |-> t.flags]
  BY DEF Moves
<1> QED
  BY <1>3, <1>4, <1>5, <1>6, <1>7 DEF OutSet

LEMMA TransferType ==
    ASSUME NEW o \in OutSet, FileOK(o.file)
    PROVE  /\ Transfer(o) \in OutSet /\ FileOK(Transfer(o).file)
           /\ o.flags \subseteq Transfer(o).flags
           /\ "CI" \in Transfer(o).flags => "CI" \in o.flags
<1>1. CASE ~o.file.open
  BY <1>1, Transfers
<1>2. CASE o.file.open
  <2>1. PICK n \in Nat : Moves(o, Transfer(o), n)
    BY <1>2, Transfers
  <2>2. Transfer(o).flags \in {o.flags, o.flags \cup {"SAC"}}
    BY <2>1 DEF Moves
  <2> QED
    BY <1>2, <2>1, <2>2, MovesType
<1> QED
  BY <1>1, <1>2

(***************************************************************************)
(* What holds of the output for a client that waits, which g is what it    *)
(* has got, d the latest request answered and r the responses' lengths: a  *)
(* file that is open is the latest response, as far as it was queued.      *)
(***************************************************************************)
Queued(f, d, r) == IF f.open THEN f.pos + 1 ELSE IF d = 0 THEN 0 ELSE r[d]

OutOK(g, o, d, r) ==
    /\ o.file.open => /\ d > 0 /\ o.file.for = d /\ r[d] = 1 + FileLen[d]
                      /\ o.file.cl = FileLen[d] /\ o.file.sent = o.file.pos
                      /\ o.file.pos <= FileLen[d]
                      /\ Len(o.send) <= SendMax \/ Len(o.send) <= 1
    /\ ~o.file.open => o.file.sent = 0
    /\ Flow(g \o o.send, d, Queued(o.file, d, r), r)

\* Between two steps there is more of a file that is open.
OutInv(g, o, d, r) ==
    /\ OutOK(g, o, d, r)
    /\ o.file.open => o.file.pos < FileLen[d]

LEMMA ExtendsAfter ==
    ASSUME NEW g \in Seq(Unit), NEW s \in Seq(Unit), NEW t, NEW d, NEW q, NEW n \in Nat,
           Extends(t, s, d, q, n)
    PROVE  Extends(g \o t, g \o s, d, q, n)
<1>1. /\ t \in Seq(Unit) /\ Len(t) = Len(s) + n
      /\ \A k \in 1..Len(s) : t[k] = s[k]
      /\ \A k \in 1..n : t[Len(s) + k] = At(d, q + k)
  BY DEF Extends
<1> DEFINE a == g \o t
           b == g \o s
<1>a. /\ a \in Seq(Unit) /\ Len(a) = Len(g) + Len(t)
      /\ \A i \in 1..Len(g) + Len(t) :
            a[i] = IF i <= Len(g) THEN g[i] ELSE t[i - Len(g)]
  BY <1>1, ConcatProperties
<1>b. /\ b \in Seq(Unit) /\ Len(b) = Len(g) + Len(s)
      /\ \A i \in 1..Len(g) + Len(s) :
            b[i] = IF i <= Len(g) THEN g[i] ELSE s[i - Len(g)]
  BY ConcatProperties
<1> HIDE DEF a, b
<1>2. /\ Len(g) \in Nat /\ Len(s) \in Nat /\ Len(t) \in Nat
      /\ a \in Seq(Unit) /\ Len(a) = Len(g) + Len(t)
      /\ b \in Seq(Unit) /\ Len(b) = Len(g) + Len(s)
      /\ \A i \in 1..Len(g) + Len(t) :
            a[i] = IF i <= Len(g) THEN g[i] ELSE t[i - Len(g)]
      /\ \A i \in 1..Len(g) + Len(s) :
            b[i] = IF i <= Len(g) THEN g[i] ELSE s[i - Len(g)]
  BY <1>1, <1>a, <1>b
<1>3. ASSUME NEW k \in 1..Len(b) PROVE a[k] = b[k]
  <2>1. k \in 1..Len(g) + Len(s) /\ k \in 1..Len(g) + Len(t)
    BY <1>1, <1>2
  <2>2. CASE k <= Len(g)
    BY <1>2, <2>1, <2>2
  <2>3. CASE ~(k <= Len(g))
    <3>1. k - Len(g) \in 1..Len(s)
      BY <1>2, <2>1, <2>3
    <3>2. t[k - Len(g)] = s[k - Len(g)]
      BY <1>1, <3>1
    <3> QED
      BY <1>2, <2>1, <2>3, <3>2
  <2> QED
    BY <2>2, <2>3
<1>4. ASSUME NEW k \in 1..n PROVE a[Len(b) + k] = At(d, q + k)
  <2>1. /\ Len(b) + k \in 1..Len(g) + Len(t) /\ ~(Len(b) + k <= Len(g))
        /\ (Len(b) + k) - Len(g) = Len(s) + k
    BY <1>1, <1>2
  <2>2. a[Len(b) + k] = t[Len(s) + k]
    BY <1>2, <2>1
  <2> QED
    BY <1>1, <2>2
<1>5. a \in Seq(Unit) /\ Len(a) = Len(b) + n
  BY <1>1, <1>2
<1>6. Extends(a, b, d, q, n)
  BY <1>3, <1>4, <1>5 DEF Extends
<1> QED
  BY <1>6 DEF a, b

LEMMA TransferKeeps ==
    ASSUME NEW g \in Seq(Unit), NEW o \in OutSet, FileOK(o.file),
           NEW d \in 0..N, NEW r \in [1..N -> Nat], OutOK(g, o, d, r)
    PROVE  /\ OutInv(g, Transfer(o), d, r)
           /\ Transfer(o).file.open => Transfer(o).send # <<>>
<1>1. CASE ~o.file.open
  BY <1>1, Transfers DEF OutInv
<1>2. CASE o.file.open
  <2>1. PICK n \in Nat : Moves(o, Transfer(o), n)
    BY <1>2, Transfers
  <2> DEFINE t == Transfer(o)
             f == o.file
  <2>2. /\ d > 0 /\ f.for = d /\ r[d] = 1 + FileLen[d] /\ f.cl = FileLen[d]
        /\ f.sent = f.pos /\ f.pos <= FileLen[d]
        /\ Flow(g \o o.send, d, f.pos + 1, r)
    BY <1>2 DEF OutOK, Queued
  <2>3. /\ Extends(t.send, o.send, d, f.pos + 1, n)
        /\ t \in OutSet
    BY <1>2, <2>1, <2>2, MovesType
  <2>4. /\ n <= FileLen[d] - f.pos
        /\ n = 0 \/ Len(o.send) + n <= SendMax
        /\ t.file = IF f.sent + n >= f.cl THEN NoFile ELSE Advanced(f, n)
        /\ f.sent <= f.cl => \/ n = FileLen[d] - f.pos
                             \/ n = f.cl - f.sent
                             \/ Len(o.send) + n >= SendMax
    BY <2>1, <2>2 DEF Moves
  <2>5. /\ o.send \in Seq(Unit) /\ t.send \in Seq(Unit) /\ f \in FileSet
        /\ Len(t.send) = Len(o.send) + n /\ Len(o.send) \in Nat
    BY <2>3 DEF OutSet, Extends
  <2>6. /\ f.pos \in Nat /\ d \in 1..N /\ FileLen[d] \in Nat /\ r[d] \in Nat
    BY <2>2, <2>5, Constants DEF FileSet
  <2> HIDE DEF t, f
  <2>7. Flow(g \o t.send, d, f.pos + 1 + n, r)
    <3>1. Extends(g \o t.send, g \o o.send, d, f.pos + 1, n)
      BY <2>3, <2>5, ExtendsAfter
    <3>2. g \o o.send \in Seq(Unit)
      BY <2>5, ConcatProperties
    <3>3. f.pos + 1 \in Nat /\ f.pos + 1 > 0
      BY <2>6
    <3> DEFINE new == g \o t.send
               out == g \o o.send
               q == f.pos + 1
    <3> HIDE DEF new, out, q
    <3>4. Flow(new, d, q + n, r)
      <4>1. Extends(new, out, d, q, n) /\ Flow(out, d, q, r) /\ out \in Seq(Unit)
            /\ q \in Nat /\ q > 0
        BY <2>2, <3>1, <3>2, <3>3 DEF new, out, q
      <4> QED
        BY <2>6, <4>1, GrowFlow, Constants
    <3> QED
      BY <3>4 DEF new, q
  <2>8. CASE f.sent + n >= f.cl
    <3>1. n = FileLen[d] - f.pos /\ f.pos + 1 + n = r[d]
      <4>1. /\ n <= FileLen[d] - f.pos /\ f.sent = f.pos /\ f.cl = FileLen[d]
            /\ r[d] = 1 + FileLen[d]
        BY <2>2, <2>4
      <4> QED
        BY <2>1, <2>6, <2>8, <4>1, SMTT(30)
    <3>2. t.file = NoFile
      BY <2>4, <2>8
    <3>3. ~t.file.open /\ t.file.sent = 0
      BY <3>2, NoFileType
    <3>4. Queued(t.file, d, r) = r[d]
      BY <3>3, <2>6 DEF Queued
    <3>5. Flow(g \o t.send, d, Queued(t.file, d, r), r)
      BY <2>7, <3>1, <3>4
    <3>6. OutInv(g, t, d, r)
      BY <3>3, <3>5 DEF OutInv, OutOK
    <3> QED
      BY <3>3, <3>6 DEF t
  <2>9. CASE ~(f.sent + n >= f.cl)
    <3>1. t.file = Advanced(f, n)
      BY <2>4, <2>9
    <3>2. /\ t.file.open = f.open /\ t.file.for = d /\ t.file.cl = FileLen[d]
          /\ t.file.pos = f.pos + n /\ t.file.sent = f.sent + n
      <4>1. f \in FileSet /\ f.for = d /\ f.cl = FileLen[d]
        BY <2>2, <2>5
      <4>2. /\ Advanced(f, n).open = f.open /\ Advanced(f, n).for = f.for
            /\ Advanced(f, n).cl = f.cl
            /\ Advanced(f, n).pos = f.pos + n /\ Advanced(f, n).sent = f.sent + n
        BY <4>1, AdvancedIs
      <4> QED
        BY <3>1, <4>1, <4>2
    <3>3. f.open
      BY <1>2 DEF f
    <3>4. f.pos + n < FileLen[d] /\ f.sent + n = f.pos + n
      BY <2>2, <2>6, <2>9
    <3>5. Len(o.send) + n >= SendMax
      BY <2>2, <2>4, <2>6, <3>4
    <3>6. Len(t.send) # 0
      BY <2>5, <3>5, Constants
    <3>7. t.file.open /\ Queued(t.file, d, r) = f.pos + n + 1
      BY <3>2, <3>3 DEF Queued
    <3>8. f.pos + n + 1 = f.pos + 1 + n
      BY <2>6
    <3>9. Flow(g \o t.send, d, Queued(t.file, d, r), r)
      BY <2>7, <3>7, <3>8
    <3>10. Len(t.send) <= SendMax \/ Len(t.send) <= 1
      <4>1. n = 0 => Len(t.send) = Len(o.send)
        BY <2>5
      <4>2. Len(o.send) <= SendMax \/ Len(o.send) <= 1
        BY <1>2 DEF OutOK
      <4> QED
        BY <2>4, <2>5, <4>1, <4>2
    <3>12. t.file.pos < FileLen[d] /\ t.file.pos <= FileLen[d]
      BY <2>1, <2>6, <3>2, <3>4
    <3>11. OutInv(g, t, d, r)
      BY <3>12, <2>2, <3>2, <3>4, <3>7, <3>9, <3>10 DEF OutInv, OutOK
    <3> QED
      BY <3>6, <3>11 DEF t
  <2> QED
    BY <2>8, <2>9
<1> QED
  BY <1>1, <1>2

LEMMA QueueIs ==
    ASSUME NEW o \in OutSet, NEW i \in 1..N, NEW n \in Nat
    PROVE  /\ Queue(o, i, n) = [send |-> Queue(o, i, n).send, file |-> o.file,
                                flags |-> o.flags]
           /\ Extends(Queue(o, i, n).send, o.send, i, 0, n)
           /\ Queue(o, i, n) \in OutSet
<1> DEFINE b == [k \in 1..n |-> At(i, 0 + k)]
           x == o.send \o b
<1>1. b = [k \in 1..n |-> <<i, k>>]
  BY DEF At
<1>2. o.send \in Seq(Unit) /\ o.file \in FileSet /\ o.flags \in SUBSET {"CI", "SAC"}
      /\ o = [send |-> o.send, file |-> o.file, flags |-> o.flags]
  BY DEF OutSet
<1>3. Queue(o, i, n) = [o EXCEPT !.send = x]
  <2>1. Queue(o, i, n) = [o EXCEPT !.send = @ \o [k \in 1..n |-> <<i, k>>]]
    BY DEF Queue
  <2> HIDE DEF b
  <2> QED
    BY <1>1, <2>1
<1>4. Extends(x, o.send, i, 0, n)
  BY <1>2, Extended, Constants
<1> HIDE DEF x
<1>5. x \in Seq(Unit)
  BY <1>4 DEF Extends
<1>6. Queue(o, i, n) = [send |-> x, file |-> o.file, flags |-> o.flags]
  BY <1>2, <1>3
<1> QED
  BY <1>2, <1>4, <1>5, <1>6 DEF OutSet

\* The file that is about to be sent.
Opened(f, i, ka) == [f EXCEPT !.open = TRUE, !.for = i, !.pos = 0, !.cl = FileLen[i],
                              !.keepalive = ka]

LEMMA OpenedIs ==
    ASSUME NEW f \in FileSet, NEW i \in 1..N, NEW ka \in BOOLEAN
    PROVE  /\ Opened(f, i, ka) \in FileSet /\ FileOK(Opened(f, i, ka))
           /\ Opened(f, i, ka).open /\ Opened(f, i, ka).for = i
           /\ Opened(f, i, ka).pos = 0 /\ Opened(f, i, ka).cl = FileLen[i]
           /\ Opened(f, i, ka).sent = f.sent
<1> DEFINE c == FileLen[i]
           x == Opened(f, i, ka)
<1>1. c \in Nat /\ i \in 0..N
  BY Constants
<1>2. x = [f EXCEPT !.open = TRUE, !.for = i, !.pos = 0, !.cl = c, !.keepalive = ka]
  BY DEF Opened
<1> HIDE DEF c, x
<1>3. /\ x \in FileSet /\ x.open /\ x.for = i /\ x.pos = 0 /\ x.cl = c /\ x.sent = f.sent
  BY <1>1, <1>2 DEF FileSet
<1>4. FileOK(x)
  BY <1>1, <1>3 DEF FileOK, c
<1> QED
  BY <1>3, <1>4 DEF c, x

\* A response that is queued at once, and a file's head.
AtOnce(o, i, app, t) ==
    /\ app \in {"inline", "error", "denied"}
    /\ t \in OutSet
    /\ Extends(t.send, o.send, i, 0, InlineLen)
    /\ t.file.sent = o.file.sent
    /\ IF app = "denied" THEN ~t.file.open ELSE t.file = o.file
    /\ t.flags \in {o.flags, o.flags \cup {"SAC"}}

FileBegun(o, i, ka, t) ==
    /\ t \in OutSet
    /\ Extends(t.send, o.send, i, 0, 1)
    /\ t.file = Opened(o.file, i, ka)
    /\ t.flags = o.flags

LEMMA RespondIs ==
    ASSUME NEW o \in OutSet, NEW i \in 1..N, NEW app \in Apps, NEW ka \in BOOLEAN
    PROVE  \/ app = "silent" /\ Respond(o, i, app, ka) = o
           \/ AtOnce(o, i, app, Respond(o, i, app, ka))
           \/ /\ app = "file"
              /\ \E t : FileBegun(o, i, ka, t) /\ Respond(o, i, app, ka) = Transfer(t)
<1>1. app \in {"inline", "error", "denied", "file", "silent"}
  BY HttpConnAssumption DEF HttpConnAssumption
<1> DEFINE u == Queue(o, i, InlineLen)
           v == Queue(o, i, 1)
<1>2. /\ u = [send |-> u.send, file |-> o.file, flags |-> o.flags]
      /\ Extends(u.send, o.send, i, 0, InlineLen) /\ u \in OutSet
  BY QueueIs, Constants
<1>3. /\ v = [send |-> v.send, file |-> o.file, flags |-> o.flags]
      /\ Extends(v.send, o.send, i, 0, 1) /\ v \in OutSet
  BY QueueIs
<1>4. o.file \in FileSet /\ o.flags \in SUBSET {"CI", "SAC"}
  BY DEF OutSet
<1>5. /\ app = "inline" => Respond(o, i, app, ka) = u
      /\ app = "error" => Respond(o, i, app, ka) = [u EXCEPT !.flags = @ \cup {"SAC"}]
      /\ app = "denied" => Respond(o, i, app, ka)
                = [u EXCEPT !.flags = @ \cup {"SAC"}, !.file.open = FALSE]
      /\ app = "file" => Respond(o, i, app, ka)
                = Transfer([v EXCEPT !.file = Opened(@, i, ka)])
      /\ app = "silent" => Respond(o, i, app, ka) = o
  BY DEF Respond, Opened
<1> HIDE DEF u, v
<1>6. CASE app = "inline"
  BY <1>2, <1>5, <1>6 DEF AtOnce
<1>7. CASE app = "error"
  <2> DEFINE fl == o.flags \cup {"SAC"}
             t == [u EXCEPT !.flags = fl]
  <2>1. Respond(o, i, app, ka) = t
    BY <1>2, <1>5, <1>7
  <2>2. fl \in SUBSET {"CI", "SAC"}
    BY <1>4
  <2>3. t \in OutSet /\ t.send = u.send /\ t.file = o.file /\ t.flags = fl
    <3> HIDE DEF fl
    <3> QED
      BY <1>2, <2>2 DEF OutSet
  <2> QED
    BY <1>2, <1>7, <2>1, <2>3 DEF AtOnce
<1>8. CASE app = "denied"
  <2> DEFINE fl == o.flags \cup {"SAC"}
             c == [o.file EXCEPT !.open = FALSE]
             t == [u EXCEPT !.flags = fl, !.file = c]
  <2>1. Respond(o, i, app, ka) = t
    <3>1. u.flags = o.flags /\ u.file = o.file
      BY <1>2
    <3>2. Respond(o, i, app, ka)
            = [u EXCEPT !.flags = @ \cup {"SAC"}, !.file = [@ EXCEPT !.open = FALSE]]
      BY <1>5, <1>8
    <3>3. [u EXCEPT !.flags = @ \cup {"SAC"}, !.file = [@ EXCEPT !.open = FALSE]] = t
      BY <1>2, <3>1
    <3> QED
      BY <3>2, <3>3
  <2>2. fl \in SUBSET {"CI", "SAC"} /\ c \in FileSet /\ ~c.open /\ c.sent = o.file.sent
    BY <1>4 DEF FileSet
  <2>3. t \in OutSet /\ t.send = u.send /\ t.file = c /\ t.flags = fl
    <3> HIDE DEF fl, c
    <3> QED
      BY <1>2, <2>2 DEF OutSet
  <2> HIDE DEF t, c
  <2> QED
    BY <1>2, <1>8, <2>1, <2>2, <2>3 DEF AtOnce
<1>9. CASE app = "file"
  <2> DEFINE c == Opened(o.file, i, ka)
             t == [send |-> v.send, file |-> c, flags |-> o.flags]
  <2>1. Respond(o, i, app, ka) = Transfer(t)
    <3>1. [v EXCEPT !.file = Opened(@, i, ka)] = t
      BY <1>3
    <3> HIDE DEF t
    <3> QED
      BY <1>5, <1>9, <3>1
  <2>2. c \in FileSet
    BY <1>4, OpenedIs
  <2>3. t \in OutSet /\ t.send = v.send /\ t.file = c /\ t.flags = o.flags
    <3>1. v.send \in Seq(Unit)
      BY <1>3 DEF OutSet
    <3> HIDE DEF c
    <3> QED
      BY <1>4, <2>2, <3>1 DEF OutSet
  <2> HIDE DEF t
  <2>4. FileBegun(o, i, ka, t)
    BY <1>3, <2>3 DEF FileBegun
  <2> QED
    BY <1>9, <2>1, <2>4
<1>10. CASE app = "silent"
  BY <1>5, <1>10
<1> QED
  BY <1>1, <1>6, <1>7, <1>8, <1>9, <1>10

LEMMA ResponseLens ==
    ASSUME NEW i \in 1..N, NEW app \in Apps
    PROVE  /\ ResponseLen(i, app) \in Nat
           /\ app \in {"inline", "error", "denied"} => ResponseLen(i, app) = InlineLen
           /\ app = "file" => ResponseLen(i, app) = 1 + FileLen[i]
           /\ app = "silent" => ResponseLen(i, app) = 0
<1>1. app \in {"inline", "error", "denied", "file", "silent"}
  BY HttpConnAssumption DEF HttpConnAssumption
<1>2. /\ app = "inline" => ResponseLen(i, app) = InlineLen
      /\ app = "error" => ResponseLen(i, app) = InlineLen
      /\ app = "denied" => ResponseLen(i, app) = InlineLen
      /\ app = "file" => ResponseLen(i, app) = 1 + FileLen[i]
      /\ app = "silent" => ResponseLen(i, app) = 0
  BY DEF ResponseLen
<1>3. InlineLen \in Nat /\ 1 + FileLen[i] \in Nat
  BY Constants
<1> QED
  BY <1>1, <1>2, <1>3

LEMMA RespondType ==
    ASSUME NEW o \in OutSet, FileOK(o.file), NEW i \in 1..N, NEW app \in Apps,
           NEW ka \in BOOLEAN
    PROVE  /\ Respond(o, i, app, ka) \in OutSet /\ FileOK(Respond(o, i, app, ka).file)
           /\ "CI" \in Respond(o, i, app, ka).flags => "CI" \in o.flags
<1>1. CASE app = "silent" /\ Respond(o, i, app, ka) = o
  BY <1>1
<1>2. ASSUME NEW t, AtOnce(o, i, app, t)
      PROVE  /\ t \in OutSet /\ FileOK(t.file)
             /\ "CI" \in t.flags => "CI" \in o.flags
  BY <1>2 DEF AtOnce, FileOK
<1>3. ASSUME NEW t, FileBegun(o, i, ka, t)
      PROVE  /\ Transfer(t) \in OutSet /\ FileOK(Transfer(t).file)
             /\ "CI" \in Transfer(t).flags => "CI" \in o.flags
  <2>1. o.file \in FileSet
    BY DEF OutSet
  <2>2. FileOK(t.file) /\ t \in OutSet /\ t.flags = o.flags
    BY <1>3, <2>1, OpenedIs DEF FileBegun
  <2> QED
    BY <2>2, TransferType
<1> QED
  BY <1>1, <1>2, <1>3, RespondIs

\* Request d is answered to the last unit, which the client has got.
Ended(g, d, r) == d > 0 => r[d] > 0 /\ \E m \in 1..Len(g) : g[m] = At(d, r[d])

LEMMA Idle ==
    ASSUME NEW g \in Seq(Unit), NEW o \in OutSet, FileOK(o.file),
           NEW d \in 0..N, NEW r \in [1..N -> Nat], OutInv(g, o, d, r), Ended(g, d, r)
    PROVE  /\ o.send = <<>> /\ ~o.file.open /\ o.file.sent = 0
           /\ g \o o.send = g
           /\ Flow(g, d, IF d = 0 THEN 0 ELSE r[d], r)
<1> DEFINE q == Queued(o.file, d, r)
           f == o.file
<1>1. o.send \in Seq(Unit) /\ f \in FileSet
  BY DEF OutSet
<1>2. Flow(g \o o.send, d, q, r)
  BY DEF OutInv, OutOK
<1>3. CASE d = 0
  <2>1. ~f.open
    BY <1>3 DEF OutInv, OutOK
  <2>2. Len(g \o o.send) = 0
    BY <1>2, <1>3 DEF Flow
  <2>3. Len(g \o o.send) = Len(g) + Len(o.send)
    BY <1>1, ConcatProperties
  <2>4. Len(o.send) = 0
    BY <1>1, <2>2, <2>3
  <2>5. o.send = <<>>
    BY <1>1, <2>4
  <2>6. q = 0
    BY <1>3, <2>1 DEF Queued
  <2>7. g \o o.send = g
    BY <2>5, ConcatEmptySeq
  <2>8. f.sent = 0
    BY <2>1 DEF OutInv, OutOK
  <2> QED
    BY <1>2, <1>3, <2>1, <2>5, <2>6, <2>7, <2>8
<1>4. CASE d # 0
  <2>1. d \in 1..N /\ r[d] \in Nat
    BY <1>4, Constants
  <2>2. PICK m \in 1..Len(g) : g[m] = At(d, r[d])
    BY <2>1 DEF Ended
  <2>3. q \in Nat /\ q <= r[d] /\ (f.open => q < r[d]) /\ (~f.open => q = r[d])
    <3>1. CASE f.open
      <4>1. f.pos \in Nat /\ FileLen[d] \in Nat
        BY <1>1, <2>1, Constants DEF FileSet
      <4>2. q = f.pos + 1 /\ f.pos < FileLen[d] /\ r[d] = 1 + FileLen[d]
        BY <3>1 DEF Queued, OutInv, OutOK
      <4> HIDE DEF f, q
      <4> QED
        BY <3>1, <4>1, <4>2
    <3>2. CASE ~f.open
      <4>1. q = r[d]
        BY <1>4, <3>2 DEF Queued
      <4> HIDE DEF f, q
      <4> QED
        BY <2>1, <3>2, <4>1
    <3> QED
      BY <3>1, <3>2
  <2>4. o.send = <<>>
    <3> HIDE DEF q, f
    <3> QED
      BY <1>1, <1>2, <2>1, <2>2, <2>3, Drained, Constants
  <2>5. g \o o.send = g
    BY <2>4, ConcatEmptySeq
  <2>6. ~f.open
    <3> SUFFICES ASSUME f.open PROVE FALSE
      OBVIOUS
    <3>1. g[m][1] <= d /\ (g[m][1] = d => g[m][2] <= q)
      <4>1. \A k \in 1..Len(g) : g[k][1] <= d /\ (g[k][1] = d => g[k][2] <= q)
        BY <1>2, <2>5 DEF Flow
      <4> QED
        BY <2>2, <4>1
    <3>2. g[m][1] = d /\ g[m][2] = r[d]
      BY <2>2, AtParts
    <3>3. r[d] <= q
      BY <3>1, <3>2
    <3> HIDE DEF q, f
    <3> QED
      BY <2>1, <2>3, <3>3
  <2>7. f.sent = 0
    BY <2>6 DEF OutInv, OutOK
  <2> HIDE DEF q
  <2> QED
    BY <1>2, <1>4, <2>3, <2>4, <2>5, <2>6, <2>7
<1> QED
  BY <1>3, <1>4

LEMMA SilentFlow ==
    ASSUME N \in Nat, NEW out \in Seq(Unit), NEW d \in 0..N - 1, NEW q, NEW r, NEW s,
           Flow(out, d, q, r), \A i \in 1..d : s[i] = r[i]
    PROVE  Flow(out, d + 1, 0, s)
<1> DEFINE L == Len(out)
<1>1. /\ L \in Nat /\ d \in Nat
      /\ \A k \in 1..L : out[k] \in Unit
      /\ \A k \in 1..L : out[k][1] <= d
      /\ \A k \in 1..L - 1 : Follows(out[k], out[k + 1], r)
      /\ \A k, l \in 1..L : k < l => Before(out[k], out[l])
  BY DEF Flow
<1> HIDE DEF L
<1>2. \A k \in 1..L : out[k][1] \in 1..N
  BY <1>1, UnitIsAt
<1>3. \A k \in 1..L : out[k][1] <= d + 1 /\ out[k][1] # d + 1
  BY <1>1, <1>2
<1>4. ASSUME NEW k \in 1..L - 1 PROVE Follows(out[k], out[k + 1], s)
  <2>1. k \in 1..L /\ out[k][1] \in 1..d
    BY <1>1, <1>2
  <2>2. s[out[k][1]] = r[out[k][1]]
    BY <2>1
  <2>3. Follows(out[k], out[k + 1], r)
    BY <1>1
  <2> QED
    BY <2>2, <2>3 DEF Follows
<1>5. d + 1 # 0 /\ ~(0 > 0) /\ 1..0 = {}
  BY <1>1
<1> QED
  BY <1>1, <1>3, <1>4, <1>5 DEF Flow, L

LEMMA RespondKeeps ==
    ASSUME NEW g \in Seq(Unit), NEW o \in OutSet, FileOK(o.file),
           NEW d \in 0..N - 1, NEW r \in [1..N -> Nat], OutInv(g, o, d, r),
           Ended(g, d, r), NEW app \in Apps, NEW ka \in BOOLEAN
    PROVE  OutInv(g, Respond(o, d + 1, app, ka), d + 1,
                  [r EXCEPT ![d + 1] = ResponseLen(d + 1, app)])
<1> DEFINE e == d + 1
           w == ResponseLen(e, app)
           s == [r EXCEPT ![e] = w]
           q == IF d = 0 THEN 0 ELSE r[d]
<1>1. e \in 1..N /\ e > 0 /\ d \in 0..N /\ e = d + 1
  BY Constants
<1>2. w \in Nat
  BY <1>1, ResponseLens
<1>3. s \in [1..N -> Nat] /\ s[e] = w /\ \A i \in 1..d : s[i] = r[i]
  <2> HIDE DEF w
  <2> QED
    BY <1>1, <1>2, Constants
<1>4. /\ o.send = <<>> /\ ~o.file.open /\ o.file.sent = 0
      /\ Flow(g, d, q, r) /\ q \in Nat
      /\ d > 0 => q > 0 /\ q = r[d]
  <2>1. d > 0 => r[d] > 0 /\ r[d] \in Nat
    BY <1>1, Constants DEF Ended
  <2> QED
    BY <1>1, <2>1, Idle, Constants, SMTT(30)
<1> HIDE DEF e, w, s, q
<1>5. ASSUME NEW t \in OutSet, NEW n \in Nat, n > 0, Extends(t.send, o.send, e, 0, n)
      PROVE  Flow(g \o t.send, e, n, s) /\ Len(t.send) = n
  <2>1. Extends(g \o t.send, g \o o.send, e, 0, n)
    BY <1>4, <1>5, EmptySeq, ExtendsAfter
  <2>2. g \o o.send = g
    BY <1>4, ConcatEmptySeq
  <2>3. Len(t.send) = Len(o.send) + n /\ Len(o.send) = 0
    BY <1>4, <1>5 DEF Extends
  <2>4. Flow(g \o t.send, e, n, s)
    <3> DEFINE new == g \o t.send
    <3>1. Extends(new, g, d + 1, 0, n)
      BY <1>1, <2>1, <2>2
    <3> HIDE DEF new
    <3>2. Flow(new, d + 1, n, s)
      BY <1>3, <1>4, <1>5, <3>1, NewFlow, Constants
    <3> QED
      BY <1>1, <3>2 DEF new
  <2> QED
    BY <2>3, <2>4
<1>6. ASSUME app = "silent" PROVE OutInv(g, o, e, s)
  <2>1. s[e] = 0
    BY <1>1, <1>3, <1>6, ResponseLens DEF w
  <2>2. Flow(g, d + 1, 0, s)
    BY <1>3, <1>4, SilentFlow, Constants
  <2>3. g \o o.send = g
    BY <1>4, ConcatEmptySeq
  <2>4. Queued(o.file, e, s) = 0
    BY <1>1, <1>4, <2>1 DEF Queued
  <2> QED
    BY <1>1, <1>4, <2>2, <2>3, <2>4 DEF OutInv, OutOK
<1>7. ASSUME NEW t, AtOnce(o, e, app, t)
      PROVE  OutInv(g, t, e, s)
  <2>1. s[e] = InlineLen
    BY <1>1, <1>3, <1>7, ResponseLens DEF w, AtOnce
  <2>2. Flow(g \o t.send, e, InlineLen, s)
    BY <1>5, <1>7, Constants DEF AtOnce
  <2>3. ~t.file.open /\ t.file.sent = 0
    BY <1>4, <1>7 DEF AtOnce
  <2>4. Queued(t.file, e, s) = InlineLen
    BY <1>1, <2>1, <2>3 DEF Queued
  <2> QED
    BY <2>2, <2>3, <2>4 DEF OutInv, OutOK
<1>8. ASSUME app = "file", NEW t, FileBegun(o, e, ka, t)
      PROVE  OutInv(g, Transfer(t), e, s)
  <2>1. s[e] = 1 + FileLen[e]
    BY <1>1, <1>3, <1>8, ResponseLens DEF w
  <2>2. Flow(g \o t.send, e, 1, s) /\ Len(t.send) = 1
    <3>1. 1 \in Nat /\ 1 > 0
      OBVIOUS
    <3> QED
      BY <1>5, <1>8, <3>1, Zenon DEF FileBegun
  <2>3. o.file \in FileSet
    BY DEF OutSet
  <2>4. /\ FileOK(t.file) /\ t.file.open /\ t.file.for = e
        /\ t.file.pos = 0 /\ t.file.cl = FileLen[e] /\ t.file.sent = 0
    BY <1>1, <1>4, <1>8, <2>3, OpenedIs DEF FileBegun
  <2>5. Queued(t.file, e, s) = 1 /\ FileLen[e] \in Nat /\ 0 <= FileLen[e]
    BY <1>1, <2>4, Constants DEF Queued
  <2>6. OutOK(g, t, e, s)
    BY <1>1, <2>1, <2>2, <2>4, <2>5 DEF OutOK
  <2>7. e \in 0..N
    BY <1>1, Constants
  <2> QED
    BY <1>3, <1>8, <2>4, <2>6, <2>7, TransferKeeps DEF FileBegun
<1>9. OutInv(g, Respond(o, e, app, ka), e, s)
  <2>1. \/ app = "silent" /\ Respond(o, e, app, ka) = o
        \/ AtOnce(o, e, app, Respond(o, e, app, ka))
        \/ /\ app = "file"
           /\ \E t : FileBegun(o, e, ka, t) /\ Respond(o, e, app, ka) = Transfer(t)
    BY <1>1, RespondIs
  <2> QED
    BY <1>6, <1>7, <1>8, <2>1
<1> QED
  BY <1>9 DEF e, s, w

LEMMA Associates ==
    \A a, b, c \in Seq(Unit) : (a \o b) \o c = a \o (b \o c)
<1> DEFINE U == Unit
<1> HIDE DEF U
<1>1. ASSUME NEW a \in Seq(U), NEW b \in Seq(U), NEW c \in Seq(U)
      PROVE  (a \o b) \o c = a \o (b \o c)
  BY ConcatAssociative
<1> QED
  BY <1>1 DEF U

\* What was written moves from the output to the client.
LEMMA Written ==
    ASSUME NEW g \in Seq(Unit), NEW s \in Seq(Unit), NEW n \in 1..Len(s)
    PROVE  /\ SubSeq(s, 1, n) \in Seq(Unit) /\ SubSeq(s, n + 1, Len(s)) \in Seq(Unit)
           /\ Len(SubSeq(s, n + 1, Len(s))) = Len(s) - n
           /\ g \o SubSeq(s, 1, n) \in Seq(Unit)
           /\ \A k \in 1..Len(g) : (g \o SubSeq(s, 1, n))[k] = g[k]
           /\ Len(g) <= Len(g \o SubSeq(s, 1, n))
           /\ (g \o SubSeq(s, 1, n)) \o SubSeq(s, n + 1, Len(s)) = g \o s
<1> DEFINE a == SubSeq(s, 1, n)
           b == SubSeq(s, n + 1, Len(s))
           x == g \o a
           y == a \o b
<1>1. Len(s) \in Nat /\ n \in Nat /\ n > 0 /\ n <= Len(s) /\ Len(g) \in Nat
  OBVIOUS
<1>2. /\ a \in Seq(Unit) /\ Len(a) = n
      /\ \A k \in 1..n : a[k] = s[k]
  <2>1. 1..n \subseteq 1..Len(s)
    BY <1>1
  <2> QED
    BY <1>1, <2>1, SubSeqProperties
<1>3. /\ b \in Seq(Unit) /\ Len(b) = Len(s) - n
      /\ \A k \in 1..Len(s) - n : b[k] = s[n + k]
  <2>1. n + 1..Len(s) \subseteq 1..Len(s)
    BY <1>1
  <2>2. Len(b) = IF n + 1 <= Len(s) THEN Len(s) - (n + 1) + 1 ELSE 0
    BY <1>1, SubSeqProperties
  <2>3. Len(b) = Len(s) - n
    <3> HIDE DEF b
    <3> QED
      BY <1>1, <2>2
  <2>4. b \in Seq(Unit)
    BY <1>1, SubSeqProperties
  <2>5. \A k \in 1..Len(b) : b[k] = s[n + 1 + k - 1]
    BY <1>1, <2>1, SubSeqProperties
  <2>6. ASSUME NEW k \in 1..Len(s) - n PROVE b[k] = s[n + k]
    <3>1. n + 1 + k - 1 = n + k
      BY <1>1
    <3> HIDE DEF b
    <3> QED
      BY <2>3, <2>5, <3>1
  <2> QED
    BY <2>3, <2>4, <2>6
<1> HIDE DEF a, b
<1>4. /\ x \in Seq(Unit) /\ Len(x) = Len(g) + n
      /\ \A k \in 1..Len(g) : x[k] = g[k]
  <2>1. x \in Seq(Unit)
    BY <1>2, ConcatProperties
  <2>2. Len(x) = Len(g) + n
    BY <1>2, ConcatProperties
  <2>3. \A k \in 1..Len(g) : x[k] = g[k]
    BY <1>2, ConcatProperties
  <2> QED
    BY <2>1, <2>2, <2>3
<1>5. y = s
  <2>1. y \in Seq(Unit) /\ Len(y) = Len(a) + Len(b)
    BY <1>2, <1>3, ConcatProperties
  <2>2. \A k \in 1..Len(a) + Len(b) : y[k] = IF k <= Len(a) THEN a[k] ELSE b[k - Len(a)]
    BY <1>2, <1>3, ConcatProperties
  <2> HIDE DEF y
  <2>3. Len(y) = Len(s)
    BY <1>1, <1>2, <1>3, <2>1
  <2>4. ASSUME NEW k \in 1..Len(s) PROVE y[k] = s[k]
    <3>0. y[k] = IF k <= n THEN a[k] ELSE b[k - n]
      BY <1>1, <1>2, <1>3, <2>2
    <3>1. CASE k <= n
      BY <1>1, <1>2, <3>0, <3>1
    <3>2. CASE ~(k <= n)
      <4>1. k - n \in 1..Len(s) - n /\ n + (k - n) = k
        BY <1>1, <3>2
      <4>2. b[k - n] = s[n + (k - n)]
        BY <1>3, <4>1
      <4> QED
        BY <3>0, <3>2, <4>1, <4>2
    <3> QED
      BY <3>1, <3>2
  <2> QED
    BY <2>1, <2>3, <2>4, SeqEqual
<1>6. x \o b = g \o y
  <2>1. a \in Seq(Unit) /\ b \in Seq(Unit)
    BY <1>2, <1>3
  <2>2. (g \o a) \o b = g \o (a \o b)
    <3> HIDE DEF x, y
    <3>1. g \in Seq(Unit)
      OBVIOUS
    <3> QED
      BY <2>1, <3>1, Associates, Zenon
  <2> QED
    BY <2>2
<1>7. Len(g) <= Len(x)
  <2> HIDE DEF x
  <2> QED
    BY <1>1, <1>4
<1> HIDE DEF x, y
<1>8. x \o b = g \o s
  BY <1>5, <1>6
<1> QED
  BY <1>2, <1>3, <1>4, <1>7, <1>8 DEF a, b, x

LEMMA WriteKeeps ==
    ASSUME NEW g \in Seq(Unit), NEW o \in OutSet, NEW d, NEW r, OutInv(g, o, d, r),
           NEW n \in 1..Len(o.send), NEW t \in OutSet,
           t.send = SubSeq(o.send, n + 1, Len(o.send)), t.file = o.file
    PROVE  OutInv(g \o SubSeq(o.send, 1, n), t, d, r)
<1>1. o.send \in Seq(Unit)
  BY DEF OutSet
<1>2. /\ (g \o SubSeq(o.send, 1, n)) \o t.send = g \o o.send
      /\ Len(t.send) = Len(o.send) - n
  <2> DEFINE u == o.send
  <2>1. u \in Seq(Unit) /\ n \in 1..Len(u)
    BY <1>1
  <2> HIDE DEF u
  <2>2. /\ (g \o SubSeq(u, 1, n)) \o SubSeq(u, n + 1, Len(u)) = g \o u
        /\ Len(SubSeq(u, n + 1, Len(u))) = Len(u) - n
    BY <2>1, Written, Zenon
  <2> QED
    BY <2>2 DEF u
<1>3. /\ Len(o.send) <= SendMax => Len(t.send) <= SendMax
      /\ Len(o.send) <= 1 => Len(t.send) <= 1
  BY <1>1, <1>2, Constants
<1> QED
  BY <1>2, <1>3 DEF OutInv, OutOK

LEMMA FlagsAside ==
    ASSUME NEW g, NEW o, NEW t, NEW d, NEW r, t.send = o.send, t.file = o.file
    PROVE  OutInv(g, o, d, r) <=> OutInv(g, t, d, r)
BY DEF OutInv, OutOK

-----------------------------------------------------------------------------
(***************************************************************************)
(* For any client: requests are consumed whole and in order, and no byte   *)
(* is received that no request has.                                        *)
(***************************************************************************)
Counted ==
    /\ written \in Nat /\ received \in Nat /\ consumed \in Nat /\ rcvd \in Nat
    /\ consumed + rcvd <= received /\ received <= written
    /\ written <= Start[N + 1]

Handed ==
    /\ delivered \in Seq(1..N) /\ Len(delivered) <= N
    /\ DeliveredOnce
    /\ whole \subseteq 1..N
    /\ pc # "closed" => consumed = Start[Len(delivered) + 1]

Output == Out \in OutSet /\ FileOK(file)

Typed ==
    /\ plan \in Plans
    /\ client \in {"open", "fin", "reset"}
    /\ pc \in {"select", "read", "write", "poll", "close", "closed"}
    /\ ready \subseteq {"r", "w"}
    /\ resplen \in [1..N -> Nat]
    /\ early \in BOOLEAN
    /\ got \in Seq(Unit)

ConnInv == Counted /\ Handed /\ Output /\ Typed

LEMMA OutIs ==
    /\ Out.send = send /\ Out.file = file /\ Out.flags = flags
    /\ Out \in OutSet <=> /\ send \in Seq(Unit) /\ file \in FileSet
                          /\ flags \subseteq {"CI", "SAC"}
BY DEF Out, OutSet

LEMMA ConnInvTyped == ConnInv => TypeOK /\ DeliveredOnce
<1>1. ASSUME Output
      PROVE  /\ send \in Seq(Unit) /\ flags \subseteq {"CI", "SAC"}
             /\ file \in [open : BOOLEAN, for : 0..N, pos : Nat, cl : Nat, sent : Nat,
                          keepalive : BOOLEAN]
             /\ file.open => file.for \in 1..N
  BY <1>1, OutIs DEF Output, FileOK, FileSet
<1> QED
  BY <1>1 DEF ConnInv, Counted, Handed, Typed, TypeOK

LEMMA BecomesOut ==
    ASSUME NEW t \in OutSet, FileOK(t.file), Becomes(t)
    PROVE  Output' /\ Out' = t
<1>1. send' = t.send /\ file' = t.file /\ flags' = t.flags
      /\ t = [send |-> t.send, file |-> t.file, flags |-> t.flags]
  BY DEF Becomes, OutSet
<1>2. Out' = t
  BY <1>1 DEF Out
<1> QED
  BY <1>1, <1>2 DEF Output

\* There is a request for what is buffered.
LEMMA OneMore ==
    ASSUME ConnInv, pc # "closed", NEW n \in Nat, received + n <= written,
           received + n > consumed
    PROVE  /\ Len(delivered) + 1 \in 1..N /\ Len(delivered) \in 0..N
           /\ Current = Len(delivered) + 1
           /\ consumed = Start[Len(delivered) + 1]
<1> DEFINE d == Len(delivered)
<1>1. d \in Nat /\ d <= N /\ N \in Nat /\ consumed = Start[d + 1]
  BY Constants DEF ConnInv, Handed
<1>2. /\ received \in Nat /\ consumed \in Nat /\ written \in Nat
      /\ written <= Start[N + 1]
  BY DEF ConnInv, Counted
<1> HIDE DEF d
<1>3. d # N
  <2>1. Start[N + 1] \in Nat
    <3>1. N + 1 \in 1..N+1
      BY <1>1
    <3> QED
      BY <3>1, StartGrows
  <2>2. consumed < Start[N + 1]
    BY <1>2, <2>1
  <2> QED
    BY <1>1, <1>2, <2>2
<1>4. d \in 0..N /\ d + 1 \in 1..N
  BY <1>1, <1>3
<1> QED
  BY <1>1, <1>4, CurrentIs DEF d

LEMMA HandOver ==
    ASSUME delivered \in Seq(1..N), DeliveredOnce, NEW i \in 1..N, i = Len(delivered) + 1,
           delivered' = Append(delivered, i)
    PROVE  /\ delivered' \in Seq(1..N) /\ Len(delivered') = i
           /\ DeliveredOnce'
<1> DEFINE d == Len(delivered)
<1>1. /\ delivered' \in Seq(1..N) /\ Len(delivered') = d + 1
      /\ \A k \in 1..d : delivered'[k] = delivered[k]
      /\ delivered'[d + 1] = i
  BY AppendProperties
<1>2. \A k \in 1..d : delivered[k] = k
  BY DEF DeliveredOnce
<1>3. d \in Nat
  OBVIOUS
<1> HIDE DEF d
<1>4. i = d + 1
  BY DEF d
<1>5. \A k \in 1..d + 1 : delivered'[k] = k
  <2> SUFFICES ASSUME NEW k \in 1..d + 1 PROVE delivered'[k] = k
    OBVIOUS
  <2>1. k \in 1..d \/ k = d + 1
    BY <1>3
  <2> QED
    BY <1>1, <1>2, <1>4, <2>1
<1> QED
  BY <1>1, <1>4, <1>5 DEF DeliveredOnce

LEMMA ConnInit == Init => ConnInv
<1> SUFFICES ASSUME Init PROVE ConnInv
  OBVIOUS
<1>1. Start[N + 1] \in Nat /\ Start[1] = 0
  <2>1. N + 1 \in 1..N+1
    BY Constants
  <2> QED
    BY <2>1, StartGrows
<1>2. Counted
  BY <1>1 DEF Init, Counted
<1>3. delivered = <<>> /\ Len(delivered) = 0
  BY DEF Init
<1>4. Handed
  BY <1>1, <1>3, Constants DEF Init, Handed, DeliveredOnce
<1>5. Output
  BY NoFileType, OutIs DEF Init, Output
<1>6. Typed
  <2>1. resplen \in [1..N -> Nat]
    BY DEF Init
  <2>2. got \in Seq(Unit)
    BY DEF Init
  <2> QED
    BY <2>1, <2>2 DEF Init, Typed
<1> QED
  BY <1>2, <1>4, <1>5, <1>6 DEF ConnInv

LEMMA Received ==
    ASSUME ConnInv, pc # "closed", NEW n \in Nat, n > 0, received + n <= written,
           received' = received + n, Receive(n), pc' # "closed",
           UNCHANGED <<plan, written, client, ready, got>>,
           pc' \in {"select", "read", "write", "poll", "close", "closed"}
    PROVE  ConnInv'
<1> DEFINE o == Transfer(Out)
           i == Current
           d == Len(delivered)
<1>1. o \in OutSet /\ FileOK(o.file)
  BY TransferType, OutIs DEF ConnInv, Output
<1>2. /\ written \in Nat /\ received \in Nat /\ consumed \in Nat /\ rcvd \in Nat
      /\ consumed + rcvd <= received /\ received <= written
      /\ written <= Start[N + 1]
  BY DEF ConnInv, Counted
<1>3. received + n > consumed
  BY <1>2
<1>4. i \in 1..N /\ i = d + 1 /\ consumed = Start[i] /\ d \in 0..N
  BY <1>2, <1>3, OneMore
<1>5. /\ delivered \in Seq(1..N) /\ DeliveredOnce /\ whole \subseteq 1..N /\ d <= N
  BY DEF ConnInv, Handed
<1>6. resplen \in [1..N -> Nat] /\ early \in BOOLEAN /\ Typed
  BY DEF ConnInv, Typed
<1> HIDE DEF o, i
<1>7. ASSUME NEW t, t \in OutSet, FileOK(t.file), Becomes(t), rcvd' = rcvd + n,
             UNCHANGED <<consumed, delivered, whole, resplen>>, early' \in BOOLEAN
      PROVE  ConnInv'
  <2>1. Counted'
    BY <1>2, <1>7 DEF Counted
  <2>2. Handed'
    BY <1>4, <1>5, <1>7 DEF Handed, DeliveredOnce
  <2>3. Typed'
    BY <1>6, <1>7 DEF Typed
  <2>4. Output'
    BY <1>7, BecomesOut
  <2> QED
    BY <2>1, <2>2, <2>3, <2>4 DEF ConnInv
<1>8. Reject(o) \in OutSet /\ FileOK(Reject(o).file)
  <2> DEFINE fl == o.flags \cup {"CI"}
  <2>1. Reject(o) = [o EXCEPT !.flags = fl] /\ fl \in SUBSET {"CI", "SAC"}
    BY <1>1 DEF Reject, OutSet
  <2> HIDE DEF fl
  <2> QED
    BY <1>1, <2>1 DEF OutSet
<1>9. CASE Incomplete(o, i, n)
  <2> DEFINE t == IF received + n - consumed >= HeadMax THEN Reject(o) ELSE o
  <2>1. t \in OutSet /\ FileOK(t.file)
    BY <1>1, <1>8
  <2>2. /\ Becomes(t) /\ rcvd' = rcvd + n
        /\ UNCHANGED <<consumed, delivered, whole, resplen>> /\ early' \in BOOLEAN
    BY <1>6, <1>9 DEF Incomplete, histVars
  <2> HIDE DEF t
  <2> QED
    BY <1>7, <2>1, <2>2
<1>10. CASE Invalid(o, i, n)
  BY <1>6, <1>7, <1>8, <1>10 DEF Invalid, histVars
<1>11. CASE Chunk(o, i, n)
  <2>1. early' \in BOOLEAN
    BY <1>6, <1>11 DEF Chunk
  <2> QED
    BY <1>1, <1>7, <1>11, <2>1 DEF Chunk
<1>12. CASE Dispatch(o, i, n)
  <2>1. PICK app \in Apps, ka \in BOOLEAN :
            /\ Becomes(Respond(o, i, app, ka))
            /\ resplen' = [resplen EXCEPT ![i] = ResponseLen(i, app)]
    BY <1>12 DEF Dispatch
  <2>2. /\ delivered' = Append(delivered, i) /\ whole' = whole \cup {i}
        /\ consumed' = consumed + MessageLen(i) /\ rcvd' = 0 /\ early' = early
        /\ ~MoreToCome(i, rcvd + n)
    BY <1>12 DEF Dispatch
  <2>3. MessageLen(i) <= rcvd + n /\ MessageLen(i) \in Nat
    <3>1. MessageLen(i) \in Nat
      BY <1>4, Lengths
    <3> QED
      BY <1>2, <2>2, <3>1 DEF MoreToCome
  <2>4. Output'
    <3>1. Respond(o, i, app, ka) \in OutSet /\ FileOK(Respond(o, i, app, ka).file)
      BY <1>1, <1>4, RespondType
    <3> QED
      BY <2>1, <3>1, BecomesOut
  <2>5. Counted'
    BY <1>2, <2>2, <2>3 DEF Counted
  <2>6. consumed' = Start[i + 1]
    BY <1>4, <2>2, StartGrows
  <2>7. delivered' \in Seq(1..N) /\ Len(delivered') = i /\ DeliveredOnce'
    BY <1>4, <1>5, <2>2, HandOver
  <2>8. Handed'
    <3>1. Len(delivered') <= N /\ consumed' = Start[Len(delivered') + 1]
      BY <1>4, <2>6, <2>7, Constants
    <3>2. whole' \subseteq 1..N
      BY <1>4, <1>5, <2>2
    <3> QED
      BY <2>7, <3>1, <3>2 DEF Handed
  <2>9. resplen' \in [1..N -> Nat]
    BY <1>4, <1>6, <2>1, ResponseLens
  <2>10. Typed'
    BY <1>6, <2>2, <2>9 DEF Typed
  <2> QED
    BY <2>4, <2>5, <2>8, <2>10 DEF ConnInv
<1> QED
  BY <1>9, <1>10, <1>11, <1>12 DEF Receive, o, i

LEMMA ConnClosed ==
    ASSUME ConnInv, CloseConn, UNCHANGED plan
    PROVE  ConnInv'
<1> DEFINE i == Current
           b == received - consumed
<1>1. /\ pc = "close" /\ rcvd' = 0 /\ send' = <<>> /\ file' = NoFile /\ pc' = "closed"
      /\ UNCHANGED <<written, client, received, consumed, flags, ready, resplen,
                     early, got>>
      /\ IF b >= HeadLen /\ i \notin Malformed
         THEN /\ delivered' = Append(delivered, i)
              /\ whole' = IF b = MessageLen(i) THEN whole \cup {i} ELSE whole
         ELSE UNCHANGED <<delivered, whole>>
  BY DEF CloseConn
<1>2. /\ written \in Nat /\ received \in Nat /\ consumed \in Nat /\ rcvd \in Nat
      /\ consumed + rcvd <= received /\ received <= written
      /\ written <= Start[N + 1]
  BY DEF ConnInv, Counted
<1>3. Counted'
  BY <1>1, <1>2 DEF Counted
<1>4. Output'
  <2>1. flags \subseteq {"CI", "SAC"}
    BY OutIs DEF ConnInv, Output
  <2>2. flags' \in SUBSET {"CI", "SAC"} /\ send' \in Seq(Unit) /\ file' \in FileSet
        /\ FileOK(file')
    BY <1>1, <2>1, NoFileType
  <2> QED
    BY <2>2 DEF Output, Out, OutSet
<1>5. Typed'
  BY <1>1 DEF ConnInv, Typed
<1>6. delivered \in Seq(1..N) /\ Len(delivered) <= N /\ DeliveredOnce
      /\ whole \subseteq 1..N
  BY DEF ConnInv, Handed
<1>7. Handed'
  <2>1. CASE b >= HeadLen /\ i \notin Malformed
    <3>1. received + 0 <= written /\ received + 0 > consumed /\ 0 \in Nat
      BY <1>2, <2>1, Constants
    <3>2. i \in 1..N /\ i = Len(delivered) + 1
      BY <1>1, <3>1, OneMore
    <3>3. delivered' = Append(delivered, i) /\ whole' \in {whole, whole \cup {i}}
      BY <1>1, <2>1
    <3> HIDE DEF i
    <3>4. delivered' \in Seq(1..N) /\ Len(delivered') = i /\ DeliveredOnce'
      BY <1>6, <3>2, <3>3, HandOver
    <3> QED
      BY <1>1, <1>6, <3>2, <3>3, <3>4, Constants DEF Handed
  <2>2. CASE ~(b >= HeadLen /\ i \notin Malformed)
    <3>1. UNCHANGED <<delivered, whole>>
      BY <1>1, <2>2
    <3> QED
      BY <1>1, <1>6, <3>1 DEF Handed, DeliveredOnce
  <2> QED
    BY <2>1, <2>2
<1> QED
  BY <1>3, <1>4, <1>5, <1>7 DEF ConnInv

\* A step of the loop or of the client that neither reads nor hands over, and leaves
\* the output in its domain.
LEMMA ConnKept ==
    ASSUME ConnInv, UNCHANGED <<plan, received, consumed, rcvd, delivered, whole,
                                resplen, early>>,
           written' \in Nat, written <= written', written' <= Start[N + 1],
           client' \in {"open", "fin", "reset"},
           pc' \in {"select", "read", "write", "poll", "close", "closed"},
           pc' # "closed" => pc # "closed",
           ready' \subseteq {"r", "w"}, got' \in Seq(Unit), Output'
    PROVE  ConnInv'
<1>1. Counted'
  BY DEF ConnInv, Counted
<1>2. Handed'
  BY DEF ConnInv, Handed, DeliveredOnce
<1>3. Typed'
  BY DEF ConnInv, Typed
<1> QED
  BY <1>1, <1>2, <1>3 DEF ConnInv

\* What a client writes belongs to its next request.
LEMMA ClientWritesIs ==
    ASSUME ConnInv, ClientWrites
    PROVE  /\ written' \in Nat /\ written < written' /\ written' <= Start[N + 1]
           /\ \E i \in 1..N : /\ Start[i] <= written /\ written < Start[i + 1]
                              /\ written' <= Start[i + 1]
                              /\ Pipelining \/ \A j \in 1..i - 1 : Answered(j)
<1>1. PICK i \in 1..N : /\ Start[i] <= written /\ written < Start[i + 1]
                        /\ Pipelining \/ \A j \in 1..i - 1 : Answered(j)
                        /\ \E n \in 1..Start[i + 1] - written : written' = written + n
  BY DEF ClientWrites
<1>2. PICK n \in 1..Start[i + 1] - written : written' = written + n
  BY <1>1
<1>3. N \in Nat /\ i + 1 \in 1..N+1 /\ N + 1 \in 1..N+1
  BY Constants
<1>4. Start[i + 1] \in Nat /\ Start[N + 1] \in Nat /\ Start[i + 1] <= Start[N + 1]
  <2>1. CASE i = N
    BY <1>3, <2>1, StartGrows
  <2>2. CASE i # N
    <3>1. i + 1 < N + 1
      BY <1>3, <2>2
    <3> QED
      BY <1>3, <3>1, StartGrows, Constants
  <2> QED
    BY <2>1, <2>2
<1>5. written \in Nat
  BY DEF ConnInv, Counted
<1>6. /\ written' \in Nat /\ written < written' /\ written' <= Start[i + 1]
      /\ written' <= Start[N + 1]
  BY <1>2, <1>4, <1>5
<1> QED
  BY <1>1, <1>6

LEMMA ConnStep == ConnInv /\ [Next]_vars => ConnInv'
<1> SUFFICES ASSUME ConnInv, [Next]_vars PROVE ConnInv'
  OBVIOUS
<1>1. /\ written \in Nat /\ received \in Nat /\ received <= written
      /\ written <= Start[N + 1] /\ written <= written
  BY DEF ConnInv, Counted
<1>2. /\ client \in {"open", "fin", "reset"} /\ got \in Seq(Unit)
      /\ pc \in {"select", "read", "write", "poll", "close", "closed"}
      /\ ready \subseteq {"r", "w"}
  BY DEF ConnInv, Typed
<1>3. Output /\ Out \in OutSet /\ FileOK(Out.file)
  BY OutIs DEF ConnInv, Output
<1>4. UNCHANGED outVars => Output'
  BY <1>3 DEF outVars, Output, Out
<1>5. CASE UNCHANGED vars
  BY <1>1, <1>2, <1>4, <1>5, ConnKept DEF vars, inVars, histVars
<1>6. CASE ClientWrites /\ UNCHANGED plan
  BY <1>1, <1>2, <1>4, <1>6, ClientWritesIs, ConnKept DEF ClientWrites, inVars, histVars
<1>7. CASE ClientCloses /\ UNCHANGED plan
  BY <1>1, <1>2, <1>4, <1>7, ConnKept DEF ClientCloses, inVars, histVars
<1>8. CASE Select /\ UNCHANGED plan
  <2>1. PICK w \in SUBSET (IF send = <<>> THEN {} ELSE {"w"}) :
            ready' = w \cup (IF Readable THEN {"r"} ELSE {})
    BY <1>8 DEF Select
  <2>2. ready' \subseteq {"r", "w"}
    BY <2>1
  <2> QED
    BY <1>1, <1>2, <1>4, <1>8, <2>2, ConnKept DEF Select, inVars, histVars
<1>9. CASE ReadNothing /\ UNCHANGED plan
  BY <1>1, <1>2, <1>4, <1>9, ConnKept DEF ReadNothing, inVars, histVars
<1>10. CASE ReadData /\ UNCHANGED plan
  <2>1. PICK n \in 1..MinOf(RecvMax, written - received) :
            received' = received + n /\ Receive(n)
    BY <1>10 DEF ReadData
  <2>2. n \in Nat /\ n > 0 /\ received + n <= written
    BY <1>1, <2>1, Constants DEF MinOf
  <2>3. pc # "closed" /\ pc' = "write" /\ UNCHANGED <<plan, written, client, ready, got>>
    BY <1>10 DEF ReadData
  <2> QED
    BY <2>1, <2>2, <2>3, Received
<1>11. CASE ReadEnd /\ UNCHANGED plan
  <2>1. flags' \in {flags \cup {"SAC"}, flags \cup {"CI"}} /\ UNCHANGED <<send, file>>
    BY <1>11 DEF ReadEnd
  <2>2. Output'
    BY <1>3, <2>1, OutIs DEF Output, Out, OutSet
  <2> QED
    BY <1>1, <1>2, <1>11, <2>2, ConnKept DEF ReadEnd, inVars, histVars
<1>12. CASE SkipWrite /\ UNCHANGED plan
  BY <1>1, <1>2, <1>4, <1>12, ConnKept DEF SkipWrite, inVars, histVars
<1>13. CASE Write /\ UNCHANGED plan
  <2>1. send \in Seq(Unit)
    BY <1>3, OutIs
  <2>2. ASSUME NEW n \in 1..Len(send)
        PROVE  /\ got \o SubSeq(send, 1, n) \in Seq(Unit)
               /\ [Out EXCEPT !.send = SubSeq(@, n + 1, Len(@))] \in OutSet
               /\ FileOK([Out EXCEPT !.send = SubSeq(@, n + 1, Len(@))].file)
    <3> DEFINE x == SubSeq(send, n + 1, Len(send))
    <3>1. x \in Seq(Unit) /\ got \o SubSeq(send, 1, n) \in Seq(Unit)
      BY <1>2, <2>1, Written
    <3>2. [Out EXCEPT !.send = SubSeq(@, n + 1, Len(@))] = [Out EXCEPT !.send = x]
      BY OutIs, <1>3 DEF OutSet
    <3> HIDE DEF x
    <3> QED
      BY <1>3, <3>1, <3>2 DEF OutSet
  <2>3. Reject(Out) \in OutSet /\ FileOK(Reject(Out).file)
    <3> DEFINE fl == Out.flags \cup {"CI"}
    <3>1. Reject(Out) = [Out EXCEPT !.flags = fl] /\ fl \in SUBSET {"CI", "SAC"}
      BY <1>3 DEF Reject, OutSet
    <3> HIDE DEF fl
    <3> QED
      BY <1>3, <3>1 DEF OutSet
  <2>4. got' \in Seq(Unit) /\ Output'
    <3>1. CASE \E n \in 1..Len(send) :
                  /\ got' = got \o SubSeq(send, 1, n)
                  /\ Becomes(Transfer([Out EXCEPT !.send = SubSeq(@, n + 1, Len(@))]))
      BY <2>2, <3>1, TransferType, BecomesOut
    <3>2. CASE Becomes(Transfer(Reject(Out))) /\ UNCHANGED got
      BY <1>2, <2>3, <3>2, TransferType, BecomesOut
    <3> QED
      BY <1>13, <3>1, <3>2 DEF Write
  <2> QED
    BY <1>1, <1>2, <1>13, <2>4, ConnKept DEF Write, inVars, histVars
<1>14. CASE Poll /\ UNCHANGED plan
  <2>1. Output'
    BY <1>3, <1>14, TransferType, BecomesOut DEF Poll
  <2> QED
    BY <1>1, <1>2, <1>14, <2>1, ConnKept DEF Poll, inVars, histVars
<1>15. CASE KeepOpen /\ UNCHANGED plan
  BY <1>1, <1>2, <1>4, <1>15, ConnKept DEF KeepOpen, inVars, histVars
<1>16. CASE CloseConn /\ UNCHANGED plan
  BY <1>16, ConnClosed
<1> QED
  BY <1>5, <1>6, <1>7, <1>8, <1>9, <1>10, <1>11, <1>12, <1>13, <1>14, <1>15, <1>16
  DEF Next, Loop

\* The counters keep their order and every variable its domain, for any client
\* (mongoose.c:6271-6377).
THEOREM HttpConnTyped == Spec => []TypeOK
<1> QED
  BY ConnInit, ConnStep, ConnInvTyped, PTL DEF Spec

\* Requests are handed over once each and in order, however their bytes arrive, and
\* also by a client that does not wait (mongoose.c:6255-6268).
THEOREM HandedOverOnce == Spec => []DeliveredOnce
<1> QED
  BY ConnInit, ConnStep, ConnInvTyped, PTL DEF Spec

-----------------------------------------------------------------------------
(***************************************************************************)
(* For a client that waits: the output is a file's or a response's, of the *)
(* latest request; what was received belongs to the next one; and whatever *)
(* closes the connection at once finds every response delivered.           *)
(***************************************************************************)
\* The client sends no byte of a request before the earlier ones are answered.
Asked == \A i \in 1..N : written > Start[i] => \A j \in 1..i-1 : Answered(j)

OpenInv(d) ==
    /\ OutInv(got, Out, d, resplen)
    /\ \A i \in 1..N : i > d => resplen[i] = 0
    /\ rcvd = received - consumed
    /\ "CI" \notin flags /\ received - consumed >= HeadLen
            => MoreToCome(d + 1, received - consumed)
    /\ pc \in {"select", "read"} => "CI" \notin flags
    /\ "CI" \in flags /\ client # "reset" => \A j \in 1..d : Answered(j)
    /\ pc = "close" /\ "CI" \notin flags /\ file.open => send # <<>>

ClosedInv == NoTruncation /\ ResponsesInOrder /\ ~file.open

WaitInv ==
    /\ ConnInv
    /\ Asked
    /\ ~early
    /\ pc # "closed" => OpenInv(Len(delivered))
    /\ pc = "closed" => ClosedInv

LEMMA AnsweredIs ==
    ASSUME got \in Seq(Unit), NEW i
    PROVE  Answered(i) <=> /\ resplen[i] > 0
                           /\ \A p \in 1..resplen[i] :
                                 \E m \in 1..Len(got) : got[m] = At(i, p)
<1>1. DOMAIN got = 1..Len(got)
  OBVIOUS
<1>2. Answered(i) <=> /\ resplen[i] > 0
                      /\ \A p \in 1..resplen[i] :
                            \E m \in DOMAIN got : got[m] = At(i, p)
  BY DEF Answered, At
<1> QED
  BY <1>1, <1>2

LEMMA AnsweredStays ==
    ASSUME got \in Seq(Unit), got' \in Seq(Unit), Len(got) <= Len(got'),
           \A k \in 1..Len(got) : got'[k] = got[k],
           NEW i, resplen'[i] = resplen[i], Answered(i)
    PROVE  Answered(i)'
<1>1. 1..Len(got) \subseteq 1..Len(got')
  OBVIOUS
<1>2. DOMAIN got = 1..Len(got) /\ DOMAIN got' = 1..Len(got')
  OBVIOUS
<1> QED
  BY <1>1, <1>2 DEF Answered

LEMMA AnsweredEnds ==
    ASSUME got \in Seq(Unit), resplen \in [1..N -> Nat], NEW d \in 0..N,
           \A j \in 1..d : Answered(j)
    PROVE  Ended(got, d, resplen)
<1> SUFFICES ASSUME d > 0
             PROVE  /\ resplen[d] > 0
                    /\ \E m \in 1..Len(got) : got[m] = At(d, resplen[d])
  BY DEF Ended
<1>1. d \in 1..d /\ d \in 1..N
  BY Constants
<1>2. Answered(d) /\ resplen[d] \in Nat
  BY <1>1
<1>3. resplen[d] > 0 /\ \A p \in 1..resplen[d] :
                            \E m \in 1..Len(got) : got[m] = At(d, p)
  BY <1>2, AnsweredIs
<1>4. resplen[d] \in 1..resplen[d]
  BY <1>2, <1>3
<1> QED
  BY <1>3, <1>4

\* What the invariant says of the properties.
LEMMA FlowInOrder ==
    ASSUME NEW out \in Seq(Unit), NEW d, NEW q, NEW r, Flow(out, d, q, r),
           NEW k \in 1..Len(out) - 1
    PROVE  \/ out[k + 1] = <<out[k][1], out[k][2] + 1>>
           \/ out[k][1] < out[k + 1][1] /\ out[k + 1][2] = 1 /\ out[k][2] = r[out[k][1]]
<1>1. Follows(out[k], out[k + 1], r)
  BY DEF Flow
<1> QED
  BY <1>1 DEF Follows, At

LEMMA WaitInOrder == WaitInv => ResponsesInOrder
<1> SUFFICES ASSUME WaitInv, pc # "closed" PROVE ResponsesInOrder
  BY DEF WaitInv, ClosedInv
<1> DEFINE d == Len(delivered)
           out == got \o send
<1>1. Flow(out, d, Queued(file, d, resplen), resplen)
  BY OutIs DEF WaitInv, OpenInv, OutInv, OutOK
<1>2. got \in Seq(Unit) /\ send \in Seq(Unit)
  BY OutIs DEF WaitInv, ConnInv, Output, Typed
<1>3. out \in Seq(Unit)
  BY <1>2, ConcatProperties
<1> HIDE DEF out
<1>4. ASSUME NEW k \in 1..Len(out) - 1
      PROVE  \/ out[k + 1] = <<out[k][1], out[k][2] + 1>>
             \/ /\ out[k][1] < out[k + 1][1] /\ out[k + 1][2] = 1
                /\ out[k][2] = resplen[out[k][1]]
  BY <1>1, <1>3, FlowInOrder
<1> QED
  BY <1>4 DEF ResponsesInOrder, out

LEMMA WaitNothing == WaitInv => NothingWaits
<1> SUFFICES ASSUME WaitInv, pc = "select"
             PROVE  /\ rcvd = received - consumed
                    /\ ~early
                    /\ received > consumed /\ received - consumed >= HeadLen
                            => MoreToCome(Current, received - consumed)
  BY DEF NothingWaits
<1>1. OpenInv(Len(delivered)) /\ ConnInv /\ ~early
  BY DEF WaitInv
<1>2. ASSUME received > consumed PROVE Current = Len(delivered) + 1
  <2>1. 0 \in Nat /\ received + 0 <= written /\ received + 0 > consumed
    BY <1>1, <1>2 DEF ConnInv, Counted
  <2> QED
    BY <1>1, <2>1, OneMore
<1> QED
  BY <1>1, <1>2 DEF OpenInv

LEMMA WaitWhole == WaitInv => Whole
<1> SUFFICES ASSUME WaitInv PROVE NoTruncation /\ SendBounded
  BY DEF Whole
<1>1. NoTruncation
  BY DEF WaitInv, ClosedInv, NoTruncation
<1>2. CASE pc # "closed"
  <2>1. OutOK(got, Out, Len(delivered), resplen)
    BY <1>2 DEF WaitInv, OpenInv, OutInv
  <2> QED
    BY <1>1, <2>1, OutIs DEF OutOK, SendBounded
<1>3. CASE pc = "closed"
  BY <1>1, <1>3 DEF WaitInv, ClosedInv, SendBounded
<1> QED
  BY <1>2, <1>3

LEMMA WaitInit == Init => WaitInv
<1> SUFFICES ASSUME Init PROVE WaitInv
  OBVIOUS
<1>1. ConnInv
  BY ConnInit
<1>2. Asked
  <2>1. \A i \in 1..N : Start[i] \in Nat
    BY StartGrows, Constants
  <2> QED
    BY <2>1 DEF Init, Asked
<1>3. OpenInv(0)
  <2>1. OutInv(got, Out, 0, resplen)
    <3>1. got \o send = <<>>
      <4>1. got \in Seq(Unit) /\ send = <<>> /\ got = <<>>
        BY DEF Init
      <4> QED
        BY <4>1, ConcatEmptySeq
    <3>2. ~file.open /\ file.sent = 0
      BY NoFileType DEF Init
    <3>3. Len(got \o send) = 0
      BY <3>1
    <3>4. Flow(got \o send, 0, 0, resplen)
      <4> DEFINE out == got \o send
      <4>1. Len(out) = 0 /\ 1..0 = {} /\ 1..0 - 1 = {} /\ ~(0 > 0)
        BY <3>3
      <4> HIDE DEF out
      <4>2. Flow(out, 0, 0, resplen)
        BY <4>1 DEF Flow
      <4> QED
        BY <4>2 DEF out
    <3> QED
      BY <3>2, <3>4, OutIs DEF OutInv, OutOK, Queued
  <2>2. \A i \in 1..N : resplen[i] = 0
    BY DEF Init
  <2> QED
    BY <2>1, <2>2, Constants DEF Init, OpenInv
<1>4. Len(delivered) = 0 /\ ~early /\ pc # "closed"
  BY DEF Init
<1> QED
  BY <1>1, <1>2, <1>3, <1>4 DEF WaitInv

\* What has been answered stays answered.
LEMMA AskedStays ==
    ASSUME WaitInv, ConnInv', Len(got) <= Len(got'),
           \A k \in 1..Len(got) : got'[k] = got[k],
           \A i \in 1..N : resplen'[i] = resplen[i] \/ resplen[i] = 0
    PROVE  /\ \A i \in 1..N : Answered(i) => Answered(i)'
           /\ written' = written => Asked'
<1>1. got \in Seq(Unit) /\ got' \in Seq(Unit)
  BY DEF WaitInv, ConnInv, Typed
<1>2. ASSUME NEW i \in 1..N, Answered(i) PROVE Answered(i)'
  <2>1. resplen'[i] = resplen[i]
    BY <1>2 DEF Answered
  <2> QED
    BY <1>1, <1>2, <2>1, AnsweredStays
<1>3. ASSUME written' = written PROVE Asked'
  <2>1. ASSUME NEW i \in 1..N, NEW j \in 1..i - 1 PROVE j \in 1..N
    BY Constants
  <2> QED
    BY <1>2, <1>3, <2>1 DEF WaitInv, Asked
<1> QED
  BY <1>2, <1>3

\* A step that leaves the client's side, the requests and the output alone, or moves
\* only flags.
LEMMA WaitSame ==
    ASSUME WaitInv, ConnInv', pc # "closed", pc' # "closed",
           UNCHANGED <<plan, written, received, consumed, rcvd, delivered, resplen, early,
                       got, send, file>>,
           "CI" \notin flags' => "CI" \notin flags,
           pc' \in {"select", "read"} => "CI" \notin flags',
           "CI" \in flags' /\ client' # "reset" => "CI" \in flags /\ client # "reset",
           pc' = "close" /\ "CI" \notin flags' /\ file.open => send # <<>>
    PROVE  WaitInv'
<1> DEFINE d == Len(delivered)
<1>1. OpenInv(d) /\ got \in Seq(Unit)
  BY DEF WaitInv, ConnInv, Typed
<1>2. Asked' /\ \A i \in 1..N : Answered(i) => Answered(i)'
  BY <1>1, AskedStays
<1>3. OutInv(got', Out', d, resplen')
  <2>1. OutInv(got, Out, d, resplen)
    BY <1>1 DEF OpenInv
  <2>2. Out'.send = Out.send /\ Out'.file = Out.file
    BY DEF Out
  <2>3. OutInv(got, Out', d, resplen)
    BY <2>1, <2>2, FlagsAside
  <2> QED
    BY <2>3
<1>4. \A j \in 1..d : j \in 1..N
  BY Constants DEF WaitInv, ConnInv, Handed
<1>5. MoreToCome(d + 1, received - consumed)' <=> MoreToCome(d + 1, received - consumed)
  BY DEF MoreToCome, Announced
<1>6. OpenInv(d)'
  BY <1>1, <1>2, <1>3, <1>4, <1>5 DEF OpenInv
<1> QED
  BY <1>2, <1>6 DEF WaitInv

LEMMA MoreSame ==
    ASSUME plan' = plan, NEW i, NEW r
    PROVE  MoreToCome(i, r)' <=> MoreToCome(i, r)
BY DEF MoreToCome, Announced

LEMMA Transferred ==
    ASSUME NEW g \in Seq(Unit), NEW o \in OutSet, FileOK(o.file), NEW d \in 0..N,
           NEW r \in [1..N -> Nat], OutInv(g, o, d, r),
           NEW t, t = Transfer(o)
    PROVE  /\ OutInv(g, t, d, r) /\ t \in OutSet /\ FileOK(t.file)
           /\ t.file.open => t.send # <<>>
           /\ "CI" \in t.flags <=> "CI" \in o.flags
<1>1. OutOK(g, o, d, r)
  BY DEF OutInv
<1>2. OutInv(g, Transfer(o), d, r) /\ (Transfer(o).file.open => Transfer(o).send # <<>>)
  BY <1>1, TransferKeeps
<1>3. /\ Transfer(o) \in OutSet /\ FileOK(Transfer(o).file)
      /\ o.flags \subseteq Transfer(o).flags
      /\ "CI" \in Transfer(o).flags => "CI" \in o.flags
  BY TransferType
<1> QED
  BY <1>2, <1>3

\* A step that moves the output on.
LEMMA WaitOutput ==
    ASSUME WaitInv, ConnInv', pc # "closed", pc' \in {"poll", "close"},
           UNCHANGED <<plan, written, client, received, consumed, rcvd, delivered, resplen,
                       early>>,
           Len(got) <= Len(got'), \A k \in 1..Len(got) : got'[k] = got[k],
           OutInv(got', Out', Len(delivered), resplen),
           "CI" \in flags => "CI" \in flags',
           "CI" \in flags' /\ client # "reset" => "CI" \in flags,
           pc' = "close" /\ file'.open => send' # <<>>
    PROVE  WaitInv'
<1> DEFINE d == Len(delivered)
<1>1. OpenInv(d)
  BY DEF WaitInv
<1>2. Asked' /\ \A i \in 1..N : Answered(i) => Answered(i)'
  BY AskedStays
<1>3. \A j \in 1..d : j \in 1..N
  BY Constants DEF WaitInv, ConnInv, Handed
<1>4. MoreToCome(d + 1, received - consumed)' <=> MoreToCome(d + 1, received - consumed)
  BY DEF MoreToCome, Announced
<1>5. OpenInv(d)'
  BY <1>1, <1>2, <1>3, <1>4 DEF OpenInv
<1> QED
  BY <1>2, <1>5 DEF WaitInv

LEMMA OutputMoved ==
    ASSUME WaitInv, pc # "closed"
    PROVE  /\ Out \in OutSet /\ FileOK(Out.file) /\ got \in Seq(Unit)
           /\ Len(delivered) \in 0..N /\ resplen \in [1..N -> Nat]
           /\ OutInv(got, Out, Len(delivered), resplen)
<1>1. Len(delivered) \in 0..N
  BY Constants DEF WaitInv, ConnInv, Handed
<1> QED
  BY <1>1, OutIs DEF WaitInv, ConnInv, Typed, Output, OpenInv

LEMMA WaitPoll ==
    ASSUME WaitInv, ConnInv', Poll, UNCHANGED plan
    PROVE  WaitInv'
<1> DEFINE d == Len(delivered)
           t == Transfer(Out)
<1>1. pc = "poll" /\ pc' = "close" /\ Becomes(t)
      /\ UNCHANGED <<plan, written, client, received, consumed, rcvd, delivered, resplen,
                     early, got>>
  BY DEF Poll, inVars, histVars
<1>2. /\ Out \in OutSet /\ FileOK(Out.file) /\ got \in Seq(Unit)
      /\ d \in 0..N /\ resplen \in [1..N -> Nat]
      /\ OutInv(got, Out, d, resplen)
  BY <1>1, OutputMoved
<1>3. /\ OutInv(got, t, d, resplen) /\ t \in OutSet /\ FileOK(t.file)
      /\ t.file.open => t.send # <<>>
      /\ "CI" \in t.flags <=> "CI" \in Out.flags
  BY <1>2, Transferred
<1> HIDE DEF t
<1>4. Out' = t /\ send' = t.send /\ file' = t.file /\ flags' = t.flags
  BY <1>1, <1>3, BecomesOut DEF Becomes
<1> QED
  BY <1>1, <1>2, <1>3, <1>4, OutIs, WaitOutput

LEMMA WaitWrite ==
    ASSUME WaitInv, ConnInv', Write, UNCHANGED plan
    PROVE  WaitInv'
<1> DEFINE d == Len(delivered)
<1>1. /\ pc = "write" /\ pc' = "poll" /\ "CI" \notin flags
      /\ UNCHANGED <<plan, written, client, received, consumed, rcvd, delivered, resplen,
                     early>>
  BY DEF Write, inVars, histVars
<1>2. /\ Out \in OutSet /\ FileOK(Out.file) /\ got \in Seq(Unit)
      /\ d \in 0..N /\ resplen \in [1..N -> Nat]
      /\ OutInv(got, Out, d, resplen)
      /\ send \in Seq(Unit)
  BY <1>1, OutputMoved, OutIs
<1>3. ASSUME NEW n \in 1..Len(send), client # "reset",
             got' = got \o SubSeq(send, 1, n),
             Becomes(Transfer([Out EXCEPT !.send = SubSeq(@, n + 1, Len(@))]))
      PROVE  WaitInv'
  <2> DEFINE x == SubSeq(send, n + 1, Len(send))
             o == [Out EXCEPT !.send = SubSeq(@, n + 1, Len(@))]
             t == Transfer(o)
  <2>1. /\ x \in Seq(Unit) /\ got' \in Seq(Unit) /\ Len(got) <= Len(got')
        /\ \A k \in 1..Len(got) : got'[k] = got[k]
    BY <1>2, <1>3, Written, SMTT(30)
  <2>2. o \in OutSet /\ o.send = x /\ o.file = Out.file /\ o.flags = Out.flags
    <3>1. o = [Out EXCEPT !.send = x]
      BY <1>2, OutIs DEF OutSet
    <3> HIDE DEF x, o
    <3> QED
      BY <1>2, <2>1, <3>1 DEF OutSet
  <2> HIDE DEF o
  <2>3. OutInv(got', o, d, resplen)
    <3>1. Out.send = send
      BY OutIs
    <3>2. o.send = SubSeq(Out.send, n + 1, Len(Out.send)) /\ n \in 1..Len(Out.send)
          /\ got' = got \o SubSeq(Out.send, 1, n)
      BY <1>3, <2>2, <3>1
    <3> QED
      BY <1>2, <2>2, <3>2, WriteKeeps
  <2>4. /\ OutInv(got', t, d, resplen) /\ t \in OutSet /\ FileOK(t.file)
        /\ "CI" \in t.flags <=> "CI" \in o.flags
    BY <1>2, <2>1, <2>2, <2>3, Transferred
  <2> HIDE DEF t
  <2>5. Becomes(t)
    BY <1>3 DEF t, o
  <2>6. Out' = t /\ send' = t.send /\ file' = t.file /\ flags' = t.flags
    BY <2>4, <2>5, BecomesOut DEF Becomes
  <2>7. Out.flags = flags
    BY OutIs
  <2> QED
    BY <1>1, <1>2, <2>1, <2>2, <2>4, <2>6, <2>7, WaitOutput
<1>4. ASSUME client = "reset", Becomes(Transfer(Reject(Out))), UNCHANGED got
      PROVE  WaitInv'
  <2> DEFINE o == Reject(Out)
             t == Transfer(o)
             fl == flags \cup {"CI"}
  <2>1. o \in OutSet /\ o.send = Out.send /\ o.file = Out.file
    <3>1. o = [Out EXCEPT !.flags = fl] /\ fl \in SUBSET {"CI", "SAC"}
      BY <1>2, OutIs DEF Reject
    <3> HIDE DEF fl, o
    <3> QED
      BY <1>2, <3>1 DEF OutSet
  <2>2. OutInv(got, o, d, resplen)
    BY <1>2, <2>1, FlagsAside
  <2> HIDE DEF o
  <2>3. /\ OutInv(got, t, d, resplen) /\ t \in OutSet /\ FileOK(t.file)
    BY <1>2, <2>1, <2>2, Transferred
  <2> HIDE DEF t
  <2>4. Becomes(t)
    BY <1>4 DEF t, o
  <2>5. Out' = t
    BY <2>3, <2>4, BecomesOut
  <2> QED
    BY <1>1, <1>2, <1>4, <2>3, <2>5, WaitOutput
<1> QED
  BY <1>3, <1>4 DEF Write

\* Reading: what arrives is of the request after the last one that was handed over.
LEMMA WaitReceived ==
    ASSUME ~Pipelining, WaitInv, ConnInv', pc = "read", pc' = "write",
           NEW n \in Nat, n > 0, received + n <= written,
           received' = received + n, Receive(n),
           UNCHANGED <<plan, written, client, ready, got>>
    PROVE  WaitInv'
<1> DEFINE o == Transfer(Out)
           i == Current
           d == Len(delivered)
<1>1. /\ written \in Nat /\ received \in Nat /\ consumed \in Nat /\ rcvd \in Nat
      /\ consumed + rcvd <= received /\ received <= written
      /\ written <= Start[N + 1]
  BY DEF WaitInv, ConnInv, Counted
<1>2. i \in 1..N /\ i = d + 1 /\ consumed = Start[i] /\ d \in 0..N /\ d \in 0..N - 1
  <2>1. received + n > consumed
    BY <1>1
  <2>2. i \in 1..N /\ i = d + 1 /\ consumed = Start[i] /\ d \in 0..N
    BY <2>1, OneMore DEF WaitInv
  <2> HIDE DEF i, d
  <2> QED
    BY <2>2, Constants
<1>3. /\ OutInv(got, o, d, resplen) /\ o \in OutSet /\ FileOK(o.file)
      /\ "CI" \in o.flags <=> "CI" \in flags
      /\ got \in Seq(Unit) /\ resplen \in [1..N -> Nat]
  <2>1. /\ Out \in OutSet /\ FileOK(Out.file) /\ got \in Seq(Unit)
        /\ Len(delivered) \in 0..N /\ resplen \in [1..N -> Nat]
        /\ OutInv(got, Out, Len(delivered), resplen)
    BY OutputMoved
  <2> QED
    BY <2>1, OutIs, Transferred
<1> HIDE DEF o, i
<1>4. /\ "CI" \notin flags /\ ~early /\ rcvd = received - consumed
      /\ \A j \in 1..N : j > d => resplen[j] = 0
      /\ "CI" \notin o.flags
  BY <1>3 DEF WaitInv, OpenInv
<1>5. \A j \in 1..d : j \in 1..N /\ Answered(j)
  <2>1. written > Start[i]
    BY <1>1, <1>2
  <2>2. \A j \in 1..i - 1 : Answered(j)
    BY <1>2, <2>1 DEF WaitInv, Asked
  <2> QED
    BY <1>2, <2>2, Constants
<1>6. /\ \A j \in 1..N : resplen'[j] = resplen[j] \/ resplen[j] = 0
      => Asked' /\ \A j \in 1..N : Answered(j) => Answered(j)'
  BY <1>3, AskedStays
<1>7. rcvd + n = received + n - consumed
  BY <1>1, <1>4
<1>8. ASSUME NEW t, t \in OutSet, OutInv(got, t, d, resplen), Becomes(t), FileOK(t.file),
             rcvd' = rcvd + n, UNCHANGED <<consumed, delivered, resplen>>, ~early',
             "CI" \in t.flags \/ received + n - consumed < HeadLen
                \/ MoreToCome(i, received + n - consumed)
      PROVE  WaitInv'
  <2>1. Out' = t /\ flags' = t.flags
    BY <1>8, BecomesOut DEF Becomes
  <2>2. Asked' /\ \A j \in 1..N : Answered(j) => Answered(j)'
    BY <1>6, <1>8
  <2>3. /\ consumed' = consumed /\ delivered' = delivered /\ resplen' = resplen
        /\ rcvd' = rcvd + n /\ received' = received + n /\ d' = d
    BY <1>8
  <2>4. \A j \in 1..d : Answered(j)'
    BY <1>5, <2>2
  <2>5. "CI" \notin flags' /\ received' - consumed' >= HeadLen
            => MoreToCome(d + 1, received - consumed)'
    <3> SUFFICES ASSUME "CI" \notin t.flags, received + n - consumed >= HeadLen
                 PROVE  MoreToCome(d + 1, received - consumed)'
      BY <1>1, <2>1, <2>3
    <3>1. MoreToCome(d + 1, received + n - consumed)
      <4>1. ~(received + n - consumed < HeadLen)
        BY <1>1, Constants
      <4> QED
        BY <1>2, <1>8, <4>1
    <3>2. received' - consumed' = received + n - consumed
      BY <1>1, <2>3
    <3> QED
      BY <2>3, <3>1, <3>2 DEF MoreToCome, Announced
  <2>6. rcvd' = received' - consumed'
    BY <1>1, <1>7, <2>3
  <2>7. OpenInv(d)'
    BY <1>4, <1>8, <2>1, <2>3, <2>4, <2>5, <2>6 DEF OpenInv
  <2> QED
    BY <1>8, <2>2, <2>7 DEF WaitInv
<1>9. /\ Reject(o) \in OutSet /\ FileOK(Reject(o).file)
      /\ OutInv(got, Reject(o), d, resplen) /\ "CI" \in Reject(o).flags
  <2> DEFINE fl == o.flags \cup {"CI"}
             t == Reject(o)
  <2>1. t = [o EXCEPT !.flags = fl] /\ fl \in SUBSET {"CI", "SAC"} /\ "CI" \in fl
    BY <1>3 DEF Reject, OutSet
  <2> HIDE DEF fl, t
  <2>2. t \in OutSet /\ t.send = o.send /\ t.file = o.file /\ t.flags = fl
    BY <1>3, <2>1 DEF OutSet
  <2>3. OutInv(got, t, d, resplen)
    BY <1>3, <2>2, FlagsAside
  <2> QED
    BY <1>3, <2>1, <2>2, <2>3 DEF t
<1>10. CASE Incomplete(o, i, n)
  <2> DEFINE t == IF received + n - consumed >= HeadMax THEN Reject(o) ELSE o
  <2>1. t \in OutSet /\ FileOK(t.file) /\ OutInv(got, t, d, resplen)
    BY <1>3, <1>9
  <2>2. /\ Becomes(t) /\ rcvd' = rcvd + n /\ received + n - consumed < HeadLen
        /\ UNCHANGED <<consumed, delivered, resplen>> /\ ~early'
    BY <1>4, <1>10 DEF Incomplete, histVars
  <2> HIDE DEF t
  <2> QED
    BY <1>8, <2>1, <2>2
<1>11. CASE Invalid(o, i, n)
  BY <1>4, <1>8, <1>9, <1>11 DEF Invalid, histVars
<1>12. CASE Chunk(o, i, n)
  <2>1. MoreToCome(i, received + n - consumed) /\ ~early'
    BY <1>4, <1>7, <1>12 DEF Chunk
  <2> QED
    BY <1>3, <1>8, <1>12, <2>1 DEF Chunk
<1>13. CASE Dispatch(o, i, n)
  <2>1. PICK app \in Apps, ka \in BOOLEAN :
            /\ Becomes(Respond(o, i, app, ka))
            /\ resplen' = [resplen EXCEPT ![i] = ResponseLen(i, app)]
    BY <1>13 DEF Dispatch
  <2>2. /\ delivered' = Append(delivered, i)
        /\ consumed' = consumed + MessageLen(i) /\ rcvd' = 0 /\ early' = early
        /\ ~MoreToCome(i, rcvd + n)
    BY <1>13 DEF Dispatch
  <2> DEFINE t == Respond(o, i, app, ka)
             w == ResponseLen(i, app)
  <2>3. /\ t \in OutSet /\ FileOK(t.file) /\ "CI" \notin t.flags
        /\ OutInv(got, t, i, resplen')
    <3>1. Ended(got, d, resplen)
      BY <1>2, <1>3, <1>5, AnsweredEnds
    <3>2. OutInv(got, t, i, [resplen EXCEPT ![i] = w])
      BY <1>2, <1>3, <3>1, RespondKeeps
    <3> QED
      BY <1>2, <1>3, <1>4, <2>1, <3>2, RespondType
  <2>4. w \in Nat
    BY <1>2, ResponseLens
  <2> HIDE DEF t, w
  <2>5. Out' = t /\ flags' = t.flags
    BY <2>1, <2>3, BecomesOut DEF Becomes, t
  <2>6. \A j \in 1..N : j # i => resplen'[j] = resplen[j]
    BY <1>2, <1>3, <2>1
  <2>7. resplen[i] = 0
    BY <1>2, <1>4
  <2>8. Asked' /\ \A j \in 1..N : Answered(j) => Answered(j)'
    BY <1>6, <2>6, <2>7
  <2>9. Len(delivered') = i
    BY <1>2, <2>2, HandOver DEF WaitInv, ConnInv, Handed
  <2>10. \A j \in 1..N : j > i => resplen'[j] = 0
    BY <1>2, <1>4, <2>6
  <2>11. received + n = consumed + MessageLen(i)
    <3>1. MessageLen(i) <= rcvd + n /\ MessageLen(i) \in Nat
      <4>1. MessageLen(i) \in Nat
        BY <1>2, Lengths
      <4> QED
        BY <1>1, <2>2, <4>1 DEF MoreToCome
    <3>2. Start[i + 1] = consumed + MessageLen(i)
      BY <1>2, StartGrows
    <3>3. written <= Start[i + 1]
      <4>1. CASE i = N
        BY <1>1, <4>1
      <4>2. CASE i # N
        <5>1. i + 1 \in 1..N /\ i \in 1..(i + 1) - 1
          BY <1>2, <4>2, Constants
        <5>2. ~Answered(i)
          BY <2>7 DEF Answered
        <5>3. ~(written > Start[i + 1])
          BY <5>1, <5>2 DEF WaitInv, Asked
        <5> QED
          BY <1>1, <3>1, <3>2, <5>3
      <4> QED
        BY <4>1, <4>2
    <3> QED
      BY <1>1, <1>7, <3>1, <3>2, <3>3
  <2>12. rcvd' = received' - consumed' /\ ~(received' - consumed' >= HeadLen)
    <3>1. MessageLen(i) \in Nat
      BY <1>2, Lengths
    <3> QED
      BY <1>1, <2>2, <2>11, <3>1, Constants
  <2>13. OpenInv(Len(delivered))'
    BY <2>3, <2>5, <2>9, <2>10, <2>12 DEF OpenInv
  <2> QED
    BY <1>4, <2>2, <2>8, <2>13 DEF WaitInv
<1> QED
  BY <1>10, <1>11, <1>12, <1>13 DEF Receive, o, i

LEMMA WaitClosed ==
    ASSUME WaitInv, ConnInv', CloseConn, UNCHANGED plan
    PROVE  WaitInv'
<1> DEFINE d == Len(delivered)
<1>1. /\ pc = "close" /\ pc' = "closed" /\ send' = <<>> /\ file' = NoFile /\ MustClose
      /\ UNCHANGED <<written, client, resplen, early, got, plan>>
  BY DEF CloseConn
<1>2. OpenInv(d)
  BY <1>1 DEF WaitInv
<1>3. Asked' /\ \A i \in 1..N : Answered(i) => Answered(i)'
  BY <1>1, AskedStays
<1>4. /\ got \in Seq(Unit) /\ send \in Seq(Unit) /\ resplen \in [1..N -> Nat]
      /\ d \in 0..N
  BY <1>1, OutputMoved, OutIs
<1>5. OutInv(got, Out, d, resplen) /\ \A i \in 1..N : i > d => resplen[i] = 0
  BY <1>2 DEF OpenInv
<1>6. Flow(got \o send, d, Queued(file, d, resplen), resplen)
  BY <1>5, OutIs DEF OutInv, OutOK
<1>7. ASSUME client # "reset", NEW i \in 1..N, resplen[i] > 0 PROVE Answered(i)
  <2>1. i \in 1..d
    <3>1. ~(i > d)
      BY <1>5, <1>7
    <3> QED
      BY <1>4, <3>1, Constants
  <2>2. CASE "CI" \in flags
    BY <1>2, <1>7, <2>1, <2>2 DEF OpenInv
  <2>3. CASE "CI" \notin flags /\ i < d
    <3>1. written > Start[d]
      <4>1. d \in 1..N+1 /\ d + 1 \in 1..N+1 /\ d < d + 1
        BY <1>4, <2>1, Constants
      <4>2. Start[d] \in Nat /\ Start[d + 1] \in Nat /\ Start[d] + HeadLen <= Start[d + 1]
        BY <4>1, StartGrows
      <4>3. /\ consumed = Start[d + 1] /\ written \in Nat /\ received \in Nat
            /\ rcvd \in Nat
            /\ consumed + rcvd <= received /\ received <= written
        BY <1>1 DEF WaitInv, ConnInv, Handed, Counted
      <4> HIDE DEF d
      <4> QED
        BY <4>2, <4>3, Constants
    <3>2. d \in 1..N /\ i \in 1..d - 1
      BY <1>4, <2>1, <2>3, Constants
    <3> QED
      BY <3>1, <3>2 DEF WaitInv, Asked
  <2>4. CASE "CI" \notin flags /\ i = d
    <3>1. send = <<>>
      BY <1>1, <2>4 DEF MustClose
    <3>2. ~file.open
      BY <1>1, <1>2, <2>4, <3>1 DEF OpenInv
    <3>3. Queued(file, d, resplen) = resplen[d]
      BY <2>1, <3>2, Constants DEF Queued
    <3>4. got \o send = got
      BY <1>4, <3>1, ConcatEmptySeq
    <3>5. \A p \in 1..resplen[d] : \E m \in 1..Len(got) : got[m] = At(d, p)
      BY <1>6, <3>3, <3>4 DEF Flow
    <3> QED
      BY <1>4, <1>7, <2>4, <3>5, AnsweredIs
  <2> QED
    BY <1>4, <2>1, <2>2, <2>3, <2>4
<1>8. NoTruncation'
  BY <1>1, <1>3, <1>7 DEF NoTruncation
<1>9. ResponsesInOrder'
  <2> DEFINE out == got \o send
  <2>1. out \in Seq(Unit) /\ Len(out) = Len(got) + Len(send)
        /\ \A k \in 1..Len(got) : out[k] = got[k]
    BY <1>4, ConcatProperties
  <2>2. Flow(out, d, Queued(file, d, resplen), resplen)
    BY <1>6
  <2> HIDE DEF out
  <2>3. ASSUME NEW k \in 1..Len(got) - 1
        PROVE  \/ got[k + 1] = <<got[k][1], got[k][2] + 1>>
               \/ /\ got[k][1] < got[k + 1][1] /\ got[k + 1][2] = 1
                  /\ got[k][2] = resplen[got[k][1]]
    <3>1. k \in 1..Len(out) - 1 /\ k \in 1..Len(got) /\ k + 1 \in 1..Len(got)
      BY <1>4, <2>1
    <3>2. out[k] = got[k] /\ out[k + 1] = got[k + 1]
      BY <2>1, <3>1
    <3> QED
      BY <2>1, <2>2, <3>1, <3>2, FlowInOrder, SMTT(30)
  <2>4. got' \o send' = got
    BY <1>1, <1>4, ConcatEmptySeq
  <2> QED
    BY <1>1, <2>3, <2>4 DEF ResponsesInOrder
<1>10. ~file'.open
  BY <1>1, NoFileType
<1> QED
  BY <1>1, <1>3, <1>8, <1>9, <1>10 DEF WaitInv, ClosedInv

LEMMA WaitStep ==
    ASSUME ~Pipelining, WaitInv, [Next]_vars
    PROVE  WaitInv'
<1>1. ConnInv' /\ ConnInv
  BY ConnStep DEF WaitInv
<1>2. pc # "closed" => OpenInv(Len(delivered)) /\ got \in Seq(Unit)
  BY DEF WaitInv, ConnInv, Typed
<1>3. CASE UNCHANGED vars
  <2>1. UNCHANGED <<plan, written, client, received, consumed, rcvd, send, file, flags, pc,
                    delivered, resplen, early, got>>
    BY <1>3 DEF vars, inVars, outVars, histVars
  <2>2. CASE pc = "closed"
    <3>1. Asked'
      BY <1>1, <2>1, AskedStays DEF ConnInv, Typed
    <3>2. ClosedInv'
      BY <2>1, <2>2 DEF WaitInv, ClosedInv, NoTruncation, ResponsesInOrder, Answered
    <3> QED
      BY <1>1, <2>1, <2>2, <3>1, <3>2 DEF WaitInv
  <2>3. CASE pc # "closed"
    BY <1>1, <1>2, <2>1, <2>3, WaitSame DEF OpenInv
  <2> QED
    BY <2>2, <2>3
<1>4. CASE ClientWrites /\ UNCHANGED plan
  <2>1. PICK i \in 1..N : /\ Start[i] <= written /\ written < Start[i + 1]
                          /\ written' <= Start[i + 1]
                          /\ \A j \in 1..i - 1 : Answered(j)
    BY <1>1, <1>4, ClientWritesIs
  <2>2. /\ pc # "closed" /\ pc' = pc
        /\ UNCHANGED <<plan, client, received, consumed, rcvd, send, file, flags,
                       delivered, resplen, early, got>>
    BY <1>4 DEF ClientWrites, inVars, outVars, histVars
  <2>3. \A k \in 1..N : Answered(k) => Answered(k)'
    BY <1>1, <1>2, <2>2, AskedStays
  <2>4. ASSUME NEW k \in 1..N, written' > Start[k], NEW j \in 1..k - 1
        PROVE  Answered(j)'
    <3>1. k <= i
      <4> SUFFICES ASSUME i < k PROVE FALSE
        BY Constants
      <4>1. i + 1 \in 1..N+1 /\ k \in 1..N+1 /\ (i + 1 = k \/ i + 1 < k)
        BY Constants
      <4>2. Start[i + 1] \in Nat /\ Start[k] \in Nat /\ Start[i + 1] <= Start[k]
        <5>1. i + 1 < k => Start[i + 1] + HeadLen <= Start[k]
          BY <4>1, StartGrows
        <5>2. Start[i + 1] \in Nat /\ Start[k] \in Nat
          BY <4>1, StartGrows
        <5> QED
          BY <4>1, <5>1, <5>2, Constants
      <4>3. written' \in Nat
        BY <1>1 DEF ConnInv, Counted
      <4> QED
        BY <2>1, <2>4, <4>2, <4>3
    <3>2. j \in 1..i - 1 /\ j \in 1..N
      BY <2>4, <3>1, Constants
    <3> QED
      BY <2>1, <2>3, <3>2
  <2>5. Asked'
    BY <2>4 DEF Asked
  <2>6. OpenInv(Len(delivered))'
    <3>1. \A j \in 1..Len(delivered) : j \in 1..N
      BY <1>1, Constants DEF ConnInv, Handed
    <3>2. OutInv(got', Out', Len(delivered'), resplen')
          <=> OutInv(got, Out, Len(delivered), resplen)
      BY <2>2 DEF Out
    <3> QED
      BY <1>2, <2>2, <2>3, <3>1, <3>2 DEF OpenInv, MoreToCome, Announced
  <2> QED
    BY <1>1, <2>2, <2>5, <2>6 DEF WaitInv
<1>5. CASE ClientCloses /\ UNCHANGED plan
  BY <1>1, <1>2, <1>5, WaitSame DEF ClientCloses, inVars, outVars, histVars, OpenInv
<1>6. CASE Select /\ UNCHANGED plan
  BY <1>1, <1>2, <1>6, WaitSame DEF Select, inVars, outVars, histVars, OpenInv
<1>7. CASE ReadNothing /\ UNCHANGED plan
  BY <1>1, <1>2, <1>7, WaitSame DEF ReadNothing, inVars, outVars, histVars, OpenInv
<1>8. CASE ReadData /\ UNCHANGED plan
  <2>1. PICK n \in 1..MinOf(RecvMax, written - received) :
            received' = received + n /\ Receive(n)
    BY <1>8 DEF ReadData
  <2>2. n \in Nat /\ n > 0 /\ received + n <= written
    BY <1>1, <2>1, Constants DEF MinOf, ConnInv, Counted
  <2>3. pc = "read" /\ pc' = "write" /\ UNCHANGED <<plan, written, client, ready, got>>
    BY <1>8 DEF ReadData
  <2> QED
    BY <1>1, <2>1, <2>2, <2>3, WaitReceived
<1>9. CASE ReadEnd /\ UNCHANGED plan
  BY <1>1, <1>2, <1>9, WaitSame DEF ReadEnd, inVars, histVars, OpenInv
<1>10. CASE SkipWrite /\ UNCHANGED plan
  BY <1>1, <1>2, <1>10, WaitSame DEF SkipWrite, inVars, outVars, histVars, OpenInv
<1>11. CASE Write /\ UNCHANGED plan
  BY <1>1, <1>11, WaitWrite
<1>12. CASE Poll /\ UNCHANGED plan
  BY <1>1, <1>12, WaitPoll
<1>13. CASE KeepOpen /\ UNCHANGED plan
  BY <1>1, <1>2, <1>13, WaitSame
  DEF KeepOpen, MustClose, inVars, outVars, histVars, OpenInv
<1>14. CASE CloseConn /\ UNCHANGED plan
  BY <1>1, <1>14, WaitClosed
<1> QED
  BY <1>3, <1>4, <1>5, <1>6, <1>7, <1>8, <1>9, <1>10, <1>11, <1>12, <1>13, <1>14
  DEF Next, Loop

LEMMA WaitingInvariant ==
    ASSUME ~Pipelining
    PROVE  Spec => []WaitInv
<1>1. WaitInv /\ [Next]_vars => WaitInv'
  BY WaitStep
<1> QED
  BY <1>1, WaitInit, PTL DEF Spec

\* To a client that waits, responses leave whole and in order, never mixed, although a
\* file is sent a bufferful at a time (mongoose.c:6008-6029), and requests are handed
\* over once each and in order.
THEOREM OrderKept ==
    ASSUME ~Pipelining
    PROVE  Spec => []InOrder
<1>1. WaitInv => InOrder
  BY WaitInOrder, ConnInvTyped DEF WaitInv, InOrder
<1> QED
  BY <1>1, WaitingInvariant, PTL

\* Between two polls a request that is wholly buffered was handed over
\* (mongoose.c:6360-6376).
THEOREM NothingEverWaits ==
    ASSUME ~Pipelining
    PROVE  Spec => []NothingWaits
<1> QED
  BY WaitNothing, WaitingInvariant, PTL

\* A connection that ends although its client is there has sent every response it began
\* to the last byte, and a file takes a bufferful of memory (mongoose.c:3611-3613,
\* 3927-3933, 6003-6009).
THEOREM ResponsesWhole ==
    ASSUME ~Pipelining
    PROVE  Spec => []Whole
<1> QED
  BY WaitWhole, WaitingInvariant, PTL

-----------------------------------------------------------------------------
(***************************************************************************)
(* For a client that waits, the connection implements RequestReply: bytes  *)
(* that complete a request send it, its dispatch delivers it, and the      *)
(* bytes that complete a response answer it.                               *)
(***************************************************************************)
PhaseOf(i) ==
    IF Answered(i) THEN "answered"
    ELSE IF i <= Len(delivered) THEN "delivered"
    ELSE IF written >= Start[i + 1] THEN "sent"
    ELSE "unsent"

LEMMA PhaseIs ==
    /\ MCPhase = [i \in 1..N |-> PhaseOf(i)]
    /\ MCPhase' = [i \in 1..N |-> PhaseOf(i)']
BY DEF MCPhase, PhaseOf

LEMMA PhaseMoves ==
    ASSUME NEW e \in 1..N, \A i \in 1..N : i # e => PhaseOf(i)' = PhaseOf(i),
           NEW x, PhaseOf(e)' = x
    PROVE  MCPhase' = [MCPhase EXCEPT ![e] = x]
<1> DEFINE F(i) == PhaseOf(i)
           G(i) == PhaseOf(i)'
<1>1. MCPhase = [i \in 1..N |-> F(i)] /\ MCPhase' = [i \in 1..N |-> G(i)]
  BY PhaseIs
<1>2. \A i \in 1..N : i # e => G(i) = F(i)
  OBVIOUS
<1>3. G(e) = x
  OBVIOUS
<1> HIDE DEF F, G
<1>4. [[i \in 1..N |-> F(i)] EXCEPT ![e] = x] = [i \in 1..N |-> G(i)]
  BY <1>2, <1>3
<1> QED
  BY <1>1, <1>4

LEMMA PhaseStays ==
    ASSUME UNCHANGED <<delivered, written, got, resplen>>
    PROVE  MCPhase' = MCPhase
BY DEF MCPhase, Answered

LEMMA PhaseKept ==
    ASSUME \A i \in 1..N : PhaseOf(i)' = PhaseOf(i)
    PROVE  MCPhase' = MCPhase
BY PhaseIs

\* Requests that were handed over before the latest one are answered, and later ones
\* are not.
LEMMA AnsweredFirst ==
    ASSUME WaitInv, pc # "closed", NEW i \in 1..N
    PROVE  /\ i < Len(delivered) => Answered(i)
           /\ i > Len(delivered) => /\ ~Answered(i) /\ resplen[i] = 0
                                    /\ \A m \in 1..Len(got), p \in Nat : got[m] # At(i, p)
<1> DEFINE d == Len(delivered)
<1>1. /\ d \in 0..N /\ consumed = Start[d + 1]
      /\ written \in Nat /\ received \in Nat /\ rcvd \in Nat
      /\ consumed + rcvd <= received /\ received <= written
  BY Constants DEF WaitInv, ConnInv, Handed, Counted
<1>2. ASSUME i < d PROVE Answered(i)
  <2> HIDE DEF d
  <2>1. d \in 1..N /\ d \in 1..N+1 /\ d + 1 \in 1..N+1 /\ d < d + 1 /\ i \in 1..d - 1
    BY <1>1, <1>2, Constants
  <2>2. Start[d] \in Nat /\ Start[d + 1] \in Nat /\ Start[d] + HeadLen <= Start[d + 1]
    BY <2>1, StartGrows
  <2>3. written > Start[d]
    BY <1>1, <2>2, Constants
  <2> QED
    BY <2>1, <2>3 DEF WaitInv, Asked
<1>3. ASSUME i > d PROVE ~Answered(i) /\ resplen[i] = 0
  BY <1>3 DEF WaitInv, OpenInv, Answered
<1>4. ASSUME i > d, NEW m \in 1..Len(got), NEW p \in Nat PROVE got[m] # At(i, p)
  <2> SUFFICES ASSUME got[m] = At(i, p) PROVE FALSE
    OBVIOUS
  <2>1. got \in Seq(Unit) /\ send \in Seq(Unit) /\ OutInv(got, Out, d, resplen)
    BY OutputMoved, OutIs
  <2> DEFINE out == got \o send
  <2>2. Flow(out, d, Queued(file, d, resplen), resplen)
    BY <2>1, OutIs DEF OutInv, OutOK
  <2>3. Len(out) = Len(got) + Len(send) /\ \A k \in 1..Len(got) : out[k] = got[k]
    BY <2>1, ConcatProperties
  <2> HIDE DEF out
  <2>4. m \in 1..Len(out)
    BY <2>1, <2>3
  <2>5. out[m][1] <= d
    BY <2>2, <2>4 DEF Flow
  <2>6. out[m][1] = i
    BY <2>3, AtParts
  <2> HIDE DEF d
  <2> QED
    BY <1>1, <1>4, <2>5, <2>6, Constants
<1> QED
  BY <1>2, <1>3, <1>4

LEMMA AbstractInit == Init => Abstract!Init
<1> SUFFICES ASSUME Init PROVE Abstract!Init
  OBVIOUS
<1>1. ASSUME NEW i \in 1..N PROVE PhaseOf(i) = "unsent"
  <2>1. ~Answered(i)
    BY DEF Init, Answered
  <2>2. Len(delivered) = 0 /\ written = 0 /\ ~(i <= 0)
    BY Constants DEF Init
  <2>3. i + 1 \in 1..N+1 /\ 1 \in 1..N+1 /\ 1 < i + 1
    BY Constants
  <2>4. Start[1] + HeadLen <= Start[i + 1] /\ Start[i + 1] \in Nat /\ Start[1] = 0
    BY <2>3, StartGrows
  <2>5. ~(0 >= Start[i + 1])
    BY <2>4, Constants
  <2> QED
    BY <2>1, <2>2, <2>5 DEF PhaseOf
<1>2. MCPhase = [i \in 1..N |-> "unsent"]
  BY <1>1, PhaseIs
<1> QED
  BY <1>2 DEF Init, Abstract!Init

LEMMA AbstractSend ==
    ASSUME ~Pipelining, WaitInv, ClientWrites
    PROVE  \/ MCPhase' = MCPhase /\ pc' = pc
           \/ \E i \in 1..N : Abstract!Send(i)
<1>1. ConnInv
  BY DEF WaitInv
<1>2. PICK i \in 1..N : /\ Start[i] <= written /\ written < Start[i + 1]
                        /\ written' <= Start[i + 1]
                        /\ \A j \in 1..i - 1 : Answered(j)
  BY <1>1, ClientWritesIs
<1>3. /\ pc # "closed" /\ pc' = pc /\ delivered' = delivered /\ resplen' = resplen
      /\ got' = got
      /\ written \in Nat /\ written' \in Nat /\ written <= written'
  BY <1>1, ClientWritesIs DEF ClientWrites, histVars, ConnInv, Counted
<1>4. \A k \in 1..N : Answered(k)' <=> Answered(k)
  BY <1>3 DEF Answered
<1>5. ASSUME NEW k \in 1..N, k # i
      PROVE  written' >= Start[k + 1] <=> written >= Start[k + 1]
  <2>1. /\ k + 1 \in 1..N+1 /\ i + 1 \in 1..N+1 /\ i \in 1..N+1
        /\ k < i => k + 1 = i \/ k + 1 < i
        /\ ~(k < i) => i + 1 < k + 1
    BY <1>5, Constants
  <2>2. /\ Start[k + 1] \in Nat /\ Start[i + 1] \in Nat /\ Start[i] \in Nat
        /\ k + 1 < i => Start[k + 1] + HeadLen <= Start[i]
        /\ i + 1 < k + 1 => Start[i + 1] + HeadLen <= Start[k + 1]
    BY <2>1, StartGrows
  <2>3. k < i => Start[k + 1] <= Start[i]
    BY <2>1, <2>2, Constants
  <2>4. ~(k < i) => Start[i + 1] < Start[k + 1]
    BY <2>1, <2>2, Constants
  <2> QED
    BY <1>2, <1>3, <2>2, <2>3, <2>4
<1>6. \A k \in 1..N : k # i => PhaseOf(k)' = PhaseOf(k)
  BY <1>3, <1>4, <1>5 DEF PhaseOf
<1>7. ~Answered(i) /\ ~(i <= Len(delivered))
  <2>1. i > Len(delivered)
    <3> DEFINE d == Len(delivered)
    <3>1. d \in 0..N /\ consumed = Start[d + 1] /\ consumed <= written
      BY <1>1, <1>3, Constants DEF ConnInv, Handed, Counted
    <3> HIDE DEF d
    <3>2. /\ d + 1 \in 1..N+1 /\ i + 1 \in 1..N+1
          /\ ~(i > d) => i + 1 = d + 1 \/ i + 1 < d + 1
      BY <3>1, Constants
    <3>3. /\ i + 1 < d + 1 => Start[i + 1] + HeadLen <= Start[d + 1]
          /\ Start[i + 1] \in Nat /\ Start[d + 1] \in Nat
      BY <3>2, StartGrows
    <3>4. ~(i > d) => Start[i + 1] <= Start[d + 1]
      BY <3>2, <3>3, Constants
    <3> QED
      BY <1>2, <1>3, <3>1, <3>3, <3>4 DEF d
  <2> QED
    BY <1>3, <2>1, AnsweredFirst
<1>8. PhaseOf(i) = "unsent"
  <2>1. ~(written >= Start[i + 1])
    <3>1. Start[i + 1] \in Nat
      BY StartGrows, Constants
    <3> QED
      BY <1>2, <1>3, <3>1
  <2> QED
    BY <1>7, <2>1 DEF PhaseOf
<1>9. CASE written' >= Start[i + 1]
  <2>1. PhaseOf(i)' = "sent"
    BY <1>3, <1>4, <1>7, <1>9 DEF PhaseOf
  <2>2. MCPhase' = [MCPhase EXCEPT ![i] = "sent"]
    BY <1>6, <2>1, PhaseMoves
  <2>3. MCPhase[i] = "unsent"
    BY <1>8, PhaseIs
  <2>4. \A j \in 1..i - 1 : j \in 1..N /\ MCPhase[j] = "answered"
    <3>1. \A j \in 1..i - 1 : j \in 1..N /\ PhaseOf(j) = "answered"
      BY <1>2, Constants DEF PhaseOf
    <3> QED
      BY <3>1, PhaseIs
  <2> QED
    BY <1>3, <2>2, <2>3, <2>4 DEF Abstract!Send
<1>10. CASE ~(written' >= Start[i + 1])
  <2>1. PhaseOf(i)' = "unsent"
    BY <1>3, <1>4, <1>7, <1>10 DEF PhaseOf
  <2> QED
    BY <1>3, <1>6, <1>8, <2>1, PhaseKept
<1> QED
  BY <1>9, <1>10

LEMMA AbstractDeliver ==
    ASSUME ~Pipelining, WaitInv, WaitInv', ReadData
    PROVE  \/ MCPhase' = MCPhase /\ pc # "closed" /\ pc' # "closed"
           \/ \E i \in 1..N : Abstract!Deliver(i)
<1>1. PICK n \in 1..MinOf(RecvMax, written - received) :
          received' = received + n /\ Receive(n)
  BY DEF ReadData
<1>2. n \in Nat /\ n > 0 /\ received + n <= written
  BY <1>1, Constants DEF MinOf, WaitInv, ConnInv, Counted
<1>3. pc = "read" /\ pc' = "write" /\ written' = written /\ got' = got
  BY DEF ReadData
<1> DEFINE o == Transfer(Out)
           d == Len(delivered)
<1>4. /\ written \in Nat /\ received \in Nat /\ consumed \in Nat /\ rcvd \in Nat
      /\ consumed + rcvd <= received
  BY DEF WaitInv, ConnInv, Counted
<1>5. PICK i \in 1..N : i = Current /\ i = d + 1 /\ consumed = Start[i] /\ d \in 0..N
  <2>1. received + n > consumed /\ ConnInv
    BY <1>2, <1>4 DEF WaitInv
  <2> QED
    BY <1>2, <1>3, <2>1, OneMore
<1> HIDE DEF o
<1>6. CASE Incomplete(o, i, n) \/ Invalid(o, i, n) \/ Chunk(o, i, n)
  <2>1. UNCHANGED <<delivered, written, got, resplen>>
    BY <1>3, <1>6 DEF Incomplete, Invalid, Chunk, histVars
  <2> QED
    BY <1>3, <2>1, PhaseStays
<1>7. CASE Dispatch(o, i, n)
  <2>1. PICK app \in Apps :
            resplen' = [resplen EXCEPT ![i] = ResponseLen(i, app)]
    BY <1>7 DEF Dispatch
  <2>2. /\ delivered' = Append(delivered, i) /\ ~MoreToCome(i, rcvd + n)
    BY <1>7 DEF Dispatch
  <2>3. Len(delivered') = d + 1
    <3>1. delivered \in Seq(1..N)
      BY DEF WaitInv, ConnInv, Handed
    <3> QED
      BY <1>5, <2>2, <3>1, AppendProperties
  <2>4. resplen \in [1..N -> Nat] /\ got \in Seq(Unit) /\ resplen' \in [1..N -> Nat]
    BY DEF WaitInv, ConnInv, Typed
  <2>5. written >= Start[i + 1] /\ Start[i + 1] \in Nat
    <3>1. MessageLen(i) \in Nat /\ Start[i + 1] = Start[i] + MessageLen(i)
      BY <1>5, Lengths, StartGrows
    <3>2. MessageLen(i) <= rcvd + n
      BY <1>4, <2>2, <3>1 DEF MoreToCome
    <3> QED
      BY <1>2, <1>4, <1>5, <3>1, <3>2, SMTT(30)
  <2>6. ~Answered(i) /\ \A m \in 1..Len(got), p \in Nat : got[m] # At(i, p)
    <3>1. i > d
      BY <1>5
    <3> QED
      BY <1>3, <1>5, <3>1, AnsweredFirst
  <2>7. ~Answered(i)'
    <3> SUFFICES ASSUME Answered(i)' PROVE FALSE
      OBVIOUS
    <3>1. resplen'[i] > 0 /\ \A p \in 1..resplen'[i] : \E m \in DOMAIN got : got[m] = <<i, p>>
      BY <1>3 DEF Answered
    <3>2. 1 \in 1..resplen'[i] /\ 1 \in Nat
      BY <1>5, <2>4, <3>1
    <3>3. PICK m \in DOMAIN got : got[m] = At(i, 1)
      BY <3>1, <3>2 DEF At
    <3> QED
      BY <2>4, <2>6, <3>2, <3>3
  <2>8. PhaseOf(i) = "sent" /\ PhaseOf(i)' = "delivered"
    <3>1. ~(i <= Len(delivered)) /\ i <= Len(delivered')
      BY <1>5, <2>3
    <3> QED
      BY <2>5, <2>6, <2>7, <3>1 DEF PhaseOf
  <2>9. ASSUME NEW k \in 1..N, k # i PROVE PhaseOf(k)' = PhaseOf(k)
    <3>1. resplen'[k] = resplen[k]
      BY <1>5, <2>1, <2>4, <2>9
    <3>2. Answered(k)' <=> Answered(k)
      BY <1>3, <3>1 DEF Answered
    <3>3. k <= Len(delivered') <=> k <= Len(delivered)
      BY <1>5, <2>3, <2>9
    <3> QED
      BY <1>3, <3>2, <3>3 DEF PhaseOf
  <2>10. MCPhase' = [MCPhase EXCEPT ![i] = "delivered"] /\ MCPhase[i] = "sent"
    BY <2>8, <2>9, PhaseMoves, PhaseIs
  <2> QED
    BY <1>3, <2>10 DEF Abstract!Deliver
<1> QED
  BY <1>1, <1>5, <1>6, <1>7 DEF Receive, o

LEMMA AbstractAnswer ==
    ASSUME WaitInv, WaitInv', Write
    PROVE  \/ MCPhase' = MCPhase /\ pc # "closed" /\ pc' # "closed"
           \/ \E i \in 1..N : Abstract!Answer(i)
<1>1. /\ pc = "write" /\ pc' = "poll"
      /\ written' = written /\ delivered' = delivered /\ resplen' = resplen
  BY DEF Write, histVars
<1>2. /\ got \in Seq(Unit) /\ got' \in Seq(Unit)
      /\ Len(got) <= Len(got') /\ \A k \in 1..Len(got) : got'[k] = got[k]
  <2>1. got \in Seq(Unit) /\ send \in Seq(Unit)
    BY <1>1, OutputMoved, OutIs
  <2>2. ASSUME NEW n \in 1..Len(send), got' = got \o SubSeq(send, 1, n)
        PROVE  /\ got' \in Seq(Unit) /\ Len(got) <= Len(got')
               /\ \A k \in 1..Len(got) : got'[k] = got[k]
    BY <2>1, <2>2, Written
  <2>3. CASE got' = got
    BY <2>1, <2>3
  <2> QED
    BY <2>1, <2>2, <2>3 DEF Write
<1>3. ASSUME NEW k \in 1..N, Answered(k) PROVE Answered(k)'
  BY <1>1, <1>2, <1>3, AnsweredStays
<1>4. PICK d \in 0..N : d = Len(delivered)
  BY <1>1, OutputMoved
<1>5. ASSUME NEW k \in 1..N, k # d PROVE PhaseOf(k)' = PhaseOf(k)
  <2>1. Answered(k)' <=> Answered(k)
    <3>1. k < d => Answered(k)
      BY <1>1, <1>4, AnsweredFirst
    <3>2. k > d => resplen[k] = 0
      BY <1>1, <1>4, AnsweredFirst
    <3>3. k > d => ~Answered(k)'
      BY <1>1, <3>2 DEF Answered
    <3> QED
      BY <1>3, <1>4, <1>5, <3>1, <3>3, Constants
  <2> QED
    BY <1>1, <2>1 DEF PhaseOf
<1>6. CASE d = 0 \/ (d # 0 /\ PhaseOf(d)' = PhaseOf(d))
  <2>1. \A k \in 1..N : PhaseOf(k)' = PhaseOf(k)
    BY <1>4, <1>5, <1>6, Constants
  <2> QED
    BY <1>1, <2>1, PhaseKept
<1>7. CASE d # 0 /\ PhaseOf(d)' # PhaseOf(d)
  <2>1. d \in 1..N /\ d <= Len(delivered)
    BY <1>4, <1>7, Constants
  <2>2. PhaseOf(d) = "delivered" /\ PhaseOf(d)' = "answered"
    BY <1>1, <1>3, <1>7, <2>1 DEF PhaseOf
  <2>3. MCPhase' = [MCPhase EXCEPT ![d] = "answered"] /\ MCPhase[d] = "delivered"
    BY <1>5, <2>1, <2>2, PhaseMoves, PhaseIs
  <2> QED
    BY <1>1, <2>1, <2>3 DEF Abstract!Answer
<1> QED
  BY <1>6, <1>7

LEMMA AbstractClose ==
    ASSUME WaitInv, CloseConn
    PROVE  Abstract!Close
<1>1. /\ pc = "close" /\ pc' = "closed"
      /\ written' = written /\ resplen' = resplen /\ got' = got
      /\ LET b == received - consumed
         IN  IF b >= HeadLen /\ Current \notin Malformed
             THEN delivered' = Append(delivered, Current)
             ELSE UNCHANGED delivered
  BY DEF CloseConn
<1>2. \A k \in 1..N : Answered(k)' <=> Answered(k)
  BY <1>1 DEF Answered
<1>3. CASE UNCHANGED delivered
  <2>1. MCPhase' = MCPhase
    BY <1>1, <1>3, PhaseStays
  <2> QED
    BY <1>1, <2>1 DEF Abstract!Close
<1>4. CASE received - consumed >= HeadLen /\ delivered' = Append(delivered, Current)
  <2> DEFINE d == Len(delivered)
  <2>1. /\ written \in Nat /\ received \in Nat /\ consumed \in Nat /\ rcvd \in Nat
        /\ consumed + rcvd <= received /\ received <= written /\ ConnInv
        /\ delivered \in Seq(1..N)
    BY DEF WaitInv, ConnInv, Counted, Handed
  <2>2. PICK i \in 1..N : i = Current /\ i = d + 1 /\ consumed = Start[i] /\ d \in 0..N
    <3>1. received + 0 > consumed /\ received + 0 <= written /\ 0 \in Nat
      BY <1>4, <2>1, Constants
    <3> QED
      BY <1>1, <2>1, <3>1, OneMore
  <2>3. Len(delivered') = d + 1
    BY <1>4, <2>1, <2>2, AppendProperties
  <2>4. ~Answered(i)
    <3>1. i > d
      BY <2>2
    <3> QED
      BY <1>1, <3>1, AnsweredFirst
  <2>5. PhaseOf(i) \in {"unsent", "sent"} /\ PhaseOf(i)' = "delivered"
    <3>1. ~(i <= Len(delivered)) /\ i <= Len(delivered')
      BY <2>2, <2>3
    <3> QED
      BY <1>2, <2>4, <3>1 DEF PhaseOf
  <2>6. ASSUME NEW k \in 1..N, k # i PROVE PhaseOf(k)' = PhaseOf(k)
    <3>1. k <= Len(delivered') <=> k <= Len(delivered)
      BY <2>2, <2>3, <2>6
    <3> QED
      BY <1>1, <1>2, <3>1 DEF PhaseOf
  <2>7. MCPhase' = [MCPhase EXCEPT ![i] = "delivered"] /\ MCPhase[i] \in {"unsent", "sent"}
    BY <2>5, <2>6, PhaseMoves, PhaseIs
  <2>8. \A j \in 1..i - 1 : MCPhase[j] = "answered"
    <3>1. written > Start[i]
      BY <1>4, <2>1, <2>2, Constants
    <3>2. \A j \in 1..i - 1 : j \in 1..N /\ PhaseOf(j) = "answered"
      BY <2>2, <3>1, Constants DEF WaitInv, Asked, PhaseOf
    <3> QED
      BY <3>2, PhaseIs
  <2> QED
    BY <1>1, <2>7, <2>8 DEF Abstract!Close
<1> QED
  BY <1>1, <1>3, <1>4

LEMMA AbstractStep ==
    ASSUME ~Pipelining, WaitInv, WaitInv', [Next]_vars
    PROVE  [Abstract!Next]_(Abstract!vars)
<1>1. CASE UNCHANGED <<delivered, written, got, resplen>> /\ (pc' = "closed" <=> pc = "closed")
  <2>1. MCPhase' = MCPhase /\ (pc' # "closed" <=> pc # "closed")
    BY <1>1, PhaseStays
  <2> QED
    BY <2>1 DEF Abstract!vars
<1>2. CASE UNCHANGED vars
  BY <1>1, <1>2 DEF vars, histVars
<1>3. CASE ClientWrites
  <2>1. (MCPhase' = MCPhase /\ pc' = pc) \/ \E i \in 1..N : Abstract!Send(i)
    BY <1>3, AbstractSend
  <2> QED
    BY <2>1 DEF Abstract!Next, Abstract!vars
<1>4. CASE ReadData
  <2>1. \/ MCPhase' = MCPhase /\ pc # "closed" /\ pc' # "closed"
        \/ \E i \in 1..N : Abstract!Deliver(i)
    BY <1>4, AbstractDeliver
  <2> QED
    BY <2>1 DEF Abstract!Next, Abstract!vars
<1>5. CASE Write
  <2>1. \/ MCPhase' = MCPhase /\ pc # "closed" /\ pc' # "closed"
        \/ \E i \in 1..N : Abstract!Answer(i)
    BY <1>5, AbstractAnswer
  <2> QED
    BY <2>1 DEF Abstract!Next, Abstract!vars
<1>6. CASE CloseConn
  BY <1>6, AbstractClose DEF Abstract!Next
<1>7. CASE ClientCloses \/ Select \/ ReadNothing \/ ReadEnd \/ SkipWrite \/ Poll \/ KeepOpen
  BY <1>1, <1>7 DEF ClientCloses, Select, ReadNothing, ReadEnd, SkipWrite, Poll, KeepOpen,
                    histVars
<1> QED
  BY <1>2, <1>3, <1>4, <1>5, <1>6, <1>7 DEF Next, Loop

\* With a client that waits, every behaviour of the connection is one of RequestReply:
\* each request is handed over once and answered in its turn, and at most the one that
\* was arriving when the connection ends is handed over then, unanswered
\* (mongoose.c:6255-6268, 6319-6377).
THEOREM ConnectionImplements ==
    ASSUME ~Pipelining
    PROVE  Spec => ImplementsRequestReply
<1>1. Init => Abstract!Init
  BY AbstractInit
<1>2. WaitInv /\ WaitInv' /\ [Next]_vars => [Abstract!Next]_(Abstract!vars)
  BY AbstractStep
<1>3. Spec => []WaitInv
  BY WaitingInvariant
<1> QED
  BY <1>1, <1>2, <1>3, PTL DEF Spec, Abstract!Spec, ImplementsRequestReply
=============================================================================
