---------------------------- MODULE FilesProofs ----------------------------
(***************************************************************************)
(* Proofs about ServeFiles: on any tree, for any options and whatever      *)
(* requests are made, files are sent to whom they may be, lists are        *)
(* complete, and the tree stays whole and changes as the replies say.      *)
(***************************************************************************)
EXTENDS ServeFiles, SequenceTheorems, WellFoundedInduction, TLAPS

-----------------------------------------------------------------------------
(* Induction over the naturals, and the least member of a set of them.      *)

LEMMA NatSet ==
    ASSUME NEW S, 0 \in S, \A n \in Nat : n \in S => n + 1 \in S
    PROVE  Nat \subseteq S
<1> DEFINE Bad == Nat \ S
<1>1. SUFFICES ASSUME Bad # {} PROVE FALSE
  OBVIOUS
<1>2. Bad \subseteq Nat
  OBVIOUS
<1>3. PICK b \in Bad : \A d \in Bad : <<d, b>> \notin OpToRel(<, Nat)
  BY <1>1, <1>2, WFMin, NatLessThanWellFounded, Zenon
<1>4. \A d \in Bad : ~(d < b)
  BY <1>2, <1>3, Zenon DEF OpToRel
<1>5. b # 0 /\ b \in Nat
  OBVIOUS
<1>6. b - 1 \in Nat /\ b - 1 < b
  BY <1>5
<1>7. b - 1 \in S
  BY <1>4, <1>6
<1>8. b \in S
  BY <1>5, <1>6, <1>7
<1> QED
  BY <1>8

LEMMA MinIs ==
    ASSUME NEW S \in SUBSET Nat, S # {}
    PROVE  Min(S) \in S /\ \A y \in S : Min(S) <= y
<1>1. PICK b \in S : \A d \in S : <<d, b>> \notin OpToRel(<, Nat)
  BY WFMin, NatLessThanWellFounded, Zenon
<1>2. \A d \in S : ~(d < b)
  BY <1>1, Zenon DEF OpToRel
<1>3. \A d \in S : b <= d
  BY <1>2
<1> QED
  BY <1>3 DEF Min

-----------------------------------------------------------------------------
(* Paths and their prefixes.                                                *)

Name == STRING \cup {Pw}
Path == Seq(Name)

LEMMA PathIs ==
    ASSUME NEW s \in Path
    PROVE  /\ Len(s) \in Nat /\ DOMAIN s = 1..Len(s)
           /\ \A i \in 1..Len(s) : s[i] \in Name
           /\ s = <<>> <=> Len(s) = 0
BY LenProperties, EmptySeq, ElementOfSeq DEF Path

LEMMA SamePath ==
    ASSUME NEW s \in Path, NEW t \in Path, Len(s) = Len(t), \A i \in 1..Len(s) : s[i] = t[i]
    PROVE  s = t
BY SeqEqual DEF Path

LEMMA CutIs ==
    ASSUME NEW s \in Path, NEW k \in 0..Len(s)
    PROVE  /\ SubSeq(s, 1, k) \in Path /\ Len(SubSeq(s, 1, k)) = k
           /\ \A i \in 1..k : SubSeq(s, 1, k)[i] = s[i]
<1>1. Len(s) \in Nat /\ \A i \in 1..k : s[i] \in Name
  BY PathIs
<1>2. /\ SubSeq(s, 1, k) \in Seq(Name)
      /\ Len(SubSeq(s, 1, k)) = IF 1 <= k THEN k - 1 + 1 ELSE 0
      /\ \A i \in 1..k - 1 + 1 : SubSeq(s, 1, k)[i] = s[1 + i - 1]
  BY <1>1, SubSeqProperties
<1> QED
  BY <1>1, <1>2 DEF Path

LEMMA PrefixIs ==
    ASSUME NEW s \in Path, NEW t \in Path
    PROVE  IsPrefix(s, t) <=> Len(s) <= Len(t) /\ \A i \in 1..Len(s) : s[i] = t[i]
<1>1. Len(s) \in Nat /\ Len(t) \in Nat
  BY PathIs
<1>2. SubSeq(s, 1, Len(s)) = s
  BY SubSeqFull DEF Path
<1>3. CASE Len(s) <= Len(t)
  <2>1. Len(s) \in 0..Len(t)
    BY <1>1, <1>3
  <2>2. /\ SubSeq(t, 1, Len(s)) \in Path /\ Len(SubSeq(t, 1, Len(s))) = Len(s)
        /\ \A i \in 1..Len(s) : SubSeq(t, 1, Len(s))[i] = t[i]
    BY <2>1, CutIs
  <2>3. (\A i \in 1..Len(s) : s[i] = t[i]) => s = SubSeq(t, 1, Len(s))
    BY <2>2, SamePath
  <2>4. s = SubSeq(t, 1, Len(s)) => \A i \in 1..Len(s) : s[i] = t[i]
    BY <2>2
  <2> QED
    BY <1>2, <1>3, <2>3, <2>4 DEF IsPrefix
<1>4. CASE ~(Len(s) <= Len(t))
  BY <1>4 DEF IsPrefix
<1> QED
  BY <1>3, <1>4

LEMMA FrontIs ==
    ASSUME NEW s \in Path
    PROVE  /\ Front(s) \in Path
           /\ s = <<>> => Front(s) = <<>>
           /\ s # <<>> => /\ Len(Front(s)) = Len(s) - 1
                          /\ \A i \in 1..Len(s) - 1 : Front(s)[i] = s[i]
<1>1. Len(s) \in Nat /\ (s = <<>> <=> Len(s) = 0)
  BY PathIs
<1>2. CASE s = <<>>
  <2>1. Front(s) = <<>>
    BY <1>1, <1>2, SubSeqEmpty DEF Front
  <2> QED
    BY <1>2, <2>1
<1>3. CASE s # <<>>
  <2>1. Len(s) - 1 \in 0..Len(s)
    BY <1>1, <1>3
  <2> QED
    BY <1>3, <2>1, CutIs DEF Front
<1> QED
  BY <1>2, <1>3

LEMMA FrontOfCut ==
    ASSUME NEW s \in Path, NEW k \in Nat, k < Len(s)
    PROVE  Front(SubSeq(s, 1, k + 1)) = SubSeq(s, 1, k)
<1>1. Len(s) \in Nat
  BY PathIs
<1>2. k \in 0..Len(s) /\ k + 1 \in 0..Len(s)
  BY <1>1
<1> DEFINE c == SubSeq(s, 1, k + 1)
<1>3. c \in Path /\ Len(c) = k + 1 /\ \A i \in 1..k + 1 : c[i] = s[i]
  BY <1>2, CutIs
<1>4. SubSeq(s, 1, k) \in Path /\ Len(SubSeq(s, 1, k)) = k /\ \A i \in 1..k : SubSeq(s, 1, k)[i] = s[i]
  BY <1>2, CutIs
<1>5. c # <<>>
  BY <1>3, PathIs
<1> HIDE DEF c
<1>6. Front(c) \in Path /\ Len(Front(c)) = k /\ \A i \in 1..k : Front(c)[i] = c[i]
  <2>1. Front(c) \in Path /\ Len(Front(c)) = Len(c) - 1 /\ \A i \in 1..Len(c) - 1 : Front(c)[i] = c[i]
    BY <1>3, <1>5, FrontIs
  <2>2. Len(c) - 1 = k
    BY <1>3
  <2> QED
    BY <2>1, <2>2
<1>7. Front(c) = SubSeq(s, 1, k)
  <2>1. \A i \in 1..k : Front(c)[i] = SubSeq(s, 1, k)[i]
    BY <1>3, <1>4, <1>6
  <2> QED
    BY <1>4, <1>6, <2>1, SamePath
<1> QED
  BY <1>7 DEF c

LEMMA CutPrefix ==
    ASSUME NEW s \in Path, NEW k \in 0..Len(s)
    PROVE  IsPrefix(SubSeq(s, 1, k), s) /\ (k < Len(s) => Under(SubSeq(s, 1, k), s))
<1>1. Len(s) \in Nat
  BY PathIs
<1>2. SubSeq(s, 1, k) \in Path /\ Len(SubSeq(s, 1, k)) = k /\ \A i \in 1..k : SubSeq(s, 1, k)[i] = s[i]
  BY CutIs
<1> DEFINE c == SubSeq(s, 1, k)
<1> HIDE DEF c
<1>3. c \in Path /\ Len(c) = k /\ \A i \in 1..k : c[i] = s[i]
  BY <1>2 DEF c
<1>4. IsPrefix(c, s)
  <2>1. Len(c) <= Len(s) /\ \A i \in 1..Len(c) : c[i] = s[i]
    BY <1>1, <1>3
  <2> QED
    BY <1>3, <2>1, PrefixIs
<1>5. k < Len(s) => c # s
  BY <1>1, <1>3
<1> QED
  BY <1>4, <1>5 DEF Under, c

LEMMA PrefixCut ==
    ASSUME NEW s \in Path, NEW t \in Path, IsPrefix(s, t)
    PROVE  /\ Len(s) \in 0..Len(t) /\ s = SubSeq(t, 1, Len(s))
           /\ s # t => Len(s) < Len(t)
<1>1. Len(s) \in Nat /\ Len(t) \in Nat
  BY PathIs
<1>2. Len(s) <= Len(t) /\ \A i \in 1..Len(s) : s[i] = t[i]
  BY PrefixIs
<1>3. s = SubSeq(t, 1, Len(s))
  BY SubSeqFull DEF IsPrefix, Path
<1>4. Len(s) = Len(t) => s = t
  BY <1>2, SamePath
<1> QED
  BY <1>1, <1>2, <1>3, <1>4

LEMMA PrefixThrough ==
    ASSUME NEW s \in Path, NEW t \in Path, NEW u \in Path, IsPrefix(s, t), IsPrefix(t, u)
    PROVE  IsPrefix(s, u)
<1>1. Len(s) \in Nat /\ Len(t) \in Nat /\ Len(u) \in Nat
  BY PathIs
<1>2. Len(s) <= Len(t) /\ \A i \in 1..Len(s) : s[i] = t[i]
  BY PrefixIs
<1>3. Len(t) <= Len(u) /\ \A i \in 1..Len(t) : t[i] = u[i]
  BY PrefixIs
<1>4. Len(s) <= Len(u) /\ \A i \in 1..Len(s) : s[i] = u[i]
  BY <1>1, <1>2, <1>3
<1> QED
  BY <1>4, PrefixIs

LEMMA PrefixSelf == ASSUME NEW s \in Path PROVE IsPrefix(s, s) /\ ~Under(s, s)
BY PrefixIs, PathIs DEF Under

\* A path other than the root is under its directory; what it is under, its directory is or is under.
LEMMA FrontUnder ==
    ASSUME NEW s \in Path, s # <<>>
    PROVE  Under(Front(s), s) /\ IsPrefix(Front(s), s)
<1>1. Len(s) \in Nat /\ Len(s) # 0
  BY PathIs
<1>2. Len(s) - 1 \in 0..Len(s) /\ Len(s) - 1 < Len(s)
  BY <1>1
<1> QED
  BY <1>2, CutPrefix DEF Front, Under

LEMMA UnderFront ==
    ASSUME NEW s \in Path, NEW t \in Path, Under(s, t)
    PROVE  t # <<>> /\ IsPrefix(s, Front(t))
<1>1. Len(s) \in Nat /\ Len(t) \in Nat
  BY PathIs
<1>2. Len(s) <= Len(t) /\ \A i \in 1..Len(s) : s[i] = t[i]
  BY PrefixIs DEF Under
<1>3. Len(s) < Len(t)
  BY PrefixCut DEF Under
<1>4. t # <<>>
  BY <1>1, <1>3, PathIs
<1>5. Front(t) \in Path /\ Len(Front(t)) = Len(t) - 1 /\ \A i \in 1..Len(t) - 1 : Front(t)[i] = t[i]
  BY <1>4, FrontIs
<1>6. Len(s) <= Len(Front(t)) /\ \A i \in 1..Len(s) : s[i] = Front(t)[i]
  BY <1>1, <1>2, <1>3, <1>5
<1> QED
  BY <1>4, <1>5, <1>6, PrefixIs

\* An entry of a directory.
LEMMA EntryIs ==
    ASSUME NEW d \in Path, NEW n \in Name
    PROVE  /\ d \o <<n>> \in Path /\ d \o <<n>> # <<>> /\ Len(d \o <<n>>) = Len(d) + 1
           /\ Front(d \o <<n>>) = d /\ Last(d \o <<n>>) = n
<1>1. Len(d) \in Nat
  BY PathIs
<1>2. <<n>> \in Path /\ Len(<<n>>) = 1 /\ <<n>>[1] = n
  <2>1. <<n>> \in Seq({n}) /\ Len(<<n>>) = 1 /\ <<n>>[1] = n
    OBVIOUS
  <2>2. {n} \subseteq Name
    OBVIOUS
  <2> QED
    BY <2>1, <2>2, SeqMonotonic, Zenon DEF Path
<1> DEFINE e == d \o <<n>>
<1>3. /\ e \in Path /\ Len(e) = Len(d) + 1
      /\ \A i \in 1..Len(d) + 1 : e[i] = IF i <= Len(d) THEN d[i] ELSE <<n>>[i - Len(d)]
  BY <1>2, ConcatProperties DEF Path
<1>4. e # <<>>
  BY <1>1, <1>3, PathIs
<1>5. \A i \in 1..Len(d) : e[i] = d[i]
  BY <1>1, <1>3
<1>6. e[Len(d) + 1] = n
  <2>1. Len(d) + 1 \in 1..Len(d) + 1 /\ ~(Len(d) + 1 <= Len(d)) /\ Len(d) + 1 - Len(d) = 1
    BY <1>1
  <2> QED
    BY <1>2, <1>3, <2>1
<1>7. Front(e) = d
  <2>1. Front(e) \in Path /\ Len(Front(e)) = Len(e) - 1 /\ \A i \in 1..Len(e) - 1 : Front(e)[i] = e[i]
    BY <1>3, <1>4, FrontIs
  <2>2. Len(e) - 1 = Len(d)
    BY <1>1, <1>3
  <2>3. Len(Front(e)) = Len(d) /\ \A i \in 1..Len(Front(e)) : Front(e)[i] = d[i]
    BY <1>5, <2>1, <2>2
  <2> QED
    BY <2>1, <2>3, SamePath
<1> QED
  BY <1>3, <1>4, <1>6, <1>7 DEF Last
-----------------------------------------------------------------------------
(* Trees.                                                                   *)

Closed(D) == D \subseteq Path /\ \A p \in D : Front(p) \in D
RootedIn(t) == \A p \in DOMAIN t : Exists(t, p) /\ p # <<>> => IsDir(t, Front(p))

LEMMA NodeIs ==
    ASSUME NEW node \in SfNodes
    PROVE  /\ node.kind \in {"none", "file", "dir"} /\ node.data \in Seq(0..9) /\ node.mtime \in Nat
           /\ node = [kind |-> node.kind, data |-> node.data, mtime |-> node.mtime]
BY DEF SfNodes

LEMMA NewNodes ==
    /\ Absent \in SfNodes /\ Absent.kind = "none"
    /\ \A t \in Nat : DirNode(t) \in SfNodes /\ DirNode(t).kind = "dir" /\ DirNode(t).mtime = t
    /\ \A t \in Nat, data \in Seq(0..9) :
          /\ FileNode(data, t) \in SfNodes /\ FileNode(data, t).kind = "file" /\ FileNode(data, t).data = data
          /\ FileNode(data, t).mtime = t
<1>1. <<>> \in Seq(0..9)
  BY EmptySeq
<1> QED
  BY <1>1 DEF Absent, DirNode, FileNode, SfNodes

\* What is on the way to a path of the tree is in it, and there if the path is.
LEMMA CutIn ==
    ASSUME NEW D, Closed(D), NEW p \in D, NEW k \in 0..Len(p)
    PROVE  SubSeq(p, 1, k) \in D
<1>1. p \in Path /\ Len(p) \in Nat
  BY PathIs DEF Closed
<1> DEFINE In(j) == SubSeq(p, 1, Len(p) - j) \in D
           S == {j \in Nat : j <= Len(p) => In(j)}
<1>2. 0 \in S
  <2>1. Len(p) - 0 = Len(p) /\ SubSeq(p, 1, Len(p)) = p
    BY <1>1, SubSeqFull DEF Path
  <2> QED
    BY <2>1
<1>3. \A j \in Nat : j \in S => j + 1 \in S
  <2> HIDE DEF In
  <2> SUFFICES ASSUME NEW j \in Nat, j \in S, j + 1 <= Len(p)
               PROVE  In(j + 1)
    OBVIOUS
  <2> USE DEF In
  <2> DEFINE i == Len(p) - (j + 1)
  <2>1. i \in Nat /\ i < Len(p) /\ i + 1 = Len(p) - j /\ j <= Len(p)
    BY <1>1
  <2>2. SubSeq(p, 1, i + 1) \in D
    BY <2>1
  <2>3. Front(SubSeq(p, 1, i + 1)) = SubSeq(p, 1, i)
    BY <1>1, <2>1, FrontOfCut
  <2> QED
    BY <2>2, <2>3 DEF Closed
<1>4. Nat \subseteq S
  <2> HIDE DEF S
  <2> QED
    BY <1>2, <1>3, NatSet
<1>5. Len(p) - k \in Nat /\ Len(p) - k <= Len(p) /\ Len(p) - (Len(p) - k) = k
  BY <1>1
<1> QED
  BY <1>4, <1>5

LEMMA CutThere ==
    ASSUME NEW t, Closed(DOMAIN t), RootedIn(t), NEW p \in DOMAIN t, Exists(t, p),
           NEW k \in 0..Len(p), k < Len(p)
    PROVE  IsDir(t, SubSeq(p, 1, k))
<1>1. p \in Path /\ Len(p) \in Nat
  BY PathIs DEF Closed
<1> DEFINE S == {j \in Nat : j + 1 <= Len(p) => IsDir(t, SubSeq(p, 1, Len(p) - (j + 1)))}
<1>0. \A i \in Nat : i < Len(p) /\ Exists(t, SubSeq(p, 1, i + 1)) => IsDir(t, SubSeq(p, 1, i))
  <2> SUFFICES ASSUME NEW i \in Nat, i < Len(p), Exists(t, SubSeq(p, 1, i + 1))
               PROVE  IsDir(t, SubSeq(p, 1, i))
    OBVIOUS
  <2>1. i + 1 \in 0..Len(p)
    BY <1>1
  <2>2. SubSeq(p, 1, i + 1) \in DOMAIN t
    BY <2>1, CutIn
  <2>3. SubSeq(p, 1, i + 1) \in Path /\ Len(SubSeq(p, 1, i + 1)) = i + 1
    BY <1>1, <2>1, CutIs
  <2>4. SubSeq(p, 1, i + 1) # <<>>
    BY <2>3, PathIs
  <2>5. Front(SubSeq(p, 1, i + 1)) = SubSeq(p, 1, i)
    BY <1>1, FrontOfCut
  <2> QED
    BY <2>2, <2>4, <2>5 DEF RootedIn
<1>2. 0 \in S
  <2> SUFFICES ASSUME 1 <= Len(p) PROVE IsDir(t, SubSeq(p, 1, Len(p) - 1))
    OBVIOUS
  <2> DEFINE i == Len(p) - 1
  <2>1. i \in Nat /\ i < Len(p) /\ i + 1 = Len(p)
    BY <1>1
  <2>2. SubSeq(p, 1, i + 1) = p
    BY <1>1, <2>1, SubSeqFull DEF Path
  <2> QED
    BY <1>0, <2>1, <2>2
<1>3. \A j \in Nat : j \in S => j + 1 \in S
  <2> SUFFICES ASSUME NEW j \in Nat, j \in S, (j + 1) + 1 <= Len(p)
               PROVE  IsDir(t, SubSeq(p, 1, Len(p) - ((j + 1) + 1)))
    OBVIOUS
  <2> DEFINE i == Len(p) - ((j + 1) + 1)
  <2>1. i \in Nat /\ i < Len(p) /\ i + 1 = Len(p) - (j + 1) /\ j + 1 <= Len(p)
    BY <1>1
  <2>2. IsDir(t, SubSeq(p, 1, i + 1))
    BY <2>1
  <2>3. Exists(t, SubSeq(p, 1, i + 1))
    BY <2>2 DEF Exists, IsDir
  <2> QED
    BY <1>0, <2>1, <2>3
<1>4. Nat \subseteq S
  <2> HIDE DEF S
  <2> QED
    BY <1>2, <1>3, NatSet
<1> DEFINE j == Len(p) - (k + 1)
<1>5. j \in Nat /\ j + 1 <= Len(p) /\ Len(p) - (j + 1) = k
  BY <1>1
<1>6. j \in S
  BY <1>4, <1>5
<1> QED
  BY <1>5, <1>6

LEMMA PrefixThere ==
    ASSUME NEW t, Closed(DOMAIN t), RootedIn(t), NEW p \in DOMAIN t, Exists(t, p),
           NEW q \in Path, Under(q, p)
    PROVE  q \in DOMAIN t /\ IsDir(t, q) /\ Exists(t, q)
<1>1. p \in Path
  BY DEF Closed
<1>2. Len(q) \in 0..Len(p) /\ q = SubSeq(p, 1, Len(q)) /\ Len(q) < Len(p)
  BY <1>1, PrefixCut DEF Under
<1>3. q \in DOMAIN t
  <2>1. SubSeq(p, 1, Len(q)) \in DOMAIN t
    BY <1>2, CutIn
  <2> QED
    BY <1>2, <2>1, Zenon
<1>4. IsDir(t, q)
  <2>1. IsDir(t, SubSeq(p, 1, Len(q)))
    BY <1>2, CutThere
  <2> QED
    BY <1>2, <2>1, Zenon
<1> QED
  BY <1>3, <1>4 DEF IsDir, Exists

\* A tree that is whole: every file and directory is in a directory.
Whole(t, D) == t \in [D -> SfNodes] /\ RootedIn(t)

LEMMA WholeIs ==
    ASSUME NEW D, Closed(D), NEW t, Whole(t, D)
    PROVE  /\ DOMAIN t = D /\ Closed(DOMAIN t) /\ RootedIn(t)
           /\ \A p \in D : /\ t[p] \in SfNodes /\ p \in Path /\ Front(p) \in D
                           /\ Exists(t, p) <=> IsFile(t, p) \/ IsDir(t, p)
                           /\ ~(IsFile(t, p) /\ IsDir(t, p))
                           /\ Exists(t, p) /\ p # <<>> => IsDir(t, Front(p))
<1>1. DOMAIN t = D /\ \A p \in D : t[p] \in SfNodes
  BY DEF Whole
<1>2. \A p \in D : t[p].kind \in {"none", "file", "dir"}
  BY <1>1, NodeIs
<1> QED
  BY <1>1, <1>2 DEF Whole, Closed, RootedIn, Exists, IsFile, IsDir

\* mg_create_itermediate_directories, where no file is on the way: the tree stays whole, only directories on
\* the way are new, and the path's own directory is there.
LEMMA MadeIs ==
    ASSUME NEW D, Closed(D), NEW t, Whole(t, D), NEW path \in D, NEW n \in Int, sf.now \in Nat,
           \A q \in D : Under(q, path) => ~IsFile(t, q)
    PROVE  LET made == MadeDirectories(t, path, n)
           IN  /\ Whole(made, D)
               /\ Len(path) <= n /\ path # <<>> => IsDir(made, Front(path))
               /\ \A p \in D : /\ made[p] = t[p] \/ made[p] = DirNode(sf.now)
                               /\ Exists(t, p) => made[p] = t[p]
                               /\ ~Exists(t, p) /\ Exists(made, p) => Under(p, path) /\ IsDir(made, p)
               /\ Exists(t, path) => made = t
<1> DEFINE made == MadeDirectories(t, path, n)
<1>1. /\ DOMAIN t = D /\ Closed(DOMAIN t) /\ RootedIn(t)
      /\ \A p \in D : /\ t[p] \in SfNodes /\ p \in Path /\ Front(p) \in D
                      /\ Exists(t, p) <=> IsFile(t, p) \/ IsDir(t, p)
                      /\ Exists(t, p) /\ p # <<>> => IsDir(t, Front(p))
  BY WholeIs
<1>2. DirNode(sf.now) \in SfNodes /\ DirNode(sf.now).kind = "dir"
  BY NewNodes
<1>3. made = [p \in D |-> IF Under(p, path) /\ Len(p) <= n /\ ~Exists(t, p) THEN DirNode(sf.now) ELSE t[p]]
  BY <1>1 DEF MadeDirectories
<1>4. made \in [D -> SfNodes] /\ DOMAIN made = D
  BY <1>1, <1>2, <1>3
<1> HIDE DEF made
<1>5. \A p \in D : Under(p, path) /\ Len(p) <= n => IsDir(made, p)
  <2> SUFFICES ASSUME NEW p \in D, Under(p, path), Len(p) <= n PROVE IsDir(made, p)
    OBVIOUS
  <2>1. CASE Exists(t, p)
    BY <1>1, <1>3, <2>1 DEF IsDir
  <2>2. CASE ~Exists(t, p)
    BY <1>2, <1>3, <2>2 DEF IsDir
  <2> QED
    BY <2>1, <2>2
<1>6. \A p \in D : Exists(t, p) => made[p] = t[p]
  BY <1>3
<1>7. \A p \in D : ~Exists(t, p) /\ Exists(made, p) => Under(p, path) /\ Len(p) <= n
  BY <1>3 DEF Exists
<1>8. RootedIn(made)
  <2> SUFFICES ASSUME NEW p \in D, Exists(made, p), p # <<>> PROVE IsDir(made, Front(p))
    BY <1>4 DEF RootedIn
  <2>1. Front(p) \in D /\ p \in Path /\ path \in Path /\ Front(p) \in Path
    BY <1>1
  <2>2. CASE Exists(t, p)
    <3>1. IsDir(t, Front(p)) /\ Exists(t, Front(p))
      BY <1>1, <2>1, <2>2
    <3> QED
      BY <1>6, <2>1, <3>1 DEF IsDir
  <2>3. CASE ~Exists(t, p)
    <3>1. Under(p, path) /\ Len(p) <= n
      BY <1>7, <2>3
    <3>2. Under(Front(p), p)
      BY <2>1, FrontUnder
    <3>5. Len(Front(p)) <= n
      <4>1. Len(Front(p)) < Len(p) /\ Len(p) \in Nat /\ Len(Front(p)) \in Nat
        BY <2>1, <3>2, PrefixCut, PathIs DEF Under
      <4> QED
        BY <3>1, <4>1
    <3>3. IsPrefix(Front(p), path)
      BY <2>1, <3>1, <3>2, PrefixThrough DEF Under
    <3>4. Front(p) # path
      <4> SUFFICES ASSUME Front(p) = path PROVE FALSE
        OBVIOUS
      <4>1. Len(path) < Len(p) /\ Len(p) < Len(path)
        BY <2>1, <3>1, <3>2, PrefixCut DEF Under
      <4> QED
        BY <2>1, <4>1, PathIs
    <3> QED
      BY <1>5, <2>1, <3>3, <3>4, <3>5 DEF Under
  <2> QED
    BY <2>2, <2>3
<1>9. Len(path) <= n /\ path # <<>> => IsDir(made, Front(path))
  <2> SUFFICES ASSUME Len(path) <= n, path # <<>> PROVE IsDir(made, Front(path))
    OBVIOUS
  <2>1. path \in Path /\ Front(path) \in D /\ Front(path) \in Path /\ Under(Front(path), path)
    BY <1>1, FrontUnder
  <2>2. Len(Front(path)) < Len(path) /\ Len(path) \in Nat /\ Len(Front(path)) \in Nat
    BY <2>1, PrefixCut, PathIs DEF Under
  <2> QED
    BY <1>5, <2>1, <2>2
<1>10. Exists(t, path) => made = t
  <2> SUFFICES ASSUME Exists(t, path) PROVE made = t
    OBVIOUS
  <2>1. \A p \in D : Under(p, path) => Exists(t, p)
    BY <1>1, PrefixThere
  <2>2. \A p \in D : made[p] = t[p]
    BY <1>3, <2>1
  <2>3. t = [p \in D |-> t[p]] /\ made = [p \in D |-> made[p]]
    BY <1>1, <1>4 DEF Whole
  <2> QED
    BY <2>2, <2>3
<1>11. Whole(made, D) /\ \A p \in D : ~Exists(t, p) /\ Exists(made, p) => Under(p, path) /\ IsDir(made, p)
  BY <1>4, <1>5, <1>7, <1>8 DEF Whole
<1>12. \A p \in D : made[p] = t[p] \/ made[p] = DirNode(sf.now)
  BY <1>3
<1> QED
  BY <1>6, <1>9, <1>10, <1>11, <1>12 DEF made

\* A file is written, or a directory is made, in a directory that is there.
LEMMA WrittenIs ==
    ASSUME NEW D, Closed(D), NEW t, Whole(t, D), NEW path \in D, NEW node \in SfNodes,
           path # <<>> => IsDir(t, Front(path)), node.kind = "dir" \/ ~IsDir(t, path), node.kind # "none"
    PROVE  Whole([t EXCEPT ![path] = node], D)
<1> DEFINE next == [t EXCEPT ![path] = node]
<1>1. /\ DOMAIN t = D /\ RootedIn(t) /\ t \in [D -> SfNodes]
      /\ \A p \in D : /\ p \in Path /\ Front(p) \in D
                      /\ Exists(t, p) /\ p # <<>> => IsDir(t, Front(p))
  BY WholeIs DEF Whole
<1>2. next \in [D -> SfNodes] /\ DOMAIN next = D
  BY <1>1
<1>3. next[path] = node /\ \A p \in D : p # path => next[p] = t[p]
  BY <1>1
<1> HIDE DEF next
<1>4. \A p \in D : Exists(next, p) /\ p # <<>> => IsDir(t, Front(p))
  BY <1>1, <1>3 DEF Exists
<1>5. \A p \in D : IsDir(t, p) => IsDir(next, p)
  BY <1>3 DEF IsDir
<1>6. RootedIn(next)
  BY <1>1, <1>2, <1>4, <1>5 DEF RootedIn
<1> QED
  BY <1>2, <1>6 DEF Whole, next

\* What is not a directory goes.
LEMMA RemovedIs ==
    ASSUME NEW D, Closed(D), NEW t, Whole(t, D), NEW path \in D, ~IsDir(t, path)
    PROVE  Whole([t EXCEPT ![path] = Absent], D)
<1> DEFINE next == [t EXCEPT ![path] = Absent]
<1>1. /\ DOMAIN t = D /\ RootedIn(t) /\ t \in [D -> SfNodes]
      /\ \A p \in D : /\ p \in Path /\ Front(p) \in D
                      /\ Exists(t, p) /\ p # <<>> => IsDir(t, Front(p))
  BY WholeIs DEF Whole
<1>0. Absent \in SfNodes /\ Absent.kind = "none"
  BY NewNodes
<1>2. next \in [D -> SfNodes] /\ DOMAIN next = D
  BY <1>0, <1>1
<1>3. next[path] = Absent /\ \A p \in D : p # path => next[p] = t[p]
  BY <1>1
<1> HIDE DEF next
<1>4. \A p \in D : Exists(next, p) /\ p # <<>> => IsDir(t, Front(p))
  BY <1>0, <1>1, <1>3 DEF Exists
<1>5. \A p \in D : IsDir(t, p) => IsDir(next, p)
  BY <1>3 DEF IsDir
<1>6. RootedIn(next)
  BY <1>1, <1>2, <1>4, <1>5 DEF RootedIn
<1> QED
  BY <1>2, <1>6 DEF Whole, next

\* mg_remove_directory: what goes is under the directory, and neither hidden nor in a hidden directory; where
\* the directory stays, something hidden is in it.
LEMMA RemovedDirectoryIs ==
    ASSUME NEW D, Closed(D), NEW t, Whole(t, D), NEW dir \in D
    PROVE  LET left == RemoveDirectory(t, dir)
           IN  /\ Whole(left, D)
               /\ \A p \in D : left[p] = t[p] \/ left[p] = Absent
               /\ \A p \in D : /\ Exists(left, p) => Exists(t, p)
                               /\ Exists(t, p) /\ ~Exists(left, p) =>
                                     IsPrefix(dir, p) /\ ~\E k \in Len(dir) + 1..Len(p) : HiddenName(p[k])
               /\ Exists(left, dir) => \E p \in D : Under(dir, p) /\ Exists(left, p) /\ HiddenPath(p)
<1> DEFINE left == RemoveDirectory(t, dir)
           stays == {p \in D : Exists(t, p) /\ Under(dir, p) /\ \E k \in Len(dir) + 1..Len(p) : HiddenName(p[k])}
           Kept(p) == \E q \in stays : IsPrefix(p, q)
<1>1. /\ DOMAIN t = D /\ Closed(DOMAIN t) /\ RootedIn(t) /\ t \in [D -> SfNodes]
      /\ \A p \in D : /\ p \in Path /\ Front(p) \in D
                      /\ Exists(t, p) /\ p # <<>> => IsDir(t, Front(p))
  BY WholeIs DEF Whole
<1>2. Absent \in SfNodes /\ Absent.kind = "none"
  BY NewNodes
<1>3. left = [p \in D |-> IF IsPrefix(dir, p) /\ ~Kept(p) THEN Absent ELSE t[p]]
  BY <1>1 DEF RemoveDirectory
<1>4. stays \subseteq D /\ \A q \in stays : Exists(t, q) /\ Under(dir, q)
  OBVIOUS
<1>5. \A p \in D : /\ IsPrefix(dir, p) /\ ~Kept(p) => left[p] = Absent
                   /\ ~(IsPrefix(dir, p) /\ ~Kept(p)) => left[p] = t[p]
  BY <1>3
<1>6. left \in [D -> SfNodes] /\ DOMAIN left = D
  <2> HIDE DEF Kept
  <2> QED
    BY <1>1, <1>2, <1>3
<1>11. \A p \in D : (\E k \in Len(dir) + 1..Len(p) : HiddenName(p[k])) /\ Exists(t, p) /\ Under(dir, p) => p \in stays
  OBVIOUS
<1>12. \A q \in stays : \E k \in Len(dir) + 1..Len(q) : HiddenName(q[k])
  OBVIOUS
<1> HIDE DEF left, stays
<1>7. \A p \in D : Exists(left, p) => Exists(t, p) /\ ~(IsPrefix(dir, p) /\ ~Kept(p))
  <2> HIDE DEF Kept
  <2> QED
    BY <1>2, <1>5 DEF Exists
<1>8. \A p \in D : Exists(left, p) /\ p # <<>> => IsDir(left, Front(p))
  <2> SUFFICES ASSUME NEW p \in D, Exists(left, p), p # <<>> PROVE IsDir(left, Front(p))
    OBVIOUS
  <2>1. Exists(t, p) /\ ~(IsPrefix(dir, p) /\ ~Kept(p)) /\ p \in Path /\ Front(p) \in D
        /\ Front(p) \in Path /\ IsPrefix(Front(p), p) /\ dir \in Path
    BY <1>1, <1>7, FrontUnder
  <2>2. IsDir(t, Front(p))
    BY <1>1, <2>1
  <2>3. ~(IsPrefix(dir, Front(p)) /\ ~Kept(Front(p)))
    <3> SUFFICES ASSUME IsPrefix(dir, Front(p)) PROVE Kept(Front(p))
      OBVIOUS
    <3>1. IsPrefix(dir, p)
      BY <2>1, PrefixThrough
    <3>2. PICK q \in stays : IsPrefix(p, q)
      BY <2>1, <3>1
    <3>3. q \in Path
      BY <1>1, <1>4
    <3>4. IsPrefix(Front(p), q)
      BY <2>1, <3>2, <3>3, PrefixThrough
    <3> QED
      BY <3>4
  <2>4. left[Front(p)] = t[Front(p)]
    BY <1>5, <2>1, <2>3
  <2> QED
    BY <2>2, <2>4 DEF IsDir
<1>9. Whole(left, D)
  BY <1>6, <1>8 DEF Whole, RootedIn
<1>10. ASSUME NEW p \in D, Exists(t, p), ~Exists(left, p)
       PROVE  IsPrefix(dir, p) /\ ~\E k \in Len(dir) + 1..Len(p) : HiddenName(p[k])
  <2>1. IsPrefix(dir, p) /\ ~Kept(p)
    BY <1>5, <1>10 DEF Exists
  <2>2. p \in Path /\ dir \in Path /\ IsPrefix(p, p)
    BY <1>1, PrefixSelf
  <2>3. p \notin stays
    BY <2>1, <2>2
  <2>4. ASSUME NEW k \in Len(dir) + 1..Len(p), HiddenName(p[k]) PROVE FALSE
    <3>1. Len(dir) # Len(p)
      BY <2>2, <2>4, PathIs
    <3>2. Under(dir, p)
      BY <2>1, <3>1 DEF Under
    <3> QED
      BY <1>10, <1>11, <2>3, <2>4, <3>2
  <2> QED
    BY <2>1, <2>4
<1>13. ASSUME Exists(left, dir)
       PROVE  \E p \in D : Under(dir, p) /\ Exists(left, p) /\ HiddenPath(p)
  <2>1. dir \in Path /\ IsPrefix(dir, dir) /\ Len(dir) \in Nat
    BY <1>1, PrefixSelf, PathIs
  <2>2. PICK q \in stays : IsPrefix(dir, q)
    BY <1>7, <1>13, <2>1
  <2>3. q \in D /\ q \in Path /\ Exists(t, q) /\ Under(dir, q) /\ Len(q) \in Nat
    BY <1>1, <1>4, PathIs
  <2>4. PICK k \in Len(dir) + 1..Len(q) : HiddenName(q[k])
    BY <1>12
  <2> DEFINE p == SubSeq(q, 1, k)
  <2>5. k \in 0..Len(q) /\ k \in Nat /\ Len(dir) < k
    BY <2>1, <2>3
  <2>6. p \in D
    BY <1>1, <2>3, <2>5, CutIn
  <2>7. p \in Path /\ Len(p) = k /\ (\A i \in 1..k : p[i] = q[i]) /\ IsPrefix(p, q)
    BY <2>3, <2>5, CutIs, CutPrefix
  <2> HIDE DEF p
  <2>8. IsPrefix(dir, p)
    <3>1. Len(dir) <= Len(q) /\ \A i \in 1..Len(dir) : dir[i] = q[i]
      BY <2>1, <2>2, <2>3, PrefixIs
    <3>2. Len(dir) <= Len(p) /\ \A i \in 1..Len(dir) : dir[i] = p[i]
      BY <2>1, <2>5, <2>7, <3>1
    <3> QED
      BY <2>1, <2>7, <3>2, PrefixIs
  <2>9. Under(dir, p)
    BY <2>1, <2>5, <2>7, <2>8 DEF Under
  <2>10. Exists(t, p)
    <3>1. CASE p = q
      BY <2>3, <3>1
    <3>2. CASE p # q
      BY <1>1, <2>3, <2>7, <3>2, PrefixThere DEF Under
    <3> QED
      BY <3>1, <3>2
  <2>11. Kept(p)
    BY <2>7
  <2>12. Exists(left, p)
    <3> HIDE DEF Kept
    <3> QED
      BY <1>5, <2>6, <2>10, <2>11 DEF Exists
  <2>13. HiddenPath(p)
    <3>1. p # <<>> /\ Last(p) = q[k]
      BY <2>1, <2>5, <2>7, PathIs DEF Last
    <3> QED
      BY <2>4, <3>1 DEF HiddenPath
  <2> QED
    BY <2>6, <2>9, <2>12, <2>13
<1>14. \A p \in D : left[p] = t[p] \/ left[p] = Absent
  <2> HIDE DEF Kept
  <2> QED
    BY <1>5
<1> QED
  BY <1>7, <1>9, <1>10, <1>13, <1>14 DEF left

\* Where what is at p after a move to dst was before.
LEMMA MovedFrom ==
    ASSUME NEW src \in Path, NEW dst \in Path, NEW p \in Path, IsPrefix(dst, p), p # dst
    PROVE  LET from == src \o SubSeq(p, Len(dst) + 1, Len(p))
           IN  /\ from \in Path /\ from # <<>> /\ IsPrefix(dst, Front(p))
               /\ Front(from) = src \o SubSeq(Front(p), Len(dst) + 1, Len(Front(p)))
<1> DEFINE a == Len(dst)
           n == Len(p)
           m == Len(src)
           rest == SubSeq(p, a + 1, n)
           less == SubSeq(Front(p), a + 1, n - 1)
           from == src \o rest
           upto == src \o less
<1>1. a \in Nat /\ n \in Nat /\ m \in Nat /\ a < n /\ DOMAIN p = 1..n /\ \A i \in 1..n : p[i] \in Name
  BY PathIs, PrefixCut
<1>2. p # <<>> /\ Front(p) \in Path /\ Len(Front(p)) = n - 1 /\ \A i \in 1..n - 1 : Front(p)[i] = p[i]
  <2>1. p # <<>>
    BY <1>1, PathIs
  <2> QED
    BY <2>1, FrontIs
<1> HIDE DEF a, n, m
<1>3. rest \in Path /\ Len(rest) = n - a /\ \A i \in 1..n - a : rest[i] = p[a + i]
  <2>1. a + 1 \in Int /\ n \in Int /\ a + 1 <= n /\ n - (a + 1) + 1 = n - a /\ \A i \in a + 1..n : p[i] \in Name
    BY <1>1
  <2>2. /\ rest \in Seq(Name) /\ Len(rest) = IF a + 1 <= n THEN n - (a + 1) + 1 ELSE 0
        /\ \A i \in 1..n - (a + 1) + 1 : rest[i] = p[a + 1 + i - 1]
    BY <2>1, SubSeqProperties
  <2>3. \A i \in 1..n - a : a + 1 + i - 1 = a + i
    BY <1>1
  <2> QED
    BY <2>1, <2>2, <2>3 DEF Path
<1>4. less \in Path /\ Len(less) = n - 1 - a /\ \A i \in 1..n - 1 - a : less[i] = p[a + i]
  <2>1. a + 1 \in Int /\ n - 1 \in Int /\ n - 1 - (a + 1) + 1 = n - 1 - a /\ \A i \in a + 1..n - 1 : Front(p)[i] = p[i] /\ p[i] \in Name
    BY <1>1, <1>2
  <2>2. /\ less \in Seq(Name) /\ Len(less) = IF a + 1 <= n - 1 THEN n - 1 - (a + 1) + 1 ELSE 0
        /\ \A i \in 1..n - 1 - (a + 1) + 1 : less[i] = Front(p)[a + 1 + i - 1]
    BY <2>1, SubSeqProperties
  <2>3. \A i \in 1..n - 1 - a : a + 1 + i - 1 = a + i /\ Front(p)[a + i] = p[a + i]
    BY <1>1, <1>2
  <2>4. Len(less) = n - 1 - a
    BY <1>1, <2>2
  <2> QED
    BY <2>1, <2>2, <2>3, <2>4 DEF Path
<1> HIDE DEF rest, less
<1>5. /\ from \in Path /\ Len(from) = m + Len(rest)
      /\ \A i \in 1..m + Len(rest) : from[i] = IF i <= m THEN src[i] ELSE rest[i - m]
  BY <1>3, ConcatProperties DEF Path, m
<1>6. /\ upto \in Path /\ Len(upto) = m + Len(less)
      /\ \A i \in 1..m + Len(less) : upto[i] = IF i <= m THEN src[i] ELSE less[i - m]
  BY <1>4, ConcatProperties DEF Path, m
<1> HIDE DEF from, upto
<1>7. from # <<>>
  <2>1. Len(from) # 0
    BY <1>1, <1>3, <1>5
  <2> QED
    BY <1>5, <2>1, PathIs
<1>8. Front(from) \in Path /\ Len(Front(from)) = Len(from) - 1 /\ \A i \in 1..Len(from) - 1 : Front(from)[i] = from[i]
  BY <1>5, <1>7, FrontIs
<1>9. Len(from) - 1 = Len(upto) /\ Len(upto) = m + (n - 1 - a) /\ Len(from) = m + (n - a)
  BY <1>1, <1>3, <1>4, <1>5, <1>6
<1>10. \A i \in 1..Len(upto) : from[i] = upto[i]
  <2> SUFFICES ASSUME NEW i \in 1..Len(upto) PROVE from[i] = upto[i]
    OBVIOUS
  <2>1. i \in 1..m + Len(less) /\ i \in 1..m + Len(rest)
    BY <1>1, <1>3, <1>4, <1>9
  <2>2. CASE i <= m
    BY <1>5, <1>6, <2>1, <2>2
  <2>3. CASE ~(i <= m)
    <3>1. i - m \in 1..n - 1 - a /\ i - m \in 1..n - a
      BY <1>1, <1>9, <2>1, <2>3
    <3>2. from[i] = rest[i - m] /\ upto[i] = less[i - m]
      BY <1>5, <1>6, <2>1, <2>3
    <3> QED
      BY <1>3, <1>4, <3>1, <3>2
  <2> QED
    BY <2>2, <2>3
<1>11. Front(from) = upto
  <2>1. Len(Front(from)) = Len(upto) /\ \A i \in 1..Len(Front(from)) : Front(from)[i] = upto[i]
    BY <1>8, <1>9, <1>10
  <2> QED
    BY <1>6, <1>8, <2>1, SamePath
<1>12. IsPrefix(dst, Front(p))
  BY UnderFront DEF Under
<1> QED
  BY <1>2, <1>5, <1>7, <1>11, <1>12 DEF from, upto, rest, less, a, n

\* rename: what is moved stays whole, is in its new place what it was, and is no longer in the old one.
LEMMA RenamedIs ==
    ASSUME NEW D, Closed(D), NEW t, Whole(t, D), NEW src \in D, NEW dst \in D \cup {Outside}, CanRename(t, src, dst),
           \A p \in D : ~IsPrefix(Outside, p)
    PROVE  LET next == Renamed(t, src, dst)
               from(p) == src \o SubSeq(p, Len(dst) + 1, Len(p))
           IN  /\ Whole(next, D)
               /\ \A p \in D : next[p] = Absent \/ \E q \in D : next[p] = t[q]
               /\ \A p \in D : /\ IsPrefix(dst, p) /\ from(p) \in D => next[p] = t[from(p)]
                               /\ IsPrefix(src, p) /\ ~IsPrefix(dst, p) => next[p] = Absent
                               /\ ~IsPrefix(src, p) /\ ~IsPrefix(dst, p) => next[p] = t[p]
<1> DEFINE next == Renamed(t, src, dst)
           From(p) == src \o SubSeq(p, Len(dst) + 1, Len(p))
           In(p) == dst # Outside /\ IsPrefix(dst, p)
<1>1. /\ DOMAIN t = D /\ Closed(DOMAIN t) /\ RootedIn(t) /\ t \in [D -> SfNodes]
      /\ \A p \in D : /\ p \in Path /\ Front(p) \in D
                      /\ Exists(t, p) /\ p # <<>> => IsDir(t, Front(p))
  BY WholeIs DEF Whole
<1>2. Absent \in SfNodes /\ Absent.kind = "none"
  BY NewNodes
<1>3. next = [p \in D |-> IF In(p) THEN (IF From(p) \in D THEN t[From(p)] ELSE Absent)
                          ELSE IF IsPrefix(src, p) THEN Absent ELSE t[p]]
  BY <1>1 DEF Renamed
<1> HIDE DEF next, From, In
<1>4. next \in [D -> SfNodes] /\ DOMAIN next = D
  BY <1>1, <1>2, <1>3
<1>5. \A p \in D : Exists(next, p) =>
          \/ In(p) /\ From(p) \in D /\ Exists(t, From(p)) /\ next[p] = t[From(p)]
          \/ ~In(p) /\ ~IsPrefix(src, p) /\ Exists(t, p) /\ next[p] = t[p]
  BY <1>2, <1>3 DEF Exists
<1>6. \A p \in D : ~In(p) /\ ~IsPrefix(src, p) => next[p] = t[p]
  BY <1>3
<1>7. \A p \in D : In(p) /\ From(p) \in D => next[p] = t[From(p)]
  BY <1>3
<1>8. ASSUME NEW p \in D, Exists(next, p), p # <<>>
      PROVE  IsDir(next, Front(p))
  <2>1. p \in Path /\ Front(p) \in D /\ Front(p) \in Path /\ IsPrefix(Front(p), p) /\ Under(Front(p), p)
    BY <1>1, <1>8, FrontUnder
  <2>2. CASE In(p) /\ p = dst
    <3>1. dst # Outside /\ dst # <<>> /\ IsDir(t, Front(dst)) /\ ~Under(src, dst)
      BY <2>2 DEF CanRename, In
    <3>2. ~In(Front(p))
      <4>1. Len(Front(p)) < Len(p) /\ Len(p) \in Nat /\ Len(Front(p)) \in Nat
        BY <2>1, PrefixCut, PathIs DEF Under
      <4> QED
        BY <2>2, <4>1 DEF In, IsPrefix
    <3>3. ~IsPrefix(src, Front(p))
      <4> SUFFICES ASSUME IsPrefix(src, Front(p)) PROVE FALSE
        OBVIOUS
      <4>1. src \in Path
        BY <1>1
      <4>2. IsPrefix(src, p)
        BY <2>1, <4>1, PrefixThrough
      <4>3. Len(src) <= Len(Front(p)) /\ Len(Front(p)) < Len(p)
        BY <2>1, <4>1, PrefixIs, PrefixCut DEF Under
      <4>4. src # p
        BY <2>1, <4>1, <4>3, PathIs
      <4> QED
        BY <2>2, <3>1, <4>2, <4>4 DEF Under
    <3>4. next[Front(p)] = t[Front(p)]
      BY <1>6, <2>1, <3>2, <3>3
    <3> QED
      BY <2>2, <3>1, <3>4 DEF IsDir
  <2>3. CASE In(p) /\ p # dst
    <3>1. From(p) \in D /\ Exists(t, From(p)) /\ dst \in Path /\ src \in Path /\ IsPrefix(dst, p) /\ dst # Outside
      BY <1>1, <1>5, <1>8, <2>3 DEF In
    <3>2. From(p) # <<>> /\ IsPrefix(dst, Front(p)) /\ Front(From(p)) = From(Front(p))
      <4>1. /\ src \o SubSeq(p, Len(dst) + 1, Len(p)) # <<>> /\ IsPrefix(dst, Front(p))
            /\ Front(src \o SubSeq(p, Len(dst) + 1, Len(p))) = src \o SubSeq(Front(p), Len(dst) + 1, Len(Front(p)))
        BY ONLY <2>1, <2>3, <3>1, MovedFrom, ZenonT(30)
      <4> QED
        BY <4>1, Zenon DEF From
    <3>3. IsDir(t, From(Front(p))) /\ From(Front(p)) \in D
      BY <1>1, <3>1, <3>2
    <3>4. next[Front(p)] = t[From(Front(p))]
      BY <1>7, <2>1, <3>1, <3>2, <3>3 DEF In
    <3> QED
      BY <3>3, <3>4 DEF IsDir
  <2>4. CASE ~In(p)
    <3>1. ~IsPrefix(src, p) /\ Exists(t, p)
      BY <1>5, <1>8, <2>4
    <3>2. IsDir(t, Front(p))
      BY <1>1, <1>8, <3>1
    <3>3. ~IsPrefix(src, Front(p))
      BY <1>1, <2>1, <3>1, PrefixThrough
    <3>4. ~In(Front(p))
      <4>1. CASE dst = Outside
        BY <4>1 DEF In
      <4>2. CASE dst # Outside
        BY <1>1, <2>1, <2>4, <4>2, PrefixThrough DEF In
      <4> QED
        BY <4>1, <4>2
    <3>5. next[Front(p)] = t[Front(p)]
      BY <1>6, <2>1, <3>3, <3>4
    <3> QED
      BY <3>2, <3>5 DEF IsDir
  <2> QED
    BY <2>2, <2>3, <2>4
<1>9. \A p \in D : next[p] = Absent \/ \E q \in D : next[p] = t[q]
  BY <1>3
<1>10. \A p \in D : In(p) <=> IsPrefix(dst, p)
  BY DEF In
<1>11. \A p \in D : /\ IsPrefix(dst, p) /\ From(p) \in D => next[p] = t[From(p)]
                    /\ IsPrefix(src, p) /\ ~IsPrefix(dst, p) => next[p] = Absent
                    /\ ~IsPrefix(src, p) /\ ~IsPrefix(dst, p) => next[p] = t[p]
  BY <1>3, <1>10
<1>12. Whole(next, D)
  BY <1>4, <1>8 DEF Whole, RootedIn
<1> QED
  BY <1>9, <1>11, <1>12 DEF next, From

-----------------------------------------------------------------------------
(* A state of the server, and a request that passes all that could refuse it. *)

\* What a file or directory is: one of those there were at first, though perhaps in another place, or later than all of them.
Dated(node) == \/ node.kind = "none"
               \/ \E q \in DOMAIN sf.first : sf.first[q] = node
               \/ \A q \in DOMAIN sf.first : sf.first[q].mtime <= node.mtime

\* The fields of the state are there, the tree is whole, has the paths it had at first, and requests speak of them.
Sound ==
    /\ sf = [fs |-> sf.fs, opts |-> sf.opts, first |-> sf.first, was |-> sf.was, now |-> sf.now, left |-> sf.left,
             asked |-> sf.asked, reply |-> sf.reply]
    /\ Closed(DOMAIN sf.fs) /\ Whole(sf.fs, DOMAIN sf.fs)
    /\ DOMAIN sf.first = DOMAIN sf.fs
    /\ \A p \in DOMAIN sf.fs : /\ sf.first[p] \in SfNodes /\ sf.first[p].mtime <= sf.now
                              /\ Dated(sf.fs[p]) /\ ~IsPrefix(Outside, p)
    /\ sf.now \in Nat /\ sf.opts.index \in Seq(Name)
    /\ \A r \in SfRequests : r.uri \in DOMAIN sf.fs /\ r.to \in DOMAIN sf.fs \cup {Outside}

\* Its URI is that of a file or directory, with no file on the way.
Found(r) == PathOf(r) = r.uri /\ \A q \in DOMAIN sf.fs : Under(q, r.uri) => ~IsFile(sf.fs, q)

LEMMA FoundIs ==
    ASSUME Sound, NEW r \in SfRequests, ~HasPathInfo(r)
    PROVE  Found(r)
<1> DEFINE D == DOMAIN sf.fs
           n == Len(r.uri)
<1>1. Closed(D) /\ r.uri \in D /\ r.uri \in Path /\ n \in Nat /\ D \subseteq Path
  BY PathIs DEF Sound, Closed
<1>2. CASE Files(r) = {}
  <2>1. PathOf(r) = r.uri
    BY <1>2 DEF PathOf
  <2>2. ASSUME NEW q \in D, Under(q, r.uri) PROVE ~IsFile(sf.fs, q)
    <3>1. Len(q) \in 0..n /\ q = SubSeq(r.uri, 1, Len(q))
      BY <1>1, <2>2, PrefixCut DEF Under
    <3> DEFINE k == Len(q)
    <3> HIDE DEF k
    <3>2. k \in 0..Len(r.uri) /\ q = SubSeq(r.uri, 1, k)
      BY <3>1 DEF k
    <3> QED
      BY <1>2, <3>2 DEF Files
  <2> QED
    BY <2>1, <2>2 DEF Found
<1>3. CASE Files(r) # {}
  <2> DEFINE m == Min(Files(r))
  <2>1. Files(r) \in SUBSET Nat /\ \A k \in Files(r) : k \in 0..n
    BY <1>1 DEF Files
  <2>2. m \in Files(r) /\ \A y \in Files(r) : m <= y
    BY <1>3, <2>1, MinIs
  <2>3. PathOf(r) = SubSeq(r.uri, 1, m) /\ m \in 0..n
    BY <1>3, <2>1, <2>2 DEF PathOf
  <2>4. Len(PathOf(r)) = m
    BY <1>1, <2>3, CutIs
  <2>5. m = n
    BY <1>1, <1>3, <2>3, <2>4 DEF HasPathInfo
  <2>6. PathOf(r) = r.uri
    BY <1>1, <2>3, <2>5, SubSeqFull DEF Path
  <2>7. ASSUME NEW q \in D, Under(q, r.uri), IsFile(sf.fs, q) PROVE FALSE
    <3>1. Len(q) \in 0..n /\ q = SubSeq(r.uri, 1, Len(q)) /\ Len(q) < n
      BY <1>1, <2>7, PrefixCut DEF Under
    <3> DEFINE k == Len(q)
    <3> HIDE DEF k
    <3>2. k \in 0..Len(r.uri) /\ q = SubSeq(r.uri, 1, k) /\ k < n
      BY <3>1 DEF k
    <3>3. k \in Files(r)
      BY <2>7, <3>2 DEF Files
    <3> HIDE DEF m
    <3> QED
      BY <1>1, <2>1, <2>2, <2>5, <3>2, <3>3
  <2> QED
    BY <2>6, <2>7 DEF Found
<1> QED
  BY <1>2, <1>3

\* What mg_send_http_file has made sure of before it comes to a handler.
Passed(r) ==
    /\ Found(r)
    /\ IsDir(sf.fs, r.uri) /\ ~IsDav(r) => r.slash
    /\ IsDav(r) => sf.opts.davRoot
    /\ Authorized(r)
    /\ IsCreation(r) \/ (Exists(sf.fs, r.uri) /\ ~HiddenPath(r.uri))
    /\ IsDav(r) /\ r.method # "PROPFIND" => DavAuthorized(r)

LEMMA PassedIs ==
    ASSUME Sound, NEW r \in SfRequests, Refusal(r) = 0
    PROVE  Passed(r)
<1>1. /\ ~(IsDir(sf.fs, PathOf(r)) /\ ~r.slash /\ ~IsDav(r))
      /\ ~(HasPathInfo(r) /\ ~IsCgi(r))
      /\ ~(IsDav(r) /\ ~sf.opts.davRoot)
      /\ Authorized(r)
      /\ ~IsCgi(r)
      /\ ~((~Exists(sf.fs, PathOf(r)) \/ HiddenPath(PathOf(r))) /\ ~IsCreation(r))
      /\ ~(IsDav(r) /\ r.method # "PROPFIND" /\ ~DavAuthorized(r))
  BY DEF Refusal
<1>2. ~HasPathInfo(r)
  BY <1>1
<1>3. Found(r) /\ PathOf(r) = r.uri
  BY <1>2, FoundIs DEF Found
<1> QED
  BY <1>1, <1>3 DEF Passed

LEMMA RefusalIs ==
    ASSUME NEW r
    PROVE  Refusal(r) \in {0, 1, 2, 301, 401, 403, 404, 501}
BY DEF Refusal

\* What is sent for a path: the path itself, or an index file in it.
LEMMA TargetIs ==
    ASSUME Sound, NEW r \in SfRequests, Found(r)
    PROVE  /\ Target(r) \in DOMAIN sf.fs
           /\ \/ Target(r) = r.uri /\ ~HasIndex(r)
              \/ /\ HasIndex(r) /\ IsDir(sf.fs, r.uri) /\ IsFile(sf.fs, Target(r))
                 /\ Front(Target(r)) = r.uri /\ Last(Target(r)) \in Range(sf.opts.index)
<1>1. PathOf(r) = r.uri /\ r.uri \in DOMAIN sf.fs /\ r.uri \in Path
  BY DEF Found, Sound, Closed
<1>2. CASE ~HasIndex(r)
  BY <1>1, <1>2 DEF Target
<1>3. CASE HasIndex(r)
  <2> DEFINE i == Min(Index(r))
             name == sf.opts.index[i]
  <2>1. IsDir(sf.fs, r.uri) /\ Index(r) # {}
    BY <1>1, <1>3 DEF HasIndex
  <2>2. Index(r) \in SUBSET Nat
    BY LenProperties DEF Index, Sound
  <2>3. i \in Index(r)
    BY <2>1, <2>2, MinIs
  <2>4. i \in DOMAIN sf.opts.index /\ r.uri \o <<name>> \in DOMAIN sf.fs /\ IsFile(sf.fs, r.uri \o <<name>>)
    BY <1>1, <2>3 DEF Index
  <2>5. name \in Name
    BY <2>4, LenProperties, ElementOfSeq DEF Sound
  <2>6. Target(r) = r.uri \o <<name>>
    BY <1>1, <1>3 DEF Target
  <2>7. Front(r.uri \o <<name>>) = r.uri /\ Last(r.uri \o <<name>>) = name
    BY <1>1, <2>5, EntryIs
  <2>8. name \in Range(sf.opts.index)
    BY <2>4 DEF Range
  <2> HIDE DEF name
  <2> QED
    BY <1>3, <2>1, <2>4, <2>6, <2>7, <2>8
<1> QED
  BY <1>2, <1>3

-----------------------------------------------------------------------------
(* What is promised of one answer: r is what was asked, of the tree t, and  *)
(* next is the tree it leaves.                                              *)

InForceIn(t, p) == {lines \in {sf.opts.global} \cup {t[q].data : q \in {d \o <<Pw>> : d \in {p, Front(p)}} \cap
                                                                 {q \in DOMAIN t : Exists(t, q) /\ IsDir(t, Front(q))}} :
                        lines # Missing}

SentAs(r, reply, t) ==
    reply.sent # Absent =>
        /\ t[reply.at].kind = "file"
        /\ reply.status = 200 => reply.sent = t[reply.at]
        /\ reply.status = 206 => \A i \in DOMAIN reply.sent.data : reply.sent.data[i] = t[reply.at].data[i + Head(r.range)]
        /\ reply.at = r.uri \/ (r.slash /\ Front(reply.at) = r.uri /\ Last(reply.at) \in Range(sf.opts.index))
        /\ HiddenPath(reply.at) => HiddenSent(r, reply.at)
        /\ sf.opts.domain => \A lines \in InForceIn(t, reply.at) : r.user \in Range(lines)

ListedAs(reply, t) ==
    reply.listed # {} =>
        /\ sf.opts.listing
        /\ reply.listed = {n \in {Last(p) : p \in {q \in DOMAIN t : Under(reply.at, q) /\ Len(q) = Len(reply.at) + 1
                                                                    /\ Exists(t, q)}} : ~HiddenName(n)}

KeptAs(r, reply, t) ==
    reply.status = 304 /\ reply.at # <<>> =>
        \/ t[reply.at].data = sf.first[reply.at].data
        \/ t[reply.at].mtime = sf.first[reply.at].mtime
        \/ /\ r.cond = "date" /\ t[reply.at].mtime < sf.first[reply.at].mtime
           /\ \E p \in DOMAIN sf.first \ {reply.at} : sf.first[p] = t[reply.at]

GoneIn(t, next) == {p \in DOMAIN next : Exists(t, p) /\ ~Exists(next, p)}
NewIn(t, next) == {p \in DOMAIN next : ~Exists(t, p) /\ Exists(next, p)}
MayChange(r) == /\ sf.opts.webdav /\ r.method \in Dav /\ sf.opts.davRoot /\ sf.opts.dav # "none"
                /\ (sf.opts.domain /\ sf.opts.dav = "file" => Admits(sf.opts.davUsers, r))

MovedAs(r, t, next) ==
    LET from(p) == r.uri \o SubSeq(p, Len(r.to) + 1, Len(p))
    IN  \A p \in DOMAIN next :
           /\ IsPrefix(r.to, p) /\ from(p) \in DOMAIN t => next[p] = t[from(p)]
           /\ IsPrefix(r.uri, p) /\ ~IsPrefix(r.to, p) => ~Exists(next, p)
           /\ ~IsPrefix(r.uri, p) /\ ~IsPrefix(r.to, p) => next[p] = t[p]

ChangedAs(r, status, t, next) ==
    /\ next # t => MayChange(r)
    /\ status >= 400 /\ next # t =>
           /\ r.method = "PUT" /\ GoneIn(t, next) = {}
           /\ {p \in DOMAIN next \ (GoneIn(t, next) \cup NewIn(t, next)) : t[p] # next[p]} = {}
           /\ \A p \in NewIn(t, next) : Under(p, r.uri) /\ IsDir(next, p)
    /\ status = 201 => r.uri \in NewIn(t, next) /\ GoneIn(t, next) = {} /\ (r.method = "PUT" => next[r.uri].data = r.body)
    /\ status = 204 => /\ NewIn(t, next) = {}
                       /\ \A p \in GoneIn(t, next) : IsPrefix(r.uri, p) /\ ~\E k \in Len(r.uri) + 1..Len(p) : HiddenName(p[k])
                       /\ Exists(next, r.uri) => \E p \in DOMAIN next : Under(r.uri, p) /\ Exists(next, p) /\ HiddenPath(p)
    /\ status = 200 /\ r.method = "PUT" /\ sf.opts.webdav =>
           next[r.uri].data = r.body /\ GoneIn(t, next) = {} /\ NewIn(t, next) = {}
    /\ status = 200 /\ r.method = "MOVE" /\ sf.opts.webdav => MovedAs(r, t, next)

\* What is in a tree was somewhere in the one before, or is of this second.
Sprung(next, t) == \A p \in DOMAIN next : \/ next[p].kind = "none" \/ next[p].mtime = sf.now
                                         \/ \E q \in DOMAIN t : next[p] = t[q]

AnsweredWell(r, reply, next) ==
    /\ Whole(next, DOMAIN sf.fs) /\ Sprung(next, sf.fs)
    /\ SentAs(r, reply, sf.fs) /\ ListedAs(reply, sf.fs) /\ KeptAs(r, reply, sf.fs) /\ ChangedAs(r, reply.status, sf.fs, next)

Promised == SentRightly /\ ListedRightly /\ KeptRightly /\ ChangedRightly

LEMMA Hidden == ASSUME sf'.opts = sf.opts PROVE (\A n : HiddenName(n)' <=> HiddenName(n)) /\ (\A p : HiddenPath(p)' <=> HiddenPath(p))
BY DEF HiddenName, HiddenPath

\* An answer as promised keeps the promise.
LEMMA AnswerKeeps ==
    ASSUME Sound, NEW r, NEW reply, NEW next, Answer(r, reply, next), AnsweredWell(r, reply, next)
    PROVE  Sound' /\ Promised'
<1>1. /\ sf'.fs = next /\ sf'.was = sf.fs /\ sf'.asked = r /\ sf'.reply = reply
      /\ sf'.opts = sf.opts /\ sf'.first = sf.first /\ sf'.now = sf.now
      /\ sf' = [fs |-> sf'.fs, opts |-> sf'.opts, first |-> sf'.first, was |-> sf'.was, now |-> sf'.now, left |-> sf'.left,
                asked |-> sf'.asked, reply |-> sf'.reply]
  BY DEF Answer, Sound
<1>2. Whole(next, DOMAIN sf.fs) /\ DOMAIN next = DOMAIN sf.fs
  BY DEF AnsweredWell, Whole
<1>3. Sound'
  <2>2. \A p \in DOMAIN sf.fs : Dated(next[p])
    <3> SUFFICES ASSUME NEW p \in DOMAIN sf.fs PROVE Dated(next[p])
      OBVIOUS
    <3>1. next[p].kind = "none" \/ next[p].mtime = sf.now \/ \E q \in DOMAIN sf.fs : next[p] = sf.fs[q]
      BY <1>2 DEF AnsweredWell, Sprung
    <3>2. \A q \in DOMAIN sf.fs : Dated(sf.fs[q])
      BY DEF Sound
    <3>3. next[p].mtime = sf.now => Dated(next[p])
      BY DEF Sound, Dated
    <3> QED
      BY <3>1, <3>2, <3>3 DEF Dated
  <2>1. /\ Closed(DOMAIN sf'.fs) /\ Whole(sf'.fs, DOMAIN sf'.fs) /\ DOMAIN sf'.first = DOMAIN sf'.fs
        /\ \A p \in DOMAIN sf'.fs : /\ sf'.first[p] \in SfNodes /\ sf'.first[p].mtime <= sf'.now
                                     /\ ~IsPrefix(Outside, p)
        /\ sf'.now \in Nat /\ sf'.opts.index \in Seq(Name)
        /\ \A x \in SfRequests : x.uri \in DOMAIN sf'.fs /\ x.to \in DOMAIN sf'.fs \cup {Outside}
    BY <1>1, <1>2 DEF Sound
  <2> QED
    BY <1>1, <1>2, <2>1, <2>2 DEF Sound, Dated
<1>4. (\A n : HiddenName(n)' <=> HiddenName(n)) /\ (\A p : HiddenPath(p)' <=> HiddenPath(p))
  BY <1>1, Hidden
<1>5. SentRightly'
  <2>1. InForce(reply.at)' = InForceIn(sf.fs, reply.at)
    BY <1>1 DEF InForce, InForceIn
  <2>2. SentAs(r, reply, sf.fs)
    BY DEF AnsweredWell
  <2> QED
    BY <1>1, <1>4, <2>1, <2>2 DEF SentRightly, SentAs, HiddenSent
<1>6. ListedRightly'
  BY <1>1, <1>4 DEF ListedRightly, AnsweredWell, ListedAs
<1>7. KeptRightly'
  BY <1>1 DEF KeptRightly, AnsweredWell, KeptAs
<1>8. ChangedRightly'
  <2>1. ChangedAs(r, reply.status, sf.fs, next)
    BY DEF AnsweredWell
  <2> QED
    BY <1>1, <1>4, <2>1 DEF ChangedRightly, ChangedAs, GoneIn, NewIn, MayChange, MovedAs
<1> QED
  BY <1>3, <1>5, <1>6, <1>7, <1>8 DEF Promised

\* A step that answers as promised.
AnswersWell(r) == \E reply, next : Answer(r, reply, next) /\ AnsweredWell(r, reply, next)

LEMMA StatusIs ==
    ASSUME NEW n
    PROVE  Status(n).status = n /\ Status(n).sent = Absent /\ Status(n).at = <<>> /\ Status(n).listed = {}
BY DEF Status, NothingYet

\* A reply that is no more than a status.
LEMMA PlainlyAnswered ==
    ASSUME Sound, NEW r, NEW n, NEW next, Whole(next, DOMAIN sf.fs), Sprung(next, sf.fs),
           ChangedAs(r, n, sf.fs, next)
    PROVE  AnsweredWell(r, Status(n), next)
BY StatusIs DEF AnsweredWell, SentAs, ListedAs, KeptAs

LEMMA NothingChanged ==
    ASSUME NEW r, NEW n \in Nat, NEW t, n \notin {201, 204}, n = 200 => ~(r.method \in Dav /\ sf.opts.webdav)
    PROVE  ChangedAs(r, n, t, t)
BY DEF ChangedAs, GoneIn, NewIn, Dav

LEMMA WholeNow == ASSUME Sound PROVE Whole(sf.fs, DOMAIN sf.fs) /\ Closed(DOMAIN sf.fs) /\ Sprung(sf.fs, sf.fs)
BY DEF Sound, Sprung

\* An error, or another reply that leaves the tree alone.
LEMMA ErrorIs ==
    ASSUME Sound, NEW r, NEW n \in Nat \ {200, 201, 204}, Answer(r, Status(n), sf.fs)
    PROVE  AnswersWell(r)
<1>1. ChangedAs(r, n, sf.fs, sf.fs)
  BY NothingChanged
<1>2. AnsweredWell(r, Status(n), sf.fs)
  BY <1>1, PlainlyAnswered, WholeNow
<1> QED
  BY <1>2 DEF AnswersWell

LEMMA RefuseIs ==
    ASSUME Sound, NEW r \in SfRequests, Refuse(r)
    PROVE  AnswersWell(r)
<1>1. Refusal(r) \in {1, 2, 301, 401, 403, 404, 501} /\ Answer(r, Status(Refusal(r)), sf.fs)
  BY RefusalIs DEF Refuse
<1>2. Refusal(r) \in Nat \ {200, 201, 204}
  BY <1>1
<1> QED
  BY <1>1, <1>2, ErrorIs

LEMMA OptionsIs ==
    ASSUME Sound, NEW r \in SfRequests, Options(r)
    PROVE  AnswersWell(r)
<1>1. r.method = "OPTIONS" /\ Answer(r, Status(200), sf.fs)
  BY DEF Options
<1>2. ChangedAs(r, 200, sf.fs, sf.fs)
  BY <1>1, NothingChanged DEF Dav
<1>3. AnsweredWell(r, Status(200), sf.fs)
  BY <1>2, PlainlyAnswered, WholeNow
<1> QED
  BY <1>1, <1>3 DEF AnswersWell

\* A list has what the directory has, but for what is hidden.
LEMMA ShownIs ==
    ASSUME NEW dir
    PROVE  Shown(dir) = {n \in {Last(p) : p \in {q \in DOMAIN sf.fs : Under(dir, q) /\ Len(q) = Len(dir) + 1
                                                                    /\ Exists(sf.fs, q)}} : ~HiddenName(n)}
BY DEF Shown

LEMMA PropfindIs ==
    ASSUME Sound, NEW r \in SfRequests, Propfind(r)
    PROVE  AnswersWell(r)
<1> DEFINE dir == IsDir(sf.fs, Target(r))
           reply == [Status(207) EXCEPT !.at = Target(r), !.listed = IF dir /\ r.deep THEN Shown(PathOf(r)) ELSE {}]
<1>1. Refusal(r) = 0 /\ Passed(r) /\ Found(r)
  BY PassedIs DEF Propfind, Passes, Passed
<1>2. CASE dir /\ ~sf.opts.listing
  <2>1. Answer(r, Status(403), sf.fs)
    BY <1>2 DEF Propfind
  <2> QED
    BY <2>1, ErrorIs
<1>3. CASE ~(dir /\ ~sf.opts.listing)
  <2>1. Answer(r, reply, sf.fs)
    BY <1>3 DEF Propfind
  <2>2. /\ reply.status = 207 /\ reply.sent = Absent /\ reply.at = Target(r)
        /\ reply.listed = IF dir /\ r.deep THEN Shown(PathOf(r)) ELSE {}
    BY DEF Status, NothingYet
  <2> HIDE DEF reply
  <2>3. dir => Target(r) = PathOf(r)
    <3> SUFFICES ASSUME dir PROVE Target(r) = PathOf(r)
      OBVIOUS
    <3>1. ~IsFile(sf.fs, Target(r))
      BY DEF IsFile, IsDir
    <3> QED
      BY <1>1, <3>1, TargetIs DEF Found
  <2>4. ListedAs(reply, sf.fs)
    <3> SUFFICES ASSUME reply.listed # {}
                 PROVE  /\ sf.opts.listing
                        /\ reply.listed = {n \in {Last(p) : p \in {q \in DOMAIN sf.fs : Under(reply.at, q) /\ Len(q) = Len(reply.at) + 1
                                                                                     /\ Exists(sf.fs, q)}} : ~HiddenName(n)}
      BY DEF ListedAs
    <3>1. dir /\ reply.listed = Shown(reply.at)
      BY <2>2, <2>3
    <3> QED
      BY <1>3, <3>1, ShownIs
  <2>5. ChangedAs(r, 207, sf.fs, sf.fs)
    BY NothingChanged
  <2>6. AnsweredWell(r, reply, sf.fs)
    BY <2>2, <2>4, <2>5, WholeNow DEF AnsweredWell, SentAs, KeptAs
  <2> QED
    BY <2>1, <2>6 DEF AnswersWell
<1> QED
  BY <1>2, <1>3

\* A request that passes, of WebDAV other than PROPFIND, may change the tree.
LEMMA PassesIs ==
    ASSUME Sound, NEW r \in SfRequests, NEW method, Passes(r, method), method \in {"PUT", "DELETE", "MKCOL", "MOVE"}
    PROVE  /\ r.method = method /\ MayChange(r) /\ PathOf(r) = r.uri /\ r.uri \in DOMAIN sf.fs /\ r.uri \in Path
           /\ \A q \in DOMAIN sf.fs : Under(q, r.uri) => ~IsFile(sf.fs, q)
<1>1. Passed(r) /\ IsDav(r) /\ r.method = method
  BY PassedIs DEF Passes
<1>2. DavAuthorized(r) /\ sf.opts.davRoot /\ sf.opts.webdav
  BY <1>1 DEF Passed, IsDav
<1>3. MayChange(r)
  BY <1>1, <1>2 DEF MayChange, DavAuthorized, Dav
<1>4. r.uri \in DOMAIN sf.fs /\ r.uri \in Path
  BY DEF Sound, Closed
<1> QED
  BY <1>1, <1>3, <1>4 DEF Passed, Found

LEMMA MkcolIs ==
    ASSUME Sound, NEW r \in SfRequests, Mkcol(r)
    PROVE  AnswersWell(r)
<1> DEFINE D == DOMAIN sf.fs
           p == r.uri
           next == [sf.fs EXCEPT ![p] = DirNode(sf.now)]
<1>1. /\ r.method = "MKCOL" /\ MayChange(r) /\ PathOf(r) = p /\ p \in D
  BY PassesIs DEF Mkcol
<1>2. CASE \E n \in {403, 405, 409, 415, 500} : Answer(r, Status(n), sf.fs)
  BY <1>2, ErrorIs
<1>3. CASE Answer(r, Status(201), next) /\ ~Exists(sf.fs, p) /\ (p = <<>> \/ IsDir(sf.fs, Front(p)))
  <2>1. Whole(sf.fs, D) /\ Closed(D) /\ DOMAIN next = D
    BY WholeNow
  <2>2. DirNode(sf.now) \in SfNodes /\ DirNode(sf.now).kind = "dir" /\ DirNode(sf.now).mtime = sf.now
    BY NewNodes DEF Sound
  <2>3. Whole(next, D)
    BY <1>1, <1>3, <2>1, <2>2, WrittenIs
  <2>4. next[p] = DirNode(sf.now) /\ \A q \in D : q # p => next[q] = sf.fs[q]
    BY <1>1
  <2> HIDE DEF next
  <2>5. GoneIn(sf.fs, next) = {}
    BY <1>3, <2>1, <2>4 DEF GoneIn, Exists
  <2>6. p \in NewIn(sf.fs, next)
    BY <1>1, <1>3, <2>1, <2>2, <2>4 DEF NewIn, Exists
  <2>7. ChangedAs(r, 201, sf.fs, next)
    BY <1>1, <2>5, <2>6 DEF ChangedAs
  <2>9. Sprung(next, sf.fs)
    BY <2>1, <2>2, <2>4 DEF Sprung
  <2>8. AnsweredWell(r, Status(201), next)
    BY <2>3, <2>7, <2>9, PlainlyAnswered
  <2> QED
    BY <1>3, <2>8 DEF AnswersWell
<1>4. \/ \E n \in {403, 405, 409, 415, 500} : Answer(r, Status(n), sf.fs)
      \/ Answer(r, Status(201), next) /\ ~Exists(sf.fs, p) /\ (p = <<>> \/ IsDir(sf.fs, Front(p)))
  BY <1>1 DEF Mkcol
<1> QED
  BY <1>2, <1>3, <1>4

LEMMA DeleteIs ==
    ASSUME Sound, NEW r \in SfRequests, Delete(r)
    PROVE  AnswersWell(r)
<1> DEFINE D == DOMAIN sf.fs
           p == r.uri
<1>1. /\ r.method = "DELETE" /\ MayChange(r) /\ PathOf(r) = p /\ p \in D /\ p \in Path
  BY PassesIs DEF Delete
<1>2. Whole(sf.fs, D) /\ Closed(D)
  BY WholeNow
<1>3. CASE IsDir(sf.fs, p)
  <2> DEFINE next == RemoveDirectory(sf.fs, p)
  <2>1. Answer(r, Status(204), next)
    BY <1>1, <1>3 DEF Delete
  <2>2. /\ Whole(next, D)
        /\ \A q \in D : next[q] = sf.fs[q] \/ next[q] = Absent
        /\ \A q \in D : /\ Exists(next, q) => Exists(sf.fs, q)
                        /\ Exists(sf.fs, q) /\ ~Exists(next, q) =>
                              IsPrefix(p, q) /\ ~\E k \in Len(p) + 1..Len(q) : HiddenName(q[k])
        /\ Exists(next, p) => \E q \in D : Under(p, q) /\ Exists(next, q) /\ HiddenPath(q)
    BY <1>1, <1>2, RemovedDirectoryIs
  <2> HIDE DEF next
  <2>3. DOMAIN next = D
    BY <2>2 DEF Whole
  <2>4. NewIn(sf.fs, next) = {}
    BY <2>2, <2>3 DEF NewIn
  <2>5. \A q \in GoneIn(sf.fs, next) : IsPrefix(p, q) /\ ~\E k \in Len(p) + 1..Len(q) : HiddenName(q[k])
    BY <2>2, <2>3 DEF GoneIn
  <2>6. ChangedAs(r, 204, sf.fs, next)
    BY <1>1, <2>2, <2>3, <2>4, <2>5 DEF ChangedAs
  <2>8. Sprung(next, sf.fs)
    BY <2>2, <2>3, NewNodes DEF Sprung
  <2>7. AnsweredWell(r, Status(204), next)
    BY <2>2, <2>6, <2>8, PlainlyAnswered
  <2> QED
    BY <2>1, <2>7 DEF AnswersWell
<1>5. CASE Answer(r, Status(423), sf.fs)
  BY <1>5, ErrorIs
<1>4. CASE ~IsDir(sf.fs, p) /\ ~Answer(r, Status(423), sf.fs)
  <2> DEFINE next == [sf.fs EXCEPT ![p] = Absent]
  <2>1. Answer(r, Status(204), next)
    BY <1>1, <1>4 DEF Delete
  <2>2. Whole(next, D) /\ DOMAIN next = D
    BY <1>1, <1>2, <1>4, RemovedIs
  <2>3. next[p] = Absent /\ \A q \in D : q # p => next[q] = sf.fs[q]
    BY <1>1
  <2> HIDE DEF next
  <2>4. NewIn(sf.fs, next) = {} /\ GoneIn(sf.fs, next) \subseteq {p} /\ ~Exists(next, p)
    BY <2>2, <2>3, NewNodes DEF NewIn, GoneIn, Exists
  <2>5. IsPrefix(p, p) /\ Len(p) + 1..Len(p) = {}
    BY <1>1, PrefixSelf, PathIs
  <2>6. \A q \in GoneIn(sf.fs, next) : IsPrefix(p, q) /\ ~\E k \in Len(p) + 1..Len(q) : HiddenName(q[k])
    BY <2>4, <2>5
  <2>7. ChangedAs(r, 204, sf.fs, next)
    BY <1>1, <2>4, <2>6 DEF ChangedAs
  <2>9. Sprung(next, sf.fs)
    BY <2>2, <2>3, NewNodes DEF Sprung
  <2>8. AnsweredWell(r, Status(204), next)
    BY <2>2, <2>7, <2>9, PlainlyAnswered
  <2> QED
    BY <2>1, <2>8 DEF AnswersWell
<1> QED
  BY <1>3, <1>4, <1>5

LEMMA MoveIs ==
    ASSUME Sound, NEW r \in SfRequests, Move(r)
    PROVE  AnswersWell(r)
<1> DEFINE D == DOMAIN sf.fs
           p == r.uri
           next == Renamed(sf.fs, p, r.to)
<1>1. /\ r.method = "MOVE" /\ MayChange(r) /\ PathOf(r) = p /\ p \in D /\ r.to \in D \cup {Outside}
  BY PassesIs DEF Move, Sound
<1>2. CASE \E n \in {411, 418, 500} : Answer(r, Status(n), sf.fs)
  BY <1>2, ErrorIs
<1>3. CASE CanRename(sf.fs, p, r.to) /\ Answer(r, Status(200), next)
  <2> DEFINE from(q) == p \o SubSeq(q, Len(r.to) + 1, Len(q))
  <2>1. /\ Whole(next, D)
        /\ \A q \in D : next[q] = Absent \/ \E o \in D : next[q] = sf.fs[o]
        /\ \A q \in D : /\ IsPrefix(r.to, q) /\ from(q) \in D => next[q] = sf.fs[from(q)]
                        /\ IsPrefix(p, q) /\ ~IsPrefix(r.to, q) => next[q] = Absent
                        /\ ~IsPrefix(p, q) /\ ~IsPrefix(r.to, q) => next[q] = sf.fs[q]
    <3>1. Whole(sf.fs, D) /\ Closed(D) /\ \A q \in D : ~IsPrefix(Outside, q)
      BY WholeNow DEF Sound
    <3> QED
      BY <1>1, <1>3, <3>1, RenamedIs
  <2> HIDE DEF next
  <2>4. DOMAIN next = D
    BY <2>1 DEF Whole
  <2>5. MovedAs(r, sf.fs, next)
    <3>1. \A q \in D : next[q] = Absent => ~Exists(next, q)
      BY NewNodes DEF Exists
    <3> QED
      BY <2>1, <2>4, <3>1 DEF MovedAs
  <2>6. Sprung(next, sf.fs)
    BY <2>1, <2>4, NewNodes DEF Sprung
  <2>2. ChangedAs(r, 200, sf.fs, next)
    BY <1>1, <2>5 DEF ChangedAs
  <2>3. AnsweredWell(r, Status(200), next)
    BY <2>1, <2>2, <2>6, PlainlyAnswered
  <2> QED
    BY <1>3, <2>3 DEF AnswersWell
<1>4. \/ \E n \in {411, 418, 500} : Answer(r, Status(n), sf.fs)
      \/ CanRename(sf.fs, p, r.to) /\ Answer(r, Status(200), next)
  <2>1. CASE r.dest = "none"
    BY <2>1 DEF Move
  <2>2. CASE r.dest = "malformed"
    BY <2>2 DEF Move
  <2>3. CASE r.dest = "names"
    BY <1>1, <2>3 DEF Move
  <2> QED
    BY <2>1, <2>2, <2>3, SfAssumption
<1> QED
  BY <1>2, <1>3, <1>4

\* What PUT writes: the body, and less of it or after zeros where there is a range.
Written(r) ==
    LET last == IF r.range = <<>> THEN Len(r.body)
                ELSE IF Last(r.range) > Head(r.range) THEN Last(r.range) - Head(r.range) + 1 ELSE Len(r.body) - Head(r.range)
        start == IF r.range = <<>> THEN <<>> ELSE [i \in 1..Head(r.range) |-> 0]
    IN  IF last <= 0 THEN <<>> ELSE start \o SubSeq(r.body, 1, IF last < Len(r.body) THEN last ELSE Len(r.body))

LEMMA WrittenData ==
    ASSUME NEW r \in SfRequests
    PROVE  Written(r) \in Seq(0..9) /\ (r.range = <<>> => Written(r) = r.body)
<1> DEFINE last == IF r.range = <<>> THEN Len(r.body)
                   ELSE IF Last(r.range) > Head(r.range) THEN Last(r.range) - Head(r.range) + 1 ELSE Len(r.body) - Head(r.range)
           start == IF r.range = <<>> THEN <<>> ELSE [i \in 1..Head(r.range) |-> 0]
           upto == IF last < Len(r.body) THEN last ELSE Len(r.body)
           taken == SubSeq(r.body, 1, upto)
<1>1. r.body \in Seq(0..9) /\ r.range \in Seq(Int) /\ Len(r.body) \in Nat
      /\ (\A i \in 1..Len(r.body) : r.body[i] \in 0..9) /\ (r.body = <<>> <=> Len(r.body) = 0)
  BY SfAssumption, LenProperties, ElementOfSeq, EmptySeq
<1>2. r.range # <<>> => Head(r.range) \in Int /\ Last(r.range) \in Int
  <2> SUFFICES ASSUME r.range # <<>> PROVE Head(r.range) \in Int /\ Last(r.range) \in Int
    OBVIOUS
  <2>1. Head(r.range) \in Int
    BY <1>1, HeadTailProperties
  <2>2. Len(r.range) \in Nat \ {0}
    BY <1>1, EmptySeq
  <2>3. Len(r.range) \in 1..Len(r.range)
    BY <2>2
  <2>4. Last(r.range) \in Int
    BY <1>1, <2>3, ElementOfSeq DEF Last
  <2> QED
    BY <2>1, <2>4
<1>3. last \in Int
  BY <1>1, <1>2
<1>4. start \in Seq(0..9)
  <2>1. CASE r.range = <<>>
    BY <2>1, EmptySeq
  <2>2. CASE r.range # <<>>
    <3> DEFINE n == Head(r.range)
    <3>1. n \in Int
      BY <1>2, <2>2
    <3> HIDE DEF n
    <3>2. CASE n \in Nat
      <4>1. [i \in 1..n |-> 0] \in [1..n -> 0..9]
        OBVIOUS
      <4>2. [i \in 1..n |-> 0] \in Seq(0..9)
        BY <3>2, <4>1, SeqDef
      <4> QED
        BY <2>2, <4>2 DEF n
    <3>3. CASE n \notin Nat
      <4>1. PICK m \in Nat : m = 0
        OBVIOUS
      <4>2. 1..n = 1..m
        BY <3>1, <3>3, <4>1
      <4>3. [i \in 1..m |-> 0] \in Seq(0..9)
        <5>1. [i \in 1..m |-> 0] \in [1..m -> 0..9]
          OBVIOUS
        <5> QED
          BY <5>1, SeqDef
      <4>4. [i \in 1..n |-> 0] \in Seq(0..9)
        BY <4>2, <4>3, Zenon
      <4> QED
        BY <2>2, <4>4 DEF n
    <3> QED
      BY <3>2, <3>3
  <2> QED
    BY <2>1, <2>2
<1> HIDE DEF last, start
<1>5. 0 < last => taken \in Seq(0..9)
  <2> SUFFICES ASSUME 0 < last PROVE taken \in Seq(0..9)
    OBVIOUS
  <2>1. upto \in Nat /\ upto <= Len(r.body)
    BY <1>1, <1>3
  <2>2. upto \in Int /\ \A i \in 1..upto : r.body[i] \in 0..9
    BY <1>1, <2>1
  <2> HIDE DEF upto
  <2>3. 1 \in Int
    OBVIOUS
  <2> QED
    BY <2>2, <2>3, SubSeqProperties
<1>6. Written(r) = IF last <= 0 THEN <<>> ELSE start \o taken
  BY DEF Written, last, start
<1>7. Written(r) \in Seq(0..9)
  <2>1. CASE last <= 0
    BY <1>6, <2>1, EmptySeq
  <2>2. CASE ~(last <= 0)
    <3>1. taken \in Seq(0..9)
      BY <1>3, <1>5, <2>2
    <3> HIDE DEF taken
    <3> QED
      BY <1>4, <1>6, <2>2, <3>1, ConcatProperties
  <2> QED
    BY <2>1, <2>2
<1>8. ASSUME r.range = <<>> PROVE Written(r) = r.body
  <2>1. last = Len(r.body) /\ start = <<>>
    BY <1>8 DEF last, start
  <2>2. upto = Len(r.body)
    BY <1>1, <2>1
  <2>3. CASE last <= 0
    BY <1>1, <1>6, <2>1, <2>3
  <2>4. CASE ~(last <= 0)
    <3>1. taken = r.body
      BY <1>1, <2>2, SubSeqFull
    <3>2. <<>> \o r.body = r.body
      BY <1>1, ConcatEmptySeq
    <3> HIDE DEF taken
    <3> QED
      BY <1>6, <2>1, <2>4, <3>1, <3>2
  <2> QED
    BY <2>3, <2>4
<1> QED
  BY <1>7, <1>8

LEMMA PutIs ==
    ASSUME Sound, NEW r \in SfRequests, Put(r)
    PROVE  AnswersWell(r)
<1> DEFINE D == DOMAIN sf.fs
           p == r.uri
           made == MadeDirectories(sf.fs, p, Len(p))
           next == [made EXCEPT ![p] = FileNode(Written(r), sf.now)]
           status == IF r.range # <<>> THEN 206 ELSE IF Exists(sf.fs, p) THEN 200 ELSE 201
<1>1. /\ r.method = "PUT" /\ MayChange(r) /\ PathOf(r) = p /\ p \in D /\ p \in Path
      /\ \A q \in D : Under(q, p) => ~IsFile(sf.fs, q)
  BY PassesIs DEF Put
<1>2. Whole(sf.fs, D) /\ Closed(D) /\ sf.now \in Nat /\ Len(p) \in Nat
  BY <1>1, WholeNow, PathIs DEF Sound
<1>3. /\ Whole(made, D)
      /\ p # <<>> => IsDir(made, Front(p))
      /\ \A q \in D : /\ made[q] = sf.fs[q] \/ made[q] = DirNode(sf.now)
                      /\ Exists(sf.fs, q) => made[q] = sf.fs[q]
                      /\ ~Exists(sf.fs, q) /\ Exists(made, q) => Under(q, p) /\ IsDir(made, q)
      /\ Exists(sf.fs, p) => made = sf.fs
  BY <1>1, <1>2, MadeIs
<1>4. \/ \E n \in {411, 500}, k \in Int : Answer(r, Status(n), MadeDirectories(sf.fs, p, k))
      \/ ~IsDir(made, p) /\ Answer(r, Status(status), next)
  <2>1. \A d \in D : Len(d) - 1 \in Int
    BY <1>2, PathIs DEF Closed
  <2> QED
    BY <1>1, <1>2, <2>1 DEF Put, Written
<1>6. CASE \E n \in {411, 500}, k \in Int : Answer(r, Status(n), MadeDirectories(sf.fs, p, k))
  <2>1. PICK n \in {411, 500}, k \in Int : Answer(r, Status(n), MadeDirectories(sf.fs, p, k))
    BY <1>6
  <2> DEFINE some == MadeDirectories(sf.fs, p, k)
  <2>2. /\ Whole(some, D)
        /\ \A q \in D : /\ some[q] = sf.fs[q] \/ some[q] = DirNode(sf.now)
                        /\ Exists(sf.fs, q) => some[q] = sf.fs[q]
                        /\ ~Exists(sf.fs, q) /\ Exists(some, q) => Under(q, p) /\ IsDir(some, q)
    BY <1>1, <1>2, MadeIs
  <2>3. Answer(r, Status(n), some)
    BY <2>1
  <2> HIDE DEF some
  <2>4. DOMAIN some = D
    BY <2>2 DEF Whole
  <2>5. DirNode(sf.now).kind = "dir" /\ DirNode(sf.now).mtime = sf.now
    BY <1>2, NewNodes
  <2>6. GoneIn(sf.fs, some) = {}
    BY <2>2, <2>4 DEF GoneIn, Exists
  <2>7. \A q \in NewIn(sf.fs, some) : Under(q, p) /\ IsDir(some, q)
    BY <2>2, <2>4 DEF NewIn
  <2>8. \A q \in D : q \in NewIn(sf.fs, some) \/ sf.fs[q] = some[q]
    BY <2>2, <2>4, <2>5 DEF NewIn, Exists
  <2>9. {q \in DOMAIN some \ (GoneIn(sf.fs, some) \cup NewIn(sf.fs, some)) : sf.fs[q] # some[q]} = {}
    BY <2>4, <2>8
  <2>10. ChangedAs(r, n, sf.fs, some)
    BY <1>1, <2>6, <2>7, <2>9 DEF ChangedAs
  <2>11. Sprung(some, sf.fs)
    BY <2>2, <2>4, <2>5 DEF Sprung
  <2>12. AnsweredWell(r, Status(n), some)
    BY <2>2, <2>10, <2>11, PlainlyAnswered
  <2> QED
    BY <2>3, <2>12 DEF AnswersWell
<1> HIDE DEF made
<1>5. DOMAIN made = D
  BY <1>3 DEF Whole
<1>7. CASE ~IsDir(made, p) /\ Answer(r, Status(status), next)
  <2> DEFINE node == FileNode(Written(r), sf.now)
  <2>1. node \in SfNodes /\ node.kind = "file" /\ node.data = Written(r) /\ node.mtime = sf.now
    BY <1>2, WrittenData, NewNodes
  <2> HIDE DEF node
  <2>2. next[p] = node /\ \A q \in D : q # p => next[q] = made[q]
    BY <1>1, <1>5 DEF node
  <2>3. Whole(next, D)
    <3>1. Whole([made EXCEPT ![p] = node], D)
      BY <1>1, <1>2, <1>3, <1>7, <2>1, WrittenIs
    <3> QED
      BY <3>1 DEF node
  <2> HIDE DEF next
  <2>4. DOMAIN next = D
    BY <2>3 DEF Whole
  <2>5. GoneIn(sf.fs, next) = {}
    BY <1>3, <2>1, <2>2, <2>4 DEF GoneIn, Exists
  <2>6. r.range = <<>> => next[p].data = r.body
    BY <2>1, <2>2, WrittenData
  <2>7. ~Exists(sf.fs, p) => p \in NewIn(sf.fs, next)
    BY <1>1, <2>1, <2>2, <2>4 DEF NewIn, Exists
  <2>8. Exists(sf.fs, p) => NewIn(sf.fs, next) = {}
    BY <1>3, <2>2, <2>4 DEF NewIn, Exists
  <2>9. ChangedAs(r, status, sf.fs, next)
    <3>1. CASE r.range # <<>>
      BY <1>1, <3>1 DEF ChangedAs
    <3>2. CASE r.range = <<>> /\ Exists(sf.fs, p)
      BY <1>1, <2>5, <2>6, <2>8, <3>2 DEF ChangedAs
    <3>3. CASE r.range = <<>> /\ ~Exists(sf.fs, p)
      BY <1>1, <2>5, <2>6, <2>7, <3>3 DEF ChangedAs
    <3> QED
      BY <3>1, <3>2, <3>3
  <2> HIDE DEF status
  <2>11. Sprung(next, sf.fs)
    BY <1>2, <1>3, <2>1, <2>2, <2>4, NewNodes DEF Sprung
  <2>10. AnsweredWell(r, Status(status), next)
    BY <2>3, <2>9, <2>11, PlainlyAnswered
  <2> QED
    BY <1>7, <2>10 DEF AnswersWell
<1> QED
  BY <1>4, <1>6, <1>7

\* What a range is of the data of a file.
LEMMA RangedIs ==
    ASSUME NEW data \in Seq(0..9), NEW range \in Seq(Int)
    PROVE  LET part == Ranged(data, range)
           IN  /\ part.status \in {200, 206, 416}
               /\ part.status = 200 => part.data = data
               /\ part.status = 206 => \A i \in DOMAIN part.data : part.data[i] = data[i + Head(range)]
<1> DEFINE r1 == Head(range)
           r2 == IF Len(range) = 1 THEN Len(data) - 1 ELSE Last(range)
           part == Ranged(data, range)
           cut == SubSeq(data, r1 + 1, r2 + 1)
<1>1. CASE range = <<>> \/ r1 < 0 \/ (Len(range) = 2 /\ r2 < 0)
  BY <1>1 DEF Ranged
<1>2. CASE ~(range = <<>> \/ r1 < 0 \/ (Len(range) = 2 /\ r2 < 0)) /\ (r1 > r2 \/ r2 >= Len(data))
  BY <1>2 DEF Ranged
<1>3. CASE ~(range = <<>> \/ r1 < 0 \/ (Len(range) = 2 /\ r2 < 0)) /\ ~(r1 > r2 \/ r2 >= Len(data))
  <2>1. part = [status |-> 206, data |-> cut]
    BY <1>3 DEF Ranged
  <2>2. r1 \in Int /\ Len(data) \in Nat /\ \A i \in 1..Len(data) : data[i] \in 0..9
    BY <1>3, HeadTailProperties, LenProperties, ElementOfSeq
  <2>3. r2 \in Int
    <3>1. Len(range) \in Nat \ {0}
      BY <1>3, EmptySeq
    <3>2. Len(range) \in 1..Len(range)
      BY <3>1
    <3> QED
      BY <2>2, <3>2, ElementOfSeq DEF Last
  <2>4. ~(r1 < 0) /\ ~(r1 > r2) /\ ~(r2 >= Len(data))
    BY <1>3
  <2> HIDE DEF r1, r2
  <2> DEFINE lo == r1 + 1
             hi == r2 + 1
  <2>5. lo \in Int /\ hi \in Int /\ lo <= hi /\ \A i \in lo..hi : data[i] \in 0..9
    BY <2>2, <2>3, <2>4
  <2>6. /\ cut \in Seq(0..9) /\ Len(cut) = IF lo <= hi THEN hi - lo + 1 ELSE 0
        /\ \A i \in 1..hi - lo + 1 : cut[i] = data[lo + i - 1]
    <3> HIDE DEF lo, hi
    <3>1. /\ SubSeq(data, lo, hi) \in Seq(0..9) /\ Len(SubSeq(data, lo, hi)) = IF lo <= hi THEN hi - lo + 1 ELSE 0
          /\ \A i \in 1..hi - lo + 1 : SubSeq(data, lo, hi)[i] = data[lo + i - 1]
      BY <2>5, SubSeqProperties
    <3>2. cut = SubSeq(data, lo, hi)
      BY DEF lo, hi
    <3> HIDE DEF cut
    <3> QED
      BY <3>1, <3>2
  <2> HIDE DEF cut
  <2>7. Len(cut) = hi - lo + 1 /\ DOMAIN cut = 1..Len(cut)
    <3> HIDE DEF lo, hi
    <3> QED
      BY <2>5, <2>6, LenProperties
  <2>8. \A i \in DOMAIN cut : cut[i] = data[i + r1]
    <3> SUFFICES ASSUME NEW i \in DOMAIN cut PROVE cut[i] = data[i + r1]
      OBVIOUS
    <3>1. i \in 1..hi - lo + 1 /\ cut[i] = data[lo + i - 1]
      <4> HIDE DEF lo, hi
      <4> QED
        BY <2>6, <2>7
    <3>3. lo + i - 1 = i + r1
      BY <2>2, <2>3, <3>1
    <3>2. cut[i] = data[i + r1]
      <4> HIDE DEF lo
      <4> QED
        BY <3>1, <3>3
    <3> QED
      BY <3>2
  <2> HIDE DEF part
  <2> QED
    BY <2>1, <2>8 DEF r1, part
<1> QED
  BY <1>1, <1>2, <1>3

\* The passwords in force for a file that is sent were asked for.
LEMMA AdmittedIs ==
    ASSUME Sound, NEW r \in SfRequests, Passed(r), IsFile(sf.fs, Target(r)), sf.opts.domain
    PROVE  \A lines \in InForceIn(sf.fs, Target(r)) : r.user \in Range(lines)
<1> DEFINE D == DOMAIN sf.fs
           at == Target(r)
           dir == IF IsDir(sf.fs, r.uri) THEN r.uri ELSE Front(r.uri)
           own == dir \o <<Pw>>
<1>1. PathOf(r) = r.uri /\ r.uri \in D /\ D \subseteq Path /\ Closed(D) /\ Whole(sf.fs, D) /\ Authorized(r) /\ Found(r)
  BY DEF Passed, Found, Sound, Closed
<1>2. Admits(sf.opts.global, r) /\ Admits(DirectoryPasswords(r), r)
  BY <1>1 DEF Authorized
<1>3. at \in D /\ at \in Path /\ Front(at) = dir
  <2>1. /\ Target(r) \in D
        /\ \/ Target(r) = r.uri
           \/ IsDir(sf.fs, r.uri) /\ Front(Target(r)) = r.uri
    BY <1>1, TargetIs
  <2>2. Target(r) = r.uri => ~IsDir(sf.fs, r.uri)
    BY DEF IsFile, IsDir
  <2> HIDE DEF at
  <2> QED
    BY <1>1, <2>1, <2>2 DEF at
<1>4. \A d \in Path : d \o <<Pw>> \in Path /\ Front(d \o <<Pw>>) = d
  <2>1. Pw \in Name
    BY DEF Name
  <2> QED
    BY <2>1, EntryIs
<1>5. DirectoryPasswords(r) = IF own \in D /\ Exists(sf.fs, own) THEN sf.fs[own].data ELSE Missing
  BY <1>1 DEF DirectoryPasswords
<1> HIDE DEF at, dir, own
<1>6. ASSUME NEW lines \in InForceIn(sf.fs, at) PROVE r.user \in Range(lines)
  <2>1. lines # Missing
    BY <1>6 DEF InForceIn
  <2>2. CASE lines = sf.opts.global
    BY <1>2, <2>1, <2>2 DEF Admits
  <2>3. CASE \E q \in D : q \in {d \o <<Pw>> : d \in {at, Front(at)}} /\ Exists(sf.fs, q) /\ IsDir(sf.fs, Front(q)) /\ lines = sf.fs[q].data
    <3>1. PICK q \in D : q \in {d \o <<Pw>> : d \in {at, Front(at)}} /\ Exists(sf.fs, q) /\ IsDir(sf.fs, Front(q)) /\ lines = sf.fs[q].data
      BY <2>3
    <3>2. q # at \o <<Pw>>
      <4> SUFFICES ASSUME q = at \o <<Pw>> PROVE FALSE
        OBVIOUS
      <4>1. Front(q) = at
        BY <1>3, <1>4
      <4> QED
        BY <3>1, <4>1 DEF at, IsFile, IsDir
    <3>3. q = own
      BY <1>3, <3>1, <3>2 DEF own
    <3>4. DirectoryPasswords(r) = lines
      BY <1>5, <3>1, <3>3
    <3> QED
      BY <1>2, <2>1, <3>4 DEF Admits
  <2> QED
    BY <1>6, <2>2, <2>3 DEF InForceIn
<1> QED
  BY <1>6 DEF at

LEMMA GetIs ==
    ASSUME Sound, NEW r \in SfRequests, Get(r)
    PROVE  AnswersWell(r)
<1> DEFINE D == DOMAIN sf.fs
           at == Target(r)
           node == sf.fs[at]
           part == Ranged(node.data, r.range)
           list == [Status(200) EXCEPT !.listed = Shown(at), !.at = at]
           kept == [Status(304) EXCEPT !.at = at]
           file == [Status(part.status) EXCEPT !.sent = [node EXCEPT !.data = part.data], !.at = at]
<1>1. Passed(r) /\ Found(r) /\ ~IsDav(r)
  BY PassedIs DEF Get, Passed
<1>2. at \in D /\ Whole(sf.fs, D) /\ Closed(D) /\ Sprung(sf.fs, sf.fs) /\ node \in SfNodes
  BY <1>1, TargetIs, WholeNow DEF Whole
<1>3. Stat(r) = node /\ Seen(r) = sf.first[at]
  BY DEF Stat, Seen
<1>4. ChangedAs(r, 200, sf.fs, sf.fs)
  BY <1>1, NothingChanged DEF IsDav, Dav
<1>5. \/ \E n \in {403, 404, 304} : Answer(r, Status(n), sf.fs)
      \/ sf.opts.listing /\ Answer(r, list, sf.fs)
      \/ Exists(sf.fs, at) /\ NotModified(r) /\ Answer(r, kept, sf.fs)
      \/ Exists(sf.fs, at) /\ ~IsDir(sf.fs, at) /\ Answer(r, file, sf.fs)
  <2>1. CASE IsDir(sf.fs, at)
    BY <2>1 DEF Get
  <2>2. CASE ~IsDir(sf.fs, at)
    BY <1>3, <2>2 DEF Get
  <2> QED
    BY <2>1, <2>2
<1>6. CASE \E n \in {403, 404, 304} : Answer(r, Status(n), sf.fs)
  BY <1>6, ErrorIs
<1>7. CASE sf.opts.listing /\ Answer(r, list, sf.fs)
  <2>1. list.status = 200 /\ list.sent = Absent /\ list.at = at /\ list.listed = Shown(at)
    BY DEF Status, NothingYet
  <2> HIDE DEF list
  <2>2. ListedAs(list, sf.fs)
    BY <1>7, <2>1, ShownIs DEF ListedAs
  <2>3. AnsweredWell(r, list, sf.fs)
    BY <1>2, <1>4, <2>1, <2>2 DEF AnsweredWell, SentAs, KeptAs
  <2> QED
    BY <1>7, <2>3 DEF AnswersWell
<1>8. CASE Exists(sf.fs, at) /\ NotModified(r) /\ Answer(r, kept, sf.fs)
  <2>1. kept.status = 304 /\ kept.sent = Absent /\ kept.at = at /\ kept.listed = {}
    BY DEF Status, NothingYet
  <2> HIDE DEF kept
  <2>2. \/ node.mtime = sf.first[at].mtime
        \/ /\ r.cond = "date" /\ node.mtime < sf.first[at].mtime
           /\ \E p \in DOMAIN sf.first \ {at} : sf.first[p] = node
    <3> DEFINE had == sf.first[at]
    <3>1. node.mtime \in Nat /\ had.mtime \in Nat /\ at \in DOMAIN sf.first /\ Dated(node) /\ node.kind # "none"
      BY <1>2, <1>8, NodeIs DEF Sound, Exists
    <3>2. CASE r.cond = "etag" /\ Etag(node) = Etag(had)
      BY <3>2 DEF Etag
    <3>3. CASE r.cond = "date" /\ node.mtime <= had.mtime
      <4>1. CASE node.mtime = had.mtime
        BY <4>1
      <4>2. CASE node.mtime < had.mtime
        <5>1. ~(had.mtime <= node.mtime)
          BY <3>1, <4>2
        <5>2. PICK q \in DOMAIN sf.first : sf.first[q] = node
          BY <3>1, <5>1 DEF Dated
        <5>3. q # at
          BY <3>1, <4>2, <5>2
        <5> QED
          BY <3>3, <4>2, <5>2, <5>3
      <4> QED
        BY <3>1, <3>3, <4>1, <4>2
    <3>4. (r.cond = "etag" /\ Etag(node) = Etag(had)) \/ (r.cond = "date" /\ node.mtime <= had.mtime)
      BY <1>3, <1>8 DEF NotModified
    <3> QED
      BY <3>2, <3>3, <3>4
  <2>3. KeptAs(r, kept, sf.fs)
    BY <2>1, <2>2 DEF KeptAs
  <2>4. ChangedAs(r, 304, sf.fs, sf.fs)
    BY NothingChanged
  <2>5. AnsweredWell(r, kept, sf.fs)
    BY <1>2, <2>1, <2>3, <2>4 DEF AnsweredWell, SentAs, ListedAs
  <2> QED
    BY <1>8, <2>5 DEF AnswersWell
<1>9. CASE Exists(sf.fs, at) /\ ~IsDir(sf.fs, at) /\ Answer(r, file, sf.fs)
  <2>1. IsFile(sf.fs, at) /\ node.kind = "file" /\ node.data \in Seq(0..9) /\ r.range \in Seq(Int)
        /\ node = [kind |-> node.kind, data |-> node.data, mtime |-> node.mtime]
    BY <1>2, <1>9, NodeIs, SfAssumption DEF IsFile, IsDir, Exists
  <2>2. /\ part.status \in {200, 206, 416}
        /\ part.status = 200 => part.data = node.data
        /\ part.status = 206 => \A i \in DOMAIN part.data : part.data[i] = node.data[i + Head(r.range)]
    BY <2>1, RangedIs
  <2> DEFINE sent == [node EXCEPT !.data = part.data]
  <2>3. /\ file.status = part.status /\ file.sent = sent /\ file.at = at /\ file.listed = {}
    BY DEF Status, NothingYet
  <2>4. sent.data = part.data /\ (part.data = node.data => sent = node)
    BY <2>1
  <2>5. /\ at = r.uri \/ (r.slash /\ Front(at) = r.uri /\ Last(at) \in Range(sf.opts.index))
        /\ HiddenPath(at) => HiddenSent(r, at)
    <3>1. CASE at = r.uri
      BY <1>1, <3>1 DEF Passed, HiddenSent
    <3>2. CASE IsDir(sf.fs, r.uri) /\ Front(at) = r.uri /\ Last(at) \in Range(sf.opts.index)
      BY <1>1, <3>2 DEF Passed, HiddenSent
    <3> QED
      BY <1>1, <3>1, <3>2, TargetIs
  <2>6. sf.opts.domain => \A lines \in InForceIn(sf.fs, at) : r.user \in Range(lines)
    BY <1>1, <2>1, AdmittedIs
  <2> HIDE DEF file, sent, part
  <2>7. SentAs(r, file, sf.fs)
    <3> HIDE DEF at
    <3>1. file.status = 200 => file.sent = node
      BY <2>2, <2>3, <2>4
    <3>2. file.status = 206 => \A i \in DOMAIN file.sent.data : file.sent.data[i] = node.data[i + Head(r.range)]
      BY <2>2, <2>3, <2>4
    <3> QED
      BY <2>1, <2>3, <2>5, <2>6, <3>1, <3>2 DEF SentAs
  <2>8. ChangedAs(r, file.status, sf.fs, sf.fs)
    <3>1. CASE part.status = 200
      BY <1>4, <2>3, <3>1
    <3>2. CASE part.status \in {206, 416}
      BY <2>3, <3>2, NothingChanged
    <3> QED
      BY <2>2, <3>1, <3>2
  <2>9. AnsweredWell(r, file, sf.fs)
    <3>1. file.status # 304
      BY <2>2, <2>3
    <3> QED
      BY <1>2, <2>3, <2>7, <2>8, <3>1 DEF AnsweredWell, ListedAs, KeptAs
  <2> QED
    BY <1>9, <2>9 DEF AnswersWell
<1> QED
  BY <1>5, <1>6, <1>7, <1>8, <1>9

-----------------------------------------------------------------------------
SfInv == Sound /\ Promised

LEMMA StartsSound == SfInit => SfInv
<1> SUFFICES ASSUME SfInit PROVE SfInv
  OBVIOUS
<1>1. PICK s \in SfSetups : sf = [fs |-> s.fs, opts |-> s.opts, first |-> s.fs, was |-> s.fs, now |-> s.now, left |-> SfCalls,
                                  asked |-> [method |-> "none"], reply |-> NothingYet]
  BY DEF SfInit
<1>2. /\ sf.fs = s.fs /\ sf.opts = s.opts /\ sf.first = s.fs /\ sf.was = s.fs /\ sf.now = s.now /\ sf.reply = NothingYet
      /\ sf = [fs |-> sf.fs, opts |-> sf.opts, first |-> sf.first, was |-> sf.was, now |-> sf.now, left |-> sf.left,
               asked |-> sf.asked, reply |-> sf.reply]
  BY <1>1
<1> DEFINE D == DOMAIN s.fs
<1>0. \A p \in Seq(STRING) : p \in Seq(Name)
  <2>1. STRING \subseteq Name
    BY DEF Name
  <2> QED
    BY <2>1, SeqMonotonic, Zenon
<1>3. /\ s.fs \in [D -> SfNodes] /\ s.now \in Nat
      /\ \A p \in D : /\ p \in Seq(Name) /\ Front(p) \in D
                      /\ Exists(s.fs, p) /\ p # <<>> => IsDir(s.fs, Front(p))
                      /\ s.fs[p].mtime <= s.now /\ ~IsPrefix(Outside, p)
      /\ s.opts.index \in Seq(Name)
      /\ \A r \in SfRequests : r.uri \in D /\ r.to \in D \cup {Outside}
  BY <1>0, SfAssumption
<1>4. \A p \in D : s.fs[p] \in SfNodes /\ Dated(s.fs[p])
  BY <1>2, <1>3 DEF Dated
<1>5. Whole(s.fs, D) /\ Closed(D)
  BY <1>3 DEF Whole, Closed, RootedIn, Path
<1>6. Sound
  BY <1>2, <1>3, <1>4, <1>5 DEF Sound
<1>7. NothingYet.sent = Absent /\ NothingYet.listed = {} /\ NothingYet.status = 0
  BY DEF NothingYet
<1>8. Promised
  BY <1>2, <1>7 DEF Promised, SentRightly, ListedRightly, KeptRightly, ChangedRightly
<1> QED
  BY <1>6, <1>8 DEF SfInv

LEMMA ServeKeeps ==
    ASSUME Sound, NEW r \in SfRequests, SfServe(r)
    PROVE  SfInv'
<1>1. AnswersWell(r)
  BY RefuseIs, PropfindIs, MkcolIs, DeleteIs, PutIs, MoveIs, OptionsIs, GetIs DEF SfServe
<1>2. PICK reply, next : Answer(r, reply, next) /\ AnsweredWell(r, reply, next)
  BY <1>1 DEF AnswersWell
<1> QED
  BY <1>2, AnswerKeeps DEF SfInv

\* A second that passes changes nothing of what is promised.
LEMMA TickKeeps == SfInv /\ SfTick => SfInv'
<1> SUFFICES ASSUME SfInv, SfTick PROVE SfInv'
  OBVIOUS
<1>1. /\ sf'.fs = sf.fs /\ sf'.was = sf.was /\ sf'.asked = sf.asked /\ sf'.reply = sf.reply
      /\ sf'.opts = sf.opts /\ sf'.first = sf.first /\ sf'.now = sf.now + 1
      /\ sf' = [fs |-> sf'.fs, opts |-> sf'.opts, first |-> sf'.first, was |-> sf'.was, now |-> sf'.now, left |-> sf'.left,
                asked |-> sf'.asked, reply |-> sf'.reply]
  BY DEF SfInv, Sound, SfTick
<1>2. Sound'
  <2>1. sf.now \in Nat /\ \A p \in DOMAIN sf.fs : sf.first[p].mtime \in Nat /\ sf.first[p].mtime <= sf.now
    BY NodeIs DEF SfInv, Sound
  <2>2. sf'.now \in Nat /\ \A p \in DOMAIN sf.fs : sf.first[p].mtime <= sf'.now
    BY <1>1, <2>1
  <2> QED
    BY <1>1, <2>2 DEF SfInv, Sound, Dated
<1>3. (\A n : HiddenName(n)' <=> HiddenName(n)) /\ (\A p : HiddenPath(p)' <=> HiddenPath(p))
  BY <1>1, Hidden
<1>4. SentRightly'
  <2>1. \A p : InForce(p)' = InForce(p)
    BY <1>1 DEF InForce
  <2> QED
    BY <1>1, <1>3, <2>1 DEF SfInv, Promised, SentRightly, HiddenSent
<1>5. ListedRightly'
  BY <1>1, <1>3 DEF SfInv, Promised, ListedRightly
<1>6. KeptRightly'
  BY <1>1 DEF SfInv, Promised, KeptRightly
<1>7. ChangedRightly'
  BY <1>1, <1>3 DEF SfInv, Promised, ChangedRightly
<1> QED
  BY <1>2, <1>4, <1>5, <1>6, <1>7 DEF SfInv, Promised

LEMMA SfSteps == SfInv /\ [SfNext]_sf => SfInv'
<1> SUFFICES ASSUME SfInv, [SfNext]_sf PROVE SfInv'
  OBVIOUS
<1>1. CASE SfTick
  BY <1>1, TickKeeps
<1>2. CASE \E r \in SfRequests : SfServe(r)
  BY <1>2, ServeKeeps DEF SfInv
<1>3. CASE UNCHANGED sf
  <2>1. Sound'
    BY <1>3 DEF SfInv, Sound, Dated
  <2>2. (\A n : HiddenName(n)' <=> HiddenName(n)) /\ (\A p : HiddenPath(p)' <=> HiddenPath(p)) /\ \A p : InForce(p)' = InForce(p)
    BY <1>3, Hidden DEF InForce
  <2>3. SentRightly' /\ ListedRightly'
    BY <1>3, <2>2 DEF SfInv, Promised, SentRightly, ListedRightly, HiddenSent
  <2>4. KeptRightly' /\ ChangedRightly'
    BY <1>3, <2>2 DEF SfInv, Promised, KeptRightly, ChangedRightly
  <2> QED
    BY <2>1, <2>3, <2>4 DEF SfInv, Promised
<1> QED
  BY <1>1, <1>2, <1>3 DEF SfNext

LEMMA SfHolds == SfSpec => []SfInv
<1> QED
  BY StartsSound, SfSteps, PTL DEF SfSpec

\* Every node of the tree is a file, a directory or nothing, with its data and its time.
THEOREM FilesTyped == SfSpec => []SfTypeOK
<1>1. SfInv => SfTypeOK
  BY DEF SfInv, Sound, Whole, SfTypeOK
<1> QED
  BY <1>1, SfHolds, PTL

\* Whatever requests are made, one after the other, of whatever tree with files of whatever age, and with whatever
\* options: what is sent is the file, or the part of it that was asked for, to a user whom the password files in force
\* for it have, and is not hidden unless it is sent by one of the two ways of HiddenSent; lists have all that is not
\* hidden; a client told to keep what it has, has what the file holds unless that changed in the same second or came
\* from elsewhere and is older; the tree stays whole and changes as the replies say, what is moved too; and hidden files
\* outlive their directories (mg_send_http_file).
THEOREM ServedAlways == SfSpec => []Served
<1>1. SfInv => Served
  BY DEF SfInv, Sound, Whole, RootedIn, Promised, Served, Rooted
<1> QED
  BY <1>1, SfHolds, PTL
=============================================================================
