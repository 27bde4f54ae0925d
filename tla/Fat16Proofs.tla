---------------------------- MODULE Fat16Proofs ----------------------------
(***************************************************************************)
(* Proofs about Fat16, for any number of clusters and of entries and any   *)
(* cluster size.                                                           *)
(*                                                                         *)
(* The loops of fs.c follow a chain of clusters through the FAT, so Chain  *)
(* is a recursive function.  The induction that it needs is done in the    *)
(* form of SetInduction: what is proved of every number up to n is a set   *)
(* of numbers that contains them all.                                      *)
(***************************************************************************)
EXTENDS Fat16, TLAPS, FiniteSetTheorems

\* A set of natural numbers that is not empty has a least element, which is
\* what the loops of alloc_cluster and find_free_entry stop at.
LEMMA LeastNumber ==
  ASSUME NEW S, S \subseteq Nat, S # {}
  PROVE  \E m \in S : \A g \in S : m <= g
<1>1. PICK m \in S : \A g \in S : <<g, m>> \notin OpToRel(<, Nat)
  BY NatLessThanWellFounded, WFMin
<1>2. \A g, k \in Nat : g < k => <<g, k>> \in OpToRel(<, Nat)
  BY Zenon DEF OpToRel
<1>3. \A g \in S : ~ (g < m)
  BY <1>1, <1>2, Zenon
<1> QED
  BY <1>3

\* Min is that element.
LEMMA MinIsLeast ==
  ASSUME NEW S, S \subseteq Nat, S # {}
  PROVE  Min(S) \in S /\ \A g \in S : Min(S) <= g
<1>1. \E m \in S : \A g \in S : m <= g
  BY LeastNumber
<1> QED
  BY <1>1 DEF Min

\* A set that contains 0, and with k also k + 1, contains all numbers up to n.
LEMMA SetInduction ==
  ASSUME NEW n \in Nat, NEW S, 0 \in S,
         \A k \in 0 .. n : k + 1 <= n /\ k \in S => k + 1 \in S
  PROVE  0 .. n \subseteq S
<1> SUFFICES ASSUME (0 .. n) \ S # {}
             PROVE  FALSE
  OBVIOUS
<1>1. PICK m \in (0 .. n) \ S : \A g \in (0 .. n) \ S : m <= g
  <2>1. (0 .. n) \ S \subseteq Nat
    OBVIOUS
  <2> QED
    BY <2>1, LeastNumber
<1>2. m # 0 /\ m - 1 \in 0 .. n /\ m - 1 + 1 = m
  BY <1>1
<1>3. m - 1 \in S
  BY <1>1, <1>2
<1> QED
  BY <1>1, <1>2, <1>3

\* The clusters are finitely many, and a number of steps that is not 0 is a
\* step more than another.
LEMMA FewClusters ==
  /\ FAT_ENTRIES - 3 \in Nat
  /\ EOF \notin Cluster /\ Free \notin Cluster /\ EOF # Free
  /\ IsFiniteSet(Cluster) /\ Cardinality(Cluster) = FAT_ENTRIES - 2
<1>1. 2 \in Int /\ FAT_ENTRIES - 1 \in Int /\ ~ (2 > FAT_ENTRIES - 1) /\ FAT_ENTRIES - 3 \in Nat
  BY Fat16Assumption
<1>2. IsFiniteSet(Cluster) /\ Cardinality(Cluster) = FAT_ENTRIES - 1 - 2 + 1
  BY <1>1, FS_Interval DEF Cluster
<1> QED
  BY <1>1, <1>2, Fat16Assumption DEF Cluster, Free, EOF

\* A sequence without repetition of clusters is not longer than the disk.
LEMMA ShortSequence ==
  ASSUME NEW n \in Nat, NEW s \in [1 .. n -> Cluster],
         \A i, j \in 1 .. n : s[i] = s[j] => i = j
  PROVE  n <= FAT_ENTRIES - 2
<1>1. IsFiniteSet(1 .. n) /\ Cardinality(1 .. n) = n
  BY FS_Interval
<1>2. IsFiniteSet(Cluster) /\ Cardinality(Cluster) = FAT_ENTRIES - 2
  BY FewClusters
<1>3. SUFFICES ASSUME Cardinality(Cluster) < Cardinality(1 .. n)
               PROVE  FALSE
  BY <1>1, <1>2, Fat16Assumption
<1>4. \E i, j \in 1 .. n : i # j /\ s[i] = s[j]
  BY <1>1, <1>2, <1>3, FS_PigeonHole
<1> QED
  BY <1>4

-----------------------------------------------------------------------------
ChainMore(f, g, n) ==
  [d \in Cluster |-> IF f[d] = Free THEN <<>>
                     ELSE IF f[d] = EOF \/ n = 0 THEN <<d>>
                     ELSE <<d>> \o g[f[d]]]

\* The recursive function in Chain exists.
LEMMA ChainFunction ==
  ASSUME NEW f
  PROVE  \E h : h = [n \in 0 .. FAT_ENTRIES - 3 |-> ChainMore(f, h[n - 1], n)]
<1> DEFINE W(g, n) == ChainMore(f, g, n)
           E(h, m) == h = [n \in 0 .. m |-> W(h[n - 1], n)]
           S == {m \in Nat : \E h : E(h, m)}
<1>1. \A g, h : W(g, 0) = W(h, 0)
  BY DEF ChainMore
<1> HIDE DEF W
<1>2. 0 \in S
  <2>1. E([n \in 0 .. 0 |-> W(0, 0)], 0)
    BY <1>1
  <2> HIDE DEF E
  <2> QED
    BY <2>1
<1>3. ASSUME NEW k \in Nat, k \in S
      PROVE  k + 1 \in S
  <2>1. PICK g : E(g, k)
    BY <1>3
  <2> DEFINE h == [n \in 0 .. k + 1 |-> W(g[n - 1], n)]
  <2>2. \A n \in 0 .. k : h[n] = g[n]
    BY <2>1
  <2>3. \A n \in 0 .. k + 1 : n # 0 => n - 1 \in 0 .. k
    OBVIOUS
  <2>4. \A n \in 0 .. k + 1 : W(g[n - 1], n) = W(h[n - 1], n)
    BY <2>2, <2>3, <1>1
  <2>5. E(h, k + 1)
    BY <2>4
  <2> HIDE DEF E, h
  <2> QED
    BY <2>5
<1> HIDE DEF S
<1>4. FAT_ENTRIES - 3 \in Nat
  BY FewClusters
<1>5. 0 .. FAT_ENTRIES - 3 \subseteq S
  BY <1>2, <1>3, <1>4, SetInduction
<1>6. \E h : E(h, FAT_ENTRIES - 3)
  <2> HIDE DEF E
  <2> QED
    BY <1>4, <1>5 DEF S
<1> QED
  BY <1>6 DEF W

\* g[n][d] is the chain from cluster d on, as far as n steps lead.
ChainWalk(f, g) ==
  \A n \in 0 .. FAT_ENTRIES - 3, d \in Cluster :
    g[n][d] = IF f[d] = Free THEN <<>>
              ELSE IF f[d] = EOF \/ n = 0 THEN <<d>>
              ELSE <<d>> \o g[n - 1][f[d]]

\* What Chain computes, step by step.
LEMMA ChainSteps ==
  ASSUME NEW f
  PROVE  \E g : /\ ChainWalk(f, g)
                /\ \A c \in Cluster : Chain(f, c) = g[FAT_ENTRIES - 3][c]
<1> DEFINE F(h) == h = [n \in 0 .. FAT_ENTRIES - 3 |-> ChainMore(f, h[n - 1], n)]
           from == CHOOSE h : F(h)
<1>1. \A c \in Cluster : Chain(f, c) = from[FAT_ENTRIES - 3][c]
  BY DEF Chain, ChainMore
<1>2. F(from)
  <2>1. \E h : F(h)
    BY ChainFunction, Zenon
  <2> HIDE DEF F
  <2> QED
    BY <2>1, Zenon
<1> HIDE DEF from
<1>3. \A n \in 0 .. FAT_ENTRIES - 3 : from[n] = ChainMore(f, from[n - 1], n)
  BY <1>2
<1>4. \A g, n : \A d \in Cluster :
        ChainMore(f, g, n)[d] = IF f[d] = Free THEN <<>>
                                ELSE IF f[d] = EOF \/ n = 0 THEN <<d>>
                                ELSE <<d>> \o g[f[d]]
  BY DEF ChainMore
<1>5. ChainWalk(f, from)
  <2> SUFFICES ASSUME NEW n \in 0 .. FAT_ENTRIES - 3, NEW d \in Cluster
               PROVE  from[n][d] = IF f[d] = Free THEN <<>>
                                   ELSE IF f[d] = EOF \/ n = 0 THEN <<d>>
                                   ELSE <<d>> \o from[n - 1][f[d]]
    BY DEF ChainWalk
  <2>1. from[n][d] = ChainMore(f, from[n - 1], n)[d]
    BY <1>3, Zenon
  <2> QED
    BY <1>4, <2>1, Zenon
<1> QED
  BY <1>1, <1>5

\* The clusters s[1], s[2], ... are linked to a chain that ends with EOF.
IsChain(f, s) ==
  /\ s \in Seq(Cluster)
  /\ s # <<>>
  /\ \A i, j \in 1 .. Len(s) : s[i] = s[j] => i = j
  /\ \A i \in 1 .. Len(s) - 1 : f[s[i]] = s[i + 1]
  /\ f[s[Len(s)]] = EOF

\* Such a chain is a sequence that is not longer than the disk.
LEMMA ChainFacts ==
  ASSUME NEW f, NEW s, IsChain(f, s)
  PROVE  /\ Len(s) \in 1 .. FAT_ENTRIES - 2
         /\ s \in [1 .. Len(s) -> Cluster]
         /\ s \in Seq(Cluster)
<1> DEFINE L == Len(s)
<1>1. L \in Nat /\ L # 0 /\ s \in [1 .. L -> Cluster] /\ s \in Seq(Cluster)
  BY DEF IsChain
<1>2. L <= FAT_ENTRIES - 2
  <2>1. \A i, j \in 1 .. L : s[i] = s[j] => i = j
    BY DEF IsChain
  <2> HIDE DEF L
  <2> QED
    BY <1>1, <2>1, ShortSequence
<1> QED
  BY <1>1, <1>2, Fat16Assumption

\* The loops of fs.c go through exactly the clusters of such a chain.
LEMMA ChainIs ==
  ASSUME NEW f, NEW s, IsChain(f, s)
  PROVE  Chain(f, s[1]) = s
<1> DEFINE L == Len(s)
           M == FAT_ENTRIES - 3
<1>1. L \in Nat /\ L # 0 /\ s \in [1 .. L -> Cluster] /\ L - 1 <= M /\ M \in Nat
      /\ s \in Seq(Cluster)
  BY ChainFacts, FewClusters, Fat16Assumption
<1>3. /\ \A i \in 1 .. L - 1 : f[s[i]] = s[i + 1] /\ f[s[i]] # EOF /\ f[s[i]] # Free
      /\ f[s[L]] = EOF /\ s[1] \in Cluster /\ EOF # Free
  BY <1>1, FewClusters DEF IsChain
<1>4. PICK g : ChainWalk(f, g) /\ \A c \in Cluster : Chain(f, c) = g[M][c]
  BY ChainSteps
<1>5. \A i \in 1 .. L : SubSeq(s, i, L) = <<s[i]>> \o SubSeq(s, i + 1, L)
  <2> TAKE i \in 1 .. L
  <2>1. i \in 1 .. Len(s) /\ L \in i .. Len(s)
    BY <1>1
  <2> HIDE DEF L
  <2> QED
    BY <1>1, <2>1
<1>6. SubSeq(s, L, L) = <<s[L]>>
  <2>1. SubSeq(s, L + 1, L) = <<>>
    BY <1>1
  <2>2. <<s[L]>> \o <<>> = <<s[L]>>
    BY <1>1
  <2>3. SubSeq(s, L, L) = <<s[L]>> \o SubSeq(s, L + 1, L)
    <3>1. L \in 1 .. L
      BY <1>1
    <3> HIDE DEF L
    <3> QED
      BY <1>5, <3>1, Zenon
  <2> HIDE DEF L
  <2> QED
    BY <2>1, <2>2, <2>3, Zenon
<1>7. SubSeq(s, 1, L) = s
  BY <1>1
<1> HIDE DEF L, M
<1> DEFINE S == {k \in 0 .. L - 1 : \A m \in k .. M : g[m][s[L - k]] = SubSeq(s, L - k, L)}
<1>8. 0 \in S
  <2>1. ASSUME NEW m \in 0 .. M
        PROVE  g[m][s[L]] = <<s[L]>>
    <3>1. s[L] \in Cluster /\ f[s[L]] = EOF /\ EOF # Free
      BY <1>1, <1>3
    <3> QED
      BY <1>4, <3>1, Zenon DEF ChainWalk, M
  <2> QED
    BY <1>1, <1>6, <2>1
<1>9. ASSUME NEW k \in 0 .. L - 1, k + 1 <= L - 1, k \in S
      PROVE  k + 1 \in S
  <2> DEFINE j == L - (k + 1)
  <2>1. j \in 1 .. L - 1 /\ j + 1 = L - k /\ j \in 1 .. L
    BY <1>1, <1>9
  <2> HIDE DEF j
  <2>2. ASSUME NEW m \in k + 1 .. M
        PROVE  g[m][s[j]] = SubSeq(s, j, L)
    <3>1. m \in 0 .. M /\ m - 1 \in k .. M /\ m # 0
      BY <1>1
    <3>2. s[j] \in Cluster /\ f[s[j]] = s[j + 1] /\ f[s[j]] # EOF /\ f[s[j]] # Free
      BY <1>1, <1>3, <2>1
    <3>3. g[m][s[j]] = <<s[j]>> \o g[m - 1][s[j + 1]]
      BY <1>4, <3>1, <3>2 DEF ChainWalk, M
    <3>4. g[m - 1][s[j + 1]] = SubSeq(s, j + 1, L)
      BY <1>9, <2>1, <3>1
    <3> QED
      BY <1>5, <2>1, <3>3, <3>4
  <2> QED
    BY <1>1, <1>9, <2>2 DEF j
<1>10. L - 1 \in S
  <2>1. L - 1 \in Nat
    BY <1>1
  <2> HIDE DEF S
  <2>2. 0 .. L - 1 \subseteq S
    BY <1>8, <1>9, <2>1, SetInduction
  <2> QED
    BY <2>1, <2>2
<1>11. g[M][s[1]] = s
  <2>1. M \in L - 1 .. M /\ L - (L - 1) = 1
    BY <1>1
  <2> QED
    BY <1>7, <1>10, <2>1
<1> QED
  BY <1>3, <1>4, <1>11

-----------------------------------------------------------------------------
Increasing(s) == \A i, j \in DOMAIN s : i < j => s[i] < s[j]

\* A finite set of numbers can be put in order.
LEMMA CanBeOrdered ==
  ASSUME NEW S \in SUBSET Nat, IsFiniteSet(S)
  PROVE  \E s \in [1 .. Cardinality(S) -> S] : Increasing(s)
<1> DEFINE P(R) == \E s \in [1 .. Cardinality(R) -> R] : Increasing(s)
           T == {n \in Nat : \A R \in SUBSET Nat : IsFiniteSet(R) /\ Cardinality(R) = n => P(R)}
<1>1. 0 \in T
  <2> SUFFICES ASSUME NEW R \in SUBSET Nat, IsFiniteSet(R), Cardinality(R) = 0
               PROVE  P(R)
    OBVIOUS
  <2>1. R = {}
    BY FS_EmptySet
  <2>2. [i \in 1 .. Cardinality(R) |-> 0] \in [1 .. Cardinality(R) -> R]
    BY <2>1
  <2>3. Increasing([i \in 1 .. Cardinality(R) |-> 0])
    BY DEF Increasing
  <2> QED
    BY <2>2, <2>3
<1>2. ASSUME NEW k \in Nat, k \in T
      PROVE  k + 1 \in T
  <2> SUFFICES ASSUME NEW R \in SUBSET Nat, IsFiniteSet(R), Cardinality(R) = k + 1
               PROVE  P(R)
    OBVIOUS
  <2>1. R # {}
    <3>1. Cardinality(R) # 0
      OBVIOUS
    <3> QED
      BY <3>1, FS_EmptySet, Zenon
  <2>2. PICK m \in R : \A g \in R : m <= g
    BY <2>1, LeastNumber
  <2>3. IsFiniteSet(R \ {m}) /\ Cardinality(R \ {m}) = k
    <3>1. /\ IsFiniteSet(R \ {m})
          /\ Cardinality(R \ {m}) = IF m \in R THEN Cardinality(R) - 1 ELSE Cardinality(R)
      BY FS_RemoveElement, Zenon
    <3> QED
      BY <2>2, <3>1
  <2>4. PICK s \in [1 .. k -> R \ {m}] : Increasing(s)
    <3>1. R \ {m} \in SUBSET Nat
      OBVIOUS
    <3>2. P(R \ {m})
      BY <1>2, <2>3, <3>1
    <3> QED
      BY <2>3, <3>2
  <2> DEFINE t == [i \in 1 .. k + 1 |-> IF i = 1 THEN m ELSE s[i - 1]]
  <2>5. t \in [1 .. k + 1 -> R]
    BY <2>4
  <2>6. ASSUME NEW i \in 1 .. k + 1, NEW j \in 1 .. k + 1, i < j
        PROVE  t[i] < t[j]
    <3>1. j - 1 \in 1 .. k /\ s[j - 1] \in R \ {m} /\ t[j] = s[j - 1]
      BY <2>4, <2>6
    <3>2. CASE i = 1
      <4>1. t[i] = m /\ m \in Nat /\ s[j - 1] \in Nat /\ s[j - 1] # m
        BY <2>2, <3>1, <3>2
      <4>2. m <= s[j - 1]
        BY <2>2, <3>1
      <4> QED
        BY <3>1, <4>1, <4>2
    <3>3. CASE i # 1
      <4>1. i - 1 \in 1 .. k /\ i - 1 < j - 1 /\ t[i] = s[i - 1]
        BY <2>6, <3>1, <3>3
      <4> QED
        BY <2>4, <3>1, <4>1 DEF Increasing
    <3> QED
      BY <3>2, <3>3
  <2>7. Increasing(t)
    BY <2>5, <2>6 DEF Increasing
  <2> HIDE DEF t
  <2> QED
    BY <2>5, <2>7
<1>3. Cardinality(S) \in Nat
  BY FS_CardinalityType
<1> HIDE DEF T
<1>4. 0 .. Cardinality(S) \subseteq T
  BY <1>1, <1>2, <1>3, SetInduction
<1> QED
  BY <1>3, <1>4 DEF T

\* The free clusters, in the order in which alloc_cluster finds them.
LEMMA SpareFacts ==
  ASSUME NEW f
  PROVE  LET spare == Ascending(FreeClusters(f))
         IN  /\ spare \in Seq(FreeClusters(f))
             /\ \A i, j \in 1 .. Len(spare) : spare[i] = spare[j] => i = j
<1> DEFINE S == FreeClusters(f)
           n == Cardinality(S)
<1>1. S \in SUBSET Nat /\ S \subseteq Cluster
  BY Fat16Assumption DEF FreeClusters, Cluster
<1>2. IsFiniteSet(S) /\ n \in Nat
  BY <1>1, FewClusters, FS_Subset, FS_CardinalityType
<1> HIDE DEF S
<1>3. \E s \in [1 .. n -> S] : \A i, j \in DOMAIN s : i < j => s[i] < s[j]
  BY <1>1, <1>2, CanBeOrdered DEF Increasing
<1> DEFINE s == Ascending(S)
<1>4. s \in [1 .. n -> S] /\ \A i, j \in DOMAIN s : i < j => s[i] < s[j]
  BY <1>3 DEF Ascending
<1> HIDE DEF s, n
<1>5. s \in Seq(S) /\ Len(s) = n
  BY <1>2, <1>4
<1>6. ASSUME NEW i \in 1 .. Len(s), NEW j \in 1 .. Len(s), s[i] = s[j]
      PROVE  i = j
  <2>1. s[i] \in Nat /\ s[j] \in Nat /\ i \in DOMAIN s /\ j \in DOMAIN s
    BY <1>1, <1>4, <1>5
  <2>2. ~ (i < j) /\ ~ (j < i)
    BY <1>4, <1>6, <2>1
  <2> QED
    BY <1>2, <1>5, <2>2
<1> QED
  BY <1>5, <1>6 DEF s, S

\* Pieces is how often ClusterSize goes into size, rounded up.
LEMMA PiecesFacts ==
  ASSUME NEW size \in Nat, size # 0
  PROVE  /\ Pieces(size) \in Nat \ {0}
         /\ (Pieces(size) - 1) * ClusterSize < size
         /\ size <= Pieces(size) * ClusterSize
  BY Fat16Assumption DEF Pieces

\* n full clusters need n clusters.
LEMMA FullPieces ==
  ASSUME NEW n \in Nat \ {0}
  PROVE  n * ClusterSize \in Nat \ {0} /\ Pieces(n * ClusterSize) = n
  BY Fat16Assumption DEF Pieces

-----------------------------------------------------------------------------
\* A cluster marked EOF is a chain of one.
LEMMA OneCluster ==
  ASSUME NEW f, NEW c \in Cluster, f[c] = EOF
  PROVE  IsChain(f, <<c>>) /\ Chain(f, c) = <<c>>
<1>1. <<c>> \in Seq(Cluster) /\ Len(<<c>>) = 1 /\ <<c>>[1] = c /\ <<c>> # <<>>
  OBVIOUS
<1>2. IsChain(f, <<c>>)
  BY <1>1 DEF IsChain
<1>3. Chain(f, <<c>>[1]) = <<c>>
  BY <1>2, ChainIs
<1> QED
  BY <1>1, <1>2, <1>3

\* The clusters s of a write: first, and then clusters that were free.
IsTaken(s, f, first, size) ==
  /\ s \in Seq(Cluster)
  /\ Len(s) \in Nat \ {0} /\ Len(s) <= Pieces(size)
  /\ s[1] = first
  /\ \A i, j \in 1 .. Len(s) : s[i] = s[j] => i = j
  /\ \A i \in 1 .. Len(s) : s[i] = first \/ f[s[i]] = Free

\* What fs_write takes when it begins with the chain of one cluster that
\* fs_create_file or fs_write_file_in_dir has made.
LEMMA TakenFacts ==
  ASSUME NEW f, NEW first \in Cluster, f[first] = EOF, NEW size \in Nat, size # 0
  PROVE  IsTaken(Taken(f, first, size), f, first, size)
<1>1. PICK spare : spare = Ascending(FreeClusters(f))
  OBVIOUS
<1>2. PICK chain : chain = <<first>> \o spare
  OBVIOUS
<1>3. PICK n : n = IF Pieces(size) < Len(chain) THEN Pieces(size) ELSE Len(chain)
  OBVIOUS
<1>4. Taken(f, first, size) = SubSeq(chain, 1, n)
  BY <1>1, <1>2, <1>3, OneCluster DEF Taken
<1>5. /\ spare \in Seq(FreeClusters(f)) /\ spare \in Seq(Cluster)
      /\ \A i, j \in 1 .. Len(spare) : spare[i] = spare[j] => i = j
  <2>1. FreeClusters(f) \subseteq Cluster
    BY DEF FreeClusters
  <2> QED
    BY <1>1, <2>1, SpareFacts
<1>6. /\ chain \in Seq(Cluster) /\ Len(chain) = 1 + Len(spare) /\ Len(spare) \in Nat
      /\ chain[1] = first
      /\ \A i \in 2 .. Len(chain) : chain[i] = spare[i - 1]
  <2>1. <<first>> \in Seq(Cluster) /\ Len(<<first>>) = 1 /\ <<first>>[1] = first
    OBVIOUS
  <2>2. Len(spare) \in Nat
    BY <1>5
  <2>3. /\ chain \in Seq(Cluster) /\ Len(chain) = 1 + Len(spare)
        /\ \A i \in 1 .. Len(<<first>>) + Len(spare) :
             chain[i] = IF i <= 1 THEN <<first>>[i] ELSE spare[i - 1]
    BY <1>2, <1>5, <2>1
  <2> QED
    BY <2>1, <2>2, <2>3
<1>7. \A i \in 2 .. Len(chain) : i - 1 \in 1 .. Len(spare) /\ chain[i] \in Cluster
                                 /\ f[chain[i]] = Free /\ chain[i] # first
  <2> SUFFICES ASSUME NEW i \in 2 .. Len(chain)
               PROVE  i - 1 \in 1 .. Len(spare) /\ chain[i] \in Cluster
                      /\ f[chain[i]] = Free /\ chain[i] # first
    OBVIOUS
  <2>1. i - 1 \in 1 .. Len(spare)
    BY <1>6
  <2>2. spare[i - 1] \in FreeClusters(f)
    BY <1>5, <2>1
  <2> QED
    BY <1>6, <2>1, <2>2, FewClusters DEF FreeClusters
<1>8. \A i, j \in 1 .. Len(chain) : chain[i] = chain[j] => i = j
  <2> SUFFICES ASSUME NEW i \in 1 .. Len(chain), NEW j \in 1 .. Len(chain),
                      chain[i] = chain[j], i # j
               PROVE  FALSE
    OBVIOUS
  <2>1. i \in 2 .. Len(chain) /\ j \in 2 .. Len(chain)
    BY <1>6, <1>7
  <2>2. spare[i - 1] = spare[j - 1] /\ i - 1 \in 1 .. Len(spare) /\ j - 1 \in 1 .. Len(spare)
    BY <1>6, <1>7, <2>1
  <2> QED
    BY <1>5, <1>6, <2>1, <2>2
<1>9. n \in 1 .. Len(chain) /\ n <= Pieces(size)
  BY <1>3, <1>6, PiecesFacts
<1>10. PICK s : s = SubSeq(chain, 1, n)
  OBVIOUS
<1>11. s \in Seq(Cluster) /\ Len(s) = n /\ \A i \in 1 .. n : s[i] = chain[i]
  <2>1. 1 \in 1 .. Len(chain) + 1 /\ n \in 0 .. Len(chain) /\ 1 <= n
    BY <1>6, <1>9
  <2> QED
    BY <1>6, <1>9, <1>10, <2>1
<1>12. \A i \in 1 .. n : i \in 1 .. Len(chain) /\ (i = 1 \/ i \in 2 .. Len(chain))
  BY <1>6, <1>9
<1>13. IsTaken(s, f, first, size)
  BY <1>6, <1>7, <1>8, <1>9, <1>11, <1>12 DEF IsTaken
<1> QED
  BY <1>4, <1>10, <1>13

\* What a write does to the FAT and the clusters.
IsWrite(w, s, f, value, size) ==
  /\ w.fat \in [Cluster -> Cluster \cup {Free, EOF}]
  /\ IsChain(w.fat, s)
  /\ \A c \in Cluster : (\A i \in 1 .. Len(s) : s[i] # c)
                          => w.fat[c] = f[c] /\ w.disk[c] = disk[c]
  /\ \A i \in 1 .. Len(s) : w.disk[s[i]] = [value |-> value, piece |-> i]
  /\ w.written \in Nat \ {0} /\ Pieces(w.written) = Len(s)

\* fs_write makes one chain of the clusters it takes, with the bytes in their
\* order, and changes no other cluster.
LEMMA WriteFacts ==
  ASSUME NEW f \in [Cluster -> Cluster \cup {Free, EOF}],
         NEW first \in Cluster, f[first] = EOF, NEW value, NEW size \in Nat, size # 0
  PROVE  \E s : IsTaken(s, f, first, size)
                /\ IsWrite(fs_write(f, first, value, size), s, f, value, size)
<1>1. PICK s : s = Taken(f, first, size)
  OBVIOUS
<1>2. PICK w : w = fs_write(f, first, value, size)
  OBVIOUS
<1>3. IsTaken(s, f, first, size)
  BY <1>1, TakenFacts
<1> DEFINE At(c) == CHOOSE i \in DOMAIN s : s[i] = c
<1>4. /\ w.fat = [c \in Cluster |-> IF c \notin Range(s) THEN f[c]
                                    ELSE IF At(c) = Len(s) THEN EOF ELSE s[At(c) + 1]]
      /\ w.disk = [c \in Cluster |-> IF c \notin Range(s) THEN disk[c]
                                     ELSE [value |-> value, piece |-> At(c)]]
      /\ w.written = IF Len(s) * ClusterSize < size THEN Len(s) * ClusterSize ELSE size
  BY <1>1, <1>2 DEF fs_write
<1>5. /\ Len(s) \in Nat \ {0} /\ DOMAIN s = 1 .. Len(s)
      /\ \A i \in 1 .. Len(s) : s[i] \in Cluster
      /\ \A c : c \in Range(s) <=> \E i \in 1 .. Len(s) : s[i] = c
  BY <1>3 DEF IsTaken, Range
<1>5a. Len(s) \in Nat \ {0}
  BY <1>5
<1>6. ASSUME NEW i \in 1 .. Len(s)
      PROVE  At(s[i]) = i /\ s[i] \in Range(s)
  BY <1>3, <1>5 DEF IsTaken
<1> HIDE DEF At
<1>7. \A i \in 1 .. Len(s) : /\ w.disk[s[i]] = [value |-> value, piece |-> i]
                             /\ w.fat[s[i]] = IF i = Len(s) THEN EOF ELSE s[i + 1]
  BY <1>4, <1>5, <1>6
<1>8. \A c \in Cluster : (\A i \in 1 .. Len(s) : s[i] # c)
                           => w.fat[c] = f[c] /\ w.disk[c] = disk[c]
  BY <1>4, <1>5
<1>9. w.fat \in [Cluster -> Cluster \cup {Free, EOF}]
  <2>1. \A c \in Cluster : w.fat[c] \in Cluster \cup {Free, EOF}
    <3> TAKE c \in Cluster
    <3>1. CASE \E i \in 1 .. Len(s) : s[i] = c
      <4>1. PICK i \in 1 .. Len(s) : s[i] = c
        BY <3>1
      <4>2. i # Len(s) => i + 1 \in 1 .. Len(s)
        BY <1>5a
      <4> QED
        BY <1>5, <1>7, <4>1, <4>2
    <3>2. CASE \A i \in 1 .. Len(s) : s[i] # c
      BY <1>8, <3>2
    <3> QED
      BY <3>1, <3>2
  <2> QED
    BY <1>4, <2>1
<1>10. IsChain(w.fat, s)
  <2>1. s \in Seq(Cluster) /\ s # <<>> /\ \A i, j \in 1 .. Len(s) : s[i] = s[j] => i = j
    BY <1>3, <1>5 DEF IsTaken
  <2>2. Len(s) \in 1 .. Len(s) /\ \A i \in 1 .. Len(s) - 1 : i \in 1 .. Len(s) /\ i # Len(s)
    BY <1>5a
  <2> QED
    BY <1>7, <2>1, <2>2 DEF IsChain
<1>11. w.written \in Nat \ {0} /\ Pieces(w.written) = Len(s)
  <2>1. Len(s) <= Pieces(size)
    BY <1>3 DEF IsTaken
  <2>2. PICK p : p = Pieces(size)
    OBVIOUS
  <2>3. p \in Nat \ {0} /\ (p - 1) * ClusterSize < size /\ size <= p * ClusterSize
    BY <2>2, PiecesFacts
  <2>4. Len(s) * ClusterSize \in Nat \ {0} /\ Pieces(Len(s) * ClusterSize) = Len(s)
    BY <1>5, FullPieces
  <2>5. CASE Len(s) = p
    BY <1>4, <2>2, <2>3, <2>4, <2>5
  <2>6. CASE Len(s) # p
    <3>1. Len(s) <= p - 1 /\ Len(s) * ClusterSize <= (p - 1) * ClusterSize
      BY <1>5, <2>1, <2>2, <2>3, <2>6, Fat16Assumption
    <3>2. Len(s) * ClusterSize < size
      BY <2>3, <2>4, <3>1, Fat16Assumption
    <3> QED
      BY <1>4, <2>4, <3>2
  <2> QED
    BY <2>5, <2>6
<1>12. IsWrite(w, s, f, value, size)
  BY <1>7, <1>8, <1>9, <1>10, <1>11 DEF IsWrite
<1> QED
  BY <1>2, <1>3, <1>12

-----------------------------------------------------------------------------
\* The names and extensions that can be stored.
StoredNames ==
  {Stored(name) : name \in Names \cup {file.name : file \in FileNames}} \cup {"", "/"}

StoredExts == {file.ext : file \in FileNames} \cup {""}

Entry == [used : BOOLEAN, is_dir : BOOLEAN, name : StoredNames, ext : StoredExts,
          parent : Index \cup {-1}, first_cluster : Cluster \cup {0}, size : Nat]

Fats == [Cluster -> Cluster \cup {Free, EOF}]

TypeInv ==
  /\ entries \in [Index -> Entry]
  /\ fat \in Fats
  /\ written \in [Index -> [value : Values \cup {0}, size : Nat]]

\* The table is a tree, and the root is nobody's child.
TreeInv == TreeRooted /\ entries[Root].parent = -1

\* Every entry in use has no clusters or a chain that starts with its first
\* cluster; a file has a chain, and no two entries share a cluster.
ChainsInv ==
  /\ \A i \in Files : entries[i].first_cluster # 0
  /\ \A i \in Owners : entries[i].first_cluster # 0
       => IsChain(fat, ChainOf(i)) /\ ChainOf(i)[1] = entries[i].first_cluster
  /\ \A i, j \in Owners : i # j => Range(ChainOf(i)) \cap Range(ChainOf(j)) = {}

\* The k-th cluster of a file holds the k-th piece of what was written to it.
Contents(i, s) ==
  /\ entries[i].size = written[i].size
  /\ Pieces(entries[i].size) = Len(s)
  /\ entries[i].size # 0
       => \A k \in 1 .. Len(s) : disk[s[k]] = [value |-> written[i].value, piece |-> k]

ContentsInv == \A i \in Files : Contents(i, ChainOf(i))

IInv == TypeInv /\ TreeInv /\ NoDuplicates /\ ChainsInv /\ ContentsInv

-----------------------------------------------------------------------------
\* The root is an index, and no index is -1.
LEMMA IndexFacts ==
  /\ Root \in Index /\ -1 \notin Index /\ Index \subseteq Nat
  /\ 0 \notin Cluster /\ Cluster \subseteq Nat
  BY Fat16Assumption DEF Index, Root, Cluster

\* The fields of an entry.
LEMMA EntryFacts ==
  ASSUME NEW e \in Entry
  PROVE  /\ e.used \in BOOLEAN /\ e.is_dir \in BOOLEAN
         /\ e.name \in StoredNames /\ e.ext \in StoredExts
         /\ e.parent \in Index \cup {-1} /\ e.first_cluster \in Cluster \cup {0}
         /\ e.size \in Nat
  BY DEF Entry

\* alloc_cluster finds a free cluster if there is one.
LEMMA AllocFacts ==
  ASSUME NEW f
  PROVE  /\ alloc_cluster(f) # 0 => alloc_cluster(f) \in Cluster /\ f[alloc_cluster(f)] = Free
         /\ \A c \in Cluster : f[c] = Free => alloc_cluster(f) # 0
<1>1. FreeClusters(f) \subseteq Nat /\ 0 \notin FreeClusters(f)
  BY IndexFacts DEF FreeClusters
<1>2. FreeClusters(f) # {} => Min(FreeClusters(f)) \in FreeClusters(f)
  BY <1>1, MinIsLeast
<1> QED
  BY <1>1, <1>2 DEF alloc_cluster, FreeClusters

\* find_free_entry finds an entry that is not used, and not the root.
LEMMA FreeEntryFacts ==
  find_free_entry # -1
    => find_free_entry \in Index /\ find_free_entry # Root /\ ~ entries[find_free_entry].used
<1> DEFINE S == {i \in Index \ {Root} : ~ entries[i].used}
<1>1. S \subseteq Nat
  BY IndexFacts
<1>2. S # {} => Min(S) \in S
  BY <1>1, MinIsLeast
<1> QED
  BY <1>2 DEF find_free_entry

\* fs_find_in_dir finds an entry that is used.
LEMMA FindFacts ==
  ASSUME NEW name, NEW ext, NEW parent, fs_find_in_dir(name, ext, parent) # -1
  PROVE  LET idx == fs_find_in_dir(name, ext, parent) IN idx \in Index /\ entries[idx].used
<1> DEFINE S == {i \in Index :
                  /\ In(i, parent)
                  /\ nameeq(entries[i].name, name)
                  /\ IF entries[i].is_dir THEN ext = "" ELSE nameeq(entries[i].ext, ext)}
<1>1. S \subseteq Nat
  BY IndexFacts
<1>2. S # {} => Min(S) \in S
  BY <1>1, MinIsLeast
<1>3. \A i \in S : i \in Index /\ entries[i].used
  BY DEF In
<1>4. fs_find_in_dir(name, ext, parent) = IF S = {} THEN -1 ELSE Min(S)
  BY DEF fs_find_in_dir
<1> HIDE DEF S
<1> QED
  BY <1>2, <1>3, <1>4

\* The clusters of a chain are not free.
LEMMA ChainNotFree ==
  ASSUME NEW f, NEW s, IsChain(f, s)
  PROVE  \A c \in Range(s) : c \in Cluster /\ f[c] # Free
<1> SUFFICES ASSUME NEW i \in 1 .. Len(s)
             PROVE  s[i] \in Cluster /\ f[s[i]] # Free
  BY ChainFacts DEF Range
<1>1. s \in [1 .. Len(s) -> Cluster]
  BY ChainFacts
<1>1a. Len(s) \in Nat \ {0}
  BY ChainFacts
<1>2. CASE i = Len(s)
  BY <1>1, <1>1a, <1>2, FewClusters DEF IsChain
<1>3. CASE i # Len(s)
  <2>1. i \in 1 .. Len(s) - 1 /\ i + 1 \in 1 .. Len(s)
    BY <1>1a, <1>3
  <2> QED
    BY <1>1, <2>1, FewClusters DEF IsChain
<1> QED
  BY <1>2, <1>3

\* A chain stays one as long as its own clusters keep their links.
LEMMA ChainKept ==
  ASSUME NEW f, NEW g, NEW s, IsChain(f, s), \A c \in Range(s) : g[c] = f[c]
  PROVE  IsChain(g, s) /\ Chain(g, s[1]) = s
<1>1. \A i \in 1 .. Len(s) : s[i] \in Range(s)
  BY ChainFacts DEF Range
<1>2. Len(s) \in 1 .. Len(s) /\ \A i \in 1 .. Len(s) - 1 : i \in 1 .. Len(s)
  <2>1. Len(s) \in Nat \ {0}
    BY ChainFacts
  <2> QED
    BY <2>1
<1>3. IsChain(g, s)
  BY <1>1, <1>2 DEF IsChain
<1> QED
  BY <1>3, ChainIs

\* 0 is the first cluster of no chain.
LEMMA NoChain ==
  ASSUME NEW f
  PROVE  Chain(f, 0) = <<>>
  BY IndexFacts DEF Chain

-----------------------------------------------------------------------------
\* What every operation of fs.c does: it changes the entry idx and its chain,
\* which becomes s, and leaves the other entries and their clusters alone.  A
\* cluster that is not free afterwards was not free before, unless it is one of
\* s; of the old chain only clusters of s remain, unless a directory was removed.
Update(idx, s) ==
  /\ idx \in Index
  /\ \A i \in Index \ {idx} : entries'[i] = entries[i] /\ written'[i] = written[i]
  /\ \A i \in Owners \ {idx} : \A c \in Range(ChainOf(i)) : fat'[c] = fat[c] /\ disk'[c] = disk[c]
  /\ entries'[idx].used =>
       \/ s = <<>> /\ entries'[idx].is_dir /\ entries'[idx].first_cluster = 0
       \/ /\ IsChain(fat', s) /\ entries'[idx].first_cluster = s[1]
          /\ \A i \in Owners \ {idx} : Range(ChainOf(i)) \cap Range(s) = {}
          /\ ~ entries'[idx].is_dir => Contents(idx, s)'
  /\ \A c \in Cluster : fat'[c] # Free =>
       \/ entries'[idx].used /\ c \in Range(s)
       \/ /\ fat[c] # Free
          /\ idx \in Owners /\ c \in Range(ChainOf(idx))
               => entries[idx].is_dir /\ ~ entries'[idx].used

\* The chain of an entry in use, as ChainsInv has it.
LEMMA OwnerChain ==
  ASSUME ChainsInv, NEW i \in Owners
  PROVE  \/ entries[i].first_cluster = 0 /\ ChainOf(i) = <<>> /\ Range(ChainOf(i)) = {}
            /\ entries[i].is_dir
         \/ entries[i].first_cluster # 0 /\ IsChain(fat, ChainOf(i))
            /\ ChainOf(i)[1] = entries[i].first_cluster
<1>1. CASE entries[i].first_cluster = 0
  <2>1. ChainOf(i) = <<>>
    BY <1>1, NoChain DEF ChainOf
  <2>2. Range(<<>>) = {}
    BY DEF Range
  <2>3. entries[i].is_dir
    BY <1>1 DEF ChainsInv, Files, Owners
  <2> QED
    BY <1>1, <2>1, <2>2, <2>3
<1>2. CASE entries[i].first_cluster # 0
  BY <1>2 DEF ChainsInv
<1> QED
  BY <1>1, <1>2

\* The other entries keep their chains.
LEMMA UpdateOthers ==
  ASSUME ChainsInv, NEW idx, NEW s, Update(idx, s)
  PROVE  \A i \in Index \ {idx} :
           /\ i \in Owners' <=> i \in Owners
           /\ i \in Files' <=> i \in Files
           /\ i \in Owners => ChainOf(i)' = ChainOf(i)
<1> SUFFICES ASSUME NEW i \in Index \ {idx}
             PROVE  /\ i \in Owners' <=> i \in Owners
                    /\ i \in Files' <=> i \in Files
                    /\ i \in Owners => ChainOf(i)' = ChainOf(i)
  OBVIOUS
<1>1. entries'[i] = entries[i]
  BY DEF Update
<1>2. i \in Owners' <=> i \in Owners
  BY <1>1 DEF Owners
<1>3. i \in Files' <=> i \in Files
  BY <1>1 DEF Files
<1>4. ASSUME i \in Owners
      PROVE  ChainOf(i)' = ChainOf(i)
  <2>1. ChainOf(i)' = Chain(fat', entries[i].first_cluster)
    BY <1>1 DEF ChainOf
  <2>2. CASE entries[i].first_cluster = 0
    BY <2>1, <2>2, NoChain DEF ChainOf
  <2>3. CASE entries[i].first_cluster # 0
    <3>1. IsChain(fat, ChainOf(i)) /\ ChainOf(i)[1] = entries[i].first_cluster
      BY <1>4, <2>3 DEF ChainsInv
    <3>2. \A c \in Range(ChainOf(i)) : fat'[c] = fat[c]
      BY <1>4 DEF Update
    <3>3. Chain(fat', ChainOf(i)[1]) = ChainOf(i)
      BY <3>1, <3>2, ChainKept
    <3> QED
      BY <2>1, <3>1, <3>3
  <2> QED
    BY <2>2, <2>3
<1> QED
  BY <1>2, <1>3, <1>4

\* The entry idx gets the chain s.
LEMMA UpdateOwn ==
  ASSUME NEW idx, NEW s, Update(idx, s), idx \in Owners'
  PROVE  /\ ChainOf(idx)' = s
         /\ \/ s = <<>> /\ entries'[idx].is_dir /\ entries'[idx].first_cluster = 0
            \/ /\ IsChain(fat', s) /\ entries'[idx].first_cluster = s[1]
               /\ \A i \in Owners \ {idx} : Range(ChainOf(i)) \cap Range(s) = {}
               /\ ~ entries'[idx].is_dir => Contents(idx, s)'
<1>1. entries'[idx].used
  BY DEF Owners
<1>2. ChainOf(idx)' = Chain(fat', entries'[idx].first_cluster)
  BY DEF ChainOf
<1>3. CASE s = <<>> /\ entries'[idx].is_dir /\ entries'[idx].first_cluster = 0
  BY <1>2, <1>3, NoChain
<1>4. CASE /\ IsChain(fat', s) /\ entries'[idx].first_cluster = s[1]
           /\ \A i \in Owners \ {idx} : Range(ChainOf(i)) \cap Range(s) = {}
           /\ ~ entries'[idx].is_dir => Contents(idx, s)'
  <2>1. Chain(fat', s[1]) = s
    BY <1>4, ChainIs
  <2> QED
    BY <1>2, <1>4, <2>1
<1> QED
  BY <1>1, <1>3, <1>4 DEF Update

\* An update keeps the chains.
LEMMA UpdateChains ==
  ASSUME ChainsInv, NEW idx, NEW s, Update(idx, s), TypeInv'
  PROVE  ChainsInv'
<1>1. Owners' \subseteq Index /\ Files' \subseteq Owners' /\ idx \in Index
  BY DEF Owners, Files, Update
<1>2. \A i \in Index \ {idx} : /\ i \in Owners' <=> i \in Owners
                               /\ i \in Files' <=> i \in Files
                               /\ i \in Owners => ChainOf(i)' = ChainOf(i)
  BY UpdateOthers
<1>3. \A i \in Index \ {idx} : entries'[i] = entries[i]
  BY DEF Update
<1>4. idx \in Owners' =>
        /\ ChainOf(idx)' = s
        /\ \/ s = <<>> /\ entries'[idx].is_dir /\ entries'[idx].first_cluster = 0
           \/ /\ IsChain(fat', s) /\ entries'[idx].first_cluster = s[1]
              /\ \A i \in Owners \ {idx} : Range(ChainOf(i)) \cap Range(s) = {}
  BY UpdateOwn
<1>5. ASSUME NEW i \in Files'
      PROVE  entries'[i].first_cluster # 0
  <2>1. CASE i = idx
    <3>1. IsChain(fat', s) /\ entries'[idx].first_cluster = s[1]
      BY <1>1, <1>4, <1>5, <2>1 DEF Files
    <3>2. s[1] \in Cluster
      BY <3>1, ChainFacts
    <3> QED
      BY <2>1, <3>1, <3>2, IndexFacts
  <2>2. CASE i # idx
    BY <1>1, <1>2, <1>3, <2>2 DEF ChainsInv
  <2> QED
    BY <2>1, <2>2
<1>6. ASSUME NEW i \in Owners', entries'[i].first_cluster # 0
      PROVE  IsChain(fat', ChainOf(i)') /\ ChainOf(i)'[1] = entries'[i].first_cluster
  <2>1. CASE i = idx
    BY <1>4, <1>6, <2>1
  <2>2. CASE i # idx
    <3>1. i \in Owners /\ ChainOf(i)' = ChainOf(i) /\ entries'[i] = entries[i]
      BY <1>1, <1>2, <1>3, <2>2
    <3>2. IsChain(fat, ChainOf(i)) /\ ChainOf(i)[1] = entries[i].first_cluster
      BY <1>6, <3>1 DEF ChainsInv
    <3>3. \A c \in Range(ChainOf(i)) : fat'[c] = fat[c]
      BY <2>2, <3>1 DEF Update
    <3>4. IsChain(fat', ChainOf(i))
      BY <3>2, <3>3, ChainKept
    <3> QED
      BY <3>1, <3>2, <3>4
  <2> QED
    BY <2>1, <2>2
<1>7. ASSUME NEW i \in Owners', NEW j \in Owners', i # j
      PROVE  Range(ChainOf(i)') \cap Range(ChainOf(j)') = {}
  <2>1. Range(<<>>) = {}
    BY DEF Range
  <2>2. ASSUME NEW k \in Owners', k # idx, idx \in Owners'
        PROVE  Range(ChainOf(k)') \cap Range(ChainOf(idx)') = {}
    <3>1. k \in Owners /\ ChainOf(k)' = ChainOf(k)
      BY <1>1, <1>2, <2>2
    <3> QED
      BY <1>4, <2>1, <2>2, <3>1
  <2>3. CASE i = idx
    BY <1>7, <2>2, <2>3
  <2>4. CASE j = idx
    BY <1>7, <2>2, <2>4
  <2>5. CASE i # idx /\ j # idx
    BY <1>1, <1>2, <1>7, <2>5 DEF ChainsInv
  <2> QED
    BY <2>3, <2>4, <2>5
<1> QED
  BY <1>5, <1>6, <1>7 DEF ChainsInv

\* An update keeps the contents of the files.
LEMMA UpdateContents ==
  ASSUME ChainsInv, ContentsInv, NEW idx, NEW s, Update(idx, s)
  PROVE  ContentsInv'
<1>1. Files' \subseteq Index /\ Files \subseteq Owners /\ Files' \subseteq Owners' /\ idx \in Index
  BY DEF Owners, Files, Update
<1> SUFFICES ASSUME NEW i \in Files'
             PROVE  Contents(i, ChainOf(i))'
  BY DEF ContentsInv
<1>2. CASE i = idx
  <2>1. ~ entries'[idx].is_dir /\ idx \in Owners'
    BY <1>1, <1>2 DEF Files
  <2>2. ChainOf(idx)' = s /\ Contents(idx, s)'
    BY <2>1, UpdateOwn
  <2> QED
    BY <1>2, <2>2 DEF Contents
<1>3. CASE i # idx
  <2>1. i \in Files /\ i \in Owners /\ ChainOf(i)' = ChainOf(i)
    BY <1>1, <1>3, UpdateOthers
  <2>2. entries'[i] = entries[i] /\ written'[i] = written[i]
    BY <1>1, <1>3 DEF Update
  <2>3. \A c \in Range(ChainOf(i)) : disk'[c] = disk[c]
    BY <1>3, <2>1 DEF Update
  <2>4. Contents(i, ChainOf(i))
    BY <2>1 DEF ContentsInv
  <2>5. \A k \in 1 .. Len(ChainOf(i)) : ChainOf(i)[k] \in Range(ChainOf(i))
    <3>1. IsChain(fat, ChainOf(i))
      BY <2>1 DEF ChainsInv
    <3> QED
      BY <3>1, ChainFacts DEF Range
  <2> QED
    BY <2>1, <2>2, <2>3, <2>4, <2>5 DEF Contents
<1> QED
  BY <1>2, <1>3

-----------------------------------------------------------------------------
\* How the table of entries changes: a slot that was not used gets an entry, ...
Added(idx, e) ==
  /\ idx \in Index /\ idx # Root /\ ~ entries[idx].used
  /\ entries' = [entries EXCEPT ![idx] = e]
  /\ e.used /\ e.parent \in Index /\ IsDirectory(e.parent)
  /\ \A i \in Index : In(i, e.parent) /\ entries[i].is_dir = e.is_dir
       => e.name = Cut \/ entries[i].name # e.name \/ entries[i].ext # e.ext

\* ... an entry without children is removed, ...
Removed(idx) ==
  /\ idx \in Index /\ idx # Root
  /\ entries' = [entries EXCEPT ![idx] = NoEntry]
  /\ entries[idx].used
  /\ entries[idx].is_dir => ~ has_children(idx)

\* ... or the first cluster and the size of an entry change.
Rewritten(idx, e) ==
  /\ idx \in Index
  /\ entries' = [entries EXCEPT ![idx] = e]
  /\ e.used = entries[idx].used /\ e.is_dir = entries[idx].is_dir
  /\ e.name = entries[idx].name /\ e.ext = entries[idx].ext
  /\ e.parent = entries[idx].parent

TableStep(idx) == Removed(idx) \/ \E e \in Entry : Added(idx, e) \/ Rewritten(idx, e)

\* A step of fs.c, as the proofs need it.
Operation == TypeInv' /\ \E idx, s : Update(idx, s) /\ TableStep(idx)

\* Kept keeps what the clusters of an entry hold.
LEMMA KeptFacts ==
  ASSUME NEW d, NEW f, NEW e, NEW c \in Cluster, NEW i \in Index, e[i].used,
         c \in Range(Chain(f, e[i].first_cluster))
  PROVE  Kept(d, f, e)[c] = d[c]
  BY DEF Kept

\* The clusters of an entry in use are not free.
LEMMA OwnedNotFree ==
  ASSUME ChainsInv, NEW i \in Owners, NEW c \in Range(ChainOf(i))
  PROVE  c \in Cluster /\ fat[c] # Free /\ IsChain(fat, ChainOf(i))
         /\ ChainOf(i)[1] = entries[i].first_cluster
<1>1. IsChain(fat, ChainOf(i)) /\ ChainOf(i)[1] = entries[i].first_cluster
  BY OwnerChain
<1> QED
  BY <1>1, ChainNotFree

\* An entry that is not changed keeps what its clusters hold, if their links
\* are not changed either.
LEMMA KeptForOthers ==
  ASSUME ChainsInv, NEW d, NEW i \in Owners, entries'[i] = entries[i],
         \A c \in Range(ChainOf(i)) : fat'[c] = fat[c]
  PROVE  \A c \in Range(ChainOf(i)) : Kept(d, fat', entries')[c] = d[c]
<1> SUFFICES ASSUME NEW c \in Range(ChainOf(i))
             PROVE  Kept(d, fat', entries')[c] = d[c]
  OBVIOUS
<1>1. c \in Cluster /\ IsChain(fat, ChainOf(i)) /\ ChainOf(i)[1] = entries[i].first_cluster
  BY OwnedNotFree
<1>2. Chain(fat', ChainOf(i)[1]) = ChainOf(i)
  BY <1>1, ChainKept
<1>3. i \in Index /\ entries'[i].used /\ c \in Range(Chain(fat', entries'[i].first_cluster))
  BY <1>1, <1>2 DEF Owners
<1> QED
  BY <1>1, <1>3, KeptFacts

\* Before an entry gets its new clusters its old ones are released: f is the
\* FAT after that.
Released(f, idx) ==
  /\ f \in Fats
  /\ \A i \in Owners \ {idx} : \A c \in Range(ChainOf(i)) : f[c] = fat[c]
  /\ \A c \in Cluster : f[c] # Free => fat[c] # Free
                                       /\ ~ (idx \in Owners /\ c \in Range(ChainOf(idx)))

\* The entry idx has got the chain s of clusters that are free in f, and base
\* is what the clusters hold.
Filled(idx, f, s, base) ==
  /\ IsChain(fat', s)
  /\ \A c \in Range(s) : f[c] = Free
  /\ \A c \in Cluster : c \notin Range(s) => fat'[c] = f[c] /\ base[c] = disk[c]
  /\ \A i \in Index \ {idx} : entries'[i] = entries[i] /\ written'[i] = written[i]
  /\ entries'[idx].used /\ entries'[idx].first_cluster = s[1]
  /\ disk' = Kept(base, fat', entries') \/ disk' = base
  /\ entries'[idx].size = written'[idx].size
  /\ Pieces(entries'[idx].size) = Len(s)
  /\ entries'[idx].size # 0 =>
       \A k \in 1 .. Len(s) : base[s[k]] = [value |-> written'[idx].value, piece |-> k]

\* Such an entry is updated.
LEMMA FilledIsUpdate ==
  ASSUME ChainsInv, NEW idx \in Index, NEW f, Released(f, idx), NEW s, NEW base,
         Filled(idx, f, s, base)
  PROVE  Update(idx, s)
<1> USE DEF Filled
<1>1. ASSUME NEW i \in Owners \ {idx}, NEW c \in Range(ChainOf(i))
      PROVE  c \in Cluster /\ c \notin Range(s) /\ fat'[c] = fat[c] /\ base[c] = disk[c]
  <2>1. c \in Cluster /\ fat[c] # Free
    BY OwnedNotFree
  <2>2. f[c] = fat[c]
    BY DEF Released
  <2> QED
    BY <2>1, <2>2
<1>2. ASSUME NEW i \in Owners \ {idx}, NEW c \in Range(ChainOf(i))
      PROVE  disk'[c] = disk[c]
  <2>1. entries'[i] = entries[i]
    BY DEF Owners
  <2>2. Kept(base, fat', entries')[c] = base[c]
    BY <1>1, <2>1, KeptForOthers
  <2> QED
    BY <1>1, <2>2
<1>3. \A k \in 1 .. Len(s) : s[k] \in Cluster /\ s[k] \in Range(s)
  BY ChainFacts DEF Range
<1>4. \A k \in 1 .. Len(s) : disk'[s[k]] = base[s[k]]
  <2> SUFFICES ASSUME NEW k \in 1 .. Len(s)
               PROVE  disk'[s[k]] = base[s[k]]
    OBVIOUS
  <2>1. Chain(fat', entries'[idx].first_cluster) = s
    BY ChainIs
  <2>2. Kept(base, fat', entries')[s[k]] = base[s[k]]
    BY <1>3, <2>1, KeptFacts
  <2> QED
    BY <2>2
<1>5. Contents(idx, s)'
  BY <1>4 DEF Contents
<1>6. \A i \in Owners \ {idx} : Range(ChainOf(i)) \cap Range(s) = {}
  BY <1>1
<1>7. ASSUME NEW c \in Cluster, fat'[c] # Free, c \notin Range(s)
      PROVE  fat[c] # Free /\ ~ (idx \in Owners /\ c \in Range(ChainOf(idx)))
  BY <1>7 DEF Released
<1> QED
  BY <1>1, <1>2, <1>5, <1>6, <1>7 DEF Update

-----------------------------------------------------------------------------
Written == [value : Values \cup {0}, size : Nat]

\* An entry with another size.
LEMMA Resized ==
  ASSUME NEW e \in Entry, NEW n \in Nat
  PROVE  LET r == [e EXCEPT !.size = n]
         IN  /\ r \in Entry /\ r.size = n
             /\ r.used = e.used /\ r.is_dir = e.is_dir /\ r.name = e.name /\ r.ext = e.ext
             /\ r.parent = e.parent /\ r.first_cluster = e.first_cluster
  BY DEF Entry

\* The table after one entry has changed.
LEMMA TableExcept ==
  ASSUME NEW D, NEW V, NEW tab \in [D -> V], NEW i \in D, NEW e \in V
  PROVE  LET r == [tab EXCEPT ![i] = e]
         IN  r \in [D -> V] /\ r[i] = e /\ \A j \in D \ {i} : r[j] = tab[j]
  OBVIOUS

\* Marking a cluster as the end of a chain.
LEMMA MarkFacts ==
  ASSUME NEW f \in Fats, NEW c \in Cluster
  PROVE  /\ MarkEOF(f, c) \in Fats
         /\ MarkEOF(f, c)[c] = EOF
         /\ \A d \in Cluster : d # c => MarkEOF(f, c)[d] = f[d]
  BY DEF MarkEOF, Fats

\* The last part of fs_write_file_in_dir is an update, for a new file and for
\* an old one: the entry's cluster c was free when its old chain was released.
LEMMA FillStep ==
  ASSUME TypeInv, ChainsInv, NEW idx \in Index, NEW e \in Entry, e.used,
         NEW f, Released(f, idx), NEW c \in Cluster, f[c] = Free, e.first_cluster = c,
         NEW value \in Values, NEW size \in Nat, Fill(idx, e, MarkEOF(f, c), value, size)
  PROVE  /\ \E s : Update(idx, s)
         /\ fat' \in Fats
         /\ written' \in [Index -> Written]
         /\ \E n \in Nat : entries' = [entries EXCEPT ![idx] = [e EXCEPT !.size = n]]
<1>1. PICK g : g = MarkEOF(f, c)
  OBVIOUS
<1>2. f \in Fats /\ g \in Fats /\ g[c] = EOF /\ \A d \in Cluster : d # c => g[d] = f[d]
  BY <1>1, MarkFacts DEF Released
<1>3. entries \in [Index -> Entry] /\ written \in [Index -> Written]
  BY DEF TypeInv, Written
<1>4. EOF # Free
  BY FewClusters
<1>5. CASE size = 0
  <2>1. /\ entries' = [entries EXCEPT ![idx] = [e EXCEPT !.size = 0]]
        /\ fat' = MarkEOF(g, c)
        /\ disk' = Kept(disk, fat', entries')
        /\ written' = [written EXCEPT ![idx] = [value |-> 0, size |-> 0]]
    BY <1>1, <1>5 DEF Fill, Unwritten
  <2>2. fat' \in Fats /\ fat'[c] = EOF /\ \A d \in Cluster : d # c => fat'[d] = f[d]
    BY <1>2, <2>1, MarkFacts
  <2>3. PICK r : r = [e EXCEPT !.size = 0]
    OBVIOUS
  <2>4. r \in Entry /\ r.size = 0 /\ r.used /\ r.first_cluster = c
    BY <2>3, Resized
  <2>5. entries'[idx] = r /\ \A i \in Index \ {idx} : entries'[i] = entries[i]
    BY <1>3, <2>1, <2>3, <2>4, TableExcept
  <2>6. [value |-> 0, size |-> 0] \in Written
    BY DEF Written
  <2>7. /\ written' \in [Index -> Written] /\ written'[idx] = [value |-> 0, size |-> 0]
        /\ \A i \in Index \ {idx} : written'[i] = written[i]
    BY <1>3, <2>1, <2>6, TableExcept
  <2>8. PICK s : s = <<c>>
    OBVIOUS
  <2>9. IsChain(fat', s) /\ s[1] = c /\ Len(s) = 1 /\ Range(s) = {c}
    BY <2>2, <2>8, OneCluster DEF Range
  <2>10. Pieces(0) = 1
    BY DEF Pieces
  <2>11. Filled(idx, f, s, disk)
    <3>1. \A d \in Range(s) : f[d] = Free
      BY <2>9
    <3>2. \A d \in Cluster : d \notin Range(s) => fat'[d] = f[d] /\ disk[d] = disk[d]
      BY <2>2, <2>9
    <3>3. \A i \in Index \ {idx} : entries'[i] = entries[i] /\ written'[i] = written[i]
      BY <2>5, <2>7
    <3>4. entries'[idx].used /\ entries'[idx].first_cluster = s[1]
      BY <2>4, <2>5, <2>9
    <3>5. entries'[idx].size = 0 /\ written'[idx].size = 0
      BY <2>4, <2>5, <2>7
    <3>6. entries'[idx].size = written'[idx].size /\ Pieces(entries'[idx].size) = Len(s)
      BY <2>9, <2>10, <3>5
    <3> QED
      BY <2>1, <2>9, <3>1, <3>2, <3>3, <3>4, <3>5, <3>6, Zenon DEF Filled
  <2>12. PICK base : base = disk
    OBVIOUS
  <2>13. Filled(idx, f, s, base)
    BY <2>11, <2>12
  <2>14. Update(idx, s)
    BY <2>13, FilledIsUpdate, Zenon
  <2> QED
    BY <2>1, <2>2, <2>7, <2>14
<1>6. CASE size # 0
  <2>1. PICK w : w = fs_write(g, c, value, size)
    OBVIOUS
  <2>2. /\ entries' = [entries EXCEPT ![idx] = [e EXCEPT !.size = w.written]]
        /\ fat' = w.fat
        /\ disk' = Kept(w.disk, w.fat, entries')
        /\ written' = [written EXCEPT ![idx] = [value |-> value, size |-> w.written]]
    BY <1>1, <1>6, <2>1 DEF Fill
  <2>3. PICK s : IsTaken(s, g, c, size) /\ IsWrite(w, s, g, value, size)
    BY <1>2, <1>6, <2>1, WriteFacts DEF Fats
  <2>4. fat' \in Fats /\ IsChain(fat', s) /\ w.written \in Nat /\ w.written # 0
        /\ Pieces(w.written) = Len(s)
    BY <2>2, <2>3 DEF IsWrite, Fats
  <2>5. PICK r : r = [e EXCEPT !.size = w.written]
    OBVIOUS
  <2>6. r \in Entry /\ r.size = w.written /\ r.used /\ r.first_cluster = c
    BY <2>4, <2>5, Resized
  <2>7. entries'[idx] = r /\ \A i \in Index \ {idx} : entries'[i] = entries[i]
    BY <1>3, <2>2, <2>5, <2>6, TableExcept
  <2>8. [value |-> value, size |-> w.written] \in Written
    BY <2>4 DEF Written
  <2>9. /\ written' \in [Index -> Written]
        /\ written'[idx] = [value |-> value, size |-> w.written]
        /\ \A i \in Index \ {idx} : written'[i] = written[i]
    BY <1>3, <2>2, <2>8, TableExcept
  <2>10. \A d : d \in Range(s) <=> \E i \in 1 .. Len(s) : s[i] = d
    BY <2>4, ChainFacts DEF Range
  <2>11. ASSUME NEW d \in Range(s)
         PROVE  f[d] = Free
    <3>1. PICK i \in 1 .. Len(s) : s[i] = d
      BY <2>10
    <3>2. d \in Cluster
      BY <2>4, <3>1, ChainFacts
    <3>3. d = c \/ g[d] = Free
      BY <2>3, <3>1 DEF IsTaken
    <3> QED
      BY <1>2, <3>2, <3>3
  <2>12. ASSUME NEW d \in Cluster, d \notin Range(s)
         PROVE  fat'[d] = f[d] /\ w.disk[d] = disk[d]
    <3>1. fat'[d] = g[d] /\ w.disk[d] = disk[d]
      BY <2>2, <2>3, <2>10, <2>12 DEF IsWrite
    <3>2. c \in Range(s)
      <4>1. s[1] = c /\ 1 \in 1 .. Len(s)
        BY <2>3 DEF IsTaken
      <4> QED
        BY <2>10, <4>1
    <3> QED
      BY <1>2, <2>12, <3>1, <3>2
  <2>13. \A k \in 1 .. Len(s) : w.disk[s[k]] = [value |-> value, piece |-> k]
    BY <2>3 DEF IsWrite
  <2>14. s[1] = c
    BY <2>3 DEF IsTaken
  <2>15. PICK base : base = w.disk
    OBVIOUS
  <2>16. /\ disk' = Kept(base, fat', entries')
         /\ \A d \in Cluster : d \notin Range(s) => fat'[d] = f[d] /\ base[d] = disk[d]
         /\ \A k \in 1 .. Len(s) : base[s[k]] = [value |-> written'[idx].value, piece |-> k]
    BY <2>2, <2>9, <2>12, <2>13, <2>15
  <2>17. Filled(idx, f, s, base)
    <3>1. \A i \in Index \ {idx} : entries'[i] = entries[i] /\ written'[i] = written[i]
      BY <2>7, <2>9
    <3>2. entries'[idx].used /\ entries'[idx].first_cluster = s[1]
      BY <2>6, <2>7, <2>14
    <3>3. entries'[idx].size = w.written /\ written'[idx].size = w.written
      BY <2>6, <2>7, <2>9
    <3>4. entries'[idx].size = written'[idx].size /\ Pieces(entries'[idx].size) = Len(s)
      BY <2>4, <3>3
    <3>5. \A d \in Range(s) : f[d] = Free
      BY <2>11
    <3> QED
      BY <2>4, <2>16, <3>1, <3>2, <3>4, <3>5, Zenon DEF Filled
  <2>18. Update(idx, s)
    BY <2>17, FilledIsUpdate, Zenon
  <2> QED
    BY <2>2, <2>4, <2>9, <2>18
<1> QED
  BY <1>5, <1>6

-----------------------------------------------------------------------------
\* The entry of a slot that is not used.
LEMMA NoEntryFacts == NoEntry \in Entry /\ ~ NoEntry.used
<1>1. NoEntry \in Entry
  BY IndexFacts DEF NoEntry, Entry, StoredNames, StoredExts, Root
<1>2. ~ NoEntry.used
  BY DEF NoEntry
<1> QED
  BY <1>1, <1>2

\* The entry that fs_mkdir makes.
LEMMA NewDirectoryFacts ==
  ASSUME NEW name \in Names, NEW parent \in Index, NEW e, e = NewDirectory(name, parent)
  PROVE  /\ e \in Entry /\ e.used /\ e.is_dir /\ e.name = Stored(name) /\ e.ext = ""
         /\ e.parent = parent /\ e.first_cluster = 0 /\ e.size = 0
<1>1. Stored(name) \in StoredNames /\ "" \in StoredExts
  BY DEF StoredNames, StoredExts
<1> QED
  BY <1>1 DEF NewDirectory, NoEntry, Entry

\* The entry that fs_create_file makes.
LEMMA NewFileFacts ==
  ASSUME NEW file \in FileNames, NEW parent \in Index, NEW c \in Cluster, NEW e,
         e = NewFile(file.name, file.ext, parent, c)
  PROVE  /\ e \in Entry /\ e.used /\ ~ e.is_dir /\ e.name = Stored(file.name) /\ e.ext = file.ext
         /\ e.parent = parent /\ e.first_cluster = c /\ e.size = 0
<1>1. Stored(file.name) \in StoredNames /\ file.ext \in StoredExts
  BY DEF StoredNames, StoredExts
<1> QED
  BY <1>1 DEF NewFile, NoEntry, Entry

\* A name that was stored whole is the one that was given; a long one is cut.
LEMMA StoredFacts ==
  ASSUME NEW name
  PROVE  Stored(name) = name \/ Stored(name) = Cut
  BY DEF Stored

\* What was written to an entry is forgotten.
LEMMA UnwrittenFacts ==
  ASSUME TypeInv, NEW i \in Index
  PROVE  /\ Unwritten(i) \in [Index -> Written] /\ Unwritten(i)[i] = [value |-> 0, size |-> 0]
         /\ \A j \in Index \ {i} : Unwritten(i)[j] = written[j]
<1>1. written \in [Index -> Written]
  BY DEF TypeInv, Written
<1>2. [value |-> 0, size |-> 0] \in Written
  BY DEF Written
<1> QED
  BY <1>1, <1>2, TableExcept DEF Unwritten

\* fs_mkdir is an update that adds a directory without clusters.
LEMMA MkdirStep ==
  ASSUME IInv, NEW name \in Names, NEW parent \in Index, fs_mkdir(name, parent)
  PROVE  Operation
<1>1. PICK idx : idx = find_free_entry
  OBVIOUS
<1>2. PICK e : e = NewDirectory(name, parent)
  OBVIOUS
<1>3. /\ IsDirectory(parent)
      /\ ~ \E i \in Index : In(i, parent) /\ entries[i].is_dir /\ nameeq(entries[i].name, name)
      /\ idx # -1
      /\ entries' = [entries EXCEPT ![idx] = e]
      /\ written' = Unwritten(idx)
      /\ fat' = fat /\ disk' = disk
  BY <1>1, <1>2 DEF fs_mkdir
<1>4. idx \in Index /\ idx # Root /\ ~ entries[idx].used
  BY <1>1, <1>3, FreeEntryFacts
<1>5. /\ e \in Entry /\ e.used /\ e.is_dir /\ e.name = Stored(name)
      /\ e.parent = parent /\ e.first_cluster = 0
  BY <1>2, NewDirectoryFacts
<1>6. TypeInv /\ ChainsInv /\ entries \in [Index -> Entry] /\ fat \in Fats
  BY DEF IInv, TypeInv
<1>7. entries' \in [Index -> Entry] /\ entries'[idx] = e
      /\ \A i \in Index \ {idx} : entries'[i] = entries[i]
  BY <1>3, <1>4, <1>5, <1>6, TableExcept
<1>8. written' \in [Index -> Written] /\ \A i \in Index \ {idx} : written'[i] = written[i]
  BY <1>3, <1>4, <1>6, UnwrittenFacts
<1>9. TypeInv'
  BY <1>3, <1>6, <1>7, <1>8 DEF TypeInv, Written
<1>10. idx \notin Owners
  BY <1>4 DEF Owners
<1>11. Update(idx, <<>>)
  BY <1>3, <1>4, <1>5, <1>7, <1>8, <1>10 DEF Update
<1>12. ASSUME NEW i \in Index, In(i, e.parent), entries[i].is_dir = e.is_dir
       PROVE  e.name = Cut \/ entries[i].name # e.name
  BY <1>3, <1>5, <1>12, StoredFacts DEF nameeq
<1>13. Added(idx, e)
  BY <1>3, <1>4, <1>5, <1>12 DEF Added
<1> QED
  BY <1>5, <1>9, <1>11, <1>13 DEF Operation, TableStep

\* What the checks of fs_create_file establish.
LEMMA CreateFacts ==
  ASSUME TypeInv, NEW file \in FileNames, NEW parent \in Index,
         CanCreate(file.name, file.ext, parent)
  PROVE  LET idx == find_free_entry
             c   == alloc_cluster(fat)
             e   == NewFile(file.name, file.ext, parent, c)
         IN  /\ idx \in Index /\ idx # Root /\ ~ entries[idx].used /\ idx \notin Owners
             /\ c \in Cluster /\ fat[c] = Free
             /\ e \in Entry /\ e.used /\ ~ e.is_dir /\ e.parent = parent
             /\ e.first_cluster = c /\ e.size = 0 /\ IsDirectory(parent)
             /\ \A i \in Index : In(i, parent) /\ ~ entries[i].is_dir
                  => e.name = Cut \/ entries[i].name # e.name \/ entries[i].ext # e.ext
<1>1. PICK idx : idx = find_free_entry
  OBVIOUS
<1>2. PICK c : c = alloc_cluster(fat)
  OBVIOUS
<1>3. PICK e : e = NewFile(file.name, file.ext, parent, c)
  OBVIOUS
<1>4. /\ IsDirectory(parent) /\ idx # -1 /\ c # 0
      /\ ~ \E i \in Index : /\ In(i, parent) /\ ~ entries[i].is_dir
                            /\ nameeq(entries[i].name, file.name)
                            /\ nameeq(entries[i].ext, file.ext)
  BY <1>1, <1>2 DEF CanCreate
<1>5. idx \in Index /\ idx # Root /\ ~ entries[idx].used /\ idx \notin Owners
  BY <1>1, <1>4, FreeEntryFacts DEF Owners
<1>6. c \in Cluster /\ fat[c] = Free
  BY <1>2, <1>4, AllocFacts
<1>7. /\ e \in Entry /\ e.used /\ ~ e.is_dir /\ e.parent = parent
      /\ e.first_cluster = c /\ e.size = 0 /\ e.name = Stored(file.name) /\ e.ext = file.ext
  BY <1>3, <1>6, NewFileFacts
<1>8. ASSUME NEW i \in Index, In(i, parent), ~ entries[i].is_dir
      PROVE  e.name = Cut \/ entries[i].name # e.name \/ entries[i].ext # e.ext
  BY <1>4, <1>7, <1>8, StoredFacts DEF nameeq
<1> QED
  BY <1>1, <1>2, <1>3, <1>4, <1>5, <1>6, <1>7, <1>8

\* For a new entry no clusters are released.
LEMMA NothingReleased ==
  ASSUME TypeInv, NEW idx, idx \notin Owners
  PROVE  Released(fat, idx)
  BY DEF Released, TypeInv

\* fs_create_file is an update that adds a file with one cluster.
LEMMA CreateStep ==
  ASSUME IInv, NEW file \in FileNames, NEW parent \in Index,
         fs_create_file(file.name, file.ext, parent)
  PROVE  Operation
<1>1. PICK idx : idx = find_free_entry
  OBVIOUS
<1>2. PICK c : c = alloc_cluster(fat)
  OBVIOUS
<1>3. PICK e : e = NewFile(file.name, file.ext, parent, c)
  OBVIOUS
<1>4. /\ CanCreate(file.name, file.ext, parent)
      /\ entries' = [entries EXCEPT ![idx] = e]
      /\ fat' = MarkEOF(fat, c)
      /\ written' = Unwritten(idx)
      /\ disk' = disk
  BY <1>1, <1>2, <1>3 DEF fs_create_file
<1>5. TypeInv /\ ChainsInv /\ entries \in [Index -> Entry] /\ fat \in Fats
  BY DEF IInv, TypeInv
<1>6. /\ idx \in Index /\ idx # Root /\ ~ entries[idx].used /\ idx \notin Owners
      /\ c \in Cluster /\ fat[c] = Free
      /\ e \in Entry /\ e.used /\ ~ e.is_dir /\ e.parent = parent
      /\ e.first_cluster = c /\ e.size = 0 /\ IsDirectory(parent)
      /\ \A i \in Index : In(i, parent) /\ ~ entries[i].is_dir
           => e.name = Cut \/ entries[i].name # e.name \/ entries[i].ext # e.ext
  BY <1>1, <1>2, <1>3, <1>4, <1>5, CreateFacts
<1>7. entries' \in [Index -> Entry] /\ entries'[idx] = e
      /\ \A i \in Index \ {idx} : entries'[i] = entries[i]
  BY <1>4, <1>5, <1>6, TableExcept
<1>8. /\ written' \in [Index -> Written] /\ written'[idx] = [value |-> 0, size |-> 0]
      /\ \A i \in Index \ {idx} : written'[i] = written[i]
  BY <1>4, <1>5, <1>6, UnwrittenFacts
<1>9. fat' \in Fats /\ fat'[c] = EOF /\ \A d \in Cluster : d # c => fat'[d] = fat[d]
  BY <1>4, <1>5, <1>6, MarkFacts
<1>10. TypeInv'
  BY <1>7, <1>8, <1>9 DEF TypeInv, Written
<1>11. PICK s : s = <<c>>
  OBVIOUS
<1>12. IsChain(fat', s) /\ s[1] = c /\ Len(s) = 1 /\ Range(s) = {c}
  BY <1>6, <1>9, <1>11, OneCluster DEF Range
<1>13. Pieces(0) = 1
  BY DEF Pieces
<1>14. PICK f, base : f = fat /\ base = disk
  OBVIOUS
<1>15. Filled(idx, f, s, base)
  <2>1. \A d \in Range(s) : f[d] = Free
    BY <1>6, <1>12, <1>14
  <2>2. \A d \in Cluster : d \notin Range(s) => fat'[d] = f[d] /\ base[d] = disk[d]
    BY <1>9, <1>12, <1>14
  <2>3. \A i \in Index \ {idx} : entries'[i] = entries[i] /\ written'[i] = written[i]
    BY <1>7, <1>8
  <2>4. entries'[idx].used /\ entries'[idx].first_cluster = s[1]
    BY <1>6, <1>7, <1>12
  <2>5. entries'[idx].size = 0 /\ written'[idx].size = 0 /\ disk' = base
    BY <1>4, <1>6, <1>7, <1>8, <1>14
  <2>6. entries'[idx].size = written'[idx].size /\ Pieces(entries'[idx].size) = Len(s)
    BY <1>12, <1>13, <2>5
  <2> QED
    BY <1>12, <2>1, <2>2, <2>3, <2>4, <2>5, <2>6, Zenon DEF Filled
<1>16. Released(f, idx)
  BY <1>5, <1>6, <1>14, NothingReleased
<1>17. Update(idx, s)
  BY <1>5, <1>6, <1>15, <1>16, FilledIsUpdate, Zenon
<1>18. Added(idx, e)
  BY <1>4, <1>6 DEF Added, In
<1> QED
  BY <1>6, <1>10, <1>17, <1>18 DEF Operation, TableStep

-----------------------------------------------------------------------------
\* free_cluster_chain releases the clusters of an entry and no others.
LEMMA FreeChainFacts ==
  ASSUME TypeInv, ChainsInv, NEW idx \in Owners, NEW f,
         f = free_cluster_chain(fat, entries[idx].first_cluster)
  PROVE  /\ f \in Fats
         /\ \A c \in Cluster : f[c] = IF c \in Range(ChainOf(idx)) THEN Free ELSE fat[c]
         /\ Released(f, idx)
<1>1. f = [c \in Cluster |-> IF c \in Range(ChainOf(idx)) THEN Free ELSE fat[c]]
  BY DEF free_cluster_chain, ChainOf
<1>2. fat \in Fats
  BY DEF TypeInv
<1>3. f \in Fats
  BY <1>1, <1>2 DEF Fats
<1>4. \A c \in Cluster : f[c] = IF c \in Range(ChainOf(idx)) THEN Free ELSE fat[c]
  BY <1>1
<1>5. ASSUME NEW i \in Owners \ {idx}, NEW c \in Range(ChainOf(i))
      PROVE  f[c] = fat[c]
  <2>1. c \in Cluster
    BY OwnedNotFree
  <2>2. Range(ChainOf(i)) \cap Range(ChainOf(idx)) = {}
    BY DEF ChainsInv
  <2> QED
    BY <1>4, <2>1, <2>2
<1> QED
  BY <1>3, <1>4, <1>5 DEF Released

\* The removal of an entry is an update, whether its clusters are released, as
\* those of a file are, or not.
LEMMA RemoveStep ==
  ASSUME IInv, NEW idx \in Index, Removed(idx), fat' \in Fats,
         \/ fat' = fat /\ entries[idx].is_dir
         \/ fat' = free_cluster_chain(fat, entries[idx].first_cluster),
         disk' = Kept(disk, fat', entries'), written' = Unwritten(idx)
  PROVE  Operation
<1>1. TypeInv /\ ChainsInv /\ entries \in [Index -> Entry] /\ fat \in Fats
  BY DEF IInv, TypeInv
<1>2. idx \in Owners /\ entries' = [entries EXCEPT ![idx] = NoEntry]
  BY DEF Removed, Owners
<1>3. entries' \in [Index -> Entry] /\ entries'[idx] = NoEntry
      /\ \A i \in Index \ {idx} : entries'[i] = entries[i]
  BY <1>1, <1>2, NoEntryFacts, TableExcept
<1>4. written' \in [Index -> Written] /\ \A i \in Index \ {idx} : written'[i] = written[i]
  BY <1>1, UnwrittenFacts
<1>5. TypeInv'
  BY <1>3, <1>4 DEF TypeInv, Written
<1>6. ~ entries'[idx].used
  BY <1>3, NoEntryFacts
<1>7. /\ \A i \in Owners \ {idx} : \A c \in Range(ChainOf(i)) : fat'[c] = fat[c]
      /\ \A c \in Cluster : fat'[c] # Free =>
           fat[c] # Free /\ (c \in Range(ChainOf(idx)) => entries[idx].is_dir)
  <2>1. CASE fat' = fat /\ entries[idx].is_dir
    BY <2>1
  <2>2. CASE fat' = free_cluster_chain(fat, entries[idx].first_cluster)
    <3>1. PICK f : f = fat'
      OBVIOUS
    <3>2. /\ \A c \in Cluster : f[c] = IF c \in Range(ChainOf(idx)) THEN Free ELSE fat[c]
          /\ Released(f, idx)
      BY <1>1, <1>2, <2>2, <3>1, FreeChainFacts
    <3> QED
      BY <3>1, <3>2 DEF Released
  <2> QED
    BY <2>1, <2>2
<1>8. ASSUME NEW i \in Owners \ {idx}, NEW c \in Range(ChainOf(i))
      PROVE  disk'[c] = disk[c]
  <2>1. entries'[i] = entries[i] /\ i \in Owners
    BY <1>3 DEF Owners
  <2>2. PICK d : d = disk
    OBVIOUS
  <2>3. \A b \in Range(ChainOf(i)) : fat'[b] = fat[b]
    BY <1>7
  <2>4. Kept(d, fat', entries')[c] = d[c]
    BY <1>1, <2>1, <2>3, KeptForOthers
  <2> QED
    BY <2>2, <2>4
<1>9. Update(idx, <<>>)
  BY <1>3, <1>4, <1>6, <1>7, <1>8 DEF Update
<1> QED
  BY <1>5, <1>9 DEF Operation, TableStep

\* fs_rmdir
LEMMA RmdirStep ==
  ASSUME IInv, NEW idx \in Index, fs_rmdir(idx)
  PROVE  Operation
<1>1. Removed(idx)
  BY DEF fs_rmdir, Removed, IsDirectory
<1>2. fat' = fat /\ entries[idx].is_dir /\ fat' \in Fats
  BY DEF fs_rmdir, IsDirectory, IInv, TypeInv
<1>3. disk' = Kept(disk, fat', entries') /\ written' = Unwritten(idx)
  BY <1>2 DEF fs_rmdir
<1> QED
  BY <1>1, <1>2, <1>3, RemoveStep

\* fs_remove_entry
LEMMA RemoveEntryStep ==
  ASSUME IInv, NEW idx \in Index, fs_remove_entry(idx)
  PROVE  Operation
<1>1. Removed(idx)
  BY DEF fs_remove_entry, Removed
<1>2. disk' = Kept(disk, fat', entries') /\ written' = Unwritten(idx)
  BY DEF fs_remove_entry
<1>3. TypeInv /\ ChainsInv /\ idx \in Owners
  BY <1>1 DEF IInv, Removed, Owners
<1>4. CASE entries[idx].is_dir
  <2>1. fat' = fat /\ fat' \in Fats
    BY <1>3, <1>4 DEF fs_remove_entry, TypeInv
  <2> QED
    BY <1>1, <1>2, <1>4, <2>1, RemoveStep
<1>5. CASE ~ entries[idx].is_dir
  <2>1. fat' = free_cluster_chain(fat, entries[idx].first_cluster)
    BY <1>5 DEF fs_remove_entry
  <2>2. PICK f : f = fat'
    OBVIOUS
  <2>3. f \in Fats
    BY <1>3, <2>1, <2>2, FreeChainFacts
  <2>4. fat' \in Fats
    BY <2>2, <2>3
  <2> QED
    BY <1>1, <1>2, <2>1, <2>4, RemoveStep
<1> QED
  BY <1>4, <1>5

\* fs_write_file_in_dir for a name that it does not find
LEMMA WriteNewStep ==
  ASSUME IInv, NEW file \in FileNames, NEW parent \in Index,
         NEW value \in Values, NEW size \in Sizes,
         WriteNew(file.name, file.ext, parent, value, size)
  PROVE  Operation
<1>1. PICK idx : idx = find_free_entry
  OBVIOUS
<1>2. PICK c : c = alloc_cluster(fat)
  OBVIOUS
<1>3. PICK e : e = NewFile(file.name, file.ext, parent, c)
  OBVIOUS
<1>4. PICK f : f = fat
  OBVIOUS
<1>5. CanCreate(file.name, file.ext, parent) /\ Fill(idx, e, MarkEOF(f, c), value, size)
  BY <1>1, <1>2, <1>3, <1>4 DEF WriteNew
<1>6. TypeInv /\ ChainsInv /\ entries \in [Index -> Entry] /\ size \in Nat
  BY Fat16Assumption DEF IInv, TypeInv
<1>7. /\ idx \in Index /\ idx # Root /\ ~ entries[idx].used /\ idx \notin Owners
      /\ c \in Cluster /\ fat[c] = Free
      /\ e \in Entry /\ e.used /\ ~ e.is_dir /\ e.parent = parent
      /\ e.first_cluster = c /\ e.size = 0 /\ IsDirectory(parent)
      /\ \A i \in Index : In(i, parent) /\ ~ entries[i].is_dir
           => e.name = Cut \/ entries[i].name # e.name \/ entries[i].ext # e.ext
  BY <1>1, <1>2, <1>3, <1>5, <1>6, CreateFacts
<1>8. Released(f, idx) /\ f[c] = Free
  BY <1>4, <1>6, <1>7, NothingReleased
<1>9. /\ \E s : Update(idx, s)
      /\ fat' \in Fats
      /\ written' \in [Index -> Written]
      /\ \E n \in Nat : entries' = [entries EXCEPT ![idx] = [e EXCEPT !.size = n]]
  BY <1>5, <1>6, <1>7, <1>8, FillStep
<1>10. PICK n \in Nat : entries' = [entries EXCEPT ![idx] = [e EXCEPT !.size = n]]
  BY <1>9
<1>11. PICK r : r = [e EXCEPT !.size = n]
  OBVIOUS
<1>12. /\ r \in Entry /\ r.used = e.used /\ r.is_dir = e.is_dir /\ r.name = e.name
       /\ r.ext = e.ext /\ r.parent = e.parent
  BY <1>7, <1>11, Resized
<1>13. entries' = [entries EXCEPT ![idx] = r] /\ entries' \in [Index -> Entry]
  BY <1>6, <1>7, <1>10, <1>11, <1>12, TableExcept
<1>14. TypeInv'
  BY <1>9, <1>13 DEF TypeInv, Written
<1>15. Added(idx, r)
  BY <1>7, <1>12, <1>13 DEF Added, In
<1> QED
  BY <1>9, <1>12, <1>14, <1>15 DEF Operation, TableStep

\* fs_write_file_in_dir for a name that it finds
LEMMA WriteOldStep ==
  ASSUME IInv, NEW idx \in Index, entries[idx].used,
         NEW value \in Values, NEW size \in Sizes, WriteOld(idx, value, size)
  PROVE  Operation
<1>1. PICK f : f = free_cluster_chain(fat, entries[idx].first_cluster)
  OBVIOUS
<1>2. PICK c : c = alloc_cluster(f)
  OBVIOUS
<1>3. TypeInv /\ ChainsInv /\ entries \in [Index -> Entry] /\ fat \in Fats /\ size \in Nat
      /\ idx \in Owners /\ written \in [Index -> Written]
  BY Fat16Assumption DEF IInv, TypeInv, Owners, Written
<1>4. /\ f \in Fats
      /\ \A d \in Cluster : f[d] = IF d \in Range(ChainOf(idx)) THEN Free ELSE fat[d]
      /\ Released(f, idx)
  BY <1>1, <1>3, FreeChainFacts
<1>5. /\ c # 0 => c \in Cluster /\ f[c] = Free
      /\ \A d \in Cluster : f[d] = Free => c # 0
  BY <1>2, AllocFacts
<1>6. CASE c = 0
  <2>1. /\ fat' = f /\ disk' = Kept(disk, f, entries)
        /\ entries' = entries /\ written' = written
    BY <1>1, <1>2, <1>6 DEF WriteOld
  <2>2. Range(ChainOf(idx)) = {} /\ entries[idx].first_cluster = 0 /\ entries[idx].is_dir
    <3> SUFFICES ASSUME IsChain(fat, ChainOf(idx))
                 PROVE  FALSE
      BY <1>3, OwnerChain
    <3>1. ChainOf(idx)[1] \in Cluster /\ ChainOf(idx)[1] \in Range(ChainOf(idx))
      BY ChainFacts DEF Range
    <3> QED
      BY <1>4, <1>5, <1>6, <3>1
  <2>3. \A d \in Cluster : fat'[d] = fat[d]
    BY <1>4, <2>1, <2>2
  <2>4. ASSUME NEW i \in Owners \ {idx}, NEW b \in Range(ChainOf(i))
        PROVE  fat'[b] = fat[b] /\ disk'[b] = disk[b]
    <3>1. PICK d : d = disk
      OBVIOUS
    <3>2. i \in Owners /\ entries'[i] = entries[i]
      BY <2>1
    <3>3. \A a \in Range(ChainOf(i)) : fat'[a] = fat[a]
      BY <1>3, <2>3, OwnedNotFree
    <3>4. Kept(d, fat', entries')[b] = d[b]
      BY <1>3, <3>2, <3>3, KeptForOthers
    <3> QED
      BY <2>1, <3>1, <3>3, <3>4
  <2>5. Update(idx, <<>>)
    BY <2>1, <2>2, <2>3, <2>4 DEF Update
  <2>6. TypeInv'
    BY <1>3, <1>4, <2>1 DEF TypeInv
  <2>7. entries[idx] \in Entry /\ entries' = [entries EXCEPT ![idx] = entries[idx]]
    BY <1>3, <2>1
  <2>8. Rewritten(idx, entries[idx])
    BY <2>7 DEF Rewritten
  <2> QED
    BY <2>5, <2>6, <2>7, <2>8 DEF Operation, TableStep
<1>7. CASE c # 0
  <2>1. PICK old : old = entries[idx]
    OBVIOUS
  <2>2. PICK e : e = [old EXCEPT !.first_cluster = c]
    OBVIOUS
  <2>3. old \in Entry /\ old.used
    BY <1>3, <2>1
  <2>4. /\ e \in Entry /\ e.used /\ e.first_cluster = c /\ e.is_dir = old.is_dir
        /\ e.name = old.name /\ e.ext = old.ext /\ e.parent = old.parent
    BY <1>5, <1>7, <2>2, <2>3 DEF Entry
  <2>5. Fill(idx, e, MarkEOF(f, c), value, size)
    BY <1>1, <1>2, <1>7, <2>1, <2>2 DEF WriteOld
  <2>6. /\ \E s : Update(idx, s)
        /\ fat' \in Fats
        /\ written' \in [Index -> Written]
        /\ \E n \in Nat : entries' = [entries EXCEPT ![idx] = [e EXCEPT !.size = n]]
    BY <1>3, <1>4, <1>5, <1>7, <2>4, <2>5, FillStep
  <2>7. PICK n \in Nat : entries' = [entries EXCEPT ![idx] = [e EXCEPT !.size = n]]
    BY <2>6
  <2>8. PICK r : r = [e EXCEPT !.size = n]
    OBVIOUS
  <2>9. /\ r \in Entry /\ r.used = e.used /\ r.is_dir = e.is_dir /\ r.name = e.name
        /\ r.ext = e.ext /\ r.parent = e.parent
    BY <2>4, <2>8, Resized
  <2>10. entries' = [entries EXCEPT ![idx] = r] /\ entries' \in [Index -> Entry]
    BY <1>3, <2>7, <2>8, <2>9, TableExcept
  <2>11. TypeInv'
    BY <2>6, <2>10 DEF TypeInv, Written
  <2>12. Rewritten(idx, r)
    BY <2>1, <2>3, <2>4, <2>9, <2>10 DEF Rewritten
  <2> QED
    BY <2>6, <2>9, <2>11, <2>12 DEF Operation, TableStep
<1> QED
  BY <1>6, <1>7

\* Every step of the file system is an update of one entry.
LEMMA EveryStep ==
  ASSUME IInv, Next
  PROVE  Operation
<1>1. ASSUME NEW name \in Names, NEW parent \in Index, fs_mkdir(name, parent)
      PROVE  Operation
  BY <1>1, MkdirStep
<1>2. ASSUME NEW idx \in Index, fs_rmdir(idx)
      PROVE  Operation
  BY <1>2, RmdirStep
<1>3. ASSUME NEW idx \in Index, fs_remove_entry(idx)
      PROVE  Operation
  BY <1>3, RemoveEntryStep
<1>4. ASSUME NEW file \in FileNames, NEW parent \in Index,
             fs_create_file(file.name, file.ext, parent)
      PROVE  Operation
  BY <1>4, CreateStep
<1>5. ASSUME NEW file \in FileNames, NEW parent \in Index, NEW value \in Values,
             NEW size \in Sizes,
             fs_write_file_in_dir(file.name, file.ext, parent, value, size)
      PROVE  Operation
  <2>1. PICK idx : /\ idx = fs_find_in_dir(file.name, file.ext, parent)
                   /\ \/ idx = -1 /\ WriteNew(file.name, file.ext, parent, value, size)
                      \/ idx # -1 /\ WriteOld(idx, value, size)
    BY <1>5 DEF fs_write_file_in_dir
  <2>2. CASE WriteNew(file.name, file.ext, parent, value, size)
    BY <2>2, WriteNewStep
  <2>3. CASE idx # -1 /\ WriteOld(idx, value, size)
    <3>1. idx \in Index /\ entries[idx].used
      BY <2>1, <2>3, FindFacts
    <3> QED
      BY <2>3, <3>1, WriteOldStep
  <2> QED
    BY <2>1, <2>2, <2>3
<1> QED
  BY <1>1, <1>2, <1>3, <1>4, <1>5 DEF Next

-----------------------------------------------------------------------------
\* A step keeps the table a tree: a new entry has no children, and an entry that
\* is removed has none.
LEMMA TreeStep ==
  ASSUME TypeInv, TreeInv, NEW idx, TableStep(idx)
  PROVE  TreeInv'
<1> USE IndexFacts DEF Root
<1>1. /\ entries \in [Index -> Entry] /\ Root \in Index /\ entries[Root].parent = -1
      /\ entries[Root].used /\ entries[Root].is_dir
  BY DEF TypeInv, TreeInv, TreeRooted, IsDirectory
<1>2. \A i \in Index : entries[i].used /\ i # Root =>
        /\ entries[i].parent \in Index
        /\ entries[entries[i].parent].used /\ entries[entries[i].parent].is_dir
  BY DEF TreeInv, TreeRooted, IsDirectory, Owners
<1>3. \A S \in SUBSET (Owners \ {Root}) : S # {} => \E i \in S : entries[i].parent \notin S
  BY DEF TreeInv, TreeRooted
<1>4. ASSUME NEW e \in Entry, Added(idx, e)
      PROVE  TreeInv'
  <2>1. /\ idx \in Index /\ idx # Root /\ ~ entries[idx].used
        /\ e.used /\ e.parent \in Index /\ entries[e.parent].used /\ entries[e.parent].is_dir
    BY <1>4 DEF Added, IsDirectory
  <2>2. entries'[idx] = e /\ \A i \in Index \ {idx} : entries'[i] = entries[i]
    BY <1>1, <1>4, <2>1, TableExcept DEF Added
  <2>3. Owners' = Owners \cup {idx} /\ idx \notin Owners /\ Owners \subseteq Index
    BY <2>1, <2>2 DEF Owners
  <2>4. IsDirectory(Root)' /\ entries'[Root].parent = -1
    BY <1>1, <2>1, <2>2 DEF IsDirectory
  <2>5. ASSUME NEW i \in Owners' \ {Root}
        PROVE  entries'[i].parent \in Index /\ IsDirectory(entries[i].parent)'
    <3>1. CASE i = idx
      <4>1. e.parent # idx
        BY <2>1
      <4> QED
        BY <2>1, <2>2, <3>1, <4>1 DEF IsDirectory
    <3>2. CASE i # idx
      <4>1. i \in Index /\ entries[i].used /\ i # Root /\ entries'[i] = entries[i]
        BY <2>2, <2>3, <3>2 DEF Owners
      <4>2. entries[i].parent \in Index /\ entries[i].parent # idx
            /\ entries[entries[i].parent].used /\ entries[entries[i].parent].is_dir
        BY <1>2, <2>1, <4>1
      <4> QED
        BY <2>2, <4>1, <4>2 DEF IsDirectory
    <3> QED
      BY <3>1, <3>2
  <2>6. ASSUME NEW S \in SUBSET (Owners' \ {Root}), S # {}
        PROVE  \E i \in S : entries'[i].parent \notin S
    <3>1. CASE S \ {idx} = {}
      <4>1. S = {idx}
        BY <2>6, <3>1
      <4>2. e.parent # idx
        BY <2>1
      <4> QED
        BY <2>2, <4>1, <4>2
    <3>2. CASE S \ {idx} # {}
      <4>1. S \ {idx} \in SUBSET (Owners \ {Root})
        BY <2>3
      <4>2. PICK i \in S \ {idx} : entries[i].parent \notin S \ {idx}
        BY <1>3, <3>2, <4>1
      <4>3. i \in Index /\ entries[i].used /\ i # Root /\ entries'[i] = entries[i]
        BY <2>2, <4>1, <4>2 DEF Owners
      <4>4. entries[i].parent # idx
        BY <1>2, <2>1, <4>3
      <4> QED
        BY <4>2, <4>3, <4>4
    <3> QED
      BY <3>1, <3>2
  <2> QED
    BY <2>4, <2>5, <2>6 DEF TreeInv, TreeRooted
<1>5. ASSUME Removed(idx)
      PROVE  TreeInv'
  <2>1. /\ idx \in Index /\ idx # Root /\ entries[idx].used
        /\ entries[idx].is_dir => ~ \E i \in Index : entries[i].used /\ entries[i].parent = idx
    BY <1>5 DEF Removed, has_children
  <2>2. entries'[idx] = NoEntry /\ \A i \in Index \ {idx} : entries'[i] = entries[i]
    BY <1>1, <1>5, <2>1, NoEntryFacts, TableExcept DEF Removed
  <2>3. Owners' = Owners \ {idx} /\ Owners \subseteq Index
    <3>1. ~ entries'[idx].used
      BY <2>2, NoEntryFacts
    <3>2. \A i \in Index : entries'[i].used <=> entries[i].used /\ i # idx
      BY <2>1, <2>2, <3>1
    <3> QED
      BY <3>2, Zenon DEF Owners
  <2>4. IsDirectory(Root)' /\ entries'[Root].parent = -1
    BY <1>1, <2>1, <2>2 DEF IsDirectory
  <2>5. ASSUME NEW i \in Owners' \ {Root}
        PROVE  /\ i \in Index /\ entries'[i] = entries[i] /\ i \in Owners \ {Root}
               /\ entries'[i].parent \in Index /\ IsDirectory(entries[i].parent)'
    <3>1. i \in Index /\ entries[i].used /\ i # Root /\ entries'[i] = entries[i]
          /\ i \in Owners
      BY <2>2, <2>3 DEF Owners
    <3>2. entries[i].parent \in Index /\ entries[i].parent # idx
          /\ entries[entries[i].parent].used /\ entries[entries[i].parent].is_dir
      BY <1>2, <2>1, <3>1
    <3> QED
      BY <2>2, <3>1, <3>2 DEF IsDirectory
  <2>6. ASSUME NEW S \in SUBSET (Owners' \ {Root}), S # {}
        PROVE  \E i \in S : entries'[i].parent \notin S
    <3>1. S \in SUBSET (Owners \ {Root}) /\ \A i \in S : entries'[i] = entries[i]
      BY <2>5
    <3>2. PICK i \in S : entries[i].parent \notin S
      BY <1>3, <2>6, <3>1
    <3> QED
      BY <3>1, <3>2
  <2> QED
    BY <2>4, <2>5, <2>6 DEF TreeInv, TreeRooted
<1>6. ASSUME NEW e \in Entry, Rewritten(idx, e)
      PROVE  TreeInv'
  <2>1. entries'[idx] = e /\ \A i \in Index \ {idx} : entries'[i] = entries[i]
    BY <1>1, <1>6, TableExcept DEF Rewritten
  <2>2. \A i \in Index : /\ entries'[i].used = entries[i].used
                         /\ entries'[i].is_dir = entries[i].is_dir
                         /\ entries'[i].parent = entries[i].parent
    BY <1>6, <2>1 DEF Rewritten
  <2>3. Owners' = Owners /\ Owners \subseteq Index
    BY <2>2 DEF Owners
  <2>4. IsDirectory(Root)' /\ entries'[Root].parent = -1
    BY <1>1, <2>2 DEF IsDirectory
  <2>5. ASSUME NEW i \in Owners' \ {Root}
        PROVE  entries'[i].parent \in Index /\ IsDirectory(entries[i].parent)'
    <3>1. i \in Index /\ entries[i].used /\ i # Root /\ entries'[i].parent = entries[i].parent
      BY <2>2, <2>3 DEF Owners
    <3>2. entries[i].parent \in Index
          /\ entries[entries[i].parent].used /\ entries[entries[i].parent].is_dir
      BY <1>2, <3>1
    <3> QED
      BY <2>2, <3>1, <3>2 DEF IsDirectory
  <2>6. ASSUME NEW S \in SUBSET (Owners' \ {Root}), S # {}
        PROVE  \E i \in S : entries'[i].parent \notin S
    <3>1. S \in SUBSET (Owners \ {Root}) /\ \A i \in S : i \in Index
      BY <2>3
    <3>2. PICK i \in S : entries[i].parent \notin S
      BY <1>3, <2>6, <3>1
    <3> QED
      BY <2>2, <3>1, <3>2
  <2> QED
    BY <2>4, <2>5, <2>6 DEF TreeInv, TreeRooted
<1> QED
  BY <1>4, <1>5, <1>6 DEF TableStep

\* A step keeps the names of a directory apart: an entry is added only if there
\* is none of its kind and name, and no entry changes its name.
LEMMA DuplicatesStep ==
  ASSUME TypeInv, NoDuplicates, NEW idx, TableStep(idx)
  PROVE  NoDuplicates'
<1>1. entries \in [Index -> Entry]
  BY DEF TypeInv
<1>2. ASSUME NEW i \in Index, NEW j \in Index, i # j, entries'[i].used, entries'[j].used,
             entries'[i].name # Cut, entries'[i].parent = entries'[j].parent,
             entries'[i].is_dir = entries'[j].is_dir
      PROVE  entries'[i].name # entries'[j].name \/ entries'[i].ext # entries'[j].ext
  <2>1. ASSUME NEW e \in Entry, Added(idx, e)
        PROVE  entries'[i].name # entries'[j].name \/ entries'[i].ext # entries'[j].ext
    <3>1. idx \in Index /\ entries'[idx] = e /\ \A k \in Index \ {idx} : entries'[k] = entries[k]
      BY <1>1, <2>1, TableExcept DEF Added
    <3>2. \A k \in Index : entries[k].used /\ entries[k].parent = e.parent
                           /\ entries[k].is_dir = e.is_dir
            => e.name = Cut \/ entries[k].name # e.name \/ entries[k].ext # e.ext
      BY <2>1 DEF Added, In
    <3> QED
      BY <1>2, <3>1, <3>2 DEF NoDuplicates
  <2>2. ASSUME Removed(idx)
        PROVE  entries'[i].name # entries'[j].name \/ entries'[i].ext # entries'[j].ext
    <3>1. /\ idx \in Index /\ entries'[idx] = NoEntry
          /\ \A k \in Index \ {idx} : entries'[k] = entries[k]
      BY <1>1, <2>2, NoEntryFacts, TableExcept DEF Removed
    <3>2. i # idx /\ j # idx
      BY <1>2, <3>1, NoEntryFacts
    <3> QED
      BY <1>2, <3>1, <3>2 DEF NoDuplicates
  <2>3. ASSUME NEW e \in Entry, Rewritten(idx, e)
        PROVE  entries'[i].name # entries'[j].name \/ entries'[i].ext # entries'[j].ext
    <3>1. idx \in Index /\ entries'[idx] = e /\ \A k \in Index \ {idx} : entries'[k] = entries[k]
      BY <1>1, <2>3, TableExcept DEF Rewritten
    <3>2. \A k \in Index : /\ entries'[k].used = entries[k].used
                           /\ entries'[k].is_dir = entries[k].is_dir
                           /\ entries'[k].parent = entries[k].parent
                           /\ entries'[k].name = entries[k].name
                           /\ entries'[k].ext = entries[k].ext
      BY <2>3, <3>1 DEF Rewritten
    <3> QED
      BY <1>2, <3>2 DEF NoDuplicates
  <2> QED
    BY <2>1, <2>2, <2>3 DEF TableStep
<1> QED
  BY <1>2 DEF NoDuplicates

\* The invariant holds after fs_init, ...
LEMMA InitInv ==
  ASSUME Init
  PROVE  IInv
<1> DEFINE root == [NoEntry EXCEPT !.used = TRUE, !.is_dir = TRUE, !.name = "/", !.parent = -1]
<1>1. /\ root \in Entry /\ root.used /\ root.is_dir /\ root.parent = -1
      /\ root.first_cluster = 0
  BY IndexFacts DEF NoEntry, Entry, StoredNames, StoredExts, Root
<1>2. entries = [i \in Index |-> IF i = Root THEN root ELSE NoEntry]
  BY DEF Init, fs_init
<1> HIDE DEF root
<1>3. /\ entries \in [Index -> Entry] /\ entries[Root] = root
      /\ \A i \in Index : i # Root => ~ entries[i].used
  BY <1>1, <1>2, IndexFacts, NoEntryFacts
<1>4. Owners = {Root} /\ Files = {}
  BY <1>1, <1>3, IndexFacts DEF Owners, Files
<1>5. TypeInv
  <2>1. fat \in Fats
    BY DEF Init, fs_init, Fats
  <2>2. written \in [Index -> [value : Values \cup {0}, size : Nat]]
    BY DEF Init
  <2> QED
    BY <1>3, <2>1, <2>2 DEF TypeInv
<1>6. TreeInv
  BY <1>1, <1>3, <1>4 DEF TreeInv, TreeRooted, IsDirectory
<1>7. NoDuplicates
  BY <1>3 DEF NoDuplicates
<1>8. ChainsInv
  BY <1>1, <1>3, <1>4 DEF ChainsInv
<1>9. ContentsInv
  BY <1>4 DEF ContentsInv
<1> QED
  BY <1>5, <1>6, <1>7, <1>8, <1>9 DEF IInv

\* ... and every operation keeps it.
LEMMA NextInv ==
  ASSUME IInv, Next
  PROVE  IInv'
<1>1. Operation
  BY EveryStep
<1>2. PICK idx, s : Update(idx, s) /\ TableStep(idx)
  BY <1>1 DEF Operation
<1>3. TypeInv'
  BY <1>1 DEF Operation
<1>4. TreeInv' /\ NoDuplicates'
  BY <1>2, TreeStep, DuplicatesStep DEF IInv
<1>5. ChainsInv' /\ ContentsInv'
  BY <1>2, <1>3, UpdateChains, UpdateContents DEF IInv
<1> QED
  BY <1>3, <1>4, <1>5 DEF IInv

\* A step that changes nothing keeps it as well.
LEMMA StutterInv ==
  ASSUME IInv, UNCHANGED vars
  PROVE  IInv'
<1> USE DEF vars, Owners, Files
<1>1. TypeInv'
  BY DEF IInv, TypeInv
<1>2. TreeInv' /\ NoDuplicates'
  BY DEF IInv, TreeInv, TreeRooted, IsDirectory, NoDuplicates
<1>3. \A i : ChainOf(i)' = ChainOf(i)
  BY DEF ChainOf
<1>4. ChainsInv'
  BY <1>3 DEF IInv, ChainsInv
<1>5. ContentsInv'
  BY <1>3 DEF IInv, ContentsInv, Contents
<1> QED
  BY <1>1, <1>2, <1>4, <1>5 DEF IInv

-----------------------------------------------------------------------------
\* The invariant: the table of entries is a tree without duplicates, the chains
\* in the FAT are those of the entries and share no cluster, and the clusters
\* of a file hold what was written to it.
THEOREM Invariance == Spec => []IInv
<1>1. Init => IInv
  BY InitInv
<1>2. IInv /\ [Next]_vars => IInv'
  BY NextInv, StutterInv
<1> QED
  BY <1>1, <1>2, PTL DEF Spec

\* From every entry in use the parents lead to the root, for any table of
\* entries and any sequence of fs_mkdir, fs_rmdir, fs_create_file,
\* fs_write_file_in_dir and fs_remove_entry calls.
THEOREM TableIsRooted == Spec => []TreeRooted
<1>1. IInv => TreeRooted
  BY DEF IInv, TreeInv
<1> QED
  BY <1>1, Invariance, PTL

\* The duplicate checks of fs_mkdir, fs_create_file and fs_write_file_in_dir
\* are enough: no directory gets two files or two directories of one name.
THEOREM NamesAreUnique == Spec => []NoDuplicates
<1>1. IInv => NoDuplicates
  BY DEF IInv
<1> QED
  BY <1>1, Invariance, PTL

\* alloc_cluster, fs_write and free_cluster_chain never give a cluster to two
\* entries, and every file's chain ends with EOF, on a disk of any size.
THEOREM NoClusterIsShared == Spec => []ClustersOwnedOnce
<1>1. ASSUME IInv
      PROVE  ClustersOwnedOnce
  <2>1. TypeOK
    <3>1. entries \in [Index -> Entry] /\ fat \in Fats
      BY <1>1 DEF IInv, TypeInv
    <3>2. \A i \in Index : entries[i] \in Entry
      BY <3>1
    <3> QED
      BY <3>1, <3>2, EntryFacts DEF TypeOK, Fats
  <2>2. ASSUME NEW i \in Owners
        PROVE  /\ i \in Files => ChainOf(i) # <<>>
               /\ ChainOf(i) # <<>> => fat[ChainOf(i)[Len(ChainOf(i))]] = EOF
    <3>1. i \in Files => entries[i].first_cluster # 0
      BY <1>1 DEF IInv, ChainsInv
    <3>2. ChainOf(i) = <<>> \/ IsChain(fat, ChainOf(i))
      BY <1>1, OwnerChain DEF IInv
    <3>3. i \in Files => IsChain(fat, ChainOf(i))
      BY <1>1, <3>1, OwnerChain DEF IInv
    <3> QED
      BY <3>2, <3>3 DEF IsChain
  <2>3. ASSUME NEW i \in Owners, NEW j \in Owners, i < j
        PROVE  Range(ChainOf(i)) \cap Range(ChainOf(j)) = {}
    <3>1. i # j
      BY <2>3, IndexFacts DEF Owners
    <3> QED
      BY <1>1, <3>1 DEF IInv, ChainsInv
  <2>4. Files \subseteq Owners
    BY DEF Files, Owners
  <2>5. PICK chain : chain = [i \in Owners |-> ChainOf(i)]
    OBVIOUS
  <2>6. \A i \in Owners : chain[i] = ChainOf(i)
    BY <2>5
  <2>7. /\ \A i \in Files : chain[i] # <<>>
        /\ \A i \in Owners : chain[i] # <<>> => fat[chain[i][Len(chain[i])]] = EOF
    BY <2>2, <2>4, <2>6
  <2>8. \A i, j \in Owners : i < j => Range(chain[i]) \cap Range(chain[j]) = {}
    BY <2>3, <2>6
  <2> QED
    BY <2>1, <2>5, <2>7, <2>8, Zenon DEF ClustersOwnedOnce
<1> QED
  BY <1>1, Invariance, PTL

\* fs_read of a file returns exactly what fs_write_file_in_dir stored last, for
\* any cluster size, any sizes of files, and also if the disk was full.
THEOREM FilesReadBack == Spec => []ReadsBack
<1>1. ASSUME IInv
      PROVE  ReadsBack
  <2> SUFFICES ASSUME NEW i \in Files
               PROVE  /\ entries[i].size = written[i].size
                      /\ fs_read(entries[i].first_cluster, entries[i].size) =
                           [k \in 1 .. (IF written[i].size = 0 THEN 0
                                        ELSE Pieces(written[i].size)) |->
                              [value |-> written[i].value, piece |-> k]]
    BY DEF ReadsBack
  <2>1. Contents(i, ChainOf(i))
    BY <1>1 DEF IInv, ContentsInv
  <2>2. PICK s : s = ChainOf(i)
    OBVIOUS
  <2>3. PICK n : n = entries[i].size
    OBVIOUS
  <2>4. PICK v : v = written[i].value
    OBVIOUS
  <2>5. /\ written[i].size = n /\ Pieces(n) = Len(s)
        /\ n # 0 => \A k \in 1 .. Len(s) : disk[s[k]] = [value |-> v, piece |-> k]
    BY <2>1, <2>2, <2>3, <2>4 DEF Contents
  <2>6. Len(s) \in Nat
    <3>1. entries[i].first_cluster # 0 /\ i \in Owners
      BY <1>1 DEF IInv, ChainsInv, Files, Owners
    <3>2. IsChain(fat, s)
      BY <1>1, <2>2, <3>1, OwnerChain DEF IInv
    <3> QED
      BY <3>2, ChainFacts
  <2>7. fs_read(entries[i].first_cluster, n)
          = IF n = 0 THEN <<>> ELSE [k \in 1 .. Len(s) |-> disk[s[k]]]
    <3>1. ~ Pieces(n) < Len(s)
      BY <2>5, <2>6
    <3> QED
      BY <2>2, <3>1 DEF fs_read, ChainOf
  <2>8. CASE n = 0
    <3>1. 1 .. 0 = {}
      OBVIOUS
    <3>2. [k \in 1 .. 0 |-> [value |-> v, piece |-> k]] = <<>>
      BY <3>1
    <3> QED
      BY <2>3, <2>4, <2>5, <2>7, <2>8, <3>2
  <2>9. CASE n # 0
    <3>1. [k \in 1 .. Len(s) |-> disk[s[k]]]
            = [k \in 1 .. Len(s) |-> [value |-> v, piece |-> k]]
      BY <2>5, <2>9
    <3> QED
      BY <2>3, <2>4, <2>5, <2>7, <2>9, <3>1
  <2> QED
    BY <2>8, <2>9
<1> QED
  BY <1>1, Invariance, PTL

\* Only a directory that is removed can leave clusters without an owner.
LEMMA LostStep ==
  ASSUME IInv, Next, NEW c \in Lost' \ Lost
  PROVE  \E i \in Owners : IsDirectory(i) /\ ~ IsDirectory(i)' /\ c \in Range(ChainOf(i))
<1>1. PICK idx, s : Update(idx, s)
  BY EveryStep DEF Operation
<1>2. /\ c \in Cluster /\ fat'[c] # Free
      /\ \A i \in Owners' : c \notin Range(ChainOf(i)')
  BY DEF Lost
<1>3. ~ (entries'[idx].used /\ c \in Range(s))
  <2> SUFFICES ASSUME entries'[idx].used, c \in Range(s)
               PROVE  FALSE
    OBVIOUS
  <2>1. idx \in Owners'
    BY <1>1 DEF Owners, Update
  <2>2. ChainOf(idx)' = s
    BY <1>1, <2>1, UpdateOwn
  <2> QED
    BY <1>2, <2>1, <2>2
<1>4. /\ fat[c] # Free
      /\ idx \in Owners /\ c \in Range(ChainOf(idx))
           => entries[idx].is_dir /\ ~ entries'[idx].used
  BY <1>1, <1>2, <1>3 DEF Update
<1>5. PICK i \in Owners : c \in Range(ChainOf(i))
  BY <1>2, <1>4 DEF Lost
<1>6. i = idx
  <2> SUFFICES ASSUME i # idx
               PROVE  FALSE
    OBVIOUS
  <2>1. i \in Index \ {idx}
    BY DEF Owners
  <2>2. i \in Owners' /\ ChainOf(i)' = ChainOf(i)
    BY <1>1, <2>1, UpdateOthers DEF IInv
  <2> QED
    BY <1>2, <1>5, <2>2
<1>7. IsDirectory(i) /\ ~ IsDirectory(i)'
  BY <1>4, <1>5, <1>6 DEF IsDirectory, Owners
<1> QED
  BY <1>5, <1>7

\* The write, the removal and the creation of files lose no cluster: the free
\* clusters and those of the entries are all there are, except that the
\* removal of a directory keeps the clusters which a write gave to it.
THEOREM OnlyDirectoriesLoseClusters == Spec => NoClusterLost
<1>1. ASSUME IInv, [Next]_vars
      PROVE  [\A c \in Lost' \ Lost :
                \E i \in Owners : IsDirectory(i) /\ ~ IsDirectory(i)' /\ c \in Range(ChainOf(i))]_vars
  BY <1>1, LostStep
<1> QED
  BY <1>1, Invariance, PTL DEF Spec, NoClusterLost

\* A file other than the one that is updated keeps its bytes.
LEMMA ReadSame ==
  ASSUME ChainsInv, NEW idx, NEW s, Update(idx, s), NEW i \in Files, i # idx, NEW n \in Nat
  PROVE  i \in Files'
         /\ fs_read(entries[i].first_cluster, n)' = fs_read(entries[i].first_cluster, n)
<1>1. i \in Index \ {idx} /\ i \in Owners
  BY DEF Files, Owners
<1>2. i \in Files' /\ ChainOf(i)' = ChainOf(i)
  BY <1>1, UpdateOthers
<1>3. PICK t : t = ChainOf(i)
  OBVIOUS
<1>4. IsChain(fat, t)
  BY <1>1, <1>3, OwnerChain DEF Files
<1>5. \A k \in 1 .. Len(t) : disk'[t[k]] = disk[t[k]]
  <2>1. \A k \in 1 .. Len(t) : t[k] \in Range(t)
    BY <1>4, ChainFacts DEF Range
  <2> QED
    BY <1>1, <1>3, <2>1 DEF Update
<1>6. PICK m : m = IF Pieces(n) < Len(t) THEN Pieces(n) ELSE Len(t)
  OBVIOUS
<1>7. n # 0 => \A k \in 1 .. m : k \in 1 .. Len(t)
  <2>1. Len(t) \in Nat
    BY <1>4, ChainFacts
  <2>2. n # 0 => Pieces(n) \in Nat
    BY PiecesFacts
  <2> QED
    BY <1>6, <2>1, <2>2
<1>8. n # 0 => [k \in 1 .. m |-> disk'[t[k]]] = [k \in 1 .. m |-> disk[t[k]]]
  BY <1>5, <1>7
<1>9. fs_read(entries[i].first_cluster, n) = IF n = 0 THEN <<>> ELSE [k \in 1 .. m |-> disk[t[k]]]
  BY <1>3, <1>6 DEF fs_read, ChainOf
<1>10. fs_read(entries[i].first_cluster, n)'
         = IF n = 0 THEN <<>> ELSE [k \in 1 .. m |-> disk'[t[k]]]
  <2>1. Chain(fat', entries'[i].first_cluster) = t
    BY <1>2, <1>3 DEF ChainOf
  <2> QED
    BY <1>6, <2>1 DEF fs_read
<1>11. CASE n = 0
  BY <1>2, <1>9, <1>10, <1>11, Zenon
<1>12. CASE n # 0
  BY <1>2, <1>8, <1>9, <1>10, <1>12, Zenon
<1> QED
  BY <1>11, <1>12

\* Every operation changes the contents of one file at most, the one that it
\* is called for, also when the disk becomes full.
THEOREM OnlyOneFileChanges == Spec => OtherFilesKept
<1> DEFINE changed == {i \in Files :
                        \/ i \notin Files'
                        \/ \E n \in {entries[i].size} :
                             fs_read(entries[i].first_cluster, n)' #
                             fs_read(entries[i].first_cluster, n)}
<1>1. ASSUME IInv, Next
      PROVE  Cardinality(changed) <= 1
  <2>1. PICK idx, s : Update(idx, s)
    BY <1>1, EveryStep DEF Operation
  <2>2. changed \subseteq {idx}
    <3>1. \A i \in Files : entries[i].size \in Nat
      BY <1>1, EntryFacts DEF IInv, TypeInv, Files
    <3>2. ASSUME NEW i \in Files, i # idx, NEW n \in {entries[i].size}
          PROVE  i \in Files'
                 /\ fs_read(entries[i].first_cluster, n)' = fs_read(entries[i].first_cluster, n)
      BY <1>1, <2>1, <3>1, <3>2, ReadSame DEF IInv
    <3> QED
      BY <3>2
  <2> HIDE DEF changed
  <2>3. IsFiniteSet({idx}) /\ Cardinality({idx}) = 1
    BY FS_Singleton
  <2>4. Cardinality(changed) <= Cardinality({idx})
    BY <2>2, <2>3, FS_Subset
  <2> QED
    BY <2>3, <2>4
<1>2. ASSUME IInv, [Next]_vars
      PROVE  [Cardinality(changed) <= 1]_vars
  BY <1>1, <1>2
<1> QED
  BY <1>2, Invariance, PTL DEF Spec, OtherFilesKept
=============================================================================
