--------------------------- MODULE Fat32SoundProofs ---------------------------
(***************************************************************************)
(* Proofs that the operations keep the volume sound, and of what each of   *)
(* them does to the tree of the files, for every volume, every cluster and *)
(* every directory size that the constants of Fat32 allow.                 *)
(***************************************************************************)
EXTENDS Fat32Proofs

-----------------------------------------------------------------------------
(* Chains that end *)

\* What is behind a cluster of the data area, read off the FAT.
LEMMA NextIs ==
  ASSUME NEW d \in Disks, NEW c \in Clusters
  PROVE  /\ d.fat[1][c] = FAT32_EOC => fat32_next_cluster(d, c) = 0
         /\ d.fat[1][c] # FAT32_EOC => fat32_next_cluster(d, c) = d.fat[1][c]
         /\ d.fat[1][c] \in Links /\ 0 \notin Clusters /\ FAT32_EOC \notin Clusters /\ FAT32_EOC # 0
         /\ fat32_next_cluster(d, c) \in {0} \cup Clusters
<1>1. d.fat[1] \in Sectors
  BY DiskParts
<1>2. d.fat[1][c] \in Links
  BY <1>1 DEF Sectors
<1> QED
  BY <1>2 DEF fat32_next_cluster, Links, FAT32_EOC, Clusters

\* The clusters of a chain.
LEMMA ChainHas ==
  ASSUME NEW d \in Disks, NEW c \in {0} \cup Clusters, NEW s, s = Chain(d, c)
  PROVE  /\ s \in Seq(Clusters) /\ Len(s) \in Nat /\ Range(s) = {s[i] : i \in 1 .. Len(s)}
         /\ \A i \in 1 .. Len(s) : s[i] \in Clusters
         /\ \A i \in 1 .. Len(s) - 1 : s[i + 1] = fat32_next_cluster(d, s[i])
         /\ c = 0 => s = <<>> /\ Len(s) = 0
         /\ c # 0 => Len(s) >= 1 /\ s[1] = c
         /\ c # 0 /\ Len(s) <= TotalClusters => fat32_next_cluster(d, s[Len(s)]) = 0
<1>1. /\ s \in Seq(Clusters) /\ Len(s) \in Nat
      /\ \A i \in 1 .. Len(s) : s[i] \in Clusters
      /\ \A i \in 1 .. Len(s) - 1 : s[i + 1] = fat32_next_cluster(d, s[i])
  BY ChainIs
<1>2. DOMAIN s = 1 .. Len(s)
  BY <1>1, LenProperties
<1>3. Range(s) = {s[i] : i \in 1 .. Len(s)}
  BY <1>2 DEF Range
<1>4. c = 0 => s = <<>> /\ Len(s) = 0
  BY EmptySeq DEF Chain
<1>5. ASSUME c # 0
      PROVE  Len(s) >= 1 /\ s[1] = c
  BY <1>5, ChainIsOne DEF Chains
<1>6. ASSUME c # 0, Len(s) <= TotalClusters
      PROVE  fat32_next_cluster(d, s[Len(s)]) = 0
  BY <1>6, ChainIsOne DEF Last
<1> QED
  BY <1>1, <1>3, <1>4, <1>5, <1>6

\* The clusters of a chain.
LEMMA ChainRange ==
  ASSUME NEW d \in Disks, NEW c \in {0} \cup Clusters
  PROVE  Range(Chain(d, c)) = {Chain(d, c)[i] : i \in 1 .. Len(Chain(d, c))}
  BY ChainHas

\* Clusters that are linked one to the next are the chain if they end in time.
LEMMA ChainUnique ==
  ASSUME NEW d \in Disks, NEW c \in Clusters, NEW q \in Seq(Clusters),
         Len(q) >= 1, q[1] = c, Len(q) <= TotalClusters + 1,
         \A i \in 1 .. Len(q) - 1 : q[i + 1] = fat32_next_cluster(d, q[i]),
         fat32_next_cluster(d, q[Len(q)]) = 0
  PROVE  Chain(d, c) = q
<1> DEFINE s == Chain(d, c)
           m == Len(s)
           n == Len(q)
<1>1. /\ s \in Seq(Clusters) /\ m \in Nat /\ m >= 1 /\ s[1] = c
      /\ \A i \in 1 .. m : s[i] \in Clusters
      /\ \A i \in 1 .. m - 1 : s[i + 1] = fat32_next_cluster(d, s[i])
      /\ m <= TotalClusters => fat32_next_cluster(d, s[m]) = 0
  <2>1. c # 0 /\ c \in {0} \cup Clusters /\ s = Chain(d, c)
    BY DEF Clusters
  <2> HIDE DEF s
  <2> QED
    BY <2>1, ChainHas
<1>2. n \in Nat /\ n >= 1 /\ \A i \in 1 .. n : q[i] \in Clusters
  BY LenProperties, ElementOfSeq
<1>3. 0 \notin Clusters /\ TotalClusters \in Nat
  BY DiskAssumption DEF Clusters
<1> HIDE DEF s, m
<1> DEFINE T == {k \in Nat : k + 1 <= m /\ k + 1 <= n => s[k + 1] = q[k + 1]}
<1>4. 0 \in T
  BY <1>1
<1>5. ASSUME NEW k \in 0 .. n - 1, k \in T
      PROVE  k + 1 \in T
  <2> DEFINE i == k + 1
  <2>1. i \in Nat /\ i >= 1
    OBVIOUS
  <2>2. ASSUME i + 1 <= m, i + 1 <= n
        PROVE  s[i + 1] = q[i + 1]
    <3>1. i \in 1 .. m - 1 /\ i \in 1 .. n - 1
      BY <1>1, <1>2, <2>1, <2>2
    <3>2. s[i] = q[i]
      BY <1>5, <2>2, <1>1, <1>2
    <3>3. s[i + 1] = fat32_next_cluster(d, s[i]) /\ q[i + 1] = fat32_next_cluster(d, q[i])
      BY <1>1, <3>1
    <3> QED
      BY <3>2, <3>3
  <2> QED
    BY <2>1, <2>2
<1> HIDE DEF T
<1>6. \A k \in 0 .. n : k \in T
  BY <1>2, <1>4, <1>5, ByCounting
<1>7. ASSUME NEW i \in 1 .. n, i <= m
      PROVE  s[i] = q[i]
  <2>1. i - 1 \in 0 .. n /\ (i - 1) + 1 = i
    BY <1>2
  <2>2. i - 1 \in T
    BY <1>6, <2>1
  <2> QED
    BY <1>7, <2>1, <2>2, <1>2 DEF T
<1>8. ~(m < n)
  <2>1. SUFFICES ASSUME m < n PROVE FALSE
    OBVIOUS
  <2>2. m <= TotalClusters /\ m \in 1 .. n - 1 /\ m \in 1 .. n /\ m + 1 \in 1 .. n
    BY <1>1, <1>2, <1>3, <2>1
  <2>3. s[m] = q[m] /\ q[m + 1] = fat32_next_cluster(d, q[m])
    BY <1>1, <1>7, <2>2
  <2>4. q[m + 1] = 0
    BY <1>1, <2>2, <2>3
  <2> QED
    BY <1>2, <1>3, <2>2, <2>4
<1>9. ~(n < m)
  <2>1. SUFFICES ASSUME n < m PROVE FALSE
    OBVIOUS
  <2>2. n \in 1 .. m - 1 /\ n \in 1 .. n /\ n + 1 \in 1 .. m /\ n <= m
    BY <1>1, <1>2, <2>1
  <2>3. s[n + 1] = fat32_next_cluster(d, s[n]) /\ s[n] = q[n]
    BY <1>1, <1>7, <2>2
  <2>4. s[n + 1] = 0
    BY <2>3
  <2> QED
    BY <1>1, <1>3, <2>2, <2>4
<1>10. m = n
  BY <1>1, <1>2, <1>8, <1>9
<1>11. \A i \in 1 .. Len(s) : s[i] = q[i]
  BY <1>1, <1>7, <1>10 DEF m
<1> QED
  BY <1>1, <1>10, <1>11, SeqEqual DEF s, m

\* A chain is the same on two disks whose FATs agree on its clusters.
LEMMA ChainFrame ==
  ASSUME NEW d \in Disks, NEW e \in Disks, NEW c \in {0} \cup Clusters,
         Len(Chain(d, c)) <= TotalClusters,
         \A x \in Range(Chain(d, c)) : e.fat[1][x] = d.fat[1][x]
  PROVE  Chain(e, c) = Chain(d, c)
<1>1. CASE c = 0
  BY <1>1 DEF Chain
<1>2. CASE c # 0
  <2> DEFINE s == Chain(d, c)
  <2>1. c \in Clusters /\ TotalClusters \in Nat
    BY <1>2, DiskAssumption
  <2>2. /\ s \in Seq(Clusters) /\ Len(s) \in Nat /\ Range(s) = {s[i] : i \in 1 .. Len(s)}
        /\ \A i \in 1 .. Len(s) - 1 : s[i + 1] = fat32_next_cluster(d, s[i])
        /\ Len(s) >= 1 /\ s[1] = c
        /\ fat32_next_cluster(d, s[Len(s)]) = 0
    BY <1>2, ChainHas
  <2>3. \A i \in 1 .. Len(s) : e.fat[1][s[i]] = d.fat[1][s[i]]
    BY <2>2
  <2> HIDE DEF s
  <2>4. \A i \in 1 .. Len(s) : fat32_next_cluster(e, s[i]) = fat32_next_cluster(d, s[i])
    BY <2>3 DEF fat32_next_cluster
  <2>5. /\ \A i \in 1 .. Len(s) - 1 : s[i + 1] = fat32_next_cluster(e, s[i])
        /\ fat32_next_cluster(e, s[Len(s)]) = 0
    BY <2>2, <2>4
  <2>6. Len(s) <= TotalClusters + 1
    BY <2>1, <2>2 DEF s
  <2>7. Chain(e, c) = s
    BY <2>1, <2>2, <2>5, <2>6, ChainUnique
  <2> QED
    BY <2>7 DEF s
<1> QED
  BY <1>1, <1>2

\* A chain that ends has no cluster twice.
LEMMA ChainDistinct ==
  ASSUME NEW d \in Disks, NEW c \in {0} \cup Clusters, Len(Chain(d, c)) <= TotalClusters
  PROVE  \A i, j \in 1 .. Len(Chain(d, c)) : Chain(d, c)[i] = Chain(d, c)[j] => i = j
<1> DEFINE s == Chain(d, c)
           m == Len(s)
<1>1. s = Chain(d, c) /\ c \in {0} \cup Clusters /\ 0 \notin Clusters
  BY DEF Clusters
<1>2. /\ m \in Nat /\ \A i \in 1 .. m : s[i] \in Clusters
      /\ \A i \in 1 .. m - 1 : s[i + 1] = fat32_next_cluster(d, s[i])
      /\ c = 0 => m = 0
      /\ c # 0 /\ m <= TotalClusters => fat32_next_cluster(d, s[m]) = 0
  <2> HIDE DEF s
  <2> QED
    BY <1>1, ChainHas
<1>3. m <= TotalClusters
  OBVIOUS
<1> HIDE DEF s, m
<1>4. ASSUME NEW i \in 1 .. m, NEW j \in 1 .. m, i < j, s[i] = s[j]
      PROVE  FALSE
  <2> DEFINE T == {k \in Nat : s[i + k] = s[j + k]}
             n == m - j
  <2>1. n \in Nat /\ i + n < m /\ i + n \in 1 .. m - 1 /\ j + n = m /\ (i + n) + 1 \in 1 .. m
    BY <1>2, <1>4
  <2>2. 0 \in T
    BY <1>4
  <2>3. ASSUME NEW k \in 0 .. n - 1, k \in T
        PROVE  k + 1 \in T
    <3>1. i + k \in 1 .. m - 1 /\ j + k \in 1 .. m - 1 /\ k \in Nat
      BY <1>2, <1>4, <2>1
    <3>2. s[(i + k) + 1] = fat32_next_cluster(d, s[i + k]) /\ s[(j + k) + 1] = fat32_next_cluster(d, s[j + k])
      BY <1>2, <3>1
    <3>3. s[i + k] = s[j + k]
      BY <2>3
    <3>4. (i + k) + 1 = i + (k + 1) /\ (j + k) + 1 = j + (k + 1) /\ k + 1 \in Nat
      BY <3>1
    <3> QED
      BY <3>2, <3>3, <3>4
  <2> HIDE DEF T
  <2>4. \A k \in 0 .. n : k \in T
    BY <2>1, <2>2, <2>3, ByCounting
  <2>5. n \in T
    BY <2>1, <2>4
  <2>6. s[i + n] = s[m]
    BY <2>1, <2>5 DEF T
  <2>7. s[(i + n) + 1] = fat32_next_cluster(d, s[m])
    BY <1>2, <2>1, <2>6
  <2>8. m # 0
    BY <1>4
  <2> QED
    BY <1>1, <1>2, <1>3, <2>1, <2>7, <2>8
<1>5. ASSUME NEW i \in 1 .. m, NEW j \in 1 .. m, s[i] = s[j]
      PROVE  i = j
  <2>1. i \in Nat /\ j \in Nat /\ ~(i < j) /\ ~(j < i)
    BY <1>2, <1>4, <1>5
  <2> QED
    BY <2>1
<1> QED
  BY <1>5 DEF s, m

\* There are no more clusters in a row than there are clusters.
LEMMA NoLonger ==
  ASSUME NEW q \in Seq(Clusters), \A i, j \in 1 .. Len(q) : q[i] = q[j] => i = j
  PROVE  Len(q) <= TotalClusters
<1>1. Len(q) \in Nat /\ q \in [1 .. Len(q) -> Clusters] /\ TotalClusters \in Nat
  BY LenProperties, DiskAssumption
<1>2. q \in Injection(1 .. Len(q), Clusters)
  BY <1>1 DEF Injection, IsInjective
<1>3. /\ IsFiniteSet(Clusters) /\ Cardinality(Clusters) = IF 2 > TotalClusters + 1 THEN 0 ELSE ((TotalClusters + 1) - 2) + 1
      /\ IsFiniteSet(1 .. Len(q)) /\ Cardinality(1 .. Len(q)) = IF 1 > Len(q) THEN 0 ELSE (Len(q) - 1) + 1
  <2>1. 2 \in Int /\ TotalClusters + 1 \in Int /\ 1 \in Int /\ Len(q) \in Int
    BY <1>1
  <2> DEFINE top == TotalClusters + 1
             len == Len(q)
  <2> HIDE DEF top, len
  <2>2. IsFiniteSet(2 .. top) /\ Cardinality(2 .. top) = IF 2 > top THEN 0 ELSE (top - 2) + 1
    BY <2>1, FS_Interval DEF top
  <2>3. IsFiniteSet(1 .. len) /\ Cardinality(1 .. len) = IF 1 > len THEN 0 ELSE (len - 1) + 1
    BY <2>1, FS_Interval DEF len
  <2> QED
    BY <2>2, <2>3 DEF Clusters, top, len
<1>4. Cardinality(1 .. Len(q)) <= Cardinality(Clusters)
  BY <1>2, <1>3, FS_Injection
<1> QED
  BY <1>1, <1>3, <1>4

\* A cluster that is marked as the end is a chain.
LEMMA ChainOfOne ==
  ASSUME NEW d \in Disks, NEW c \in Clusters, d.fat[1][c] = FAT32_EOC
  PROVE  Chain(d, c) = <<c>>
<1> DEFINE q == <<c>>
<1>1. q \in Seq(Clusters) /\ Len(q) = 1 /\ q[1] = c
  OBVIOUS
<1>2. TotalClusters \in Nat \ {0}
  BY DiskAssumption
<1>3. fat32_next_cluster(d, c) = 0
  BY NextIs
<1> HIDE DEF q
<1>4. /\ Len(q) >= 1 /\ Len(q) <= TotalClusters + 1
      /\ \A i \in 1 .. Len(q) - 1 : q[i + 1] = fat32_next_cluster(d, q[i])
      /\ fat32_next_cluster(d, q[Len(q)]) = 0
  BY <1>1, <1>2, <1>3
<1>5. Chain(d, c) = q
  BY <1>1, <1>4, ChainUnique
<1> QED
  BY <1>5 DEF q

\* A cluster of a chain is linked to a new one, which is marked as the end:
\* the chain goes to it and no further.
CutAt(d, e, s, k, new) ==
  /\ Len(s) <= TotalClusters /\ k \in 1 .. Len(s) /\ new \notin Range(s)
  /\ e.fat[1][s[k]] = new /\ e.fat[1][new] = FAT32_EOC
  /\ \A i \in 1 .. k - 1 : e.fat[1][s[i]] = d.fat[1][s[i]]
CutTo(t, s, k, new) ==
  /\ t \in Seq(Clusters) /\ Len(t) = k + 1 /\ k + 1 <= TotalClusters
  /\ t[k + 1] = new /\ \A i \in 1 .. k : t[i] = s[i]

\* What the chain is then.
LEMMA ChainCut ==
  ASSUME NEW d \in Disks, NEW e \in Disks, NEW c \in Clusters, NEW k, NEW new \in Clusters,
         CutAt(d, e, Chain(d, c), k, new)
  PROVE  CutTo(Chain(e, c), Chain(d, c), k, new)
<1> DEFINE s == Chain(d, c)
           m == Len(s)
           q == Append(SubSeq(s, 1, k), new)
<1>1. s = Chain(d, c) /\ c \in {0} \cup Clusters /\ 0 \notin Clusters /\ c # 0 /\ TotalClusters \in Nat
  BY DiskAssumption DEF Clusters
<1>2. /\ m \in Nat /\ m >= 1 /\ s[1] = c /\ \A i \in 1 .. m : s[i] \in Clusters
      /\ Range(s) = {s[i] : i \in 1 .. m}
      /\ \A i \in 1 .. m - 1 : s[i + 1] = fat32_next_cluster(d, s[i])
  <2> HIDE DEF s
  <2>1. Range(s) = {s[i] : i \in 1 .. m}
    BY <1>1, ChainHas
  <2>2. m \in Nat /\ m >= 1 /\ s[1] = c /\ \A i \in 1 .. m : s[i] \in Clusters
    BY <1>1, ChainHas
  <2>3. \A i \in 1 .. m - 1 : s[i + 1] = fat32_next_cluster(d, s[i])
    BY <1>1, ChainHas
  <2> QED
    BY <2>1, <2>2, <2>3
<1>3. \A i, j \in 1 .. m : s[i] = s[j] => i = j
  BY <1>1, ChainDistinct DEF CutAt
<1>4. \A i \in 1 .. m : s[i] # new
  BY <1>2 DEF CutAt
<1>5. /\ k \in 1 .. m /\ e.fat[1][s[k]] = new
      /\ e.fat[1][new] = FAT32_EOC
      /\ \A i \in 1 .. k - 1 : e.fat[1][s[i]] = d.fat[1][s[i]]
  BY DEF CutAt
<1> HIDE DEF s, m
<1>6. /\ q \in Seq(Clusters) /\ Len(q) = k + 1 /\ q[k + 1] = new /\ \A i \in 1 .. k : q[i] = s[i]
  <2>1. \A i \in 1 .. k : s[i] \in Clusters
    BY <1>2, <1>5
  <2>2. /\ SubSeq(s, 1, k) \in Seq(Clusters) /\ Len(SubSeq(s, 1, k)) = k
        /\ \A i \in 1 .. k : SubSeq(s, 1, k)[i] = s[i]
    BY <1>2, <1>5, <2>1, SubSeqProperties
  <2> HIDE DEF m
  <2>3. k \in Nat
    BY <1>2, <1>5
  <2> QED
    BY <2>2, <2>3, AppendProperties
<1> HIDE DEF q
<1>7. k \in Nat /\ k >= 1 /\ k <= m /\ m \in Nat
  BY <1>2, <1>5
<1>8. ASSUME NEW i \in 1 .. Len(q), NEW j \in 1 .. Len(q), q[i] = q[j]
      PROVE  i = j
  <2>1. i \in 1 .. k + 1 /\ j \in 1 .. k + 1
    BY <1>6, <1>8
  <2>2. CASE i = k + 1
    <3>1. ~(j \in 1 .. k)
      <4>1. SUFFICES ASSUME j \in 1 .. k PROVE FALSE
        OBVIOUS
      <4>2. q[j] = s[j] /\ j \in 1 .. m
        BY <1>6, <1>7, <4>1
      <4> QED
        BY <1>4, <1>6, <1>8, <2>2, <4>2
    <3> QED
      BY <1>7, <2>1, <2>2, <3>1
  <2>3. CASE j = k + 1
    <3>1. ~(i \in 1 .. k)
      <4>1. SUFFICES ASSUME i \in 1 .. k PROVE FALSE
        OBVIOUS
      <4>2. q[i] = s[i] /\ i \in 1 .. m
        BY <1>6, <1>7, <4>1
      <4> QED
        BY <1>4, <1>6, <1>8, <2>3, <4>2
    <3> QED
      BY <1>7, <2>1, <2>3, <3>1
  <2>4. CASE i \in 1 .. k /\ j \in 1 .. k
    BY <1>3, <1>6, <1>7, <1>8, <2>4
  <2> QED
    BY <1>7, <2>1, <2>2, <2>3, <2>4
<1>9. Len(q) <= TotalClusters
  BY <1>6, <1>8, NoLonger
<1>10. ASSUME NEW i \in 1 .. Len(q) - 1
       PROVE  q[i + 1] = fat32_next_cluster(e, q[i])
  <2>1. i \in 1 .. k /\ i \in 1 .. m /\ q[i] = s[i] /\ i \in Nat
    BY <1>6, <1>7
  <2>2. CASE i = k
    <3>1. e.fat[1][q[i]] = new /\ q[i] \in Clusters
      BY <1>2, <1>5, <2>1, <2>2
    <3>2. fat32_next_cluster(e, q[i]) = new
      <4>1. new # FAT32_EOC
        BY <1>5, NextIs
      <4> QED
        BY <3>1, <4>1, NextIs
    <3> QED
      BY <1>6, <2>2, <3>2
  <2>3. CASE i # k
    <3>1. i \in 1 .. k - 1 /\ i \in 1 .. m - 1 /\ i + 1 \in 1 .. k
      BY <1>7, <2>1, <2>3
    <3>2. e.fat[1][s[i]] = d.fat[1][s[i]]
      BY <1>5, <3>1
    <3>3. fat32_next_cluster(e, s[i]) = fat32_next_cluster(d, s[i])
      BY <3>2 DEF fat32_next_cluster
    <3> QED
      BY <1>2, <1>6, <2>1, <3>1, <3>3
  <2> QED
    BY <2>2, <2>3
<1>11. fat32_next_cluster(e, q[Len(q)]) = 0
  BY <1>5, <1>6, NextIs
<1>12. q[1] = c /\ Len(q) >= 1 /\ Len(q) <= TotalClusters + 1
  BY <1>1, <1>2, <1>6, <1>7, <1>9
<1>13. Chain(e, c) = q
  BY <1>6, <1>10, <1>11, <1>12, ChainUnique
<1> QED
  BY <1>6, <1>9, <1>13 DEF s, CutTo

-----------------------------------------------------------------------------
(* Disks that are well formed *)

Places == Clusters \X (1 .. SlotCount)

\* An entry is one, and leads to a cluster or nowhere.
LEMMA EntryIs ==
  ASSUME NEW d \in Disks, NEW s \in Places
  PROVE  /\ EntryAt(d, s) \in Entries /\ EntryAt(d, s).first_cluster \in {0} \cup Clusters
         /\ EntryAt(d, s).file_size \in 0 .. MaxSize /\ EntryAt(d, s).name \in Nat \X Nat
         /\ s[1] \in Clusters /\ s[2] \in 1 .. SlotCount /\ s = <<s[1], s[2]>>
<1>1. s[1] \in Clusters /\ s[2] \in 1 .. SlotCount /\ s = <<s[1], s[2]>>
  BY DEF Places
<1>2. d.dir \in [Clusters -> [1 .. SlotCount -> Entries]]
  BY DiskParts
<1>3. d.dir[s[1]][s[2]] \in Entries
  BY <1>1, <1>2
<1> QED
  BY <1>1, <1>3 DEF EntryAt, Entries

\* The slots by what is in them.
LEMMA SlotSets ==
  ASSUME NEW d \in Disks
  PROVE  /\ \A s : s \in UsedSlots(d) <=> s \in Places /\ Used(EntryAt(d, s))
         /\ \A s : s \in Files(d) <=> /\ s \in Places /\ Used(EntryAt(d, s))
                                     /\ EntryAt(d, s).attributes \notin {ATTR_DIRECTORY, ATTR_VOLUME_ID}
         /\ \A s : s \in Dirs(d) <=> /\ s \in Places /\ Used(EntryAt(d, s))
                                    /\ EntryAt(d, s).attributes = ATTR_DIRECTORY
         /\ \A s : s \in OwnDirs(d) <=> s \in Dirs(d) /\ EntryAt(d, s).name[1] # DOT
         /\ \A s : s \in EntrySlots(d) <=> /\ s \in Places /\ Used(EntryAt(d, s))
                                          /\ EntryAt(d, s).name[1] # DOT
                                          /\ EntryAt(d, s).attributes \in {ATTR_ARCHIVE, ATTR_DIRECTORY}
         /\ DirStarts(d) \subseteq {0} \cup Clusters /\ root_cluster \in DirStarts(d)
         /\ \A s \in Dirs(d) : EntryAt(d, s).first_cluster \in DirStarts(d)
<1>1. \A s : s \in UsedSlots(d) <=> s \in Places /\ Used(EntryAt(d, s))
  BY DEF UsedSlots, Places
<1>2. \A s : s \in Files(d) <=> /\ s \in Places /\ Used(EntryAt(d, s))
                               /\ EntryAt(d, s).attributes \notin {ATTR_DIRECTORY, ATTR_VOLUME_ID}
  BY <1>1 DEF Files
<1>3. \A s : s \in Dirs(d) <=> /\ s \in Places /\ Used(EntryAt(d, s))
                              /\ EntryAt(d, s).attributes = ATTR_DIRECTORY
  BY <1>1 DEF Dirs, IsDir
<1>4. \A s : s \in EntrySlots(d) <=> /\ s \in Places /\ Used(EntryAt(d, s))
                                    /\ EntryAt(d, s).name[1] # DOT
                                    /\ EntryAt(d, s).attributes \in {ATTR_ARCHIVE, ATTR_DIRECTORY}
  BY DEF EntrySlots, Places, EntryAt
<1>5. \A s : s \in OwnDirs(d) <=> s \in Dirs(d) /\ EntryAt(d, s).name[1] # DOT
  BY <1>3, <1>4 DEF OwnDirs
<1>6. root_cluster \in Clusters
  BY DiskAssumption DEF root_cluster, Clusters
<1>7. \A s \in Dirs(d) : EntryAt(d, s).first_cluster \in {0} \cup Clusters
  BY <1>3, EntryIs
<1>8. DirStarts(d) \subseteq {0} \cup Clusters /\ root_cluster \in DirStarts(d)
  BY <1>6, <1>7 DEF DirStarts
<1>9. \A s \in Dirs(d) : EntryAt(d, s).first_cluster \in DirStarts(d)
  BY DEF DirStarts
<1> QED
  BY <1>1, <1>2, <1>3, <1>4, <1>5, <1>8, <1>9

\* No cluster of a proper chain is free.
LEMMA ProperIs ==
  ASSUME NEW d \in Disks, NEW c \in {0} \cup Clusters
  PROVE  /\ ProperChain(d, Chain(d, c)) <=> /\ Len(Chain(d, c)) <= TotalClusters
                                           /\ \A x \in Range(Chain(d, c)) : d.fat[1][x] # 0
         /\ Range(Chain(d, c)) \subseteq Clusters
<1> DEFINE s == Chain(d, c)
<1>1. s = Chain(d, c)
  OBVIOUS
<1> HIDE DEF s
<1>2. /\ s \in Seq(Clusters) /\ Range(s) = {s[i] : i \in 1 .. Len(s)}
      /\ \A i \in 1 .. Len(s) : s[i] \in Clusters
  BY <1>1, ChainHas
<1>3. DOMAIN s = 1 .. Len(s)
  BY <1>2, LenProperties
<1>4. (\A i \in DOMAIN s : d.fat[1][s[i]] # 0) <=> (\A x \in Range(s) : d.fat[1][x] # 0)
  BY <1>2, <1>3
<1> QED
  BY <1>1, <1>2, <1>4 DEF ProperChain

\* The parts of being well formed.
DirChains(d) ==
  \A b \in DirStarts(d) :
    /\ ProperChain(d, Chain(d, b))
    /\ \A c \in DirStarts(d) : Chain(d, b) = Chain(d, c) \/ Disjoint(Chain(d, b), Chain(d, c))
DirEnds(d) ==
  \A b \in DirStarts(d) : \A j \in DOMAIN AllSlots(d, b) : \A i \in 1 .. j - 1 :
    AllSlots(d, b)[i].name[1] = END => ~Used(AllSlots(d, b)[j])
OwnChains(d) ==
  /\ \A s \in OwnDirs(d) :
       /\ Disjoint(ChainAt(d, s), Chain(d, root_cluster))
       /\ \A t \in OwnDirs(d) \ {s} : Disjoint(ChainAt(d, s), ChainAt(d, t))
  /\ \A s \in Dirs(d) : EntryAt(d, s).file_size = 0
FileHolds(d, s) ==
  /\ ProperChain(d, ChainAt(d, s)) /\ Holds(ChainAt(d, s), EntryAt(d, s).file_size)
  /\ EntryAt(d, s).file_size = 0 => EntryAt(d, s).first_cluster = 0
FileApart(d, s) ==
  /\ \A c \in DirStarts(d) : Disjoint(ChainAt(d, s), Chain(d, c))
  /\ \A t \in Files(d) \ {s} : Disjoint(ChainAt(d, s), ChainAt(d, t))
  /\ \A t \in UsedSlots(d) : t[1] \notin Range(ChainAt(d, s))
SlotsTaken(d) == \A s \in UsedSlots(d) : d.fat[1][s[1]] # 0

\* They are all of it.
LEMMA WellFormedIs ==
  ASSUME NEW d
  PROVE  WellFormed(d) <=> /\ DirChains(d) /\ DirEnds(d) /\ OwnChains(d) /\ SlotsTaken(d)
                          /\ \A s \in Files(d) : FileHolds(d, s) /\ FileApart(d, s)
<1>1. WellFormed(d) => DirChains(d) /\ DirEnds(d)
  BY DEF WellFormed, DirChains, DirEnds
<1>2. WellFormed(d) => OwnChains(d) /\ SlotsTaken(d)
  BY DEF WellFormed, OwnChains, SlotsTaken
<1>3. WellFormed(d) => \A s \in Files(d) : FileHolds(d, s) /\ FileApart(d, s)
  BY DEF WellFormed, FileHolds, FileApart
<1>4. ASSUME DirChains(d), DirEnds(d), OwnChains(d), SlotsTaken(d),
             \A s \in Files(d) : FileHolds(d, s) /\ FileApart(d, s)
      PROVE  WellFormed(d)
  BY <1>4 DEF WellFormed, DirChains, DirEnds, OwnChains, SlotsTaken, FileHolds, FileApart
<1> QED
  BY <1>1, <1>2, <1>3, <1>4

\* The clusters that are free or of the files of X.
Frees(d, X, R) ==
  \A x \in R : x \in Clusters /\ (d.fat[1][x] = 0 \/ \E s \in X : x \in Range(ChainAt(d, s)))

\* Everything else of a well formed disk keeps out of them.
LEMMA KeepsOut ==
  ASSUME NEW d \in Disks, WellFormed(d), NEW X \in SUBSET Files(d), NEW R, Frees(d, X, R)
  PROVE  /\ \A b \in DirStarts(d) : \A x \in Range(Chain(d, b)) : x \notin R
         /\ \A t \in Files(d) \ X : \A x \in Range(ChainAt(d, t)) : x \notin R
         /\ \A t \in UsedSlots(d) : t[1] \notin R
<1>1. /\ DirChains(d) /\ SlotsTaken(d) /\ DirStarts(d) \subseteq {0} \cup Clusters
      /\ \A s \in Files(d) : FileHolds(d, s) /\ FileApart(d, s)
  BY WellFormedIs, SlotSets
<1>2. \A s \in X : s \in Files(d)
  OBVIOUS
<1>3. ASSUME NEW b \in DirStarts(d), NEW x \in Range(Chain(d, b)), x \in R
      PROVE  FALSE
  <2>1. d.fat[1][x] # 0
    BY <1>1, ProperIs DEF DirChains
  <2>2. PICK s \in X : x \in Range(ChainAt(d, s))
    BY <1>3, <2>1 DEF Frees
  <2>3. Disjoint(ChainAt(d, s), Chain(d, b))
    BY <1>1, <1>2 DEF FileApart
  <2> QED
    BY <2>2, <2>3 DEF Disjoint
<1>4. ASSUME NEW t \in Files(d) \ X, NEW x \in Range(ChainAt(d, t)), x \in R
      PROVE  FALSE
  <2>1. t \in Places /\ EntryAt(d, t).first_cluster \in {0} \cup Clusters
    BY SlotSets, EntryIs
  <2>2. d.fat[1][x] # 0
    BY <1>1, <2>1, ProperIs DEF FileHolds, ChainAt
  <2>3. PICK s \in X : x \in Range(ChainAt(d, s))
    BY <1>4, <2>2 DEF Frees
  <2>4. Disjoint(ChainAt(d, s), ChainAt(d, t))
    BY <1>1, <1>2 DEF FileApart
  <2> QED
    BY <2>3, <2>4 DEF Disjoint
<1>5. ASSUME NEW t \in UsedSlots(d), t[1] \in R
      PROVE  FALSE
  <2>1. d.fat[1][t[1]] # 0
    BY <1>1 DEF SlotsTaken
  <2>2. PICK s \in X : t[1] \in Range(ChainAt(d, s))
    BY <1>5, <2>1 DEF Frees
  <2> QED
    BY <1>1, <1>2, <2>2 DEF FileApart
<1> QED
  BY <1>3, <1>4, <1>5

\* What stays when files are written: the FAT outside of R, and of the entries
\* everything but where the files of X are, or what a label says.
KeepsRest(d, e, X, R) ==
  /\ \A x \in Clusters \ R : e.fat[1][x] = d.fat[1][x]
  /\ \A t \in Places :
       /\ EntryAt(e, t).name = EntryAt(d, t).name
       /\ EntryAt(e, t).attributes = EntryAt(d, t).attributes
       /\ t \notin X /\ EntryAt(d, t).attributes # ATTR_VOLUME_ID => EntryAt(e, t) = EntryAt(d, t)

\* The slots and the chains that stay then.
LEMMA RestIs ==
  ASSUME NEW d \in Disks, NEW e \in Disks, WellFormed(d), NEW X \in SUBSET Files(d), NEW R,
         Frees(d, X, R), KeepsRest(d, e, X, R)
  PROVE  /\ UsedSlots(e) = UsedSlots(d) /\ Files(e) = Files(d) /\ Dirs(e) = Dirs(d)
         /\ OwnDirs(e) = OwnDirs(d) /\ DirStarts(e) = DirStarts(d)
         /\ \A s \in Dirs(d) : EntryAt(e, s) = EntryAt(d, s) /\ ChainAt(e, s) = ChainAt(d, s)
         /\ \A b \in DirStarts(d) : Chain(e, b) = Chain(d, b) /\ ProperChain(e, Chain(e, b))
         /\ \A t \in Files(d) \ X : /\ EntryAt(e, t) = EntryAt(d, t) /\ ChainAt(e, t) = ChainAt(d, t)
                                   /\ ProperChain(e, ChainAt(e, t))
<1>1. /\ DirChains(d) /\ SlotsTaken(d) /\ DirStarts(d) \subseteq {0} \cup Clusters
      /\ \A s \in Files(d) : FileHolds(d, s) /\ FileApart(d, s)
  BY WellFormedIs, SlotSets
<1>2. \A t \in Places : Used(EntryAt(e, t)) = Used(EntryAt(d, t))
  BY DEF KeepsRest, Used
<1>3. UsedSlots(e) = UsedSlots(d)
  <2>1. \A t : t \in UsedSlots(e) <=> t \in UsedSlots(d)
    BY <1>2, SlotSets
  <2> QED
    BY <2>1
<1>4. Files(e) = Files(d)
  <2>1. \A t : t \in Files(e) <=> t \in Files(d)
    BY <1>2, SlotSets DEF KeepsRest
  <2> QED
    BY <2>1
<1>5. Dirs(e) = Dirs(d)
  <2>1. \A t : t \in Dirs(e) <=> t \in Dirs(d)
    BY <1>2, SlotSets DEF KeepsRest
  <2> QED
    BY <2>1
<1>6. \A s \in Dirs(d) : s \in Places /\ EntryAt(e, s) = EntryAt(d, s)
  <2>1. ASSUME NEW s \in Dirs(d)
        PROVE  s \in Places /\ EntryAt(d, s).attributes = ATTR_DIRECTORY /\ s \notin X
    BY SlotSets
  <2>2. ATTR_DIRECTORY # ATTR_VOLUME_ID
    BY DEF ATTR_DIRECTORY, ATTR_VOLUME_ID
  <2> QED
    BY <2>1, <2>2 DEF KeepsRest
<1>7. OwnDirs(e) = OwnDirs(d)
  <2>1. \A t : t \in OwnDirs(e) <=> t \in OwnDirs(d)
    BY <1>5, <1>6, SlotSets
  <2> QED
    BY <2>1
<1>8. DirStarts(e) = DirStarts(d)
  BY <1>5, <1>6 DEF DirStarts
<1>9. ASSUME NEW c \in {0} \cup Clusters, ProperChain(d, Chain(d, c)),
             \A x \in Range(Chain(d, c)) : x \notin R
      PROVE  Chain(e, c) = Chain(d, c) /\ ProperChain(e, Chain(e, c))
  <2>1. /\ Len(Chain(d, c)) <= TotalClusters /\ Range(Chain(d, c)) \subseteq Clusters
        /\ \A x \in Range(Chain(d, c)) : d.fat[1][x] # 0
    BY <1>9, ProperIs
  <2>2. \A x \in Range(Chain(d, c)) : e.fat[1][x] = d.fat[1][x]
    BY <1>9, <2>1 DEF KeepsRest
  <2>3. Chain(e, c) = Chain(d, c)
    BY <2>1, <2>2, ChainFrame
  <2> QED
    BY <2>1, <2>2, <2>3, ProperIs
<1>10. \A b \in DirStarts(d) : Chain(e, b) = Chain(d, b) /\ ProperChain(e, Chain(e, b))
  BY <1>1, <1>9, KeepsOut DEF DirChains
<1>11. \A s \in Dirs(d) : ChainAt(e, s) = ChainAt(d, s)
  <2>1. \A s \in Dirs(d) : EntryAt(d, s).first_cluster \in DirStarts(d)
    BY SlotSets
  <2> QED
    BY <1>6, <1>10, <2>1 DEF ChainAt
<1>12. ASSUME NEW t \in Files(d) \ X
       PROVE  /\ EntryAt(e, t) = EntryAt(d, t) /\ ChainAt(e, t) = ChainAt(d, t)
              /\ ProperChain(e, ChainAt(e, t))
  <2>1. t \in Places /\ EntryAt(d, t).attributes # ATTR_VOLUME_ID
    BY SlotSets
  <2>2. EntryAt(e, t) = EntryAt(d, t)
    BY <2>1 DEF KeepsRest
  <2>3. EntryAt(d, t).first_cluster \in {0} \cup Clusters
    BY <2>1, EntryIs
  <2>4. ProperChain(d, Chain(d, EntryAt(d, t).first_cluster))
    BY <1>1 DEF FileHolds, ChainAt
  <2>5. \A x \in Range(Chain(d, EntryAt(d, t).first_cluster)) : x \notin R
    BY KeepsOut DEF ChainAt
  <2> QED
    BY <1>9, <2>2, <2>3, <2>4, <2>5 DEF ChainAt
<1> QED
  BY <1>3, <1>4, <1>5, <1>6, <1>7, <1>8, <1>10, <1>11, <1>12

\* The k-th slot of a directory that starts at c.
SlotAt(d, c, k) == <<Chain(d, c)[((k - 1) \div SlotCount) + 1], ((k - 1) % SlotCount) + 1>>

\* It is a slot of a cluster of the directory.
LEMMA SlotAtIs ==
  ASSUME NEW d \in Disks, NEW c \in {0} \cup Clusters
  PROVE  /\ AllSlots(d, c) \in Seq(Entries) /\ Len(AllSlots(d, c)) = SlotCount * Len(Chain(d, c))
         /\ Len(AllSlots(d, c)) \in Nat /\ DOMAIN AllSlots(d, c) = 1 .. Len(AllSlots(d, c))
         /\ \A k \in 1 .. Len(AllSlots(d, c)) :
              /\ AllSlots(d, c)[k] = EntryAt(d, SlotAt(d, c, k)) /\ SlotAt(d, c, k) \in Places
              /\ SlotAt(d, c, k)[1] \in Range(Chain(d, c))
<1> DEFINE chain == Chain(d, c)
           m == Len(chain)
           n == SlotCount * m
<1>1. /\ chain \in Seq(Clusters) /\ m \in Nat /\ \A i \in 1 .. m : chain[i] \in Clusters
      /\ Range(chain) = {chain[i] : i \in 1 .. m}
  <2> HIDE DEF chain
  <2>1. chain = Chain(d, c) => Range(chain) = {chain[i] : i \in 1 .. m}
    BY ChainHas
  <2>2. chain = Chain(d, c) => chain \in Seq(Clusters) /\ m \in Nat /\ \A i \in 1 .. m : chain[i] \in Clusters
    BY ChainHas
  <2> QED
    BY <2>1, <2>2 DEF chain
<1>2. SlotCount \in Nat \ {0} /\ n \in Nat
  BY <1>1, DiskAssumption
<1>3. AllSlots(d, c) = [k \in 1 .. n |-> d.dir[chain[((k - 1) \div SlotCount) + 1]][((k - 1) % SlotCount) + 1]]
  BY DEF AllSlots
<1>4. AllSlots(d, c) \in Seq(Entries)
  BY SlotTypes
<1>5. DOMAIN AllSlots(d, c) = 1 .. n /\ Len(AllSlots(d, c)) = n
  BY <1>2, <1>3, <1>4, LenProperties
<1>6. ASSUME NEW k \in 1 .. n
      PROVE  /\ AllSlots(d, c)[k] = EntryAt(d, SlotAt(d, c, k)) /\ SlotAt(d, c, k) \in Places
             /\ SlotAt(d, c, k)[1] \in Range(chain)
  <2> DEFINE x == k - 1
  <2>1. x \in Nat /\ x < n
    BY <1>2
  <2> HIDE DEF chain, m
  <2>2. (x \div SlotCount) \in 0 .. m - 1 /\ (x % SlotCount) \in 0 .. SlotCount - 1
    BY <1>1, <1>2, <2>1, Division
  <2>3. (x \div SlotCount) + 1 \in 1 .. m /\ (x % SlotCount) + 1 \in 1 .. SlotCount
    BY <1>1, <1>2, <2>2
  <2>4. SlotAt(d, c, k) = <<chain[(x \div SlotCount) + 1], (x % SlotCount) + 1>>
    BY DEF SlotAt, chain
  <2>5. AllSlots(d, c)[k] = d.dir[chain[(x \div SlotCount) + 1]][(x % SlotCount) + 1]
    BY <1>3
  <2> HIDE DEF x
  <2>6. chain[(x \div SlotCount) + 1] \in Range(chain) /\ chain[(x \div SlotCount) + 1] \in Clusters
    BY <1>1, <2>3
  <2> QED
    BY <2>3, <2>4, <2>5, <2>6 DEF EntryAt, Places
<1> QED
  BY <1>2, <1>4, <1>5, <1>6 DEF chain, m

\* A disk stays well formed when clusters that are free or of one file are
\* given to that file, and whatever label is written over.
LEMMA Regrown ==
  ASSUME NEW d \in Disks, NEW e \in Disks, WellFormed(d), NEW X \in SUBSET Files(d), NEW R,
         Frees(d, X, R), KeepsRest(d, e, X, R),
         \A s, t \in X : s = t,
         \A s \in X : FileHolds(e, s) /\ \A x \in Range(ChainAt(e, s)) : x \in R
  PROVE  WellFormed(e)
<1>1. /\ DirChains(d) /\ DirEnds(d) /\ OwnChains(d) /\ SlotsTaken(d) /\ DirStarts(d) \subseteq {0} \cup Clusters
      /\ root_cluster \in DirStarts(d) /\ \A s \in Dirs(d) : EntryAt(d, s).first_cluster \in DirStarts(d)
      /\ \A s \in Files(d) : FileHolds(d, s) /\ FileApart(d, s)
  BY WellFormedIs, SlotSets
<1>2. /\ UsedSlots(e) = UsedSlots(d) /\ Files(e) = Files(d) /\ Dirs(e) = Dirs(d)
      /\ OwnDirs(e) = OwnDirs(d) /\ DirStarts(e) = DirStarts(d)
  BY RestIs
<1>3. \A s \in Dirs(d) : EntryAt(e, s) = EntryAt(d, s) /\ ChainAt(e, s) = ChainAt(d, s)
  BY RestIs
<1>4. \A b \in DirStarts(d) : Chain(e, b) = Chain(d, b) /\ ProperChain(e, Chain(e, b))
  BY RestIs
<1>5. \A t \in Files(d) \ X : /\ EntryAt(e, t) = EntryAt(d, t) /\ ChainAt(e, t) = ChainAt(d, t)
                             /\ ProperChain(e, ChainAt(e, t))
  BY RestIs
<1>6. DirChains(e)
  BY <1>1, <1>2, <1>4 DEF DirChains
<1>7. DirEnds(e)
  <2> SUFFICES ASSUME NEW b \in DirStarts(d), NEW j \in DOMAIN AllSlots(e, b), NEW i \in 1 .. j - 1,
                      AllSlots(e, b)[i].name[1] = END
               PROVE  ~Used(AllSlots(e, b)[j])
    BY <1>2 DEF DirEnds
  <2>1. b \in {0} \cup Clusters /\ Chain(e, b) = Chain(d, b)
    BY <1>1, <1>4
  <2>2. Len(AllSlots(e, b)) = Len(AllSlots(d, b)) /\ \A k : SlotAt(e, b, k) = SlotAt(d, b, k)
    BY <2>1, SlotAtIs DEF SlotAt
  <2>3. \A k \in 1 .. Len(AllSlots(e, b)) : AllSlots(e, b)[k].name = AllSlots(d, b)[k].name
    BY <2>1, <2>2, SlotAtIs DEF KeepsRest
  <2>4. /\ j \in 1 .. Len(AllSlots(e, b)) /\ i \in 1 .. Len(AllSlots(e, b))
        /\ j \in DOMAIN AllSlots(d, b)
    <3>1. /\ DOMAIN AllSlots(e, b) = 1 .. Len(AllSlots(e, b)) /\ DOMAIN AllSlots(d, b) = 1 .. Len(AllSlots(d, b))
          /\ Len(AllSlots(e, b)) \in Nat
      BY <2>1, SlotAtIs
    <3> QED
      BY <2>2, <3>1
  <2>5. AllSlots(d, b)[i].name[1] = END
    BY <2>3, <2>4
  <2>6. ~Used(AllSlots(d, b)[j])
    BY <1>1, <2>4, <2>5 DEF DirEnds
  <2> QED
    BY <2>3, <2>4, <2>6 DEF Used
<1>8. OwnChains(e)
  <2>1. \A s \in OwnDirs(d) : s \in Dirs(d)
    BY SlotSets
  <2> QED
    BY <1>1, <1>2, <1>3, <1>4, <2>1 DEF OwnChains
<1>9. SlotsTaken(e)
  <2> SUFFICES ASSUME NEW s \in UsedSlots(d) PROVE e.fat[1][s[1]] # 0
    BY <1>2 DEF SlotsTaken
  <2>1. s[1] \in Clusters
    BY SlotSets, EntryIs
  <2>2. s[1] \notin R
    BY KeepsOut
  <2>3. d.fat[1][s[1]] # 0
    BY <1>1 DEF SlotsTaken
  <2> QED
    BY <2>1, <2>2, <2>3 DEF KeepsRest
<1>10. ASSUME NEW s \in Files(d)
       PROVE  FileHolds(e, s) /\ FileApart(e, s)
  <2>1. CASE s \in X
    <3>1. \A x \in Range(ChainAt(e, s)) : x \in R
      BY <2>1
    <3>2. \A c \in DirStarts(d) : Disjoint(ChainAt(e, s), Chain(e, c))
      <4> SUFFICES ASSUME NEW c \in DirStarts(d) PROVE Disjoint(ChainAt(e, s), Chain(e, c))
        OBVIOUS
      <4>1. \A x \in Range(Chain(e, c)) : x \notin R
        BY <1>4, KeepsOut
      <4> QED
        BY <3>1, <4>1 DEF Disjoint
    <3>3. \A t \in Files(d) \ {s} : Disjoint(ChainAt(e, s), ChainAt(e, t))
      <4> SUFFICES ASSUME NEW t \in Files(d) \ {s} PROVE Disjoint(ChainAt(e, s), ChainAt(e, t))
        OBVIOUS
      <4>1. t \in Files(d) \ X
        BY <2>1
      <4>2. \A x \in Range(ChainAt(e, t)) : x \notin R
        BY <1>5, <4>1, KeepsOut
      <4> QED
        BY <3>1, <4>2 DEF Disjoint
    <3>4. \A t \in UsedSlots(d) : t[1] \notin Range(ChainAt(e, s))
      BY <3>1, KeepsOut
    <3> QED
      BY <1>2, <2>1, <3>2, <3>3, <3>4 DEF FileApart
  <2>2. CASE s \notin X
    <3>1. /\ EntryAt(e, s) = EntryAt(d, s) /\ ChainAt(e, s) = ChainAt(d, s)
          /\ ProperChain(e, ChainAt(e, s))
      BY <1>5, <2>2
    <3>2. FileHolds(e, s)
      BY <1>1, <3>1 DEF FileHolds
    <3>3. \A c \in DirStarts(d) : Disjoint(ChainAt(e, s), Chain(e, c))
      BY <1>1, <1>4, <3>1 DEF FileApart
    <3>4. \A t \in Files(d) \ {s} : Disjoint(ChainAt(e, s), ChainAt(e, t))
      <4> SUFFICES ASSUME NEW t \in Files(d) \ {s} PROVE Disjoint(ChainAt(e, s), ChainAt(e, t))
        OBVIOUS
      <4>1. CASE t \in X
        <5>1. \A x \in Range(ChainAt(e, t)) : x \in R
          BY <4>1
        <5>2. \A x \in Range(ChainAt(e, s)) : x \notin R
          BY <2>2, <3>1, KeepsOut
        <5> QED
          BY <5>1, <5>2 DEF Disjoint
      <4>2. CASE t \notin X
        BY <1>1, <1>5, <3>1, <4>2 DEF FileApart
      <4> QED
        BY <4>1, <4>2
    <3>5. \A t \in UsedSlots(d) : t[1] \notin Range(ChainAt(e, s))
      BY <1>1, <3>1 DEF FileApart
    <3> QED
      BY <1>2, <3>2, <3>3, <3>4, <3>5 DEF FileApart
  <2> QED
    BY <2>1, <2>2
<1> QED
  BY <1>2, <1>6, <1>7, <1>8, <1>9, <1>10, WellFormedIs

\* The first slots of a directory are those of its first cluster.
LEMMA FirstSlots ==
  ASSUME NEW d \in Disks, NEW c \in Clusters, Len(Chain(d, c)) <= TotalClusters
  PROVE  /\ SlotCount \in Nat /\ SlotCount <= Len(AllSlots(d, c))
         /\ \A k \in 1 .. SlotCount : SlotAt(d, c, k) = <<c, k>>
         /\ \A k \in 1 .. Len(AllSlots(d, c)) : SlotAt(d, c, k)[1] = c => k \in 1 .. SlotCount
<1> DEFINE chain == Chain(d, c)
           m == Len(chain)
           n == SlotCount * m
<1>1. m \in Nat /\ m >= 1 /\ chain[1] = c
  <2>1. c \in {0} \cup Clusters /\ c # 0
    BY DEF Clusters
  <2>2. chain = Chain(d, c)
    OBVIOUS
  <2> HIDE DEF chain
  <2> QED
    BY <2>1, <2>2, ChainHas
<1>2. SlotCount \in Nat \ {0} /\ n \in Nat
  BY <1>1, DiskAssumption
<1>3. Len(AllSlots(d, c)) = n
  BY SlotAtIs
<1>4. \A i, j \in 1 .. m : chain[i] = chain[j] => i = j
  BY ChainDistinct
<1>5. \A k \in Int : SlotAt(d, c, k) = <<chain[((k - 1) \div SlotCount) + 1], ((k - 1) % SlotCount) + 1>>
  BY DEF SlotAt
<1> HIDE DEF chain, m
<1>6. SlotCount <= n
  BY <1>1, <1>2
<1>7. ASSUME NEW k \in 1 .. SlotCount
      PROVE  SlotAt(d, c, k) = <<c, k>>
  <2> DEFINE x == k - 1
  <2>1. x \in Nat /\ x < SlotCount * 1
    BY <1>2
  <2>2. x \in Nat /\ x + 1 = k
    BY <1>2
  <2> HIDE DEF x
  <2>3. (x \div SlotCount) \in 0 .. 1 - 1 /\ x = (SlotCount * (x \div SlotCount)) + (x % SlotCount)
    BY <1>2, <2>1, Division
  <2>4. (x \div SlotCount) = 0
    BY <2>3
  <2>5. (x % SlotCount) = x
    <3>1. x = (SlotCount * 0) + (x % SlotCount) /\ (x % SlotCount) \in Int
      BY <1>2, <2>2, <2>3, <2>4
    <3> QED
      BY <1>2, <2>2, <3>1
  <2>6. SlotAt(d, c, k) = <<chain[(x \div SlotCount) + 1], (x % SlotCount) + 1>>
    BY <1>5 DEF x
  <2> QED
    BY <1>1, <2>2, <2>4, <2>5, <2>6
<1>8. ASSUME NEW k \in 1 .. n, SlotAt(d, c, k)[1] = c
      PROVE  k \in 1 .. SlotCount
  <2> DEFINE x == k - 1
             q == x \div SlotCount
             r == x % SlotCount
  <2>1. x \in Nat /\ x < SlotCount * m /\ x + 1 = k
    BY <1>2
  <2>2. SlotAt(d, c, k)[1] = chain[q + 1]
    <3>1. SlotAt(d, c, k) = <<chain[q + 1], r + 1>>
      BY <1>2, <1>5
    <3> HIDE DEF q, r
    <3> QED
      BY <3>1
  <2> HIDE DEF x
  <2>3. q \in 0 .. m - 1 /\ r \in 0 .. SlotCount - 1 /\ x = (SlotCount * q) + r
    BY <1>1, <1>2, <2>1, Division
  <2> HIDE DEF q, r
  <2>4. q + 1 \in 1 .. m /\ 1 \in 1 .. m
    BY <1>1, <2>3
  <2>5. q + 1 = 1
    BY <1>1, <1>4, <1>8, <2>2, <2>4
  <2>6. x = (SlotCount * 0) + r
    BY <2>3, <2>5
  <2> QED
    BY <1>2, <2>1, <2>3, <2>6
<1> QED
  BY <1>2, <1>3, <1>6, <1>7, <1>8 DEF m

\* The chains stay when the FAT does.
LEMMA SameChains ==
  ASSUME NEW d \in Disks, NEW e \in Disks, e.fat[1] = d.fat[1], NEW c \in {0} \cup Clusters,
         ProperChain(d, Chain(d, c))
  PROVE  Chain(e, c) = Chain(d, c) /\ ProperChain(e, Chain(e, c))
<1>1. Len(Chain(d, c)) <= TotalClusters /\ \A x \in Range(Chain(d, c)) : d.fat[1][x] # 0
  BY ProperIs
<1>2. Chain(e, c) = Chain(d, c)
  BY <1>1, ChainFrame
<1> QED
  BY <1>1, <1>2, ProperIs

\* A disk stays well formed when entries are deleted.
LEMMA Fewer ==
  ASSUME NEW d \in Disks, NEW e \in Disks, WellFormed(d), e.fat[1] = d.fat[1],
         \A t \in Places : /\ Used(EntryAt(e, t)) => EntryAt(e, t) = EntryAt(d, t)
                           /\ EntryAt(e, t).name[1] = END => EntryAt(d, t).name[1] = END
  PROVE  WellFormed(e)
<1>1. /\ DirChains(d) /\ DirEnds(d) /\ OwnChains(d) /\ SlotsTaken(d) /\ DirStarts(d) \subseteq {0} \cup Clusters
      /\ root_cluster \in DirStarts(d) /\ \A s \in Dirs(d) : EntryAt(d, s).first_cluster \in DirStarts(d)
      /\ \A s \in Files(d) : FileHolds(d, s) /\ FileApart(d, s)
  BY WellFormedIs, SlotSets
<1>2. \A t \in UsedSlots(e) : t \in UsedSlots(d) /\ t \in Places /\ EntryAt(e, t) = EntryAt(d, t)
  BY SlotSets
<1>3. \A t \in Files(e) : t \in UsedSlots(e) /\ t \in Files(d)
  BY <1>2, SlotSets
<1>4. \A t \in Dirs(e) : t \in UsedSlots(e) /\ t \in Dirs(d)
  BY <1>2, SlotSets
<1>5. \A t \in OwnDirs(e) : t \in Dirs(e) /\ t \in OwnDirs(d)
  BY <1>2, <1>4, SlotSets
<1>6. DirStarts(e) \subseteq DirStarts(d) /\ \A s \in Dirs(e) : EntryAt(e, s).first_cluster \in DirStarts(d)
  <2>1. \A s \in Dirs(e) : EntryAt(e, s).first_cluster \in DirStarts(d)
    BY <1>1, <1>2, <1>4
  <2> QED
    BY <1>1, <2>1 DEF DirStarts
<1>7. \A b \in DirStarts(d) : Chain(e, b) = Chain(d, b) /\ ProperChain(e, Chain(e, b))
  BY <1>1, SameChains DEF DirChains
<1>8. \A s \in Dirs(e) : ChainAt(e, s) = ChainAt(d, s)
  BY <1>2, <1>4, <1>6, <1>7 DEF ChainAt
<1>9. \A s \in Files(e) : ChainAt(e, s) = ChainAt(d, s) /\ ProperChain(e, ChainAt(e, s))
  <2> SUFFICES ASSUME NEW s \in Files(e)
               PROVE  ChainAt(e, s) = ChainAt(d, s) /\ ProperChain(e, ChainAt(e, s))
    OBVIOUS
  <2>1. s \in Files(d) /\ s \in Places /\ EntryAt(e, s) = EntryAt(d, s)
    BY <1>2, <1>3
  <2>2. EntryAt(d, s).first_cluster \in {0} \cup Clusters /\ ProperChain(d, Chain(d, EntryAt(d, s).first_cluster))
    BY <1>1, <2>1, EntryIs DEF FileHolds, ChainAt
  <2>3. /\ Chain(e, EntryAt(d, s).first_cluster) = Chain(d, EntryAt(d, s).first_cluster)
        /\ ProperChain(e, Chain(e, EntryAt(d, s).first_cluster))
    BY <2>2, SameChains
  <2> QED
    BY <2>1, <2>3 DEF ChainAt
<1>10. DirChains(e)
  BY <1>1, <1>6, <1>7 DEF DirChains
<1>11. DirEnds(e)
  <2> SUFFICES ASSUME NEW b \in DirStarts(e), NEW j \in DOMAIN AllSlots(e, b), NEW i \in 1 .. j - 1,
                      AllSlots(e, b)[i].name[1] = END, Used(AllSlots(e, b)[j])
               PROVE  FALSE
    BY DEF DirEnds
  <2>1. b \in DirStarts(d) /\ b \in {0} \cup Clusters /\ Chain(e, b) = Chain(d, b)
    BY <1>1, <1>6, <1>7
  <2>2. Len(AllSlots(e, b)) = Len(AllSlots(d, b)) /\ \A k : SlotAt(e, b, k) = SlotAt(d, b, k)
    BY <2>1, SlotAtIs DEF SlotAt
  <2>3. /\ j \in 1 .. Len(AllSlots(e, b)) /\ i \in 1 .. Len(AllSlots(e, b))
        /\ j \in DOMAIN AllSlots(d, b)
    <3>1. /\ DOMAIN AllSlots(e, b) = 1 .. Len(AllSlots(e, b)) /\ DOMAIN AllSlots(d, b) = 1 .. Len(AllSlots(d, b))
          /\ Len(AllSlots(e, b)) \in Nat
      BY <2>1, SlotAtIs
    <3> QED
      BY <2>2, <3>1
  <2>4. AllSlots(d, b)[i].name[1] = END
    BY <2>1, <2>2, <2>3, SlotAtIs
  <2>5. Used(AllSlots(d, b)[j])
    BY <2>1, <2>2, <2>3, SlotAtIs
  <2> QED
    BY <1>1, <2>1, <2>3, <2>4, <2>5 DEF DirEnds
<1>12. OwnChains(e)
  <2>1. Chain(e, root_cluster) = Chain(d, root_cluster)
    BY <1>1, <1>7
  <2> QED
    BY <1>1, <1>2, <1>4, <1>5, <1>8, <2>1 DEF OwnChains
<1>13. SlotsTaken(e)
  BY <1>1, <1>2 DEF SlotsTaken
<1>14. ASSUME NEW s \in Files(e)
       PROVE  FileHolds(e, s) /\ FileApart(e, s)
  <2>1. s \in Files(d) /\ EntryAt(e, s) = EntryAt(d, s) /\ ChainAt(e, s) = ChainAt(d, s)
    BY <1>2, <1>3, <1>9
  <2>2. FileHolds(e, s)
    BY <1>1, <1>9, <2>1 DEF FileHolds
  <2>3. \A c \in DirStarts(e) : Disjoint(ChainAt(e, s), Chain(e, c))
    BY <1>1, <1>6, <1>7, <2>1 DEF FileApart
  <2>4. \A t \in Files(e) \ {s} : Disjoint(ChainAt(e, s), ChainAt(e, t))
    BY <1>1, <1>3, <1>9, <2>1 DEF FileApart
  <2>5. \A t \in UsedSlots(e) : t[1] \notin Range(ChainAt(e, s))
    BY <1>1, <1>2, <2>1 DEF FileApart
  <2> QED
    BY <2>2, <2>3, <2>4, <2>5 DEF FileApart
<1> QED
  BY <1>10, <1>11, <1>12, <1>13, <1>14, WellFormedIs

\* An entry is made in a slot of the first cluster of a directory, behind used
\* ones: of an empty file, or of a directory that is one already but for no
\* entry of its own.
Joins(d, n) ==
  \/ n.attributes = ATTR_ARCHIVE /\ n.first_cluster = 0
  \/ /\ n.attributes = ATTR_DIRECTORY /\ n.first_cluster \in DirStarts(d)
     /\ Disjoint(Chain(d, n.first_cluster), Chain(d, root_cluster))
     /\ \A t \in OwnDirs(d) : Disjoint(Chain(d, n.first_cluster), ChainAt(d, t))
EntryPut(d, e, c, i) ==
  /\ e.fat[1] = d.fat[1] /\ ~Used(EntryAt(d, <<c, i>>)) /\ Used(EntryAt(e, <<c, i>>))
  /\ \A j \in 1 .. i - 1 : Used(EntryAt(d, <<c, j>>))
  /\ \A t \in Places : t # <<c, i>> => EntryAt(e, t) = EntryAt(d, t)
  /\ EntryAt(e, <<c, i>>).file_size = 0 /\ Joins(d, EntryAt(e, <<c, i>>))

\* A directory whose chain has a cluster starts there if another one does.
LEMMA StartOfChain ==
  ASSUME NEW d \in Disks, DirChains(d), NEW b \in DirStarts(d), NEW c \in DirStarts(d), c \in Clusters,
         c \in Range(Chain(d, b))
  PROVE  Chain(d, b) = Chain(d, c) /\ Len(Chain(d, c)) <= TotalClusters
<1> DEFINE s == Chain(d, c)
<1>1. c \in {0} \cup Clusters /\ c # 0 /\ s = Chain(d, c)
  BY DEF Clusters
<1>2. Chain(d, b) = s \/ Disjoint(Chain(d, b), s)
  BY DEF DirChains
<1>3. ProperChain(d, s)
  BY DEF DirChains
<1> HIDE DEF s
<1>4. Range(s) = {s[k] : k \in 1 .. Len(s)} /\ Len(s) \in Nat
  BY <1>1, ChainHas
<1>5. Len(s) >= 1 /\ s[1] = c
  BY <1>1, ChainHas
<1>6. c \in Range(s)
  BY <1>4, <1>5
<1>7. Chain(d, b) = s
  BY <1>2, <1>6 DEF Disjoint
<1>8. Len(s) <= TotalClusters
  BY <1>3 DEF ProperChain
<1> QED
  BY <1>7, <1>8 DEF s

\* No used slot is behind the end of a directory when one is put before it.
LEMMA EndsKept ==
  ASSUME NEW d \in Disks, NEW e \in Disks, DirChains(d), DirEnds(d),
         NEW c \in Clusters, c \in DirStarts(d), NEW i \in 1 .. SlotCount, EntryPut(d, e, c, i),
         NEW b \in DirStarts(d)
  PROVE  \A j \in DOMAIN AllSlots(e, b) : \A k \in 1 .. j - 1 :
           AllSlots(e, b)[k].name[1] = END => ~Used(AllSlots(e, b)[j])
<1> SUFFICES ASSUME NEW j \in DOMAIN AllSlots(e, b), NEW k \in 1 .. j - 1,
                    AllSlots(e, b)[k].name[1] = END, Used(AllSlots(e, b)[j])
             PROVE  FALSE
  OBVIOUS
<1>1. b \in {0} \cup Clusters /\ Chain(e, b) = Chain(d, b)
  <2>1. b \in {0} \cup Clusters
    BY SlotSets
  <2> QED
    BY <2>1, SameChains DEF DirChains, EntryPut
<1>2. Len(AllSlots(e, b)) = Len(AllSlots(d, b)) /\ \A n : SlotAt(e, b, n) = SlotAt(d, b, n)
  BY <1>1, SlotAtIs DEF SlotAt
<1>3. /\ j \in 1 .. Len(AllSlots(e, b)) /\ k \in 1 .. Len(AllSlots(e, b))
      /\ j \in DOMAIN AllSlots(d, b) /\ j \in Nat /\ k \in Nat /\ k < j
  <2>1. /\ DOMAIN AllSlots(e, b) = 1 .. Len(AllSlots(e, b)) /\ DOMAIN AllSlots(d, b) = 1 .. Len(AllSlots(d, b))
        /\ Len(AllSlots(e, b)) \in Nat
    BY <1>1, SlotAtIs
  <2> QED
    BY <1>2, <2>1
<1> DEFINE s == SlotAt(d, b, k)
           t == SlotAt(d, b, j)
<1>4. s \in Places /\ t \in Places /\ t[1] \in Range(Chain(d, b))
  BY <1>1, <1>2, <1>3, SlotAtIs
<1>5. EntryAt(e, s).name[1] = END /\ Used(EntryAt(e, t))
  BY <1>1, <1>2, <1>3, SlotAtIs
<1>6. AllSlots(d, b)[k] = EntryAt(d, s) /\ AllSlots(d, b)[j] = EntryAt(d, t)
  BY <1>1, <1>2, <1>3, SlotAtIs
<1> HIDE DEF s, t
<1>7. ~Used(EntryAt(e, s))
  BY <1>5 DEF Used
<1>8. s # <<c, i>> /\ EntryAt(e, s) = EntryAt(d, s)
  BY <1>4, <1>7 DEF EntryPut
<1>9. CASE t # <<c, i>>
  <2>1. EntryAt(e, t) = EntryAt(d, t)
    BY <1>4, <1>9 DEF EntryPut
  <2> QED
    BY <1>3, <1>5, <1>6, <1>8, <2>1 DEF DirEnds
<1>10. CASE t = <<c, i>>
  <2>1. Chain(d, b) = Chain(d, c) /\ Len(Chain(d, c)) <= TotalClusters
    BY <1>4, <1>10, StartOfChain
  <2>2. \A n : SlotAt(d, b, n) = SlotAt(d, c, n)
    BY <2>1 DEF SlotAt
  <2>3. Len(AllSlots(d, b)) = Len(AllSlots(d, c))
    BY <1>1, <2>1, SlotAtIs
  <2>4. SlotAt(d, c, j)[1] = c /\ j \in 1 .. Len(AllSlots(d, c))
    BY <1>2, <1>3, <1>10, <2>2, <2>3 DEF t
  <2>5. j \in 1 .. SlotCount /\ SlotCount \in Nat
    BY <2>1, <2>4, FirstSlots
  <2>6. \A n \in 1 .. SlotCount : SlotAt(d, c, n) = <<c, n>>
    BY <2>1, FirstSlots
  <2>7. t = <<c, j>> /\ k \in 1 .. SlotCount
    BY <1>3, <2>2, <2>5, <2>6 DEF t
  <2>8. s = <<c, k>>
    BY <2>2, <2>6, <2>7 DEF s
  <2>9. k \in 1 .. i - 1
    BY <1>3, <1>10, <2>7
  <2> QED
    BY <1>7, <1>8, <2>8, <2>9 DEF EntryPut
<1> QED
  BY <1>9, <1>10

\* The disk stays well formed.
LEMMA EntryMade ==
  ASSUME NEW d \in Disks, NEW e \in Disks, WellFormed(d),
         NEW c \in Clusters, c \in DirStarts(d), NEW i \in 1 .. SlotCount, EntryPut(d, e, c, i)
  PROVE  WellFormed(e)
<1> DEFINE s == <<c, i>>
           n == EntryAt(e, s)
<1>1. /\ DirChains(d) /\ DirEnds(d) /\ OwnChains(d) /\ SlotsTaken(d) /\ DirStarts(d) \subseteq {0} \cup Clusters
      /\ root_cluster \in DirStarts(d) /\ \A t \in Dirs(d) : EntryAt(d, t).first_cluster \in DirStarts(d)
      /\ \A t \in Files(d) : FileHolds(d, t) /\ FileApart(d, t)
  BY WellFormedIs, SlotSets
<1>2. /\ s \in Places /\ s[1] = c /\ ~Used(EntryAt(d, s)) /\ Used(n) /\ n.file_size = 0 /\ Joins(d, n)
      /\ e.fat[1] = d.fat[1] /\ \A t \in Places : t # s => EntryAt(e, t) = EntryAt(d, t)
  BY DEF EntryPut, Places
<1> HIDE DEF s, n
<1>3. \A t \in Places : t # s => EntryAt(e, t) = EntryAt(d, t)
  BY <1>2
<1>4. n = EntryAt(e, s) /\ ATTR_ARCHIVE # ATTR_DIRECTORY /\ ATTR_ARCHIVE # ATTR_VOLUME_ID
  BY DEF n, ATTR_ARCHIVE, ATTR_DIRECTORY, ATTR_VOLUME_ID
<1>5. s \notin UsedSlots(d) /\ s \notin Files(d) /\ s \notin Dirs(d) /\ s \notin OwnDirs(d)
  BY <1>2, SlotSets
<1>6. \A t \in UsedSlots(e) : t \in Places /\ (t = s \/ (t \in UsedSlots(d) /\ EntryAt(e, t) = EntryAt(d, t)))
  BY <1>3, SlotSets
<1>7. \A t \in Files(e) : /\ t \in Places
                          /\ t = s \/ (t \in Files(d) /\ t # s /\ EntryAt(e, t) = EntryAt(d, t))
  BY <1>3, <1>5, SlotSets
<1>8. \A t \in Dirs(e) : t = s \/ (t \in Dirs(d) /\ t # s /\ EntryAt(e, t) = EntryAt(d, t))
  BY <1>3, <1>5, SlotSets
<1>9. \A t \in OwnDirs(e) : t \in Dirs(e) /\ (t = s \/ (t \in OwnDirs(d) /\ t # s /\ EntryAt(e, t) = EntryAt(d, t)))
  BY <1>3, <1>5, <1>8, SlotSets
<1>10. s \in Dirs(e) => /\ n.first_cluster \in DirStarts(d)
                        /\ Disjoint(Chain(d, n.first_cluster), Chain(d, root_cluster))
                        /\ \A t \in OwnDirs(d) : Disjoint(Chain(d, n.first_cluster), ChainAt(d, t))
  BY <1>2, <1>4, SlotSets DEF Joins
<1>11. s \in Files(e) => n.first_cluster = 0
  BY <1>2, <1>4, SlotSets DEF Joins
<1>12. DirStarts(e) \subseteq DirStarts(d) /\ \A t \in Dirs(e) : EntryAt(e, t).first_cluster \in DirStarts(d)
  <2>1. \A t \in Dirs(e) : EntryAt(e, t).first_cluster \in DirStarts(d)
    BY <1>1, <1>4, <1>8, <1>10
  <2> QED
    BY <1>1, <2>1 DEF DirStarts
<1>13. \A b \in DirStarts(d) : Chain(e, b) = Chain(d, b) /\ ProperChain(e, Chain(e, b))
  BY <1>1, <1>2, SameChains DEF DirChains
<1>14. \A t \in Dirs(e) : ChainAt(e, t) = Chain(d, EntryAt(e, t).first_cluster)
  BY <1>12, <1>13 DEF ChainAt
<1>15. \A t \in OwnDirs(d) : t # s => ChainAt(e, t) = ChainAt(d, t)
  <2> SUFFICES ASSUME NEW t \in OwnDirs(d), t # s PROVE ChainAt(e, t) = ChainAt(d, t)
    OBVIOUS
  <2>1. t \in Dirs(d) /\ t \in Places
    BY SlotSets
  <2> QED
    BY <1>1, <1>3, <1>13, <2>1 DEF ChainAt
<1>16. \A t \in Files(d) : t # s => ChainAt(e, t) = ChainAt(d, t) /\ ProperChain(e, ChainAt(e, t))
  <2> SUFFICES ASSUME NEW t \in Files(d), t # s
               PROVE  ChainAt(e, t) = ChainAt(d, t) /\ ProperChain(e, ChainAt(e, t))
    OBVIOUS
  <2>1. t \in Places
    BY SlotSets
  <2>2. EntryAt(e, t) = EntryAt(d, t)
    BY <1>3, <2>1
  <2>3. EntryAt(d, t).first_cluster \in {0} \cup Clusters /\ ProperChain(d, Chain(d, EntryAt(d, t).first_cluster))
    BY <1>1, <2>1, EntryIs DEF FileHolds, ChainAt
  <2>4. /\ Chain(e, EntryAt(d, t).first_cluster) = Chain(d, EntryAt(d, t).first_cluster)
        /\ ProperChain(e, Chain(e, EntryAt(d, t).first_cluster))
    BY <1>2, <2>3, SameChains
  <2> QED
    BY <2>2, <2>4 DEF ChainAt
<1>17. DirChains(e)
  BY <1>1, <1>12, <1>13 DEF DirChains
<1>18. DirEnds(e)
  BY <1>1, <1>12, EndsKept DEF DirEnds
<1>19. OwnChains(e)
  <2>1. Chain(e, root_cluster) = Chain(d, root_cluster)
    BY <1>1, <1>13
  <2>2. s \in Dirs(e) => ChainAt(e, s) = Chain(d, n.first_cluster)
    BY <1>4, <1>14
  <2>3. \A t \in OwnDirs(e) : Disjoint(ChainAt(e, t), Chain(e, root_cluster))
    BY <1>1, <1>9, <1>10, <1>15, <2>1, <2>2 DEF OwnChains
  <2>4. ASSUME NEW t \in OwnDirs(e), NEW u \in OwnDirs(e) \ {t}
        PROVE  Disjoint(ChainAt(e, t), ChainAt(e, u))
    <3>1. CASE t = s
      <4>1. u \in OwnDirs(d) /\ u # s
        BY <1>9, <3>1
      <4> QED
        BY <1>9, <1>10, <1>15, <2>2, <3>1, <4>1
    <3>2. CASE u = s
      <4>1. t \in OwnDirs(d) /\ t # s
        BY <1>9, <3>2
      <4> QED
        BY <1>9, <1>10, <1>15, <2>2, <3>2, <4>1 DEF Disjoint
    <3>3. CASE t # s /\ u # s
      BY <1>1, <1>9, <1>15, <3>3 DEF OwnChains
    <3> QED
      BY <3>1, <3>2, <3>3
  <2>5. \A t \in Dirs(e) : EntryAt(e, t).file_size = 0
    BY <1>1, <1>2, <1>4, <1>8 DEF OwnChains
  <2> QED
    BY <2>3, <2>4, <2>5 DEF OwnChains
<1>20. SlotsTaken(e)
  <2>1. d.fat[1][c] # 0
    <3>1. c # 0 /\ c \in {0} \cup Clusters
      BY DEF Clusters
    <3> DEFINE r == Chain(d, c)
    <3>2. r = Chain(d, c) /\ \A x \in Range(r) : d.fat[1][x] # 0
      BY <1>1, <3>1, ProperIs DEF DirChains
    <3> HIDE DEF r
    <3>3. Range(r) = {r[k] : k \in 1 .. Len(r)} /\ Len(r) \in Nat
      BY <3>1, <3>2, ChainHas
    <3>4. Len(r) >= 1 /\ r[1] = c
      BY <3>1, <3>2, ChainHas
    <3>5. c \in Range(r)
      BY <3>3, <3>4
    <3> QED
      BY <3>2, <3>5
  <2> QED
    BY <1>1, <1>2, <1>6, <2>1 DEF SlotsTaken
<1>21. ASSUME NEW t \in Files(e)
       PROVE  FileHolds(e, t) /\ FileApart(e, t)
  <2>1. CASE t = s
    <3>1. ChainAt(e, t) = <<>> /\ EntryAt(e, t).first_cluster = 0
      BY <1>4, <1>11, <2>1 DEF ChainAt, Chain
    <3>2. Len(<<>>) = 0 /\ Range(<<>>) = {} /\ DOMAIN <<>> = {}
      BY EmptySeq DEF Range
    <3>3. EntryAt(e, t).file_size = 0 /\ ClusterSize \in Nat /\ TotalClusters \in Nat
      BY <1>2, <1>4, <2>1, DiskAssumption
    <3>4. FileHolds(e, t)
      BY <3>1, <3>2, <3>3 DEF FileHolds, ProperChain, Holds
    <3> QED
      BY <3>1, <3>2, <3>4 DEF FileApart, Disjoint
  <2>2. CASE t # s
    <3>1. t \in Files(d) /\ EntryAt(e, t) = EntryAt(d, t) /\ ChainAt(e, t) = ChainAt(d, t)
      BY <1>7, <1>16, <2>2
    <3>2. FileHolds(e, t)
      BY <1>1, <1>16, <2>2, <3>1 DEF FileHolds
    <3>3. \A b \in DirStarts(e) : Disjoint(ChainAt(e, t), Chain(e, b))
      BY <1>1, <1>12, <1>13, <3>1 DEF FileApart
    <3>4. \A u \in Files(e) \ {t} : Disjoint(ChainAt(e, t), ChainAt(e, u))
      <4> SUFFICES ASSUME NEW u \in Files(e) \ {t} PROVE Disjoint(ChainAt(e, t), ChainAt(e, u))
        OBVIOUS
      <4>1. CASE u = s
        <5>1. ChainAt(e, u) = <<>>
          BY <1>4, <1>11, <4>1 DEF ChainAt, Chain
        <5>2. Range(<<>>) = {}
          BY EmptySeq DEF Range
        <5> QED
          BY <5>1, <5>2 DEF Disjoint
      <4>2. CASE u # s
        BY <1>1, <1>7, <1>16, <3>1, <4>2 DEF FileApart
      <4> QED
        BY <4>1, <4>2
    <3>5. \A u \in UsedSlots(e) : u[1] \notin Range(ChainAt(e, t))
      <4> SUFFICES ASSUME NEW u \in UsedSlots(e) PROVE u[1] \notin Range(ChainAt(e, t))
        OBVIOUS
      <4>1. CASE u = s
        <5> DEFINE r == Chain(d, c)
        <5>1. r = Chain(d, c) /\ c # 0 /\ c \in {0} \cup Clusters /\ Disjoint(ChainAt(d, t), r)
          BY <1>1, <3>1 DEF FileApart, Clusters
        <5> HIDE DEF r
        <5>2. Range(r) = {r[k] : k \in 1 .. Len(r)} /\ Len(r) \in Nat
          BY <5>1, ChainHas
        <5>3. Len(r) >= 1 /\ r[1] = c
          BY <5>1, ChainHas
        <5>4. c \in Range(r)
          BY <5>2, <5>3
        <5> QED
          BY <1>2, <3>1, <4>1, <5>1, <5>4 DEF Disjoint
      <4>2. CASE u # s
        BY <1>1, <1>6, <3>1, <4>2 DEF FileApart
      <4> QED
        BY <4>1, <4>2
    <3> QED
      BY <3>2, <3>3, <3>4, <3>5 DEF FileApart
  <2> QED
    BY <2>1, <2>2
<1> QED
  BY <1>17, <1>18, <1>19, <1>20, <1>21, WellFormedIs

\* The entries of a new directory are written into a cluster that is marked as
\* the end and is nobody's.
DotsPut(d, e, new, parent) ==
  /\ e.fat[1] = d.fat[1] /\ d.fat[1][new] = FAT32_EOC
  /\ \A t \in Places : t[1] # new => EntryAt(e, t) = EntryAt(d, t)
  /\ \A k \in 1 .. SlotCount : EntryAt(e, <<new, k>>) = DotEntries(new, parent)[k]
  /\ \A t \in UsedSlots(d) : t[1] # new
  /\ \A b \in DirStarts(d) : new \notin Range(Chain(d, b))
  /\ \A t \in Files(d) : new \notin Range(ChainAt(d, t))

\* The two entries, and the rest of the cluster.
LEMMA DotsAre ==
  ASSUME NEW new, NEW parent
  PROVE  /\ DotEntries(new, parent)[1] = Entry(<<DOT, 0>>, ATTR_DIRECTORY, new, 0)
         /\ DotEntries(new, parent)[2] = Entry(<<DOT, DOT>>, ATTR_DIRECTORY, parent, 0)
         /\ \A k \in 1 .. SlotCount : k # 1 /\ k # 2 => DotEntries(new, parent)[k] = ZeroEntry
         /\ Used(Entry(<<DOT, 0>>, ATTR_DIRECTORY, new, 0)) /\ ~Used(ZeroEntry)
         /\ Used(Entry(<<DOT, DOT>>, ATTR_DIRECTORY, parent, 0))
         /\ SlotCount \in Nat /\ 1 \in 1 .. SlotCount /\ 2 \in 1 .. SlotCount
<1>1. SlotCount \in Nat /\ 1 \in 1 .. SlotCount /\ 2 \in 1 .. SlotCount
  BY DiskAssumption
<1>2. /\ Used(Entry(<<DOT, 0>>, ATTR_DIRECTORY, new, 0)) /\ ~Used(ZeroEntry)
      /\ Used(Entry(<<DOT, DOT>>, ATTR_DIRECTORY, parent, 0))
  BY DEF Used, Entry, ZeroEntry, DOT, END, DELETED
<1>3. /\ DotEntries(new, parent)[1] = Entry(<<DOT, 0>>, ATTR_DIRECTORY, new, 0)
      /\ DotEntries(new, parent)[2] = Entry(<<DOT, DOT>>, ATTR_DIRECTORY, parent, 0)
      /\ \A k \in 1 .. SlotCount : k # 1 /\ k # 2 => DotEntries(new, parent)[k] = ZeroEntry
  BY <1>1 DEF DotEntries, ZeroDir
<1> QED
  BY <1>1, <1>2, <1>3

\* The disk stays well formed, and the new cluster is a directory of its own.
LEMMA DotsMade ==
  ASSUME NEW d \in Disks, NEW e \in Disks, WellFormed(d), NEW new \in Clusters,
         NEW parent \in DirStarts(d), DotsPut(d, e, new, parent)
  PROVE  /\ WellFormed(e) /\ new \in DirStarts(e) /\ Chain(e, new) = <<new>>
         /\ \A b \in DirStarts(d) : b \in DirStarts(e) /\ Disjoint(<<new>>, Chain(e, b))
         /\ \A t \in OwnDirs(e) : Disjoint(<<new>>, ChainAt(e, t))
<1> DEFINE s1 == <<new, 1>>
           s2 == <<new, 2>>
           one == <<new>>
<1>1. /\ DirChains(d) /\ DirEnds(d) /\ OwnChains(d) /\ SlotsTaken(d) /\ DirStarts(d) \subseteq {0} \cup Clusters
      /\ root_cluster \in DirStarts(d) /\ \A t \in Dirs(d) : EntryAt(d, t).first_cluster \in DirStarts(d)
      /\ \A t \in Files(d) : FileHolds(d, t) /\ FileApart(d, t)
  BY WellFormedIs, SlotSets
<1>2. s1 \in Places /\ s2 \in Places /\ s1[1] = new /\ s2[1] = new
  BY DotsAre DEF Places
<1>3. /\ EntryAt(e, s1) = Entry(<<DOT, 0>>, ATTR_DIRECTORY, new, 0)
      /\ EntryAt(e, s2) = Entry(<<DOT, DOT>>, ATTR_DIRECTORY, parent, 0)
  BY DotsAre DEF DotsPut
<1>4. /\ EntryAt(e, s1).name[1] = DOT /\ EntryAt(e, s1).attributes = ATTR_DIRECTORY
      /\ EntryAt(e, s1).first_cluster = new /\ EntryAt(e, s1).file_size = 0
      /\ EntryAt(e, s2).name[1] = DOT /\ EntryAt(e, s2).attributes = ATTR_DIRECTORY
      /\ EntryAt(e, s2).first_cluster = parent /\ EntryAt(e, s2).file_size = 0
      /\ Used(EntryAt(e, s1)) /\ Used(EntryAt(e, s2))
  BY <1>3, DotsAre DEF Entry
<1>5. ASSUME NEW t \in Places, t[1] = new, t # s1, t # s2
      PROVE  ~Used(EntryAt(e, t))
  <2>1. t = <<new, t[2]>> /\ t[2] \in 1 .. SlotCount /\ t[2] # 1 /\ t[2] # 2
    BY <1>5, EntryIs
  <2>2. EntryAt(e, t) = ZeroEntry
    BY <2>1, DotsAre DEF DotsPut
  <2> QED
    BY <2>2, DotsAre
<1>6. one = <<new>> /\ Range(one) = {new}
  <2>1. one \in Seq(Clusters) /\ Len(one) = 1 /\ one[1] = new
    OBVIOUS
  <2> HIDE DEF one
  <2>2. DOMAIN one = 1 .. 1
    BY <2>1, LenProperties
  <2> QED
    BY <2>1, <2>2 DEF Range, one
<1> HIDE DEF s1, s2, one
<1>7. e.fat[1] = d.fat[1] /\ e.fat[1][new] = FAT32_EOC /\ FAT32_EOC # 0
  BY DEF DotsPut, FAT32_EOC
<1>8. Chain(e, new) = one /\ ProperChain(e, one) /\ new \in {0} \cup Clusters
  <2>1. Chain(e, new) = one
    BY <1>6, <1>7, ChainOfOne
  <2>2. Len(one) = 1 /\ TotalClusters \in Nat /\ TotalClusters >= 1
    BY <1>6, DiskAssumption
  <2>3. Len(one) <= TotalClusters /\ \A x \in Range(one) : e.fat[1][x] # 0
    BY <1>6, <1>7, <2>2
  <2> QED
    BY <2>1, <2>3, ProperIs
<1>9. \A t \in UsedSlots(e) : /\ t \in Places
                             /\ \/ t = s1 \/ t = s2
                                \/ t \in UsedSlots(d) /\ t[1] # new /\ EntryAt(e, t) = EntryAt(d, t)
  <2> SUFFICES ASSUME NEW t \in UsedSlots(e), t # s1, t # s2
               PROVE  t \in Places /\ t \in UsedSlots(d) /\ t[1] # new /\ EntryAt(e, t) = EntryAt(d, t)
    BY SlotSets
  <2>1. t \in Places /\ Used(EntryAt(e, t))
    BY SlotSets
  <2>2. t[1] # new
    BY <1>5, <2>1
  <2>3. EntryAt(e, t) = EntryAt(d, t)
    BY <2>1, <2>2 DEF DotsPut
  <2> QED
    BY <2>1, <2>2, <2>3, SlotSets
<1>10. \A t \in Files(e) : t \in Files(d) /\ EntryAt(e, t) = EntryAt(d, t)
  <2> SUFFICES ASSUME NEW t \in Files(e) PROVE t \in Files(d) /\ EntryAt(e, t) = EntryAt(d, t)
    OBVIOUS
  <2>1. t \in UsedSlots(e) /\ EntryAt(e, t).attributes \notin {ATTR_DIRECTORY, ATTR_VOLUME_ID}
    BY SlotSets
  <2>2. t # s1 /\ t # s2
    BY <1>4, <2>1
  <2> QED
    BY <1>9, <2>1, <2>2, SlotSets
<1>11. \A t \in Dirs(e) : \/ t = s1 \/ t = s2
                          \/ t \in Dirs(d) /\ EntryAt(e, t) = EntryAt(d, t)
  <2> SUFFICES ASSUME NEW t \in Dirs(e), t # s1, t # s2
               PROVE  t \in Dirs(d) /\ EntryAt(e, t) = EntryAt(d, t)
    OBVIOUS
  <2>1. t \in UsedSlots(e) /\ EntryAt(e, t).attributes = ATTR_DIRECTORY
    BY SlotSets
  <2> QED
    BY <1>9, <2>1, SlotSets
<1>12. \A t \in OwnDirs(e) : t \in Dirs(d) /\ t \in OwnDirs(d) /\ EntryAt(e, t) = EntryAt(d, t)
  <2> SUFFICES ASSUME NEW t \in OwnDirs(e)
               PROVE  t \in Dirs(d) /\ t \in OwnDirs(d) /\ EntryAt(e, t) = EntryAt(d, t)
    OBVIOUS
  <2>1. t \in Dirs(e) /\ EntryAt(e, t).name[1] # DOT
    BY SlotSets
  <2>2. t # s1 /\ t # s2
    BY <1>4, <2>1
  <2> QED
    BY <1>11, <2>1, <2>2, SlotSets
<1>13. new \in DirStarts(e) /\ \A b \in DirStarts(e) : b = new \/ b \in DirStarts(d)
  <2>1. s1 \in Dirs(e)
    BY <1>2, <1>4, SlotSets
  <2>2. new \in DirStarts(e)
    BY <1>4, <2>1, SlotSets
  <2>3. \A t \in Dirs(e) : EntryAt(e, t).first_cluster = new \/ EntryAt(e, t).first_cluster \in DirStarts(d)
    BY <1>1, <1>4, <1>11
  <2> QED
    BY <1>1, <2>2, <2>3 DEF DirStarts
<1>14. \A b \in DirStarts(d) : b \in DirStarts(e)
  <2>1. ASSUME NEW t \in Dirs(d)
        PROVE  t \in Dirs(e) /\ EntryAt(e, t) = EntryAt(d, t)
    <3>1. t \in UsedSlots(d) /\ t \in Places /\ EntryAt(d, t).attributes = ATTR_DIRECTORY
      BY SlotSets
    <3>2. EntryAt(e, t) = EntryAt(d, t)
      BY <3>1 DEF DotsPut
    <3> QED
      BY <3>1, <3>2, SlotSets
  <2> QED
    BY <2>1 DEF DirStarts
<1>15. \A b \in DirStarts(d) : /\ Chain(e, b) = Chain(d, b) /\ ProperChain(e, Chain(e, b))
                              /\ Disjoint(one, Chain(e, b)) /\ Disjoint(Chain(e, b), one)
  <2> SUFFICES ASSUME NEW b \in DirStarts(d)
               PROVE  /\ Chain(e, b) = Chain(d, b) /\ ProperChain(e, Chain(e, b))
                      /\ Disjoint(one, Chain(e, b)) /\ Disjoint(Chain(e, b), one)
    OBVIOUS
  <2>1. Chain(e, b) = Chain(d, b) /\ ProperChain(e, Chain(e, b))
    BY <1>1, <1>7, SameChains DEF DirChains
  <2>2. new \notin Range(Chain(d, b))
    BY DEF DotsPut
  <2> QED
    BY <1>6, <2>1, <2>2 DEF Disjoint
<1>16. \A t \in OwnDirs(e) : /\ ChainAt(e, t) = ChainAt(d, t) /\ Disjoint(one, ChainAt(e, t))
  BY <1>1, <1>12, <1>15 DEF ChainAt
<1>17. \A t \in Files(e) : ChainAt(e, t) = ChainAt(d, t) /\ ProperChain(e, ChainAt(e, t))
  <2> SUFFICES ASSUME NEW t \in Files(e)
               PROVE  ChainAt(e, t) = ChainAt(d, t) /\ ProperChain(e, ChainAt(e, t))
    OBVIOUS
  <2>1. t \in Files(d) /\ t \in Places /\ EntryAt(e, t) = EntryAt(d, t)
    BY <1>10, SlotSets
  <2>2. EntryAt(d, t).first_cluster \in {0} \cup Clusters /\ ProperChain(d, Chain(d, EntryAt(d, t).first_cluster))
    BY <1>1, <2>1, EntryIs DEF FileHolds, ChainAt
  <2>3. /\ Chain(e, EntryAt(d, t).first_cluster) = Chain(d, EntryAt(d, t).first_cluster)
        /\ ProperChain(e, Chain(e, EntryAt(d, t).first_cluster))
    BY <1>7, <2>2, SameChains
  <2> QED
    BY <2>1, <2>3 DEF ChainAt
<1>18. DirChains(e)
  <2> SUFFICES ASSUME NEW b \in DirStarts(e), NEW c \in DirStarts(e)
               PROVE  /\ ProperChain(e, Chain(e, b))
                      /\ Chain(e, b) = Chain(e, c) \/ Disjoint(Chain(e, b), Chain(e, c))
    BY DEF DirChains
  <2>1. CASE b = new /\ c = new
    BY <1>8, <2>1
  <2>2. CASE b = new /\ c # new
    BY <1>8, <1>13, <1>15, <2>2
  <2>3. CASE b # new /\ c = new
    BY <1>8, <1>13, <1>15, <2>3
  <2>4. CASE b # new /\ c # new
    BY <1>1, <1>13, <1>15, <2>4 DEF DirChains
  <2> QED
    BY <2>1, <2>2, <2>3, <2>4
<1>19. DirEnds(e)
  <2> SUFFICES ASSUME NEW b \in DirStarts(e), NEW j \in DOMAIN AllSlots(e, b), NEW i \in 1 .. j - 1,
                      AllSlots(e, b)[i].name[1] = END, Used(AllSlots(e, b)[j])
               PROVE  FALSE
    BY DEF DirEnds
  <2>1. b \in {0} \cup Clusters
    BY SlotSets
  <2>2. /\ j \in 1 .. Len(AllSlots(e, b)) /\ i \in 1 .. Len(AllSlots(e, b))
        /\ i \in Nat /\ j \in Nat /\ i < j
    <3>1. DOMAIN AllSlots(e, b) = 1 .. Len(AllSlots(e, b)) /\ Len(AllSlots(e, b)) \in Nat
      BY <2>1, SlotAtIs
    <3> QED
      BY <3>1
  <2>3. /\ AllSlots(e, b)[i] = EntryAt(e, SlotAt(e, b, i)) /\ SlotAt(e, b, i) \in Places
        /\ AllSlots(e, b)[j] = EntryAt(e, SlotAt(e, b, j)) /\ SlotAt(e, b, j) \in Places
        /\ SlotAt(e, b, i)[1] \in Range(Chain(e, b)) /\ SlotAt(e, b, j)[1] \in Range(Chain(e, b))
    BY <2>1, <2>2, SlotAtIs
  <2>4. CASE b = new
    <3>1. Len(Chain(e, new)) <= TotalClusters
      BY <1>8 DEF ProperChain
    <3>2. SlotAt(e, new, i)[1] = new /\ SlotAt(e, new, j)[1] = new
      BY <1>6, <1>8, <2>3, <2>4
    <3>3. i \in 1 .. SlotCount /\ j \in 1 .. SlotCount
      BY <2>2, <2>4, <3>1, <3>2, FirstSlots
    <3>4. SlotAt(e, new, i) = <<new, i>> /\ SlotAt(e, new, j) = <<new, j>>
      BY <3>1, <3>3, FirstSlots
    <3>5. ~Used(EntryAt(e, <<new, i>>))
      BY <2>3, <2>4, <3>4 DEF Used
    <3>6. i # 1 /\ i # 2
      BY <1>4, <3>5 DEF s1, s2
    <3>7. j # 1 /\ j # 2
      BY <2>2, <3>3, <3>6
    <3>8. EntryAt(e, <<new, j>>) = ZeroEntry
      BY <3>3, <3>7, DotsAre DEF DotsPut
    <3> QED
      BY <2>3, <2>4, <3>4, <3>8, DotsAre
  <2>5. CASE b # new
    <3>1. b \in DirStarts(d)
      BY <1>13, <2>5
    <3>2. Chain(e, b) = Chain(d, b) /\ new \notin Range(Chain(d, b))
      BY <1>15, <3>1 DEF DotsPut
    <3>3. Len(AllSlots(e, b)) = Len(AllSlots(d, b)) /\ \A k : SlotAt(e, b, k) = SlotAt(d, b, k)
      BY <2>1, <3>2, SlotAtIs DEF SlotAt
    <3>4. j \in DOMAIN AllSlots(d, b)
      BY <2>1, <2>2, <3>3, SlotAtIs
    <3>5. /\ EntryAt(e, SlotAt(e, b, i)) = EntryAt(d, SlotAt(d, b, i))
          /\ EntryAt(e, SlotAt(e, b, j)) = EntryAt(d, SlotAt(d, b, j))
      BY <2>3, <3>2, <3>3 DEF DotsPut
    <3>6. AllSlots(d, b)[i] = EntryAt(d, SlotAt(d, b, i)) /\ AllSlots(d, b)[j] = EntryAt(d, SlotAt(d, b, j))
      BY <2>1, <2>2, <3>3, SlotAtIs
    <3> QED
      BY <1>1, <2>3, <3>1, <3>4, <3>5, <3>6 DEF DirEnds
  <2> QED
    BY <2>4, <2>5
<1>20. OwnChains(e)
  <2>1. Chain(e, root_cluster) = Chain(d, root_cluster)
    BY <1>1, <1>15
  <2>2. \A t \in Dirs(e) : EntryAt(e, t).file_size = 0
    BY <1>1, <1>4, <1>11 DEF OwnChains
  <2>3. \A t \in OwnDirs(e) : /\ Disjoint(ChainAt(e, t), Chain(e, root_cluster))
                              /\ \A u \in OwnDirs(e) \ {t} : Disjoint(ChainAt(e, t), ChainAt(e, u))
    BY <1>1, <1>12, <1>16, <2>1 DEF OwnChains
  <2> QED
    BY <2>2, <2>3 DEF OwnChains
<1>21. SlotsTaken(e)
  BY <1>1, <1>2, <1>7, <1>9 DEF SlotsTaken
<1>22. ASSUME NEW t \in Files(e)
       PROVE  FileHolds(e, t) /\ FileApart(e, t)
  <2>1. t \in Files(d) /\ EntryAt(e, t) = EntryAt(d, t) /\ ChainAt(e, t) = ChainAt(d, t)
    BY <1>10, <1>17
  <2>2. new \notin Range(ChainAt(e, t))
    BY <2>1 DEF DotsPut
  <2>3. FileHolds(e, t)
    BY <1>1, <1>17, <2>1 DEF FileHolds
  <2>4. \A b \in DirStarts(e) : Disjoint(ChainAt(e, t), Chain(e, b))
    <3> SUFFICES ASSUME NEW b \in DirStarts(e) PROVE Disjoint(ChainAt(e, t), Chain(e, b))
      OBVIOUS
    <3>1. CASE b = new
      BY <1>6, <1>8, <2>2, <3>1 DEF Disjoint
    <3>2. CASE b # new
      BY <1>1, <1>13, <1>15, <2>1, <3>2 DEF FileApart
    <3> QED
      BY <3>1, <3>2
  <2>5. \A u \in Files(e) \ {t} : Disjoint(ChainAt(e, t), ChainAt(e, u))
    BY <1>1, <1>10, <1>17, <2>1 DEF FileApart
  <2>6. \A u \in UsedSlots(e) : u[1] \notin Range(ChainAt(e, t))
    BY <1>1, <1>2, <1>9, <2>1, <2>2 DEF FileApart
  <2> QED
    BY <2>3, <2>4, <2>5, <2>6 DEF FileApart
<1>23. WellFormed(e)
  BY <1>18, <1>19, <1>20, <1>21, <1>22, WellFormedIs
<1> QED
  BY <1>6, <1>8, <1>13, <1>14, <1>15, <1>16, <1>23

-----------------------------------------------------------------------------
(* The walk along a path *)

\* The handles of a walk, one after the other.
RootHandle == Handle(TRUE, root_cluster, 0, TRUE)
Walked(s, d, p) ==
  /\ s[0] = RootHandle /\ s[Len(p)] = fat32_open_file(d, p)
  /\ \A k \in 1 .. Len(p) : s[k] = Walk(s[k - 1], d, p[k])

\* Every walk has its handles: the path is gone along one name after the other.
LEMMA WalkSteps ==
  ASSUME NEW d \in Disks, NEW p \in Seq(Nat \X Nat)
  PROVE  \E s : Walked(s, d, p)
<1> DEFINE S == Opened
           n == Len(p)
           base == RootHandle
           F == [x \in S \X (1 .. n) |-> Walk(x[1], d, p[x[2]])]
<1>1. n \in Nat
  BY LenProperties
<1>2. base \in S
  <2>1. root_cluster \in {0} \cup Clusters /\ 0 \in 0 .. MaxSize
    BY DiskAssumption, Fat32Assumption DEF root_cluster, Clusters
  <2> QED
    BY <2>1, OpenedIs DEF RootHandle
<1>3. ASSUME NEW s \in S, NEW i \in 1 .. n
      PROVE  Walk(s, d, p[i]) \in S
  <2>1. s.start_cluster \in {0} \cup Clusters
    BY DEF Opened, Handles
  <2> QED
    BY <2>1, FoundTypes, EnterTypes DEF Walk
<1>4. F \in [S \X (1 .. n) -> S]
  BY <1>3
<1>5. \A s \in S, i \in 1 .. n : F[<<s, i>>] = Walk(s, d, p[i])
  OBVIOUS
<1> HIDE DEF F, S, base, n
<1>6. \E g : WalkFold(g, base, n, d, p)
  <2>1. PICK g \in [SUBSET (1 .. n) -> S] : IsFold(g, base, F, n)
    BY <1>1, <1>2, <1>4, FoldExists
  <2>2. ASSUME NEW t \in SUBSET (1 .. n), t # {}
        PROVE  F[<<g[t \ {Max(t)}], Max(t)>>] = Walk(g[t \ {Max(t)}], d, p[Max(t)])
    BY <1>1, <1>5, <2>1, <2>2, MaxIn
  <2>3. \A t \in SUBSET (1 .. n) : g[t] = IF t = {} THEN base ELSE Walk(g[t \ {Max(t)}], d, p[Max(t)])
    BY <2>1, <2>2 DEF IsFold
  <2>4. WalkFold(g, base, n, d, p)
    BY <2>1, <2>3 DEF WalkFold
  <2> QED
    BY <2>4
<1>7. PICK g : WalkFold(g, base, n, d, p) /\ fat32_open_file(d, p) = g[1 .. n]
  <2>1. fat32_open_file(d, p) = (CHOOSE g : WalkFold(g, base, n, d, p))[1 .. n]
    BY <1>1, WalkFoldIs DEF base, n, RootHandle
  <2> QED
    BY <1>6, <2>1
<1> DEFINE s == [k \in 0 .. n |-> g[1 .. k]]
<1>8. s[0] = base
  <2>1. g[1 .. 0] = base
    BY <1>7 DEF WalkFold
  <2> QED
    BY <1>1, <2>1
<1>9. s[n] = fat32_open_file(d, p)
  BY <1>1, <1>7
<1>10. ASSUME NEW k \in 1 .. n
       PROVE  s[k] = Walk(s[k - 1], d, p[k])
  <2>1. /\ 1 .. k \in SUBSET (1 .. n) /\ 1 .. k # {}
        /\ (1 .. k) \ {Max(1 .. k)} = 1 .. k - 1 /\ Max(1 .. k) = k
    BY <1>1, UpTo
  <2>2. g[1 .. k] = Walk(g[(1 .. k) \ {Max(1 .. k)}], d, p[Max(1 .. k)])
    BY <1>7, <2>1 DEF WalkFold
  <2>3. g[1 .. k] = Walk(g[1 .. k - 1], d, p[k])
    BY <2>1, <2>2
  <2>4. k \in 0 .. n /\ k - 1 \in 0 .. n
    BY <1>1
  <2> QED
    BY <2>3, <2>4
<1> HIDE DEF s
<1>11. Walked(s, d, p)
  BY <1>8, <1>9, <1>10 DEF Walked, base, n
<1> QED
  BY <1>11

\* The beginning of a path.
UpToPart(p, k) == SubSeq(p, 1, k)

\* The beginning of a path, its whole, and its front.
LEMMA PartIs ==
  ASSUME NEW p \in Seq(Nat \X Nat), NEW k \in 0 .. Len(p)
  PROVE  /\ UpToPart(p, k) \in Seq(Nat \X Nat) /\ Len(UpToPart(p, k)) = k /\ Len(p) \in Nat
         /\ \A i \in 1 .. k : UpToPart(p, k)[i] = p[i]
         /\ UpToPart(p, Len(p)) = p /\ Front(p) = UpToPart(p, Len(p) - 1)
<1>1. Len(p) \in Nat /\ k \in Int /\ k <= Len(p)
  BY LenProperties
<1>2. /\ UpToPart(p, k) \in Seq(Nat \X Nat) /\ Len(UpToPart(p, k)) = k
      /\ \A i \in 1 .. k : UpToPart(p, k)[i] = p[i]
  BY <1>1, Pieces DEF UpToPart
<1>3. UpToPart(p, Len(p)) = p
  <2> DEFINE q == UpToPart(p, Len(p))
  <2>1. q \in Seq(Nat \X Nat) /\ Len(q) = Len(p) /\ \A i \in 1 .. Len(p) : q[i] = p[i]
    BY <1>1, Pieces DEF UpToPart
  <2> HIDE DEF q
  <2>2. q = p
    BY <2>1, SeqEqual
  <2> QED
    BY <2>2 DEF q
<1> QED
  BY <1>1, <1>2, <1>3 DEF Front, UpToPart

\* A walk goes on from where the path before the last name leads.
LEMMA WalkIs ==
  ASSUME NEW d \in Disks, NEW p \in Seq(Nat \X Nat)
  PROVE  /\ fat32_open_file(d, UpToPart(p, 0)) = RootHandle
         /\ \A k \in 1 .. Len(p) :
              fat32_open_file(d, UpToPart(p, k)) = Walk(fat32_open_file(d, UpToPart(p, k - 1)), d, p[k])
<1>1. PICK s : Walked(s, d, p)
  BY WalkSteps
<1>2. Len(p) \in Nat
  BY LenProperties
<1>3. ASSUME NEW k \in 0 .. Len(p)
      PROVE  fat32_open_file(d, UpToPart(p, k)) = s[k]
  <2> DEFINE q == UpToPart(p, k)
  <2>1. q \in Seq(Nat \X Nat) /\ Len(q) = k /\ \A i \in 1 .. k : q[i] = p[i]
    BY PartIs
  <2> HIDE DEF q
  <2>2. PICK r : Walked(r, d, q)
    BY <2>1, WalkSteps
  <2> DEFINE T == {i \in Nat : i <= k => r[i] = s[i]}
  <2>3. 0 \in T
    BY <1>1, <2>2 DEF Walked
  <2>4. ASSUME NEW i \in 0 .. k - 1, i \in T
        PROVE  i + 1 \in T
    <3>0. i \in Nat /\ i <= k /\ i + 1 \in 1 .. k /\ i + 1 \in 1 .. Len(p) /\ (i + 1) - 1 = i
      BY <1>2
    <3>1. i \in Nat /\ i + 1 \in 1 .. k /\ i + 1 \in 1 .. Len(p) /\ (i + 1) - 1 = i /\ r[i] = s[i]
      BY <2>4, <3>0
    <3>2. r[i + 1] = Walk(r[(i + 1) - 1], d, q[i + 1])
      BY <2>1, <2>2, <3>1 DEF Walked
    <3>3. s[i + 1] = Walk(s[(i + 1) - 1], d, p[i + 1])
      BY <1>1, <3>1 DEF Walked
    <3>4. r[i + 1] = s[i + 1]
      BY <2>1, <3>1, <3>2, <3>3
    <3> QED
      BY <3>1, <3>4
  <2> HIDE DEF T
  <2>5. k \in Nat
    BY <1>2
  <2>6. \A i \in 0 .. k : i \in T
    BY <2>3, <2>4, <2>5, ByCounting
  <2>7. r[k] = s[k]
    BY <2>5, <2>6 DEF T
  <2> QED
    BY <2>1, <2>2, <2>7 DEF Walked, q
<1>4. fat32_open_file(d, UpToPart(p, 0)) = RootHandle
  <2>1. 0 \in 0 .. Len(p)
    BY <1>2
  <2> QED
    BY <1>1, <1>3, <2>1 DEF Walked
<1>5. ASSUME NEW k \in 1 .. Len(p)
      PROVE  fat32_open_file(d, UpToPart(p, k)) = Walk(fat32_open_file(d, UpToPart(p, k - 1)), d, p[k])
  <2>1. k \in 0 .. Len(p) /\ k - 1 \in 0 .. Len(p)
    BY <1>2
  <2>2. s[k] = Walk(s[k - 1], d, p[k])
    BY <1>1 DEF Walked
  <2> QED
    BY <1>3, <2>1, <2>2
<1> QED
  BY <1>4, <1>5

\* How many slots of a directory are looked at.
Looked(d, c, m) ==
  LET n == Len(AllSlots(d, c))
  IN  /\ m \in Nat
      /\ \A k \in 1 .. m : k <= n - 1 /\ AllSlots(d, c)[k].name[1] # END
      /\ m + 1 <= n - 1 => AllSlots(d, c)[m + 1].name[1] = END

\* They are the slots before the first that was never used, the last excepted.
LEMMA SlotsAre ==
  ASSUME NEW d \in Disks, NEW c \in {0} \cup Clusters
  PROVE  /\ Looked(d, c, Len(Slots(d, c)))
         /\ \A k \in 1 .. Len(Slots(d, c)) :
              /\ Slots(d, c)[k] = EntryAt(d, SlotAt(d, c, k)) /\ SlotAt(d, c, k) \in Places
              /\ SlotAt(d, c, k)[1] \in Range(Chain(d, c)) /\ k \in 1 .. Len(AllSlots(d, c))
<1> DEFINE all == AllSlots(d, c)
           front == Front(all)
           ends == {i \in DOMAIN front : front[i].name[1] = END}
           top == Len(front) + 1
           whole == ends \cup {top}
           m == Min(whole) - 1
<1>1. all \in Seq(Entries) /\ Len(all) \in Nat
  BY SlotTypes, LenProperties
<1> HIDE DEF all
<1>2. /\ front \in Seq(Entries) /\ Len(front) \in Nat /\ DOMAIN front = 1 .. Len(front)
      /\ Len(front) = IF Len(all) >= 1 THEN Len(all) - 1 ELSE 0
      /\ \A k \in 1 .. Len(front) : front[k] = all[k]
  <2>1. Len(all) - 1 \in Int /\ Len(all) - 1 <= Len(all) /\ 1 \in Nat \ {0}
    BY <1>1
  <2> DEFINE f == SubSeq(all, 1, Len(all) - 1)
  <2>2. f \in Seq(Entries)
    BY <1>1, <2>1, Pieces
  <2>3. Len(f) = IF 1 <= Len(all) - 1 THEN ((Len(all) - 1) - 1) + 1 ELSE 0
    BY <1>1, <2>1, Pieces
  <2>4. \A i \in 1 .. Len(f) : f[i] = all[(i + 1) - 1]
    BY <1>1, <2>1, Pieces
  <2>5. f = front
    BY DEF Front
  <2> HIDE DEF f
  <2>6. Len(f) = IF Len(all) >= 1 THEN Len(all) - 1 ELSE 0
    BY <1>1, <2>3
  <2>7. \A i \in 1 .. Len(f) : f[i] = all[i]
    <3> SUFFICES ASSUME NEW i \in 1 .. Len(f) PROVE f[i] = all[i]
      OBVIOUS
    <3>1. (i + 1) - 1 = i
      OBVIOUS
    <3> QED
      BY <2>4, <3>1
  <2> QED
    BY <2>2, <2>5, <2>6, <2>7, LenProperties
<1> HIDE DEF front
<1>3. ends \in SUBSET Nat /\ top \in Nat /\ \A i \in ends : i \in 1 .. Len(front)
  BY <1>2
<1>4. \A i : i \in ends <=> i \in 1 .. Len(front) /\ all[i].name[1] = END
  BY <1>2
<1> HIDE DEF ends
<1>5. top = Len(front) + 1
  OBVIOUS
<1> HIDE DEF top
<1>6. whole \in SUBSET Nat /\ whole # {} /\ \A i \in whole : i \in ends \/ i = top
  BY <1>3
<1>7. top \in whole /\ \A i \in ends : i \in whole
  OBVIOUS
<1> HIDE DEF whole
<1>8. Min(whole) \in whole /\ \A x \in whole : Min(whole) <= x
  BY <1>6, MinIs
<1>9. m \in Nat /\ Min(whole) = m + 1 /\ m <= Len(front)
  <2> DEFINE w == Min(whole)
  <2>3. Len(front) \in Nat /\ w <= top
    BY <1>2, <1>7, <1>8
  <2>4. w \in ends \/ w = top
    BY <1>6, <1>8
  <2> HIDE DEF w
  <2>5. w \in 1 .. Len(front) \/ w = top
    BY <1>3, <2>4
  <2>6. w \in Nat /\ w >= 1 /\ w <= Len(front) + 1
    BY <1>5, <2>3, <2>5
  <2>1. Min(whole) \in Nat /\ Min(whole) >= 1 /\ Min(whole) <= Len(front) + 1
    BY <2>6 DEF w
  <2> HIDE DEF m
  <2>2. m = Min(whole) - 1
    BY DEF m
  <2> QED
    BY <1>2, <2>1, <2>2
<1> DEFINE slots == Slots(d, c)
<1>10. slots = SubSeq(front, 1, m)
  BY DEF Slots, BeforeEnd, m, whole, top, ends, front, all
<1> HIDE DEF m, slots
<1>11. Len(slots) = m /\ \A k \in 1 .. m : slots[k] = front[k]
  <2>1. m \in Int /\ m <= Len(front) /\ 1 \in Nat \ {0}
    BY <1>9
  <2>2. Len(slots) = IF 1 <= m THEN (m - 1) + 1 ELSE 0
    BY <1>2, <1>10, <2>1, Pieces
  <2>3. \A i \in 1 .. Len(slots) : slots[i] = front[(i + 1) - 1]
    BY <1>2, <1>10, <2>1, Pieces
  <2>4. Len(slots) = m
    BY <1>9, <2>2
  <2> SUFFICES ASSUME NEW k \in 1 .. m PROVE slots[k] = front[k]
    BY <2>4
  <2>5. (k + 1) - 1 = k
    BY <1>9
  <2> QED
    BY <2>3, <2>4, <2>5
<1>12. ASSUME NEW k \in 1 .. m
       PROVE  /\ k \in 1 .. Len(front) /\ slots[k] = all[k] /\ k <= Len(all) - 1 /\ k \in 1 .. Len(all)
              /\ all[k].name[1] # END
  <2>1. k \in 1 .. Len(front) /\ k < m + 1 /\ k \in Nat
    <3>1. Len(front) \in Nat
      BY <1>2
    <3> QED
      BY <1>9, <3>1
  <2>2. k \notin ends
    <3>1. SUFFICES ASSUME k \in ends PROVE FALSE
      OBVIOUS
    <3>2. m + 1 <= k
      BY <1>7, <1>8, <1>9, <3>1
    <3> QED
      BY <1>9, <2>1, <3>2
  <2>3. all[k].name[1] # END
    BY <1>4, <2>1, <2>2
  <2>4. slots[k] = all[k]
    BY <1>2, <1>11, <2>1
  <2>5. k <= Len(all) - 1 /\ k \in 1 .. Len(all)
    BY <1>1, <1>2, <2>1
  <2> QED
    BY <2>1, <2>3, <2>4, <2>5
<1>13. ASSUME m + 1 <= Len(all) - 1
       PROVE  all[m + 1].name[1] = END
  <2>1. m + 1 # top
    BY <1>1, <1>2, <1>5, <1>9, <1>13
  <2>2. m + 1 \in ends
    BY <1>6, <1>8, <1>9, <2>1
  <2> QED
    BY <1>4, <2>2
<1>14. Looked(d, c, m)
  BY <1>9, <1>12, <1>13 DEF Looked, all
<1>15. ASSUME NEW k \in 1 .. m
       PROVE  /\ slots[k] = EntryAt(d, SlotAt(d, c, k)) /\ SlotAt(d, c, k) \in Places
              /\ SlotAt(d, c, k)[1] \in Range(Chain(d, c)) /\ k \in 1 .. Len(AllSlots(d, c))
  <2>1. k \in 1 .. Len(AllSlots(d, c)) /\ slots[k] = AllSlots(d, c)[k]
    BY <1>12 DEF all
  <2> QED
    BY <2>1, SlotAtIs
<1> QED
  BY <1>11, <1>14, <1>15 DEF slots

\* There is one such number.
LEMMA LookedOnce ==
  ASSUME NEW d \in Disks, NEW e \in Disks, NEW c \in {0} \cup Clusters, Chain(e, c) = Chain(d, c),
         \A t \in Places : EntryAt(e, t).name = EntryAt(d, t).name,
         NEW m, NEW n, Looked(d, c, m), Looked(e, c, n)
  PROVE  m = n
<1>1. /\ Len(AllSlots(e, c)) = Len(AllSlots(d, c)) /\ Len(AllSlots(d, c)) \in Nat
      /\ \A k : SlotAt(e, c, k) = SlotAt(d, c, k)
  BY SlotAtIs DEF SlotAt
<1>2. \A k \in 1 .. Len(AllSlots(d, c)) : AllSlots(e, c)[k].name = AllSlots(d, c)[k].name
  BY <1>1, SlotAtIs
<1> DEFINE l == Len(AllSlots(d, c))
<1> HIDE DEF l
<1>3. /\ m \in Nat /\ n \in Nat /\ l \in Nat
      /\ \A k \in 1 .. m : k <= l - 1 /\ AllSlots(d, c)[k].name[1] # END
      /\ \A k \in 1 .. n : k <= l - 1 /\ AllSlots(e, c)[k].name[1] # END
      /\ m + 1 <= l - 1 => AllSlots(d, c)[m + 1].name[1] = END
      /\ n + 1 <= l - 1 => AllSlots(e, c)[n + 1].name[1] = END
  BY <1>1 DEF Looked, l
<1>4. ~(m < n)
  <2>1. SUFFICES ASSUME m < n PROVE FALSE
    OBVIOUS
  <2>2. m + 1 \in 1 .. n /\ m + 1 \in Nat
    BY <1>3, <2>1
  <2>3. m + 1 <= l - 1 /\ AllSlots(e, c)[m + 1].name[1] # END
    BY <1>3, <2>2
  <2>4. m + 1 \in 1 .. l
    BY <1>3, <2>2, <2>3
  <2> QED
    BY <1>2, <1>3, <2>3, <2>4 DEF l
<1>5. ~(n < m)
  <2>1. SUFFICES ASSUME n < m PROVE FALSE
    OBVIOUS
  <2>2. n + 1 \in 1 .. m /\ n + 1 \in Nat
    BY <1>3, <2>1
  <2>3. n + 1 <= l - 1 /\ AllSlots(d, c)[n + 1].name[1] # END
    BY <1>3, <2>2
  <2>4. n + 1 \in 1 .. l
    BY <1>3, <2>2, <2>3
  <2> QED
    BY <1>2, <1>3, <2>3, <2>4 DEF l
<1> QED
  BY <1>3, <1>4, <1>5

\* The slots that a search stops at, and the first of them.
Matches(d, c, name, k) ==
  /\ k \in 1 .. Len(Slots(d, c)) /\ Used(EntryAt(d, SlotAt(d, c, k)))
  /\ EntryAt(d, SlotAt(d, c, k)).attributes # ATTR_VOLUME_ID /\ EntryAt(d, SlotAt(d, c, k)).name = name
FoundAt(d, c, name, i) ==
  Matches(d, c, name, i) /\ \A k \in 1 .. Len(Slots(d, c)) : Matches(d, c, name, k) => i <= k

\* fat32_find_file returns the first, or an entry that is not used.
LEMMA FoundIs ==
  ASSUME NEW d \in Disks, NEW c \in {0} \cup Clusters, NEW name
  PROVE  \/ /\ fat32_find_file(d, c, name) = ZeroEntry
            /\ \A k : ~Matches(d, c, name, k)
         \/ \E i \in 1 .. Len(Slots(d, c)) :
              /\ FoundAt(d, c, name, i) /\ SlotAt(d, c, i) \in Places
              /\ fat32_find_file(d, c, name) = EntryAt(d, SlotAt(d, c, i))
<1> DEFINE slots == Slots(d, c)
           I == {i \in 1 .. Len(slots) : Used(slots[i]) /\ slots[i].attributes # ATTR_VOLUME_ID
                                         /\ slots[i].name = name}
           k == IF I # {} THEN Min(I) ELSE 0
<1>1. slots \in Seq(Entries) /\ Len(slots) \in Nat
  BY ListedTypes, LenProperties
<1>2. fat32_find_file(d, c, name) = EntryOr(slots, k)
  BY DEF fat32_find_file, SelectInSeq
<1>3. /\ \A i \in 1 .. Len(slots) : slots[i] = EntryAt(d, SlotAt(d, c, i)) /\ SlotAt(d, c, i) \in Places
      /\ slots = Slots(d, c)
  BY SlotsAre
<1> HIDE DEF slots
<1>4. \A i : i \in I <=> Matches(d, c, name, i)
  BY <1>3 DEF Matches
<1>5. I \in SUBSET Nat /\ \A i \in I : i \in 1 .. Len(slots)
  BY <1>1
<1> HIDE DEF I
<1>6. CASE I = {}
  <2>1. fat32_find_file(d, c, name) = ZeroEntry
    BY <1>2, <1>6 DEF EntryOr
  <2> QED
    BY <1>4, <1>6, <2>1
<1>7. CASE I # {}
  <2> DEFINE i == Min(I)
  <2>1. i \in I /\ \A x \in I : i <= x
    BY <1>5, <1>7, MinIs
  <2>2. k = i
    BY <1>7
  <2> HIDE DEF i, k
  <2>3. i \in 1 .. Len(slots) /\ i # 0
    BY <1>1, <1>5, <2>1
  <2>4. fat32_find_file(d, c, name) = EntryAt(d, SlotAt(d, c, i)) /\ SlotAt(d, c, i) \in Places
    BY <1>2, <1>3, <2>2, <2>3 DEF EntryOr
  <2>5. FoundAt(d, c, name, i)
    BY <1>4, <2>1 DEF FoundAt
  <2> QED
    BY <1>3, <2>3, <2>4, <2>5
<1> QED
  BY <1>6, <1>7

\* There is one first.
LEMMA FoundOnce ==
  ASSUME NEW d \in Disks, NEW c \in {0} \cup Clusters, NEW name, NEW i, NEW j,
         FoundAt(d, c, name, i), FoundAt(d, c, name, j)
  PROVE  i = j
<1>1. Len(Slots(d, c)) \in Nat
  BY ListedTypes, LenProperties
<1> QED
  BY <1>1 DEF FoundAt, Matches

\* The k-th name of a path leads to a slot, and the path to a file.
DirHandle(c) == Handle(TRUE, c, 0, TRUE)
FileHandle(d, s) == Handle(TRUE, EntryAt(d, s).first_cluster, EntryAt(d, s).file_size, FALSE)

\* What the three kinds of handles say.
LEMMA KindsOf ==
  /\ ~NoFile.ctx /\ ~NoFile.is_dir /\ NoFile.start_cluster = 0 /\ NoFile.size = 0
  /\ \A c : /\ DirHandle(c).ctx /\ DirHandle(c).is_dir
           /\ DirHandle(c).start_cluster = c /\ DirHandle(c).current_cluster = c
  /\ \A d, s : /\ FileHandle(d, s).ctx /\ ~FileHandle(d, s).is_dir
              /\ FileHandle(d, s).start_cluster = EntryAt(d, s).first_cluster
              /\ FileHandle(d, s).current_cluster = EntryAt(d, s).first_cluster
              /\ FileHandle(d, s).size = EntryAt(d, s).file_size
              /\ FileHandle(d, s).file_offset = 0 /\ FileHandle(d, s).cluster_offset = 0
BY DEF NoFile, DirHandle, FileHandle, Handle

LeadsAt(d, p, k, s) ==
  LET h == fat32_open_file(d, UpToPart(p, k - 1))
  IN  /\ h.ctx /\ h.is_dir
      /\ \E i \in 1 .. Len(Slots(d, h.start_cluster)) :
           FoundAt(d, h.start_cluster, p[k], i) /\ s = SlotAt(d, h.start_cluster, i)
Leads(d, p, s) == s \in Files(d) /\ \E k \in 1 .. Len(p) : LeadsAt(d, p, k, s)

\* Where a walk may be.
OnWay(d, p, k, h) ==
  \/ h = NoFile
  \/ \E c \in DirStarts(d) : h = DirHandle(c)
  \/ \E s \in Files(d) : (\E j \in 1 .. k : LeadsAt(d, p, j, s)) /\ h = FileHandle(d, s)

\* What an entry that was found leads to, or one that was not.
Goes(d, c, name, w) ==
  \/ w = NoFile /\ \A k : ~Matches(d, c, name, k)
  \/ \E i \in 1 .. Len(Slots(d, c)) :
       /\ FoundAt(d, c, name, i) /\ SlotAt(d, c, i) \in Places
       /\ \/ SlotAt(d, c, i) \in Files(d) /\ w = FileHandle(d, SlotAt(d, c, i))
          \/ SlotAt(d, c, i) \in Dirs(d) /\ w = DirHandle(EntryAt(d, SlotAt(d, c, i)).first_cluster)

\* A step of a walk from a directory.
LEMMA Entered ==
  ASSUME NEW d \in Disks, NEW c \in DirStarts(d), NEW name, NEW h, h = DirHandle(c)
  PROVE  /\ h.ctx /\ h.is_dir /\ h.start_cluster = c /\ c \in {0} \cup Clusters
         /\ Goes(d, c, name, Walk(h, d, name))
<1>1. h.ctx /\ h.is_dir /\ h.start_cluster = c /\ c \in {0} \cup Clusters
  BY KindsOf, SlotSets
<1>2. Walk(h, d, name) = Enter(h, fat32_find_file(d, c, name))
  BY <1>1 DEF Walk
<1>3. CASE fat32_find_file(d, c, name) = ZeroEntry /\ \A k : ~Matches(d, c, name, k)
  <2>1. ~Used(ZeroEntry)
    BY DEF Used, ZeroEntry, Entry, END
  <2>2. Walk(h, d, name) = NoFile
    BY <1>2, <1>3, <2>1 DEF Enter
  <2> QED
    BY <1>1, <1>3, <2>2 DEF Goes
<1>4. ASSUME NEW i \in 1 .. Len(Slots(d, c)), FoundAt(d, c, name, i), SlotAt(d, c, i) \in Places,
             fat32_find_file(d, c, name) = EntryAt(d, SlotAt(d, c, i))
      PROVE  \/ SlotAt(d, c, i) \in Files(d) /\ Walk(h, d, name) = FileHandle(d, SlotAt(d, c, i))
             \/ /\ SlotAt(d, c, i) \in Dirs(d)
                /\ Walk(h, d, name) = DirHandle(EntryAt(d, SlotAt(d, c, i)).first_cluster)
  <2> DEFINE s == SlotAt(d, c, i)
             e == EntryAt(d, s)
  <2>1. Used(e) /\ e.attributes # ATTR_VOLUME_ID /\ s \in Places
    BY <1>4 DEF FoundAt, Matches
  <2>2. Walk(h, d, name) = Handle(TRUE, e.first_cluster, IF IsDir(e) THEN 0 ELSE e.file_size, IsDir(e))
    BY <1>2, <1>4, <2>1 DEF Enter
  <2> HIDE DEF s
  <2>3. CASE IsDir(e)
    <3>1. s \in Dirs(d)
      BY <2>1, <2>3, SlotSets DEF IsDir
    <3>2. IsDir(e) = TRUE
      BY <2>3 DEF IsDir
    <3> QED
      BY <2>2, <3>1, <3>2 DEF DirHandle, s
  <2>4. CASE ~IsDir(e)
    <3>1. s \in Files(d)
      BY <2>1, <2>4, SlotSets DEF IsDir
    <3>2. IsDir(e) = FALSE
      BY <2>4 DEF IsDir
    <3> QED
      BY <2>2, <3>1, <3>2 DEF FileHandle, s
  <2> QED
    BY <2>3, <2>4 DEF s
<1>5. Goes(d, c, name, Walk(h, d, name))
  BY <1>1, <1>3, <1>4, FoundIs DEF Goes
<1> QED
  BY <1>1, <1>5

\* Every walk is somewhere.
LEMMA WalkOnWay ==
  ASSUME NEW d \in Disks, NEW p \in Seq(Nat \X Nat)
  PROVE  \A k \in 0 .. Len(p) : OnWay(d, p, k, fat32_open_file(d, UpToPart(p, k)))
<1> DEFINE T == {k \in Nat : OnWay(d, p, k, fat32_open_file(d, UpToPart(p, k)))}
<1>1. Len(p) \in Nat
  BY LenProperties
<1>2. 0 \in T
  <2>1. fat32_open_file(d, UpToPart(p, 0)) = DirHandle(root_cluster) /\ root_cluster \in DirStarts(d)
    BY WalkIs, SlotSets DEF RootHandle, DirHandle
  <2> QED
    BY <2>1 DEF OnWay
<1>3. ASSUME NEW k \in 0 .. Len(p) - 1, k \in T
      PROVE  k + 1 \in T
  <2> DEFINE h == fat32_open_file(d, UpToPart(p, k))
             n == fat32_open_file(d, UpToPart(p, k + 1))
  <2>1. k \in Nat /\ k + 1 \in 1 .. Len(p) /\ (k + 1) - 1 = k
    BY <1>1
  <2>2. n = Walk(h, d, p[k + 1])
    BY <2>1, WalkIs
  <2>3. OnWay(d, p, k, h)
    BY <1>3
  <2>4. h = fat32_open_file(d, UpToPart(p, (k + 1) - 1))
    BY <2>1
  <2> HIDE DEF h
  <2>5. CASE h = NoFile
    <3>1. n = h
      BY <2>2, <2>5, KindsOf DEF Walk
    <3> QED
      BY <2>1, <2>5, <3>1 DEF OnWay
  <2>6. ASSUME NEW c \in DirStarts(d), h = DirHandle(c)
        PROVE  OnWay(d, p, k + 1, n)
    <3>1. h.ctx /\ h.is_dir /\ h.start_cluster = c
      BY <2>6, Entered
    <3>2. CASE n = NoFile
      BY <3>2 DEF OnWay
    <3>3. ASSUME NEW i \in 1 .. Len(Slots(d, c)), FoundAt(d, c, p[k + 1], i),
                 SlotAt(d, c, i) \in Files(d), n = FileHandle(d, SlotAt(d, c, i))
          PROVE  OnWay(d, p, k + 1, n)
      <4>1. LeadsAt(d, p, k + 1, SlotAt(d, c, i))
        BY <2>4, <3>1, <3>3 DEF LeadsAt
      <4>2. k + 1 \in 1 .. k + 1
        BY <2>1
      <4> QED
        BY <3>3, <4>1, <4>2 DEF OnWay
    <3>4. ASSUME NEW i \in 1 .. Len(Slots(d, c)), SlotAt(d, c, i) \in Dirs(d),
                 n = DirHandle(EntryAt(d, SlotAt(d, c, i)).first_cluster)
          PROVE  OnWay(d, p, k + 1, n)
      BY <3>4, SlotSets DEF OnWay
    <3> HIDE DEF n
    <3> QED
      BY <2>2, <2>6, <3>2, <3>3, <3>4, Entered DEF Goes
  <2>7. ASSUME NEW s \in Files(d), NEW j \in 1 .. k, LeadsAt(d, p, j, s), h = FileHandle(d, s)
        PROVE  OnWay(d, p, k + 1, n)
    <3>1. n = h
      BY <2>2, <2>7, KindsOf DEF Walk
    <3>2. j \in 1 .. k + 1
      BY <2>1
    <3> QED
      BY <2>7, <3>1, <3>2 DEF OnWay
  <2>8. OnWay(d, p, k + 1, n)
    BY <2>3, <2>5, <2>6, <2>7, <2>1 DEF OnWay
  <2> QED
    BY <2>1, <2>8
<1> HIDE DEF T
<1>4. \A k \in 0 .. Len(p) : k \in T
  BY <1>1, <1>2, <1>3, ByCounting
<1> QED
  BY <1>4 DEF T

\* A handle that is open is a directory's or a file's.
LEMMA OpenedWhat ==
  ASSUME NEW d \in Disks, NEW p \in Seq(Nat \X Nat), NEW h, h = fat32_open_file(d, p)
  PROVE  /\ h.ctx /\ h.is_dir => h.start_cluster \in DirStarts(d) /\ h = DirHandle(h.start_cluster)
         /\ h.ctx /\ ~h.is_dir => \E s \in Files(d) : Leads(d, p, s) /\ h = FileHandle(d, s)
         /\ h.is_dir => h.ctx
<1>1. Len(p) \in 0 .. Len(p) /\ UpToPart(p, Len(p)) = p
  <2>1. Len(p) \in Nat
    BY LenProperties
  <2>2. 0 \in 0 .. Len(p) /\ Len(p) \in 0 .. Len(p)
    BY <2>1
  <2> QED
    BY <2>2, PartIs
<1>2. OnWay(d, p, Len(p), h)
  BY <1>1, WalkOnWay
<1>3. CASE h = NoFile
  BY <1>3, KindsOf
<1>4. ASSUME NEW c \in DirStarts(d), h = DirHandle(c)
      PROVE  h.ctx /\ h.is_dir /\ h.start_cluster = c
  BY <1>4, Entered
<1>5. ASSUME NEW s \in Files(d), NEW j \in 1 .. Len(p), LeadsAt(d, p, j, s), h = FileHandle(d, s)
      PROVE  ~h.is_dir /\ Leads(d, p, s)
  BY <1>5, KindsOf DEF Leads
<1> QED
  BY <1>2, <1>3, <1>4, <1>5 DEF OnWay

\* A file ends the walk, whatever follows it.
LEMMA FileEndsWalk ==
  ASSUME NEW d \in Disks, NEW p \in Seq(Nat \X Nat), NEW k \in 1 .. Len(p), NEW s \in Files(d),
         LeadsAt(d, p, k, s)
  PROVE  \A n \in k .. Len(p) : fat32_open_file(d, UpToPart(p, n)) = FileHandle(d, s)
<1> DEFINE at(n) == fat32_open_file(d, UpToPart(p, n))
           T == {n \in Nat : n >= k => at(n) = FileHandle(d, s)}
<1>1. Len(p) \in Nat /\ k \in Nat /\ k >= 1 /\ k - 1 \in 0 .. Len(p)
  BY LenProperties
<1>2. at(k) = FileHandle(d, s)
  <2> DEFINE h == at(k - 1)
  <2>1. h.ctx /\ h.is_dir
    BY DEF LeadsAt
  <2>2. PICK i \in 1 .. Len(Slots(d, h.start_cluster)) :
          FoundAt(d, h.start_cluster, p[k], i) /\ s = SlotAt(d, h.start_cluster, i)
    BY DEF LeadsAt
  <2>3. OnWay(d, p, k - 1, h)
    BY <1>1, WalkOnWay
  <2>4. at(k) = Walk(h, d, p[k])
    BY WalkIs
  <2> HIDE DEF h, at
  <2>5. PICK c \in DirStarts(d) : h = DirHandle(c)
    BY <2>1, <2>3, KindsOf DEF OnWay
  <2>6. h.start_cluster = c /\ c \in {0} \cup Clusters
    BY <2>5, Entered
  <2>7. Matches(d, c, p[k], i)
    BY <2>2, <2>6 DEF FoundAt
  <2>8. PICK j \in 1 .. Len(Slots(d, c)) :
          /\ FoundAt(d, c, p[k], j)
          /\ \/ SlotAt(d, c, j) \in Files(d) /\ Walk(h, d, p[k]) = FileHandle(d, SlotAt(d, c, j))
             \/ SlotAt(d, c, j) \in Dirs(d)
    <3>1. Goes(d, c, p[k], Walk(h, d, p[k]))
      BY <2>5, Entered
    <3> QED
      BY <2>7, <3>1 DEF Goes
  <2>9. i = j
    BY <2>2, <2>6, <2>8, FoundOnce
  <2>10. s \notin Dirs(d)
    BY SlotSets
  <2> QED
    BY <2>2, <2>4, <2>6, <2>8, <2>9, <2>10
<1>3. 0 \in T
  BY <1>1
<1>4. ASSUME NEW n \in 0 .. Len(p) - 1, n \in T
      PROVE  n + 1 \in T
  <2>1. n \in Nat /\ n + 1 \in 1 .. Len(p) /\ (n + 1) - 1 = n
    BY <1>1
  <2>2. CASE n + 1 = k
    BY <1>2, <2>1, <2>2
  <2>3. CASE n + 1 > k
    <3>1. at(n) = FileHandle(d, s)
      BY <1>1, <1>4, <2>1, <2>3
    <3>2. at(n + 1) = Walk(at((n + 1) - 1), d, p[n + 1])
      BY <2>1, WalkIs
    <3> HIDE DEF at
    <3>3. at(n + 1) = Walk(at(n), d, p[n + 1])
      BY <2>1, <3>2
    <3>4. at(n + 1) = at(n)
      BY <3>1, <3>3, KindsOf DEF Walk
    <3> QED
      BY <2>1, <3>1, <3>4
  <2>4. CASE n + 1 < k
    BY <1>1, <2>1, <2>4
  <2> QED
    BY <1>1, <2>1, <2>2, <2>3, <2>4
<1> HIDE DEF T
<1>5. \A n \in 0 .. Len(p) : n \in T
  BY <1>1, <1>3, <1>4, ByCounting
<1> SUFFICES ASSUME NEW n \in k .. Len(p) PROVE at(n) = FileHandle(d, s)
  OBVIOUS
<1>6. n \in 0 .. Len(p) /\ n >= k
  BY <1>1
<1> QED
  BY <1>5, <1>6 DEF T

\* A path that leads to a file opens it, and leads to no other.
LEMMA LeadsOpen ==
  ASSUME NEW d \in Disks, NEW p \in Seq(Nat \X Nat), NEW s, Leads(d, p, s)
  PROVE  /\ fat32_open_file(d, p) = FileHandle(d, s)
         /\ \A t : Leads(d, p, t) => t = s
         /\ LeadsAt(d, p, Len(p), s) \/ ~fat32_open_file(d, Front(p)).is_dir
         /\ Len(p) \in 1 .. Len(p)
<1>1. PICK k \in 1 .. Len(p) : LeadsAt(d, p, k, s)
  BY DEF Leads
<1>2. s \in Files(d) /\ Len(p) \in Nat /\ k \in Nat /\ k >= 1 /\ k <= Len(p)
  BY LenProperties DEF Leads
<1>3. UpToPart(p, Len(p)) = p /\ Front(p) = UpToPart(p, Len(p) - 1)
  BY PartIs, <1>2
<1>4. \A n \in k .. Len(p) : fat32_open_file(d, UpToPart(p, n)) = FileHandle(d, s)
  BY <1>1, <1>2, FileEndsWalk
<1>5. fat32_open_file(d, p) = FileHandle(d, s)
  <2>1. Len(p) \in k .. Len(p)
    BY <1>2
  <2>2. fat32_open_file(d, UpToPart(p, Len(p))) = FileHandle(d, s)
    BY <1>4, <2>1
  <2> QED
    BY <1>3, <2>2
<1>6. LeadsAt(d, p, Len(p), s) \/ ~fat32_open_file(d, Front(p)).is_dir
  <2>1. CASE k = Len(p)
    BY <1>1, <2>1
  <2>2. CASE k < Len(p)
    <3>1. Len(p) - 1 \in k .. Len(p)
      BY <1>2, <2>2
    <3>2. fat32_open_file(d, UpToPart(p, Len(p) - 1)) = FileHandle(d, s)
      BY <1>4, <3>1
    <3> QED
      BY <1>3, <3>2, KindsOf
  <2> QED
    BY <1>2, <2>1, <2>2
<1>7. ASSUME NEW t, Leads(d, p, t)
      PROVE  t = s
  <2>1. PICK j \in 1 .. Len(p) : LeadsAt(d, p, j, t)
    BY <1>7 DEF Leads
  <2>2. t \in Files(d) /\ j \in Nat /\ j >= 1 /\ j <= Len(p)
    BY <1>2, <1>7 DEF Leads
  <2>3. \A n \in j .. Len(p) : fat32_open_file(d, UpToPart(p, n)) = FileHandle(d, t)
    BY <2>1, <2>2, FileEndsWalk
  <2>4. ~(j < k)
    <3>1. SUFFICES ASSUME j < k PROVE FALSE
      OBVIOUS
    <3>2. k - 1 \in j .. Len(p)
      BY <1>2, <2>2, <3>1
    <3>3. fat32_open_file(d, UpToPart(p, k - 1)) = FileHandle(d, t)
      BY <2>3, <3>2
    <3> QED
      BY <1>1, <3>3, KindsOf DEF LeadsAt
  <2>5. ~(k < j)
    <3>1. SUFFICES ASSUME k < j PROVE FALSE
      OBVIOUS
    <3>2. j - 1 \in k .. Len(p)
      BY <1>2, <2>2, <3>1
    <3>3. fat32_open_file(d, UpToPart(p, j - 1)) = FileHandle(d, s)
      BY <1>4, <3>2
    <3> QED
      BY <2>1, <3>3, KindsOf DEF LeadsAt
  <2>6. j = k
    BY <1>2, <2>2, <2>4, <2>5
  <2> DEFINE c == fat32_open_file(d, UpToPart(p, k - 1)).start_cluster
  <2>7. PICK i : FoundAt(d, c, p[k], i) /\ s = SlotAt(d, c, i)
    BY <1>1 DEF LeadsAt
  <2>8. PICK l : FoundAt(d, c, p[k], l) /\ t = SlotAt(d, c, l)
    BY <2>1, <2>6 DEF LeadsAt
  <2>9. c \in {0} \cup Clusters
    <3> DEFINE h == fat32_open_file(d, UpToPart(p, k - 1))
    <3>1. h.ctx /\ h.is_dir
      BY <1>1 DEF LeadsAt
    <3>2. k - 1 \in 0 .. Len(p)
      BY <1>2
    <3>3. OnWay(d, p, k - 1, h)
      BY <3>2, WalkOnWay
    <3> HIDE DEF h
    <3>4. PICK b \in DirStarts(d) : h = DirHandle(b)
      BY <3>1, <3>3, KindsOf DEF OnWay
    <3>5. h.start_cluster \in {0} \cup Clusters
      BY <3>4, Entered
    <3> QED
      BY <3>5 DEF h
  <2> HIDE DEF c
  <2>10. i = l
    BY <2>7, <2>8, <2>9, FoundOnce
  <2> QED
    BY <2>7, <2>8, <2>10
<1>8. Len(p) \in 1 .. Len(p)
  BY <1>2
<1> QED
  BY <1>5, <1>6, <1>7, <1>8

\* A walk goes the same way on disks whose directories are the same.
SameDirs(d, e) ==
  /\ Files(e) = Files(d) /\ Dirs(e) = Dirs(d) /\ DirStarts(e) = DirStarts(d)
  /\ \A b \in DirStarts(d) : Chain(e, b) = Chain(d, b)
  /\ \A s \in Dirs(d) : EntryAt(e, s) = EntryAt(d, s)
  /\ \A t \in Places : /\ EntryAt(e, t).name = EntryAt(d, t).name
                       /\ EntryAt(e, t).attributes = EntryAt(d, t).attributes

\* What a search finds.
LEMMA SameFound ==
  ASSUME NEW d \in Disks, NEW e \in Disks, SameDirs(d, e), NEW c \in DirStarts(d), NEW name
  PROVE  /\ Len(Slots(e, c)) = Len(Slots(d, c)) /\ \A k : SlotAt(e, c, k) = SlotAt(d, c, k)
         /\ \A k : Matches(e, c, name, k) <=> Matches(d, c, name, k)
         /\ \A k : FoundAt(e, c, name, k) <=> FoundAt(d, c, name, k)
<1>1. c \in {0} \cup Clusters /\ Chain(e, c) = Chain(d, c)
  BY SlotSets DEF SameDirs
<1>2. \A k : SlotAt(e, c, k) = SlotAt(d, c, k)
  BY <1>1 DEF SlotAt
<1>3. Len(Slots(e, c)) = Len(Slots(d, c))
  <2>1. Looked(d, c, Len(Slots(d, c))) /\ Looked(e, c, Len(Slots(e, c)))
    BY <1>1, SlotsAre
  <2>2. \A t \in Places : EntryAt(e, t).name = EntryAt(d, t).name
    BY DEF SameDirs
  <2> QED
    BY <1>1, <2>1, <2>2, LookedOnce
<1>4. ASSUME NEW k
      PROVE  Matches(e, c, name, k) <=> Matches(d, c, name, k)
  <2>1. CASE k \in 1 .. Len(Slots(d, c))
    <3> DEFINE t == SlotAt(d, c, k)
    <3>1. t \in Places /\ SlotAt(e, c, k) = t
      BY <1>1, <1>2, <2>1, SlotsAre
    <3> HIDE DEF t
    <3>2. /\ EntryAt(e, t).name = EntryAt(d, t).name
          /\ EntryAt(e, t).attributes = EntryAt(d, t).attributes
      BY <3>1 DEF SameDirs
    <3>3. Used(EntryAt(e, t)) <=> Used(EntryAt(d, t))
      BY <3>2 DEF Used
    <3> QED
      BY <1>3, <3>1, <3>2, <3>3 DEF Matches, t
  <2>2. CASE k \notin 1 .. Len(Slots(d, c))
    BY <1>3, <2>2 DEF Matches
  <2> QED
    BY <2>1, <2>2
<1>5. \A k : FoundAt(e, c, name, k) <=> FoundAt(d, c, name, k)
  BY <1>3, <1>4 DEF FoundAt
<1> QED
  BY <1>2, <1>3, <1>4, <1>5

\* Where the walks are.
SameWay(g, h) == (g.ctx /\ g.is_dir => g = h) /\ (h.ctx /\ h.is_dir => g = h)

\* Where the directories are the same, every walk goes the same way.
LEMMA SameWalk ==
  ASSUME NEW d \in Disks, NEW e \in Disks, SameDirs(d, e), NEW p \in Seq(Nat \X Nat)
  PROVE  \A k \in 0 .. Len(p) :
           SameWay(fat32_open_file(e, UpToPart(p, k)), fat32_open_file(d, UpToPart(p, k)))
<1> DEFINE T == {k \in Nat : SameWay(fat32_open_file(e, UpToPart(p, k)), fat32_open_file(d, UpToPart(p, k)))}
<1>1. Len(p) \in Nat
  BY LenProperties
<1>2. 0 \in T
  BY WalkIs DEF SameWay
<1>3. ASSUME NEW k \in 0 .. Len(p) - 1, k \in T
      PROVE  k + 1 \in T
  <2> DEFINE h == fat32_open_file(d, UpToPart(p, k))
             g == fat32_open_file(e, UpToPart(p, k))
             h2 == fat32_open_file(d, UpToPart(p, k + 1))
             g2 == fat32_open_file(e, UpToPart(p, k + 1))
  <2>1. k \in Nat /\ k + 1 \in 1 .. Len(p) /\ (k + 1) - 1 = k /\ k \in 0 .. Len(p)
    BY <1>1
  <2>2. h2 = Walk(h, d, p[k + 1]) /\ g2 = Walk(g, e, p[k + 1])
    BY <2>1, WalkIs
  <2>3. SameWay(g, h) /\ OnWay(d, p, k, h) /\ OnWay(e, p, k, g)
    BY <1>3, <2>1, WalkOnWay
  <2> HIDE DEF h, g
  <2>4. CASE ~(h.ctx /\ h.is_dir)
    <3>1. ~(g.ctx /\ g.is_dir)
      BY <2>3, <2>4 DEF SameWay
    <3>2. h2 = h /\ g2 = g
      BY <2>2, <2>4, <3>1 DEF Walk
    <3> QED
      BY <2>1, <2>4, <3>1, <3>2 DEF SameWay
  <2>5. CASE h.ctx /\ h.is_dir
    <3>1. g = h
      BY <2>3, <2>5 DEF SameWay
    <3>2. PICK c \in DirStarts(d) : h = DirHandle(c)
      BY <2>3, <2>5, KindsOf DEF OnWay
    <3>3. c \in DirStarts(e)
      BY <3>2 DEF SameDirs
    <3> DEFINE name == p[k + 1]
    <3>4. CASE h2 = NoFile /\ \A j : ~Matches(d, c, name, j)
      <4>1. \A j : ~Matches(e, c, name, j)
        BY <3>4, SameFound
      <4>2. \A j : ~FoundAt(e, c, name, j)
        BY <4>1 DEF FoundAt
      <4>3. g2 = NoFile
        <5>1. Goes(e, c, name, g2)
          BY <2>2, <3>1, <3>2, <3>3, Entered
        <5> QED
          BY <4>2, <5>1 DEF Goes
      <4> QED
        BY <2>1, <3>4, <4>3 DEF SameWay
    <3>5. ASSUME NEW i \in 1 .. Len(Slots(d, c)), FoundAt(d, c, name, i), SlotAt(d, c, i) \in Places,
                 \/ SlotAt(d, c, i) \in Files(d) /\ h2 = FileHandle(d, SlotAt(d, c, i))
                 \/ /\ SlotAt(d, c, i) \in Dirs(d)
                    /\ h2 = DirHandle(EntryAt(d, SlotAt(d, c, i)).first_cluster)
          PROVE  SameWay(g2, h2)
      <4> DEFINE s == SlotAt(d, c, i)
      <4>1. FoundAt(e, c, name, i) /\ SlotAt(e, c, i) = s
        BY <3>5, SameFound
      <4>2. Matches(e, c, name, i)
        BY <4>1 DEF FoundAt
      <4>3. PICK j \in 1 .. Len(Slots(e, c)) :
              /\ FoundAt(e, c, name, j)
              /\ \/ SlotAt(e, c, j) \in Files(e) /\ g2 = FileHandle(e, SlotAt(e, c, j))
                 \/ /\ SlotAt(e, c, j) \in Dirs(e)
                    /\ g2 = DirHandle(EntryAt(e, SlotAt(e, c, j)).first_cluster)
        <5>1. Goes(e, c, name, g2)
          BY <2>2, <3>1, <3>2, <3>3, Entered
        <5> QED
          BY <4>2, <5>1 DEF Goes
      <4>4. c \in {0} \cup Clusters
        BY SlotSets
      <4>5. j = i
        BY <4>1, <4>3, <4>4, FoundOnce
      <4>6. \/ s \in Files(e) /\ g2 = FileHandle(e, s)
            \/ s \in Dirs(e) /\ g2 = DirHandle(EntryAt(e, s).first_cluster)
        BY <4>1, <4>3, <4>5
      <4>7. \/ s \in Files(d) /\ h2 = FileHandle(d, s)
            \/ s \in Dirs(d) /\ h2 = DirHandle(EntryAt(d, s).first_cluster)
        BY <3>5
      <4> HIDE DEF s, h2, g2
      <4>8. ~(s \in Files(d) /\ s \in Dirs(d))
        BY SlotSets
      <4>9. CASE s \in Files(d)
        <5>1. h2 = FileHandle(d, s) /\ g2 = FileHandle(e, s)
          BY <4>6, <4>7, <4>8, <4>9 DEF SameDirs
        <5> QED
          BY <5>1, KindsOf DEF SameWay
      <4>10. CASE s \in Dirs(d)
        <5>1. g2 = h2
          BY <4>6, <4>7, <4>8, <4>10 DEF SameDirs
        <5> QED
          BY <5>1 DEF SameWay
      <4> QED
        BY <4>7, <4>9, <4>10
    <3> HIDE DEF name, h2, g2
    <3>6. SameWay(g2, h2)
      <4>1. \/ h2 = NoFile /\ \A j : ~Matches(d, c, name, j)
            \/ \E i \in 1 .. Len(Slots(d, c)) :
                 /\ FoundAt(d, c, name, i) /\ SlotAt(d, c, i) \in Places
                 /\ \/ SlotAt(d, c, i) \in Files(d) /\ h2 = FileHandle(d, SlotAt(d, c, i))
                    \/ /\ SlotAt(d, c, i) \in Dirs(d)
                       /\ h2 = DirHandle(EntryAt(d, SlotAt(d, c, i)).first_cluster)
        <5>1. Goes(d, c, name, h2)
          BY <2>2, <3>2, Entered DEF name
        <5> QED
          BY <5>1 DEF Goes
      <4>2. CASE h2 = NoFile /\ \A j : ~Matches(d, c, name, j)
        <5>1. k + 1 \in T
          BY <3>4, <4>2
        <5> QED
          BY <5>1 DEF g2, h2
      <4> QED
        BY <3>5, <4>1, <4>2
    <3> QED
      BY <2>1, <3>6 DEF g2, h2
  <2> QED
    BY <2>4, <2>5
<1> HIDE DEF T
<1>4. \A k \in 0 .. Len(p) : k \in T
  BY <1>1, <1>2, <1>3, ByCounting
<1> QED
  BY <1>4 DEF T

\* A path leads to the same slot.
LEMMA SameLeads ==
  ASSUME NEW d \in Disks, NEW e \in Disks, SameDirs(d, e), NEW p \in Seq(Nat \X Nat), NEW s,
         Leads(d, p, s)
  PROVE  Leads(e, p, s)
<1>1. PICK k \in 1 .. Len(p) : LeadsAt(d, p, k, s)
  BY DEF Leads
<1> DEFINE h == fat32_open_file(d, UpToPart(p, k - 1))
           g == fat32_open_file(e, UpToPart(p, k - 1))
<1>2. h.ctx /\ h.is_dir /\ k - 1 \in 0 .. Len(p)
  <2>1. Len(p) \in Nat
    BY LenProperties
  <2> QED
    BY <1>1, <2>1 DEF LeadsAt
<1>3. SameWay(g, h) /\ OnWay(d, p, k - 1, h)
  BY <1>2, SameWalk, WalkOnWay
<1>4. PICK i \in 1 .. Len(Slots(d, h.start_cluster)) :
        FoundAt(d, h.start_cluster, p[k], i) /\ s = SlotAt(d, h.start_cluster, i)
  BY <1>1 DEF LeadsAt
<1> HIDE DEF h, g
<1>5. g = h
  BY <1>2, <1>3 DEF SameWay
<1>6. PICK c \in DirStarts(d) : h = DirHandle(c)
  BY <1>2, <1>3, KindsOf DEF OnWay
<1>7. h.start_cluster = c
  BY <1>6, KindsOf
<1>8. i \in 1 .. Len(Slots(e, c)) /\ FoundAt(e, c, p[k], i) /\ s = SlotAt(e, c, i)
  BY <1>4, <1>7, SameFound
<1>9. LeadsAt(e, p, k, s)
  BY <1>2, <1>5, <1>7, <1>8 DEF LeadsAt, g
<1>10. s \in Files(e)
  BY DEF Leads, SameDirs
<1> QED
  BY <1>9, <1>10 DEF Leads

-----------------------------------------------------------------------------
(* The open file on a disk that is well formed *)

\* The disk with another start and size in an entry.
Relabelled(e, start, size) == [e EXCEPT !.first_cluster = start, !.file_size = size]
AsIf(d, s, start, size) == SlotPut(d, s[1], s[2], Relabelled(EntryAt(d, s), start, size))

\* What a slot that is written says, and all others.
LEMMA SlotPutIs ==
  ASSUME NEW d \in Disks, NEW s \in Places, NEW e \in Entries
  PROVE  /\ SlotPut(d, s[1], s[2], e) \in Disks
         /\ SlotPut(d, s[1], s[2], e).fat = d.fat /\ SlotPut(d, s[1], s[2], e).data = d.data
         /\ EntryAt(SlotPut(d, s[1], s[2], e), s) = e
         /\ \A t \in Places : t # s => EntryAt(SlotPut(d, s[1], s[2], e), t) = EntryAt(d, t)
         /\ e = EntryAt(d, s) => SlotPut(d, s[1], s[2], e) = d
<1> DEFINE Dir == [1 .. SlotCount -> Entries]
           c == s[1]
           i == s[2]
           dir == [d.dir EXCEPT ![c][i] = e]
<1>1. /\ d.dir \in [Clusters -> Dir]
      /\ d = [fat |-> d.fat, dir |-> d.dir, data |-> d.data]
  BY DiskParts
<1>2. c \in Clusters /\ i \in 1 .. SlotCount /\ s = <<c, i>>
  BY EntryIs
<1> HIDE DEF c, i
<1>3. SlotPut(d, c, i, e) = [fat |-> d.fat, dir |-> dir, data |-> d.data]
  BY <1>1 DEF SlotPut
<1>4. dir[c][i] = e /\ \A a \in Clusters, b \in 1 .. SlotCount : <<a, b>> # <<c, i>> => dir[a][b] = d.dir[a][b]
  BY <1>1, <1>2
<1>5. \A t \in Places : t[1] \in Clusters /\ t[2] \in 1 .. SlotCount /\ t = <<t[1], t[2]>>
  BY EntryIs
<1>6. e = d.dir[c][i] => dir = d.dir
  BY <1>1, <1>2
<1> HIDE DEF dir
<1>7. SlotPut(d, c, i, e) \in Disks
  BY SlotWritten
<1>8. SlotPut(d, c, i, e).dir = dir
  BY <1>3
<1>9. ASSUME NEW t \in Places, t # s
      PROVE  EntryAt(SlotPut(d, c, i, e), t) = EntryAt(d, t)
  BY <1>2, <1>4, <1>5, <1>8, <1>9 DEF EntryAt
<1>10. EntryAt(SlotPut(d, c, i, e), s) = e
  BY <1>4, <1>8 DEF EntryAt, c, i
<1>11. e = EntryAt(d, s) => SlotPut(d, c, i, e) = d
  BY <1>1, <1>3, <1>6 DEF EntryAt, c, i
<1>12. SlotPut(d, c, i, e).fat = d.fat /\ SlotPut(d, c, i, e).data = d.data
  BY <1>3
<1> QED
  BY <1>7, <1>9, <1>10, <1>11, <1>12 DEF c, i

\* An entry with another start and size.
LEMMA RelabelledIs ==
  ASSUME NEW e \in Entries, NEW start \in {0} \cup Clusters, NEW size \in 0 .. MaxSize
  PROVE  /\ Relabelled(e, start, size) \in Entries
         /\ Relabelled(e, start, size).name = e.name /\ Relabelled(e, start, size).attributes = e.attributes
         /\ Relabelled(e, start, size).first_cluster = start /\ Relabelled(e, start, size).file_size = size
         /\ Relabelled(e, e.first_cluster, e.file_size) = e
BY DEF Relabelled, Entries

\* The disk with one.
LEMMA AsIfIs ==
  ASSUME NEW d \in Disks, NEW s \in Places, NEW start \in {0} \cup Clusters, NEW size \in 0 .. MaxSize
  PROVE  /\ AsIf(d, s, start, size) \in Disks
         /\ AsIf(d, s, start, size).fat = d.fat /\ AsIf(d, s, start, size).data = d.data
         /\ EntryAt(AsIf(d, s, start, size), s) = Relabelled(EntryAt(d, s), start, size)
         /\ EntryAt(AsIf(d, s, start, size), s).first_cluster = start
         /\ EntryAt(AsIf(d, s, start, size), s).file_size = size
         /\ \A t \in Places : /\ t # s => EntryAt(AsIf(d, s, start, size), t) = EntryAt(d, t)
                              /\ EntryAt(AsIf(d, s, start, size), t).name = EntryAt(d, t).name
                              /\ EntryAt(AsIf(d, s, start, size), t).attributes = EntryAt(d, t).attributes
         /\ start = EntryAt(d, s).first_cluster /\ size = EntryAt(d, s).file_size
              => AsIf(d, s, start, size) = d
<1> DEFINE e == Relabelled(EntryAt(d, s), start, size)
<1>1. /\ e \in Entries /\ e.name = EntryAt(d, s).name /\ e.attributes = EntryAt(d, s).attributes
      /\ e.first_cluster = start /\ e.file_size = size
      /\ start = EntryAt(d, s).first_cluster /\ size = EntryAt(d, s).file_size => e = EntryAt(d, s)
  <2> DEFINE o == EntryAt(d, s)
  <2>1. o \in Entries
    BY EntryIs
  <2> HIDE DEF o
  <2>2. e = Relabelled(o, start, size)
    BY DEF o
  <2>3. /\ Relabelled(o, start, size) \in Entries
        /\ Relabelled(o, start, size).name = o.name /\ Relabelled(o, start, size).attributes = o.attributes
        /\ Relabelled(o, start, size).first_cluster = start /\ Relabelled(o, start, size).file_size = size
        /\ Relabelled(o, o.first_cluster, o.file_size) = o
    BY <2>1, RelabelledIs
  <2> QED
    BY <2>2, <2>3 DEF o
<1> HIDE DEF e
<1> DEFINE q == SlotPut(d, s[1], s[2], e)
<1>2. q \in Disks /\ q.fat = d.fat /\ q.data = d.data /\ EntryAt(q, s) = e
  BY <1>1, SlotPutIs
<1>3. \A t \in Places : t # s => EntryAt(q, t) = EntryAt(d, t)
  BY <1>1, SlotPutIs
<1>4. e = EntryAt(d, s) => q = d
  BY <1>1, SlotPutIs
<1>5. q = AsIf(d, s, start, size)
  BY DEF AsIf, e
<1> HIDE DEF q
<1>6. \A t \in Places : EntryAt(q, t).name = EntryAt(d, t).name /\ EntryAt(q, t).attributes = EntryAt(d, t).attributes
  BY <1>1, <1>2, <1>3
<1> QED
  BY <1>1, <1>2, <1>3, <1>4, <1>5, <1>6 DEF e

\* The clusters that a handle that starts at c may write to.
Territory(d, c) == {x \in Clusters : d.fat[1][x] = 0 \/ x \in Range(Chain(d, c))}

\* A chain of a file in it.
Owns(d, c, size, R) ==
  /\ ProperChain(d, Chain(d, c)) /\ Holds(Chain(d, c), size) /\ (size = 0 => c = 0)
  /\ \A x \in Range(Chain(d, c)) : x \in R

\* The disk is well formed if the entry says what the handle says.
Held(d, s, start, size) == s \in Files(d) /\ WellFormed(AsIf(d, s, start, size))

\* So the chain of the handle is proper.
LEMMA HeldIs ==
  ASSUME NEW d \in Disks, NEW s, NEW start \in {0} \cup Clusters, NEW size \in 0 .. MaxSize,
         Held(d, s, start, size)
  PROVE  /\ s \in Places /\ Owns(d, start, size, Territory(d, start))
         /\ AsIf(d, s, start, size) \in Disks /\ s \in Files(AsIf(d, s, start, size))
         /\ ChainAt(AsIf(d, s, start, size), s) = Chain(d, start)
         /\ Frees(AsIf(d, s, start, size), {s}, Territory(d, start))
<1> DEFINE e == AsIf(d, s, start, size)
<1>1. s \in Places /\ EntryAt(d, s).attributes \notin {ATTR_DIRECTORY, ATTR_VOLUME_ID} /\ Used(EntryAt(d, s))
  BY SlotSets DEF Held
<1>2. /\ e \in Disks /\ e.fat = d.fat /\ EntryAt(e, s) = Relabelled(EntryAt(d, s), start, size)
      /\ EntryAt(e, s).name = EntryAt(d, s).name /\ EntryAt(e, s).attributes = EntryAt(d, s).attributes
  BY <1>1, AsIfIs
<1>3. EntryAt(e, s).first_cluster = start /\ EntryAt(e, s).file_size = size
  BY <1>1, AsIfIs
<1>4. WellFormed(e)
  BY DEF Held
<1> HIDE DEF e
<1>5. s \in Files(e)
  <2>1. Used(EntryAt(e, s))
    BY <1>1, <1>2 DEF Used
  <2> QED
    BY <1>1, <1>2, <2>1, SlotSets
<1>6. FileHolds(e, s)
  BY <1>2, <1>4, <1>5, WellFormedIs
<1>7. ProperChain(e, Chain(e, start)) /\ Holds(Chain(e, start), size) /\ (size = 0 => start = 0)
  BY <1>3, <1>6 DEF FileHolds, ChainAt
<1>8. Chain(d, start) = Chain(e, start) /\ ProperChain(d, Chain(d, start))
  BY <1>2, <1>7, SameChains
<1>9. ChainAt(e, s) = Chain(d, start)
  BY <1>3, <1>8 DEF ChainAt
<1>10. \A x \in Range(Chain(d, start)) : x \in Territory(d, start)
  BY ProperIs DEF Territory
<1>11. Frees(e, {s}, Territory(d, start))
  BY <1>2, <1>9 DEF Frees, Territory
<1>12. Owns(d, start, size, Territory(d, start))
  BY <1>7, <1>8, <1>10 DEF Owns
<1> QED
  BY <1>1, <1>2, <1>5, <1>9, <1>11, <1>12 DEF e

\* A file is still held when the FAT has changed in its own territory only and
\* the new chain is in it.
LEMMA HeldOn ==
  ASSUME NEW d \in Disks, NEW e \in Disks, NEW s,
         NEW start \in {0} \cup Clusters, NEW size \in 0 .. MaxSize, Held(d, s, start, size),
         NEW c \in {0} \cup Clusters, NEW n \in 0 .. MaxSize,
         e.dir = d.dir, \A x \in Clusters \ Territory(d, start) : e.fat[1][x] = d.fat[1][x],
         Owns(e, c, n, Territory(d, start))
  PROVE  /\ Held(e, s, c, n) /\ SameDirs(d, e)
         /\ c = EntryAt(d, s).first_cluster /\ n = EntryAt(d, s).file_size => WellFormed(e)
<1> DEFINE a == AsIf(d, s, start, size)
           b == AsIf(e, s, c, n)
           R == Territory(d, start)
           X == {s}
<1>1. /\ s \in Places /\ a \in Disks /\ s \in Files(a) /\ Frees(a, X, R) /\ WellFormed(a)
  BY HeldIs DEF Held
<1>2. \A t : EntryAt(e, t) = EntryAt(d, t)
  BY DEF EntryAt
<1>3. /\ a.fat = d.fat
      /\ \A t \in Places : /\ t # s => EntryAt(a, t) = EntryAt(d, t)
                           /\ EntryAt(a, t).name = EntryAt(d, t).name
                           /\ EntryAt(a, t).attributes = EntryAt(d, t).attributes
  BY <1>1, AsIfIs
<1>4. /\ b \in Disks /\ b.fat = e.fat /\ EntryAt(b, s) = Relabelled(EntryAt(e, s), c, n)
      /\ \A t \in Places : /\ t # s => EntryAt(b, t) = EntryAt(e, t)
                           /\ EntryAt(b, t).name = EntryAt(e, t).name
                           /\ EntryAt(b, t).attributes = EntryAt(e, t).attributes
      /\ c = EntryAt(e, s).first_cluster /\ n = EntryAt(e, s).file_size => b = e
  BY <1>1, AsIfIs
<1> HIDE DEF a, b
<1>5. EntryAt(b, s).first_cluster = c /\ EntryAt(b, s).file_size = n
  BY <1>4 DEF Relabelled
<1>6. KeepsRest(a, b, X, R)
  BY <1>2, <1>3, <1>4 DEF KeepsRest
<1>7. ProperChain(e, Chain(e, c)) /\ Holds(Chain(e, c), n) /\ (n = 0 => c = 0)
      /\ \A x \in Range(Chain(e, c)) : x \in R
  BY DEF Owns
<1>8. Chain(b, c) = Chain(e, c) /\ ProperChain(b, Chain(b, c))
  BY <1>4, <1>7, SameChains
<1>9. FileHolds(b, s) /\ \A x \in Range(ChainAt(b, s)) : x \in R
  BY <1>5, <1>7, <1>8 DEF FileHolds, ChainAt
<1> HIDE DEF R
<1>10. X \in SUBSET Files(a) /\ \A t, u \in X : t = u
  BY <1>1
<1>11. WellFormed(b)
  <2>1. \A t \in X : FileHolds(b, t) /\ \A x \in Range(ChainAt(b, t)) : x \in R
    BY <1>9
  <2> HIDE DEF X
  <2> QED
    BY <1>1, <1>4, <1>6, <1>10, <2>1, Regrown
<1>12. Files(e) = Files(d)
  <2>1. \A t : t \in Files(e) <=> t \in Files(d)
    BY <1>2, SlotSets
  <2> QED
    BY <2>1
<1>13. Held(e, s, c, n)
  BY <1>11, <1>12 DEF Held, b
<1>14. SameDirs(d, e)
  <2>1. Dirs(e) = Dirs(d) /\ DirStarts(e) = DirStarts(d)
    <3>1. \A t : t \in Dirs(e) <=> t \in Dirs(d)
      BY <1>2, SlotSets
    <3> QED
      BY <1>2, <3>1 DEF DirStarts
  <2>2. Dirs(a) = Dirs(d) /\ DirStarts(a) = DirStarts(d)
    <3>1. \A t \in Places : Used(EntryAt(a, t)) <=> Used(EntryAt(d, t))
      BY <1>3 DEF Used
    <3>2. \A t : t \in Dirs(a) <=> t \in Dirs(d)
      BY <1>1, <1>3, <3>1, SlotSets
    <3>3. s \notin Dirs(d)
      BY <1>1, <3>2, SlotSets
    <3>4. \A t \in Dirs(d) : EntryAt(a, t) = EntryAt(d, t)
      BY <1>3, <3>3, SlotSets
    <3> QED
      BY <3>2, <3>4 DEF DirStarts
  <2>3. \A x \in DirStarts(a) : Chain(b, x) = Chain(a, x)
    BY <1>1, <1>4, <1>6, <1>10, RestIs
  <2>4. ASSUME NEW x \in DirStarts(d)
        PROVE  Chain(e, x) = Chain(d, x)
    <3>1. x \in {0} \cup Clusters
      BY SlotSets
    <3>2. ProperChain(a, Chain(a, x))
      BY <1>1, <2>2, WellFormedIs DEF DirChains
    <3>3. ProperChain(b, Chain(b, x))
      BY <1>1, <1>4, <1>6, <1>10, <2>2, RestIs
    <3>4. Chain(d, x) = Chain(a, x)
      BY <1>1, <1>3, <3>1, <3>2, SameChains
    <3>5. Chain(e, x) = Chain(b, x)
      BY <1>4, <3>1, <3>3, SameChains
    <3> QED
      BY <2>2, <2>3, <3>4, <3>5
  <2> QED
    BY <1>2, <1>12, <2>1, <2>4 DEF SameDirs
<1>15. c = EntryAt(d, s).first_cluster /\ n = EntryAt(d, s).file_size => WellFormed(e)
  BY <1>2, <1>4, <1>11
<1> QED
  BY <1>13, <1>14, <1>15

\* The directories are the same on the disk with another start and size in the
\* entry, and their chains are proper.
LEMMA HeldDirs ==
  ASSUME NEW d \in Disks, NEW s, NEW start \in {0} \cup Clusters, NEW size \in 0 .. MaxSize,
         Held(d, s, start, size), NEW a, a = AsIf(d, s, start, size)
  PROVE  /\ SameDirs(d, a) /\ SameDirs(a, d) /\ a \in Disks /\ a.fat = d.fat
         /\ \A b \in DirStarts(d) : ProperChain(d, Chain(d, b))
<1>1. /\ s \in Places /\ a \in Disks /\ s \in Files(a) /\ WellFormed(a) /\ s \in Files(d)
  BY HeldIs DEF Held
<1>2. /\ a.fat = d.fat
      /\ \A t \in Places : /\ t # s => EntryAt(a, t) = EntryAt(d, t)
                           /\ EntryAt(a, t).name = EntryAt(d, t).name
                           /\ EntryAt(a, t).attributes = EntryAt(d, t).attributes
  BY <1>1, AsIfIs
<1>3. \A t \in Places : Used(EntryAt(a, t)) <=> Used(EntryAt(d, t))
  BY <1>2 DEF Used
<1>4. Dirs(a) = Dirs(d) /\ Files(a) = Files(d)
  <2>1. \A t : t \in Dirs(a) <=> t \in Dirs(d)
    BY <1>1, <1>2, <1>3, SlotSets
  <2>2. \A t : t \in Files(a) <=> t \in Files(d)
    BY <1>1, <1>2, <1>3, SlotSets
  <2> QED
    BY <2>1, <2>2
<1>5. \A t \in Dirs(d) : EntryAt(a, t) = EntryAt(d, t)
  <2>1. s \notin Dirs(d)
    BY <1>1, SlotSets
  <2> QED
    BY <1>2, <2>1, SlotSets
<1>6. DirStarts(a) = DirStarts(d)
  BY <1>4, <1>5 DEF DirStarts
<1>7. ASSUME NEW b \in DirStarts(d)
      PROVE  Chain(d, b) = Chain(a, b) /\ ProperChain(d, Chain(d, b))
  <2>1. b \in {0} \cup Clusters
    BY SlotSets
  <2>2. ProperChain(a, Chain(a, b))
    BY <1>1, <1>6, WellFormedIs DEF DirChains
  <2> QED
    BY <1>1, <1>2, <2>1, <2>2, SameChains
<1> QED
  BY <1>1, <1>2, <1>4, <1>5, <1>6, <1>7 DEF SameDirs

\* What the entry of the open file may say when its contents are not new: it
\* was not told yet that the file has grown.
EntryOf(e, start, size) ==
  /\ e.first_cluster \in {0, start} /\ e.file_size <= size
  /\ e.first_cluster = 0 <=> e.file_size = 0

\* A file that is opened is held.
LEMMA OpenedHeld ==
  ASSUME NEW d \in Disks, WellFormed(d), NEW s \in Files(d)
  PROVE  LET e == EntryAt(d, s)
         IN  Held(d, s, e.first_cluster, e.file_size) /\ EntryOf(e, e.first_cluster, e.file_size)
<1> DEFINE e == EntryAt(d, s)
           c == e.first_cluster
           n == e.file_size
<1>1. s \in Places /\ c \in {0} \cup Clusters /\ n \in 0 .. MaxSize
  BY SlotSets, EntryIs
<1>2. AsIf(d, s, c, n) = d
  <2>1. \A x \in {0} \cup Clusters, y \in 0 .. MaxSize :
          x = EntryAt(d, s).first_cluster /\ y = EntryAt(d, s).file_size => AsIf(d, s, x, y) = d
    BY <1>1, AsIfIs
  <2> HIDE DEF c, n
  <2>2. c = EntryAt(d, s).first_cluster /\ n = EntryAt(d, s).file_size
    BY DEF c, n
  <2> QED
    BY <1>1, <2>1, <2>2
<1>3. FileHolds(d, s)
  BY WellFormedIs
<1>4. Holds(Chain(d, c), n) /\ (n = 0 => c = 0)
  BY <1>3 DEF FileHolds, ChainAt
<1>5. c = 0 => Len(Chain(d, c)) = 0
  BY <1>1, ChainHas
<1>6. c = 0 => n = 0
  <2>1. ClusterSize \in Nat
    BY DiskAssumption
  <2> HIDE DEF c, n
  <2> QED
    BY <1>1, <1>4, <1>5, <2>1, Fat32Assumption DEF Holds
<1>7. Held(d, s, c, n)
  BY <1>2 DEF Held
<1>8. EntryOf(e, c, n)
  <2>1. n <= n
    BY <1>1, Fat32Assumption
  <2> QED
    BY <1>4, <1>6, <2>1 DEF EntryOf
<1> QED
  BY <1>7, <1>8

\* When it is let go of, what its entry says is well formed.
LEMMA LetGo ==
  ASSUME NEW d \in Disks, NEW s, NEW start \in {0} \cup Clusters, NEW size \in 0 .. MaxSize,
         Held(d, s, start, size), EntryOf(EntryAt(d, s), start, size)
  PROVE  WellFormed(d)
<1> DEFINE e == EntryAt(d, s)
           c == e.first_cluster
           n == e.file_size
           R == Territory(d, start)
<1>1. s \in Places /\ Owns(d, start, size, R)
  BY HeldIs
<1>2. c \in {0} \cup Clusters /\ n \in 0 .. MaxSize
  BY <1>1, EntryIs
<1>3. c \in {0, start} /\ n <= size /\ (c = 0 <=> n = 0)
  BY DEF EntryOf
<1> HIDE DEF c, n
<1>4. Owns(d, c, n, R)
  <2>1. CASE c = start
    <3>1. Holds(Chain(d, c), n)
      <4>1. ClusterSize \in Nat /\ Len(Chain(d, c)) \in Nat
        BY <1>2, DiskAssumption, ChainIs
      <4>2. size <= ClusterSize * Len(Chain(d, c)) /\ size \in Nat /\ n \in Nat
        BY <1>1, <1>2, <2>1, Fat32Assumption DEF Owns, Holds
      <4>3. ClusterSize * Len(Chain(d, c)) \in Nat
        BY <4>1
      <4> QED
        BY <1>3, <4>2, <4>3 DEF Holds
    <3> QED
      BY <1>1, <1>3, <2>1, <3>1 DEF Owns
  <2>2. CASE c # start
    <3>1. c = 0 /\ n = 0
      BY <1>3, <2>2
    <3>2. Chain(d, c) = <<>> /\ Len(Chain(d, c)) = 0 /\ Range(Chain(d, c)) = {Chain(d, c)[i] : i \in 1 .. Len(Chain(d, c))}
      BY <1>2, <3>1, ChainHas
    <3>3. Range(Chain(d, c)) = {}
      BY <3>2
    <3>4. ProperChain(d, Chain(d, c))
      BY <1>2, <3>2, <3>3, DiskAssumption, ProperIs
    <3>5. Holds(Chain(d, c), n)
      BY <3>1, <3>2, DiskAssumption DEF Holds
    <3> QED
      BY <3>1, <3>3, <3>4, <3>5 DEF Owns
  <2> QED
    BY <2>1, <2>2
<1> QED
  BY <1>2, <1>4, HeldOn DEF c, n

\* The slot that fat32_update_file_entry changes, if any: that of the file, or
\* a label of the same name before it.
UpdatesOne(d, e, s, start, size) ==
  \/ e = d
  \/ e = AsIf(d, s, start, size)
  \/ \E t \in Places : EntryAt(d, t).attributes = ATTR_VOLUME_ID /\ e = AsIf(d, t, start, size)

\* A loop over the slots of a cluster leaves the disk or writes the first.
FirstPut(d, e, c, T, changed, m) ==
  /\ \A j \in T : m <= j
  /\ SlotPut(d, c, m, changed[m]) \in Disks => e = SlotPut(d, c, m, changed[m])

\* The disk after it.
LEMMA FirstSlotIs ==
  ASSUME NEW d \in Disks, NEW c, NEW T \in SUBSET (1 .. SlotCount), NEW changed
  PROVE  \/ T = {} /\ Last(InFirstSlot(Unwritten(d), c, T, changed)) = d
         \/ \E m \in T : FirstPut(d, Last(InFirstSlot(Unwritten(d), c, T, changed)), c, T, changed, m)
<1>1. CASE T = {}
  BY <1>1, OneImage DEF InFirstSlot
<1>2. CASE T # {}
  <2> DEFINE m == Min(T)
             e == SlotPut(d, c, m, changed[m])
             images == InFirstSlot(Unwritten(d), c, T, changed)
  <2>1. m \in T /\ \A j \in T : m <= j
    <3>1. T \in SUBSET Nat
      BY DiskAssumption
    <3> QED
      BY <1>2, <3>1, MinIs
  <2>2. images = WriteSector(Unwritten(d), e)
    BY <1>2, OneImage DEF InFirstSlot, SetSlot, SlotPut
  <2>3. e \in Disks => Last(images) = e
    BY <2>2, OneImage, ImagesGrow
  <2>4. FirstPut(d, Last(images), c, T, changed, m)
    BY <2>1, <2>3 DEF FirstPut
  <2> HIDE DEF m
  <2> QED
    BY <2>1, <2>4
<1> QED
  BY <1>1, <1>2

\* So the first slot of the name is the one that the path leads to, unless it
\* is a label's.
LEMMA UpdateIs ==
  ASSUME NEW d \in Disks, NEW p \in Seq(Nat \X Nat), NEW s, Leads(d, p, s),
         NEW start \in {0} \cup Clusters, NEW size \in 0 .. MaxSize,
         \A b \in DirStarts(d) : ProperChain(d, Chain(d, b)), Last(p) = p[Len(p)]
  PROVE  UpdatesOne(d, Last(fat32_update_file_entry(d, p, start, size)), s, start, size)
<1> DEFINE h == fat32_open_file(d, Front(p))
           c == h.start_cluster
           name == Last(p)
           e == Last(fat32_update_file_entry(d, p, start, size))
           T == {i \in 1 .. SlotCount : Used(d.dir[c][i]) /\ d.dir[c][i].name = name}
           changed == Updated(d.dir[c], start, size)
<1>1. Len(p) \in 1 .. Len(p) /\ (LeadsAt(d, p, Len(p), s) \/ ~h.is_dir)
  BY LeadsOpen
<1>2. Len(p) \in Nat /\ Len(p) - 1 \in 0 .. Len(p)
  BY <1>1, LenProperties
<1>3. Front(p) = UpToPart(p, Len(p) - 1) /\ Front(p) \in Seq(Nat \X Nat)
  BY <1>2, PartIs
<1>4. CASE ~h.ctx \/ ~h.is_dir
  BY <1>4, OneImage DEF fat32_update_file_entry, UpdateIn, UpdatesOne
<1>5. CASE h.ctx /\ h.is_dir
  <2>1. c \in DirStarts(d) /\ c \in {0} \cup Clusters
    BY <1>3, <1>5, OpenedWhat, SlotSets
  <2>2. PICK i \in 1 .. Len(Slots(d, c)) : FoundAt(d, c, name, i) /\ s = SlotAt(d, c, i)
    BY <1>1, <1>3, <1>5 DEF LeadsAt
  <2>3. /\ SlotAt(d, c, i) \in Places /\ SlotAt(d, c, i)[1] \in Range(Chain(d, c))
        /\ Looked(d, c, Len(Slots(d, c))) /\ i \in 1 .. Len(AllSlots(d, c))
    BY <2>1, SlotsAre
  <2>4. c \in Clusters
    <3>1. ASSUME c = 0
          PROVE  FALSE
      <4>1. Range(Chain(d, c)) = {Chain(d, c)[k] : k \in 1 .. Len(Chain(d, c))} /\ Len(Chain(d, c)) = 0
        BY <2>1, <3>1, ChainHas
      <4> QED
        BY <2>3, <4>1
    <3> QED
      BY <2>1, <3>1
  <2>5. e = Last(InFirstSlot(Unwritten(d), c, T, changed))
    BY <1>5 DEF fat32_update_file_entry, UpdateIn
  <2> HIDE DEF h, c, e
  <2>6. T \in SUBSET (1 .. SlotCount)
    OBVIOUS
  <2>7. \A j \in 1 .. SlotCount : <<c, j>> \in Places /\ EntryAt(d, <<c, j>>) = d.dir[c][j]
    BY <2>4 DEF Places, EntryAt
  <2>8. ASSUME NEW m \in T
        PROVE  SlotPut(d, c, m, changed[m]) = AsIf(d, <<c, m>>, start, size) /\ AsIf(d, <<c, m>>, start, size) \in Disks
    <3>1. m \in 1 .. SlotCount /\ <<c, m>> \in Places
      BY <2>6, <2>7
    <3>2. changed[m] = Relabelled(EntryAt(d, <<c, m>>), start, size)
      BY <2>7, <3>1 DEF Updated, Relabelled
    <3>3. AsIf(d, <<c, m>>, start, size) \in Disks
      BY <3>1, AsIfIs
    <3> QED
      BY <3>2, <3>3 DEF AsIf
  <2>9. ASSUME NEW m \in T, \A j \in T : m <= j, EntryAt(d, <<c, m>>).attributes # ATTR_VOLUME_ID
        PROVE  s = <<c, m>>
    <3> DEFINE n == Len(Slots(d, c))
    <3>1. /\ SlotCount \in Nat /\ SlotCount <= Len(AllSlots(d, c))
          /\ \A k \in 1 .. SlotCount : SlotAt(d, c, k) = <<c, k>>
      BY <2>1, <2>4, FirstSlots DEF ProperChain
    <3>2. m \in 1 .. SlotCount /\ Used(EntryAt(d, <<c, m>>)) /\ EntryAt(d, <<c, m>>).name = name
      BY <2>7
    <3> HIDE DEF T
    <3>3. n \in Nat /\ i \in 1 .. n
      BY <2>2, <2>3 DEF Looked
    <3>4. Used(EntryAt(d, SlotAt(d, c, i))) /\ EntryAt(d, SlotAt(d, c, i)).name = name
      BY <2>2 DEF FoundAt, Matches
    <3>5. m <= i
      <4>1. CASE i \in 1 .. SlotCount
        <5>1. i \in T
          BY <2>7, <3>1, <3>4, <4>1 DEF T
        <5> QED
          BY <2>9, <5>1
      <4>2. CASE i \notin 1 .. SlotCount
        BY <3>1, <3>2, <3>3, <4>2
      <4> QED
        BY <4>1, <4>2
    <3>6. m \in 1 .. n
      BY <3>1, <3>2, <3>3, <3>5
    <3>7. Matches(d, c, name, m)
      BY <2>9, <3>1, <3>2, <3>6 DEF Matches
    <3>8. i <= m
      BY <2>2, <3>6, <3>7 DEF FoundAt
    <3>9. i = m
      BY <3>1, <3>2, <3>3, <3>5, <3>8
    <3> QED
      BY <2>2, <3>1, <3>2, <3>9
  <2> HIDE DEF T, changed
  <2>10. e = d \/ \E m \in T : FirstPut(d, Last(InFirstSlot(Unwritten(d), c, T, changed)), c, T, changed, m)
    BY <2>5, <2>6, FirstSlotIs
  <2>11. ASSUME NEW m \in T, FirstPut(d, Last(InFirstSlot(Unwritten(d), c, T, changed)), c, T, changed, m)
         PROVE  UpdatesOne(d, e, s, start, size)
    <3>1. (\A j \in T : m <= j) /\ (SlotPut(d, c, m, changed[m]) \in Disks => e = SlotPut(d, c, m, changed[m]))
      BY <2>5, <2>11 DEF FirstPut
    <3>2. e = AsIf(d, <<c, m>>, start, size) /\ <<c, m>> \in Places
      BY <2>6, <2>7, <2>8, <3>1
    <3> QED
      BY <2>9, <3>1, <3>2 DEF UpdatesOne
  <2>12. UpdatesOne(d, e, s, start, size)
    BY <2>10, <2>11 DEF UpdatesOne
  <2> QED
    BY <2>12 DEF e
<1> QED
  BY <1>4, <1>5

\* A label says something else, and the directories are the same.
LEMMA LabelWritten ==
  ASSUME NEW d \in Disks, NEW s, NEW start \in {0} \cup Clusters, NEW size \in 0 .. MaxSize,
         Held(d, s, start, size), NEW t, NEW e,
         t \in Places /\ EntryAt(d, t).attributes = ATTR_VOLUME_ID /\ e = AsIf(d, t, start, size)
  PROVE  SameDirs(d, e) /\ Held(e, s, start, size) /\ EntryAt(e, s) = EntryAt(d, s) /\ e \in Disks
<1> DEFINE a == AsIf(d, s, start, size)
           b == AsIf(e, s, start, size)
<1>1. /\ e \in Disks /\ e.fat = d.fat
      /\ \A u \in Places : /\ u # t => EntryAt(e, u) = EntryAt(d, u)
                           /\ EntryAt(e, u).name = EntryAt(d, u).name
                           /\ EntryAt(e, u).attributes = EntryAt(d, u).attributes
  BY AsIfIs
<1>2. s \in Files(d) /\ s \in Places /\ s # t /\ a \in Disks /\ WellFormed(a)
  BY HeldIs, SlotSets DEF Held
<1>3. /\ a.fat = d.fat /\ EntryAt(a, s) = Relabelled(EntryAt(d, s), start, size)
      /\ \A u \in Places : /\ u # s => EntryAt(a, u) = EntryAt(d, u)
                           /\ EntryAt(a, u).name = EntryAt(d, u).name
                           /\ EntryAt(a, u).attributes = EntryAt(d, u).attributes
  BY <1>2, AsIfIs
<1>4. /\ b \in Disks /\ b.fat = e.fat /\ EntryAt(b, s) = Relabelled(EntryAt(e, s), start, size)
      /\ \A u \in Places : /\ u # s => EntryAt(b, u) = EntryAt(e, u)
                           /\ EntryAt(b, u).name = EntryAt(e, u).name
                           /\ EntryAt(b, u).attributes = EntryAt(e, u).attributes
  BY <1>1, <1>2, AsIfIs
<1>5. EntryAt(e, s) = EntryAt(d, s)
  BY <1>1, <1>2
<1>6. WellFormed(b)
  <2> HIDE DEF a, b
  <2>1. KeepsRest(a, b, {}, {})
    <3>1. \A x \in Clusters \ {} : b.fat[1][x] = a.fat[1][x]
      BY <1>1, <1>3, <1>4
    <3>2. ASSUME NEW u \in Places
          PROVE  /\ EntryAt(b, u).name = EntryAt(a, u).name
                 /\ EntryAt(b, u).attributes = EntryAt(a, u).attributes
                 /\ EntryAt(a, u).attributes # ATTR_VOLUME_ID => EntryAt(b, u) = EntryAt(a, u)
      <4>1. EntryAt(b, u).name = EntryAt(a, u).name /\ EntryAt(b, u).attributes = EntryAt(a, u).attributes
        BY <1>1, <1>3, <1>4
      <4>2. ASSUME EntryAt(a, u).attributes # ATTR_VOLUME_ID
            PROVE  EntryAt(b, u) = EntryAt(a, u)
        <5>1. u # t
          BY <1>3, <4>2
        <5>2. CASE u = s
          BY <1>3, <1>4, <1>5, <5>2
        <5>3. CASE u # s
          BY <1>1, <1>3, <1>4, <5>1, <5>3
        <5> QED
          BY <5>2, <5>3
      <4> QED
        BY <4>1, <4>2
    <3> QED
      BY <3>1, <3>2 DEF KeepsRest
  <2>2. Frees(a, {}, {}) /\ {} \in SUBSET Files(a)
    BY DEF Frees
  <2> QED
    BY <1>2, <1>4, <2>1, <2>2, Regrown
<1>7. \A u \in Places : Used(EntryAt(e, u)) <=> Used(EntryAt(d, u))
  BY <1>1 DEF Used
<1>8. Files(e) = Files(d) /\ Dirs(e) = Dirs(d)
  <2>1. \A u : u \in Files(e) <=> u \in Files(d)
    BY <1>1, <1>7, SlotSets
  <2>2. \A u : u \in Dirs(e) <=> u \in Dirs(d)
    BY <1>1, <1>7, SlotSets
  <2>3. Files(e) = Files(d)
    BY <2>1
  <2>4. Dirs(e) = Dirs(d)
    BY <2>2
  <2> QED
    BY <2>3, <2>4
<1>9. \A u \in Dirs(d) : EntryAt(e, u) = EntryAt(d, u)
  <2>1. t \notin Dirs(d)
    BY SlotSets DEF ATTR_DIRECTORY, ATTR_VOLUME_ID
  <2> QED
    BY <1>1, <2>1, SlotSets
<1>10. DirStarts(e) = DirStarts(d)
  BY <1>8, <1>9 DEF DirStarts
<1>11. ASSUME NEW x \in DirStarts(d)
       PROVE  Chain(e, x) = Chain(d, x)
  <2>1. x \in {0} \cup Clusters /\ ProperChain(d, Chain(d, x))
    BY SlotSets, HeldDirs
  <2> QED
    BY <1>1, <2>1, SameChains
<1>12. SameDirs(d, e)
  BY <1>1, <1>8, <1>9, <1>10, <1>11 DEF SameDirs
<1>13. Held(e, s, start, size)
  BY <1>2, <1>6, <1>8 DEF Held
<1> QED
  BY <1>1, <1>5, <1>12, <1>13

\* After an update the path leads to the file as before, and the file is held;
\* its entry says what the handle says, or what it said.
LEMMA UpdateHeld ==
  ASSUME NEW d \in Disks, NEW p \in Seq(Nat \X Nat), NEW s, Leads(d, p, s),
         NEW start \in {0} \cup Clusters, NEW size \in 0 .. MaxSize, Held(d, s, start, size),
         NEW e, UpdatesOne(d, e, s, start, size)
  PROVE  /\ e \in Disks /\ Leads(e, p, s) /\ Held(e, s, start, size)
         /\ \/ EntryAt(e, s) = EntryAt(d, s)
            \/ EntryAt(e, s).first_cluster = start /\ EntryAt(e, s).file_size = size
<1>1. CASE e = d
  BY <1>1
<1>2. CASE e = AsIf(d, s, start, size)
  <2>1. s \in Places /\ e \in Disks /\ s \in Files(e) /\ WellFormed(e)
    BY <1>2, HeldIs DEF Held
  <2>2. EntryAt(e, s).first_cluster = start /\ EntryAt(e, s).file_size = size
    BY <1>2, <2>1, AsIfIs
  <2>3. Held(e, s, start, size)
    BY <2>1, <2>2, OpenedHeld
  <2>4. SameDirs(d, e)
    BY <1>2, HeldDirs
  <2>5. Leads(e, p, s)
    BY <2>1, <2>4, SameLeads
  <2> QED
    BY <2>1, <2>2, <2>3, <2>5
<1>3. CASE \E t \in Places : EntryAt(d, t).attributes = ATTR_VOLUME_ID /\ e = AsIf(d, t, start, size)
  <2>1. PICK t \in Places : EntryAt(d, t).attributes = ATTR_VOLUME_ID /\ e = AsIf(d, t, start, size)
    BY <1>3
  <2>2. SameDirs(d, e) /\ Held(e, s, start, size) /\ EntryAt(e, s) = EntryAt(d, s) /\ e \in Disks
    <3>1. e \in Disks
      BY <2>1, LabelWritten
    <3>2. SameDirs(d, e)
      BY <2>1, LabelWritten
    <3>3. Held(e, s, start, size)
      BY <2>1, LabelWritten
    <3>4. EntryAt(e, s) = EntryAt(d, s)
      BY <2>1, LabelWritten
    <3> QED
      BY <3>1, <3>2, <3>3, <3>4
  <2>3. Leads(e, p, s)
    BY <2>2, SameLeads
  <2> QED
    BY <2>2, <2>3
<1> QED
  BY <1>1, <1>2, <1>3 DEF UpdatesOne

-----------------------------------------------------------------------------
(* A write and the chain of its file *)

\* An offset below the end of the clusters of a chain is in one of them.
LEMMA InChain ==
  ASSUME NEW x \in Nat, NEW n \in Nat, x < ClusterSize * n
  PROVE  /\ x \div ClusterSize \in Nat /\ (x \div ClusterSize) + 1 \in 1 .. n
         /\ \A m \in 0 .. ClusterSize - (x % ClusterSize) : x + m <= ClusterSize * n
<1> DEFINE q == x \div ClusterSize
           r == x % ClusterSize
<1>1. q \in 0 .. n - 1 /\ r \in 0 .. ClusterSize - 1 /\ x = (ClusterSize * q) + r /\ ClusterSize \in Nat \ {0}
  BY Division, DiskAssumption
<1> HIDE DEF q, r
<1>2. ASSUME NEW m \in 0 .. ClusterSize - r
      PROVE  x + m <= ClusterSize * n
  <2>1. x + m <= (ClusterSize * q) + ClusterSize
    BY <1>1, <1>2
  <2>2. (ClusterSize * q) + ClusterSize = ClusterSize * (q + 1)
    BY <1>1
  <2>3. ClusterSize * (q + 1) <= ClusterSize * n
    <3>1. q + 1 <= n /\ q + 1 \in Nat /\ n - (q + 1) \in Nat
      BY <1>1
    <3>2. ClusterSize * n = (ClusterSize * (q + 1)) + (ClusterSize * (n - (q + 1)))
      BY <1>1, <3>1
    <3>3. ClusterSize * (n - (q + 1)) \in Nat /\ ClusterSize * (q + 1) \in Nat
      BY <1>1, <3>1
    <3> QED
      BY <3>2, <3>3
  <2> QED
    BY <1>1, <1>2, <2>1, <2>2, <2>3
<1> QED
  BY <1>1, <1>2 DEF q, r

\* Bytes from an offset on that stay in its cluster.
LEMMA Staying ==
  ASSUME NEW x \in Nat, NEW m \in Nat \ {0}, m <= ClusterSize - (x % ClusterSize)
  PROVE  /\ ((x + m) - 1) \div ClusterSize = x \div ClusterSize
         /\ (x + m) % ClusterSize # 0 => /\ (x + m) \div ClusterSize = x \div ClusterSize
                                         /\ (x + m) % ClusterSize = (x % ClusterSize) + m
<1>1. ClusterSize \in Nat \ {0} /\ x % ClusterSize \in 0 .. ClusterSize - 1
  BY Within
<1> DEFINE r == x % ClusterSize
<1>2. r \in Nat /\ r + m <= ClusterSize /\ r + (m - 1) < ClusterSize /\ m - 1 \in Nat
  BY <1>1
<1>3. (x + (m - 1)) \div ClusterSize = x \div ClusterSize
  <2>1. r + (m - 1) <= ClusterSize
    BY <1>1, <1>2
  <2> QED
    BY <1>1, <1>2, <2>1, GoingOn
<1>4. (x + m) - 1 = x + (m - 1)
  OBVIOUS
<1>5. r + m < ClusterSize => (x + m) \div ClusterSize = x \div ClusterSize /\ (x + m) % ClusterSize = r + m
  BY <1>1, <1>2, GoingOn
<1>6. r + m = ClusterSize => (x + m) % ClusterSize = 0
  BY <1>1, <1>2, GoingOn
<1> HIDE DEF r
<1>7. r + m < ClusterSize \/ r + m = ClusterSize
  BY <1>1, <1>2
<1> QED
  BY <1>3, <1>4, <1>5, <1>6, <1>7 DEF r

\* An offset at the start of a cluster.
LEMMA AtStart ==
  ASSUME NEW x \in Nat, x % ClusterSize = 0
  PROVE  /\ x \div ClusterSize \in Nat /\ x = ClusterSize * (x \div ClusterSize)
         /\ x > 0 => /\ (x - 1) \div ClusterSize + 1 = x \div ClusterSize
                     /\ x \div ClusterSize >= 1
         /\ x = 0 => x \div ClusterSize = 0
<1> DEFINE q == x \div ClusterSize
<1>1. ClusterSize \in Nat \ {0}
  BY DiskAssumption
<1>2. q \in Nat /\ x = ClusterSize * q
  <2>1. x < ClusterSize * (x + 1)
    <3>1. ClusterSize * (x + 1) >= x + 1
      <4>1. ClusterSize * (x + 1) = (x + 1) + ((ClusterSize - 1) * (x + 1))
        BY <1>1
      <4>2. (ClusterSize - 1) * (x + 1) \in Nat
        BY <1>1
      <4> QED
        BY <4>1, <4>2
    <3>2. ClusterSize * (x + 1) \in Nat
      BY <1>1
    <3> QED
      BY <3>1, <3>2
  <2>2. q \in 0 .. (x + 1) - 1 /\ x = (ClusterSize * q) + (x % ClusterSize)
    BY <1>1, <2>1, Division
  <2> HIDE DEF q
  <2>3. ClusterSize * q \in Nat
    BY <1>1, <2>2
  <2> QED
    BY <2>2, <2>3
<1> HIDE DEF q
<1>3. q = 0 => x = 0
  BY <1>1, <1>2
<1>4. x = 0 => q = 0
  <2>1. q >= 1 => ClusterSize * q >= 1
    <3>1. ASSUME q >= 1
          PROVE  ClusterSize * q >= 1
      <4>1. ClusterSize * q = ClusterSize + (ClusterSize * (q - 1)) /\ ClusterSize * (q - 1) \in Nat
        BY <1>1, <1>2, <3>1
      <4> QED
        BY <1>1, <4>1
    <3> QED
      BY <3>1
  <2> QED
    BY <1>2, <2>1
<1>5. ASSUME x > 0
      PROVE  (x - 1) \div ClusterSize = q - 1
  <2>1. q - 1 \in Nat /\ ClusterSize - 1 \in 0 .. ClusterSize - 1
    BY <1>1, <1>2, <1>3, <1>5
  <2>2. x - 1 = (ClusterSize * (q - 1)) + (ClusterSize - 1)
    BY <1>1, <1>2
  <2>3. ((ClusterSize * (q - 1)) + (ClusterSize - 1)) \div ClusterSize = q - 1
    BY <1>1, <2>1, DivisionIs
  <2> QED
    BY <2>2, <2>3
<1> QED
  BY <1>2, <1>3, <1>4, <1>5 DEF q

\* A chain that has clusters for the size.
Has(d, c, size, R) ==
  /\ ProperChain(d, Chain(d, c)) /\ Holds(Chain(d, c), size)
  /\ \A x \in Range(Chain(d, c)) : x \in R

\* It has them for less, and on a disk with the same FAT.
LEMMA HasLess ==
  ASSUME NEW d \in Disks, NEW e \in Disks, e.fat[1] = d.fat[1], NEW c \in {0} \cup Clusters,
         NEW size \in Nat, NEW R, Has(d, c, size, R), NEW m \in 0 .. size
  PROVE  Has(e, c, m, R) /\ Chain(e, c) = Chain(d, c)
<1>1. Chain(e, c) = Chain(d, c) /\ ProperChain(e, Chain(e, c))
  BY SameChains DEF Has
<1>2. Holds(Chain(e, c), m)
  <2>1. ClusterSize \in Nat /\ Len(Chain(d, c)) \in Nat
    BY DiskAssumption, ChainIs
  <2>2. size <= ClusterSize * Len(Chain(d, c)) /\ ClusterSize * Len(Chain(d, c)) \in Nat
    BY <2>1 DEF Has, Holds
  <2> QED
    BY <1>1, <2>2 DEF Holds
<1> QED
  BY <1>1, <1>2 DEF Has

\* Owning is having clusters, or none for no bytes.
LEMMA OwnsHas ==
  ASSUME NEW d, NEW c, NEW size, NEW R
  PROVE  Owns(d, c, size, R) <=> Has(d, c, size, R) /\ (size = 0 => c = 0)
BY DEF Owns, Has

\* A chain with a new cluster behind its first ones, which the size fills.
GrownTo(e, c, size, new, R) ==
  /\ Has(e, c, size, R) /\ size < ClusterSize * Len(Chain(e, c))
  /\ Chain(e, c)[(size \div ClusterSize) + 1] = new

\* What Link and MarkEnd do to the FAT makes one of the file's.
LEMMA Grown ==
  ASSUME NEW d \in Disks, NEW e \in Disks, NEW c \in Clusters, NEW size \in Nat \ {0}, NEW R,
         Has(d, c, size, R), size % ClusterSize = 0,
         NEW cur, cur = Chain(d, c)[((size - 1) \div ClusterSize) + 1],
         NEW new \in Clusters, new \in R, d.fat[1][new] = 0,
         e.fat[1] = [[d.fat[1] EXCEPT ![cur] = new] EXCEPT ![new] = FAT32_EOC]
  PROVE  /\ GrownTo(e, c, size, new, R)
         /\ \A i \in 1 .. size \div ClusterSize : Chain(e, c)[i] = Chain(d, c)[i]
<1> DEFINE s == Chain(d, c)
           t == Chain(e, c)
           k == size \div ClusterSize
<1>0. s = Chain(d, c) /\ t = Chain(e, c) /\ c \in {0} \cup Clusters
  OBVIOUS
<1>1. /\ k \in Nat /\ size = ClusterSize * k /\ k >= 1
      /\ ((size - 1) \div ClusterSize) + 1 = k
  BY AtStart
<1>2. ClusterSize \in Nat \ {0} /\ TotalClusters \in Nat
  BY DiskAssumption
<1>3. /\ s \in Seq(Clusters) /\ Len(s) \in Nat /\ Range(s) = {s[i] : i \in 1 .. Len(s)}
      /\ \A i \in 1 .. Len(s) : s[i] \in Clusters
  <2> HIDE DEF s
  <2>1. s \in Seq(Clusters) /\ Len(s) \in Nat
    BY <1>0, ChainHas
  <2>2. Range(s) = {s[i] : i \in 1 .. Len(s)}
    BY <1>0, ChainRange
  <2>3. \A i \in 1 .. Len(s) : s[i] \in Clusters
    BY <1>0, ChainHas
  <2> QED
    BY <2>1, <2>2, <2>3
<1>4. /\ Len(s) <= TotalClusters /\ size <= ClusterSize * Len(s)
      /\ (\A i \in 1 .. Len(s) : d.fat[1][s[i]] # 0) /\ (\A i \in 1 .. Len(s) : s[i] \in R)
  BY <1>3 DEF Has, ProperChain, Holds
<1>5. \A i, j \in 1 .. Len(s) : s[i] = s[j] => i = j
  BY <1>4, ChainDistinct
<1> HIDE DEF k
<1>6. k \in 1 .. Len(s)
  <2>1. ASSUME k > Len(s)
        PROVE  FALSE
    <3>1. ClusterSize * k = (ClusterSize * Len(s)) + (ClusterSize * (k - Len(s)))
      BY <1>1, <1>2, <1>3
    <3>2. ClusterSize * (k - Len(s)) >= 1
      <4>1. k - Len(s) \in Nat \ {0}
        BY <1>1, <1>3, <2>1
      <4>2. ClusterSize * (k - Len(s)) = (k - Len(s)) + ((ClusterSize - 1) * (k - Len(s)))
        BY <1>2, <4>1
      <4>3. (ClusterSize - 1) * (k - Len(s)) \in Nat
        BY <1>2, <4>1
      <4> QED
        BY <4>1, <4>2, <4>3
    <3>3. ClusterSize * Len(s) \in Nat /\ size <= ClusterSize * Len(s) /\ size = ClusterSize * k
      BY <1>1, <1>2, <1>3, <1>4
    <3> DEFINE x == ClusterSize * Len(s)
               y == ClusterSize * (k - Len(s))
    <3>4. x \in Nat /\ size <= x /\ size = x + y /\ y >= 1 /\ y \in Int
      BY <1>1, <1>2, <1>3, <3>1, <3>2, <3>3
    <3> HIDE DEF x, y
    <3> QED
      BY <3>4
  <2> QED
    BY <1>1, <1>3, <2>1
<1> HIDE DEF s
<1>7. cur = s[k] /\ cur \in Clusters /\ cur # new
  BY <1>1, <1>3, <1>4, <1>6 DEF s
<1>8. new \notin Range(s)
  BY <1>3, <1>4
<1>9. d.fat[1] \in Sectors /\ DOMAIN d.fat[1] = Clusters
  BY DiskParts DEF Sectors
<1>10. /\ e.fat[1][cur] = new /\ e.fat[1][new] = FAT32_EOC
       /\ \A x \in Clusters : x # cur /\ x # new => e.fat[1][x] = d.fat[1][x]
  BY <1>7, <1>9
<1>11. \A i \in 1 .. k - 1 : e.fat[1][s[i]] = d.fat[1][s[i]]
  <2>1. ASSUME NEW i \in 1 .. k - 1
        PROVE  e.fat[1][s[i]] = d.fat[1][s[i]]
    <3>1. i \in 1 .. Len(s) /\ i # k
      BY <1>1, <1>3, <1>6
    <3>2. s[i] \in Clusters /\ s[i] # cur /\ s[i] # new
      BY <1>3, <1>4, <1>5, <1>6, <1>7, <3>1
    <3> QED
      BY <1>10, <3>2
  <2> QED
    BY <2>1
<1>12. /\ t \in Seq(Clusters) /\ Len(t) = k + 1 /\ k + 1 <= TotalClusters
       /\ t[k + 1] = new /\ \A i \in 1 .. k : t[i] = s[i]
  <2>1. e.fat[1][s[k]] = new
    BY <1>7, <1>10
  <2>2. CutAt(d, e, Chain(d, c), k, new)
    BY <1>4, <1>6, <1>8, <1>10, <1>11, <2>1 DEF s, CutAt
  <2>3. CutTo(Chain(e, c), Chain(d, c), k, new)
    BY <2>2, ChainCut
  <2> QED
    BY <2>3 DEF s, CutTo
<1> HIDE DEF t
<1>13. \A i \in 1 .. Len(t) : e.fat[1][t[i]] # 0 /\ t[i] \in R
  <2>1. ASSUME NEW i \in 1 .. Len(t)
        PROVE  e.fat[1][t[i]] # 0 /\ t[i] \in R
    <3>1. CASE i = k + 1
      BY <1>10, <1>12, <3>1 DEF FAT32_EOC
    <3>2. CASE i # k + 1
      <4>1. i \in 1 .. k /\ i \in 1 .. Len(s)
        BY <1>1, <1>3, <1>6, <1>12, <3>2
      <4>2. t[i] = s[i] /\ s[i] \in R /\ s[i] \in Clusters /\ d.fat[1][s[i]] # 0
        BY <1>3, <1>4, <1>12, <4>1
      <4>3. e.fat[1][s[i]] # 0
        <5>1. new # 0
          BY DiskAssumption DEF Clusters
        <5>2. s[i] # new
          BY <4>2
        <5> QED
          BY <1>10, <4>2, <5>1, <5>2
      <4> QED
        BY <4>2, <4>3
    <3> QED
      BY <3>1, <3>2
  <2> QED
    BY <2>1
<1>14. size < ClusterSize * Len(t)
  <2>1. ClusterSize * (k + 1) = (ClusterSize * k) + ClusterSize
    BY <1>1, <1>2
  <2> QED
    BY <1>1, <1>2, <1>12, <2>1
<1>15. ProperChain(e, t) /\ Holds(t, size) /\ (\A x \in Range(t) : x \in R)
  <2>1. DOMAIN t = 1 .. Len(t) /\ Range(t) = {t[i] : i \in 1 .. Len(t)}
    BY <1>12, LenProperties DEF Range
  <2>2. ProperChain(e, t)
    BY <1>12, <1>13, <2>1 DEF ProperChain
  <2>3. Holds(t, size)
    <3>1. ClusterSize * Len(t) \in Nat
      BY <1>1, <1>2, <1>12
    <3> QED
      BY <1>14, <3>1 DEF Holds
  <2> QED
    BY <1>13, <2>1, <2>2, <2>3
<1> QED
  BY <1>12, <1>14, <1>15 DEF t, s, k, GrownTo, Has

\* The first cluster of a file.
LEMMA Started ==
  ASSUME NEW e \in Disks, NEW R, NEW new \in Clusters, new \in R, e.fat[1][new] = FAT32_EOC
  PROVE  GrownTo(e, new, 0, new, R)
<1>1. Chain(e, new) = <<new>>
  BY ChainOfOne
<1>2. Len(<<new>>) = 1 /\ <<new>>[1] = new /\ Range(<<new>>) = {new}
  BY DEF Range
<1>3. ClusterSize \in Nat \ {0} /\ TotalClusters \in Nat \ {0}
  BY DiskAssumption
<1>4. ProperChain(e, <<new>>)
  BY <1>2, <1>3 DEF ProperChain, FAT32_EOC
<1>5. Holds(<<new>>, 0) /\ 0 < ClusterSize * Len(<<new>>)
  BY <1>2, <1>3 DEF Holds
<1>6. 0 \div ClusterSize = 0
  <2>1. 0 \in Nat /\ 0 % ClusterSize = 0
    <3>1. ((ClusterSize * 0) + 0) % ClusterSize = 0
      BY <1>3, DivisionIs
    <3> QED
      BY <1>3, <3>1
  <2> QED
    BY <2>1, AtStart
<1> QED
  BY <1>1, <1>2, <1>4, <1>5, <1>6 DEF GrownTo, Has

\* What a write keeps: the directories, everything that is not in R, and that
\* a cluster is taken.
Keeps(d, e, R) ==
  /\ e.dir = d.dir
  /\ \A x \in Clusters \ R : e.fat[1][x] = d.fat[1][x] /\ e.data[x] = d.data[x]
  /\ \A x \in Clusters : d.fat[1][x] # 0 => e.fat[1][x] # 0

FatSet(fat, c, value) == [fat EXCEPT ![c] = value]

\* A link to or behind a cluster of R is written.
LEMMA SetKeeps ==
  ASSUME NEW d \in Disks, NEW images \in Images, NEW R \in SUBSET Clusters, Keeps(d, Last(images), R),
         NEW c \in R, NEW value \in Links, value # 0
  PROVE  LET new == set_fat_entry(images, c, value)
             fat == FatSet(Last(images).fat[1], c, value)
         IN  /\ new \in Images /\ Last(new).fat[1] = fat /\ Keeps(d, Last(new), R)
             /\ Last(new).dir = Last(images).dir /\ Last(new).data = Last(images).data
             /\ \A im \in Range(new) : im \in Range(images) \/ (Keeps(d, im, R) /\ im.fat[1] = fat)
<1> DEFINE new == set_fat_entry(images, c, value)
           e == Last(images)
           fat == FatSet(e.fat[1], c, value)
<1>1. e \in Disks /\ e.fat[1] \in Sectors /\ DOMAIN e.fat[1] = Clusters /\ c \in Clusters
  BY ImagesGrow, DiskParts DEF Sectors
<1>2. /\ new \in Images /\ Last(new).fat[1] = fat /\ Last(new).dir = e.dir /\ Last(new).data = e.data
      /\ \A im \in Range(new) : im \in Range(images) \/ (im.fat[1] = fat /\ im.dir = e.dir /\ im.data = e.data)
  <2>1. new = CopySector(images, fat)
    BY DEF set_fat_entry, FatSet
  <2>2. fat \in Sectors
    BY <1>1 DEF Sectors, FatSet
  <2> HIDE DEF new, fat
  <2>3. Copied(images, new, fat, FatCount)
    BY <2>1, <2>2, SectorCopied
  <2>4. 1 \in 1 .. FatCount /\ 1 <= FatCount
    BY DiskAssumption
  <2> QED
    BY <2>3, <2>4 DEF Copied
<1>3. fat[c] = value /\ \A x \in Clusters : x # c => fat[x] = e.fat[1][x]
  BY <1>1 DEF FatSet
<1> HIDE DEF new, fat
<1>4. Keeps(d, e, R)
  OBVIOUS
<1> HIDE DEF e
<1>5. ASSUME NEW im, im.fat[1] = fat, im.dir = e.dir, im.data = e.data
      PROVE  Keeps(d, im, R)
  <2>1. \A x \in Clusters \ R : im.fat[1][x] = d.fat[1][x] /\ im.data[x] = d.data[x]
    BY <1>3, <1>4, <1>5 DEF Keeps
  <2>2. \A x \in Clusters : d.fat[1][x] # 0 => im.fat[1][x] # 0
    BY <1>3, <1>4, <1>5 DEF Keeps
  <2> QED
    BY <1>4, <1>5, <2>1, <2>2 DEF Keeps
<1>6. Keeps(d, Last(new), R)
  BY <1>2, <1>5
<1>7. \A im \in Range(new) : im \in Range(images) \/ (Keeps(d, im, R) /\ im.fat[1] = fat)
  BY <1>2, <1>5
<1> QED
  BY <1>2, <1>6, <1>7 DEF new, fat, e

\* The cluster that is taken is free, if there is one.
LEMMA FreeIs ==
  ASSUME NEW d \in Disks, NEW new, new = find_free_cluster(d)
  PROVE  /\ new = 0 => FreeClusters(d) = {}
         /\ new # 0 => new \in Clusters /\ d.fat[1][new] = 0
<1>1. FreeClusters(d) \in SUBSET Nat /\ \A x \in FreeClusters(d) : x # 0
  BY DiskAssumption DEF FreeClusters, Clusters
<1>2. CASE FreeClusters(d) = {}
  BY <1>2 DEF find_free_cluster
<1>3. CASE FreeClusters(d) # {}
  <2>1. new \in FreeClusters(d)
    BY <1>1, <1>3, MinIs DEF find_free_cluster
  <2> QED
    BY <1>1, <1>3, <2>1 DEF FreeClusters
<1> QED
  BY <1>2, <1>3

\* How a handle and the images go on when the chain gets a new cluster.
Chained(h, new) ==
  IF h.current_cluster = 0 THEN [h EXCEPT !.start_cluster = new, !.current_cluster = new]
  ELSE [h EXCEPT !.current_cluster = new]
LinkImages(images, c, new) == IF c = 0 THEN images ELSE set_fat_entry(images, c, new)

\* The handle.
LEMMA ChainedIs ==
  ASSUME NEW h \in Handles, NEW new \in Clusters
  PROVE  /\ Chained(h, new).current_cluster = new
         /\ Chained(h, new).start_cluster = IF h.current_cluster = 0 THEN new ELSE h.start_cluster
         /\ Chained(h, new).file_offset = h.file_offset /\ Chained(h, new).size = h.size
         /\ Chained(h, new).cluster_offset = h.cluster_offset
BY DEF Chained, Handles

\* Extend does that.
LEMMA ExtendIs ==
  ASSUME NEW d, NEW w \in Writing(d), NEW new \in Clusters
  PROVE  /\ Extend(w, new).h = Chained(w.h, new) /\ Extend(w, new).todo = w.todo
         /\ Extend(w, new).images =
              set_fat_entry(LinkImages(w.images, w.h.current_cluster, new), new, FAT32_EOC)
<1>1. w \in [images : ImagesAfter(d), h : Handles, todo : Seq(Bytes)]
  BY DEF Writing
<1>2. new # 0
  BY DiskAssumption DEF Clusters
<1>3. w.h \in Handles
  BY <1>1
<1>4. CASE w.h.current_cluster = 0
  <2> DEFINE v == [w EXCEPT !.h.start_cluster = new]
  <2>1. Link(w, new) = v
    BY <1>4 DEF Link
  <2>2. v.images = w.images /\ v.todo = w.todo /\ v.h = [w.h EXCEPT !.start_cluster = new]
    BY <1>1
  <2>3. v \in [images : ImagesAfter(d), h : Handles, todo : Seq(Bytes)]
    BY <1>1, <1>3 DEF Handles
  <2> HIDE DEF v
  <2>4. /\ MarkEnd(v, new).images = set_fat_entry(v.images, new, FAT32_EOC)
        /\ MarkEnd(v, new).todo = v.todo /\ MarkEnd(v, new).h = [v.h EXCEPT !.current_cluster = new]
    BY <2>3 DEF MarkEnd
  <2>5. Extend(w, new) = MarkEnd(v, new)
    BY <1>2, <2>1 DEF Extend
  <2> QED
    BY <1>4, <2>2, <2>4, <2>5 DEF Chained, LinkImages
<1>5. CASE w.h.current_cluster # 0
  <2> DEFINE linked == set_fat_entry(w.images, w.h.current_cluster, new)
             v == [w EXCEPT !.images = linked]
  <2>1. Link(w, new) = v
    BY <1>5 DEF Link
  <2>2. linked \in ImagesAfter(d)
    <3>1. w.images \in ImagesAfter(d) /\ new \in Links
      BY <1>1 DEF Links
    <3> QED
      BY <3>1, EntrySetAfter
  <2>3. linked = LinkImages(w.images, w.h.current_cluster, new)
    BY <1>5 DEF LinkImages
  <2> HIDE DEF linked
  <2>4. v \in [images : ImagesAfter(d), h : Handles, todo : Seq(Bytes)] /\ v.images = linked /\ v.h = w.h /\ v.todo = w.todo
    BY <1>1, <2>2
  <2> HIDE DEF v
  <2>5. /\ MarkEnd(v, new).images = set_fat_entry(v.images, new, FAT32_EOC)
        /\ MarkEnd(v, new).todo = v.todo /\ MarkEnd(v, new).h = [v.h EXCEPT !.current_cluster = new]
    BY <2>4 DEF MarkEnd
  <2>6. Extend(w, new) = MarkEnd(v, new)
    BY <1>2, <2>1 DEF Extend
  <2> QED
    BY <1>5, <2>3, <2>4, <2>5, <2>6 DEF Chained
<1> QED
  BY <1>4, <1>5

\* The FAT with the new link and the new end, and the images on the way to it:
\* after the link and before the end, the link leads to a free cluster.
LinkedFat(fat, c, new) == FatSet(IF c = 0 THEN fat ELSE FatSet(fat, c, new), new, FAT32_EOC)
ChainedImages(images, c, new) == set_fat_entry(LinkImages(images, c, new), new, FAT32_EOC)
Midway(d, e, R, im) == Keeps(d, im, R) /\ (Dangling(im) \/ im.fat[1] = e.fat[1])

\* What the images are.
LEMMA ImagesChained ==
  ASSUME NEW d \in Disks, NEW R \in SUBSET Clusters, NEW images \in Images, Keeps(d, Last(images), R),
         NEW c \in {0} \cup R, c # 0 => Last(images).fat[1][c] # 0,
         NEW new \in R, Last(images).fat[1][new] = 0
  PROVE  LET v == ChainedImages(images, c, new)
         IN  /\ v \in Images /\ Keeps(d, Last(v), R)
             /\ Last(v).fat[1] = LinkedFat(Last(images).fat[1], c, new)
             /\ Last(v).dir = Last(images).dir /\ Last(v).data = Last(images).data
             /\ \A im \in Range(v) : im \in Range(images) \/ Midway(d, Last(v), R, im)
<1> DEFINE e == Last(images)
           j == LinkImages(images, c, new)
           fat == IF c = 0 THEN e.fat[1] ELSE FatSet(e.fat[1], c, new)
           v == ChainedImages(images, c, new)
           end == FatSet(fat, new, FAT32_EOC)
<1>1. e \in Disks /\ e.fat[1] \in Sectors /\ DOMAIN e.fat[1] = Clusters /\ new \in Clusters /\ 0 \notin R
  BY ImagesGrow, DiskParts, DiskAssumption DEF Sectors, Clusters
<1>2. new # 0 /\ new \in Links /\ FAT32_EOC \in Links /\ FAT32_EOC # 0
  BY <1>1, DiskAssumption DEF Links, Clusters, FAT32_EOC
<1>3. /\ j \in Images /\ Last(j).fat[1] = fat /\ Keeps(d, Last(j), R)
      /\ Last(j).dir = e.dir /\ Last(j).data = e.data
      /\ \A im \in Range(j) : im \in Range(images) \/ (Keeps(d, im, R) /\ im.fat[1] = fat /\ c # 0)
  <2>1. CASE c = 0
    BY <2>1 DEF LinkImages
  <2>2. CASE c # 0
    <3>1. c \in R /\ j = set_fat_entry(images, c, new)
      BY <2>2 DEF LinkImages
    <3>2. fat = FatSet(Last(images).fat[1], c, new)
      BY <2>2
    <3> HIDE DEF j
    <3>3. /\ j \in Images /\ Last(j).fat[1] = FatSet(Last(images).fat[1], c, new) /\ Keeps(d, Last(j), R)
          /\ Last(j).dir = Last(images).dir /\ Last(j).data = Last(images).data
      BY <1>2, <3>1, SetKeeps
    <3>4. \A im \in Range(j) : im \in Range(images)
            \/ (Keeps(d, im, R) /\ im.fat[1] = FatSet(Last(images).fat[1], c, new))
      BY <1>2, <3>1, SetKeeps
    <3> HIDE DEF fat
    <3> QED
      BY <2>2, <3>2, <3>3, <3>4
  <2> QED
    BY <2>1, <2>2
<1>4. c # 0 => fat[c] = new /\ fat[new] = 0
  BY <1>1 DEF FatSet
<1> HIDE DEF j, fat
<1>5. /\ v \in Images /\ Last(v).fat[1] = end /\ Keeps(d, Last(v), R)
      /\ Last(v).dir = e.dir /\ Last(v).data = e.data
      /\ \A im \in Range(v) : im \in Range(j) \/ (Keeps(d, im, R) /\ im.fat[1] = end)
  <2>1. v = set_fat_entry(j, new, FAT32_EOC) /\ end = FatSet(Last(j).fat[1], new, FAT32_EOC)
    BY <1>3 DEF j, ChainedImages
  <2> HIDE DEF v, end
  <2>2. /\ v \in Images /\ Last(v).fat[1] = end /\ Keeps(d, Last(v), R)
        /\ Last(v).dir = Last(j).dir /\ Last(v).data = Last(j).data
    BY <1>2, <1>3, <2>1, SetKeeps
  <2>3. \A im \in Range(v) : im \in Range(j) \/ (Keeps(d, im, R) /\ im.fat[1] = end)
    BY <1>2, <1>3, <2>1, SetKeeps
  <2> QED
    BY <1>3, <2>2, <2>3
<1>6. end = LinkedFat(e.fat[1], c, new)
  BY DEF fat, LinkedFat
<1> HIDE DEF v, end
<1>7. ASSUME NEW im, Keeps(d, im, R), im.fat[1] = fat, c # 0
      PROVE  Midway(d, Last(v), R, im)
  <2>1. c \in Clusters
    BY <1>7
  <2>2. Dangling(im)
    BY <1>1, <1>4, <1>7, <2>1 DEF Dangling
  <2> QED
    BY <1>7, <2>2 DEF Midway
<1>8. \A im \in Range(v) : im \in Range(images) \/ Midway(d, Last(v), R, im)
  BY <1>3, <1>5, <1>7 DEF Midway
<1> QED
  BY <1>5, <1>6, <1>8 DEF v

-----------------------------------------------------------------------------
(* The loop of fat32_write *)

\* The offset has gone over a boundary of clusters inside the file, or on to
\* one.
Passed(f, x) == InteriorBoundary(f.file_offset, x, f.size)

\* The FAT has changed in a write that goes over such a boundary and behind
\* the file.
Spoils(d, f, x, e) == x > f.size /\ Passed(f, x) /\ e.fat[1] # d.fat[1]

\* What a crash may leave, in a write of n bytes.
Leaves(d, f, n, R, e) ==
  /\ Keeps(d, e, R)
  /\ \/ Spoils(d, f, f.file_offset + n, e) \/ Dangling(e)
     \/ f.start_cluster = 0 \/ Owns(e, f.start_cluster, f.size, R)

\* How far the handle h has come, with the bytes todo to go.
Course(f, bytes, h, todo) ==
  /\ h.file_offset >= f.file_offset /\ h.file_offset + Len(todo) <= f.file_offset + Len(bytes)
  /\ h.size >= f.size /\ (h.size = f.size \/ h.size = h.file_offset)
  /\ f.start_cluster # 0 => h.start_cluster = f.start_cluster
  /\ \A i \in 1 .. Len(todo) : todo[i] = bytes[(h.file_offset - f.file_offset) + i]
AllToGo(f, bytes, h, todo) == h.file_offset + Len(todo) = f.file_offset + Len(bytes)

\* Where the handle stands.
Standing(d, h) ==
  /\ h.file_offset < h.size =>
       /\ h.cluster_offset = InCluster(h)
       /\ h.current_cluster = Chain(d, h.start_cluster)[(h.file_offset \div ClusterSize) + 1]
  /\ h.file_offset = h.size =>
       h.current_cluster = IF h.size = 0 THEN h.start_cluster
                           ELSE Chain(d, h.start_cluster)[((h.size - 1) \div ClusterSize) + 1]
Placed(d, h) ==
  /\ h.file_offset < h.size => h.cluster_offset = InCluster(h)
  /\ h.current_cluster = Chain(d, h.start_cluster)[(h.file_offset \div ClusterSize) + 1]

\* The bytes of the file: the old ones, with those that were taken over them.
ByteAt(d, s, i) == d.data[s[((i - 1) \div ClusterSize) + 1]][(i - 1) % ClusterSize]
Shows(d, f, bytes, e, h) ==
  \A i \in 1 .. h.size :
    ByteAt(e, Chain(e, h.start_cluster), i) =
      IF i - f.file_offset \in 1 .. h.file_offset - f.file_offset THEN bytes[i - f.file_offset]
      ELSE ByteAt(d, Chain(d, f.start_cluster), i)

\* What every round of the loop keeps, if the images in Z were there before.
Common(d, f, bytes, R, Z, w) ==
  /\ Course(f, bytes, w.h, w.todo) /\ Keeps(d, Last(w.images), R)
  /\ w.h.current_cluster \in {0} \cup R
  /\ w.h.current_cluster # 0 => Last(w.images).fat[1][w.h.current_cluster] # 0
  /\ w.h.start_cluster # 0 => w.h.current_cluster # 0
  /\ \A im \in Range(w.images) : im \in Z \/ Leaves(d, f, Len(bytes), R, im)
Growing(d, f, bytes, R, Z) ==
  {w \in Writing(d) :
     LET e == Last(w.images)
     IN  /\ Common(d, f, bytes, R, Z, w)
         /\ AllToGo(f, bytes, w.h, w.todo) \/ (w.todo = <<>> /\ FreeClusters(e) = {})
         /\ \/ Spoils(d, f, f.file_offset + Len(bytes), e) /\ Passed(f, w.h.file_offset)
            \/ Owns(e, w.h.start_cluster, w.h.size, R)
         /\ \/ Passed(f, w.h.file_offset)
            \/ Standing(e, w.h) /\ Shows(d, f, bytes, e, w.h)}

\* The same with room for a byte.
Roomy(d, f, bytes, R, Z) ==
  {w \in Writing(d) :
     LET e == Last(w.images)
     IN  /\ Common(d, f, bytes, R, Z, w) /\ w.todo # <<>> /\ AllToGo(f, bytes, w.h, w.todo)
         /\ \/ Spoils(d, f, f.file_offset + Len(bytes), e) /\ Passed(f, w.h.file_offset)
            \/ /\ Has(e, w.h.start_cluster, w.h.size, R)
               /\ w.h.file_offset < ClusterSize * Len(Chain(e, w.h.start_cluster))
         /\ \/ Passed(f, w.h.file_offset)
            \/ Placed(e, w.h) /\ Shows(d, f, bytes, e, w.h)}

\* What the write starts from.
Begins(d, f, bytes, R) ==
  /\ f.ctx /\ f.file_offset <= f.size /\ f.file_offset + Len(bytes) <= MaxSize
  /\ \A x \in Clusters \ R : d.fat[1][x] # 0
  /\ Owns(d, f.start_cluster, f.size, R)

\* What the numbers of a write are.
LEMMA GrowingIs ==
  ASSUME NEW d \in Disks, NEW w \in Writing(d), NEW h, h = w.h
  PROVE  /\ w.images \in Images /\ w.images \in ImagesAfter(d) /\ Last(w.images) \in Disks
         /\ h \in Handles /\ h.ctx /\ w.todo \in Seq(Bytes) /\ Len(w.todo) \in Nat
         /\ h.file_offset \in Nat /\ h.size \in Nat /\ h.size \in 0 .. MaxSize /\ h.file_offset <= h.size
         /\ h.start_cluster \in {0} \cup Clusters /\ h.current_cluster \in {0} \cup Clusters
         /\ h.cluster_offset \in Nat /\ h.file_offset + Len(w.todo) <= MaxSize
         /\ w.todo # <<>> => Len(w.todo) >= 1
         /\ w.todo = <<>> => Len(w.todo) = 0
         /\ w = [images |-> w.images, h |-> w.h, todo |-> w.todo]
<1>1. w \in [images : ImagesAfter(d), h : Handles, todo : Seq(Bytes)]
  BY DEF Writing
<1>2. w.h.ctx /\ w.h.file_offset <= w.h.size /\ w.h.file_offset + Len(w.todo) <= MaxSize
  BY DEF Writing
<1>3. h \in Handles /\ w.todo \in Seq(Bytes) /\ w.images \in ImagesAfter(d)
  BY <1>1
<1>4. Last(w.images) \in Disks /\ w.images \in Images
  BY <1>3, ImagesGrow DEF ImagesAfter
<1>5. Len(w.todo) \in Nat /\ (w.todo # <<>> => Len(w.todo) >= 1) /\ (w.todo = <<>> => Len(w.todo) = 0)
  BY <1>3, EmptySeq, LenProperties
<1>6. /\ h.start_cluster \in {0} \cup Clusters /\ h.current_cluster \in {0} \cup Clusters
      /\ h.cluster_offset \in Nat /\ h.file_offset \in Nat /\ h.size \in 0 .. MaxSize /\ h.size \in Nat
  BY <1>3, HandleTypes, Fat32Assumption
<1> QED
  BY <1>1, <1>2, <1>3, <1>4, <1>5, <1>6

\* A size that has clusters has a first one.
LEMMA SizeHasStart ==
  ASSUME NEW d \in Disks, NEW c \in {0} \cup Clusters, NEW size \in Nat, Holds(Chain(d, c), size)
  PROVE  c = 0 => size = 0
<1>1. c = 0 => Len(Chain(d, c)) = 0
  BY ChainHas
<1> QED
  BY <1>1, DiskAssumption DEF Holds

\* There is room in the last cluster.
LEMMA RoomLeft ==
  ASSUME NEW d \in Disks, NEW f, NEW bytes, NEW R, NEW Z,
         NEW w \in Growing(d, f, bytes, R, Z), w.todo # <<>>, ~AtNewCluster(w.h)
  PROVE  w \in Roomy(d, f, bytes, R, Z)
<1> DEFINE h == w.h
           e == Last(w.images)
           s == Chain(e, h.start_cluster)
<1>1. /\ w \in Writing(d) /\ Common(d, f, bytes, R, Z, w) /\ AllToGo(f, bytes, h, w.todo)
      /\ \/ Spoils(d, f, f.file_offset + Len(bytes), e) /\ Passed(f, h.file_offset)
         \/ Owns(e, h.start_cluster, h.size, R)
      /\ \/ Passed(f, h.file_offset)
         \/ Standing(e, h) /\ Shows(d, f, bytes, e, h)
  BY DEF Growing
<1>2. /\ e \in Disks /\ h.file_offset \in Nat /\ h.size \in Nat /\ h.file_offset <= h.size
      /\ h.start_cluster \in {0} \cup Clusters
  BY <1>1, GrowingIs
<1>3. Len(s) \in Nat /\ ClusterSize \in Nat /\ ClusterSize * Len(s) \in Nat
  BY <1>2, ChainIs, DiskAssumption
<1>4. h.file_offset < h.size \/ (h.file_offset = h.size /\ h.file_offset % ClusterSize # 0)
  BY <1>2 DEF AtNewCluster, InCluster
<1>5. ASSUME Owns(e, h.start_cluster, h.size, R)
      PROVE  Has(e, h.start_cluster, h.size, R) /\ h.file_offset < ClusterSize * Len(s)
  <2>1. Has(e, h.start_cluster, h.size, R)
    BY <1>5, OwnsHas
  <2>2. h.size <= ClusterSize * Len(s)
    BY <2>1 DEF Has, Holds
  <2> DEFINE x == h.file_offset
             z == h.size
             n == Len(s)
             y == ClusterSize * n
  <2>3. x \in Nat /\ z \in Nat /\ n \in Nat /\ y \in Nat /\ z <= y /\ x <= z
    BY <1>2, <1>3, <2>2
  <2>4. x < z \/ (x = z /\ x % ClusterSize # 0)
    BY <1>4
  <2> HIDE DEF x, z, n
  <2>5. x = z /\ x % ClusterSize # 0 => x < y
    BY <2>3, MiddleOf
  <2>6. x < y
    <3> HIDE DEF y
    <3> QED
      BY <2>3, <2>4, <2>5
  <2> QED
    BY <2>1, <2>6 DEF x, n
<1>6. ASSUME Standing(e, h)
      PROVE  Placed(e, h)
  <2> HIDE DEF h, e
  <2>1. CASE h.file_offset < h.size
    BY <1>6, <2>1 DEF Standing, Placed
  <2>2. CASE h.file_offset = h.size /\ h.file_offset % ClusterSize # 0
    <3>1. h.size > 0 /\ (h.size - 1) \div ClusterSize = h.file_offset \div ClusterSize
      BY <1>2, <2>2, InMiddle
    <3>2. h.size # 0 /\ ~(h.file_offset < h.size)
      BY <1>2, <2>2, <3>1
    <3> QED
      BY <1>6, <2>2, <3>1, <3>2 DEF Standing, Placed
  <2> QED
    BY <1>4, <2>1, <2>2
<1>7. \/ Spoils(d, f, f.file_offset + Len(bytes), e) /\ Passed(f, h.file_offset)
      \/ Has(e, h.start_cluster, h.size, R) /\ h.file_offset < ClusterSize * Len(s)
  BY <1>1, <1>5
<1>8. Passed(f, h.file_offset) \/ (Placed(e, h) /\ Shows(d, f, bytes, e, h))
  BY <1>1, <1>6
<1> QED
  BY <1>1, <1>7, <1>8 DEF Roomy

\* At the end of its last cluster, or without one, a file gets a new one.
LEMMA ChainGrows ==
  ASSUME NEW e \in Disks, NEW v \in Disks, NEW R, NEW h \in Handles,
         Owns(e, h.start_cluster, h.size, R), Standing(e, h), h.file_offset = h.size,
         h.file_offset % ClusterSize = 0, NEW new \in Clusters, new \in R, e.fat[1][new] = 0,
         v.fat[1] = LinkedFat(e.fat[1], h.current_cluster, new)
  PROVE  LET c == Chained(h, new).start_cluster
         IN  /\ GrownTo(v, c, h.size, new, R)
             /\ \A i \in 1 .. h.size \div ClusterSize : Chain(v, c)[i] = Chain(e, h.start_cluster)[i]
<1> DEFINE c == Chained(h, new).start_cluster
           start == h.start_cluster
           size == h.size
           cur == h.current_cluster
<1>1. /\ start \in {0} \cup Clusters /\ cur \in {0} \cup Clusters /\ size \in Nat /\ 0 \notin Clusters
      /\ c = IF cur = 0 THEN new ELSE start
  <2>1. start \in {0} \cup Clusters /\ cur \in {0} \cup Clusters /\ size \in Nat
    BY HandleTypes, Fat32Assumption
  <2>2. c = IF cur = 0 THEN new ELSE start
    BY ChainedIs
  <2> QED
    BY <2>1, <2>2, DiskAssumption DEF Clusters
<1>2. Has(e, start, size, R) /\ (size = 0 => start = 0)
  BY OwnsHas
<1>3. e.fat[1] \in Sectors /\ DOMAIN e.fat[1] = Clusters
  BY DiskParts DEF Sectors
<1>4. CASE size = 0
  <2>1. cur = 0 /\ c = new
    BY <1>1, <1>2, <1>4 DEF Standing
  <2>2. v.fat[1][new] = FAT32_EOC
    BY <1>3, <2>1 DEF LinkedFat, FatSet
  <2>3. GrownTo(v, c, size, new, R)
    BY <1>4, <2>1, <2>2, Started
  <2>4. 0 % ClusterSize = 0 /\ 0 \div ClusterSize = 0
    BY <1>4, AtStart
  <2>5. 1 .. size \div ClusterSize = {}
    BY <1>4, <2>4
  <2> QED
    BY <2>3, <2>5
<1>5. CASE size # 0
  <2>1. cur = Chain(e, start)[((size - 1) \div ClusterSize) + 1]
    BY <1>1, <1>5 DEF Standing
  <2>2. start \in Clusters
    BY <1>1, <1>2, <1>5, SizeHasStart DEF Has
  <2>3. (size - 1) \div ClusterSize + 1 \in 1 .. Len(Chain(e, start))
    <3>1. size <= ClusterSize * Len(Chain(e, start))
      BY <1>2 DEF Has, Holds
    <3>2. size - 1 \in Nat /\ Len(Chain(e, start)) \in Nat
      BY <1>1, <1>5, ChainIs
    <3>3. size - 1 < ClusterSize * Len(Chain(e, start))
      <4>1. ClusterSize * Len(Chain(e, start)) \in Nat
        BY <3>2, DiskAssumption
      <4> QED
        BY <1>1, <3>1, <4>1
    <3> HIDE DEF size, start
    <3> QED
      BY <3>2, <3>3, InChain
  <2>4. cur \in Clusters /\ cur # 0 /\ c = start
    <3>1. Chain(e, start)[((size - 1) \div ClusterSize) + 1] \in Clusters
      BY <1>1, <2>3, ChainIs
    <3> QED
      BY <1>1, <2>1, <3>1
  <2>5. v.fat[1] = [[e.fat[1] EXCEPT ![cur] = new] EXCEPT ![new] = FAT32_EOC]
    BY <2>4 DEF LinkedFat, FatSet
  <2>6. size \in Nat \ {0} /\ size % ClusterSize = 0
    BY <1>1, <1>5
  <2> HIDE DEF c, start, size, cur
  <2>7. GrownTo(v, start, size, new, R)
    BY <1>2, <2>1, <2>2, <2>5, <2>6, Grown
  <2>8. \A i \in 1 .. size \div ClusterSize : Chain(v, start)[i] = Chain(e, start)[i]
    BY <1>2, <2>1, <2>2, <2>5, <2>6, Grown
  <2>9. GrownTo(v, c, size, new, R) /\ \A i \in 1 .. size \div ClusterSize : Chain(v, c)[i] = Chain(e, start)[i]
    BY <2>4, <2>7, <2>8
  <2> QED
    BY <2>9 DEF c, start, size
<1> QED
  BY <1>4, <1>5

\* A boundary that is behind an offset is behind every later one.
LEMMA PassedOn ==
  ASSUME NEW f, f.file_offset \in Nat, NEW x \in Nat, NEW y \in Nat, x <= y, Passed(f, x)
  PROVE  Passed(f, y)
<1>1. PICK m \in f.file_offset + 1 .. x : m % ClusterSize = 0 /\ m < f.size
  BY DEF Passed, InteriorBoundary
<1>2. m \in f.file_offset + 1 .. y
  BY <1>1
<1> QED
  BY <1>1, <1>2 DEF Passed, InteriorBoundary

\* What a crash may leave while the chain grows.
LEMMA MidwayLeaves ==
  ASSUME NEW d \in Disks, NEW v \in Disks, NEW im \in Disks, NEW R, Midway(d, v, R, im),
         v.fat[1] # d.fat[1], NEW f, NEW n \in Nat, f.file_offset \in Nat, f.size \in Nat,
         f.start_cluster \in {0} \cup Clusters, f.size = 0 => f.start_cluster = 0,
         \/ Passed(f, f.file_offset + n) /\ f.file_offset + n > f.size
         \/ f.start_cluster = 0
         \/ \E m \in Nat : f.size <= m /\ Has(v, f.start_cluster, m, R)
  PROVE  Leaves(d, f, n, R, im)
<1>1. Keeps(d, im, R) /\ (Dangling(im) \/ im.fat[1] = v.fat[1])
  BY DEF Midway
<1>2. CASE Dangling(im)
  BY <1>1, <1>2 DEF Leaves
<1>3. CASE im.fat[1] = v.fat[1]
  <2>1. CASE Passed(f, f.file_offset + n) /\ f.file_offset + n > f.size
    <3>1. Spoils(d, f, f.file_offset + n, im)
      BY <1>3, <2>1 DEF Spoils
    <3> QED
      BY <1>1, <3>1 DEF Leaves
  <2>2. CASE f.start_cluster = 0
    BY <1>1, <2>2 DEF Leaves
  <2>3. CASE \E m \in Nat : f.size <= m /\ Has(v, f.start_cluster, m, R)
    <3>1. PICK m \in Nat : f.size <= m /\ Has(v, f.start_cluster, m, R)
      BY <2>3
    <3> DEFINE c == f.start_cluster
               z == f.size
    <3>2. c \in {0} \cup Clusters /\ z \in 0 .. m /\ Has(v, c, m, R)
      BY <3>1
    <3>3. z = 0 => c = 0
      OBVIOUS
    <3> HIDE DEF c, z
    <3>4. Has(im, c, z, R)
      BY <1>3, <3>2, HasLess
    <3>5. Owns(im, c, z, R)
      BY <3>3, <3>4, OwnsHas
    <3> QED
      BY <1>1, <3>5 DEF Leaves, c, z
  <2> QED
    BY <2>1, <2>2, <2>3
<1> QED
  BY <1>1, <1>2, <1>3

\* On a full disk a write ends.
LEMMA DiskFull ==
  ASSUME NEW d \in Disks, NEW f, f.file_offset \in Nat, NEW bytes \in Seq(Bytes), NEW R, NEW Z,
         NEW w \in Growing(d, f, bytes, R, Z), FreeClusters(Last(w.images)) = {}
  PROVE  LET v == [w EXCEPT !.todo = <<>>]
         IN  v \in Growing(d, f, bytes, R, Z) /\ v.todo = <<>>
<1> DEFINE v == [w EXCEPT !.todo = <<>>]
           h == w.h
<1>1. w \in Writing(d) /\ h \in Handles /\ h.file_offset \in Nat /\ Len(w.todo) \in Nat /\ Len(bytes) \in Nat
  BY GrowingIs DEF Growing
<1>2. v.images = w.images /\ v.h = w.h /\ v.todo = <<>> /\ <<>> \in Seq(Bytes) /\ Len(<<>>) = 0
  <2>1. w \in [images : ImagesAfter(d), h : Handles, todo : Seq(Bytes)]
    BY <1>1 DEF Writing
  <2> QED
    BY <2>1, EmptySeq
<1>3. v \in Writing(d)
  <2>1. w \in [images : ImagesAfter(d), h : Handles, todo : Seq(Bytes)] /\ h.ctx /\ h.file_offset <= h.size
        /\ h.file_offset + Len(w.todo) <= MaxSize /\ MaxSize \in Nat
    BY <1>1, Fat32Assumption DEF Writing
  <2>2. h.file_offset + 0 <= MaxSize
    BY <1>1, <2>1
  <2>3. v \in [images : ImagesAfter(d), h : Handles, todo : Seq(Bytes)]
    BY <1>2, <2>1
  <2> QED
    BY <1>2, <2>1, <2>2, <2>3 DEF Writing
<1> DEFINE e == Last(w.images)
<1>4. /\ Common(d, f, bytes, R, Z, w)
      /\ \/ Spoils(d, f, f.file_offset + Len(bytes), e) /\ Passed(f, h.file_offset)
         \/ Owns(e, h.start_cluster, h.size, R)
      /\ Passed(f, h.file_offset) \/ (Standing(e, h) /\ Shows(d, f, bytes, e, h))
  BY DEF Growing
<1>5. Course(f, bytes, v.h, v.todo)
  <2>1. h.file_offset + 0 <= f.file_offset + Len(bytes)
    BY <1>1, <1>4 DEF Common, Course
  <2>2. Course(f, bytes, h, w.todo)
    BY <1>4 DEF Common
  <2>3. 1 .. Len(<<>>) = {}
    BY <1>2
  <2> QED
    BY <1>2, <2>1, <2>2, <2>3 DEF Course
<1> HIDE DEF v
<1>6. Common(d, f, bytes, R, Z, v)
  BY <1>2, <1>4, <1>5 DEF Common
<1>7. v \in Growing(d, f, bytes, R, Z)
  BY <1>2, <1>3, <1>4, <1>6 DEF Growing
<1> QED
  BY <1>2, <1>7 DEF v

\* The chain of a file that is at its end grows by a free cluster.
LEMMA ExtendStep ==
  ASSUME NEW d \in Disks, NEW f \in Handles, NEW bytes \in Seq(Bytes), NEW R \in SUBSET Clusters, NEW Z,
         Begins(d, f, bytes, R), NEW w \in Growing(d, f, bytes, R, Z), w.todo # <<>>, AtNewCluster(w.h),
         NEW new \in Clusters, Last(w.images).fat[1][new] = 0
  PROVE  Extend(w, new) \in Roomy(d, f, bytes, R, Z)
<1> DEFINE h == w.h
           e == Last(w.images)
           u == Extend(w, new)
           v == Last(u.images)
           total == f.file_offset + Len(bytes)
<1>1. /\ w \in Writing(d) /\ Common(d, f, bytes, R, Z, w) /\ AllToGo(f, bytes, h, w.todo)
      /\ \/ Spoils(d, f, total, e) /\ Passed(f, h.file_offset)
         \/ Owns(e, h.start_cluster, h.size, R)
      /\ \/ Passed(f, h.file_offset)
         \/ Standing(e, h) /\ Shows(d, f, bytes, e, h)
  BY DEF Growing
<1>2. /\ w.images \in Images /\ e \in Disks /\ h \in Handles /\ h.file_offset \in Nat /\ h.size \in Nat
      /\ h.file_offset <= h.size /\ Len(w.todo) \in Nat /\ Len(w.todo) >= 1
      /\ h.start_cluster \in {0} \cup Clusters /\ h.current_cluster \in {0} \cup Clusters
  BY <1>1, GrowingIs
<1>3. /\ f.file_offset \in Nat /\ f.size \in Nat /\ f.start_cluster \in {0} \cup Clusters
      /\ Len(bytes) \in Nat /\ total \in Nat
  <2>1. f.file_offset \in Nat /\ f.size \in Nat /\ f.start_cluster \in {0} \cup Clusters
    BY HandleTypes, Fat32Assumption
  <2>2. Len(bytes) \in Nat
    BY LenProperties
  <2> QED
    BY <2>1, <2>2
<1>4. h.file_offset = h.size /\ h.file_offset % ClusterSize = 0
  BY <1>2 DEF AtNewCluster, InCluster
<1>5. /\ Course(f, bytes, h, w.todo) /\ Keeps(d, e, R) /\ h.current_cluster \in {0} \cup R
      /\ h.current_cluster # 0 => e.fat[1][h.current_cluster] # 0
      /\ h.start_cluster # 0 => h.current_cluster # 0
      /\ \A im \in Range(w.images) : im \in Z \/ Leaves(d, f, Len(bytes), R, im)
  BY <1>1 DEF Common
<1>6. new \in R /\ d.fat[1][new] = 0
  BY <1>5 DEF Begins, Keeps
<1>7. total > f.size /\ h.file_offset <= total /\ f.size <= h.size
  BY <1>1, <1>2, <1>3, <1>4, <1>5 DEF Course, AllToGo
<1>8. /\ u.h = Chained(h, new) /\ u.todo = w.todo /\ u.images = ChainedImages(w.images, h.current_cluster, new)
      /\ u \in Writing(d)
  BY <1>1, ExtendIs, Extended DEF ChainedImages
<1> DEFINE c == u.h.start_cluster
<1>9. /\ u.h.current_cluster = new /\ c = IF h.current_cluster = 0 THEN new ELSE h.start_cluster
      /\ u.h.file_offset = h.file_offset /\ u.h.size = h.size /\ u.h.cluster_offset = h.cluster_offset
  BY <1>2, <1>8, ChainedIs
<1>10. /\ u.images \in Images /\ Keeps(d, v, R) /\ v.fat[1] = LinkedFat(e.fat[1], h.current_cluster, new)
       /\ v.data = e.data /\ \A im \in Range(u.images) : im \in Range(w.images) \/ Midway(d, v, R, im)
  <2> DEFINE x == ChainedImages(w.images, h.current_cluster, new)
             ims == w.images
             cur == h.current_cluster
  <2>1. ims \in Images /\ Keeps(d, Last(ims), R) /\ cur \in {0} \cup R
        /\ (cur # 0 => Last(ims).fat[1][cur] # 0) /\ new \in R /\ Last(ims).fat[1][new] = 0
    BY <1>2, <1>5, <1>6
  <2>2. u.images = ChainedImages(ims, cur, new)
    BY <1>8
  <2> HIDE DEF ims, cur
  <2>3. /\ ChainedImages(ims, cur, new) \in Images /\ Keeps(d, Last(ChainedImages(ims, cur, new)), R)
        /\ Last(ChainedImages(ims, cur, new)).fat[1] = LinkedFat(Last(ims).fat[1], cur, new)
        /\ Last(ChainedImages(ims, cur, new)).data = Last(ims).data
    BY <2>1, ImagesChained
  <2>4. \A im \in Range(ChainedImages(ims, cur, new)) :
          im \in Range(ims) \/ Midway(d, Last(ChainedImages(ims, cur, new)), R, im)
    BY <2>1, ImagesChained
  <2> HIDE DEF u
  <2> QED
    BY <2>2, <2>3, <2>4 DEF ims, cur
<1>11. v \in Disks /\ v.fat[1][new] # 0 /\ v.fat[1] # d.fat[1] /\ \A im \in Range(u.images) : im \in Disks
  <2>1. v \in Disks /\ \A im \in Range(u.images) : im \in Disks
    BY <1>10, ImagesGrow, RangeGrows
  <2>2. e.fat[1] \in [Clusters -> Links] /\ h.current_cluster \in {0} \cup Clusters
    BY <1>2, DiskParts DEF Sectors
  <2>3. v.fat[1][new] = FAT32_EOC
    BY <1>10, <2>2 DEF LinkedFat, FatSet
  <2> QED
    BY <1>6, <2>1, <2>3 DEF FAT32_EOC
<1> HIDE DEF u, v, c
<1>12. ASSUME ~Passed(f, h.file_offset)
       PROVE  /\ GrownTo(v, c, h.size, new, R)
              /\ \A i \in 1 .. h.size \div ClusterSize : Chain(v, c)[i] = Chain(e, h.start_cluster)[i]
  <2>1. Owns(e, h.start_cluster, h.size, R) /\ Standing(e, h)
    BY <1>1, <1>12
  <2>2. c = Chained(h, new).start_cluster
    BY <1>8 DEF c
  <2> HIDE DEF h, e
  <2> QED
    BY <1>2, <1>4, <1>6, <1>10, <1>11, <2>1, <2>2, ChainGrows DEF e
<1>13. f.start_cluster # 0 => c = f.start_cluster
  BY <1>5, <1>9 DEF Course
<1>14. \/ Passed(f, total) /\ total > f.size
       \/ f.start_cluster = 0
       \/ \E m \in Nat : f.size <= m /\ Has(v, f.start_cluster, m, R)
  <2>1. CASE Passed(f, h.file_offset)
    BY <1>2, <1>3, <1>7, <2>1, PassedOn
  <2>2. CASE ~Passed(f, h.file_offset)
    BY <1>2, <1>7, <1>12, <1>13, <2>2 DEF GrownTo
  <2> QED
    BY <2>1, <2>2
<1>15. \A im \in Range(u.images) : im \in Z \/ Leaves(d, f, Len(bytes), R, im)
  <2>1. ASSUME NEW im \in Range(u.images), Midway(d, v, R, im)
        PROVE  Leaves(d, f, Len(bytes), R, im)
    <3>1. f.size = 0 => f.start_cluster = 0
      BY DEF Begins, Owns
    <3>2. im \in Disks
      BY <1>11
    <3> QED
      BY <1>3, <1>11, <1>14, <2>1, <3>1, <3>2, MidwayLeaves
  <2> QED
    BY <1>5, <1>10, <2>1
<1>16. Course(f, bytes, u.h, u.todo)
  BY <1>5, <1>8, <1>9, <1>13 DEF Course, c
<1>17. Common(d, f, bytes, R, Z, u)
  <2>1. new # 0
    BY DiskAssumption DEF Clusters
  <2> QED
    BY <1>6, <1>9, <1>10, <1>11, <1>15, <1>16, <2>1 DEF Common, v
<1>18. u.todo # <<>> /\ AllToGo(f, bytes, u.h, u.todo)
  BY <1>1, <1>8, <1>9 DEF AllToGo
<1>19. \/ Spoils(d, f, total, v) /\ Passed(f, u.h.file_offset)
       \/ Has(v, c, u.h.size, R) /\ u.h.file_offset < ClusterSize * Len(Chain(v, c))
  <2>1. CASE Passed(f, h.file_offset)
    <3>1. Passed(f, total)
      BY <1>2, <1>3, <1>7, <2>1, PassedOn
    <3> QED
      BY <1>7, <1>9, <1>11, <2>1, <3>1 DEF Spoils
  <2>2. CASE ~Passed(f, h.file_offset)
    BY <1>4, <1>9, <1>12, <2>2 DEF GrownTo
  <2> QED
    BY <2>1, <2>2
<1>20. Passed(f, u.h.file_offset) \/ (Placed(v, u.h) /\ Shows(d, f, bytes, v, u.h))
  <2>1. CASE Passed(f, h.file_offset)
    BY <1>9, <2>1
  <2>2. CASE ~Passed(f, h.file_offset)
    <3>1. Placed(v, u.h)
      BY <1>2, <1>4, <1>9, <1>12, <2>2 DEF Placed, GrownTo, c
    <3>2. ASSUME NEW i \in 1 .. h.size
          PROVE  ByteAt(v, Chain(v, c), i) = ByteAt(e, Chain(e, h.start_cluster), i)
      <4> DEFINE k == h.size \div ClusterSize
                 q == (i - 1) \div ClusterSize
      <4>1. k \in Nat /\ h.size = ClusterSize * k /\ ClusterSize \in Nat \ {0}
        BY <1>2, <1>4, AtStart, DiskAssumption
      <4>2. i - 1 \in Nat /\ i - 1 < ClusterSize * k
        BY <1>2, <4>1
      <4> HIDE DEF k
      <4>3. q \in 0 .. k - 1
        BY <4>1, <4>2, Division
      <4> HIDE DEF q
      <4>4. q + 1 \in 1 .. k
        BY <4>1, <4>3
      <4>5. Chain(v, c)[q + 1] = Chain(e, h.start_cluster)[q + 1]
        BY <1>12, <2>2, <4>4 DEF k
      <4> QED
        BY <1>10, <4>5 DEF ByteAt, q, v
    <3>3. Shows(d, f, bytes, e, h)
      BY <1>1, <2>2
    <3>4. Shows(d, f, bytes, v, u.h)
      BY <1>9, <3>2, <3>3 DEF Shows, c
    <3> QED
      BY <3>1, <3>4
  <2> QED
    BY <2>1, <2>2
<1> QED
  BY <1>8, <1>17, <1>18, <1>19, <1>20 DEF Roomy, u, v, c

\* What the disk says after bytes have gone into a cluster.
LEMMA DataPutIs ==
  ASSUME NEW d \in Disks, NEW c, NEW at \in Int, NEW bytes \in Seq(Bytes), NEW v, v = DataPut(d, c, at, bytes)
  PROVE  /\ v \in Disks /\ v.fat = d.fat /\ v.dir = d.dir
         /\ \A x \in Clusters : x # c => v.data[x] = d.data[x]
         /\ c \in Clusters => v.data[c] = Overwrite(d.data[c], at, bytes)
<1>1. v \in Disks /\ v.fat = d.fat
  BY DataWritten
<1>2. /\ DOMAIN d.data = Clusters /\ d = [fat |-> d.fat, dir |-> d.dir, data |-> d.data]
  BY DiskParts
<1>3. v = [fat |-> d.fat, dir |-> d.dir, data |-> [d.data EXCEPT ![c] = Overwrite(d.data[c], at, bytes)]]
  BY <1>2 DEF DataPut
<1> QED
  BY <1>1, <1>2, <1>3

\* The bytes that were put, and those that were not.
LEMMA BytePut ==
  ASSUME NEW data \in [0 .. ClusterSize - 1 -> Bytes], NEW at \in 0 .. ClusterSize - 1, NEW taken \in Seq(Bytes)
  PROVE  /\ \A m \in 0 .. Len(taken) - 1 : at + m < ClusterSize =>
              Overwrite(data, at, taken)[at + m] = taken[m + 1]
         /\ \A b \in 0 .. ClusterSize - 1 : (\A m \in 0 .. Len(taken) - 1 : b # at + m) =>
              Overwrite(data, at, taken)[b] = data[b]
<1>1. DOMAIN data = 0 .. ClusterSize - 1 /\ DOMAIN taken = 1 .. Len(taken) /\ Len(taken) \in Nat
      /\ ClusterSize \in Nat \ {0}
  BY LenProperties, DiskAssumption
<1>2. ASSUME NEW m \in 0 .. Len(taken) - 1, at + m < ClusterSize
      PROVE  Overwrite(data, at, taken)[at + m] = taken[m + 1]
  <2>1. at + m \in DOMAIN data /\ ((at + m) - at) + 1 = m + 1 /\ m + 1 \in DOMAIN taken
    BY <1>1, <1>2
  <2> QED
    BY <2>1 DEF Overwrite
<1>3. ASSUME NEW b \in 0 .. ClusterSize - 1, \A m \in 0 .. Len(taken) - 1 : b # at + m
      PROVE  Overwrite(data, at, taken)[b] = data[b]
  <2>1. (b - at) + 1 \notin DOMAIN taken
    <3>1. ASSUME (b - at) + 1 \in 1 .. Len(taken)
          PROVE  FALSE
      <4>1. b - at \in 0 .. Len(taken) - 1 /\ b = at + (b - at)
        BY <1>1, <3>1
      <4> QED
        BY <1>3, <4>1
    <3> QED
      BY <1>1, <3>1
  <2> QED
    BY <1>1, <2>1 DEF Overwrite
<1> QED
  BY <1>2, <1>3

\* The bytes of a chain after some were put into the cluster of an offset.
LEMMA ByteWritten ==
  ASSUME NEW e \in Disks, NEW s \in Seq(Clusters), \A i, j \in 1 .. Len(s) : s[i] = s[j] => i = j,
         NEW off \in Nat, off < ClusterSize * Len(s), NEW n \in Nat, n <= ClusterSize - (off % ClusterSize),
         NEW taken \in Seq(Bytes), Len(taken) = n,
         NEW v, v = DataPut(e, s[(off \div ClusterSize) + 1], off % ClusterSize, taken),
         NEW i \in Nat \ {0}, i <= ClusterSize * Len(s)
  PROVE  ByteAt(v, s, i) = IF i - off \in 1 .. n THEN taken[i - off] ELSE ByteAt(e, s, i)
<1> DEFINE K == off \div ClusterSize
           a == off % ClusterSize
           q == (i - 1) \div ClusterSize
           r == (i - 1) % ClusterSize
           L == Len(s)
<1>1. ClusterSize \in Nat \ {0} /\ L \in Nat /\ \A j \in 1 .. L : s[j] \in Clusters
  BY DiskAssumption, LenProperties, ElementOfSeq
<1>2. K \in 0 .. L - 1 /\ a \in 0 .. ClusterSize - 1 /\ off = (ClusterSize * K) + a
  BY <1>1, Division
<1>3. q \in 0 .. L - 1 /\ r \in 0 .. ClusterSize - 1 /\ i - 1 = (ClusterSize * q) + r
  <2>1. i - 1 \in Nat /\ i - 1 < ClusterSize * L
    <3>1. ClusterSize * L \in Nat
      BY <1>1
    <3> QED
      BY <3>1
  <2> QED
    BY <1>1, <2>1, Division
<1>4. /\ v \in Disks /\ \A x \in Clusters : x # s[K + 1] => v.data[x] = e.data[x]
      /\ s[K + 1] \in Clusters => v.data[s[K + 1]] = Overwrite(e.data[s[K + 1]], a, taken)
  BY <1>2, DataPutIs
<1>5. K + 1 \in 1 .. L /\ q + 1 \in 1 .. L
  BY <1>1, <1>2, <1>3
<1>6. s[K + 1] \in Clusters /\ s[q + 1] \in Clusters /\ e.data[s[K + 1]] \in [0 .. ClusterSize - 1 -> Bytes]
  BY <1>1, <1>5, DiskParts
<1>7. ByteAt(v, s, i) = v.data[s[q + 1]][r] /\ ByteAt(e, s, i) = e.data[s[q + 1]][r]
  BY DEF ByteAt
<1>8. ASSUME NEW m \in 0 .. n - 1, i - 1 = off + m
      PROVE  q = K /\ r = a + m /\ a + m < ClusterSize
  <2>1. a + m < ClusterSize /\ m \in Nat /\ a + m <= ClusterSize
    BY <1>1, <1>2
  <2>2. (off + m) \div ClusterSize = K /\ (off + m) % ClusterSize = a + m
    BY <1>1, <2>1, GoingOn
  <2> QED
    BY <1>8, <2>1, <2>2
<1>9. ASSUME q = K, NEW m \in 0 .. n - 1, r = a + m
      PROVE  i - 1 = off + m
  <2> HIDE DEF K, a, q, r
  <2>1. ClusterSize * K \in Nat
    BY <1>1, <1>2
  <2> QED
    BY <1>2, <1>3, <1>9, <2>1
<1> HIDE DEF K, a, q, r
<1>10. CASE i - off \in 1 .. n
  <2> DEFINE m == (i - off) - 1
  <2>1. m \in 0 .. n - 1 /\ i - 1 = off + m /\ m + 1 = i - off
    BY <1>10
  <2> HIDE DEF m
  <2>2. q = K /\ r = a + m /\ a + m < ClusterSize
    BY <1>8, <2>1
  <2>3. Overwrite(e.data[s[K + 1]], a, taken)[a + m] = taken[m + 1]
    <3> DEFINE data == e.data[s[K + 1]]
    <3>1. data \in [0 .. ClusterSize - 1 -> Bytes] /\ a \in 0 .. ClusterSize - 1
      BY <1>2, <1>6
    <3> HIDE DEF data
    <3>2. \A x \in 0 .. Len(taken) - 1 : a + x < ClusterSize => Overwrite(data, a, taken)[a + x] = taken[x + 1]
      BY <3>1, BytePut
    <3> QED
      BY <2>1, <2>2, <3>2 DEF data
  <2> QED
    BY <1>4, <1>6, <1>7, <1>10, <2>1, <2>2, <2>3
<1>11. CASE i - off \notin 1 .. n
  <2>1. ASSUME NEW m \in 0 .. n - 1
        PROVE  i - 1 # off + m
    <3>1. i - 1 = off + m => i - off = m + 1
      OBVIOUS
    <3> QED
      BY <1>11, <3>1
  <2>2. CASE q = K
    <3>1. \A m \in 0 .. Len(taken) - 1 : r # a + m
      BY <1>9, <2>1, <2>2
    <3>2. Overwrite(e.data[s[K + 1]], a, taken)[r] = e.data[s[K + 1]][r]
      <4> DEFINE data == e.data[s[K + 1]]
      <4>1. data \in [0 .. ClusterSize - 1 -> Bytes] /\ a \in 0 .. ClusterSize - 1
        BY <1>2, <1>6
      <4> HIDE DEF data
      <4>2. \A b \in 0 .. ClusterSize - 1 : (\A m \in 0 .. Len(taken) - 1 : b # a + m) =>
              Overwrite(data, a, taken)[b] = data[b]
        BY <4>1, BytePut
      <4> QED
        BY <1>3, <3>1, <4>2 DEF data
    <3> QED
      BY <1>4, <1>6, <1>7, <1>11, <2>2, <3>2
  <2>3. CASE q # K
    <3>1. s[q + 1] # s[K + 1]
      <4>1. q + 1 # K + 1
        BY <1>2, <1>3, <2>3
      <4> QED
        BY <1>5, <4>1
    <3> QED
      BY <1>4, <1>6, <1>7, <1>11, <3>1
  <2> QED
    BY <2>2, <2>3
<1> QED
  BY <1>10, <1>11

\* What PutChunk does.
PutsBytes(d, w, n, u) ==
  /\ n \in Nat /\ n >= 1 /\ n <= Len(w.todo) /\ n <= ClusterSize - InCluster(w.h)
  /\ SubSeq(w.todo, 1, n) \in Seq(Bytes) /\ Len(SubSeq(w.todo, 1, n)) = n
  /\ \A i \in 1 .. n : SubSeq(w.todo, 1, n)[i] = w.todo[i]
  /\ u.images = WriteSector(w.images, DataPut(Last(w.images), w.h.current_cluster, InCluster(w.h), SubSeq(w.todo, 1, n)))
  /\ u.h.file_offset = w.h.file_offset + n /\ u.h.cluster_offset = w.h.cluster_offset + n
  /\ u.h.size = (IF w.h.size >= w.h.file_offset + n THEN w.h.size ELSE w.h.file_offset + n)
  /\ u.h.start_cluster = w.h.start_cluster /\ u.h.current_cluster = w.h.current_cluster
  /\ Len(u.todo) = Len(w.todo) - n /\ \A i \in 1 .. Len(u.todo) : u.todo[i] = w.todo[i + n]

\* It does.
LEMMA PutIs ==
  ASSUME NEW d \in Disks, NEW w \in Writing(d), w.todo # <<>>
  PROVE  \E n : PutsBytes(d, w, n, PutChunk(w))
<1> DEFINE left == Len(w.todo)
           room == ClusterSize - InCluster(w.h)
           n == Min({left, room})
           u == PutChunk(w)
           taken == SubSeq(w.todo, 1, n)
           rest == SubSeq(w.todo, n + 1, Len(w.todo))
<1>1. /\ w.h \in Handles /\ w.todo \in Seq(Bytes) /\ left \in Nat /\ left >= 1
      /\ w.h.file_offset \in Nat /\ w.h.size \in Nat
  BY GrowingIs
<1>2. room \in Nat /\ room >= 1
  <2> DEFINE x == w.h.file_offset
  <2>1. room = ClusterSize - (x % ClusterSize) /\ x \in Nat
    BY <1>1 DEF InCluster
  <2> HIDE DEF x, room
  <2>2. ClusterSize - (x % ClusterSize) \in 1 .. ClusterSize /\ ClusterSize \in Nat
    BY <2>1, Within
  <2> QED
    BY <2>1, <2>2
<1> HIDE DEF room, left
<1>3. n \in Nat /\ n >= 1 /\ n <= left /\ n <= room
  BY <1>1, <1>2, LessOf
<1>4. u = PutBytes(w, n)
  BY DEF PutChunk, left, room
<1> HIDE DEF n, u
<1>5. taken \in Seq(Bytes) /\ Len(taken) = n /\ \A i \in 1 .. n : taken[i] = w.todo[i]
  <2>1. 1 \in Nat \ {0} /\ n \in Int /\ n <= Len(w.todo)
    BY <1>1, <1>3 DEF left
  <2>2. /\ SubSeq(w.todo, 1, n) \in Seq(Bytes) /\ Len(SubSeq(w.todo, 1, n)) = IF 1 <= n THEN (n - 1) + 1 ELSE 0
        /\ \A i \in 1 .. Len(SubSeq(w.todo, 1, n)) : SubSeq(w.todo, 1, n)[i] = w.todo[(i + 1) - 1]
    BY <1>1, <2>1, Pieces
  <2>3. Len(taken) = n
    BY <1>3, <2>2
  <2>4. \A i \in 1 .. n : (i + 1) - 1 = i
    BY <1>3
  <2> QED
    BY <2>2, <2>3, <2>4
<1>6. rest \in Seq(Bytes) /\ Len(rest) = left - n /\ \A i \in 1 .. Len(rest) : rest[i] = w.todo[i + n]
  <2> DEFINE b == Len(w.todo)
             x == n + 1
  <2>1. x \in Nat \ {0} /\ b \in Int /\ b <= Len(w.todo)
    BY <1>1, <1>3 DEF left
  <2> HIDE DEF x, b
  <2>2. /\ SubSeq(w.todo, x, b) \in Seq(Bytes) /\ Len(SubSeq(w.todo, x, b)) = IF x <= b THEN (b - x) + 1 ELSE 0
        /\ \A i \in 1 .. Len(SubSeq(w.todo, x, b)) : SubSeq(w.todo, x, b)[i] = w.todo[(i + x) - 1]
    BY <1>1, <2>1, Pieces
  <2>3. rest = SubSeq(w.todo, x, b)
    BY DEF x, b
  <2> HIDE DEF rest
  <2>4. Len(rest) = left - n
    BY <1>1, <1>3, <2>2, <2>3 DEF x, b, left
  <2>5. \A i \in 1 .. Len(rest) : (i + x) - 1 = i + n
    BY <1>1, <1>3, <2>4 DEF x
  <2> QED
    BY <2>2, <2>3, <2>4, <2>5
<1> DEFINE next == w.h.file_offset + n
           size == Max({w.h.size, next})
           h == Moved(w.h, next, w.h.cluster_offset + n, size)
           ims == WriteSector(w.images, DataPut(Last(w.images), w.h.current_cluster, InCluster(w.h), taken))
<1>7. PutBytes(w, n) = [images |-> ims, h |-> h, todo |-> rest]
  BY DEF PutBytes, DataPut, Moved
<1>8. size = IF w.h.size >= next THEN w.h.size ELSE next
  <2>1. next \in Nat
    BY <1>1, <1>3
  <2> HIDE DEF next
  <2> QED
    BY <1>1, <2>1, MoreOf
<1> HIDE DEF size
<1>9. /\ h.file_offset = next /\ h.cluster_offset = w.h.cluster_offset + n /\ h.size = size
      /\ h.start_cluster = w.h.start_cluster /\ h.current_cluster = w.h.current_cluster
  BY <1>1 DEF Moved, Handles
<1> HIDE DEF h, ims, rest
<1>10. u.images = ims /\ u.h = h /\ u.todo = rest
  BY <1>4, <1>7
<1>11. PutsBytes(d, w, n, u)
  BY <1>3, <1>5, <1>6, <1>8, <1>9, <1>10 DEF PutsBytes, ims, room, left
<1> QED
  BY <1>11 DEF u

\* Bytes that stay in a cluster do not go on to a boundary, or go to one.
LEMMA NotPassed ==
  ASSUME NEW f, f.file_offset \in Nat, NEW x \in Nat, NEW n \in Nat \ {0}, f.file_offset <= x,
         ~Passed(f, x + n)
  PROVE  x + n < f.size => (x + n) % ClusterSize # 0
<1>1. x + n \in f.file_offset + 1 .. x + n
  OBVIOUS
<1> QED
  BY <1>1 DEF Passed, InteriorBoundary

\* The handle stands behind the bytes that were put.
Behind(e, v, f, g, h, n) ==
  /\ n \in Nat \ {0} /\ n <= ClusterSize - (g.file_offset % ClusterSize)
  /\ f.file_offset \in Nat /\ f.file_offset <= g.file_offset /\ ~Passed(f, g.file_offset + n)
  /\ g.size = f.size \/ g.size = g.file_offset
  /\ h.file_offset = g.file_offset + n /\ h.cluster_offset = g.cluster_offset + n
  /\ h.size = (IF g.size >= g.file_offset + n THEN g.size ELSE g.file_offset + n)
  /\ h.start_cluster = g.start_cluster /\ h.current_cluster = g.current_cluster
  /\ Chain(v, g.start_cluster) = Chain(e, g.start_cluster) /\ Placed(e, g)

\* After a put the handle stands behind the bytes.
LEMMA StandsBehind ==
  ASSUME NEW e \in Disks, NEW v \in Disks, NEW f, NEW g \in Handles, NEW h \in Handles, NEW n,
         Behind(e, v, f, g, h, n)
  PROVE  Standing(v, h)
<1> DEFINE x == g.file_offset
<1>0. /\ n \in Nat \ {0} /\ n <= ClusterSize - (g.file_offset % ClusterSize)
      /\ f.file_offset \in Nat /\ f.file_offset <= g.file_offset /\ ~Passed(f, g.file_offset + n)
      /\ g.size = f.size \/ g.size = g.file_offset
      /\ h.file_offset = g.file_offset + n /\ h.cluster_offset = g.cluster_offset + n
      /\ h.size = (IF g.size >= g.file_offset + n THEN g.size ELSE g.file_offset + n)
      /\ h.start_cluster = g.start_cluster /\ h.current_cluster = g.current_cluster
      /\ Chain(v, g.start_cluster) = Chain(e, g.start_cluster) /\ Placed(e, g)
  BY DEF Behind
<1>1. x \in Nat /\ g.size \in Nat /\ g.cluster_offset \in Nat
  BY HandleTypes, Fat32Assumption
<1>2. /\ ((x + n) - 1) \div ClusterSize = x \div ClusterSize
      /\ (x + n) % ClusterSize # 0 => /\ (x + n) \div ClusterSize = x \div ClusterSize
                                      /\ (x + n) % ClusterSize = (x % ClusterSize) + n
  BY <1>0, <1>1, Staying
<1>3. ASSUME h.file_offset < h.size
      PROVE  /\ h.cluster_offset = InCluster(h)
             /\ h.current_cluster = Chain(v, h.start_cluster)[(h.file_offset \div ClusterSize) + 1]
  <2>1. x + n < g.size /\ x < g.size
    BY <1>0, <1>1, <1>3
  <2>2. g.size = f.size
    BY <1>0, <1>1, <2>1
  <2>3. (x + n) % ClusterSize # 0
    BY <1>0, <1>1, <2>1, <2>2, NotPassed
  <2>4. g.cluster_offset = x % ClusterSize
    BY <1>0, <2>1 DEF Placed, InCluster
  <2>5. g.current_cluster = Chain(e, g.start_cluster)[(x \div ClusterSize) + 1]
    BY <1>0 DEF Placed
  <2> QED
    BY <1>0, <1>2, <2>3, <2>4, <2>5 DEF InCluster
<1>4. ASSUME h.file_offset = h.size
      PROVE  h.current_cluster = IF h.size = 0 THEN h.start_cluster
                                 ELSE Chain(v, h.start_cluster)[((h.size - 1) \div ClusterSize) + 1]
  <2>1. h.size = x + n /\ h.size # 0
    BY <1>0, <1>1, <1>4
  <2>2. g.current_cluster = Chain(e, g.start_cluster)[(x \div ClusterSize) + 1]
    BY <1>0 DEF Placed
  <2> QED
    BY <1>0, <1>2, <2>1, <2>2
<1> QED
  BY <1>3, <1>4 DEF Standing

\* A place where bytes were put, from x on.
LEMMA PlacePut ==
  ASSUME NEW o \in Nat, NEW x \in Nat, o <= x, NEW n \in Nat, NEW i \in Nat, i - x \in 1 .. n
  PROVE  (x - o) + (i - x) = i - o /\ i - o \in 1 .. (x + n) - o
  OBVIOUS

\* A place where none were.
LEMMA PlaceKept ==
  ASSUME NEW o \in Nat, NEW x \in Nat, o <= x, NEW n \in Nat, NEW size \in Nat, x <= size,
         NEW i \in 1 .. (IF size >= x + n THEN size ELSE x + n), i - x \notin 1 .. n
  PROVE  i \in 1 .. size /\ (i - o \in 1 .. (x + n) - o <=> i - o \in 1 .. x - o)
  OBVIOUS

\* What the file reads then.
LEMMA ReadsBehind ==
  ASSUME NEW d \in Disks, NEW e \in Disks, NEW f \in Handles, NEW bytes \in Seq(Bytes),
         NEW g \in Handles, NEW h \in Handles, NEW n \in Nat \ {0},
         n <= ClusterSize - (g.file_offset % ClusterSize), f.file_offset <= g.file_offset, g.file_offset <= g.size,
         h.file_offset = g.file_offset + n,
         h.size = (IF g.size >= g.file_offset + n THEN g.size ELSE g.file_offset + n),
         h.start_cluster = g.start_cluster,
         NEW R, Has(e, g.start_cluster, g.size, R), g.file_offset < ClusterSize * Len(Chain(e, g.start_cluster)),
         Placed(e, g), Shows(d, f, bytes, e, g),
         NEW taken \in Seq(Bytes), Len(taken) = n,
         \A i \in 1 .. n : taken[i] = bytes[(g.file_offset - f.file_offset) + i],
         NEW v, v = DataPut(e, g.current_cluster, InCluster(g), taken),
         Chain(v, g.start_cluster) = Chain(e, g.start_cluster), h.size <= ClusterSize * Len(Chain(e, g.start_cluster))
  PROVE  Shows(d, f, bytes, v, h)
<1> DEFINE x == g.file_offset
           o == f.file_offset
           c == g.start_cluster
           s == Chain(e, c)
<1>1. x \in Nat /\ g.size \in Nat /\ o \in Nat /\ c \in {0} \cup Clusters
  BY HandleTypes, Fat32Assumption
<1>2. s \in Seq(Clusters) /\ Len(s) \in Nat /\ \A i, j \in 1 .. Len(s) : s[i] = s[j] => i = j
  BY <1>1, ChainIs, ChainDistinct DEF Has, ProperChain
<1>3. v = DataPut(e, s[(x \div ClusterSize) + 1], x % ClusterSize, taken)
  BY DEF Placed, InCluster
<1>4. ASSUME NEW i \in 1 .. h.size
      PROVE  ByteAt(v, Chain(v, h.start_cluster), i) =
               IF i - o \in 1 .. h.file_offset - o THEN bytes[i - o]
               ELSE ByteAt(d, Chain(d, f.start_cluster), i)
  <2>1. i \in Nat \ {0} /\ i <= ClusterSize * Len(s) /\ h.size \in Nat
    <3>1. h.size \in Nat
      BY <1>1
    <3>2. ClusterSize * Len(s) \in Nat /\ h.size <= ClusterSize * Len(s)
      BY <1>2, DiskAssumption
    <3> DEFINE y == ClusterSize * Len(s)
               z == h.size
    <3>3. z \in Nat /\ y \in Nat /\ z <= y /\ i \in 1 .. z
      BY <3>1, <3>2
    <3> HIDE DEF y, z
    <3>4. i \in Nat \ {0} /\ i <= y
      BY <3>3
    <3> QED
      BY <3>1, <3>4 DEF y
  <2>2. x < ClusterSize * Len(s) /\ n \in Nat /\ n <= ClusterSize - (x % ClusterSize)
    OBVIOUS
  <2>3. ByteAt(v, s, i) = IF i - x \in 1 .. n THEN taken[i - x] ELSE ByteAt(e, s, i)
    <3> HIDE DEF s, x
    <3> QED
      BY <1>1, <1>2, <1>3, <2>1, <2>2, ByteWritten
  <2>4. Chain(v, h.start_cluster) = s
    OBVIOUS
  <2>5. CASE i - x \in 1 .. n
    <3> DEFINE j == i - x
    <3>0. (x - o) + (i - x) = i - o /\ i - o \in 1 .. (x + n) - o
      <4>1. i \in Nat /\ o <= x /\ n \in Nat
        BY <2>1
      <4> HIDE DEF x, o
      <4> QED
        BY <1>1, <2>5, <4>1, PlacePut
    <3>1. j \in 1 .. n /\ (x - o) + j = i - o /\ i - o \in 1 .. (x + n) - o
      BY <2>5, <3>0
    <3>2. taken[j] = bytes[(x - o) + j]
      BY <3>1
    <3> QED
      BY <2>3, <2>4, <2>5, <3>1, <3>2
  <2>6. CASE i - x \notin 1 .. n
    <3>1. i \in 1 .. g.size /\ (i - o \in 1 .. (x + n) - o <=> i - o \in 1 .. x - o)
      BY <1>1, <2>1, <2>6, PlaceKept
    <3>2. ByteAt(e, s, i) = IF i - o \in 1 .. x - o THEN bytes[i - o] ELSE ByteAt(d, Chain(d, f.start_cluster), i)
      BY <3>1 DEF Shows
    <3> QED
      BY <2>3, <2>4, <2>6, <3>1, <3>2
  <2> QED
    BY <2>5, <2>6
<1> QED
  BY <1>4 DEF Shows

\* A round of the loop puts bytes where there is room for them.
LEMMA PutStep ==
  ASSUME NEW d \in Disks, NEW f \in Handles, NEW bytes \in Seq(Bytes), NEW R \in SUBSET Clusters, NEW Z,
         Begins(d, f, bytes, R), NEW w \in Roomy(d, f, bytes, R, Z)
  PROVE  PutChunk(w) \in Growing(d, f, bytes, R, Z) /\ Len(PutChunk(w).todo) < Len(w.todo)
<1> DEFINE g == w.h
           e == Last(w.images)
           u == PutChunk(w)
           h == u.h
           v == Last(u.images)
           total == f.file_offset + Len(bytes)
           x == g.file_offset
           c == g.start_cluster
           s == Chain(e, c)
<1>1. /\ w \in Writing(d) /\ Common(d, f, bytes, R, Z, w) /\ w.todo # <<>> /\ AllToGo(f, bytes, g, w.todo)
      /\ \/ Spoils(d, f, total, e) /\ Passed(f, x)
         \/ Has(e, c, g.size, R) /\ x < ClusterSize * Len(s)
      /\ Passed(f, x) \/ (Placed(e, g) /\ Shows(d, f, bytes, e, g))
  BY DEF Roomy
<1>2. /\ w.images \in Images /\ e \in Disks /\ g \in Handles /\ x \in Nat /\ g.size \in Nat
      /\ x <= g.size /\ Len(w.todo) \in Nat /\ c \in {0} \cup Clusters /\ g.current_cluster \in {0} \cup Clusters
  BY <1>1, GrowingIs
<1>3. /\ f.file_offset \in Nat /\ f.size \in Nat /\ f.start_cluster \in {0} \cup Clusters
      /\ Len(bytes) \in Nat /\ total \in Nat
  <2>1. f.file_offset \in Nat /\ f.size \in Nat /\ f.start_cluster \in {0} \cup Clusters
    BY HandleTypes, Fat32Assumption
  <2>2. Len(bytes) \in Nat
    BY LenProperties
  <2> QED
    BY <2>1, <2>2
<1>4. /\ Course(f, bytes, g, w.todo) /\ Keeps(d, e, R) /\ g.current_cluster \in {0} \cup R
      /\ g.current_cluster # 0 => e.fat[1][g.current_cluster] # 0
      /\ c # 0 => g.current_cluster # 0
      /\ \A im \in Range(w.images) : im \in Z \/ Leaves(d, f, Len(bytes), R, im)
  BY <1>1 DEF Common
<1>5. u \in Writing(d) /\ h \in Handles
  BY <1>1, ChunkPut, GrowingIs
<1> HIDE DEF u
<1>6. PICK n : PutsBytes(d, w, n, u)
  BY <1>1, PutIs DEF u
<1> DEFINE taken == SubSeq(w.todo, 1, n)
<1>7. /\ n \in Nat \ {0} /\ n <= Len(w.todo) /\ n <= ClusterSize - (x % ClusterSize) /\ n \in Nat
      /\ taken \in Seq(Bytes) /\ Len(taken) = n /\ \A i \in 1 .. n : taken[i] = w.todo[i]
      /\ u.images = WriteSector(w.images, DataPut(e, g.current_cluster, InCluster(g), taken))
      /\ h.file_offset = x + n /\ h.cluster_offset = g.cluster_offset + n
      /\ h.size = (IF g.size >= x + n THEN g.size ELSE x + n)
      /\ h.start_cluster = c /\ h.current_cluster = g.current_cluster
      /\ Len(u.todo) = Len(w.todo) - n /\ \A i \in 1 .. Len(u.todo) : u.todo[i] = w.todo[i + n]
  <2>1. n \in Nat /\ n >= 1
    BY <1>6 DEF PutsBytes
  <2>2. n \in Nat \ {0}
    BY <2>1
  <2> QED
    BY <1>6, <2>2 DEF PutsBytes, InCluster
<1> HIDE DEF taken
<1> DEFINE v1 == DataPut(e, g.current_cluster, InCluster(g), taken)
<1>8. /\ v1 \in Disks /\ v1.fat = e.fat /\ v1.dir = e.dir
      /\ \A y \in Clusters : y # g.current_cluster => v1.data[y] = e.data[y]
  <2>1. InCluster(g) \in Int
    <3>1. InCluster(g) = x % ClusterSize
      BY DEF InCluster
    <3> HIDE DEF x
    <3>2. x % ClusterSize \in 0 .. ClusterSize - 1 /\ ClusterSize \in Nat
      BY <1>2, Within
    <3> QED
      BY <3>1, <3>2
  <2> QED
    BY <1>2, <1>7, <2>1, DataPutIs
<1>9. v = v1 /\ Range(u.images) = Range(w.images) \cup {v1}
  <2> HIDE DEF v1
  <2> QED
    BY <1>2, <1>7, <1>8, ImagesGrow, RangeGrows DEF v1
<1>10. Keeps(d, v, R)
  <2>1. \A y \in Clusters \ R : v.data[y] = e.data[y]
    BY <1>4, <1>8, <1>9, DiskAssumption DEF Clusters
  <2> QED
    BY <1>4, <1>8, <1>9, <2>1 DEF Keeps
<1>11. v \in Disks /\ v.fat = e.fat /\ v.fat[1] = e.fat[1]
  BY <1>8, <1>9
<1>12. f.start_cluster # 0 => c = f.start_cluster
  BY <1>4 DEF Course
<1>13. /\ f.file_offset <= x /\ x + Len(w.todo) = total /\ f.size <= g.size
       /\ g.size = f.size \/ g.size = x
  BY <1>1, <1>4 DEF Course, AllToGo
<1>14. Passed(f, x) => Passed(f, x + n) /\ Passed(f, total)
  <2>1. x + n \in Nat /\ x <= x + n /\ x <= total
    BY <1>2, <1>7, <1>13
  <2> QED
    BY <1>2, <1>3, <2>1, PassedOn
<1>15. ASSUME Has(e, c, g.size, R), x < ClusterSize * Len(s)
       PROVE  /\ Chain(v, c) = s /\ Has(v, c, h.size, R) /\ h.size <= ClusterSize * Len(s)
              /\ \A m \in 0 .. g.size : Has(v, c, m, R)
  <2> DEFINE L == Len(s)
             y == ClusterSize * L
             z == g.size
  <2>1. L \in Nat /\ y \in Nat
    BY <1>2, ChainIs, DiskAssumption
  <2>2. \A m \in 0 .. z : Has(v, c, m, R) /\ Chain(v, c) = s
    <3>1. e \in Disks /\ v \in Disks /\ v.fat[1] = e.fat[1] /\ c \in {0} \cup Clusters /\ z \in Nat
          /\ Has(e, c, z, R) /\ s = Chain(e, c)
      BY <1>2, <1>11, <1>15
    <3> HIDE DEF e, v, c, z, s
    <3> QED
      BY <3>1, HasLess
  <2>3. Has(v, c, z, R) /\ Chain(v, c) = s
    BY <1>2, <2>2
  <2>4. z <= y
    BY <1>15 DEF Has, Holds
  <2>5. x + n <= y
    <3>1. n \in 0 .. ClusterSize - (x % ClusterSize)
      <4>1. ClusterSize - (x % ClusterSize) \in 1 .. ClusterSize /\ ClusterSize \in Nat
        BY <1>2, Within
      <4> QED
        BY <1>7, <4>1
    <3> HIDE DEF L, x
    <3>2. \A m \in 0 .. ClusterSize - (x % ClusterSize) : x + m <= ClusterSize * L
      BY <1>2, <1>15, <2>1, InChain DEF L
    <3> QED
      BY <3>1, <3>2
  <2>6. h.size <= y
    BY <1>7, <2>4, <2>5
  <2>7. Has(v, c, h.size, R)
    BY <2>3, <2>6 DEF Has, Holds
  <2> QED
    BY <2>2, <2>3, <2>6, <2>7
<1>16. Leaves(d, f, Len(bytes), R, v)
  <2>1. CASE Spoils(d, f, total, e)
    <3>1. Spoils(d, f, total, v)
      BY <1>11, <2>1 DEF Spoils
    <3> QED
      BY <1>10, <3>1 DEF Leaves
  <2>2. CASE Has(e, c, g.size, R) /\ x < ClusterSize * Len(s)
    <3>1. f.size \in 0 .. g.size
      BY <1>2, <1>3, <1>13
    <3>2. Has(v, c, f.size, R)
      BY <1>15, <2>2, <3>1
    <3>3. f.size = 0 => f.start_cluster = 0
      BY DEF Begins, Owns
    <3>4. f.start_cluster # 0 => Owns(v, f.start_cluster, f.size, R)
      BY <1>12, <3>2, <3>3, OwnsHas
    <3> QED
      BY <1>10, <3>4 DEF Leaves
  <2> QED
    BY <1>1, <2>1, <2>2
<1>17. \A im \in Range(u.images) : im \in Z \/ Leaves(d, f, Len(bytes), R, im)
  BY <1>4, <1>9, <1>16
<1>18. h.file_offset + Len(u.todo) = total
  BY <1>2, <1>7, <1>13
<1>19. Course(f, bytes, h, u.todo)
  <2>1. ASSUME NEW i \in 1 .. Len(u.todo)
        PROVE  u.todo[i] = bytes[(h.file_offset - f.file_offset) + i]
    <3>1. i + n \in 1 .. Len(w.todo)
      BY <1>2, <1>7
    <3>2. w.todo[i + n] = bytes[(x - f.file_offset) + (i + n)]
      BY <1>4, <3>1 DEF Course
    <3>3. (x - f.file_offset) + (i + n) = ((x + n) - f.file_offset) + i
      BY <1>2, <1>3, <1>7
    <3> QED
      BY <1>7, <3>2, <3>3
  <2>2. h.size >= f.size /\ (h.size = f.size \/ h.size = h.file_offset)
    BY <1>2, <1>3, <1>7, <1>13
  <2>3. h.file_offset >= f.file_offset /\ h.file_offset + Len(u.todo) <= f.file_offset + Len(bytes)
    BY <1>2, <1>3, <1>7, <1>13, <1>18
  <2> QED
    BY <1>7, <1>12, <2>1, <2>2, <2>3 DEF Course
<1>20. Common(d, f, bytes, R, Z, u)
  BY <1>4, <1>7, <1>10, <1>11, <1>17, <1>19 DEF Common
<1>21. \/ Spoils(d, f, total, v) /\ Passed(f, h.file_offset)
       \/ Owns(v, h.start_cluster, h.size, R)
  <2>1. CASE Spoils(d, f, total, e) /\ Passed(f, x)
    BY <1>7, <1>11, <1>14, <2>1 DEF Spoils
  <2>2. CASE Has(e, c, g.size, R) /\ x < ClusterSize * Len(s)
    <3>1. h.size # 0
      BY <1>2, <1>7
    <3> QED
      BY <1>7, <1>15, <2>2, <3>1, OwnsHas
  <2> QED
    BY <1>1, <2>1, <2>2
<1>22. ASSUME ~Passed(f, h.file_offset)
       PROVE  Standing(v, h) /\ Shows(d, f, bytes, v, h)
  <2>1. ~Passed(f, x) /\ ~Passed(f, x + n)
    BY <1>7, <1>14, <1>22
  <2>2. Placed(e, g) /\ Shows(d, f, bytes, e, g) /\ Has(e, c, g.size, R) /\ x < ClusterSize * Len(s)
    BY <1>1, <2>1
  <2>3. Chain(v, c) = s /\ h.size <= ClusterSize * Len(s)
    BY <1>15, <2>2
  <2>0. /\ e \in Disks /\ v \in Disks /\ g \in Handles /\ h \in Handles /\ n \in Nat \ {0}
        /\ n <= ClusterSize - (g.file_offset % ClusterSize) /\ f.file_offset \in Nat
        /\ f.file_offset <= g.file_offset /\ ~Passed(f, g.file_offset + n)
        /\ g.size = f.size \/ g.size = g.file_offset
        /\ h.file_offset = g.file_offset + n /\ h.cluster_offset = g.cluster_offset + n
        /\ h.size = (IF g.size >= g.file_offset + n THEN g.size ELSE g.file_offset + n)
        /\ h.start_cluster = g.start_cluster /\ h.current_cluster = g.current_cluster
        /\ Chain(v, g.start_cluster) = Chain(e, g.start_cluster) /\ Placed(e, g)
    BY <1>2, <1>3, <1>5, <1>7, <1>11, <1>13, <2>1, <2>2, <2>3
  <2> HIDE DEF h, v, g, e, u
  <2>4. Standing(v, h)
    <3>1. Behind(e, v, f, g, h, n)
      BY <2>0 DEF Behind
    <3> QED
      BY <2>0, <3>1, StandsBehind
  <2>5. \A i \in 1 .. n : taken[i] = bytes[(x - f.file_offset) + i]
    <3>1. \A i \in 1 .. n : i \in 1 .. Len(w.todo)
      BY <1>2, <1>7
    <3> QED
      BY <1>4, <1>7, <3>1 DEF Course
  <2>6. v = DataPut(e, g.current_cluster, InCluster(g), taken)
    BY <1>9
  <2>7. Shows(d, f, bytes, v, h)
    BY <1>2, <1>3, <1>5, <1>7, <1>13, <2>2, <2>3, <2>5, <2>6, ReadsBehind
  <2> QED
    BY <2>4, <2>7
<1>23. AllToGo(f, bytes, h, u.todo)
  BY <1>18 DEF AllToGo
<1>24. u \in Growing(d, f, bytes, R, Z)
  BY <1>5, <1>20, <1>21, <1>22, <1>23 DEF Growing
<1> QED
  BY <1>2, <1>7, <1>24 DEF u

\* A round of the loop.
LEMMA RoundStep ==
  ASSUME NEW d \in Disks, NEW f \in Handles, NEW bytes \in Seq(Bytes), NEW R \in SUBSET Clusters, NEW Z,
         Begins(d, f, bytes, R), NEW w \in Growing(d, f, bytes, R, Z)
  PROVE  /\ WriteChunk(w) \in Growing(d, f, bytes, R, Z)
         /\ Len(WriteChunk(w).todo) < Len(w.todo) \/ WriteChunk(w).todo = <<>>
<1> DEFINE e == Last(w.images)
           new == find_free_cluster(e)
<1>1. w \in Writing(d) /\ e \in Disks
  BY GrowingIs DEF Growing
<1>2. new \in {0} \cup Clusters /\ (new = 0 => FreeClusters(e) = {}) /\ (new # 0 => e.fat[1][new] = 0)
  BY <1>1, FreeIs
<1>3. CASE w.todo = <<>>
  BY <1>3 DEF WriteChunk, PutChunk
<1>4. CASE w.todo # <<>> /\ ~AtNewCluster(w.h)
  <2>1. w \in Roomy(d, f, bytes, R, Z)
    BY <1>4, RoomLeft
  <2>2. WriteChunk(w) = PutChunk(w)
    BY <1>4 DEF WriteChunk
  <2> QED
    BY <2>1, <2>2, PutStep
<1>5. CASE w.todo # <<>> /\ AtNewCluster(w.h) /\ new # 0
  <2>1. WriteChunk(w) = PutChunk(Extend(w, new))
    BY <1>5 DEF WriteChunk
  <2> HIDE DEF new
  <2>2. Extend(w, new) \in Roomy(d, f, bytes, R, Z) /\ Extend(w, new).todo = w.todo
    <3>1. new \in Clusters
      BY <1>2, <1>5
    <3> QED
      BY <1>1, <1>2, <1>5, <3>1, ExtendStep, ExtendIs
  <2> DEFINE u == Extend(w, new)
  <2>3. u \in Roomy(d, f, bytes, R, Z) /\ u.todo = w.todo /\ WriteChunk(w) = PutChunk(u)
    BY <2>1, <2>2
  <2> HIDE DEF u
  <2>4. PutChunk(u) \in Growing(d, f, bytes, R, Z) /\ Len(PutChunk(u).todo) < Len(u.todo)
    BY <2>3, PutStep
  <2> QED
    BY <2>3, <2>4
<1>6. CASE w.todo # <<>> /\ AtNewCluster(w.h) /\ new = 0
  <2> DEFINE u == [w EXCEPT !.todo = <<>>]
  <2>1. Extend(w, new) = u /\ WriteChunk(w) = PutChunk(Extend(w, new))
    BY <1>6 DEF WriteChunk, Extend
  <2>2. u \in Growing(d, f, bytes, R, Z) /\ u.todo = <<>>
    <3>1. f.file_offset \in Nat
      BY HandleTypes
    <3> QED
      BY <1>2, <1>6, <3>1, DiskFull
  <2>3. PutChunk(u) = u
    BY <2>2 DEF PutChunk
  <2> QED
    BY <2>1, <2>2, <2>3
<1> QED
  BY <1>3, <1>4, <1>5, <1>6

\* What fat32_write leaves.
LEMMA WriteGrows ==
  ASSUME NEW d \in Disks, NEW f \in Handles, NEW bytes \in Seq(Bytes), NEW R \in SUBSET Clusters, NEW Z,
         Begins(d, f, bytes, R), NEW w \in Growing(d, f, bytes, R, Z)
  PROVE  /\ WriteFrom(w.images, w.h, w.todo) \in Growing(d, f, bytes, R, Z)
         /\ WriteFrom(w.images, w.h, w.todo).todo = <<>>
<1> DEFINE S == Growing(d, f, bytes, R, Z)
           n == Len(w.todo)
           base == w
           F == [x \in S \X (1 .. n) |-> WriteChunk(x[1])]
<1>0. \A s \in S : s.todo \in Seq(Bytes) /\ Len(s.todo) \in Nat /\ s \in Writing(d)
  BY GrowingIs DEF Growing
<1>1. n \in Nat /\ w.todo \in Seq(Bytes) /\ w = [images |-> w.images, h |-> w.h, todo |-> w.todo]
  BY GrowingIs DEF Growing
<1>2. base \in S
  OBVIOUS
<1>3. ASSUME NEW s \in S
      PROVE  WriteChunk(s) \in S /\ (Len(WriteChunk(s).todo) < Len(s.todo) \/ WriteChunk(s).todo = <<>>)
  BY RoundStep
<1>4. F \in [S \X (1 .. n) -> S]
  BY <1>3
<1>5. \A s \in S, i \in 1 .. n : F[<<s, i>>] = WriteChunk(s)
  OBVIOUS
<1> HIDE DEF F, S, base, n
<1>6. \E g : WriteFold(g, base, n)
  <2>1. PICK g \in [SUBSET (1 .. n) -> S] : IsFold(g, base, F, n)
    BY <1>1, <1>2, <1>4, FoldExists
  <2>2. ASSUME NEW t \in SUBSET (1 .. n), t # {}
        PROVE  F[<<g[t \ {Max(t)}], Max(t)>>] = WriteChunk(g[t \ {Max(t)}])
    BY <1>1, <1>5, <2>1, <2>2, MaxIn
  <2>3. \A t \in SUBSET (1 .. n) : g[t] = IF t = {} THEN base ELSE WriteChunk(g[t \ {Max(t)}])
    BY <2>1, <2>2 DEF IsFold
  <2>4. WriteFold(g, base, n)
    BY <2>1, <2>3 DEF WriteFold
  <2> QED
    BY <2>4
<1>7. PICK g : WriteFold(g, base, n) /\ WriteFrom(w.images, w.h, w.todo) = g[1 .. n]
  <2>1. WriteFrom(w.images, w.h, w.todo) = (CHOOSE g : WriteFold(g, base, n))[1 .. n]
    BY <1>1, WriteFoldIs DEF base, n
  <2> QED
    BY <1>6, <2>1
<1>8. g[1 .. 0] = base
  BY <1>7 DEF WriteFold
<1>9. \A k \in 1 .. n : g[1 .. k] = WriteChunk(g[1 .. k - 1])
  <2>1. ASSUME NEW k \in 1 .. n
        PROVE  g[1 .. k] = WriteChunk(g[1 .. k - 1])
    <3>1. 1 .. k \in SUBSET (1 .. n) /\ 1 .. k # {} /\ (1 .. k) \ {Max(1 .. k)} = 1 .. k - 1
      BY <1>1, UpTo
    <3>2. g[1 .. k] = WriteChunk(g[(1 .. k) \ {Max(1 .. k)}])
      BY <1>7, <3>1 DEF WriteFold
    <3> QED
      BY <3>1, <3>2
  <2> QED
    BY <2>1
<1>10. \A k \in 0 .. n : g[1 .. k] \in S
  <2>1. g[1 .. 0] \in S
    BY <1>2, <1>8
  <2>2. \A k \in 1 .. n : g[1 .. k - 1] \in S => g[1 .. k] \in S
    BY <1>3, <1>9
  <2> QED
    BY <1>1, <2>1, <2>2, FoldStays
<1> DEFINE T == {k \in 0 .. n : Len(g[1 .. k].todo) <= n - k}
<1>11. 0 \in T
  BY <1>1, <1>8 DEF base, n
<1>12. \A k \in 0 .. n - 1 : k \in T => k + 1 \in T
  <2>1. ASSUME NEW k \in 0 .. n - 1, Len(g[1 .. k].todo) <= n - k
        PROVE  Len(g[1 .. k + 1].todo) <= n - (k + 1)
    <3>1. k \in 0 .. n /\ k + 1 \in 1 .. n /\ k + 1 \in 0 .. n /\ (k + 1) - 1 = k
      BY <1>1
    <3>2. g[1 .. k + 1] = WriteChunk(g[1 .. k]) /\ g[1 .. k] \in S /\ g[1 .. k + 1] \in S
      BY <1>9, <1>10, <3>1
    <3>3. Len(g[1 .. k + 1].todo) < Len(g[1 .. k].todo) \/ g[1 .. k + 1].todo = <<>>
      BY <1>3, <3>2
    <3>4. Len(g[1 .. k + 1].todo) \in Nat /\ Len(g[1 .. k].todo) \in Nat /\ Len(<<>>) = 0
      BY <1>0, <3>2, EmptySeq
    <3>5. CASE g[1 .. k + 1].todo = <<>>
      BY <1>1, <3>1, <3>4, <3>5
    <3>6. CASE Len(g[1 .. k + 1].todo) < Len(g[1 .. k].todo)
      <4>1. PICK a, b : a = Len(g[1 .. k + 1].todo) /\ b = Len(g[1 .. k].todo)
        OBVIOUS
      <4>2. a \in Nat /\ b \in Nat /\ a < b /\ b <= n - k /\ n \in Nat /\ k \in Nat
        BY <1>1, <2>1, <3>4, <3>6, <4>1
      <4>3. a <= n - (k + 1)
        BY <4>2
      <4> QED
        BY <4>1, <4>3
    <3> QED
      BY <3>3, <3>5, <3>6
  <2> QED
    BY <1>1, <2>1
<1>13. n \in T
  <2> HIDE DEF T
  <2>1. \A k \in 0 .. n : k \in T
    BY <1>1, <1>11, <1>12, ByCounting
  <2> QED
    BY <1>1, <2>1
<1>14. g[1 .. n] \in S /\ Len(g[1 .. n].todo) <= 0
  BY <1>1, <1>10, <1>13
<1>15. g[1 .. n].todo = <<>>
  <2>1. g[1 .. n].todo \in Seq(Bytes) /\ Len(g[1 .. n].todo) \in Nat
    BY <1>0, <1>14
  <2> DEFINE q == g[1 .. n].todo
  <2>2. q \in Seq(Bytes) /\ Len(q) = 0
    BY <1>14, <2>1
  <2> HIDE DEF q
  <2>3. q = <<>>
    BY <2>2, EmptySeq
  <2> QED
    BY <2>3 DEF q
<1> QED
  BY <1>7, <1>14, <1>15 DEF S

-----------------------------------------------------------------------------
(* What fat32_write leaves *)

\* A cluster of a chain is in its range.
LEMMA OnChain ==
  ASSUME NEW d \in Disks, NEW c \in {0} \cup Clusters, NEW k \in 1 .. Len(Chain(d, c))
  PROVE  Chain(d, c)[k] \in Range(Chain(d, c))
<1>1. PICK s : s = Chain(d, c)
  OBVIOUS
<1>2. Range(s) = {s[i] : i \in 1 .. Len(s)}
  BY <1>1, ChainHas
<1> QED
  BY <1>1, <1>2

\* At the beginning nothing was written.
LEMMA CourseBegins ==
  ASSUME NEW f \in Handles, NEW bytes \in Seq(Bytes), Len(bytes) \in Nat
  PROVE  Course(f, bytes, f, bytes)
<1> DEFINE x == f.file_offset
<1>1. x \in Nat /\ f.size \in Nat
  BY HandleTypes, Fat32Assumption
<1> HIDE DEF x
<1>2. x >= x /\ f.size >= f.size /\ (f.size = f.size \/ f.size = x)
  BY <1>1
<1>3. x + Len(bytes) <= x + Len(bytes)
  BY <1>1
<1>4. ASSUME NEW i \in 1 .. Len(bytes) PROVE bytes[i] = bytes[(x - x) + i]
  <2>1. (x - x) + i = i
    BY <1>1
  <2> QED
    BY <2>1
<1>5. \A i \in 1 .. Len(bytes) : bytes[i] = bytes[(x - x) + i]
  BY <1>4
<1> QED
  BY <1>2, <1>3, <1>5, Zenon DEF Course, x

\* A write begins in the clusters that are free or of its file, where its
\* handle stands.
LEMMA WriteBegins ==
  ASSUME NEW d \in Disks, NEW f \in Handles, f.ctx, InSync(d, f), f.file_offset <= f.size,
         NEW bytes \in Seq(Bytes), f.file_offset + Len(bytes) <= MaxSize,
         NEW R, R = Territory(d, f.start_cluster), Owns(d, f.start_cluster, f.size, R)
  PROVE  /\ R \in SUBSET Clusters /\ Begins(d, f, bytes, R)
         /\ [images |-> Unwritten(d), h |-> f, todo |-> bytes] \in Growing(d, f, bytes, R, {})
<1> DEFINE w == [images |-> Unwritten(d), h |-> f, todo |-> bytes]
           c == f.start_cluster
           s == Chain(d, c)
           z == f.size
           x == f.file_offset
           cur == f.current_cluster
<1>1. R \in SUBSET Clusters /\ \A y \in Clusters \ R : d.fat[1][y] # 0
  BY DEF Territory
<1>2. Begins(d, f, bytes, R)
  BY <1>1 DEF Begins
<1>3. /\ c \in {0} \cup Clusters /\ cur \in {0} \cup Clusters /\ z \in Nat /\ x \in Nat /\ Len(bytes) \in Nat
      /\ 0 \notin Clusters
  <2>1. Len(bytes) \in Nat
    BY LenProperties
  <2> QED
    BY <2>1, HandleTypes, Fat32Assumption, DiskAssumption DEF Clusters
<1>4. /\ Unwritten(d) \in ImagesAfter(d) /\ Last(Unwritten(d)) = d /\ Range(Unwritten(d)) = {d}
  BY FirstImage, OneImage, RangeGrows
<1>5. w.images = Unwritten(d) /\ w.h = f /\ w.todo = bytes /\ w \in Writing(d)
  BY <1>4 DEF Writing
<1> HIDE DEF w
<1>6. Standing(d, f)
  BY DEF InSync, Standing
<1>7. /\ z = 0 => c = 0 /\ cur = 0
      /\ z # 0 => cur \in Range(s)
  <2>1. z = 0 => c = 0 /\ x = z
    BY <1>3 DEF Owns
  <2>2. z = 0 => cur = 0
    BY <1>6, <2>1 DEF Standing
  <2>3. ASSUME z # 0
        PROVE  cur \in Range(s)
    <3> DEFINE m == IF x < z THEN x ELSE z - 1
    <3>1. m \in Nat /\ m < z
      BY <1>3, <2>3
    <3>2. cur = s[(m \div ClusterSize) + 1]
      BY <1>3, <1>6, <2>3 DEF Standing
    <3>3. Len(s) \in Nat /\ ClusterSize * Len(s) \in Nat
      BY <1>3, ChainIs, DiskAssumption
    <3>4. z <= ClusterSize * Len(s)
      BY DEF Owns, Holds
    <3> DEFINE n == Len(s)
    <3>5. m < ClusterSize * n /\ n \in Nat
      BY <1>3, <3>1, <3>3, <3>4
    <3> HIDE DEF m, n
    <3>6. (m \div ClusterSize) + 1 \in 1 .. n
      BY <3>1, <3>5, InChain
    <3> DEFINE k == (m \div ClusterSize) + 1
    <3>7. k \in 1 .. Len(s) /\ cur = s[k]
      BY <3>2, <3>6 DEF n
    <3> HIDE DEF k
    <3> QED
      BY <1>3, <3>7, OnChain
  <2> QED
    BY <2>1, <2>2, <2>3
<1>8. cur # 0 => cur \in R /\ d.fat[1][cur] # 0
  BY <1>3, <1>7, ProperIs DEF Owns
<1>9. Keeps(d, d, R)
  BY DEF Keeps
<1>10. Leaves(d, f, Len(bytes), R, d)
  BY <1>9 DEF Leaves
<1>11. Course(f, bytes, f, bytes)
  BY <1>3, CourseBegins
<1>12. Common(d, f, bytes, R, {}, w)
  <2>1. Course(f, bytes, w.h, w.todo)
    BY <1>5, <1>11
  <2>2. Keeps(d, Last(w.images), R)
    BY <1>4, <1>5, <1>9
  <2>3. /\ w.h.current_cluster \in {0} \cup R
        /\ w.h.current_cluster # 0 => Last(w.images).fat[1][w.h.current_cluster] # 0
    BY <1>3, <1>4, <1>5, <1>8
  <2>4. w.h.start_cluster # 0 => w.h.current_cluster # 0
    BY <1>3, <1>5, <1>7, OnChain, ProperIs
  <2>5. \A im \in Range(w.images) : im \in {} \/ Leaves(d, f, Len(bytes), R, im)
    BY <1>4, <1>5, <1>10
  <2> QED
    BY <2>1, <2>2, <2>3, <2>4, <2>5 DEF Common
<1>13. Shows(d, f, bytes, d, f)
  BY <1>3 DEF Shows
<1>14. w \in Growing(d, f, bytes, R, {})
  BY <1>4, <1>5, <1>6, <1>12, <1>13 DEF Growing, AllToGo
<1> QED
  BY <1>1, <1>2, <1>14 DEF w

\* So what it leaves is in order.
LEMMA WriteEnds ==
  ASSUME NEW d \in Disks, NEW f \in Handles, f.ctx, InSync(d, f), f.file_offset <= f.size,
         NEW bytes \in Seq(Bytes), f.file_offset + Len(bytes) <= MaxSize,
         NEW R, R = Territory(d, f.start_cluster), Owns(d, f.start_cluster, f.size, R)
  PROVE  /\ fat32_write(d, f, bytes) \in Growing(d, f, bytes, R, {})
         /\ fat32_write(d, f, bytes).todo = <<>>
<1> DEFINE w == [images |-> Unwritten(d), h |-> f, todo |-> bytes]
<1>1. R \in SUBSET Clusters /\ Begins(d, f, bytes, R) /\ w \in Growing(d, f, bytes, R, {})
  BY WriteBegins
<1>2. fat32_write(d, f, bytes) = WriteFrom(w.images, w.h, w.todo)
  BY DEF fat32_write
<1> HIDE DEF w
<1> QED
  BY <1>1, <1>2, WriteGrows

-----------------------------------------------------------------------------
(* What fat32_rewrite leaves *)

\* The disk after the first k clusters of the chain q were freed, and what the
\* images on the way have in common.
Emptied(d, e, q, k) ==
  /\ e.dir = d.dir /\ e.data = d.data
  /\ \A x \in Clusters : e.fat[1][x] = IF \E i \in 1 .. Len(q) : i <= k /\ x = q[i] THEN 0 ELSE d.fat[1][x]
KeepsOthers(d, e, R) ==
  /\ e.dir = d.dir
  /\ \A x \in Clusters \ R : e.fat[1][x] = d.fat[1][x] /\ e.data[x] = d.data[x]
Freeing(d, q, k) ==
  {s \in [images : ImagesAfter(d), c : {0} \cup Clusters] :
     /\ s.c = (IF k < Len(q) THEN q[k + 1] ELSE 0)
     /\ Emptied(d, Last(s.images), q, k)
     /\ \A im \in Range(s.images) : KeepsOthers(d, im, Range(q))}

\* What a FAT entry that is set leaves.
LEMMA SetIs ==
  ASSUME NEW images \in Images, NEW c \in Clusters, NEW value \in Links
  PROVE  LET new == set_fat_entry(images, c, value)
             e   == Last(images)
             fat == FatSet(e.fat[1], c, value)
         IN  /\ Last(new).fat[1] = fat /\ Last(new).dir = e.dir /\ Last(new).data = e.data
             /\ \A im \in Range(new) : im \in Range(images)
                  \/ (im.fat[1] = fat /\ im.dir = e.dir /\ im.data = e.data)
<1> DEFINE new == set_fat_entry(images, c, value)
           fat == FatSet(Last(images).fat[1], c, value)
<1>1. Last(images) \in Disks /\ Last(images).fat[1] \in Sectors /\ DOMAIN Last(images).fat[1] = Clusters
  BY ImagesGrow, DiskParts DEF Sectors
<1>2. new = CopySector(images, fat)
  BY DEF set_fat_entry, FatSet
<1>3. fat \in Sectors
  BY <1>1 DEF Sectors, FatSet
<1> HIDE DEF new, fat
<1>4. Copied(images, new, fat, FatCount)
  BY <1>2, <1>3, SectorCopied
<1>5. 1 \in 1 .. FatCount /\ 1 <= FatCount
  BY DiskAssumption
<1> QED
  BY <1>4, <1>5 DEF Copied, new, fat

\* A round of the loop.
LEMMA FreeRound ==
  ASSUME NEW d \in Disks, NEW start \in {0} \cup Clusters, NEW q, q = Chain(d, start), Len(q) <= TotalClusters,
         NEW k \in Nat, NEW s \in Freeing(d, q, k)
  PROVE  FreeStep(s) \in Freeing(d, q, k + 1)
<1> DEFINE e == Last(s.images)
           c == s.c
           new == set_fat_entry(s.images, c, 0)
           v == Last(new)
<1>1. /\ s.images \in ImagesAfter(d) /\ c \in {0} \cup Clusters /\ c = (IF k < Len(q) THEN q[k + 1] ELSE 0)
      /\ Emptied(d, e, q, k) /\ \A im \in Range(s.images) : KeepsOthers(d, im, Range(q))
      /\ s \in [images : ImagesAfter(d), c : {0} \cup Clusters]
  BY DEF Freeing
<1>2. s.images \in Images /\ e \in Disks /\ e.fat[1] \in Sectors /\ DOMAIN e.fat[1] = Clusters
  BY <1>1, ImagesGrow, DiskParts DEF ImagesAfter, Sectors
<1>3. q \in Seq(Clusters) /\ Len(q) \in Nat /\ Range(q) = {q[i] : i \in 1 .. Len(q)}
      /\ \A i \in 1 .. Len(q) : q[i] \in Clusters
  <2>1. q \in Seq(Clusters) /\ Len(q) \in Nat
    BY ChainHas
  <2>2. Range(q) = {q[i] : i \in 1 .. Len(q)}
    BY ChainHas
  <2>3. \A i \in 1 .. Len(q) : q[i] \in Clusters
    BY ChainHas
  <2> QED
    BY <2>1, <2>2, <2>3
<1>4. \A i, j \in 1 .. Len(q) : q[i] = q[j] => i = j
  BY ChainDistinct
<1>5. 0 \notin Clusters
  BY DiskAssumption DEF Clusters
<1>6. CASE k >= Len(q)
  <2>1. c = 0 /\ FreeStep(s) = s
    BY <1>1, <1>3, <1>6 DEF FreeStep
  <2>2. \A i \in 1 .. Len(q) : i <= k <=> i <= k + 1
    BY <1>3, <1>6
  <2>3. Emptied(d, e, q, k + 1)
    BY <1>1, <2>2 DEF Emptied
  <2> QED
    BY <1>1, <1>3, <1>6, <2>1, <2>3 DEF Freeing
<1>7. CASE k < Len(q)
  <2> DEFINE next == fat32_next_cluster(e, c)
  <2>1. k + 1 \in 1 .. Len(q) /\ c = q[k + 1] /\ c \in Clusters /\ c # 0
    BY <1>1, <1>3, <1>5, <1>7
  <2>2. FreeStep(s) = [images |-> new, c |-> next]
    BY <2>1 DEF FreeStep, FreeHead
  <2>3. e.fat[1][c] = d.fat[1][c]
    <3>1. ~\E i \in 1 .. Len(q) : i <= k /\ c = q[i]
      BY <1>3, <1>4, <2>1
    <3> QED
      BY <1>1, <2>1, <3>1 DEF Emptied
  <2>4. next = fat32_next_cluster(d, c)
    BY <2>3 DEF fat32_next_cluster
  <2>5. next = IF k + 1 < Len(q) THEN q[(k + 1) + 1] ELSE 0
    <3>1. CASE k + 1 < Len(q)
      <4>1. k + 1 \in 1 .. Len(q) - 1
        BY <1>3, <2>1, <3>1
      <4>2. \A i \in 1 .. Len(q) - 1 : q[i + 1] = fat32_next_cluster(d, q[i])
        BY ChainHas
      <4> QED
        BY <2>1, <2>4, <3>1, <4>1, <4>2
    <3>2. CASE k + 1 = Len(q)
      <4>1. start # 0
        <5>1. start = 0 => Len(q) = 0
          BY ChainHas
        <5> QED
          BY <1>7, <5>1
      <4>2. fat32_next_cluster(d, q[Len(q)]) = 0
        BY <4>1, ChainHas
      <4> QED
        BY <2>1, <2>4, <3>2, <4>2
    <3> QED
      BY <1>3, <2>1, <3>1, <3>2
  <2>6. next \in {0} \cup Clusters
    BY <1>2, <2>1, LinksLead
  <2>7. /\ new \in ImagesAfter(d) /\ v.fat[1] = FatSet(e.fat[1], c, 0) /\ v.dir = e.dir /\ v.data = e.data
        /\ \A im \in Range(new) : im \in Range(s.images)
             \/ (im.fat[1] = FatSet(e.fat[1], c, 0) /\ im.dir = e.dir /\ im.data = e.data)
    <3>1. s.images \in Images /\ 0 \in Links
      BY <1>2 DEF Links
    <3>2. new \in ImagesAfter(d)
      BY <1>1, <3>1, EntrySetAfter
    <3> QED
      BY <1>1, <2>1, <3>1, <3>2, SetIs
  <2>8. FatSet(e.fat[1], c, 0)[c] = 0 /\ \A x \in Clusters : x # c => FatSet(e.fat[1], c, 0)[x] = e.fat[1][x]
    BY <1>2, <2>1 DEF FatSet
  <2> HIDE DEF new, next
  <2>9. Emptied(d, v, q, k + 1)
    <3>1. ASSUME NEW x \in Clusters
          PROVE  v.fat[1][x] = IF \E i \in 1 .. Len(q) : i <= k + 1 /\ x = q[i] THEN 0 ELSE d.fat[1][x]
      <4>1. CASE x = c
        <5>1. k + 1 \in 1 .. Len(q) /\ k + 1 <= k + 1 /\ x = q[k + 1]
          BY <2>1, <4>1
        <5> QED
          BY <2>7, <2>8, <4>1, <5>1
      <4>2. CASE x # c
        <5>1. \A i \in 1 .. Len(q) : i <= k + 1 /\ x = q[i] <=> i <= k /\ x = q[i]
          <6>1. \A i \in 1 .. Len(q) : i <= k + 1 /\ i # k + 1 => i <= k
            BY <1>3
          <6>2. \A i \in 1 .. Len(q) : i <= k => i <= k + 1
            BY <1>3
          <6> QED
            BY <2>1, <4>2, <6>1, <6>2
        <5> QED
          BY <1>1, <2>7, <2>8, <4>2, <5>1 DEF Emptied
      <4> QED
        BY <4>1, <4>2
    <3> QED
      BY <1>1, <2>7, <3>1 DEF Emptied
  <2>10. ASSUME NEW im, im.fat[1] = FatSet(e.fat[1], c, 0), im.dir = e.dir, im.data = e.data
         PROVE  KeepsOthers(d, im, Range(q))
    <3>1. ASSUME NEW x \in Clusters \ Range(q)
          PROVE  im.fat[1][x] = d.fat[1][x] /\ im.data[x] = d.data[x]
      <4>1. x # c /\ ~\E i \in 1 .. Len(q) : i <= k /\ x = q[i]
        BY <1>3, <2>1, <3>1
      <4> QED
        BY <1>1, <2>8, <2>10, <4>1 DEF Emptied
    <3> QED
      BY <1>1, <2>10, <3>1 DEF KeepsOthers, Emptied
  <2>11. \A im \in Range(new) : KeepsOthers(d, im, Range(q))
    BY <1>1, <2>7, <2>10
  <2> QED
    BY <2>2, <2>5, <2>6, <2>7, <2>9, <2>11 DEF Freeing
<1> QED
  BY <1>3, <1>6, <1>7

\* The fold that FreeChain is.
LEMMA FreeFolds ==
  ASSUME NEW d \in Disks, NEW start \in {0} \cup Clusters
  PROVE  \E g : /\ FreeFold(g, [images |-> Unwritten(d), c |-> start], TotalClusters)
                /\ FreeChain(d, start) = g[1 .. TotalClusters].images
<1> DEFINE S == [images : ImagesAfter(d), c : {0} \cup Clusters]
           n == TotalClusters
           base == [images |-> Unwritten(d), c |-> start]
           F == [x \in S \X (1 .. n) |-> FreeStep(x[1])]
<1>1. n \in Nat
  BY DiskAssumption
<1>2. base \in S
  BY FirstImage
<1>3. ASSUME NEW s \in S
      PROVE  FreeStep(s) \in S
  <2> DEFINE next == fat32_next_cluster(Last(s.images), s.c)
             cleared == set_fat_entry(s.images, s.c, 0)
  <2>1. s.images \in ImagesAfter(d) /\ s.c \in {0} \cup Clusters /\ Last(s.images) \in Disks
    BY ImagesGrow DEF ImagesAfter
  <2>2. cleared \in ImagesAfter(d)
    BY <2>1, EntrySetAfter DEF Links
  <2>3. s.c # 0 => next \in {0} \cup Clusters
    BY <2>1, LinksLead
  <2> HIDE DEF next, cleared
  <2>4. FreeHead(s, next) = [images |-> cleared, c |-> next]
    BY DEF FreeHead, cleared
  <2>5. s.c # 0 => FreeHead(s, next) \in S
    BY <2>2, <2>3, <2>4
  <2> QED
    BY <2>5 DEF FreeStep, next
<1>4. F \in [S \X (1 .. n) -> S]
  BY <1>3
<1>5. \A s \in S, i \in 1 .. n : F[<<s, i>>] = FreeStep(s)
  OBVIOUS
<1> HIDE DEF F, S, base, n
<1>6. \E g : FreeFold(g, base, n)
  <2>1. PICK g \in [SUBSET (1 .. n) -> S] : IsFold(g, base, F, n)
    BY <1>1, <1>2, <1>4, FoldExists
  <2>2. ASSUME NEW t \in SUBSET (1 .. n), t # {}
        PROVE  F[<<g[t \ {Max(t)}], Max(t)>>] = FreeStep(g[t \ {Max(t)}])
    BY <1>1, <1>5, <2>1, <2>2, MaxIn
  <2>3. \A t \in SUBSET (1 .. n) : g[t] = IF t = {} THEN base ELSE FreeStep(g[t \ {Max(t)}])
    BY <2>1, <2>2 DEF IsFold
  <2>4. FreeFold(g, base, n)
    BY <2>1, <2>3 DEF FreeFold
  <2> QED
    BY <2>4
<1>7. FreeChain(d, start) = (CHOOSE g : FreeFold(g, base, n))[1 .. n].images
  BY FreeFoldIs DEF base, n
<1> QED
  BY <1>6, <1>7 DEF base, n

\* A chain that ends is freed, and everything else is kept.
LEMMA ChainEmptied ==
  ASSUME NEW d \in Disks, NEW start \in {0} \cup Clusters, NEW q, q = Chain(d, start), Len(q) <= TotalClusters
  PROVE  /\ FreeChain(d, start) \in ImagesAfter(d)
         /\ Emptied(d, Last(FreeChain(d, start)), q, TotalClusters)
         /\ \A im \in Range(FreeChain(d, start)) : KeepsOthers(d, im, Range(q))
<1> DEFINE n == TotalClusters
           base == [images |-> Unwritten(d), c |-> start]
<1>1. n \in Nat /\ Len(q) \in Nat
  BY ChainHas, DiskAssumption
<1>2. PICK g : FreeFold(g, base, n) /\ FreeChain(d, start) = g[1 .. n].images
  BY FreeFolds
<1>3. base \in Freeing(d, q, 0)
  <2>1. Unwritten(d) \in ImagesAfter(d) /\ Last(Unwritten(d)) = d /\ Range(Unwritten(d)) = {d}
    BY FirstImage, OneImage, RangeGrows
  <2>2. start = IF 0 < Len(q) THEN q[0 + 1] ELSE 0
    BY <1>1, ChainHas
  <2>3. Emptied(d, d, q, 0)
    BY <1>1 DEF Emptied
  <2>4. KeepsOthers(d, d, Range(q))
    BY DEF KeepsOthers
  <2> QED
    BY <2>1, <2>2, <2>3, <2>4 DEF Freeing
<1>4. g[1 .. 0] = base
  BY <1>2 DEF FreeFold
<1> HIDE DEF base, n
<1> DEFINE T == {k \in 0 .. n : g[1 .. k] \in Freeing(d, q, k)}
<1>5. 0 \in T
  BY <1>1, <1>3, <1>4
<1>6. ASSUME NEW k \in 0 .. n - 1, k \in T
      PROVE  k + 1 \in T
  <2> DEFINE m == k + 1
  <2>1. m \in 1 .. n /\ m - 1 = k /\ k \in Nat
    BY <1>1
  <2> HIDE DEF m
  <2>2. 1 .. m \in SUBSET (1 .. n) /\ 1 .. m # {} /\ (1 .. m) \ {Max(1 .. m)} = 1 .. m - 1
    BY <1>1, <2>1, UpTo
  <2>3. g[1 .. m] = FreeStep(g[(1 .. m) \ {Max(1 .. m)}])
    BY <1>2, <2>2 DEF FreeFold
  <2>4. g[1 .. m] = FreeStep(g[1 .. k])
    BY <2>1, <2>2, <2>3
  <2>5. FreeStep(g[1 .. k]) \in Freeing(d, q, k + 1)
    BY <1>6, <2>1, FreeRound
  <2> QED
    BY <2>1, <2>4, <2>5 DEF m
<1> HIDE DEF T
<1>7. \A k \in 0 .. n : k \in T
  BY <1>1, <1>5, <1>6, ByCounting
<1>8. g[1 .. n] \in Freeing(d, q, n)
  BY <1>1, <1>7 DEF T
<1> QED
  BY <1>2, <1>8 DEF Freeing, n

\* The disk with the territory of a handle free, and what is on the way to it.
Cleared(d, v, R) ==
  /\ v \in Images /\ Last(v).dir = d.dir
  /\ \A x \in Clusters \ R : Last(v).fat[1][x] = d.fat[1][x] /\ Last(v).fat[1][x] # 0
                             /\ Last(v).data[x] = d.data[x]
  /\ \A x \in R : Last(v).fat[1][x] = 0
  /\ \A im \in Range(v) : KeepsOthers(d, im, R)

\* fat32_rewrite begins with it.
LEMMA ClearedFirst ==
  ASSUME NEW d \in Disks, NEW c \in {0} \cup Clusters, Len(Chain(d, c)) <= TotalClusters,
         NEW R, R = Territory(d, c)
  PROVE  Cleared(d, FreeChain(d, c), R)
<1> DEFINE v == FreeChain(d, c)
<1>1. PICK q : q = Chain(d, c)
  OBVIOUS
<1>2. v \in ImagesAfter(d) /\ Emptied(d, Last(v), q, TotalClusters) /\ \A im \in Range(v) : KeepsOthers(d, im, Range(q))
  BY <1>1, ChainEmptied
<1>3. Range(q) = {q[i] : i \in 1 .. Len(q)}
  BY <1>1, ChainHas
<1>4. Len(q) \in Nat /\ \A i \in 1 .. Len(q) : i <= TotalClusters
  BY <1>1, ChainHas, DiskAssumption
<1> HIDE DEF v
<1>5. \A x \in Clusters : (\E i \in 1 .. Len(q) : i <= TotalClusters /\ x = q[i]) <=> x \in Range(q)
  BY <1>3, <1>4
<1>6. R \in SUBSET Clusters /\ \A x \in Clusters : x \in R <=> (d.fat[1][x] = 0 \/ x \in Range(q))
  BY <1>1 DEF Territory
<1>7. \A x \in Clusters : Last(v).fat[1][x] = IF x \in Range(q) THEN 0 ELSE d.fat[1][x]
  BY <1>2, <1>5 DEF Emptied
<1>8. \A im \in Range(v) : KeepsOthers(d, im, R)
  BY <1>2, <1>6 DEF KeepsOthers
<1>9. v \in Images /\ Last(v).dir = d.dir /\ Last(v).data = d.data
  BY <1>2 DEF Emptied, ImagesAfter
<1> QED
  BY <1>6, <1>7, <1>8, <1>9 DEF Cleared, v

\* What fat32_rewrite begins with.
NewFile == Handle(TRUE, 0, 0, FALSE)

\* A handle of nothing stands at its end.
LEMMA NothingYet ==
  ASSUME NEW f, f.start_cluster = 0, f.current_cluster = 0, f.size = 0, f.file_offset = 0, NEW e, NEW bytes
  PROVE  Standing(e, f) /\ Shows(e, f, bytes, e, f)
<1>1. Standing(e, f)
  BY DEF Standing
<1>2. Shows(e, f, bytes, e, f)
  BY DEF Shows
<1> QED
  BY <1>1, <1>2

\* And goes on with a write to an empty file.
LEMMA RewriteBegins ==
  ASSUME NEW d \in Disks, NEW R \in SUBSET Clusters, NEW v, Cleared(d, v, R),
         NEW bytes \in Seq(Bytes), Len(bytes) <= MaxSize, NEW f, f = NewFile
  PROVE  /\ Last(v) \in Disks /\ f \in Handles /\ Begins(Last(v), f, bytes, R)
         /\ [images |-> v, h |-> f, todo |-> bytes] \in Growing(Last(v), f, bytes, R, Range(v))
<1> DEFINE w == [images |-> v, h |-> f, todo |-> bytes]
           e == Last(v)
<1>1. e \in Disks /\ v \in Images
  BY ImagesGrow DEF Cleared
<1>2. /\ f.ctx /\ f.start_cluster = 0 /\ f.current_cluster = 0 /\ f.size = 0 /\ f.file_offset = 0
      /\ f.cluster_offset = 0 /\ f \in Handles
  BY Fat32Assumption DEF NewFile, Handle, Handles
<1>3. Len(bytes) \in Nat /\ 0 + Len(bytes) <= MaxSize /\ MaxSize \in Nat /\ 0 <= 0 /\ ClusterSize \in Nat \ {0}
  BY Fat32Assumption, DiskAssumption, LenProperties
<1>4. Chain(e, 0) = <<>> /\ Len(Chain(e, 0)) = 0 /\ 0 \in {0} \cup Clusters
  BY <1>1, ChainHas
<1>5. Owns(e, 0, 0, R)
  <2>1. Range(Chain(e, 0)) = {}
    BY <1>4 DEF Range
  <2>2. 0 <= ClusterSize * 0 /\ 0 <= TotalClusters
    BY <1>3, DiskAssumption
  <2>3. Holds(Chain(e, 0), 0)
    BY <1>4, <2>2 DEF Holds
  <2>4. ProperChain(e, Chain(e, 0))
    BY <1>1, <1>4, <2>1, <2>2, ProperIs
  <2> QED
    BY <2>1, <2>3, <2>4 DEF Owns
<1> HIDE DEF e
<1>6. Begins(e, f, bytes, R)
  <2>1. \A x \in Clusters \ R : e.fat[1][x] # 0
    BY DEF Cleared, e
  <2>2. f.file_offset <= f.size /\ f.file_offset + Len(bytes) <= MaxSize
    BY <1>2, <1>3
  <2>3. Owns(e, f.start_cluster, f.size, R)
    BY <1>2, <1>5
  <2> QED
    BY <1>2, <2>1, <2>2, <2>3 DEF Begins
<1>7. w.images = v /\ w.h = f /\ w.todo = bytes /\ w \in Writing(e)
  <2>1. v \in ImagesAfter(e)
    BY <1>1 DEF ImagesAfter, FatKept, e
  <2>2. f.file_offset <= f.size /\ f.file_offset + Len(bytes) <= MaxSize
    BY <1>2, <1>3
  <2> QED
    BY <1>2, <2>1, <2>2 DEF Writing
<1> HIDE DEF w
<1>8. Course(f, bytes, f, bytes)
  BY <1>2, <1>3, CourseBegins
<1>9. Keeps(e, e, R)
  BY DEF Keeps
<1>10. Common(e, f, bytes, R, Range(v), w)
  <2>1. Course(f, bytes, w.h, w.todo)
    BY <1>7, <1>8
  <2>2. Keeps(e, Last(w.images), R)
    BY <1>7, <1>9 DEF e
  <2>3. /\ w.h.current_cluster \in {0} \cup R
        /\ w.h.current_cluster # 0 => Last(w.images).fat[1][w.h.current_cluster] # 0
        /\ w.h.start_cluster # 0 => w.h.current_cluster # 0
    BY <1>2, <1>7
  <2>4. \A im \in Range(w.images) : im \in Range(v) \/ Leaves(e, f, Len(bytes), R, im)
    BY <1>7
  <2> QED
    BY <2>1, <2>2, <2>3, <2>4 DEF Common
<1>11. Standing(e, f)
  BY <1>2, NothingYet
<1>12. Shows(e, f, bytes, e, f)
  BY <1>2, NothingYet
<1>13. w \in Growing(e, f, bytes, R, Range(v))
  <2>1. Last(w.images) = e /\ w.h = f /\ w.todo = bytes
    BY <1>7 DEF e
  <2>2. AllToGo(f, bytes, w.h, w.todo)
    BY <2>1 DEF AllToGo
  <2>3. Owns(e, w.h.start_cluster, w.h.size, R)
    BY <1>2, <1>5, <2>1
  <2> QED
    BY <1>7, <1>10, <1>11, <1>12, <2>1, <2>2, <2>3 DEF Growing
<1> QED
  BY <1>1, <1>2, <1>6, <1>13 DEF w, e

\* So what it leaves is in order.
LEMMA RewriteEnds ==
  ASSUME NEW d \in Disks, NEW g \in Handles, Len(Chain(d, g.start_cluster)) <= TotalClusters,
         NEW R, R = Territory(d, g.start_cluster),
         NEW bytes \in Seq(Bytes), Len(bytes) <= MaxSize,
         NEW f, f = NewFile, NEW v, v = FreeChain(d, g.start_cluster)
  PROVE  /\ R \in SUBSET Clusters /\ Cleared(d, v, R) /\ Last(v) \in Disks
         /\ fat32_rewrite(d, g, bytes) \in Growing(Last(v), f, bytes, R, Range(v))
         /\ fat32_rewrite(d, g, bytes).todo = <<>>
<1> DEFINE w == [images |-> v, h |-> f, todo |-> bytes]
<1>1. g.start_cluster \in {0} \cup Clusters /\ R \in SUBSET Clusters
  BY HandleTypes DEF Territory
<1>2. Cleared(d, v, R)
  BY <1>1, ClearedFirst
<1>3. /\ Last(v) \in Disks /\ f \in Handles /\ Begins(Last(v), f, bytes, R)
      /\ w \in Growing(Last(v), f, bytes, R, Range(v))
  BY <1>1, <1>2, RewriteBegins
<1>4. fat32_rewrite(d, g, bytes) = WriteFrom(w.images, w.h, w.todo)
  BY DEF fat32_rewrite, NewFile
<1> HIDE DEF w
<1> DEFINE e == Last(v)
<1>5. e \in Disks /\ f \in Handles /\ Begins(e, f, bytes, R) /\ w \in Growing(e, f, bytes, R, Range(v))
  BY <1>3
<1> HIDE DEF e
<1>6. PICK Z : Z = Range(v)
  OBVIOUS
<1>7. /\ WriteFrom(w.images, w.h, w.todo) \in Growing(e, f, bytes, R, Z)
      /\ WriteFrom(w.images, w.h, w.todo).todo = <<>>
  BY <1>1, <1>5, <1>6, WriteGrows
<1> QED
  BY <1>1, <1>2, <1>3, <1>4, <1>6, <1>7 DEF e

-----------------------------------------------------------------------------
(* The open file after a write, a rewrite and a crash in one *)

\* Nothing is owned for nothing.
LEMMA OwnsNothing ==
  ASSUME NEW d \in Disks, NEW R
  PROVE  Owns(d, 0, 0, R)
<1>1. Chain(d, 0) = <<>> /\ Len(Chain(d, 0)) = 0 /\ 0 \in {0} \cup Clusters
  BY ChainHas
<1>2. ClusterSize \in Nat /\ ClusterSize * 0 = 0 /\ 0 <= 0 /\ 0 <= TotalClusters
  BY DiskAssumption
<1>3. Range(Chain(d, 0)) = {}
  BY <1>1 DEF Range
<1>4. ProperChain(d, Chain(d, 0))
  BY <1>1, <1>2, <1>3, ProperIs
<1>5. Holds(Chain(d, 0), 0)
  BY <1>1, <1>2 DEF Holds
<1> QED
  BY <1>3, <1>4, <1>5 DEF Owns

\* There is no chain without a size, and no size without a chain.
LEMMA NoneForNone ==
  ASSUME NEW d \in Disks, NEW c \in {0} \cup Clusters, NEW size \in Nat, NEW R, Owns(d, c, size, R)
  PROVE  c = 0 <=> size = 0
<1>1. Len(Chain(d, 0)) = 0
  BY ChainHas
<1>2. ClusterSize * 0 = 0
  BY DiskAssumption
<1> QED
  BY <1>1, <1>2 DEF Owns, Holds

\* A chain is owned for what an entry says that was not told of all of it.
LEMMA OwnsEntry ==
  ASSUME NEW d \in Disks, NEW start \in {0} \cup Clusters, NEW size \in 0 .. MaxSize, NEW R,
         start = 0 \/ Owns(d, start, size, R), NEW e \in Entries, EntryOf(e, start, size)
  PROVE  /\ e.first_cluster \in {0} \cup Clusters /\ e.file_size \in 0 .. MaxSize
         /\ Owns(d, e.first_cluster, e.file_size, R)
<1>1. /\ e.first_cluster \in {0} \cup Clusters /\ e.file_size \in 0 .. MaxSize /\ e.file_size \in Nat
      /\ size \in Nat /\ e.file_size <= size
  BY Fat32Assumption DEF Entries, EntryOf
<1>2. CASE e.first_cluster = 0
  <2>1. e.file_size = 0
    BY <1>2 DEF EntryOf
  <2> QED
    BY <1>1, <1>2, <2>1, OwnsNothing
<1>3. CASE e.first_cluster # 0
  <2>1. e.first_cluster = start /\ e.file_size # 0 /\ Owns(d, start, size, R)
    BY <1>3 DEF EntryOf
  <2>2. Has(d, start, size, R) /\ e.file_size \in 0 .. size
    BY <1>1, <2>1 DEF Owns, Has
  <2>3. Has(d, start, e.file_size, R)
    BY <1>1, <2>2, HasLess
  <2> QED
    BY <1>1, <2>1, <2>3, OwnsHas
<1> QED
  BY <1>2, <1>3

\* A write keeps the start and what there was.
Extends(h, f) == h.size >= f.size /\ (f.start_cluster # 0 => h.start_cluster = f.start_cluster)

\* A write to a file that is held, which does not cut its chain.
LEMMA WriteHeld ==
  ASSUME NEW d \in Disks, NEW f \in Handles, f.ctx, InSync(d, f), f.file_offset <= f.size,
         NEW bytes \in Seq(Bytes), f.file_offset + Len(bytes) <= MaxSize,
         NEW s, Held(d, s, f.start_cluster, f.size), NEW w, w = fat32_write(d, f, bytes),
         NEW e, e = Last(w.images), ~Spoils(d, f, f.file_offset + Len(bytes), e)
  PROVE  /\ e \in Disks /\ Held(e, s, w.h.start_cluster, w.h.size) /\ SameDirs(d, e) /\ EntryAt(e, s) = EntryAt(d, s)
         /\ Extends(w.h, f)
         /\ w.h \in Handles /\ w.h.ctx
<1> DEFINE R == Territory(d, f.start_cluster)
<1>1. f.start_cluster \in {0} \cup Clusters /\ f.size \in 0 .. MaxSize
  BY HandleTypes
<1>2. Owns(d, f.start_cluster, f.size, R)
  BY <1>1, HeldIs
<1>3. w \in Growing(d, f, bytes, R, {})
  BY <1>2, WriteEnds
<1>4. w \in Writing(d) /\ Common(d, f, bytes, R, {}, w) /\ Owns(e, w.h.start_cluster, w.h.size, R)
  BY <1>3 DEF Growing
<1>5. Course(f, bytes, w.h, w.todo) /\ Keeps(d, e, R)
  BY <1>4 DEF Common
<1>6. w.images \in Images /\ w.h \in Handles /\ w.h.ctx
  BY <1>4 DEF Writing, ImagesAfter
<1>7. e \in Disks /\ w.h.start_cluster \in {0} \cup Clusters /\ w.h.size \in 0 .. MaxSize
  BY <1>6, ImagesGrow, HandleTypes
<1>8. Held(e, s, w.h.start_cluster, w.h.size) /\ SameDirs(d, e)
  <2> DEFINE c == w.h.start_cluster
             n == w.h.size
  <2>1. e.dir = d.dir /\ \A x \in Clusters \ R : e.fat[1][x] = d.fat[1][x]
    BY <1>5 DEF Keeps
  <2>2. c \in {0} \cup Clusters /\ n \in 0 .. MaxSize /\ Owns(e, c, n, R)
    BY <1>4, <1>7
  <2> HIDE DEF c, n
  <2>3. Held(e, s, c, n) /\ SameDirs(d, e)
    BY <1>1, <1>7, <2>1, <2>2, HeldOn
  <2> QED
    BY <2>3 DEF c, n
<1>9. EntryAt(e, s) = EntryAt(d, s)
  BY <1>5 DEF Keeps, EntryAt
<1>10. Extends(w.h, f)
  BY <1>5 DEF Course, Extends
<1> QED
  BY <1>6, <1>7, <1>8, <1>9, <1>10

\* A crash in a write that leaves no link to a free cluster.
LEMMA WriteCrashes ==
  ASSUME NEW d \in Disks, NEW f \in Handles, f.ctx, InSync(d, f), f.file_offset <= f.size,
         NEW bytes \in Seq(Bytes), f.file_offset + Len(bytes) <= MaxSize,
         NEW s, Held(d, s, f.start_cluster, f.size), EntryOf(EntryAt(d, s), f.start_cluster, f.size),
         NEW e \in Range(fat32_write(d, f, bytes).images), ~Dangling(e),
         ~Spoils(d, f, f.file_offset + Len(bytes), e)
  PROVE  e \in Disks /\ WellFormed(e)
<1> DEFINE R == Territory(d, f.start_cluster)
           w == fat32_write(d, f, bytes)
           n == EntryAt(d, s)
<1>1. f.start_cluster \in {0} \cup Clusters /\ f.size \in 0 .. MaxSize /\ f.size \in Nat
  BY HandleTypes, Fat32Assumption
<1>2. Owns(d, f.start_cluster, f.size, R) /\ s \in Places /\ n \in Entries
  BY <1>1, HeldIs, EntryIs
<1>3. w \in Growing(d, f, bytes, R, {})
  BY <1>2, WriteEnds
<1>4. w \in Writing(d) /\ Common(d, f, bytes, R, {}, w)
  BY <1>3 DEF Growing
<1>5. Leaves(d, f, Len(bytes), R, e)
  BY <1>4 DEF Common
<1>6. w.images \in Images
  BY <1>4 DEF Writing, ImagesAfter
<1>7. e \in Disks
  BY <1>6, RangeGrows
<1>8. Keeps(d, e, R) /\ (f.start_cluster = 0 \/ Owns(e, f.start_cluster, f.size, R))
  BY <1>5 DEF Leaves
<1> HIDE DEF w, n, R
<1>9. /\ n.first_cluster \in {0} \cup Clusters /\ n.file_size \in 0 .. MaxSize
      /\ Owns(e, n.first_cluster, n.file_size, R)
  BY <1>1, <1>2, <1>7, <1>8, OwnsEntry DEF n
<1>10. e.dir = d.dir /\ \A x \in Clusters \ R : e.fat[1][x] = d.fat[1][x]
  BY <1>8 DEF Keeps
<1>11. WellFormed(e)
  <2> DEFINE c == n.first_cluster
             m == n.file_size
  <2>1. c \in {0} \cup Clusters /\ m \in 0 .. MaxSize /\ Owns(e, c, m, R)
    BY <1>9
  <2>2. c = EntryAt(d, s).first_cluster /\ m = EntryAt(d, s).file_size
    BY DEF n
  <2> HIDE DEF c, m
  <2> QED
    BY <1>1, <1>7, <1>10, <2>1, <2>2, HeldOn DEF R
<1> QED
  BY <1>7, <1>11

\* A write to an empty file passes no boundary inside of it.
LEMMA NothingPassed ==
  ASSUME NEW x \in Nat
  PROVE  ~Passed(NewFile, x)
<1>1. NewFile.size = 0 /\ NewFile.file_offset = 0
  BY DEF NewFile, Handle
<1>2. \A m \in 0 + 1 .. x : ~(m < 0)
  OBVIOUS
<1> QED
  BY <1>1, <1>2 DEF Passed, InteriorBoundary

\* A rewrite of a file that is held.
LEMMA RewriteHeld ==
  ASSUME NEW d \in Disks, NEW f \in Handles, NEW bytes \in Seq(Bytes), Len(bytes) <= MaxSize,
         NEW s, Held(d, s, f.start_cluster, f.size), NEW w, w = fat32_rewrite(d, f, bytes),
         NEW e, e = Last(w.images)
  PROVE  /\ e \in Disks /\ Held(e, s, w.h.start_cluster, w.h.size) /\ SameDirs(d, e)
         /\ w.h \in Handles /\ w.h.ctx
<1> DEFINE R == Territory(d, f.start_cluster)
           v == FreeChain(d, f.start_cluster)
           a == Last(v)
           g == NewFile
<1>1. f.start_cluster \in {0} \cup Clusters /\ f.size \in 0 .. MaxSize
  BY HandleTypes
<1>2. Owns(d, f.start_cluster, f.size, R)
  BY <1>1, HeldIs
<1>3. Len(Chain(d, f.start_cluster)) <= TotalClusters
  BY <1>2 DEF Owns, ProperChain
<1>4. /\ R \in SUBSET Clusters /\ Cleared(d, v, R) /\ Last(v) \in Disks
      /\ fat32_rewrite(d, f, bytes) \in Growing(Last(v), g, bytes, R, Range(v))
  BY <1>3, RewriteEnds
<1>5. w \in Growing(a, g, bytes, R, Range(v)) /\ a \in Disks
  BY <1>4
<1> HIDE DEF v, g, R, a
<1>6. /\ w \in Writing(a) /\ Common(a, g, bytes, R, Range(v), w)
      /\ \/ /\ Spoils(a, g, g.file_offset + Len(bytes), Last(w.images))
            /\ Passed(g, w.h.file_offset)
         \/ Owns(Last(w.images), w.h.start_cluster, w.h.size, R)
  BY <1>5 DEF Growing
<1>7. w.images \in Images /\ w.h \in Handles /\ w.h.ctx
  BY <1>6 DEF Writing, ImagesAfter
<1>8. /\ e \in Disks /\ w.h.start_cluster \in {0} \cup Clusters /\ w.h.size \in 0 .. MaxSize
      /\ w.h.file_offset \in Nat
  BY <1>7, ImagesGrow, HandleTypes
<1>9. ~Passed(g, w.h.file_offset)
  BY <1>8, NothingPassed DEF g
<1>10. Owns(e, w.h.start_cluster, w.h.size, R)
  BY <1>6, <1>9
<1>11. Keeps(a, e, R)
  BY <1>6 DEF Common
<1>12. a.dir = d.dir /\ \A x \in Clusters \ R : a.fat[1][x] = d.fat[1][x]
  BY <1>4 DEF Cleared, a
<1>13. e.dir = d.dir /\ \A x \in Clusters \ R : e.fat[1][x] = d.fat[1][x]
  BY <1>11, <1>12 DEF Keeps
<1>14. Held(e, s, w.h.start_cluster, w.h.size) /\ SameDirs(d, e)
  <2> DEFINE c == w.h.start_cluster
             n == w.h.size
  <2>1. c \in {0} \cup Clusters /\ n \in 0 .. MaxSize /\ Owns(e, c, n, R)
    BY <1>8, <1>10
  <2> HIDE DEF c, n
  <2>2. Held(e, s, c, n) /\ SameDirs(d, e)
    BY <1>1, <1>8, <1>13, <2>1, HeldOn DEF R
  <2> QED
    BY <2>2 DEF c, n
<1> QED
  BY <1>7, <1>8, <1>14

-----------------------------------------------------------------------------
(* The disk is well formed, but for the entry of the open file *)

\* The handle f with the path p stands for the entry in the slot s.
StandsFor(d, f, p, how, s) ==
  /\ Leads(d, p, s) /\ Held(d, s, f.start_cluster, f.size)
  /\ how # REWRITTEN => EntryOf(EntryAt(d, s), f.start_cluster, f.size)
InOrder(d, f, p, how) ==
  IF f.ctx THEN \E s : StandsFor(d, f, p, how, s)
  ELSE WellFormed(d) /\ f.start_cluster = 0 /\ f.size = 0
SoundInv == ~torn => InOrder(disk, file, path, dirty)

\* The types of what the steps start from.
LEMMA PartsOf ==
  ASSUME TypeOK
  PROVE  /\ disk \in Disks /\ file \in Handles /\ file.file_offset <= file.size
         /\ file.start_cluster \in {0} \cup Clusters /\ file.size \in 0 .. MaxSize /\ file.size \in Nat
         /\ file.ctx => path \in FilePaths /\ path \in Seq(Nat \X Nat) /\ Last(path) = path[Len(path)]
         /\ \A bytes \in Payloads : bytes \in Seq(Bytes) /\ Len(bytes) <= MaxSize
<1>1. disk \in Disks /\ file \in Handles /\ file.file_offset <= file.size
  BY DEF TypeOK
<1>2. file.start_cluster \in {0} \cup Clusters /\ file.size \in 0 .. MaxSize /\ file.size \in Nat
  BY <1>1, HandleTypes, Fat32Assumption
<1>3. file.ctx => path \in FilePaths
  BY DEF TypeOK
<1>4. \A p \in FilePaths : p \in Seq(Nat \X Nat)
  BY Fat32Assumption
<1>5. Last(path) = path[Len(path)]
  BY DEF Last
<1>6. \A bytes \in Payloads : bytes \in Seq(Bytes) /\ Len(bytes) <= MaxSize
  BY Fat32Assumption
<1> QED
  BY <1>1, <1>2, <1>3, <1>4, <1>5, <1>6

\* No file is open.
LEMMA NoneInOrder ==
  ASSUME NEW d, WellFormed(d), NEW p, NEW how
  PROVE  InOrder(d, NoFile, p, how)
BY KindsOf DEF InOrder

\* A file is opened.
LEMMA OpenInOrder ==
  ASSUME TypeOK, SoundInv, NEW p \in FilePaths, Open(p)
  PROVE  SoundInv'
<1>1. disk \in Disks /\ p \in Seq(Nat \X Nat)
  BY PartsOf, Fat32Assumption
<1> DEFINE h == fat32_open_file(disk, p)
<1>2. h.ctx /\ ~h.is_dir /\ file' = h /\ path' = p /\ disk' = disk /\ WellFormed(disk)
  BY DEF Open, SoundInv, InOrder
<1> HIDE DEF h
<1>3. PICK s \in Files(disk) : Leads(disk, p, s) /\ h = FileHandle(disk, s)
  BY <1>1, <1>2, OpenedWhat DEF h
<1> DEFINE e == EntryAt(disk, s)
<1>4. Held(disk, s, e.first_cluster, e.file_size) /\ EntryOf(e, e.first_cluster, e.file_size)
  BY <1>1, <1>2, <1>3, OpenedHeld
<1>5. h.start_cluster = e.first_cluster /\ h.size = e.file_size
  BY <1>3, KindsOf
<1> HIDE DEF e
<1>6. StandsFor(disk, h, p, dirty', s)
  BY <1>3, <1>4, <1>5 DEF StandsFor, e
<1> QED
  BY <1>2, <1>6 DEF SoundInv, InOrder

\* A file that is held has a chain if it has a size.
LEMMA HeldSize ==
  ASSUME NEW d \in Disks, NEW s, NEW start \in {0} \cup Clusters, NEW size \in 0 .. MaxSize,
         Held(d, s, start, size)
  PROVE  start = 0 <=> size = 0
<1>1. PICK R : Owns(d, start, size, R)
  BY HeldIs
<1>2. size \in Nat
  BY Fat32Assumption
<1> QED
  BY <1>1, <1>2, NoneForNone

\* An entry that is current says what the handle says.
LEMMA CurrentEntry ==
  ASSUME TypeOK, file.ctx, NEW s, Leads(disk, path, s), Held(disk, s, file.start_cluster, file.size),
         EntryIsCurrent(disk)
  PROVE  EntryOf(EntryAt(disk, s), file.start_cluster, file.size)
<1>1. fat32_open_file(disk, path) = FileHandle(disk, s)
  BY PartsOf, LeadsOpen
<1>2. EntryAt(disk, s).first_cluster = file.start_cluster /\ EntryAt(disk, s).file_size = file.size
  BY <1>1, KindsOf DEF EntryIsCurrent
<1>3. file.start_cluster = 0 <=> file.size = 0
  BY PartsOf, HeldSize
<1>4. file.size <= file.size
  BY PartsOf
<1> QED
  BY <1>2, <1>3, <1>4 DEF EntryOf

\* When the entry of the file is current enough, the disk is well formed.
LEMMA LeftInOrder ==
  ASSUME TypeOK, SoundInv, ~torn, file.ctx => dirty # REWRITTEN \/ EntryIsCurrent(disk)
  PROVE  WellFormed(disk)
<1>1. CASE ~file.ctx
  BY <1>1 DEF SoundInv, InOrder
<1>2. CASE file.ctx
  <2>1. PICK s : StandsFor(disk, file, path, dirty, s)
    BY <1>2 DEF SoundInv, InOrder
  <2>2. Leads(disk, path, s) /\ Held(disk, s, file.start_cluster, file.size)
    BY <2>1 DEF StandsFor
  <2>3. EntryOf(EntryAt(disk, s), file.start_cluster, file.size)
    <3>1. CASE dirty # REWRITTEN
      BY <2>1, <3>1 DEF StandsFor
    <3>2. CASE EntryIsCurrent(disk)
      BY <1>2, <2>2, <3>2, CurrentEntry
    <3> QED
      BY <1>2, <3>1, <3>2
  <2> QED
    BY <2>2, <2>3, PartsOf, LetGo
<1> QED
  BY <1>1, <1>2

\* A file is closed.
LEMMA CloseInOrder ==
  ASSUME TypeOK, SoundInv, Close
  PROVE  SoundInv'
<1>1. ~torn /\ dirty = CLEAN /\ disk' = disk /\ file' = NoFile
  BY DEF Close
<1>2. WellFormed(disk)
  BY <1>1, LeftInOrder DEF CLEAN, REWRITTEN
<1> QED
  BY <1>1, <1>2, NoneInOrder DEF SoundInv

\* The handle is moved, by whatever reads or seeks.
LEMMA MovedInOrder ==
  ASSUME SoundInv, SameFile(file', file), UNCHANGED <<disk, path, dirty, torn>>
  PROVE  SoundInv'
<1>1. file'.start_cluster = file.start_cluster /\ file'.size = file.size /\ file'.ctx = file.ctx
  BY DEF SameFile
<1>2. \A s : StandsFor(disk, file, path, dirty, s) => StandsFor(disk, file', path, dirty, s)
  BY <1>1 DEF StandsFor
<1>3. InOrder(disk, file, path, dirty) => InOrder(disk, file', path, dirty)
  BY <1>1, <1>2 DEF InOrder
<1> QED
  BY <1>3 DEF SoundInv


\* Reading leaves a handle that can be read, and changes nothing else.
LEMMA LookedReady ==
  ASSUME TypeOK,
         \/ \E n \in Nat : Read(n)
         \/ \E size \in Nat : ReadLine(size)
         \/ \E size \in Nat \ {0}, buffer \in Nat : \E key : ConfigGetStr(key, size, buffer)
  PROVE  /\ file' \in Ready(disk) /\ SameFile(file', file) /\ InSync(disk, file)
         /\ UNCHANGED <<disk, path, dirty, torn>>
<1> DEFINE Goal == /\ file' \in Ready(disk) /\ SameFile(file', file) /\ InSync(disk, file)
                   /\ UNCHANGED <<disk, path, dirty, torn>>
<1>1. ASSUME NEW n \in Nat, Read(n)
      PROVE  Goal
  BY <1>1, InSyncIsReady, ReadEnds DEF Read, Reading
<1>2. ASSUME NEW size \in Nat, ReadLine(size)
      PROVE  Goal
  BY <1>2, InSyncIsReady, LineEnds DEF ReadLine, Lining
<1>3. ASSUME NEW key, NEW size \in Nat \ {0}, NEW buffer \in Nat, ConfigGetStr(key, size, buffer)
      PROVE  Goal
  BY <1>3, InSyncIsReady, Searched DEF ConfigGetStr, Searching
<1> QED
  BY <1>1, <1>2, <1>3

\* Such steps, and those that seek.
LEMMA LookingInOrder ==
  ASSUME TypeOK, SoundInv,
         \/ \E n \in Nat : Read(n)
         \/ \E size \in Nat : ReadLine(size)
         \/ \E size \in Nat \ {0}, buffer \in Nat : \E key : ConfigGetStr(key, size, buffer)
         \/ \E offset \in Nat : Seek(offset)
  PROVE  SoundInv'
<1>1. ASSUME NEW offset \in Nat, Seek(offset)
      PROVE  SameFile(file', file) /\ UNCHANGED <<disk, path, dirty, torn>>
  <2>1. disk \in Disks /\ file \in Handles /\ offset <= file.size
    BY <1>1 DEF TypeOK, Seek
  <2>2. SameFile(fat32_seek(disk, file, offset), file)
    BY <2>1, Sought
  <2> QED
    BY <1>1, <2>2 DEF Seek
<1>2. SameFile(file', file) /\ UNCHANGED <<disk, path, dirty, torn>>
  BY <1>1, LookedReady
<1> QED
  BY <1>2, MovedInOrder


\* Bytes are written.
LEMMA WriteInOrder ==
  ASSUME TypeOK, SoundInv, NEW bytes \in Payloads, Write(bytes)
  PROVE  SoundInv'
<1> SUFFICES ASSUME ~torn'
             PROVE  InOrder(disk', file', path', dirty')
  BY DEF SoundInv
<1> DEFINE w == fat32_write(disk, file, bytes)
           e == Last(w.images)
<1>1. /\ ~torn /\ file.ctx /\ InSync(disk, file) /\ file.file_offset + Len(bytes) <= MaxSize
      /\ disk' = e /\ file' = w.h /\ path' = path /\ dirty' = AfterWrite(w.h) /\ ~CutsShort(bytes)
      /\ w = fat32_write(disk, file, bytes) /\ e = Last(w.images)
  BY DEF Write, CanWrite
<1> HIDE DEF w, e
<1>2. PICK s : StandsFor(disk, file, path, dirty, s)
  BY <1>1 DEF SoundInv, InOrder
<1>3. Leads(disk, path, s) /\ Held(disk, s, file.start_cluster, file.size)
  BY <1>2 DEF StandsFor
<1>4. ~Spoils(disk, file, file.file_offset + Len(bytes), e)
  BY <1>1 DEF CutsShort, Spoils, Passed
<1>5. /\ e \in Disks /\ Held(e, s, w.h.start_cluster, w.h.size) /\ SameDirs(disk, e)
      /\ EntryAt(e, s) = EntryAt(disk, s)
      /\ Extends(w.h, file)
      /\ w.h \in Handles /\ w.h.ctx
  <2>1. disk \in Disks /\ file \in Handles /\ bytes \in Seq(Bytes) /\ file.file_offset <= file.size
    BY PartsOf
  <2>2. Held(e, s, w.h.start_cluster, w.h.size)
    BY <1>1, <1>3, <1>4, <2>1, WriteHeld
  <2>3. e \in Disks /\ SameDirs(disk, e) /\ EntryAt(e, s) = EntryAt(disk, s)
    BY <1>1, <1>3, <1>4, <2>1, WriteHeld
  <2>4. Extends(w.h, file)
    BY <1>1, <1>3, <1>4, <2>1, WriteHeld
  <2>5. w.h \in Handles /\ w.h.ctx
    BY <1>1, <1>3, <1>4, <2>1, WriteHeld
  <2> QED
    BY <2>2, <2>3, <2>4, <2>5
<1>6. Leads(e, path, s)
  BY <1>1, <1>3, <1>5, PartsOf, SameLeads
<1>7. dirty' # REWRITTEN => EntryOf(EntryAt(e, s), w.h.start_cluster, w.h.size)
  <2> SUFFICES ASSUME dirty' # REWRITTEN
               PROVE  EntryOf(EntryAt(e, s), w.h.start_cluster, w.h.size)
    OBVIOUS
  <2>1. dirty # REWRITTEN
    BY <1>1 DEF AfterWrite
  <2>2. EntryOf(EntryAt(disk, s), file.start_cluster, file.size)
    BY <1>2, <2>1 DEF StandsFor
  <2>3. EntryAt(disk, s).file_size \in Nat /\ w.h.size \in Nat /\ file.size \in Nat
    <3>1. s \in Places /\ EntryAt(disk, s).file_size \in 0 .. MaxSize
      BY <1>3, PartsOf, HeldIs, EntryIs
    <3>2. w.h.size \in 0 .. MaxSize
      BY <1>5, HandleTypes
    <3> QED
      BY <3>1, <3>2, PartsOf, Fat32Assumption
  <2> QED
    BY <1>5, <2>2, <2>3 DEF EntryOf, Extends
<1>8. StandsFor(e, w.h, path, dirty', s)
  BY <1>5, <1>6, <1>7 DEF StandsFor
<1> QED
  BY <1>1, <1>5, <1>8 DEF InOrder

\* A file is written anew.
LEMMA RewriteInOrder ==
  ASSUME TypeOK, SoundInv, NEW bytes \in Payloads, Rewrite(bytes)
  PROVE  SoundInv'
<1> DEFINE w == fat32_rewrite(disk, file, bytes)
           e == Last(w.images)
<1>1. /\ ~torn /\ file.ctx /\ disk' = e /\ file' = w.h /\ path' = path /\ dirty' = REWRITTEN
  BY DEF Rewrite
<1> HIDE DEF w, e
<1>2. PICK s : StandsFor(disk, file, path, dirty, s)
  BY <1>1 DEF SoundInv, InOrder
<1>3. Leads(disk, path, s) /\ Held(disk, s, file.start_cluster, file.size)
  BY <1>2 DEF StandsFor
<1>4. /\ e \in Disks /\ Held(e, s, w.h.start_cluster, w.h.size) /\ SameDirs(disk, e)
      /\ w.h \in Handles /\ w.h.ctx
  BY <1>3, PartsOf, RewriteHeld DEF w, e
<1>5. Leads(e, path, s)
  BY <1>1, <1>3, <1>4, PartsOf, SameLeads
<1>6. StandsFor(e, w.h, path, REWRITTEN, s)
  BY <1>4, <1>5 DEF StandsFor
<1> QED
  BY <1>1, <1>4, <1>6 DEF SoundInv, InOrder

\* The entry of the file is updated.
LEMMA UpdateInOrder ==
  ASSUME TypeOK, SoundInv, UpdateEntry
  PROVE  SoundInv'
<1> SUFFICES ASSUME ~torn'
             PROVE  InOrder(disk', file', path', dirty')
  BY DEF SoundInv
<1> DEFINE e == Last(fat32_update_file_entry(disk, path, file.start_cluster, file.size))
<1>1. /\ ~torn /\ file.ctx /\ disk' = e /\ file' = file /\ path' = path /\ dirty' = CLEAN
      /\ ~(dirty = REWRITTEN /\ ~EntryIsCurrent(disk'))
  BY DEF UpdateEntry
<1> HIDE DEF e
<1>2. PICK s : StandsFor(disk, file, path, dirty, s)
  BY <1>1 DEF SoundInv, InOrder
<1>3. Leads(disk, path, s) /\ Held(disk, s, file.start_cluster, file.size)
  BY <1>2 DEF StandsFor
<1>4. \A b \in DirStarts(disk) : ProperChain(disk, Chain(disk, b))
  BY <1>3, PartsOf, HeldDirs
<1>5. UpdatesOne(disk, e, s, file.start_cluster, file.size)
  BY <1>1, <1>3, <1>4, PartsOf, UpdateIs DEF e
<1>6. /\ e \in Disks /\ Leads(e, path, s) /\ Held(e, s, file.start_cluster, file.size)
      /\ \/ EntryAt(e, s) = EntryAt(disk, s)
         \/ EntryAt(e, s).first_cluster = file.start_cluster /\ EntryAt(e, s).file_size = file.size
  <2> DEFINE c == file.start_cluster
             n == file.size
  <2>1. /\ disk \in Disks /\ path \in Seq(Nat \X Nat) /\ c \in {0} \cup Clusters /\ n \in 0 .. MaxSize
        /\ Leads(disk, path, s) /\ Held(disk, s, c, n) /\ UpdatesOne(disk, e, s, c, n)
    BY <1>1, <1>3, <1>5, PartsOf
  <2> HIDE DEF c, n
  <2>2. /\ e \in Disks /\ Leads(e, path, s) /\ Held(e, s, c, n)
        /\ \/ EntryAt(e, s) = EntryAt(disk, s)
           \/ EntryAt(e, s).first_cluster = c /\ EntryAt(e, s).file_size = n
    BY <2>1, UpdateHeld
  <2> QED
    BY <2>2 DEF c, n
<1>7. ASSUME EntryAt(e, s).first_cluster = file.start_cluster, EntryAt(e, s).file_size = file.size
      PROVE  EntryOf(EntryAt(e, s), file.start_cluster, file.size)
  <2>1. file.start_cluster = 0 <=> file.size = 0
    BY <1>6, PartsOf, HeldSize
  <2>2. file.size <= file.size
    BY PartsOf
  <2> QED
    BY <1>7, <2>1, <2>2 DEF EntryOf
<1>8. EntryOf(EntryAt(e, s), file.start_cluster, file.size)
  <2>1. CASE dirty # REWRITTEN
    BY <1>2, <1>6, <1>7, <2>1 DEF StandsFor
  <2>2. CASE dirty = REWRITTEN
    <3>1. fat32_open_file(e, path) = FileHandle(e, s)
      BY <1>1, <1>6, PartsOf, LeadsOpen
    <3>2. fat32_open_file(e, path).start_cluster = file.start_cluster /\ fat32_open_file(e, path).size = file.size
      BY <1>1, <2>2 DEF EntryIsCurrent
    <3> QED
      BY <1>7, <3>1, <3>2, KindsOf
  <2> QED
    BY <2>1, <2>2
<1>9. StandsFor(e, file, path, CLEAN, s)
  BY <1>6, <1>8 DEF StandsFor
<1> QED
  BY <1>1, <1>9 DEF InOrder

\* The machine crashes while nothing, or the file, is written.
LEMMA CrashInOrder ==
  ASSUME TypeOK, SoundInv,
         CrashIdle \/ \E bytes \in Payloads : CrashInWrite(bytes) \/ CrashInRewrite(bytes)
  PROVE  SoundInv'
<1>1. ASSUME CrashIdle, ~torn'
      PROVE  file' = NoFile /\ WellFormed(disk')
  <2>1. disk' = disk /\ file' = NoFile /\ ~torn /\ ~Stale
    <3>1. \A k \in DOMAIN Unwritten(disk) : Unwritten(disk)[k] = disk
      BY DEF Unwritten
    <3> QED
      BY <1>1, <3>1 DEF CrashIdle, CrashIn
  <2>2. WellFormed(disk)
    BY <2>1, LeftInOrder DEF Stale
  <2> QED
    BY <2>1, <2>2
<1>2. ASSUME NEW bytes \in Payloads, CrashInWrite(bytes), ~torn'
      PROVE  file' = NoFile /\ WellFormed(disk')
  <2> DEFINE w == fat32_write(disk, file, bytes)
  <2>1. /\ ~torn /\ file.ctx /\ InSync(disk, file) /\ file.file_offset + Len(bytes) <= MaxSize
        /\ file' = NoFile /\ ~Stale /\ ~Dangling(disk') /\ ~CutsShort(bytes)
        /\ \E k \in DOMAIN w.images : disk' = w.images[k]
    BY <1>2 DEF CrashInWrite, CrashIn, CanWrite
  <2>2. PICK e : e = disk' /\ e \in Range(w.images)
    BY <2>1 DEF Range
  <2>3. PICK s : StandsFor(disk, file, path, dirty, s)
    BY <2>1 DEF SoundInv, InOrder
  <2>4. Leads(disk, path, s) /\ Held(disk, s, file.start_cluster, file.size)
    BY <2>3 DEF StandsFor
  <2>5. EntryOf(EntryAt(disk, s), file.start_cluster, file.size)
    <3>1. CASE dirty # REWRITTEN
      BY <2>3, <3>1 DEF StandsFor
    <3>2. CASE EntryIsCurrent(disk)
      BY <2>1, <2>4, <3>2, CurrentEntry
    <3> QED
      BY <2>1, <3>1, <3>2 DEF Stale
  <2>6. ~Spoils(disk, file, file.file_offset + Len(bytes), e)
    BY <2>1, <2>2 DEF CutsShort, Spoils, Passed
  <2>7. disk \in Disks /\ file \in Handles /\ bytes \in Seq(Bytes) /\ file.file_offset <= file.size
    BY PartsOf
  <2>8. ~Dangling(e) /\ e \in Range(fat32_write(disk, file, bytes).images)
    BY <2>1, <2>2
  <2>9. WellFormed(e)
    BY <2>1, <2>4, <2>5, <2>6, <2>7, <2>8, WriteCrashes
  <2> QED
    BY <2>1, <2>2, <2>9
<1>3. ASSUME NEW bytes \in Payloads, CrashInRewrite(bytes), ~torn'
      PROVE  file' = NoFile /\ WellFormed(disk')
  <2>1. disk' = disk /\ file' = NoFile /\ ~torn /\ ~Stale
    BY <1>3 DEF CrashInRewrite, CrashIn
  <2>2. WellFormed(disk)
    BY <2>1, LeftInOrder DEF Stale
  <2> QED
    BY <2>1, <2>2
<1>4. ~torn' => file' = NoFile /\ WellFormed(disk')
  BY <1>1, <1>2, <1>3
<1> QED
  BY <1>4, NoneInOrder DEF SoundInv

-----------------------------------------------------------------------------
(* The operations on paths keep the disk well formed *)

\* The disk as it was, or one sector more.
LEMMA FirstIn ==
  ASSUME NEW images \in Images, NEW d, d = Last(images),
         NEW c, NEW T \in SUBSET (1 .. SlotCount), NEW changed,
         NEW v, v = InFirstSlot(images, c, T, changed)
  PROVE  \/ v = images
         \/ \E m \in T : /\ \A j \in T : m <= j
                         /\ v = WriteSector(images, SlotPut(d, c, m, changed[m]))
<1>1. CASE T = {}
  BY <1>1 DEF InFirstSlot
<1>2. CASE T # {}
  <2> DEFINE m == Min(T)
  <2>1. m \in T /\ \A j \in T : m <= j
    <3>1. T \in SUBSET Nat
      BY DiskAssumption
    <3> QED
      BY <1>2, <3>1, MinIs
  <2>2. v = WriteSector(images, SlotPut(d, c, m, changed[m]))
    BY <1>2 DEF InFirstSlot, SetSlot, SlotPut
  <2> HIDE DEF m
  <2> QED
    BY <2>1, <2>2
<1> QED
  BY <1>1, <1>2

\* No slot of a cluster that does not exist is written.
LEMMA SlotNowhere ==
  ASSUME NEW d \in Disks, NEW c, c \notin Clusters, NEW i, NEW e
  PROVE  SlotPut(d, c, i, e) = d
<1> DEFINE Dir == [1 .. SlotCount -> Entries]
           dir == [d.dir EXCEPT ![c][i] = e]
<1>1. /\ d.dir \in [Clusters -> Dir]
      /\ d = [fat |-> d.fat, dir |-> d.dir, data |-> d.data]
  BY DiskParts
<1>2. SlotPut(d, c, i, e) = [fat |-> d.fat, dir |-> dir, data |-> d.data]
  BY <1>1 DEF SlotPut
<1>3. dir = d.dir
  BY <1>1
<1> QED
  BY <1>1, <1>2, <1>3

\* An entry that is made in the first cluster of a directory.
LEMMA EntryPutIs ==
  ASSUME NEW d \in Disks, NEW c \in Clusters, NEW n \in Entries, Used(n), n.file_size = 0, Joins(d, n),
         NEW m \in 1 .. SlotCount, ~Used(EntryAt(d, <<c, m>>)),
         \A j \in 1 .. m - 1 : Used(EntryAt(d, <<c, j>>)),
         NEW e, e = SlotPut(d, c, m, n)
  PROVE  e \in Disks /\ EntryPut(d, e, c, m)
<1> DEFINE s == <<c, m>>
<1>1. s \in Places /\ s[1] = c /\ s[2] = m
  BY DEF Places
<1>2. /\ SlotPut(d, s[1], s[2], n) \in Disks /\ SlotPut(d, s[1], s[2], n).fat = d.fat
      /\ EntryAt(SlotPut(d, s[1], s[2], n), s) = n
      /\ \A t \in Places : t # s => EntryAt(SlotPut(d, s[1], s[2], n), t) = EntryAt(d, t)
  BY <1>1, SlotPutIs
<1>3. e \in Disks /\ e.fat = d.fat /\ EntryAt(e, s) = n /\ \A t \in Places : t # s => EntryAt(e, t) = EntryAt(d, t)
  BY <1>1, <1>2
<1> QED
  BY <1>3 DEF EntryPut

\* A well formed disk, and images of such.
LEMMA EntryInto ==
  ASSUME NEW images \in Images, NEW d, d = Last(images), d \in Disks, WellFormed(d),
         NEW c \in DirStarts(d), NEW n \in Entries, Used(n), n.file_size = 0, Joins(d, n),
         NEW v, v = create_direntry(images, c, n)
  PROVE  /\ v \in Images /\ WellFormed(Last(v))
         /\ \A im \in Range(v) : im \in Range(images) \/ WellFormed(im)
<1> DEFINE T == {i \in 1 .. SlotCount : ~Used(d.dir[c][i])}
           changed == [i \in 1 .. SlotCount |-> n]
<1>1. v = InFirstSlot(images, c, T, changed) /\ T \in SUBSET (1 .. SlotCount)
  BY DEF create_direntry, SlotsOf, FreeSlots
<1>2. \A m \in T : changed[m] = n /\ m \in 1 .. SlotCount /\ ~Used(EntryAt(d, <<c, m>>))
  BY DEF EntryAt
<1>3. \A j \in 1 .. SlotCount : j \notin T => Used(EntryAt(d, <<c, j>>))
  BY DEF EntryAt
<1> HIDE DEF T, changed
<1>4. CASE v = images
  BY <1>4
<1>5. ASSUME NEW m \in T, \A j \in T : m <= j, v = WriteSector(images, SlotPut(d, c, m, changed[m]))
      PROVE  /\ v \in Images /\ WellFormed(Last(v))
             /\ \A im \in Range(v) : im \in Range(images) \/ WellFormed(im)
  <2> DEFINE e == SlotPut(d, c, m, n)
  <2>1. e \in Disks /\ WellFormed(e)
    <3>1. CASE c \notin Clusters
      BY <3>1, SlotNowhere
    <3>2. CASE c \in Clusters
      <4>1. \A j \in 1 .. m - 1 : Used(EntryAt(d, <<c, j>>))
        <5>1. \A j \in 1 .. m - 1 : j \in 1 .. SlotCount /\ ~(m <= j)
          <6>1. SlotCount \in Nat /\ m \in 1 .. SlotCount
            BY <1>2, DiskAssumption
          <6> QED
            BY <6>1
        <5> QED
          BY <1>3, <1>5, <5>1
      <4>2. m \in 1 .. SlotCount /\ ~Used(EntryAt(d, <<c, m>>))
        BY <1>2
      <4>3. e \in Disks /\ EntryPut(d, e, c, m)
        BY <3>2, <4>1, <4>2, EntryPutIs
      <4> HIDE DEF e
      <4> QED
        BY <3>2, <4>2, <4>3, EntryMade
    <3> QED
      BY <3>1, <3>2
  <2>2. v = WriteSector(images, e)
    BY <1>2, <1>5
  <2> HIDE DEF e
  <2>3. v \in Images /\ Last(v) = e /\ Range(v) = Range(images) \cup {e}
    BY <2>1, <2>2, ImagesGrow, RangeGrows
  <2> QED
    BY <2>1, <2>3
<1>6. v = images \/ \E m \in T : (\A j \in T : m <= j) /\ v = WriteSector(images, SlotPut(d, c, m, changed[m]))
  BY <1>1, FirstIn
<1> QED
  BY <1>4, <1>5, <1>6

\* The last name of a path may be an entry's.
LEMMA NamesUsed ==
  ASSUME NEW p \in FilePaths \cup DirPaths
  PROVE  Last(p) \in Nat \X Nat /\ Last(p)[1] \notin {END, DELETED} /\ Len(p) \in 1 .. Len(p)
<1>1. p \in Seq(Nat \X Nat) /\ p # <<>> /\ \A k \in DOMAIN p : p[k][1] \notin {END, DELETED}
  BY Fat32Assumption
<1>2. Len(p) \in Nat /\ Len(p) > 0 /\ DOMAIN p = 1 .. Len(p)
  BY <1>1
<1>3. Len(p) \in DOMAIN p /\ Last(p) = p[Len(p)]
  BY <1>2 DEF Last
<1> QED
  BY <1>1, <1>2, <1>3, ElementOfSeq

\* A file is created.
LEMMA CreateKeeps ==
  ASSUME NEW d \in Disks, WellFormed(d), NEW p \in FilePaths \cup DirPaths
  PROVE  WellFormed(Last(fat32_create(d, p)))
<1> DEFINE h == fat32_open_file(d, Front(p))
           n == Entry(Last(p), ATTR_ARCHIVE, 0, 0)
           v == fat32_create(d, p)
<1>1. Unwritten(d) \in Images /\ Last(Unwritten(d)) = d
  BY OneImage
<1>2. CASE ~(h.ctx /\ h.is_dir)
  BY <1>1, <1>2 DEF fat32_create, MakeEntry
<1>3. CASE h.ctx /\ h.is_dir
  <2> DEFINE c == h.current_cluster
  <2>1. c \in DirStarts(d)
    <3>1. Front(p) \in Seq(Nat \X Nat)
      BY PathTypes
    <3>2. h.start_cluster \in DirStarts(d) /\ h = DirHandle(h.start_cluster)
      BY <1>3, <3>1, OpenedWhat
    <3> QED
      BY <3>2, KindsOf
  <2>2. n \in Entries /\ Used(n) /\ n.file_size = 0 /\ Joins(d, n)
    <3>1. n \in Entries
      BY PathTypes, EntryTypes, Fat32Assumption
    <3>2. Last(p)[1] \notin {END, DELETED}
      BY NamesUsed
    <3>3. n.name = Last(p) /\ n.file_size = 0 /\ n.first_cluster = 0 /\ n.attributes = ATTR_ARCHIVE
      BY DEF Entry
    <3> HIDE DEF n
    <3> QED
      BY <3>1, <3>2, <3>3 DEF Joins, Used
  <2>3. v = create_direntry(Unwritten(d), c, n)
    BY <1>3 DEF fat32_create, MakeEntry
  <2> HIDE DEF c, n, v
  <2>4. WellFormed(Last(v))
    BY <1>1, <2>1, <2>2, <2>3, EntryInto
  <2> QED
    BY <2>4 DEF v
<1> QED
  BY <1>2, <1>3

\* A free cluster is marked: nothing of the disk is in it.
LEMMA MarkKeeps ==
  ASSUME NEW d \in Disks, WellFormed(d), NEW new \in Clusters, d.fat[1][new] = 0,
         NEW e \in Disks, e.dir = d.dir, e.fat[1] = FatSet(d.fat[1], new, FAT32_EOC)
  PROVE  /\ WellFormed(e) /\ e.fat[1][new] = FAT32_EOC /\ UsedSlots(e) = UsedSlots(d)
         /\ DirStarts(e) = DirStarts(d)
         /\ \A t \in UsedSlots(e) : t[1] # new
         /\ \A b \in DirStarts(e) : new \notin Range(Chain(e, b))
         /\ \A t \in Files(e) : new \notin Range(ChainAt(e, t))
<1> DEFINE X == {}
           R == {new}
<1>1. d.fat[1] \in Sectors /\ DOMAIN d.fat[1] = Clusters
  BY DiskParts DEF Sectors
<1>2. e.fat[1][new] = FAT32_EOC /\ \A x \in Clusters : x # new => e.fat[1][x] = d.fat[1][x]
  BY <1>1 DEF FatSet
<1>3. X \in SUBSET Files(d) /\ Frees(d, X, R)
  BY DEF Frees
<1>4. KeepsRest(d, e, X, R)
  BY <1>2 DEF KeepsRest, EntryAt
<1>5. new \in R /\ X = {}
  OBVIOUS
<1> HIDE DEF X, R
<1>6. WellFormed(e)
  BY <1>3, <1>4, <1>5, Regrown
<1>7. /\ \A b \in DirStarts(d) : \A x \in Range(Chain(d, b)) : x \notin R
      /\ \A t \in Files(d) \ X : \A x \in Range(ChainAt(d, t)) : x \notin R
      /\ \A t \in UsedSlots(d) : t[1] \notin R
  BY <1>3, KeepsOut
<1>8. /\ UsedSlots(e) = UsedSlots(d) /\ Files(e) = Files(d) /\ DirStarts(e) = DirStarts(d)
      /\ \A b \in DirStarts(d) : Chain(e, b) = Chain(d, b)
      /\ \A t \in Files(d) \ X : ChainAt(e, t) = ChainAt(d, t)
  BY <1>3, <1>4, RestIs
<1> QED
  BY <1>2, <1>5, <1>6, <1>7, <1>8

\* The two entries of a new directory are put.
LEMMA DotsPutIs ==
  ASSUME NEW d \in Disks, NEW new \in Clusters, d.fat[1][new] = FAT32_EOC,
         \A t \in UsedSlots(d) : t[1] # new,
         \A b \in DirStarts(d) : new \notin Range(Chain(d, b)),
         \A t \in Files(d) : new \notin Range(ChainAt(d, t)),
         NEW parent \in {0} \cup Clusters, NEW e, e = [d EXCEPT !.dir[new] = DotEntries(new, parent)]
  PROVE  e \in Disks /\ DotsPut(d, e, new, parent)
<1> DEFINE Dir == [1 .. SlotCount -> Entries]
           dots == DotEntries(new, parent)
           dir == [d.dir EXCEPT ![new] = dots]
<1>1. /\ d.dir \in [Clusters -> Dir]
      /\ d = [fat |-> d.fat, dir |-> d.dir, data |-> d.data]
  BY DiskParts
<1>2. e = [fat |-> d.fat, dir |-> dir, data |-> d.data]
  BY <1>1
<1>3. dir[new] = dots /\ \A c \in Clusters : c # new => dir[c] = d.dir[c]
  BY <1>1
<1>4. e \in Disks
  <2>1. Unwritten(d) \in ImagesAfter(d) /\ Last(Unwritten(d)) = d
    BY FirstImage, OneImage
  <2>2. WriteDots(Unwritten(d), new, parent) \in ImagesAfter(d)
    BY <2>1, DotsWritten
  <2>3. WriteDots(Unwritten(d), new, parent) = WriteSector(Unwritten(d), e)
    BY <2>1 DEF WriteDots
  <2>4. Last(WriteSector(Unwritten(d), e)) = e
    BY DEF WriteSector, Last, Unwritten
  <2> QED
    BY <2>2, <2>3, <2>4, LastIs
<1> HIDE DEF dir, dots
<1>5. e.fat = d.fat /\ e.dir = dir
  BY <1>2
<1>6. \A t \in Places : t[1] \in Clusters
  BY EntryIs
<1>7. \A t \in Places : t[1] # new => EntryAt(e, t) = EntryAt(d, t)
  BY <1>3, <1>5, <1>6 DEF EntryAt
<1>8. \A k \in 1 .. SlotCount : EntryAt(e, <<new, k>>) = DotEntries(new, parent)[k]
  BY <1>3, <1>5 DEF EntryAt, dots
<1> QED
  BY <1>4, <1>5, <1>7, <1>8 DEF DotsPut

\* A directory is made, whatever of it is written.
LEMMA MkdirKeeps ==
  ASSUME NEW d \in Disks, WellFormed(d), NEW p \in FilePaths \cup DirPaths, NEW v, v = fat32_mkdir(d, p)
  PROVE  WellFormed(Last(v)) /\ \A im \in Range(v) : WellFormed(im)
<1> DEFINE h == fat32_open_file(d, Front(p))
           new == find_free_cluster(d)
           n == Entry(Last(p), ATTR_DIRECTORY, new, 0)
           u == set_fat_entry(Unwritten(d), new, FAT32_EOC)
           a == Last(u)
           q == WriteDots(u, new, h.start_cluster)
           e == [a EXCEPT !.dir[new] = DotEntries(new, h.start_cluster)]
<1>1. Unwritten(d) \in Images /\ Last(Unwritten(d)) = d /\ Range(Unwritten(d)) = {d}
  BY OneImage, RangeGrows
<1>2. v = IF ~h.ctx \/ ~h.is_dir \/ new = 0 THEN Unwritten(d) ELSE create_direntry(q, h.current_cluster, n)
  BY DEF fat32_mkdir, MakeDirectory
<1> HIDE DEF h
<1>3. CASE ~h.ctx \/ ~h.is_dir \/ new = 0
  BY <1>1, <1>2, <1>3
<1>4. CASE ~(~h.ctx \/ ~h.is_dir \/ new = 0)
  <2> DEFINE c == h.current_cluster
  <2>1. c \in DirStarts(d) /\ h.start_cluster = c
    BY <1>4, PathTypes, OpenedWhat, KindsOf DEF h
  <2>2. new \in Clusters /\ d.fat[1][new] = 0
    BY <1>4, FreeIs
  <2> HIDE DEF new, c
  <2>3. u \in Images /\ FAT32_EOC \in Links
    BY <1>1, EntrySet DEF Links
  <2>4. /\ a \in Disks /\ a.fat[1] = FatSet(d.fat[1], new, FAT32_EOC) /\ a.dir = d.dir
        /\ \A im \in Range(u) : im = d \/ (im.fat[1] = FatSet(d.fat[1], new, FAT32_EOC) /\ im.dir = d.dir)
        /\ Range(u) \subseteq Disks
    <3>1. /\ Last(u).fat[1] = FatSet(Last(Unwritten(d)).fat[1], new, FAT32_EOC)
          /\ Last(u).dir = Last(Unwritten(d)).dir
          /\ \A im \in Range(u) : im \in Range(Unwritten(d))
               \/ (/\ im.fat[1] = FatSet(Last(Unwritten(d)).fat[1], new, FAT32_EOC)
                   /\ im.dir = Last(Unwritten(d)).dir)
      BY <1>1, <2>2, <2>3, SetIs
    <3>2. Range(u) \subseteq Disks /\ Last(u) \in Disks
      BY <2>3, RangeGrows, ImagesGrow
    <3> QED
      BY <1>1, <3>1, <3>2
  <2> HIDE DEF u
  <2>5. \A im \in Range(u) : WellFormed(im)
    BY <2>2, <2>4, MarkKeeps
  <2> HIDE DEF a
  <2>6. /\ WellFormed(a) /\ a.fat[1][new] = FAT32_EOC /\ DirStarts(a) = DirStarts(d)
        /\ \A t \in UsedSlots(a) : t[1] # new
        /\ \A b \in DirStarts(a) : new \notin Range(Chain(a, b))
        /\ \A t \in Files(a) : new \notin Range(ChainAt(a, t))
    BY <2>2, <2>4, MarkKeeps
  <2>7. c \in {0} \cup Clusters /\ c \in DirStarts(a)
    BY <2>1, <2>6, SlotSets
  <2>8. e = [a EXCEPT !.dir[new] = DotEntries(new, c)]
    BY <2>1
  <2>9. q = WriteSector(u, e)
    BY DEF WriteDots, a
  <2> HIDE DEF e, q
  <2>10. e \in Disks /\ DotsPut(a, e, new, c)
    BY <2>2, <2>4, <2>6, <2>7, <2>8, DotsPutIs
  <2>11. /\ WellFormed(e) /\ new \in DirStarts(e) /\ Chain(e, new) = <<new>>
         /\ \A b \in DirStarts(a) : b \in DirStarts(e) /\ Disjoint(<<new>>, Chain(e, b))
         /\ \A t \in OwnDirs(e) : Disjoint(<<new>>, ChainAt(e, t))
    BY <2>2, <2>4, <2>6, <2>7, <2>10, DotsMade
  <2>12. q \in Images /\ Last(q) = e /\ Range(q) = Range(u) \cup {e}
    BY <2>3, <2>9, <2>10, ImagesGrow, RangeGrows
  <2>13. n.attributes = ATTR_DIRECTORY /\ n.first_cluster = new /\ n.file_size = 0 /\ n.name = Last(p)
    BY DEF Entry
  <2>14. n \in Entries
    <3>1. Last(p) \in Nat \X Nat /\ new \in {0} \cup Clusters /\ 0 \in 0 .. MaxSize
      BY <2>2, NamesUsed, Fat32Assumption
    <3>2. ATTR_DIRECTORY \in {"none", ATTR_ARCHIVE, ATTR_DIRECTORY, ATTR_VOLUME_ID}
      OBVIOUS
    <3> QED
      BY <3>1, <3>2, EntryTypes
  <2> HIDE DEF n
  <2>15. Used(n)
    BY <2>13, NamesUsed DEF Used
  <2>16. Joins(e, n)
    BY <2>6, <2>11, <2>13, SlotSets, <2>4 DEF Joins
  <2>17. c \in DirStarts(e) /\ v = create_direntry(q, c, n)
    BY <1>2, <1>4, <2>7, <2>11 DEF c
  <2>18. WellFormed(Last(v)) /\ \A im \in Range(v) : im \in Range(q) \/ WellFormed(im)
    BY <2>10, <2>11, <2>12, <2>13, <2>14, <2>15, <2>16, <2>17, EntryInto
  <2> QED
    BY <2>5, <2>11, <2>12, <2>18
<1> QED
  BY <1>3, <1>4

\* An entry is marked as deleted, if any.
LEMMA DeletedKeeps ==
  ASSUME NEW d \in Disks, WellFormed(d), NEW c, NEW T \in SUBSET (1 .. SlotCount),
         NEW v, v = InFirstSlot(Unwritten(d), c, T, Deleted(d.dir[c]))
  PROVE  WellFormed(Last(v))
<1>1. Unwritten(d) \in Images /\ Last(Unwritten(d)) = d
  BY OneImage
<1>2. CASE v = Unwritten(d)
  BY <1>1, <1>2
<1>3. ASSUME NEW m \in T, v = WriteSector(Unwritten(d), SlotPut(d, c, m, Deleted(d.dir[c])[m]))
      PROVE  WellFormed(Last(v))
  <2> DEFINE x == Deleted(d.dir[c])[m]
             e == SlotPut(d, c, m, x)
  <2>1. x = MarkDeleted(d.dir[c][m])
    BY DEF Deleted
  <2> HIDE DEF x
  <2>2. e \in Disks /\ WellFormed(e)
    <3>1. CASE c \notin Clusters
      BY <3>1, SlotNowhere
    <3>2. CASE c \in Clusters
      <4> DEFINE s == <<c, m>>
      <4>1. s \in Places /\ s[1] = c /\ s[2] = m
        BY <3>2 DEF Places
      <4>2. x = MarkDeleted(EntryAt(d, s)) /\ EntryAt(d, s) \in Entries
        BY <2>1, <4>1, EntryIs DEF EntryAt
      <4>3. x \in Entries /\ x.name[1] = DELETED
        <5>1. EntryAt(d, s).name \in Nat \X Nat
          BY <4>2 DEF Entries
        <5>2. x.name = [EntryAt(d, s).name EXCEPT ![1] = DELETED]
          BY <4>2 DEF MarkDeleted, Entries
        <5> QED
          BY <4>2, <5>1, <5>2, DeletedTypes
      <4> HIDE DEF s
      <4>4. /\ SlotPut(d, s[1], s[2], x) \in Disks /\ SlotPut(d, s[1], s[2], x).fat = d.fat
            /\ EntryAt(SlotPut(d, s[1], s[2], x), s) = x
            /\ \A t \in Places : t # s => EntryAt(SlotPut(d, s[1], s[2], x), t) = EntryAt(d, t)
        BY <4>1, <4>3, SlotPutIs
      <4>5. e \in Disks /\ e.fat = d.fat /\ EntryAt(e, s) = x /\ \A t \in Places : t # s => EntryAt(e, t) = EntryAt(d, t)
        BY <4>1, <4>4
      <4> HIDE DEF e
      <4>6. ~Used(x) /\ x.name[1] # END
        BY <4>3 DEF Used, END, DELETED
      <4>7. \A t \in Places : /\ Used(EntryAt(e, t)) => EntryAt(e, t) = EntryAt(d, t)
                              /\ EntryAt(e, t).name[1] = END => EntryAt(d, t).name[1] = END
        BY <4>5, <4>6
      <4> QED
        BY <4>5, <4>7, Fewer
    <3> QED
      BY <3>1, <3>2
  <2>3. v = WriteSector(Unwritten(d), e)
    BY <1>3 DEF x
  <2> HIDE DEF e
  <2> QED
    BY <1>1, <2>2, <2>3, ImagesGrow
<1> QED
  BY <1>1, <1>2, <1>3, FirstIn

\* A file or a directory is removed.
LEMMA RemoveKeeps ==
  ASSUME NEW d \in Disks, WellFormed(d), NEW p
  PROVE  WellFormed(Last(fat32_remove(d, p))) /\ WellFormed(Last(fat32_rmdir(d, p)))
<1> DEFINE h == fat32_open_file(d, Front(p))
           c == h.current_cluster
           entry == fat32_find_file(d, h.start_cluster, Last(p))
           T == {i \in 1 .. SlotCount : memcmp_is_zero(d.dir[c][i].name, entry.name)}
           v == fat32_remove(d, p)
<1>1. Last(Unwritten(d)) = d
  BY OneImage
<1>2. v = IF ~h.ctx \/ ~Used(entry) THEN Unwritten(d) ELSE InFirstSlot(Unwritten(d), c, T, Deleted(d.dir[c]))
  BY DEF fat32_remove, RemoveFrom, RemoveEntry
<1>3. T \in SUBSET (1 .. SlotCount)
  OBVIOUS
<1> HIDE DEF h, c, entry, T, v
<1>4. WellFormed(Last(v))
  BY <1>1, <1>2, <1>3, DeletedKeeps
<1>5. fat32_rmdir(d, p) \in {v, Unwritten(d)}
  BY DEF fat32_rmdir, v
<1> QED
  BY <1>1, <1>4, <1>5 DEF v

\* The operations on paths.
LEMMA PathInOrder ==
  ASSUME TypeOK, SoundInv,
         \/ \E p \in FilePaths : Create(p)
         \/ \E p \in DirPaths : Mkdir(p) \/ Rmdir(p)
         \/ \E p \in FilePaths \cup DirPaths : RemovePath(p)
  PROVE  SoundInv'
<1>1. disk \in Disks
  BY PartsOf
<1>2. ~torn /\ ~file.ctx /\ UNCHANGED <<file, path, dirty, torn>>
  BY DEF Create, Mkdir, Rmdir, RemovePath, OnPath
<1>3. WellFormed(disk) /\ file.start_cluster = 0 /\ file.size = 0
  BY <1>2 DEF SoundInv, InOrder
<1>4. ASSUME NEW p \in FilePaths, Create(p)
      PROVE  WellFormed(disk')
  BY <1>1, <1>3, <1>4, CreateKeeps DEF Create, OnPath
<1>5. ASSUME NEW p \in DirPaths, Mkdir(p)
      PROVE  WellFormed(disk')
  BY <1>1, <1>3, <1>5, MkdirKeeps DEF Mkdir, OnPath
<1>6. ASSUME NEW p, Rmdir(p) \/ RemovePath(p)
      PROVE  WellFormed(disk')
  BY <1>1, <1>3, <1>6, RemoveKeeps DEF Rmdir, RemovePath, OnPath
<1>7. WellFormed(disk')
  BY <1>4, <1>5, <1>6
<1> QED
  BY <1>2, <1>3, <1>7 DEF SoundInv, InOrder

\* A crash in fat32_mkdir.
LEMMA MkdirCrashInOrder ==
  ASSUME TypeOK, SoundInv, NEW p \in DirPaths, CrashInMkdir(p)
  PROVE  SoundInv'
<1>1. disk \in Disks
  BY PartsOf
<1> DEFINE v == fat32_mkdir(disk, p)
<1>2. ~torn /\ ~file.ctx /\ file' = NoFile /\ \E k \in DOMAIN v : disk' = v[k]
  BY DEF CrashInMkdir, CrashIn
<1>3. WellFormed(disk)
  BY <1>2 DEF SoundInv, InOrder
<1>4. disk' \in Range(v)
  BY <1>2 DEF Range
<1>5. \A im \in Range(v) : WellFormed(im)
  BY <1>1, <1>3, MkdirKeeps
<1>6. WellFormed(disk')
  BY <1>4, <1>5
<1> QED
  BY <1>2, <1>6, NoneInOrder DEF SoundInv

\* The disk as it is mounted.
LEMMA InitInOrder == Init => SoundInv
<1> SUFFICES ASSUME Init
             PROVE  SoundInv
  OBVIOUS
<1>1. WellFormed(disk) /\ file = NoFile
  BY MountAssumption DEF Init
<1> QED
  BY <1>1, NoneInOrder DEF SoundInv

\* Every step.
LEMMA StepInOrder ==
  ASSUME TypeOK, SoundInv, [Next]_vars
  PROVE  SoundInv'
<1>1. ASSUME NEW p \in FilePaths, Open(p)
      PROVE  SoundInv'
  BY <1>1, OpenInOrder
<1>2. ASSUME \/ \E n \in 1 .. MaxSize : Read(n)
             \/ \E size \in 2 .. MaxSize + 1 : ReadLine(size)
             \/ \E key \in ConfigKeys, size, buffer \in {3, MaxSize + 1} : ConfigGetStr(key, size, buffer)
             \/ \E offset \in 0 .. MaxSize : Seek(offset)
      PROVE  SoundInv'
  <2>1. ASSUME NEW n \in 1 .. MaxSize, Read(n)
        PROVE  SoundInv'
    BY <2>1, Parameters, LookingInOrder
  <2>2. ASSUME NEW size \in 2 .. MaxSize + 1, ReadLine(size)
        PROVE  SoundInv'
    BY <2>2, Parameters, LookingInOrder
  <2>3. ASSUME NEW key, NEW size \in {3, MaxSize + 1}, NEW buffer \in {3, MaxSize + 1},
               ConfigGetStr(key, size, buffer)
        PROVE  SoundInv'
    <3>1. size \in Nat \ {0} /\ buffer \in Nat
      BY Parameters
    <3>2. \E z \in Nat \ {0}, b \in Nat : \E k : ConfigGetStr(k, z, b)
      BY <2>3, <3>1
    <3> QED
      BY <3>2, LookingInOrder
  <2>4. ASSUME NEW offset \in 0 .. MaxSize, Seek(offset)
        PROVE  SoundInv'
    BY <2>4, Parameters, LookingInOrder
  <2> QED
    BY <1>2, <2>1, <2>2, <2>3, <2>4
<1>3. ASSUME NEW bytes \in Payloads, Write(bytes) \/ Rewrite(bytes)
      PROVE  SoundInv'
  BY <1>3, WriteInOrder, RewriteInOrder
<1>4. ASSUME UpdateEntry
      PROVE  SoundInv'
  BY <1>4, UpdateInOrder
<1>5. ASSUME Close
      PROVE  SoundInv'
  BY <1>5, CloseInOrder
<1>6. ASSUME Crash
      PROVE  SoundInv'
  BY <1>6, CrashInOrder, MkdirCrashInOrder DEF Crash
<1>7. ASSUME UNCHANGED vars
      PROVE  SoundInv'
  BY <1>7 DEF vars, SoundInv
<1> QED
  BY <1>1, <1>2, <1>3, <1>4, <1>5, <1>6, <1>7, PathInOrder DEF Next


\* What owns clusters on a disk that is well formed.
OwnedAt(d, s) ==
  /\ ProperChain(d, ChainAt(d, s)) /\ Holds(ChainAt(d, s), EntryAt(d, s).file_size)
  /\ Disjoint(ChainAt(d, s), Chain(d, root_cluster))
OwnedApart(d, s, t) == Disjoint(ChainAt(d, s), ChainAt(d, t))

\* The files and the directories.
LEMMA WellOwned ==
  ASSUME NEW d \in Disks, WellFormed(d), NEW s \in EntrySlots(d)
  PROVE  /\ OwnedAt(d, s) /\ s \in Places
         /\ \A t \in (EntrySlots(d) \cup Files(d)) \ {s} : OwnedApart(d, s, t)
<1>1. /\ DirChains(d) /\ OwnChains(d)
      /\ \A t \in Files(d) : FileHolds(d, t) /\ FileApart(d, t)
  BY WellFormedIs
<1>2. \A t \in EntrySlots(d) : t \in Files(d) \/ t \in OwnDirs(d)
  BY SlotSets DEF ATTR_ARCHIVE, ATTR_DIRECTORY, ATTR_VOLUME_ID
<1>3. \A t \in OwnDirs(d) : t \in Dirs(d) /\ EntryAt(d, t).first_cluster \in DirStarts(d)
  BY SlotSets
<1>4. root_cluster \in DirStarts(d) /\ s \in Places
  BY SlotSets
<1>5. \A x, y : Disjoint(x, y) <=> Disjoint(y, x)
  BY DEF Disjoint
<1>6. CASE s \in Files(d)
  <2>1. OwnedAt(d, s)
    BY <1>1, <1>4, <1>6 DEF OwnedAt, FileHolds, FileApart
  <2>2. \A t \in Files(d) \ {s} : OwnedApart(d, s, t)
    BY <1>1, <1>6 DEF OwnedApart, FileApart
  <2>3. \A t \in OwnDirs(d) : OwnedApart(d, s, t)
    BY <1>1, <1>3, <1>6 DEF OwnedApart, FileApart, ChainAt
  <2> QED
    BY <1>2, <1>4, <2>1, <2>2, <2>3
<1>7. CASE s \in OwnDirs(d)
  <2>1. EntryAt(d, s).file_size = 0
    BY <1>1, <1>3, <1>7 DEF OwnChains
  <2>2. Holds(ChainAt(d, s), EntryAt(d, s).file_size)
    <3> DEFINE n == Len(ChainAt(d, s))
    <3>1. n \in Nat /\ ClusterSize \in Nat
      BY <1>4, EntryIs, ChainHas, DiskAssumption DEF ChainAt
    <3> HIDE DEF n
    <3>2. 0 <= ClusterSize * n
      <4>1. PICK x : x = ClusterSize * n
        OBVIOUS
      <4>2. x \in Nat
        BY <3>1, <4>1
      <4> QED
        BY <4>1, <4>2
    <3> QED
      BY <2>1, <3>2 DEF Holds, n
  <2>3. OwnedAt(d, s)
    BY <1>1, <1>3, <1>7, <2>2 DEF OwnedAt, DirChains, OwnChains, ChainAt
  <2>4. \A t \in OwnDirs(d) \ {s} : OwnedApart(d, s, t)
    BY <1>1, <1>7 DEF OwnedApart, OwnChains
  <2>5. \A t \in Files(d) : OwnedApart(d, s, t)
    BY <1>1, <1>3, <1>5, <1>7 DEF OwnedApart, FileApart, ChainAt
  <2> QED
    BY <1>2, <1>4, <2>3, <2>4, <2>5
<1> QED
  BY <1>2, <1>6, <1>7

\* The open file is one that the handle may stand for.
LEMMA LeadsMine ==
  ASSUME TypeOK, file.ctx, NEW s, Leads(disk, path, s)
  PROVE  Mine(s)
<1>1. s \in Files(disk) /\ \E k \in 1 .. Len(path) : LeadsAt(disk, path, k, s)
  BY DEF Leads
<1>2. PICK k \in 1 .. Len(path) : LeadsAt(disk, path, k, s)
  BY <1>1
<1> DEFINE h == fat32_open_file(disk, UpToPart(path, k - 1))
           c == h.start_cluster
<1>3. h = fat32_open_file(disk, SubSeq(path, 1, k - 1))
  BY DEF UpToPart
<1>4. h.ctx /\ h.is_dir /\ \E i \in 1 .. Len(Slots(disk, c)) : FoundAt(disk, c, path[k], i) /\ s = SlotAt(disk, c, i)
  BY <1>2 DEF LeadsAt
<1> HIDE DEF h
<1>5. PICK i \in 1 .. Len(Slots(disk, c)) : FoundAt(disk, c, path[k], i) /\ s = SlotAt(disk, c, i)
  BY <1>4
<1>6. path \in Seq(Nat \X Nat) /\ disk \in Disks /\ DOMAIN path = 1 .. Len(path)
  BY PartsOf
<1>7. c \in {0} \cup Clusters
  <2>1. k \in 1 .. Len(path) /\ Len(path) \in Nat
    BY <1>6
  <2>2. k - 1 \in 0 .. Len(path)
    BY <2>1
  <2>3. UpToPart(path, k - 1) \in Seq(Nat \X Nat)
    BY <1>6, <2>2, PartIs
  <2> QED
    BY <1>4, <1>6, <2>3, OpenedWhat, SlotSets DEF h
<1>8. s[1] \in Range(Chain(disk, c))
  BY <1>5, <1>6, <1>7, SlotsAre
<1>9. EntryAt(disk, s).name = path[k]
  BY <1>5 DEF FoundAt, Matches
<1>10. ~IsDir(EntryAt(disk, s))
  BY <1>1, <1>6, SlotSets DEF IsDir
<1> QED
  BY <1>3, <1>4, <1>6, <1>8, <1>9, <1>10 DEF Mine


\* What Sound says of a slot.
SoundAt(s, slots, mine) ==
  /\ OwnedAt(disk, s) /\ \A t \in slots \ {s} : OwnedApart(disk, s, t)
  /\ Disjoint(ChainAt(disk, s), mine) \/ (Mine(s) /\ ChainAt(disk, s) = mine)

\* And of all.
LEMMA SoundWhen ==
  ASSUME NEW slots, NEW mine, mine = Chain(disk, file.start_cluster),
         slots = {s \in EntrySlots(disk) : ~(Mine(s) /\ dirty # CLEAN)},
         ProperChain(disk, Chain(disk, root_cluster)), ProperChain(disk, mine), Holds(mine, file.size),
         \A s \in slots : SoundAt(s, slots, mine)
  PROVE  Sound
BY DEF Sound, SoundAt, OwnedAt, OwnedApart

\* No chain has clusters in common with none.
LEMMA NoChain ==
  ASSUME NEW d \in Disks
  PROVE  /\ Chain(d, 0) = <<>> /\ ProperChain(d, <<>>) /\ Holds(<<>>, 0)
         /\ \A x : Disjoint(<<>>, x) /\ Disjoint(x, <<>>)
<1>1. Chain(d, 0) = <<>> /\ Len(<<>>) = 0 /\ 0 \in {0} \cup Clusters
  BY ChainHas
<1>2. Range(<<>>) = {} /\ DOMAIN <<>> = {}
  BY DEF Range
<1>3. TotalClusters \in Nat /\ ClusterSize \in Nat
  BY DiskAssumption
<1>4. ProperChain(d, <<>>)
  BY <1>1, <1>2, <1>3 DEF ProperChain
<1>5. Holds(<<>>, 0)
  BY <1>1, <1>3 DEF Holds
<1> QED
  BY <1>1, <1>2, <1>4, <1>5 DEF Disjoint

\* No file is open.
LEMMA SoundClosed ==
  ASSUME TypeOK, ~file.ctx, WellFormed(disk), file.start_cluster = 0, file.size = 0
  PROVE  Sound
<1>1. disk \in Disks
  BY PartsOf
<1>2. \A s : ~Mine(s)
  BY DEF Mine
<1>3. PICK mine : mine = Chain(disk, file.start_cluster)
  OBVIOUS
<1>4. PICK slots : slots = {s \in EntrySlots(disk) : ~(Mine(s) /\ dirty # CLEAN)}
  OBVIOUS
<1>5. slots = EntrySlots(disk)
  BY <1>2, <1>4
<1>6. mine = <<>> /\ ProperChain(disk, mine) /\ Holds(mine, file.size) /\ \A x : Disjoint(x, mine)
  BY <1>1, <1>3, NoChain
<1>7. \A s \in slots : SoundAt(s, slots, mine)
  BY <1>1, <1>5, <1>6, WellOwned DEF SoundAt
<1>8. root_cluster \in DirStarts(disk)
  BY <1>1, SlotSets
<1>9. ProperChain(disk, Chain(disk, root_cluster))
  BY <1>1, <1>8, WellFormedIs DEF DirChains
<1> QED
  BY <1>3, <1>4, <1>6, <1>7, <1>9, SoundWhen

\* The slots of a disk with another start and size in an entry.
LEMMA SlotsAsIf ==
  ASSUME NEW d \in Disks, NEW s \in Places, NEW start \in {0} \cup Clusters, NEW size \in 0 .. MaxSize
  PROVE  EntrySlots(AsIf(d, s, start, size)) = EntrySlots(d)
<1> DEFINE a == AsIf(d, s, start, size)
<1>1. \A t \in Places : EntryAt(a, t).name = EntryAt(d, t).name /\ EntryAt(a, t).attributes = EntryAt(d, t).attributes
  BY AsIfIs
<1> HIDE DEF a
<1>2. \A t \in Places : t \in EntrySlots(a) <=> t \in EntrySlots(d)
  BY <1>1 DEF EntrySlots, EntryAt, Used, Places
<1>3. EntrySlots(a) \subseteq Places /\ EntrySlots(d) \subseteq Places
  BY DEF EntrySlots, Places
<1> QED
  BY <1>2, <1>3 DEF a

\* Another file than the open one.
LEMMA SoundOther ==
  ASSUME NEW d \in Disks, NEW s, NEW start \in {0} \cup Clusters, NEW size \in 0 .. MaxSize,
         Held(d, s, start, size), NEW t \in EntrySlots(d) \ {s}
  PROVE  /\ OwnedAt(d, t) /\ Disjoint(ChainAt(d, t), Chain(d, start))
         /\ \A u \in EntrySlots(d) \ {s, t} : OwnedApart(d, t, u)
<1>1. PICK a : a = AsIf(d, s, start, size)
  OBVIOUS
<1>2. /\ a \in Disks /\ a.fat = d.fat /\ WellFormed(a) /\ s \in Files(a) /\ s \in Places
      /\ ChainAt(a, s) = Chain(d, start) /\ EntrySlots(a) = EntrySlots(d)
  <2>1. s \in Places /\ a \in Disks /\ s \in Files(a) /\ ChainAt(a, s) = Chain(d, start)
    BY <1>1, HeldIs
  <2>2. a.fat = d.fat
    BY <1>1, <2>1, AsIfIs
  <2>3. EntrySlots(a) = EntrySlots(d)
    BY <1>1, <2>1, SlotsAsIf
  <2> QED
    BY <1>1, <2>1, <2>2, <2>3 DEF Held
<1>3. \A u \in EntrySlots(d) \ {s} : EntryAt(a, u) = EntryAt(d, u) /\ u \in Places
  <2>1. EntrySlots(d) \subseteq Places
    BY DEF EntrySlots, Places
  <2> QED
    BY <1>1, <1>2, <2>1, AsIfIs
<1>4. \A u \in EntrySlots(d) \ {s} : ChainAt(a, u) = ChainAt(d, u)
  <2> SUFFICES ASSUME NEW u \in EntrySlots(d) \ {s}
               PROVE  ChainAt(a, u) = ChainAt(d, u)
    OBVIOUS
  <2>1. ProperChain(a, ChainAt(a, u)) /\ EntryAt(a, u).first_cluster \in {0} \cup Clusters
    BY <1>2, <1>3, WellOwned, EntryIs DEF OwnedAt
  <2>2. PICK c : c = EntryAt(a, u).first_cluster
    OBVIOUS
  <2>3. c \in {0} \cup Clusters /\ ProperChain(a, Chain(a, c)) /\ d.fat[1] = a.fat[1]
    BY <1>2, <2>1, <2>2 DEF ChainAt
  <2>4. Chain(d, c) = Chain(a, c)
    BY <1>2, <2>3, SameChains
  <2> QED
    BY <1>3, <2>2, <2>4 DEF ChainAt
<1>5. Chain(a, root_cluster) = Chain(d, root_cluster)
  <2>1. SameDirs(d, a) /\ root_cluster \in DirStarts(d)
    BY <1>1, HeldDirs, SlotSets
  <2> QED
    BY <2>1 DEF SameDirs
<1>6. OwnedAt(a, t) /\ \A u \in (EntrySlots(a) \cup Files(a)) \ {t} : OwnedApart(a, t, u)
  BY <1>2, WellOwned
<1>7. OwnedAt(d, t)
  BY <1>2, <1>3, <1>4, <1>5, <1>6 DEF OwnedAt, ProperChain
<1>8. Disjoint(ChainAt(d, t), Chain(d, start))
  BY <1>2, <1>4, <1>6 DEF OwnedApart
<1>9. \A u \in EntrySlots(d) \ {s, t} : OwnedApart(d, t, u)
  BY <1>2, <1>4, <1>6 DEF OwnedApart
<1> QED
  BY <1>7, <1>8, <1>9

\* The open one, when its entry is clean.
LEMMA SoundOwn ==
  ASSUME NEW d \in Disks, NEW s \in EntrySlots(d), NEW start \in {0} \cup Clusters, NEW size \in 0 .. MaxSize,
         Held(d, s, start, size), EntryOf(EntryAt(d, s), start, size)
  PROVE  OwnedAt(d, s) /\ ChainAt(d, s) \in {<<>>, Chain(d, start)}
<1>1. WellFormed(d)
  BY LetGo
<1>2. OwnedAt(d, s)
  BY <1>1, WellOwned
<1>3. EntryAt(d, s).first_cluster \in {0, start}
  BY DEF EntryOf
<1> QED
  BY <1>2, <1>3, NoChain DEF ChainAt

\* A file is open.
LEMMA SoundOpen ==
  ASSUME TypeOK, ~torn, file.ctx, NEW s, StandsFor(disk, file, path, dirty, s)
  PROVE  Sound
<1>1. /\ disk \in Disks /\ file.start_cluster \in {0} \cup Clusters /\ file.size \in 0 .. MaxSize
  BY PartsOf
<1>2. Leads(disk, path, s) /\ Held(disk, s, file.start_cluster, file.size)
  BY DEF StandsFor
<1>3. PICK mine : mine = Chain(disk, file.start_cluster)
  OBVIOUS
<1>4. PICK slots : slots = {t \in EntrySlots(disk) : ~(Mine(t) /\ dirty # CLEAN)}
  OBVIOUS
<1>5. Mine(s)
  BY <1>2, LeadsMine
<1>6. ProperChain(disk, mine) /\ Holds(mine, file.size)
  <2>1. \E R : Owns(disk, file.start_cluster, file.size, R)
    BY <1>1, <1>2, HeldIs
  <2> QED
    BY <1>3, <2>1 DEF Owns
<1>7. ProperChain(disk, Chain(disk, root_cluster))
  BY <1>1, <1>2, HeldDirs, SlotSets
<1>8. \A t \in EntrySlots(disk) \ {s} :
        /\ OwnedAt(disk, t) /\ Disjoint(ChainAt(disk, t), mine)
        /\ \A u \in EntrySlots(disk) \ {s, t} : OwnedApart(disk, t, u)
  BY <1>1, <1>2, <1>3, SoundOther
<1>9. s \in slots => OwnedAt(disk, s) /\ ChainAt(disk, s) \in {<<>>, mine}
  <2> SUFFICES ASSUME s \in slots
               PROVE  OwnedAt(disk, s) /\ ChainAt(disk, s) \in {<<>>, mine}
    OBVIOUS
  <2>1. s \in EntrySlots(disk) /\ dirty = CLEAN
    BY <1>4, <1>5
  <2>2. EntryOf(EntryAt(disk, s), file.start_cluster, file.size)
    BY <2>1 DEF StandsFor, CLEAN, REWRITTEN
  <2> QED
    BY <1>1, <1>2, <1>3, <2>1, <2>2, SoundOwn
<1>10. slots \subseteq EntrySlots(disk)
  BY <1>4
<1>11. \A x, y : Disjoint(x, y) <=> Disjoint(y, x)
  BY DEF Disjoint
<1>12. \A x : Disjoint(<<>>, x)
  BY <1>1, NoChain
<1>13. ASSUME NEW t \in slots
       PROVE  SoundAt(t, slots, mine)
  <2>1. CASE t = s
    <3>1. OwnedAt(disk, s) /\ ChainAt(disk, s) \in {<<>>, mine}
      BY <1>9, <2>1
    <3>2. \A u \in slots \ {s} : Disjoint(ChainAt(disk, u), mine)
      BY <1>8, <1>10
    <3>3. \A u \in slots \ {s} : OwnedApart(disk, s, u)
      BY <1>11, <1>12, <3>1, <3>2 DEF OwnedApart
    <3>4. Disjoint(ChainAt(disk, s), mine) \/ (Mine(s) /\ ChainAt(disk, s) = mine)
      BY <1>5, <1>12, <3>1
    <3> QED
      BY <2>1, <3>1, <3>3, <3>4 DEF SoundAt
  <2>2. CASE t # s
    <3>1. /\ OwnedAt(disk, t) /\ Disjoint(ChainAt(disk, t), mine)
          /\ \A u \in slots \ {s, t} : OwnedApart(disk, t, u)
      BY <1>8, <1>10, <2>2
    <3>2. s \in slots => OwnedApart(disk, t, s)
      BY <1>9, <1>11, <1>12, <3>1 DEF OwnedApart
    <3> QED
      BY <3>1, <3>2 DEF SoundAt
  <2> QED
    BY <2>1, <2>2
<1> QED
  BY <1>3, <1>4, <1>6, <1>7, <1>13, SoundWhen

\* The chains of the files, of the directories and of the open handle are
\* proper, no two share a cluster, and none is shorter than the size that its
\* entry or its handle says, whatever the disk that was mounted, the size of
\* its clusters and of the FAT, the paths and the payloads, and wherever a
\* crash falls outside of the windows that torn names (fat32.c:175-258, 480-680).
THEOREM FilesAreSound == Spec => []Sound
<1>1. Init => SoundInv
  BY InitInOrder
<1>2. TypeOK /\ SoundInv /\ [Next]_vars => SoundInv'
  BY StepInOrder
<1>3. TypeOK /\ SoundInv => Sound
  <2> SUFFICES ASSUME TypeOK, SoundInv
               PROVE  Sound
    OBVIOUS
  <2>1. CASE torn
    BY <2>1 DEF Sound
  <2>2. CASE ~torn /\ ~file.ctx
    BY <2>2, SoundClosed DEF SoundInv, InOrder
  <2>3. CASE ~torn /\ file.ctx
    BY <2>3, SoundOpen DEF SoundInv, InOrder
  <2> QED
    BY <2>1, <2>2, <2>3
<1> QED
  BY <1>1, <1>2, <1>3, TypeCorrect, PTL DEF Spec


-----------------------------------------------------------------------------
(* What the handle and the file say after a write *)

\* A write that has gone over no boundary inside the file leaves the handle in
\* its place and the bytes in the file.
LeftBy(d, f, bytes, e, h) ==
  /\ InSync(e, h) /\ Shows(d, f, bytes, e, h)
  /\ h.file_offset - f.file_offset = Len(bytes) \/ FreeClusters(e) = {}
  /\ h.file_offset \in f.file_offset .. f.file_offset + Len(bytes)
  /\ h.size >= f.size /\ (h.size = f.size \/ h.size = h.file_offset) /\ h.file_offset <= h.size

\* A run of puts leaves the handle in its place and the bytes in the file.
LEMMA IsWritten ==
  ASSUME NEW d \in Disks, NEW f \in Handles, NEW bytes \in Seq(Bytes), NEW R, NEW Z,
         NEW w \in Growing(d, f, bytes, R, Z), w.todo = <<>>, ~Passed(f, w.h.file_offset)
  PROVE  LeftBy(d, f, bytes, Last(w.images), w.h)
<1> DEFINE e == Last(w.images)
           h == w.h
<1>1. /\ w \in Writing(d) /\ Course(f, bytes, h, w.todo)
      /\ AllToGo(f, bytes, h, w.todo) \/ FreeClusters(e) = {}
      /\ Owns(e, h.start_cluster, h.size, R) /\ Standing(e, h) /\ Shows(d, f, bytes, e, h)
  BY DEF Growing, Common
<1>2. h.file_offset \in Nat /\ h.size \in Nat /\ h.file_offset <= h.size /\ Len(w.todo) = 0
  BY <1>1, GrowingIs
<1>3. f.file_offset \in Nat /\ f.size \in Nat /\ Len(bytes) \in Nat
  BY HandleTypes, LenProperties, Fat32Assumption
<1> HIDE DEF e, h
<1>4. /\ h.file_offset >= f.file_offset /\ h.file_offset <= f.file_offset + Len(bytes)
      /\ h.size >= f.size /\ (h.size = f.size \/ h.size = h.file_offset)
  BY <1>1, <1>2, <1>3 DEF Course
<1>5. h.file_offset - f.file_offset = Len(bytes) \/ FreeClusters(e) = {}
  BY <1>1, <1>2, <1>3 DEF AllToGo
<1>6. InSync(e, h)
  BY <1>1 DEF Owns, Standing, InSync
<1> QED
  BY <1>1, <1>2, <1>3, <1>4, <1>5, <1>6 DEF LeftBy, e, h

\* What the file reads is what it read, with the bytes over it.
WithOver(d, f, bytes, h) ==
  [i \in 1 .. h.size |->
     IF i - f.file_offset \in 1 .. h.file_offset - f.file_offset THEN bytes[i - f.file_offset]
     ELSE ContentOf(d, f)[i]]

\* What the file shows afterwards is that.
LEMMA ContentWritten ==
  ASSUME NEW d, NEW f \in Handles, f.file_offset <= f.size, NEW bytes \in Seq(Bytes),
         NEW e, NEW h \in Handles, LeftBy(d, f, bytes, e, h)
  PROVE  h.size = Max({f.size, h.file_offset}) /\ ContentOf(e, h) = WithOver(d, f, bytes, h)
<1> DEFINE x == f.file_offset
           y == h.file_offset
           m == f.size
           n == h.size
<1>1. x \in Nat /\ y \in Nat /\ m \in Nat /\ n \in Nat
  BY HandleTypes, Fat32Assumption
<1>2. n >= m /\ (n = m \/ n = y) /\ y <= n /\ x <= m /\ x <= y
  BY <1>1 DEF LeftBy
<1>3. /\ \A i \in 1 .. n : ContentOf(e, h)[i] = ByteAt(e, Chain(e, h.start_cluster), i)
      /\ \A i \in 1 .. m : ContentOf(d, f)[i] = ByteAt(d, Chain(d, f.start_cluster), i)
      /\ ContentOf(e, h) = [i \in 1 .. n |-> ContentOf(e, h)[i]]
  BY DEF ContentOf, Content, ByteAt
<1>4. \A i \in 1 .. n : ByteAt(e, Chain(e, h.start_cluster), i) =
        IF i - x \in 1 .. y - x THEN bytes[i - x] ELSE ByteAt(d, Chain(d, f.start_cluster), i)
  BY DEF LeftBy, Shows
<1>5. n = Max({m, y})
  <2> HIDE DEF m, n, y
  <2>1. Max({m, y}) = IF m >= y THEN m ELSE y
    BY <1>1, MoreOf
  <2> QED
    BY <1>1, <1>2, <2>1
<1> HIDE DEF x, y, m, n
<1>6. \A i \in 1 .. n : i - x \in 1 .. y - x \/ i \in 1 .. m
  BY <1>1, <1>2
<1>7. \A i \in 1 .. n : ContentOf(e, h)[i] =
        IF i - x \in 1 .. y - x THEN bytes[i - x] ELSE ContentOf(d, f)[i]
  BY <1>3, <1>4, <1>6
<1>8. ContentOf(e, h) = [i \in 1 .. n |-> IF i - x \in 1 .. y - x THEN bytes[i - x] ELSE ContentOf(d, f)[i]]
  BY <1>3, <1>7
<1> QED
  BY <1>5, <1>8 DEF WithOver, x, y, m, n

\* So is what a write to the open file leaves.
LEMMA WriteLeaves ==
  ASSUME TypeOK, SoundInv, NEW bytes \in Payloads, Write(bytes), ~Passed(file, file'.file_offset)
  PROVE  LeftBy(disk, file, bytes, disk', file') /\ file' \in Handles
<1> DEFINE w == fat32_write(disk, file, bytes)
           R == Territory(disk, file.start_cluster)
<1>1. /\ ~torn /\ file.ctx /\ InSync(disk, file) /\ file.file_offset + Len(bytes) <= MaxSize
      /\ disk' = Last(w.images) /\ file' = w.h
  BY DEF Write, CanWrite
<1>2. PICK s : Held(disk, s, file.start_cluster, file.size)
  BY <1>1 DEF SoundInv, InOrder, StandsFor
<1>3. /\ disk \in Disks /\ file \in Handles /\ bytes \in Seq(Bytes) /\ file.file_offset <= file.size
      /\ file.start_cluster \in {0} \cup Clusters /\ file.size \in 0 .. MaxSize
  BY PartsOf
<1>4. Owns(disk, file.start_cluster, file.size, R)
  BY <1>2, <1>3, HeldIs
<1>5. w \in Growing(disk, file, bytes, R, {}) /\ w.todo = <<>>
  BY <1>1, <1>3, <1>4, WriteEnds
<1> HIDE DEF w, R
<1>6. w \in Writing(disk)
  BY <1>5 DEF Growing
<1> QED
  BY <1>1, <1>3, <1>5, <1>6, IsWritten, GrowingIs

\* And what a rewrite leaves, of a file that was emptied.
LEMMA RewriteLeaves ==
  ASSUME TypeOK, SoundInv, NEW bytes \in Payloads, Rewrite(bytes)
  PROVE  file' \in Handles /\ \E d : LeftBy(d, NewFile, bytes, disk', file')
<1> DEFINE w == fat32_rewrite(disk, file, bytes)
           R == Territory(disk, file.start_cluster)
           v == FreeChain(disk, file.start_cluster)
           f == NewFile
<1>1. ~torn /\ file.ctx /\ disk' = Last(w.images) /\ file' = w.h
  BY DEF Rewrite
<1>2. PICK s : Held(disk, s, file.start_cluster, file.size)
  BY <1>1 DEF SoundInv, InOrder, StandsFor
<1>3. /\ disk \in Disks /\ file \in Handles /\ bytes \in Seq(Bytes) /\ Len(bytes) <= MaxSize
      /\ file.start_cluster \in {0} \cup Clusters /\ file.size \in 0 .. MaxSize
  BY PartsOf
<1>4. Len(Chain(disk, file.start_cluster)) <= TotalClusters
  BY <1>2, <1>3, HeldIs DEF Owns, ProperChain
<1>5. Last(v) \in Disks /\ w \in Growing(Last(v), f, bytes, R, Range(v)) /\ w.todo = <<>>
  BY <1>3, <1>4, RewriteEnds
<1> HIDE DEF w, R, v
<1>6. f \in Handles
  BY NoneIsTyped DEF f, NewFile, NoFile, Handle, Handles
<1> HIDE DEF f
<1>7. w \in Writing(Last(v))
  BY <1>5 DEF Growing
<1>8. w.h \in Handles /\ w.h.file_offset \in Nat
  BY <1>5, <1>7, GrowingIs
<1>9. LeftBy(Last(v), f, bytes, Last(w.images), w.h)
  <2>1. ~Passed(f, w.h.file_offset)
    BY <1>8, NothingPassed DEF f
  <2> QED
    BY <1>3, <1>5, <1>6, <2>1, IsWritten
<1> QED
  BY <1>1, <1>8, <1>9 DEF f

\* The handle is in its place, or has lost it in one of the three ways.
Synced ==
  \/ InSync(disk', file')
  \/ disk' = disk /\ file'.file_offset = file.size /\ file.size % ClusterSize = 0
  \/ /\ \E bytes \in Payloads : Write(bytes)
     /\ InteriorBoundary(file.file_offset, file'.file_offset, file.size)

\* A handle that can be read has not lost its place, or is at the end.
LEMMA ReadyIsSynced ==
  ASSUME file' \in Ready(disk), SameFile(file', file), disk' = disk
  PROVE  Synced
BY ReadyIsInSync DEF SameFile, Synced

\* The entry of the file is updated.
LEMMA UpdateSynced ==
  ASSUME TypeOK, SoundInv, InSync(disk, file), UpdateEntry
  PROVE  Synced
<1> DEFINE c == file.start_cluster
           n == file.size
           e == Last(fat32_update_file_entry(disk, path, c, n))
<1>1. ~torn /\ file.ctx /\ disk' = e /\ file' = file
  BY DEF UpdateEntry
<1>2. PICK s : Leads(disk, path, s) /\ Held(disk, s, c, n)
  BY <1>1 DEF SoundInv, InOrder, StandsFor
<1>3. /\ disk \in Disks /\ path \in Seq(Nat \X Nat) /\ Last(path) = path[Len(path)]
      /\ c \in {0} \cup Clusters /\ n \in 0 .. MaxSize
  BY <1>1, PartsOf
<1>4. \A b \in DirStarts(disk) : ProperChain(disk, Chain(disk, b))
  BY <1>2, <1>3, HeldDirs
<1>5. UpdatesOne(disk, e, s, c, n)
  BY <1>2, <1>3, <1>4, UpdateIs
<1>6. s \in Places /\ ProperChain(disk, Chain(disk, c))
  BY <1>2, <1>3, HeldIs DEF Owns
<1> HIDE DEF c, n, e
<1>7. e \in Disks /\ e.fat = disk.fat
  BY <1>3, <1>5, <1>6, AsIfIs DEF UpdatesOne
<1>8. Chain(e, c) = Chain(disk, c)
  BY <1>3, <1>6, <1>7, SameChains
<1>9. InSync(e, file)
  BY <1>8 DEF InSync, c
<1> QED
  BY <1>1, <1>9 DEF Synced

\* Every step.
LEMMA StepSynced ==
  ASSUME TypeOK, SoundInv, [Next]_vars, file.ctx, file'.ctx, InSync(disk, file)
  PROVE  Synced
<1>1. ~NoFile.ctx
  BY KindsOf
<1>2. ASSUME NEW p \in FilePaths, Open(p)
      PROVE  Synced
  BY <1>2 DEF Open
<1>3. ASSUME \/ \E n \in 1 .. MaxSize : Read(n)
             \/ \E size \in 2 .. MaxSize + 1 : ReadLine(size)
             \/ \E key \in ConfigKeys, size, buffer \in {3, MaxSize + 1} : ConfigGetStr(key, size, buffer)
      PROVE  Synced
  <2>1. \/ \E n \in Nat : Read(n)
        \/ \E size \in Nat : ReadLine(size)
        \/ \E size \in Nat \ {0}, buffer \in Nat : \E key : ConfigGetStr(key, size, buffer)
    <3>1. ASSUME NEW key, NEW size \in {3, MaxSize + 1}, NEW buffer \in {3, MaxSize + 1},
                 ConfigGetStr(key, size, buffer)
          PROVE  \E z \in Nat \ {0}, b \in Nat : \E k : ConfigGetStr(k, z, b)
      BY <3>1, Parameters
    <3> QED
      BY <1>3, <3>1, Parameters
  <2> QED
    BY <2>1, LookedReady, ReadyIsSynced
<1>4. ASSUME NEW offset \in 0 .. MaxSize, Seek(offset)
      PROVE  Synced
  <2>1. offset \in Nat /\ offset <= file.size /\ file' = fat32_seek(disk, file, offset) /\ disk' = disk
    BY <1>4, Parameters DEF Seek
  <2> QED
    BY <2>1, InSyncIsReady, SoughtReady, ReadyIsSynced
<1>5. ASSUME NEW bytes \in Payloads, Write(bytes)
      PROVE  Synced
  <2>1. CASE Passed(file, file'.file_offset)
    BY <1>5, <2>1 DEF Passed, Synced
  <2>2. CASE ~Passed(file, file'.file_offset)
    BY <1>5, <2>2, WriteLeaves DEF LeftBy, Synced
  <2> QED
    BY <2>1, <2>2
<1>6. ASSUME NEW bytes \in Payloads, Rewrite(bytes)
      PROVE  Synced
  BY <1>6, RewriteLeaves DEF LeftBy, Synced
<1>7. ASSUME UpdateEntry
      PROVE  Synced
  BY <1>7, UpdateSynced
<1>8. ASSUME Close
      PROVE  Synced
  BY <1>1, <1>8 DEF Close
<1>9. ASSUME \/ \E p \in FilePaths : Create(p)
             \/ \E p \in DirPaths : Mkdir(p) \/ Rmdir(p)
             \/ \E p \in FilePaths \cup DirPaths : RemovePath(p)
      PROVE  Synced
  BY <1>9 DEF Create, Mkdir, Rmdir, RemovePath, OnPath
<1>10. ASSUME Crash
       PROVE  Synced
  BY <1>1, <1>10 DEF Crash, CrashIdle, CrashInWrite, CrashInRewrite, CrashInMkdir, CrashIn
<1>11. ASSUME UNCHANGED vars
       PROVE  Synced
  BY <1>11 DEF vars, Synced
<1> QED
  BY <1>2, <1>3, <1>4, <1>5, <1>6, <1>7, <1>8, <1>9, <1>10, <1>11 DEF Next

\* A handle in its place loses it in three ways only: it reads or seeks to the
\* end of a file that fills its last cluster, or overwrites up to a boundary of
\* clusters inside the file.
THEOREM HandlesStayInSync == Spec => HandleStaysInSync
<1>1. TypeOK /\ SoundInv /\ [Next]_vars => (file.ctx /\ file'.ctx /\ InSync(disk, file) => Synced)
  BY StepSynced
<1>2. TypeOK /\ SoundInv /\ [Next]_vars => SoundInv'
  BY StepInOrder
<1>3. Init => SoundInv
  BY InitInOrder
<1>4. TypeOK /\ SoundInv /\ [Next]_vars =>
        [file.ctx /\ file'.ctx /\ InSync(disk, file) =>
           \/ InSync(disk', file')
           \/ /\ disk' = disk /\ file'.file_offset = file.size
              /\ file.size % ClusterSize = 0
           \/ /\ \E bytes \in Payloads : Write(bytes)
              /\ InteriorBoundary(file.file_offset, file'.file_offset, file.size)]_vars
  BY <1>1 DEF Synced
<1> QED
  BY <1>2, <1>3, <1>4, TypeCorrect, PTL DEF Spec, HandleStaysInSync

\* What the bytes of the file are after a write and after a rewrite.
WritesAll(bytes) ==
  Write(bytes) /\ ~InteriorBoundary(file.file_offset, file'.file_offset, file.size) =>
    /\ Taken = Len(bytes) \/ FreeClusters(disk') = {}
    /\ ContentOf(disk', file') =
         [i \in 1 .. Max({file.size, file'.file_offset}) |->
            IF i - file.file_offset \in 1 .. Taken THEN bytes[i - file.file_offset]
            ELSE ContentOf(disk, file)[i]]
RewritesAll(bytes) ==
  Rewrite(bytes) =>
    /\ file'.size = Len(bytes) \/ FreeClusters(disk') = {}
    /\ ContentOf(disk', file') = SubSeq(bytes, 1, file'.size)

\* A write.
LEMMA WriteAll ==
  ASSUME TypeOK, SoundInv, NEW bytes \in Payloads
  PROVE  WritesAll(bytes)
<1> SUFFICES ASSUME Write(bytes), ~Passed(file, file'.file_offset)
             PROVE  /\ Taken = Len(bytes) \/ FreeClusters(disk') = {}
                    /\ ContentOf(disk', file') =
                         [i \in 1 .. Max({file.size, file'.file_offset}) |->
                            IF i - file.file_offset \in 1 .. Taken THEN bytes[i - file.file_offset]
                            ELSE ContentOf(disk, file)[i]]
  BY DEF Passed, WritesAll
<1>1. LeftBy(disk, file, bytes, disk', file') /\ file' \in Handles
  BY WriteLeaves
<1>2. file \in Handles /\ file.file_offset <= file.size /\ bytes \in Seq(Bytes)
  BY PartsOf
<1>3. file'.size = Max({file.size, file'.file_offset}) /\ ContentOf(disk', file') = WithOver(disk, file, bytes, file')
  BY <1>1, <1>2, ContentWritten
<1> QED
  BY <1>1, <1>3 DEF Taken, LeftBy, WithOver

\* A rewrite.
LEMMA RewriteAll ==
  ASSUME TypeOK, SoundInv, NEW bytes \in Payloads
  PROVE  RewritesAll(bytes)
<1> SUFFICES ASSUME Rewrite(bytes)
             PROVE  /\ file'.size = Len(bytes) \/ FreeClusters(disk') = {}
                    /\ ContentOf(disk', file') = SubSeq(bytes, 1, file'.size)
  BY DEF RewritesAll
<1> DEFINE n == file'.size
           K == ContentOf(disk', file')
<1>1. PICK d : LeftBy(d, NewFile, bytes, disk', file')
  BY RewriteLeaves
<1>2. file' \in Handles /\ bytes \in Seq(Bytes) /\ Len(bytes) \in Nat
  BY RewriteLeaves, PartsOf, LenProperties
<1>3. NewFile.file_offset = 0 /\ NewFile.size = 0
  BY DEF NewFile, Handle
<1>4. file'.file_offset \in Nat /\ n \in Nat /\ file'.start_cluster \in {0} \cup Clusters
  BY <1>2, HandleTypes, Fat32Assumption
<1>5. /\ n = file'.file_offset /\ n <= Len(bytes) /\ (n = Len(bytes) \/ FreeClusters(disk') = {})
  BY <1>1, <1>2, <1>3, <1>4 DEF LeftBy
<1>6. \A i \in 1 .. n : ByteAt(disk', Chain(disk', file'.start_cluster), i) = bytes[i]
  <2>1. \A i \in 1 .. n : i - 0 \in 1 .. n - 0 /\ bytes[i - 0] = bytes[i]
    BY <1>4
  <2> QED
    BY <1>1, <1>3, <1>5, <2>1 DEF LeftBy, Shows
<1>7. K = [i \in 1 .. n |-> bytes[i]]
  BY <1>6 DEF ContentOf, Content, ByteAt
<1>8. SubSeq(bytes, 1, n) \in Seq(Bytes) /\ Len(SubSeq(bytes, 1, n)) = n /\ \A i \in 1 .. n : SubSeq(bytes, 1, n)[i] = bytes[i]
  <2>1. AreFrom(bytes, bytes, 0)
    BY <1>2 DEF AreFrom
  <2>2. n \in 0 .. Len(bytes)
    BY <1>2, <1>4, <1>5
  <2> HIDE DEF n
  <2> QED
    BY <1>2, <2>1, <2>2, FirstBytes
<1>9. K = SubSeq(bytes, 1, n)
  <2> HIDE DEF K, n
  <2>1. \A i \in 1 .. n : bytes[i] \in Bytes
    BY <1>2, <1>4, <1>5, ElementOfSeq
  <2>2. K \in Seq(Bytes) /\ Len(K) = n /\ \A i \in 1 .. n : K[i] = bytes[i]
    BY <1>4, <1>7, <2>1
  <2> QED
    BY <1>8, <2>2, SeqEqual
<1> QED
  BY <1>5, <1>9

\* What a write leaves in the file is what was there with the bytes that were
\* taken written over it, all of them unless the disk is full, whatever the
\* chain of clusters; a rewrite leaves only the bytes.
THEOREM WritesAreExact == Spec => WriteIsExact
<1>1. TypeOK /\ SoundInv => \A bytes \in Payloads : WritesAll(bytes) /\ RewritesAll(bytes)
  BY WriteAll, RewriteAll
<1>2. TypeOK /\ SoundInv /\ [Next]_vars => SoundInv'
  BY StepInOrder
<1>3. Init => SoundInv
  BY InitInOrder
<1>4. TypeOK /\ SoundInv =>
        [\A bytes \in Payloads :
           /\ Write(bytes) /\ ~InteriorBoundary(file.file_offset, file'.file_offset, file.size) =>
                /\ Taken = Len(bytes) \/ FreeClusters(disk') = {}
                /\ ContentOf(disk', file') =
                     [i \in 1 .. Max({file.size, file'.file_offset}) |->
                        IF i - file.file_offset \in 1 .. Taken THEN bytes[i - file.file_offset]
                        ELSE ContentOf(disk, file)[i]]
           /\ Rewrite(bytes) =>
                /\ file'.size = Len(bytes) \/ FreeClusters(disk') = {}
                /\ ContentOf(disk', file') = SubSeq(bytes, 1, file'.size)]_vars
  BY <1>1 DEF WritesAll, RewritesAll
<1> QED
  BY <1>2, <1>3, <1>4, TypeCorrect, PTL DEF Spec, WriteIsExact

-----------------------------------------------------------------------------
(* What is not the open file's *)

\* An entry that is kept or deleted, the clusters that it leads to, and what
\* OthersUntouched says of both.
Deletes(d, e, s) == EntryAt(e, s) \in {EntryAt(d, s), MarkDeleted(EntryAt(d, s))}
SameClusters(d, e, s) ==
  \A x \in Range(ChainAt(d, s)) : e.fat[1][x] = d.fat[1][x] /\ e.data[x] = d.data[x]
Untouched(d, e, s) ==
  /\ Deletes(d, e, s)
  /\ Content(e, ChainAt(e, s), EntryAt(d, s).file_size) = Content(d, ChainAt(d, s), EntryAt(d, s).file_size)

\* The bytes of a file are those of its clusters.
LEMMA KeptIs ==
  ASSUME NEW d \in Disks, NEW e \in Disks, NEW s \in Places, OwnedAt(d, s),
         Deletes(d, e, s), SameClusters(d, e, s)
  PROVE  Untouched(d, e, s)
<1> DEFINE c == EntryAt(d, s).first_cluster
           n == EntryAt(d, s).file_size
           q == Chain(d, c)
<1>1. c \in {0} \cup Clusters /\ n \in Nat /\ EntryAt(d, s) \in Entries
  BY EntryIs, Fat32Assumption
<1>2. MarkDeleted(EntryAt(d, s)).first_cluster = c
  BY <1>1 DEF MarkDeleted, Entries
<1>3. EntryAt(e, s).first_cluster = c
  BY <1>2 DEF Deletes
<1>4. ChainAt(d, s) = q /\ ChainAt(e, s) = Chain(e, c)
  BY <1>3 DEF ChainAt
<1>5. Len(q) <= TotalClusters /\ n <= ClusterSize * Len(q)
  BY <1>4 DEF OwnedAt, ProperChain, Holds
<1> HIDE DEF c, n, q
<1>6. q = Chain(d, c)
  BY DEF q
<1>7. Chain(e, c) = q
  <2>1. Len(Chain(d, c)) <= TotalClusters /\ \A x \in Range(Chain(d, c)) : e.fat[1][x] = d.fat[1][x]
    BY <1>4, <1>5, <1>6 DEF SameClusters
  <2>2. Chain(e, c) = Chain(d, c)
    BY <1>1, <2>1, ChainFrame
  <2> QED
    BY <1>6, <2>2
<1>8. \A i \in 1 .. n : e.data[q[(i - 1) \div ClusterSize + 1]] = d.data[q[(i - 1) \div ClusterSize + 1]]
  <2> SUFFICES ASSUME NEW i \in 1 .. n
               PROVE  e.data[q[(i - 1) \div ClusterSize + 1]] = d.data[q[(i - 1) \div ClusterSize + 1]]
    OBVIOUS
  <2>1. PICK m : m = Len(q)
    OBVIOUS
  <2>2. m \in Nat
    BY <1>1, <1>6, <2>1, ChainHas
  <2>3. i - 1 \in Nat /\ i - 1 < ClusterSize * m
    <3>1. PICK z : z = ClusterSize * m
      OBVIOUS
    <3>2. z \in Nat /\ n <= z
      BY <1>5, <2>1, <2>2, <3>1, DiskAssumption
    <3> QED
      BY <1>1, <3>1, <3>2
  <2>4. ((i - 1) \div ClusterSize) + 1 \in 1 .. m
    BY <2>2, <2>3, InChain
  <2>5. q[((i - 1) \div ClusterSize) + 1] \in Range(q)
    BY <1>1, <1>6, <2>1, <2>4, OnChain
  <2> QED
    BY <1>4, <2>5 DEF SameClusters
<1>9. Content(e, q, n) = Content(d, q, n)
  BY <1>8 DEF Content
<1> QED
  BY <1>4, <1>7, <1>9 DEF Untouched, n

\* Nothing happened to the disk.
LEMMA SameUntouched ==
  ASSUME NEW d, NEW s
  PROVE  Untouched(d, d, s)
BY DEF Untouched, Deletes

\* Nothing happened outside of the clusters that are free or of the open file.
LEMMA OtherUntouched ==
  ASSUME NEW d \in Disks, NEW e \in Disks,
         NEW s, NEW start \in {0} \cup Clusters, NEW size \in 0 .. MaxSize, Held(d, s, start, size),
         \A x \in Clusters \ Territory(d, start) : e.fat[1][x] = d.fat[1][x] /\ e.data[x] = d.data[x],
         NEW t \in EntrySlots(d) \ {s}, EntryAt(e, t) = EntryAt(d, t)
  PROVE  Untouched(d, e, t)
<1>1. OwnedAt(d, t) /\ Disjoint(ChainAt(d, t), Chain(d, start)) /\ t \in Places
  BY SoundOther, SlotSets
<1>2. \A x \in Range(ChainAt(d, t)) : x \in Clusters \ Territory(d, start)
  <2>1. PICK c \in {0} \cup Clusters : c = EntryAt(d, t).first_cluster
    BY <1>1, EntryIs
  <2>2. ChainAt(d, t) = Chain(d, c) /\ ProperChain(d, Chain(d, c))
    BY <1>1, <2>1 DEF ChainAt, OwnedAt
  <2>3. \A x \in Range(Chain(d, c)) : x \in Clusters /\ d.fat[1][x] # 0
    BY <2>2, ProperIs
  <2> QED
    BY <1>1, <2>2, <2>3 DEF Disjoint, Territory
<1>3. SameClusters(d, e, t)
  BY <1>2 DEF SameClusters
<1>4. Deletes(d, e, t)
  BY DEF Deletes
<1> QED
  BY <1>1, <1>3, <1>4, KeptIs

\* A write keeps to them, whatever of it reaches the disk.
LEMMA WriteKeeps ==
  ASSUME NEW d \in Disks, NEW f \in Handles, f.ctx, InSync(d, f), f.file_offset <= f.size,
         NEW bytes \in Seq(Bytes), f.file_offset + Len(bytes) <= MaxSize,
         NEW s, Held(d, s, f.start_cluster, f.size), NEW w, w = fat32_write(d, f, bytes),
         NEW e, e \in Range(w.images) \/ e = Last(w.images)
  PROVE  e \in Disks /\ KeepsOthers(d, e, Territory(d, f.start_cluster))
<1> DEFINE R == Territory(d, f.start_cluster)
<1>1. f.start_cluster \in {0} \cup Clusters /\ f.size \in 0 .. MaxSize
  BY HandleTypes
<1>2. Owns(d, f.start_cluster, f.size, R)
  BY <1>1, HeldIs
<1>3. w \in Growing(d, f, bytes, R, {})
  BY <1>2, WriteEnds
<1>4. w \in Writing(d) /\ Common(d, f, bytes, R, {}, w)
  BY <1>3 DEF Growing
<1>5. w.images \in Images
  BY <1>4 DEF Writing, ImagesAfter
<1>6. e \in Disks
  BY <1>5, RangeGrows
<1>7. Keeps(d, e, R)
  BY <1>4 DEF Common, Leaves
<1> QED
  BY <1>6, <1>7 DEF Keeps, KeepsOthers

\* So does a rewrite.
LEMMA RewriteKeeps ==
  ASSUME NEW d \in Disks, NEW f \in Handles, NEW bytes \in Seq(Bytes), Len(bytes) <= MaxSize,
         NEW s, Held(d, s, f.start_cluster, f.size), NEW w, w = fat32_rewrite(d, f, bytes),
         NEW e, e \in Range(w.images) \/ e = Last(w.images)
  PROVE  e \in Disks /\ KeepsOthers(d, e, Territory(d, f.start_cluster))
<1> DEFINE R == Territory(d, f.start_cluster)
           v == FreeChain(d, f.start_cluster)
           a == Last(v)
           g == NewFile
<1>1. f.start_cluster \in {0} \cup Clusters /\ f.size \in 0 .. MaxSize
  BY HandleTypes
<1>2. Len(Chain(d, f.start_cluster)) <= TotalClusters
  BY <1>1, HeldIs DEF Owns, ProperChain
<1>3. /\ R \in SUBSET Clusters /\ Cleared(d, v, R) /\ Last(v) \in Disks
      /\ fat32_rewrite(d, f, bytes) \in Growing(Last(v), g, bytes, R, Range(v))
  BY <1>2, RewriteEnds
<1>4. w \in Growing(a, g, bytes, R, Range(v)) /\ a \in Disks
  BY <1>3
<1>5. a.dir = d.dir /\ \A x \in Clusters \ R : a.fat[1][x] = d.fat[1][x] /\ a.data[x] = d.data[x]
  BY <1>3 DEF Cleared
<1>6. \A im \in Range(v) : KeepsOthers(d, im, R)
  BY <1>3 DEF Cleared
<1> HIDE DEF v, g, R, a
<1>7. w \in Writing(a) /\ Common(a, g, bytes, R, Range(v), w)
  BY <1>4 DEF Growing
<1>8. w.images \in Images
  BY <1>7 DEF Writing, ImagesAfter
<1>9. e \in Disks
  BY <1>8, RangeGrows
<1>10. e \in Range(v) \/ Keeps(a, e, R)
  BY <1>7 DEF Common, Leaves
<1>11. KeepsOthers(d, e, R)
  BY <1>5, <1>6, <1>10 DEF Keeps, KeepsOthers
<1> QED
  BY <1>9, <1>11 DEF R

\* So every step through the handle does, and a crash in one.
LEMMA HandleUntouched ==
  ASSUME TypeOK, SoundInv, ~torn, file.ctx, NEW t \in EntrySlots(disk), ~Mine(t),
         \/ UpdateEntry
         \/ \E bytes \in Payloads :
              Write(bytes) \/ Rewrite(bytes) \/ CrashInWrite(bytes) \/ CrashInRewrite(bytes)
  PROVE  Untouched(disk, disk', t)
<1>1. PICK s : Leads(disk, path, s) /\ Held(disk, s, file.start_cluster, file.size)
  BY DEF SoundInv, InOrder, StandsFor
<1>2. t # s
  BY <1>1, LeadsMine
<1>3. disk \in Disks /\ file \in Handles /\ file.start_cluster \in {0} \cup Clusters /\ file.size \in 0 .. MaxSize
  BY PartsOf
<1>4. ASSUME NEW e, e = disk', e \in Disks, KeepsOthers(disk, e, Territory(disk, file.start_cluster))
      PROVE  Untouched(disk, disk', t)
  <2> DEFINE c == file.start_cluster
             n == file.size
  <2>1. EntryAt(e, t) = EntryAt(disk, t)
    BY <1>4 DEF KeepsOthers, EntryAt
  <2>2. \A x \in Clusters \ Territory(disk, c) : e.fat[1][x] = disk.fat[1][x] /\ e.data[x] = disk.data[x]
    BY <1>4 DEF KeepsOthers
  <2>3. c \in {0} \cup Clusters /\ n \in 0 .. MaxSize /\ Held(disk, s, c, n)
    BY <1>1, <1>3
  <2> HIDE DEF c, n
  <2> QED
    BY <1>2, <1>3, <1>4, <2>1, <2>2, <2>3, OtherUntouched
<1>5. ASSUME NEW bytes \in Payloads, Write(bytes) \/ CrashInWrite(bytes)
      PROVE  Untouched(disk, disk', t)
  <2>1. PICK w : w = fat32_write(disk, file, bytes)
    OBVIOUS
  <2>2. /\ InSync(disk, file) /\ file.file_offset + Len(bytes) <= MaxSize
        /\ disk' = Last(w.images) \/ \E k \in DOMAIN w.images : disk' = w.images[k]
    BY <1>5, <2>1 DEF Write, CanWrite, CrashInWrite, CrashIn
  <2>3. PICK e : e = disk' /\ (e \in Range(w.images) \/ e = Last(w.images))
    BY <2>2 DEF Range
  <2>4. bytes \in Seq(Bytes) /\ file.file_offset <= file.size
    BY PartsOf
  <2>5. e \in Disks /\ KeepsOthers(disk, e, Territory(disk, file.start_cluster))
    BY <1>1, <1>3, <2>1, <2>2, <2>3, <2>4, WriteKeeps
  <2> QED
    BY <1>4, <2>3, <2>5
<1>6. ASSUME NEW bytes \in Payloads, Rewrite(bytes) \/ CrashInRewrite(bytes)
      PROVE  Untouched(disk, disk', t)
  <2>1. PICK w : w = fat32_rewrite(disk, file, bytes)
    OBVIOUS
  <2>2. disk' = Last(w.images) \/ \E k \in DOMAIN w.images : disk' = w.images[k]
    BY <1>6, <2>1 DEF Rewrite, CrashInRewrite, CrashIn
  <2>3. PICK e : e = disk' /\ (e \in Range(w.images) \/ e = Last(w.images))
    BY <2>2 DEF Range
  <2>4. bytes \in Seq(Bytes) /\ Len(bytes) <= MaxSize
    BY PartsOf
  <2>5. e \in Disks /\ KeepsOthers(disk, e, Territory(disk, file.start_cluster))
    BY <1>1, <1>3, <2>1, <2>3, <2>4, RewriteKeeps
  <2> QED
    BY <1>4, <2>3, <2>5
<1>7. ASSUME UpdateEntry
      PROVE  Untouched(disk, disk', t)
  <2> DEFINE c == file.start_cluster
             n == file.size
  <2>1. PICK e : e = Last(fat32_update_file_entry(disk, path, c, n))
    OBVIOUS
  <2>2. disk' = e
    BY <1>7, <2>1 DEF UpdateEntry
  <2>3. path \in Seq(Nat \X Nat) /\ Last(path) = path[Len(path)]
    BY PartsOf
  <2>4. c \in {0} \cup Clusters /\ n \in 0 .. MaxSize /\ Held(disk, s, c, n)
    BY <1>1, <1>3
  <2> HIDE DEF c, n
  <2>5. \A b \in DirStarts(disk) : ProperChain(disk, Chain(disk, b))
    BY <1>3, <2>4, HeldDirs
  <2>6. UpdatesOne(disk, e, s, c, n)
    BY <1>1, <1>3, <2>1, <2>3, <2>4, <2>5, UpdateIs
  <2>7. /\ t \in Places /\ EntryAt(disk, t).attributes # ATTR_VOLUME_ID
        /\ s \in Places
    BY <1>3, <2>4, SlotSets, HeldIs DEF ATTR_ARCHIVE, ATTR_DIRECTORY, ATTR_VOLUME_ID
  <2>8. ASSUME NEW u \in Places, u # t, e = AsIf(disk, u, c, n)
        PROVE  Untouched(disk, e, t)
    <3>1. e \in Disks /\ e.fat = disk.fat /\ e.data = disk.data /\ EntryAt(e, t) = EntryAt(disk, t)
      BY <1>3, <2>4, <2>7, <2>8, AsIfIs
    <3> QED
      BY <1>2, <1>3, <2>4, <3>1, OtherUntouched
  <2> QED
    BY <1>2, <2>2, <2>6, <2>7, <2>8, SameUntouched DEF UpdatesOne
<1> QED
  BY <1>5, <1>6, <1>7


-----------------------------------------------------------------------------
(* What the operations on paths leave *)

\* The slot of a new entry.
PutInto(d, e, c, m, n) ==
  /\ m \in 1 .. SlotCount /\ c \in Clusters /\ e \in Disks /\ e.fat = d.fat /\ e.data = d.data
  /\ ~Used(EntryAt(d, <<c, m>>)) /\ EntryAt(e, <<c, m>>) = n
  /\ \A j \in 1 .. m - 1 : Used(EntryAt(d, <<c, j>>))
  /\ \A t \in Places : t # <<c, m>> => EntryAt(e, t) = EntryAt(d, t)

\* create_direntry takes the first that is free in the cluster, if any.
LEMMA DirentryPut ==
  ASSUME NEW images \in Images, NEW d, d = Last(images), d \in Disks, NEW c, NEW n \in Entries,
         NEW v, v = create_direntry(images, c, n)
  PROVE  \/ v = images
         \/ \E e : v = WriteSector(images, e) /\ (e = d \/ \E m : PutInto(d, e, c, m, n))
<1> DEFINE T == {i \in 1 .. SlotCount : ~Used(d.dir[c][i])}
           changed == [i \in 1 .. SlotCount |-> n]
<1>1. v = InFirstSlot(images, c, T, changed) /\ T \in SUBSET (1 .. SlotCount)
  BY DEF create_direntry, SlotsOf, FreeSlots
<1>2. \A m \in T : changed[m] = n /\ m \in 1 .. SlotCount /\ ~Used(EntryAt(d, <<c, m>>))
  BY DEF EntryAt
<1>3. \A j \in 1 .. SlotCount : j \notin T => Used(EntryAt(d, <<c, j>>))
  BY DEF EntryAt
<1> HIDE DEF T, changed
<1>4. ASSUME NEW m \in T, \A j \in T : m <= j, v = WriteSector(images, SlotPut(d, c, m, changed[m]))
      PROVE  \E e : v = WriteSector(images, e) /\ (e = d \/ \E i : PutInto(d, e, c, i, n))
  <2>1. PICK e : e = SlotPut(d, c, m, n)
    OBVIOUS
  <2>2. v = WriteSector(images, e)
    BY <1>2, <1>4, <2>1
  <2>3. CASE c \notin Clusters
    BY <2>1, <2>2, <2>3, SlotNowhere
  <2>4. CASE c \in Clusters
    <3>1. PICK s : s = <<c, m>>
      OBVIOUS
    <3>2. s \in Places /\ s[1] = c /\ s[2] = m
      BY <1>2, <2>4, <3>1 DEF Places
    <3>3. /\ e \in Disks /\ e.fat = d.fat /\ e.data = d.data /\ EntryAt(e, s) = n
          /\ \A t \in Places : t # s => EntryAt(e, t) = EntryAt(d, t)
      BY <2>1, <3>2, SlotPutIs
    <3>4. \A j \in 1 .. m - 1 : Used(EntryAt(d, <<c, j>>))
      <4>1. \A j \in 1 .. m - 1 : j \in 1 .. SlotCount /\ ~(m <= j)
        <5>1. SlotCount \in Nat /\ m \in 1 .. SlotCount
          BY <1>2, DiskAssumption
        <5> QED
          BY <5>1
      <4> QED
        BY <1>3, <1>4, <4>1
    <3>5. PutInto(d, e, c, m, n)
      BY <1>2, <2>4, <3>1, <3>3, <3>4 DEF PutInto
    <3> QED
      BY <2>2, <3>5
  <2> QED
    BY <2>3, <2>4
<1>5. v = images \/ \E m \in T : (\A j \in T : m <= j) /\ v = WriteSector(images, SlotPut(d, c, m, changed[m]))
  BY <1>1, FirstIn
<1> QED
  BY <1>4, <1>5

\* Nothing that was taken is changed.
Adds(d, e) ==
  /\ e \in Disks
  /\ \A x \in Clusters : d.fat[1][x] # 0 => e.fat[1][x] = d.fat[1][x] /\ e.data[x] = d.data[x]
  /\ \A t \in Places : Used(EntryAt(d, t)) => EntryAt(e, t) = EntryAt(d, t)

\* So no file and no directory is.
LEMMA AddsIs ==
  ASSUME NEW d \in Disks, WellFormed(d), NEW e, Adds(d, e), NEW t \in EntrySlots(d)
  PROVE  Untouched(d, e, t)
<1>1. OwnedAt(d, t) /\ t \in Places
  BY WellOwned
<1>2. Used(EntryAt(d, t))
  BY SlotSets
<1>3. PICK c \in {0} \cup Clusters : c = EntryAt(d, t).first_cluster
  BY <1>1, EntryIs
<1>4. ChainAt(d, t) = Chain(d, c) /\ ProperChain(d, Chain(d, c))
  BY <1>1, <1>3 DEF ChainAt, OwnedAt
<1>5. \A x \in Range(ChainAt(d, t)) : x \in Clusters /\ d.fat[1][x] # 0
  BY <1>4, ProperIs
<1>6. Deletes(d, e, t) /\ SameClusters(d, e, t) /\ e \in Disks
  BY <1>1, <1>2, <1>5 DEF Adds, Deletes, SameClusters
<1> QED
  BY <1>1, <1>6, KeptIs

\* An entry in a free slot does so.
LEMMA PutAdds ==
  ASSUME NEW d \in Disks, NEW a, Adds(d, a), NEW e, NEW c, NEW m, NEW n, PutInto(a, e, c, m, n)
  PROVE  Adds(d, e)
<1>1. ~Used(EntryAt(a, <<c, m>>)) /\ \A t \in Places : t # <<c, m>> => EntryAt(e, t) = EntryAt(a, t)
  BY DEF PutInto
<1>2. \A t \in Places : Used(EntryAt(d, t)) => EntryAt(a, t) = EntryAt(d, t)
  BY DEF Adds
<1>3. \A t \in Places : Used(EntryAt(d, t)) => EntryAt(e, t) = EntryAt(d, t)
  BY <1>1, <1>2
<1>4. e \in Disks /\ e.fat = a.fat /\ e.data = a.data
  BY DEF PutInto
<1> QED
  BY <1>3, <1>4 DEF Adds

\* A file that is created.
LEMMA CreateAdds ==
  ASSUME NEW d \in Disks, NEW p \in FilePaths \cup DirPaths
  PROVE  Adds(d, Last(fat32_create(d, p)))
<1> DEFINE h == fat32_open_file(d, Front(p))
           n == Entry(Last(p), ATTR_ARCHIVE, 0, 0)
           v == fat32_create(d, p)
<1>1. Unwritten(d) \in Images /\ Last(Unwritten(d)) = d /\ Adds(d, d)
  BY OneImage DEF Adds
<1>2. CASE ~(h.ctx /\ h.is_dir)
  BY <1>1, <1>2 DEF fat32_create, MakeEntry
<1>3. CASE h.ctx /\ h.is_dir
  <2>1. n \in Entries
    BY PathTypes, EntryTypes, Fat32Assumption
  <2>2. v = create_direntry(Unwritten(d), h.current_cluster, n)
    BY <1>3 DEF fat32_create, MakeEntry
  <2> HIDE DEF n, v, h
  <2>3. \/ v = Unwritten(d)
        \/ \E e : v = WriteSector(Unwritten(d), e) /\ (e = d \/ \E m : PutInto(d, e, h.current_cluster, m, n))
    BY <1>1, <2>1, <2>2, DirentryPut
  <2>4. ASSUME NEW e, v = WriteSector(Unwritten(d), e), e = d \/ \E m : PutInto(d, e, h.current_cluster, m, n)
        PROVE  Adds(d, Last(v))
    <3>1. Adds(d, e)
      BY <1>1, <2>4, PutAdds
    <3>2. e \in Disks
      BY <3>1 DEF Adds
    <3> QED
      BY <1>1, <2>4, <3>1, <3>2, ImagesGrow
  <2>5. Adds(d, Last(v))
    BY <1>1, <2>3, <2>4
  <2> QED
    BY <2>5 DEF v
<1> QED
  BY <1>2, <1>3

\* A directory that is made, whatever of it is written.
LEMMA MkdirAdds ==
  ASSUME NEW d \in Disks, WellFormed(d), NEW p \in FilePaths \cup DirPaths, NEW v, v = fat32_mkdir(d, p),
         NEW im, im \in Range(v) \/ im = Last(v)
  PROVE  Adds(d, im)
<1> DEFINE h == fat32_open_file(d, Front(p))
           new == find_free_cluster(d)
           n == Entry(Last(p), ATTR_DIRECTORY, new, 0)
           u == set_fat_entry(Unwritten(d), new, FAT32_EOC)
           a == Last(u)
           q == WriteDots(u, new, h.start_cluster)
           e == [a EXCEPT !.dir[new] = DotEntries(new, h.start_cluster)]
<1>1. Unwritten(d) \in Images /\ Last(Unwritten(d)) = d /\ Range(Unwritten(d)) = {d} /\ Adds(d, d)
  BY OneImage, RangeGrows DEF Adds
<1>2. v = IF ~h.ctx \/ ~h.is_dir \/ new = 0 THEN Unwritten(d) ELSE create_direntry(q, h.current_cluster, n)
  BY DEF fat32_mkdir, MakeDirectory
<1>3. \A t \in Places : Used(EntryAt(d, t)) => d.fat[1][t[1]] # 0
  BY WellFormedIs, SlotSets DEF SlotsTaken
<1> HIDE DEF h
<1>4. CASE ~h.ctx \/ ~h.is_dir \/ new = 0
  BY <1>1, <1>2, <1>4
<1>5. CASE ~(~h.ctx \/ ~h.is_dir \/ new = 0)
  <2>1. new \in Clusters /\ d.fat[1][new] = 0
    BY <1>5, FreeIs
  <2>2. h.start_cluster \in {0} \cup Clusters
    BY PathTypes, OpenTypes, HandleTypes DEF h, Opened
  <2> HIDE DEF new
  <2>3. u \in Images /\ FAT32_EOC \in Links
    BY <1>1, <2>1, EntrySet DEF Links
  <2>4. \A x \in Range(u) : x \in Disks
    BY <2>3, RangeGrows
  <2>5. /\ a.fat[1] = FatSet(d.fat[1], new, FAT32_EOC) /\ a.dir = d.dir /\ a.data = d.data
        /\ \A x \in Range(u) : x = d \/ (x.fat[1] = FatSet(d.fat[1], new, FAT32_EOC) /\ x.dir = d.dir /\ x.data = d.data)
    <3>1. /\ Last(u).fat[1] = FatSet(Last(Unwritten(d)).fat[1], new, FAT32_EOC)
          /\ Last(u).dir = Last(Unwritten(d)).dir /\ Last(u).data = Last(Unwritten(d)).data
          /\ \A x \in Range(u) : x \in Range(Unwritten(d))
               \/ (/\ x.fat[1] = FatSet(Last(Unwritten(d)).fat[1], new, FAT32_EOC)
                   /\ x.dir = Last(Unwritten(d)).dir /\ x.data = Last(Unwritten(d)).data)
      BY <1>1, <2>1, <2>3, SetIs
    <3> QED
      BY <1>1, <3>1
  <2>6. a \in Disks /\ a \in Range(u)
    BY <2>3, RangeGrows, ImagesGrow
  <2> HIDE DEF u, a
  <2>7. ASSUME NEW x \in Disks, x.fat[1] = FatSet(d.fat[1], new, FAT32_EOC), x.data = d.data, x.dir = d.dir
        PROVE  Adds(d, x)
    <3>1. DOMAIN d.fat[1] = Clusters
      BY DiskParts DEF Sectors
    <3>2. \A y \in Clusters : d.fat[1][y] # 0 => x.fat[1][y] = d.fat[1][y]
      BY <2>1, <2>7, <3>1 DEF FatSet
    <3> QED
      BY <2>7, <3>2 DEF Adds, EntryAt
  <2>8. \A x \in Range(u) : Adds(d, x)
    BY <1>1, <2>4, <2>5, <2>7
  <2>9. e \in Disks /\ e.fat = a.fat /\ e.data = a.data /\ \A y \in Clusters : y # new => e.dir[y] = a.dir[y]
    <3> DEFINE Dir == [1 .. SlotCount -> Entries]
               dir == [a.dir EXCEPT ![new] = DotEntries(new, h.start_cluster)]
    <3>1. a.dir \in [Clusters -> Dir] /\ a = [fat |-> a.fat, dir |-> a.dir, data |-> a.data]
      BY <2>6, DiskParts
    <3>2. e = [fat |-> a.fat, dir |-> dir, data |-> a.data]
      BY <3>1
    <3>3. \A y \in Clusters : y # new => dir[y] = a.dir[y]
      BY <3>1
    <3>4. e \in Disks
      <4>1. Unwritten(a) \in ImagesAfter(a) /\ Last(Unwritten(a)) = a
        BY <2>6, FirstImage, OneImage
      <4>2. WriteDots(Unwritten(a), new, h.start_cluster) \in ImagesAfter(a)
        BY <2>1, <2>2, <2>6, <4>1, DotsWritten
      <4>3. WriteDots(Unwritten(a), new, h.start_cluster) = WriteSector(Unwritten(a), e)
        BY <4>1 DEF WriteDots
      <4>4. Last(WriteSector(Unwritten(a), e)) = e
        BY DEF WriteSector, Last, Unwritten
      <4> QED
        BY <2>6, <4>2, <4>3, <4>4, LastIs
    <3> HIDE DEF dir
    <3> QED
      BY <3>2, <3>3, <3>4
  <2>10. q = WriteSector(u, e)
    BY DEF WriteDots, a
  <2> HIDE DEF e, q
  <2>11. Adds(d, e)
    <3>1. Adds(d, a)
      BY <2>6, <2>8
    <3>2. \A t \in Places : Used(EntryAt(d, t)) => t[1] \in Clusters /\ t[1] # new
      BY <1>3, <2>1, EntryIs
    <3>3. \A t \in Places : Used(EntryAt(d, t)) => EntryAt(e, t) = EntryAt(d, t)
      BY <2>5, <2>9, <3>2 DEF EntryAt
    <3> QED
      BY <2>9, <3>1, <3>3 DEF Adds
  <2>12. q \in Images /\ Last(q) = e /\ Range(q) = Range(u) \cup {e}
    BY <2>3, <2>9, <2>10, ImagesGrow, RangeGrows
  <2>13. n \in Entries
    <3>1. Last(p) \in Nat \X Nat /\ new \in {0} \cup Clusters /\ 0 \in 0 .. MaxSize
      BY <2>1, NamesUsed, Fat32Assumption
    <3>2. ATTR_DIRECTORY \in {"none", ATTR_ARCHIVE, ATTR_DIRECTORY, ATTR_VOLUME_ID}
      OBVIOUS
    <3> QED
      BY <3>1, <3>2, EntryTypes
  <2> HIDE DEF n
  <2>14. v = create_direntry(q, h.current_cluster, n)
    BY <1>2, <1>5
  <2>15. \/ v = q
         \/ \E x : v = WriteSector(q, x) /\ (x = e \/ \E m : PutInto(e, x, h.current_cluster, m, n))
    BY <2>9, <2>12, <2>13, <2>14, DirentryPut
  <2>16. ASSUME NEW x, v = WriteSector(q, x), x = e \/ \E m : PutInto(e, x, h.current_cluster, m, n)
         PROVE  Adds(d, im)
    <3>1. Adds(d, x)
      BY <2>11, <2>16, PutAdds
    <3>2. x \in Disks
      BY <3>1 DEF Adds
    <3>3. Last(v) = x /\ Range(v) = Range(q) \cup {x}
      BY <2>12, <2>16, <3>2, ImagesGrow, RangeGrows
    <3> QED
      BY <2>8, <2>11, <2>12, <3>1, <3>3
  <2>17. CASE v = q
    BY <2>8, <2>11, <2>12, <2>17
  <2> QED
    BY <2>15, <2>16, <2>17
<1> QED
  BY <1>4, <1>5

\* The slot of an entry that is removed: the first of the parent's cluster
\* whose name memcmp takes for the one that was asked for.
Removed(d, e, p, s) ==
  LET h == fat32_open_file(d, Front(p))
  IN  /\ s[1] = h.start_cluster /\ s \in Places
      /\ memcmp_is_zero(EntryAt(d, s).name, Last(p))
      /\ \A j \in 1 .. s[2] - 1 : ~memcmp_is_zero(EntryAt(d, <<s[1], j>>).name, Last(p))
      /\ e \in Disks /\ e.fat = d.fat /\ e.data = d.data /\ EntryAt(e, s) = MarkDeleted(EntryAt(d, s))
      /\ \A t \in Places : t # s => EntryAt(e, t) = EntryAt(d, t)

\* fat32_remove marks that, or nothing.
LEMMA RemoveIs ==
  ASSUME NEW d \in Disks, NEW p \in FilePaths \cup DirPaths, NEW e, e = Last(fat32_remove(d, p)), e # d
  PROVE  \E s : Removed(d, e, p, s)
<1> DEFINE h == fat32_open_file(d, Front(p))
           c == h.current_cluster
           entry == fat32_find_file(d, h.start_cluster, Last(p))
           T == {i \in 1 .. SlotCount : memcmp_is_zero(d.dir[c][i].name, entry.name)}
           v == fat32_remove(d, p)
<1>1. Unwritten(d) \in Images /\ Last(Unwritten(d)) = d
  BY OneImage
<1>2. v = IF ~h.ctx \/ ~Used(entry) THEN Unwritten(d) ELSE InFirstSlot(Unwritten(d), c, T, Deleted(d.dir[c]))
  BY DEF fat32_remove, RemoveFrom, RemoveEntry
<1>3. e = Last(v)
  OBVIOUS
<1>4. h.start_cluster \in {0} \cup Clusters /\ c = h.start_cluster
  <2>1. h \in Opened /\ Front(p) \in Seq(Nat \X Nat)
    BY PathTypes, OpenTypes
  <2>2. h.ctx /\ h.is_dir => h.current_cluster = h.start_cluster
    BY <2>1, OpenedWhat, KindsOf
  <2>3. h.ctx /\ ~h.is_dir => h.current_cluster = h.start_cluster
    BY <2>1, OpenedWhat, KindsOf
  <2>4. h.ctx
    BY <1>1, <1>2, <1>3
  <2> QED
    BY <2>1, <2>2, <2>3, <2>4, HandleTypes DEF Opened
<1>5. T \in SUBSET (1 .. SlotCount)
  OBVIOUS
<1>6. Used(entry) /\ v = InFirstSlot(Unwritten(d), c, T, Deleted(d.dir[c]))
  BY <1>1, <1>2, <1>3
<1>7. entry.name = Last(p)
  <2>1. PICK b : b = h.start_cluster
    OBVIOUS
  <2>2. b \in {0} \cup Clusters /\ entry = fat32_find_file(d, b, Last(p))
    BY <1>4, <2>1
  <2>3. ~Used(ZeroEntry)
    BY DEF ZeroEntry, Entry, Used
  <2>4. \E i : FoundAt(d, b, Last(p), i) /\ entry = EntryAt(d, SlotAt(d, b, i))
    BY <1>6, <2>2, <2>3, FoundIs
  <2> QED
    BY <2>4 DEF FoundAt, Matches
<1>8. \A i \in 1 .. SlotCount : i \in T <=> memcmp_is_zero(EntryAt(d, <<c, i>>).name, Last(p))
  BY <1>7 DEF EntryAt
<1> HIDE DEF c, entry, T, v
<1>9. PICK m \in T : (\A j \in T : m <= j) /\ v = WriteSector(Unwritten(d), SlotPut(d, c, m, Deleted(d.dir[c])[m]))
  BY <1>1, <1>3, <1>5, <1>6, FirstIn
<1>10. m \in 1 .. SlotCount
  BY <1>5
<1>11. PICK x : x = MarkDeleted(d.dir[c][m])
  OBVIOUS
<1>12. v = WriteSector(Unwritten(d), SlotPut(d, c, m, x))
  BY <1>9, <1>10, <1>11 DEF Deleted
<1>13. Last(v) = SlotPut(d, c, m, x)
  BY <1>12 DEF WriteSector, Last, Unwritten
<1>14. c \in Clusters
  BY <1>3, <1>13, SlotNowhere
<1>15. PICK s : s = <<c, m>>
  OBVIOUS
<1>16. s \in Places /\ s[1] = c /\ s[2] = m
  BY <1>10, <1>14, <1>15 DEF Places
<1>17. x = MarkDeleted(EntryAt(d, s)) /\ x \in Entries
  BY <1>11, <1>16, EntryIs, DeletedTypes DEF EntryAt
<1>18. /\ e \in Disks /\ e.fat = d.fat /\ e.data = d.data /\ EntryAt(e, s) = x
       /\ \A t \in Places : t # s => EntryAt(e, t) = EntryAt(d, t)
  BY <1>3, <1>13, <1>16, <1>17, SlotPutIs
<1>19. memcmp_is_zero(EntryAt(d, s).name, Last(p))
  BY <1>8, <1>10, <1>15
<1>20. \A j \in 1 .. s[2] - 1 : ~memcmp_is_zero(EntryAt(d, <<s[1], j>>).name, Last(p))
  <2>1. \A j \in 1 .. m - 1 : j \in 1 .. SlotCount /\ ~(m <= j)
    BY <1>10, DiskAssumption
  <2> QED
    BY <1>8, <1>9, <1>16, <2>1
<1>21. s[1] = h.start_cluster
  BY <1>4, <1>16
<1> QED
  BY <1>16, <1>17, <1>18, <1>19, <1>20, <1>21 DEF Removed


\* A file or a directory that is removed.
LEMMA RemoveUntouched ==
  ASSUME NEW d \in Disks, WellFormed(d), NEW p \in FilePaths \cup DirPaths,
         NEW e, e = d \/ e = Last(fat32_remove(d, p)), NEW t \in EntrySlots(d)
  PROVE  Untouched(d, e, t)
<1>1. CASE e = d
  BY <1>1, SameUntouched
<1>2. CASE e # d
  <2>1. PICK s : Removed(d, e, p, s)
    BY <1>2, RemoveIs
  <2>2. e \in Disks /\ e.fat = d.fat /\ e.data = d.data
    BY <2>1 DEF Removed
  <2>3. OwnedAt(d, t) /\ t \in Places
    BY WellOwned
  <2>4. Deletes(d, e, t)
    BY <2>1, <2>3 DEF Removed, Deletes
  <2>5. SameClusters(d, e, t)
    BY <2>2 DEF SameClusters
  <2> QED
    BY <2>2, <2>3, <2>4, <2>5, KeptIs
<1> QED
  BY <1>1, <1>2

\* The operations on paths, and a crash in fat32_mkdir.
LEMMA PathUntouched ==
  ASSUME TypeOK, SoundInv, NEW t \in EntrySlots(disk),
         \/ \E p \in FilePaths : Create(p)
         \/ \E p \in DirPaths : Mkdir(p) \/ Rmdir(p) \/ CrashInMkdir(p)
         \/ \E p \in FilePaths \cup DirPaths : RemovePath(p)
  PROVE  Untouched(disk, disk', t)
<1>1. disk \in Disks
  BY PartsOf
<1>2. ~torn /\ ~file.ctx
  BY DEF Create, Mkdir, Rmdir, RemovePath, OnPath, CrashInMkdir, CrashIn
<1>3. WellFormed(disk)
  BY <1>2 DEF SoundInv, InOrder
<1>4. ASSUME NEW p \in FilePaths, Create(p)
      PROVE  Untouched(disk, disk', t)
  <2>1. Adds(disk, Last(fat32_create(disk, p))) /\ disk' = Last(fat32_create(disk, p))
    BY <1>1, <1>4, CreateAdds DEF Create, OnPath
  <2> QED
    BY <1>1, <1>3, <2>1, AddsIs
<1>5. ASSUME NEW p \in DirPaths, Mkdir(p) \/ CrashInMkdir(p)
      PROVE  Untouched(disk, disk', t)
  <2>1. PICK v : v = fat32_mkdir(disk, p)
    OBVIOUS
  <2>2. disk' = Last(v) \/ \E k \in DOMAIN v : disk' = v[k]
    BY <1>5, <2>1 DEF Mkdir, OnPath, CrashInMkdir, CrashIn
  <2>3. PICK e : e = disk' /\ (e \in Range(v) \/ e = Last(v))
    BY <2>2 DEF Range
  <2>4. Adds(disk, e)
    BY <1>1, <1>3, <2>1, <2>3, MkdirAdds
  <2> QED
    BY <1>1, <1>3, <2>3, <2>4, AddsIs
<1>6. ASSUME NEW p \in FilePaths \cup DirPaths, Rmdir(p) \/ RemovePath(p)
      PROVE  Untouched(disk, disk', t)
  <2>1. Last(Unwritten(disk)) = disk
    BY <1>1, OneImage
  <2>2. PICK e : e = disk' /\ (e = disk \/ e = Last(fat32_remove(disk, p)))
    BY <1>6, <2>1 DEF Rmdir, RemovePath, OnPath, fat32_rmdir
  <2> QED
    BY <1>1, <1>3, <2>2, RemoveUntouched
<1> QED
  BY <1>4, <1>5, <1>6

\* Every step.
LEMMA StepUntouched ==
  ASSUME TypeOK, SoundInv, [Next]_vars, NEW t \in EntrySlots(disk), ~Mine(t)
  PROVE  Untouched(disk, disk', t)
<1>1. CASE disk' = disk
  BY <1>1, SameUntouched
<1>2. ASSUME NEW p \in FilePaths, Open(p)
      PROVE  disk' = disk
  BY <1>2 DEF Open
<1>3. ASSUME \/ \E n \in 1 .. MaxSize : Read(n)
             \/ \E size \in 2 .. MaxSize + 1 : ReadLine(size)
             \/ \E key \in ConfigKeys, size, buffer \in {3, MaxSize + 1} : ConfigGetStr(key, size, buffer)
             \/ \E offset \in 0 .. MaxSize : Seek(offset)
      PROVE  disk' = disk
  BY <1>3 DEF Read, ReadLine, ConfigGetStr, Seek
<1>4. ASSUME \/ UpdateEntry
             \/ \E bytes \in Payloads :
                  Write(bytes) \/ Rewrite(bytes) \/ CrashInWrite(bytes) \/ CrashInRewrite(bytes)
      PROVE  Untouched(disk, disk', t)
  <2>1. ~torn /\ file.ctx
    BY <1>4 DEF UpdateEntry, Write, Rewrite, CrashInWrite, CrashInRewrite, CanWrite, CrashIn
  <2> QED
    BY <1>4, <2>1, HandleUntouched
<1>5. ASSUME Close
      PROVE  disk' = disk
  BY <1>5 DEF Close
<1>6. ASSUME CrashIdle
      PROVE  disk' = disk
  <2>1. \A k \in DOMAIN Unwritten(disk) : Unwritten(disk)[k] = disk
    BY DEF Unwritten
  <2> QED
    BY <1>6, <2>1 DEF CrashIdle, CrashIn
<1>7. ASSUME UNCHANGED vars
      PROVE  disk' = disk
  BY <1>7 DEF vars
<1>8. ASSUME \/ \E p \in FilePaths : Create(p)
             \/ \E p \in DirPaths : Mkdir(p) \/ Rmdir(p) \/ CrashInMkdir(p)
             \/ \E p \in FilePaths \cup DirPaths : RemovePath(p)
      PROVE  Untouched(disk, disk', t)
  BY <1>8, PathUntouched
<1> QED
  BY <1>1, <1>2, <1>3, <1>4, <1>5, <1>6, <1>7, <1>8 DEF Next, Crash

\* Whatever is done through the handle or to a path, and wherever a crash
\* falls, the other files keep their bytes, and an entry that is not the
\* handle's is changed only by being deleted.
THEOREM OthersAreUntouched == Spec => OthersUntouched
<1>1. TypeOK /\ SoundInv /\ [Next]_vars =>
        \A s \in EntrySlots(disk) : ~Mine(s) => Untouched(disk, disk', s)
  BY StepUntouched
<1>2. TypeOK /\ SoundInv /\ [Next]_vars => SoundInv'
  BY StepInOrder
<1>3. Init => SoundInv
  BY InitInOrder
<1>4. TypeOK /\ SoundInv /\ [Next]_vars =>
        [\A s \in EntrySlots(disk) : ~Mine(s) =>
           /\ EntryAt(disk', s) \in {EntryAt(disk, s), MarkDeleted(EntryAt(disk, s))}
           /\ Content(disk', ChainAt(disk', s), EntryAt(disk, s).file_size) =
                Content(disk, ChainAt(disk, s), EntryAt(disk, s).file_size)]_vars
  BY <1>1 DEF Untouched, Deletes
<1> QED
  BY <1>2, <1>3, <1>4, TypeCorrect, PTL DEF Spec, OthersUntouched

-----------------------------------------------------------------------------
(* What a remove, a rmdir and a create do *)

\* A name is one that memcmp takes for itself.
LEMMA SameName ==
  ASSUME NEW name \in Nat \X Nat
  PROVE  memcmp_is_zero(name, name)
<1>1. name[1] \in Nat /\ name[2] \in Nat
  OBVIOUS
<1> QED
  BY <1>1 DEF memcmp_is_zero

\* What a remove deletes.
RemovesOnly(p) ==
  disk' # disk /\ RemovePath(p) =>
    \A s \in EntrySlots(disk) \cup {<<root_cluster, 1>>} : Changed(s) =>
      \/ EntryAt(disk, s).name = Last(p)
      \/ /\ s[1] = ParentCluster(disk, p)
         /\ memcmp_is_zero(EntryAt(disk, s).name, Last(p))
         /\ \A i \in 1 .. s[2] - 1 : EntryAt(disk, <<s[1], i>>).name # Last(p)

\* It is the first slot that memcmp takes for the name.
LEMMA RemovesFirst ==
  ASSUME TypeOK, NEW p \in FilePaths \cup DirPaths
  PROVE  RemovesOnly(p)
<1> SUFFICES ASSUME disk' # disk, RemovePath(p),
                    NEW t \in EntrySlots(disk) \cup {<<root_cluster, 1>>}, Changed(t)
             PROVE  /\ t[1] = ParentCluster(disk, p)
                    /\ memcmp_is_zero(EntryAt(disk, t).name, Last(p))
                    /\ \A i \in 1 .. t[2] - 1 : EntryAt(disk, <<t[1], i>>).name # Last(p)
  BY DEF RemovesOnly
<1>1. disk \in Disks /\ Last(p) \in Nat \X Nat
  BY PartsOf, NamesUsed
<1>2. PICK e : e = disk' /\ e = Last(fat32_remove(disk, p))
  BY DEF RemovePath, OnPath
<1>3. PICK s : Removed(disk, e, p, s)
  BY <1>1, <1>2, RemoveIs
<1>4. t \in Places
  <2>1. <<root_cluster, 1>> \in Places
    BY DiskAssumption DEF Places, root_cluster, Clusters
  <2> QED
    BY <1>1, <2>1, SlotSets
<1>5. t = s
  BY <1>2, <1>3, <1>4 DEF Removed, Changed
<1>6. /\ s[1] = ParentCluster(disk, p) /\ memcmp_is_zero(EntryAt(disk, s).name, Last(p))
      /\ \A j \in 1 .. s[2] - 1 : ~memcmp_is_zero(EntryAt(disk, <<s[1], j>>).name, Last(p))
  BY <1>3 DEF Removed, ParentCluster
<1> QED
  BY <1>1, <1>5, <1>6, SameName

\* A remove deletes an entry of the name that was asked for, unless an earlier
\* slot of the directory has a name that memcmp takes for it.
THEOREM RemovesFirstOfName == Spec => RemovesTheNamed
<1>1. TypeOK => \A p \in FilePaths \cup DirPaths : RemovesOnly(p)
  BY RemovesFirst
<1>2. TypeOK =>
        [\A p \in FilePaths \cup DirPaths : disk' # disk /\ RemovePath(p) =>
           \A s \in EntrySlots(disk) \cup {<<root_cluster, 1>>} : Changed(s) =>
             \/ EntryAt(disk, s).name = Last(p)
             \/ /\ s[1] = ParentCluster(disk, p)
                /\ memcmp_is_zero(EntryAt(disk, s).name, Last(p))
                /\ \A i \in 1 .. s[2] - 1 : EntryAt(disk, <<s[1], i>>).name # Last(p)]_vars
  BY <1>1 DEF RemovesOnly
<1> QED
  BY <1>2, TypeCorrect, PTL DEF RemovesTheNamed


\* The j-th slot of the directory at c is s.
StandsAt(d, c, s, j) == /\ j \in 1 .. Len(AllSlots(d, c))
                        /\ s = SlotAt(d, c, j)
                        /\ j = Len(AllSlots(d, c)) => s = LastSlot(d, c)

\* A slot of a cluster of a directory is one of its slots.
LEMMA SlotInDir ==
  ASSUME NEW d \in Disks, NEW c \in {0} \cup Clusters, NEW s \in Places, s[1] \in Range(Chain(d, c))
  PROVE  \E j \in Nat : StandsAt(d, c, s, j)
<1>1. PICK q : q = Chain(d, c)
  OBVIOUS
<1>2. Len(q) \in Nat /\ Range(q) = {q[i] : i \in 1 .. Len(q)}
  BY <1>1, ChainHas
<1>3. PICK i \in 1 .. Len(q) : s[1] = q[i]
  BY <1>1, <1>2
<1>4. s = <<s[1], s[2]>> /\ s[2] \in 1 .. SlotCount /\ SlotCount \in Nat \ {0}
  BY EntryIs, DiskAssumption
<1>5. PICK b : b = s[2]
  OBVIOUS
<1>6. PICK z : z = SlotCount
  OBVIOUS
<1>7. z \in Nat \ {0} /\ b \in 1 .. z
  BY <1>4, <1>5, <1>6
<1>8. PICK j : j = (z * (i - 1)) + b
  OBVIOUS
<1>9. i - 1 \in Nat /\ b - 1 \in 0 .. z - 1 /\ j - 1 = (z * (i - 1)) + (b - 1)
  <2>1. PICK y : y = z * (i - 1)
    OBVIOUS
  <2>2. y \in Int /\ i - 1 \in Nat /\ b - 1 \in 0 .. z - 1
    BY <1>2, <1>7, <2>1
  <2> QED
    BY <1>7, <1>8, <2>1, <2>2
<1>10. (j - 1) \div z = i - 1 /\ (j - 1) % z = b - 1
  <2>1. PICK q2, r2 : q2 = i - 1 /\ r2 = b - 1
    OBVIOUS
  <2>2. q2 \in Nat /\ r2 \in 0 .. z - 1 /\ j - 1 = (z * q2) + r2
    BY <1>9, <2>1
  <2>3. ((z * q2) + r2) \div z = q2 /\ ((z * q2) + r2) % z = r2
    BY <1>7, <2>2, DivisionIs
  <2> QED
    BY <2>1, <2>2, <2>3
<1>11. z * i \in Nat /\ j \in 1 .. z * i /\ z * i <= z * Len(q)
  BY <1>2, <1>7, <1>8, <1>9
<1>12. j \in 1 .. Len(AllSlots(d, c)) /\ Len(AllSlots(d, c)) = z * Len(q)
  <2>1. Len(AllSlots(d, c)) = z * Len(q) /\ Len(AllSlots(d, c)) \in Nat
    BY <1>1, <1>6, SlotAtIs
  <2> QED
    BY <1>11, <2>1
<1>13. SlotAt(d, c, j) = <<q[((j - 1) \div z) + 1], ((j - 1) % z) + 1>>
  BY <1>1, <1>6 DEF SlotAt
<1>14. s = SlotAt(d, c, j)
  <2>1. ((j - 1) \div z) + 1 = i /\ ((j - 1) % z) + 1 = b
    BY <1>2, <1>7, <1>10
  <2> QED
    BY <1>3, <1>4, <1>5, <1>13, <2>1
<1>15. ASSUME j = z * Len(q)
       PROVE  s = LastSlot(d, c)
  <2>1. i = Len(q) /\ b = z
    <3>1. z * i = (z * (i - 1)) + z
      BY <1>2, <1>7
    <3>2. CASE i < Len(q)
      <4>1. PICK x : x = z * i
        OBVIOUS
      <4>2. z * (i + 1) = x + z /\ z * (i + 1) <= z * Len(q)
        BY <1>2, <1>7, <3>2, <4>1
      <4>3. x \in Nat /\ j <= x
        BY <1>11, <4>1
      <4>4. FALSE
        BY <1>7, <1>15, <4>2, <4>3
      <4> QED
        BY <4>4
    <3>3. CASE i = Len(q)
      <4>1. PICK x : x = z * (i - 1)
        OBVIOUS
      <4>2. x \in Int /\ x + b = x + z
        BY <1>2, <1>7, <1>8, <1>15, <3>1, <3>3, <4>1
      <4> QED
        BY <1>7, <3>3, <4>2
    <3> QED
      BY <1>2, <3>2, <3>3
  <2> QED
    BY <1>1, <1>3, <1>4, <1>5, <1>6, <2>1 DEF LastSlot, Last
<1>16. j \in Nat /\ StandsAt(d, c, s, j)
  BY <1>11, <1>12, <1>14, <1>15 DEF StandsAt
<1> QED
  BY <1>16

\* When a listing shows only the dots, no slot but the last is another's.
LEMMA OnlyDots ==
  ASSUME NEW d \in Disks, WellFormed(d), NEW c \in DirStarts(d),
         \A k \in Listing(d, c) : Slots(d, c)[k].name[1] = DOT,
         NEW s \in EntrySlots(d), s[1] \in Range(Chain(d, c))
  PROVE  s = LastSlot(d, c)
<1>1. c \in {0} \cup Clusters
  BY SlotSets
<1>2. s \in Places /\ Used(EntryAt(d, s)) /\ EntryAt(d, s).name[1] # DOT
  BY SlotSets
<1>0. PICK j \in Nat : StandsAt(d, c, s, j)
  BY <1>1, <1>2, SlotInDir
<1>3. /\ j \in 1 .. Len(AllSlots(d, c))
      /\ s = SlotAt(d, c, j)
      /\ j = Len(AllSlots(d, c)) => s = LastSlot(d, c)
  BY <1>0 DEF StandsAt
<1>4. PICK m : m = Len(Slots(d, c))
  OBVIOUS
<1>5. PICK n : n = Len(AllSlots(d, c))
  OBVIOUS
<1>6. n \in Nat /\ DOMAIN AllSlots(d, c) = 1 .. n /\ j \in 1 .. n
  BY <1>1, <1>3, <1>5, SlotAtIs
<1>7. AllSlots(d, c)[j] = EntryAt(d, s)
  BY <1>1, <1>3, SlotAtIs
<1>8. Looked(d, c, m)
  BY <1>1, <1>4, SlotsAre
<1>9. CASE j = n
  BY <1>3, <1>5, <1>9
<1>10. CASE j # n
  <2>1. m \in Nat /\ (m + 1 <= n - 1 => AllSlots(d, c)[m + 1].name[1] = END)
    BY <1>5, <1>8 DEF Looked
  <2>2. CASE m < j
    <3>1. m + 1 <= n - 1 /\ m + 1 \in 1 .. n
      BY <1>6, <1>10, <2>1, <2>2
    <3>2. AllSlots(d, c)[m + 1].name[1] = END
      BY <2>1, <3>1
    <3>3. CASE m + 1 = j
      BY <1>2, <1>7, <3>2, <3>3 DEF Used
    <3>4. CASE m + 1 # j
      <4>1. m + 1 \in 1 .. j - 1 /\ j \in DOMAIN AllSlots(d, c)
        BY <1>6, <2>1, <2>2, <3>4
      <4>2. ~Used(AllSlots(d, c)[j])
        BY <3>2, <4>1, WellFormedIs DEF DirEnds
      <4> QED
        BY <1>2, <1>7, <4>2
    <3> QED
      BY <3>3, <3>4
  <2>3. CASE ~(m < j)
    <3>1. j \in 1 .. m
      BY <1>6, <2>1, <2>3
    <3>2. Slots(d, c)[j] = EntryAt(d, s)
      BY <1>1, <1>3, <1>4, <3>1, SlotsAre
    <3>3. DOMAIN Slots(d, c) = 1 .. m
      <4>1. Slots(d, c) \in Seq(Entries)
        BY <1>1, ListedTypes
      <4> QED
        BY <1>4, <4>1, LenProperties
    <3>4. j \in Listing(d, c)
      BY <1>2, <3>1, <3>2, <3>3 DEF Listing
    <3> QED
      BY <1>2, <3>2, <3>4
  <2> QED
    BY <2>2, <2>3
<1> QED
  BY <1>9, <1>10

\* What fat32_rmdir leaves of a directory.
LeavesNone(p) ==
  disk' # disk /\ Rmdir(p) =>
    LET c == fat32_open_file(disk, p).start_cluster
    IN  \A s \in EntrySlots(disk) : s[1] \in Range(Chain(disk, c)) => s = LastSlot(disk, c)

\* So a directory that is removed has none.
LEMMA RmdirLeavesNone ==
  ASSUME TypeOK, SoundInv, NEW p \in DirPaths
  PROVE  LeavesNone(p)
<1> DEFINE h == fat32_open_file(disk, p)
<1> SUFFICES ASSUME disk' # disk, Rmdir(p)
             PROVE  \A s \in EntrySlots(disk) :
                      s[1] \in Range(Chain(disk, h.start_cluster)) => s = LastSlot(disk, h.start_cluster)
  BY DEF LeavesNone
<1>1. disk \in Disks /\ p \in Seq(Nat \X Nat)
  BY PartsOf, PathTypes
<1>2. WellFormed(disk)
  BY DEF Rmdir, OnPath, SoundInv, InOrder
<1>3. h.is_dir /\ EmptyDirectory(disk, h)
  <2>1. Last(Unwritten(disk)) = disk
    BY <1>1, OneImage
  <2> QED
    BY <2>1 DEF Rmdir, OnPath, fat32_rmdir
<1>4. h.start_cluster \in DirStarts(disk)
  BY <1>1, <1>3, OpenedWhat
<1> HIDE DEF h
<1>5. PICK c \in DirStarts(disk) : c = h.start_cluster
  BY <1>4
<1>6. \A k \in Listing(disk, c) : Slots(disk, c)[k].name[1] = DOT
  BY <1>3, <1>5 DEF EmptyDirectory
<1>7. \A s \in EntrySlots(disk) : s[1] \in Range(Chain(disk, c)) => s = LastSlot(disk, c)
  BY <1>1, <1>2, <1>6, OnlyDots
<1> QED
  BY <1>5, <1>7

\* A directory that fat32_rmdir removes has no file that a listing of it
\* would show.
THEOREM RmdirsAreEmpty == Spec => RmdirOnlyEmpty
<1>1. TypeOK /\ SoundInv /\ [Next]_vars => \A p \in DirPaths : LeavesNone(p)
  BY RmdirLeavesNone
<1>2. TypeOK /\ SoundInv /\ [Next]_vars => SoundInv'
  BY StepInOrder
<1>3. Init => SoundInv
  BY InitInOrder
<1>4. TypeOK /\ SoundInv /\ [Next]_vars =>
        [\A p \in DirPaths : disk' # disk /\ Rmdir(p) =>
           LET c == fat32_open_file(disk, p).start_cluster
           IN  \A s \in EntrySlots(disk) : s[1] \in Range(Chain(disk, c)) => s = LastSlot(disk, c)]_vars
  BY <1>1 DEF LeavesNone
<1> QED
  BY <1>2, <1>3, <1>4, TypeCorrect, PTL DEF Spec, RmdirOnlyEmpty


\* An entry put into the first free slot of a cluster hides no entry of a
\* listing and uncovers none: a slot but the one it was put into matches a
\* name as before.
LEMMA PutMatches ==
  ASSUME NEW d \in Disks, NEW e, NEW c, NEW m, NEW n \in Entries, Used(n), PutInto(d, e, c, m, n),
         WellFormed(d), NEW b \in DirStarts(d), NEW name, NEW k
  PROVE  /\ SlotAt(e, b, k) = SlotAt(d, b, k)
         /\ Matches(d, b, name, k) => Matches(e, b, name, k)
         /\ Matches(e, b, name, k) /\ SlotAt(d, b, k) # <<c, m>> => Matches(d, b, name, k)
<1>1. b \in {0} \cup Clusters /\ e \in Disks /\ e.fat = d.fat
  BY SlotSets DEF PutInto
<1>2. Chain(e, b) = Chain(d, b)
  BY <1>1, SameChains, WellFormedIs DEF DirChains
<1>3. \A i : SlotAt(e, b, i) = SlotAt(d, b, i)
  BY <1>2 DEF SlotAt
<1>4. PICK a, z : a = AllSlots(d, b) /\ z = AllSlots(e, b)
  OBVIOUS
<1>5. /\ Len(a) \in Nat /\ Len(z) = Len(a) /\ DOMAIN a = 1 .. Len(a)
      /\ \A i \in 1 .. Len(a) : /\ a[i] = EntryAt(d, SlotAt(d, b, i)) /\ SlotAt(d, b, i) \in Places
                                /\ z[i] = EntryAt(e, SlotAt(d, b, i))
  BY <1>1, <1>2, <1>3, <1>4, SlotAtIs
<1>6. EntryAt(e, <<c, m>>) = n /\ \A t \in Places : t # <<c, m>> => EntryAt(e, t) = EntryAt(d, t)
  BY DEF PutInto
<1>7. PICK l, w : l = Len(Slots(d, b)) /\ w = Len(Slots(e, b))
  OBVIOUS
<1>8. /\ l \in Nat /\ \A i \in 1 .. l : i <= Len(a) - 1 /\ a[i].name[1] # END
      /\ l + 1 <= Len(a) - 1 => a[l + 1].name[1] = END
      /\ w \in Nat /\ \A i \in 1 .. w : i <= Len(a) - 1 /\ z[i].name[1] # END
      /\ w + 1 <= Len(a) - 1 => z[w + 1].name[1] = END
  <2>1. Looked(d, b, l) /\ Looked(e, b, w)
    BY <1>1, <1>7, SlotsAre
  <2> QED
    BY <1>4, <1>5, <2>1 DEF Looked
<1>9. \A i \in 1 .. l : z[i].name[1] # END
  <2> SUFFICES ASSUME NEW i \in 1 .. l PROVE z[i].name[1] # END
    OBVIOUS
  <2>1. i \in 1 .. Len(a) /\ a[i].name[1] # END
    BY <1>5, <1>8
  <2> QED
    BY <1>5, <1>6, <2>1 DEF Used
<1>10. l <= w
  <2>1. SUFFICES ASSUME w < l PROVE FALSE
    BY <1>8
  <2>2. w + 1 \in 1 .. l
    BY <1>8, <2>1
  <2> QED
    BY <1>8, <1>9, <2>2
<1>11. ASSUME Matches(d, b, name, k)
       PROVE  Matches(e, b, name, k)
  <2>1. /\ k \in 1 .. l /\ Used(EntryAt(d, SlotAt(d, b, k)))
        /\ EntryAt(d, SlotAt(d, b, k)).attributes # ATTR_VOLUME_ID
        /\ EntryAt(d, SlotAt(d, b, k)).name = name
    BY <1>7, <1>11 DEF Matches
  <2>2. k \in 1 .. w /\ k \in 1 .. Len(a)
    BY <1>5, <1>8, <1>10, <2>1
  <2>3. SlotAt(d, b, k) # <<c, m>>
    BY <2>1 DEF PutInto
  <2>4. EntryAt(e, SlotAt(e, b, k)) = EntryAt(d, SlotAt(d, b, k))
    BY <1>3, <1>5, <1>6, <2>2, <2>3
  <2> QED
    BY <1>7, <2>1, <2>2, <2>4 DEF Matches
<1>12. ASSUME Matches(e, b, name, k), SlotAt(d, b, k) # <<c, m>>
       PROVE  Matches(d, b, name, k)
  <2>1. /\ k \in 1 .. w /\ Used(EntryAt(e, SlotAt(e, b, k)))
        /\ EntryAt(e, SlotAt(e, b, k)).attributes # ATTR_VOLUME_ID
        /\ EntryAt(e, SlotAt(e, b, k)).name = name
    BY <1>7, <1>12 DEF Matches
  <2>2. k \in 1 .. Len(a) /\ k <= Len(a) - 1
    BY <1>5, <1>8, <2>1
  <2>3. EntryAt(e, SlotAt(e, b, k)) = EntryAt(d, SlotAt(d, b, k))
    BY <1>3, <1>5, <1>6, <1>12, <2>2
  <2>4. Used(a[k])
    BY <1>5, <2>1, <2>2, <2>3
  <2>5. k <= l
    <3>1. SUFFICES ASSUME l < k PROVE FALSE
      BY <1>8, <2>1
    <3>2. l + 1 <= Len(a) - 1 /\ l + 1 \in 1 .. k
      BY <1>5, <1>8, <2>2, <3>1
    <3>3. a[l + 1].name[1] = END
      BY <1>8, <3>2
    <3>4. CASE l + 1 = k
      BY <2>4, <3>3, <3>4 DEF Used
    <3>5. CASE l + 1 # k
      <4>1. l + 1 \in 1 .. k - 1 /\ k \in DOMAIN a
        BY <1>5, <1>8, <2>2, <3>1, <3>5
      <4>2. ~Used(a[k])
        BY <1>4, <3>3, <4>1, WellFormedIs DEF DirEnds
      <4> QED
        BY <2>4, <4>2
    <3> QED
      BY <3>4, <3>5
  <2> QED
    BY <1>7, <1>8, <2>1, <2>3, <2>5 DEF Matches
<1> QED
  BY <1>3, <1>11, <1>12

\* A walk after an entry was put: it goes as before, or it ends in a file.
WalksOn(g, h) == g = h \/ (g.ctx /\ ~g.is_dir)

\* One step of a walk after the entry of a file was put.
LEMMA PutGoesOn ==
  ASSUME NEW d \in Disks, NEW e, NEW c, NEW m, NEW n \in Entries, Used(n), PutInto(d, e, c, m, n),
         n.attributes = ATTR_ARCHIVE, WellFormed(d), NEW b \in DirStarts(d), NEW name
  PROVE  WalksOn(Walk(DirHandle(b), e, name), Walk(DirHandle(b), d, name))
<1>0. PICK h : h = DirHandle(b)
  OBVIOUS
<1> SUFFICES WalksOn(Walk(h, e, name), Walk(h, d, name))
  BY <1>0
<1>1. b \in {0} \cup Clusters /\ e \in Disks /\ h.ctx /\ h.is_dir /\ h.start_cluster = b
  BY <1>0, SlotSets, KindsOf DEF PutInto
<1>2. PICK x, y : x = fat32_find_file(d, b, name) /\ y = fat32_find_file(e, b, name)
  OBVIOUS
<1>3. Walk(h, d, name) = Enter(h, x) /\ Walk(h, e, name) = Enter(h, y)
  BY <1>1, <1>2 DEF Walk
<1>4. CASE \A k : ~Matches(e, b, name, k)
  <2>1. \A k : ~Matches(d, b, name, k)
    BY <1>4, PutMatches
  <2>2. x = ZeroEntry /\ y = ZeroEntry
    BY <1>1, <1>2, <1>4, <2>1, FoundIs DEF FoundAt
  <2> QED
    BY <1>3, <2>2 DEF WalksOn
<1>5. ASSUME NEW j, FoundAt(e, b, name, j), y = EntryAt(e, SlotAt(e, b, j))
      PROVE  WalksOn(Walk(h, e, name), Walk(h, d, name))
  <2>1. Matches(e, b, name, j) /\ SlotAt(e, b, j) = SlotAt(d, b, j)
    BY <1>5, PutMatches DEF FoundAt
  <2>2. CASE SlotAt(d, b, j) = <<c, m>>
    <3>1. y = n
      BY <1>5, <2>1, <2>2 DEF PutInto
    <3>2. Walk(h, e, name) = Handle(TRUE, n.first_cluster, n.file_size, FALSE)
      BY <1>3, <3>1 DEF Enter, IsDir, ATTR_ARCHIVE, ATTR_DIRECTORY
    <3> QED
      BY <3>2 DEF WalksOn, Handle
  <2>3. CASE SlotAt(d, b, j) # <<c, m>>
    <3>1. Matches(d, b, name, j)
      BY <2>1, <2>3, PutMatches
    <3>2. \A k : Matches(d, b, name, k) => Matches(e, b, name, k)
      BY PutMatches
    <3>3. \A k : Matches(d, b, name, k) => j <= k
      BY <1>5, <3>2 DEF FoundAt, Matches
    <3>4. FoundAt(d, b, name, j)
      BY <3>1, <3>3 DEF FoundAt
    <3>5. PICK i : FoundAt(d, b, name, i) /\ x = EntryAt(d, SlotAt(d, b, i))
      BY <1>1, <1>2, <3>1, FoundIs
    <3>6. i = j
      BY <1>1, <3>4, <3>5, FoundOnce
    <3>7. j \in 1 .. Len(Slots(d, b))
      BY <3>1 DEF Matches
    <3>8. SlotAt(d, b, j) \in Places
      BY <1>1, <3>7, SlotsAre
    <3>9. y = x
      BY <1>5, <2>1, <2>3, <3>5, <3>6, <3>8 DEF PutInto
    <3> QED
      BY <1>3, <3>9 DEF WalksOn
  <2> QED
    BY <2>2, <2>3
<1>6. (\A k : ~Matches(e, b, name, k)) \/ \E j : FoundAt(e, b, name, j) /\ y = EntryAt(e, SlotAt(e, b, j))
  BY <1>1, <1>2, FoundIs
<1> QED
  BY <1>4, <1>5, <1>6

\* Every walk after the entry of a file was put.
LEMMA PutWalk ==
  ASSUME NEW d \in Disks, NEW e, NEW c, NEW m, NEW n \in Entries, Used(n), PutInto(d, e, c, m, n),
         n.attributes = ATTR_ARCHIVE, WellFormed(d), NEW p \in Seq(Nat \X Nat)
  PROVE  \A k \in 0 .. Len(p) :
           WalksOn(fat32_open_file(e, UpToPart(p, k)), fat32_open_file(d, UpToPart(p, k)))
<1> DEFINE T == {k \in Nat : WalksOn(fat32_open_file(e, UpToPart(p, k)), fat32_open_file(d, UpToPart(p, k)))}
<1>1. Len(p) \in Nat /\ e \in Disks
  BY LenProperties DEF PutInto
<1>2. 0 \in T
  BY <1>1, WalkIs DEF WalksOn
<1>3. ASSUME NEW k \in 0 .. Len(p) - 1, k \in T
      PROVE  k + 1 \in T
  <2> DEFINE h == fat32_open_file(d, UpToPart(p, k))
             g == fat32_open_file(e, UpToPart(p, k))
             h2 == fat32_open_file(d, UpToPart(p, k + 1))
             g2 == fat32_open_file(e, UpToPart(p, k + 1))
  <2>1. k \in Nat /\ k + 1 \in 1 .. Len(p) /\ (k + 1) - 1 = k /\ k \in 0 .. Len(p)
    BY <1>1
  <2>2. h2 = Walk(h, d, p[k + 1]) /\ g2 = Walk(g, e, p[k + 1])
    BY <1>1, <2>1, WalkIs
  <2>3. WalksOn(g, h) /\ OnWay(d, p, k, h)
    BY <1>3, <2>1, WalkOnWay
  <2> HIDE DEF h, g
  <2>4. CASE ~(g.ctx /\ g.is_dir)
    <3>1. g2 = g
      BY <2>2, <2>4 DEF Walk
    <3>2. CASE g = h
      <4>1. h2 = h
        BY <2>2, <2>4, <3>2 DEF Walk
      <4> QED
        BY <2>1, <3>1, <3>2, <4>1 DEF WalksOn
    <3>3. CASE g.ctx /\ ~g.is_dir
      BY <2>1, <3>1, <3>3 DEF WalksOn
    <3> QED
      BY <2>3, <3>2, <3>3 DEF WalksOn
  <2>5. CASE g.ctx /\ g.is_dir
    <3>1. g = h
      BY <2>3, <2>5 DEF WalksOn
    <3>2. PICK b \in DirStarts(d) : h = DirHandle(b)
      BY <2>3, <2>5, <3>1, KindsOf DEF OnWay
    <3> HIDE DEF h2, g2
    <3>3. WalksOn(Walk(DirHandle(b), e, p[k + 1]), Walk(DirHandle(b), d, p[k + 1]))
      BY PutGoesOn
    <3> QED
      BY <2>1, <2>2, <3>1, <3>2, <3>3 DEF g2, h2
  <2> QED
    BY <2>4, <2>5
<1> HIDE DEF T
<1>4. \A k \in 0 .. Len(p) : k \in T
  BY <1>1, <1>2, <1>3, ByCounting
<1> QED
  BY <1>4 DEF T

\* A path to a directory that has the new entry in a slot before the last
\* leads to a file.
LEMMA PutFound ==
  ASSUME NEW d \in Disks, NEW e, NEW c \in DirStarts(d), NEW m, NEW n \in Entries, Used(n),
         PutInto(d, e, c, m, n), n.attributes = ATTR_ARCHIVE, WellFormed(d),
         <<c, m>> # LastSlot(d, c), NEW h, h.ctx, h.is_dir, h.start_cluster = c
  PROVE  Walk(h, e, n.name).ctx
<1>1. c \in Clusters /\ e \in Disks /\ m \in 1 .. SlotCount /\ e.fat = d.fat
  BY DEF PutInto
<1>2. Len(Chain(d, c)) <= TotalClusters /\ Chain(e, c) = Chain(d, c)
  BY <1>1, SameChains, WellFormedIs DEF DirChains, ProperChain
<1>3. /\ SlotCount \in Nat /\ \A k \in 1 .. SlotCount : SlotAt(e, c, k) = <<c, k>>
      /\ \A k \in 1 .. SlotCount : SlotAt(d, c, k) = <<c, k>>
      /\ \A k \in 1 .. Len(AllSlots(d, c)) : SlotAt(d, c, k)[1] = c => k \in 1 .. SlotCount
  BY <1>1, <1>2, FirstSlots
<1>4. m \in 1 .. Len(AllSlots(d, c)) /\ m # Len(AllSlots(d, c))
  <2>1. c \in Range(Chain(d, c))
    <3>9. c \in {0} \cup Clusters
      BY <1>1
    <3>0. c # 0
      BY <1>1 DEF Clusters
    <3>1. PICK q : q = Chain(d, c)
      OBVIOUS
    <3>2. Len(q) \in Nat /\ Range(q) = {q[i] : i \in 1 .. Len(q)} /\ Len(q) >= 1 /\ q[1] = c
      BY <3>9, <3>1, <3>0, ChainHas
    <3>3. 1 \in 1 .. Len(q)
      BY <3>2
    <3> QED
      BY <3>1, <3>2, <3>3
  <2>2. PICK s : s = <<c, m>>
    OBVIOUS
  <2>3. s \in Places /\ s[1] = c
    BY <1>1, <2>2 DEF Places
  <2>4. PICK j \in Nat : StandsAt(d, c, s, j)
    BY <1>1, <2>1, <2>3, SlotInDir
  <2>5. /\ j \in 1 .. Len(AllSlots(d, c)) /\ s = SlotAt(d, c, j)
        /\ j = Len(AllSlots(d, c)) => s = LastSlot(d, c)
    BY <2>4 DEF StandsAt
  <2>6. j \in 1 .. SlotCount
    BY <1>3, <2>3, <2>5
  <2>7. s = <<c, j>>
    BY <1>3, <2>5, <2>6
  <2>8. j = m
    BY <2>2, <2>7
  <2> QED
    BY <2>2, <2>5, <2>8
<1>5. Len(AllSlots(e, c)) = Len(AllSlots(d, c)) /\ Len(AllSlots(d, c)) \in Nat
  <2>1. PICK y : y = SlotCount * Len(Chain(d, c))
    OBVIOUS
  <2>2. c \in {0} \cup Clusters
    BY <1>1
  <2>3. Len(AllSlots(d, c)) = y /\ Len(AllSlots(d, c)) \in Nat
    BY <2>1, <2>2, SlotAtIs
  <2>4. Len(AllSlots(e, c)) = y
    BY <1>1, <1>2, <2>1, <2>2, SlotAtIs
  <2> QED
    BY <2>3, <2>4
<1>6. PICK l : l = Len(Slots(e, c))
  OBVIOUS
<1>7. m <= l
  <2>1. l \in Nat /\ (l + 1 <= Len(AllSlots(e, c)) - 1 => AllSlots(e, c)[l + 1].name[1] = END)
    BY <1>1, <1>6, SlotsAre DEF Looked
  <2>2. SUFFICES ASSUME l < m PROVE FALSE
    BY <1>3, <1>4, <1>5, <2>1
  <2>3. l + 1 \in 1 .. m /\ l + 1 <= Len(AllSlots(e, c)) - 1 /\ l + 1 \in 1 .. Len(AllSlots(e, c))
    BY <1>4, <1>5, <2>1, <2>2
  <2>4. l + 1 \in 1 .. SlotCount
    BY <1>1, <1>3, <2>3
  <2>5. AllSlots(e, c)[l + 1] = EntryAt(e, <<c, l + 1>>) /\ <<c, l + 1>> \in Places
    BY <1>1, <1>3, <2>3, <2>4, SlotAtIs
  <2>6. Used(EntryAt(e, <<c, l + 1>>))
    <3>1. CASE l + 1 = m
      BY <3>1 DEF PutInto
    <3>2. CASE l + 1 # m
      <4>1. l + 1 \in 1 .. m - 1
        BY <1>4, <2>1, <2>3, <3>2
      <4>2. <<c, l + 1>> # <<c, m>>
        BY <3>2
      <4>3. EntryAt(e, <<c, l + 1>>) = EntryAt(d, <<c, l + 1>>)
        BY <2>5, <4>2 DEF PutInto
      <4> QED
        BY <4>1, <4>3 DEF PutInto
    <3> QED
      BY <3>1, <3>2
  <2> QED
    BY <2>1, <2>3, <2>5, <2>6 DEF Used
<1>8. Matches(e, c, n.name, m)
  <2>1. SlotAt(e, c, m) = <<c, m>> /\ EntryAt(e, <<c, m>>) = n
    BY <1>1, <1>3 DEF PutInto
  <2>2. m \in 1 .. l
    <3>1. l \in Nat
      BY <1>1, <1>6, SlotsAre DEF Looked
    <3> QED
      BY <1>4, <1>7, <3>1
  <2> QED
    BY <1>6, <2>1, <2>2 DEF Matches, ATTR_ARCHIVE, ATTR_VOLUME_ID
<1>9. PICK i : FoundAt(e, c, n.name, i) /\ fat32_find_file(e, c, n.name) = EntryAt(e, SlotAt(e, c, i))
  <2>1. PICK x : x = n.name
    OBVIOUS
  <2>2. e \in Disks /\ c \in {0} \cup Clusters /\ Matches(e, c, x, m)
    BY <1>1, <1>8, <2>1
  <2>3. \E i : FoundAt(e, c, x, i) /\ fat32_find_file(e, c, x) = EntryAt(e, SlotAt(e, c, i))
    <3>1. \/ fat32_find_file(e, c, x) = ZeroEntry /\ \A k : ~Matches(e, c, x, k)
          \/ \E i \in 1 .. Len(Slots(e, c)) :
               /\ FoundAt(e, c, x, i) /\ SlotAt(e, c, i) \in Places
               /\ fat32_find_file(e, c, x) = EntryAt(e, SlotAt(e, c, i))
      BY <2>2, FoundIs
    <3> QED
      BY <2>2, <3>1, Zenon
  <2> QED
    BY <2>1, <2>3
<1>10. Used(EntryAt(e, SlotAt(e, c, i)))
  BY <1>9 DEF FoundAt, Matches
<1>11. PICK x : x = fat32_find_file(e, c, n.name)
  OBVIOUS
<1>12. Used(x) /\ Walk(h, e, n.name) = Enter(h, x)
  BY <1>9, <1>10, <1>11 DEF Walk
<1> QED
  BY <1>12 DEF Enter, Handle

\* What fat32_create leaves to be found.
CreatesFound(p) ==
  disk' # disk /\ Create(p) => \/ fat32_open_file(disk', p).ctx
                               \/ Changed(LastSlot(disk, ParentCluster(disk, p)))

\* A file that is created is found by its path.
LEMMA CreateFound ==
  ASSUME TypeOK, SoundInv, NEW p \in FilePaths
  PROVE  CreatesFound(p)
<1> SUFFICES ASSUME disk' # disk, Create(p)
             PROVE  \/ fat32_open_file(disk', p).ctx
                    \/ Changed(LastSlot(disk, ParentCluster(disk, p)))
  BY DEF CreatesFound
<1>1. /\ disk \in Disks /\ p \in Seq(Nat \X Nat) /\ Front(p) \in Seq(Nat \X Nat)
      /\ Last(p) \in Nat \X Nat /\ Last(p)[1] \notin {END, DELETED} /\ Len(p) \in 1 .. Len(p)
  BY PartsOf, PathTypes, NamesUsed
<1>2. WellFormed(disk)
  BY DEF Create, OnPath, SoundInv, InOrder
<1> DEFINE h == fat32_open_file(disk, Front(p))
           n == Entry(Last(p), ATTR_ARCHIVE, 0, 0)
           v == fat32_create(disk, p)
<1>3. PICK e : e = disk' /\ e = Last(v)
  BY DEF Create, OnPath
<1>4. Unwritten(disk) \in Images /\ Last(Unwritten(disk)) = disk
  BY <1>1, OneImage
<1>5. h.ctx /\ h.is_dir
  BY <1>3, <1>4 DEF fat32_create, MakeEntry
<1>6. n \in Entries /\ n.name = Last(p) /\ n.attributes = ATTR_ARCHIVE /\ Used(n)
  <2>1. n \in Entries
    BY <1>1, EntryTypes, Fat32Assumption
  <2> QED
    BY <1>1, <2>1 DEF Entry, Used
<1>7. v = create_direntry(Unwritten(disk), h.current_cluster, n)
  BY <1>5 DEF fat32_create, MakeEntry
<1>8. h.start_cluster \in DirStarts(disk) /\ h = DirHandle(h.start_cluster)
  BY <1>1, <1>5, OpenedWhat
<1> HIDE DEF h, n, v
<1>9. PICK c \in DirStarts(disk) : c = h.start_cluster /\ c = h.current_cluster
  BY <1>8, KindsOf
<1>10. \/ v = Unwritten(disk)
       \/ \E a : v = WriteSector(Unwritten(disk), a) /\ (a = disk \/ \E m : PutInto(disk, a, c, m, n))
  BY <1>1, <1>4, <1>6, <1>7, <1>9, DirentryPut
<1>11. PICK m : PutInto(disk, e, c, m, n)
  <2>1. PICK a : v = WriteSector(Unwritten(disk), a) /\ (a = disk \/ \E m : PutInto(disk, a, c, m, n))
    BY <1>3, <1>4, <1>10
  <2>2. a \in Disks
    BY <1>1, <2>1 DEF PutInto
  <2>3. e = a
    BY <1>3, <1>4, <2>1, <2>2, ImagesGrow
  <2> QED
    BY <1>3, <2>1, <2>3
<1>12. e \in Disks
  BY <1>11 DEF PutInto
<1>13. PICK g : g = fat32_open_file(e, Front(p))
  OBVIOUS
<1>14. fat32_open_file(e, p) = Walk(g, e, Last(p)) /\ WalksOn(g, h)
  <2>1. Len(p) \in Nat /\ Len(p) \in 1 .. Len(p) /\ Len(p) - 1 \in 0 .. Len(p) /\ Len(p) \in 0 .. Len(p)
    BY <1>1, LenProperties
  <2>2. p = UpToPart(p, Len(p)) /\ Front(p) = UpToPart(p, Len(p) - 1)
    BY <1>1, <2>1, PartIs
  <2>3. fat32_open_file(e, UpToPart(p, Len(p))) = Walk(fat32_open_file(e, UpToPart(p, Len(p) - 1)), e, p[Len(p)])
    BY <1>1, <1>12, <2>1, WalkIs
  <2>4. WalksOn(fat32_open_file(e, UpToPart(p, Len(p) - 1)), fat32_open_file(disk, UpToPart(p, Len(p) - 1)))
    BY <1>1, <1>2, <1>6, <1>11, <2>1, PutWalk
  <2>5. Last(p) = p[Len(p)]
    BY DEF Last
  <2> QED
    BY <1>13, <2>2, <2>3, <2>4, <2>5 DEF h
<1>15. CASE g.ctx /\ ~g.is_dir
  BY <1>3, <1>14, <1>15 DEF Walk
<1>16. CASE g = h
  <2>1. CASE <<c, m>> # LastSlot(disk, c)
    <3>1. Walk(g, e, n.name).ctx
      BY <1>1, <1>2, <1>5, <1>6, <1>9, <1>11, <1>16, <2>1, PutFound
    <3> QED
      BY <1>3, <1>6, <1>14, <3>1
  <2>2. CASE <<c, m>> = LastSlot(disk, c)
    <3>1. ~Used(EntryAt(disk, <<c, m>>)) /\ EntryAt(e, <<c, m>>) = n
      BY <1>11 DEF PutInto
    <3>2. Changed(<<c, m>>)
      BY <1>3, <1>6, <3>1 DEF Changed
    <3> QED
      BY <1>9, <2>2, <3>2 DEF ParentCluster, h
  <2> QED
    BY <2>1, <2>2
<1> QED
  BY <1>14, <1>15, <1>16 DEF WalksOn

\* A file that fat32_create put into a directory is found under its path from
\* then on, unless its entry went into the last slot of the directory.
THEOREM CreatedAreFound == Spec => CreatedIsFound
<1>1. TypeOK /\ SoundInv /\ [Next]_vars => \A p \in FilePaths : CreatesFound(p)
  BY CreateFound
<1>2. TypeOK /\ SoundInv /\ [Next]_vars => SoundInv'
  BY StepInOrder
<1>3. Init => SoundInv
  BY InitInOrder
<1>4. TypeOK /\ SoundInv /\ [Next]_vars =>
        [\A p \in FilePaths : disk' # disk /\ Create(p) =>
           \/ fat32_open_file(disk', p).ctx
           \/ Changed(LastSlot(disk, ParentCluster(disk, p)))]_vars
  BY <1>1 DEF CreatesFound
<1> QED
  BY <1>2, <1>3, <1>4, TypeCorrect, PTL DEF Spec, CreatedIsFound

=============================================================================
