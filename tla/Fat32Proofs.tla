----------------------------- MODULE Fat32Proofs -----------------------------
(***************************************************************************)
(* Proofs about Fat32, for every number of clusters, copies of the FAT and *)
(* slots, every disk that is mounted and every file: types, copies of the  *)
(* FAT, and the functions that read.  Fat32SoundProofs goes on from here.  *)
(***************************************************************************)
EXTENDS Fat32, SequenceTheorems, FiniteSetTheorems, WellFoundedInduction, TLAPS

-----------------------------------------------------------------------------
(* Numbers *)

\* A set of numbers that is not empty has a least element.
LEMMA LeastOf ==
  ASSUME NEW T \in SUBSET Nat, T # {}
  PROVE  \E x \in T : \A y \in T : x <= y
<1> DEFINE R == {ss \in Nat \X Nat : ss[1] < ss[2]}
<1>1. IsWellFoundedOn(R, Nat)
  BY NatLessThanWellFounded DEF OpToRel
<1>2. \A x, y \in Nat : x < y => <<x, y>> \in R
  OBVIOUS
<1> HIDE DEF R
<1>3. PICK x \in T : \A y \in T : ~(<<y, x>> \in R)
  BY <1>1, WFMin
<1>4. \A y \in T : ~(y < x) /\ y \in Nat /\ x \in Nat
  BY <1>2, <1>3
<1> QED
  BY <1>4

\* The least number of a set, and the greatest one.
LEMMA MinIs ==
  ASSUME NEW T \in SUBSET Nat, T # {}
  PROVE  Min(T) \in T /\ \A x \in T : Min(T) <= x
<1>1. PICK m \in T : \A x \in T : m <= x
  BY LeastOf
<1> QED
  BY <1>1 DEF Min

\* The largest element of a set of numbers.
LEMMA MaxIs ==
  ASSUME NEW T \in SUBSET Nat, NEW m \in T, \A x \in T : x <= m
  PROVE  Max(T) = m
<1>1. \A x \in T : m >= x
  OBVIOUS
<1>2. \A x \in T : (\A y \in T : x >= y) => x = m
  OBVIOUS
<1> QED
  BY <1>1, <1>2 DEF Max

\* What holds of 0, and of k + 1 when it holds of k, holds of every number.
LEMMA ByCounting ==
  ASSUME NEW n \in Nat, NEW T, 0 \in T, \A k \in 0 .. n - 1 : k \in T => k + 1 \in T
  PROVE  \A k \in 0 .. n : k \in T
<1> DEFINE B == {k \in 0 .. n : k \notin T}
<1>1. SUFFICES ASSUME B # {} PROVE FALSE
  OBVIOUS
<1>2. PICK x \in B : \A y \in B : x <= y
  <2>1. B \in SUBSET Nat
    OBVIOUS
  <2> QED
    BY <1>1, <2>1, LeastOf
<1>3. x \in 0 .. n /\ x \notin T
  BY <1>2
<1>4. x # 0
  BY <1>3
<1>5. x - 1 \in 0 .. n - 1 /\ (x - 1) + 1 = x /\ ~(x <= x - 1) /\ x - 1 \in 0 .. n
  BY <1>3, <1>4
<1>6. x - 1 \notin B
  BY <1>2, <1>5
<1>7. x - 1 \in T
  BY <1>5, <1>6
<1> QED
  BY <1>3, <1>5, <1>7

-----------------------------------------------------------------------------
(* Folds *)

\* The positions up to k.
LEMMA UpTo ==
  ASSUME NEW n \in Nat, NEW k \in 1 .. n
  PROVE  /\ 1 .. k \in SUBSET (1 .. n) /\ 1 .. k # {} /\ Max(1 .. k) = k
         /\ (1 .. k) \ {k} = 1 .. k - 1
<1>1. k \in Nat /\ k >= 1 /\ k <= n
  OBVIOUS
<1>2. Max(1 .. k) = k
  <2>1. 1 .. k \in SUBSET Nat /\ k \in 1 .. k /\ \A x \in 1 .. k : x <= k
    BY <1>1
  <2> QED
    BY <2>1, MaxIs
<1>3. k \in 1 .. k
  BY <1>1
<1>4. \A x : x \in (1 .. k) \ {k} <=> x \in 1 .. k - 1
  BY <1>1
<1>5. \A x \in 1 .. k : x \in 1 .. n
  BY <1>1
<1>6. (1 .. k) \ {k} = 1 .. k - 1
  BY <1>4, Zenon
<1> QED
  BY <1>2, <1>3, <1>5, <1>6

\* A set of positions has a greatest one, and it is one of them.
LEMMA MaxIn ==
  ASSUME NEW n \in Nat, NEW t \in SUBSET (1 .. n), t # {}
  PROVE  Max(t) \in t /\ Max(t) \in 1 .. n /\ t \ {Max(t)} \in SUBSET (1 .. n)
<1> DEFINE B == {k \in 0 .. n : \A x \in t : x <= k}
<1>1. n \in B /\ B \in SUBSET Nat
  OBVIOUS
<1>2. PICK m \in B : \A k \in B : m <= k
  BY <1>1, LeastOf
<1>3. m \in 0 .. n /\ \A x \in t : x <= m
  BY <1>2
<1>4. m \in t
  <2>1. SUFFICES ASSUME m \notin t PROVE FALSE
    OBVIOUS
  <2>2. \A x \in t : x <= m - 1 /\ x >= 1
    BY <1>3, <2>1
  <2>3. m >= 1
    <3>1. PICK x \in t : TRUE
      OBVIOUS
    <3> QED
      BY <1>3, <2>2, <3>1
  <2>4. m - 1 \in B /\ ~(m <= m - 1)
    BY <1>3, <2>2, <2>3
  <2> QED
    BY <1>2, <2>4
<1>5. Max(t) = m
  BY <1>3, <1>4, MaxIs
<1> QED
  BY <1>4, <1>5

\* A fold of F over n elements, as a function on the sets of their positions.
IsFold(g, base, F, n) ==
  \A t \in SUBSET (1 .. n) :
    g[t] = IF t = {} THEN base ELSE F[<<g[t \ {Max(t)}], Max(t)>>]

\* There is one, when F stays in S.
LEMMA FoldExists ==
  ASSUME NEW S, NEW base \in S, NEW n \in Nat, NEW F \in [S \X (1 .. n) -> S]
  PROVE  \E g \in [SUBSET (1 .. n) -> S] : IsFold(g, base, F, n)
<1> DEFINE T == {k \in 0 .. n : \E g \in [SUBSET (1 .. k) -> S] : IsFold(g, base, F, k)}
<1>1. 0 \in T
  <2> DEFINE g == [t \in SUBSET (1 .. 0) |-> base]
  <2>1. \A t \in SUBSET (1 .. 0) : t = {}
    OBVIOUS
  <2>2. IsFold(g, base, F, 0) /\ g \in [SUBSET (1 .. 0) -> S]
    BY <2>1 DEF IsFold
  <2> QED
    BY <2>2
<1>2. ASSUME NEW k \in 0 .. n - 1, k \in T
      PROVE  k + 1 \in T
  <2>1. PICK g \in [SUBSET (1 .. k) -> S] : IsFold(g, base, F, k)
    BY <1>2
  <2>2. k \in Nat /\ k + 1 \in 1 .. n
    OBVIOUS
  <2> DEFINE new(t) == F[<<g[t \ {k + 1}], k + 1>>]
             h == [t \in SUBSET (1 .. k + 1) |-> IF k + 1 \in t THEN new(t) ELSE g[t]]
  <2>3. \A t \in SUBSET (1 .. k + 1) : k + 1 \notin t => t \in SUBSET (1 .. k)
    BY <2>2
  <2>4. \A t \in SUBSET (1 .. k + 1) : t \ {k + 1} \in SUBSET (1 .. k)
    BY <2>2
  <2>5. \A t \in SUBSET (1 .. k) : t \in SUBSET (1 .. k + 1) /\ k + 1 \notin t /\ h[t] = g[t]
    BY <2>2
  <2>6. \A t \in SUBSET (1 .. k + 1) : k + 1 \in t => h[t] = new(t)
    OBVIOUS
  <2>7. h \in [SUBSET (1 .. k + 1) -> S]
    <3>1. ASSUME NEW t \in SUBSET (1 .. k + 1)
          PROVE  (IF k + 1 \in t THEN new(t) ELSE g[t]) \in S
      <4>1. CASE k + 1 \in t
        <5>1. g[t \ {k + 1}] \in S
          BY <2>1, <2>4
        <5>2. <<g[t \ {k + 1}], k + 1>> \in S \X (1 .. n)
          BY <2>2, <5>1
        <5> QED
          BY <4>1, <5>2
      <4>2. CASE k + 1 \notin t
        BY <2>1, <2>3, <4>2
      <4> QED
        BY <4>1, <4>2
    <3> QED
      BY <3>1
  <2> HIDE DEF h
  <2>8. ASSUME NEW t \in SUBSET (1 .. k + 1)
        PROVE  h[t] = IF t = {} THEN base ELSE F[<<h[t \ {Max(t)}], Max(t)>>]
    <3>1. CASE k + 1 \in t
      <4>1. Max(t) = k + 1
        <5>1. t \in SUBSET Nat /\ \A x \in t : x <= k + 1
          BY <2>2
        <5> QED
          BY <3>1, <5>1, MaxIs
      <4>2. h[t \ {k + 1}] = g[t \ {k + 1}]
        BY <2>4, <2>5
      <4> QED
        BY <2>6, <3>1, <4>1, <4>2
    <3>2. CASE k + 1 \notin t
      <4>1. t \in SUBSET (1 .. k)
        BY <2>3, <3>2
      <4>2. t \ {Max(t)} \in SUBSET (1 .. k)
        BY <4>1
      <4> QED
        BY <2>1, <2>5, <4>1, <4>2 DEF IsFold
    <3> QED
      BY <3>1, <3>2
  <2>9. IsFold(h, base, F, k + 1)
    BY <2>8 DEF IsFold
  <2>10. k + 1 \in 0 .. n
    BY <2>2
  <2> QED
    BY <2>7, <2>9, <2>10
<1> HIDE DEF T
<1>3. \A k \in 0 .. n : k \in T
  BY <1>1, <1>2, ByCounting
<1>4. n \in T
  BY <1>3
<1>5. \E g \in [SUBSET (1 .. n) -> S] : IsFold(g, base, F, n)
  BY <1>4 DEF T
<1> QED
  BY <1>5

\* What a fold over the first k elements keeps, it keeps to the end.
LEMMA FoldStays ==
  ASSUME NEW S, NEW n \in Nat, NEW g, g[1 .. 0] \in S,
         \A k \in 1 .. n : g[1 .. k - 1] \in S => g[1 .. k] \in S
  PROVE  \A k \in 0 .. n : g[1 .. k] \in S
<1> DEFINE T == {k \in 0 .. n : g[1 .. k] \in S}
<1>1. 0 \in T
  OBVIOUS
<1>2. ASSUME NEW k \in 0 .. n - 1, k \in T
      PROVE  k + 1 \in T
  <2>1. k + 1 \in 1 .. n /\ (k + 1) - 1 = k /\ k + 1 \in 0 .. n
    OBVIOUS
  <2> QED
    BY <1>2, <2>1
<1> HIDE DEF T
<1>3. \A k \in 0 .. n : k \in T
  BY <1>1, <1>2, ByCounting
<1> QED
  BY <1>3 DEF T

-----------------------------------------------------------------------------
(* Sectors *)

Links == {0, FAT32_EOC} \cup Clusters
Sectors == [Clusters -> Links]
Images == Seq(Disks) \ {<<>>}
Count(n) == [i \in 1 .. n |-> i]

\* The last of the images is the present disk, and a write adds one.
LEMMA ImagesGrow ==
  ASSUME NEW images \in Images
  PROVE  /\ Last(images) \in Disks /\ \A k \in DOMAIN images : images[k] \in Disks
         /\ \A d \in Disks : WriteSector(images, d) \in Images /\ Last(WriteSector(images, d)) = d
<1>1. images \in Seq(Disks) /\ Len(images) \in Nat /\ Len(images) > 0
  BY EmptySeq DEF Images
<1>2. \A k \in 1 .. Len(images) : images[k] \in Disks
  BY <1>1, ElementOfSeq
<1>3. ASSUME NEW d \in Disks
      PROVE  WriteSector(images, d) \in Images /\ Last(WriteSector(images, d)) = d
  <2>1. /\ Append(images, d) \in Seq(Disks) /\ Len(Append(images, d)) = Len(images) + 1
        /\ Append(images, d)[Len(images) + 1] = d
    BY <1>1, AppendProperties
  <2>2. Append(images, d) # <<>>
    BY <1>1, <2>1, EmptySeq
  <2> QED
    BY <2>1, <2>2 DEF Images, WriteSector, Last
<1>4. DOMAIN images = 1 .. Len(images)
  BY <1>1, LenProperties
<1> QED
  BY <1>1, <1>2, <1>3, <1>4 DEF Last

\* The images so far are among those after a write.
LEMMA RangeGrows ==
  ASSUME NEW images \in Images, NEW d \in Disks
  PROVE  /\ Range(WriteSector(images, d)) = Range(images) \cup {d}
         /\ Last(images) \in Range(images) /\ Range(images) \subseteq Disks
         /\ Range(Unwritten(d)) = {d}
<1> DEFINE r == WriteSector(images, d)
           n == Len(images)
<1>1. images \in Seq(Disks) /\ n \in Nat /\ n > 0 /\ DOMAIN images = 1 .. n
  BY EmptySeq, LenProperties DEF Images
<1>2. \A k \in 1 .. n : images[k] \in Disks
  BY <1>1, ElementOfSeq
<1>3. /\ r \in Seq(Disks) /\ Len(r) = n + 1 /\ r[n + 1] = d /\ \A k \in 1 .. n : r[k] = images[k]
      /\ DOMAIN r = 1 .. n + 1
  BY <1>1, AppendProperties, LenProperties DEF WriteSector
<1> HIDE DEF r, n
<1>4. 1 .. n + 1 = (1 .. n) \cup {n + 1}
  BY <1>1
<1>5. Range(r) = Range(images) \cup {d}
  BY <1>1, <1>3, <1>4 DEF Range
<1>6. Last(images) \in Range(images) /\ Range(images) \subseteq Disks
  <2>1. n \in 1 .. n
    BY <1>1
  <2> QED
    BY <1>1, <1>2, <2>1 DEF Range, Last, n
<1>7. Range(Unwritten(d)) = {d}
  BY DEF Range, Unwritten
<1> QED
  BY <1>5, <1>6, <1>7 DEF r

\* A function that has written nothing yet has one image.
LEMMA OneImage ==
  ASSUME NEW d \in Disks
  PROVE  Unwritten(d) \in Images /\ Last(Unwritten(d)) = d
  BY DEF Unwritten, Images, Last

\* A disk is its three parts.
LEMMA DiskParts ==
  ASSUME NEW d \in Disks
  PROVE  /\ d.fat \in [1 .. FatCount -> Sectors] /\ d.dir \in [Clusters -> [1 .. SlotCount -> Entries]]
         /\ d.data \in [Clusters -> [0 .. ClusterSize - 1 -> Bytes]]
         /\ d = [fat |-> d.fat, dir |-> d.dir, data |-> d.data]
         /\ 1 \in 1 .. FatCount /\ FatCount \in Nat /\ d.fat[1] \in Sectors
<1>1. d.fat \in [1 .. FatCount -> Sectors] /\ d = [fat |-> d.fat, dir |-> d.dir, data |-> d.data]
  BY DEF Disks, Sectors, Links
<1>2. 1 \in 1 .. FatCount /\ FatCount \in Nat
  BY DiskAssumption
<1> QED
  BY <1>1, <1>2 DEF Disks

\* A copy of the FAT is written.
LEMMA CopyWritten ==
  ASSUME NEW d \in Disks, NEW i \in 1 .. FatCount, NEW sector \in Sectors
  PROVE  /\ [d EXCEPT !.fat[i] = sector] \in Disks
         /\ [d EXCEPT !.fat[i] = sector] =
              [fat |-> [d.fat EXCEPT ![i] = sector], dir |-> d.dir, data |-> d.data]
<1>1. d.fat \in [1 .. FatCount -> Sectors] /\ d = [fat |-> d.fat, dir |-> d.dir, data |-> d.data]
  BY DiskParts
<1>2. [d EXCEPT !.fat[i] = sector] = [fat |-> [d.fat EXCEPT ![i] = sector], dir |-> d.dir, data |-> d.data]
  BY <1>1
<1>3. [d.fat EXCEPT ![i] = sector] \in [1 .. FatCount -> Sectors]
  BY <1>1
<1> QED
  BY <1>2, <1>3, DiskParts DEF Disks, Sectors, Links

\* The loop over the copies, as a fold over the numbers q.
CopyStep(images, sector, i) == WriteSector(images, [Last(images) EXCEPT !.fat[i] = sector])
CopyFold(g, images, sector, q, n) ==
  g = [t \in SUBSET (1 .. n) |->
         IF t = {} THEN images ELSE CopyStep(g[t \ {Max(t)}], sector, q[Max(t)])]

\* The fold that CopySector chooses.
LEMMA CopyFoldIs ==
  ASSUME NEW images, NEW sector
  PROVE  CopySector(images, sector)
           = (CHOOSE g : CopyFold(g, images, sector, Count(FatCount), FatCount))[1 .. FatCount]
<1>1. DOMAIN [i \in 1 .. FatCount |-> i] = 1 .. FatCount
  OBVIOUS
<1> QED
  BY <1>1 DEF CopySector, FoldLeft, MapThenFoldSet, CopyFold, CopyStep, Count

\* The images after the first k copies, the last of them with k copies alike.
Copied(images, r, sector, k) ==
  /\ \A d \in Range(r) :
       d \in Range(images) \/ (/\ d.fat[1] = sector
                              /\ d.dir = Last(images).dir /\ d.data = Last(images).data)
  /\ r \in Images
  /\ Last(r).dir = Last(images).dir /\ Last(r).data = Last(images).data
  /\ \A i \in 1 .. FatCount : Last(r).fat[i] = IF i <= k THEN sector ELSE Last(images).fat[i]

\* Every copy is the sector then, and nothing else has changed.
LEMMA SectorCopied ==
  ASSUME NEW images \in Images, NEW sector \in Sectors
  PROVE  Copied(images, CopySector(images, sector), sector, FatCount)
<1> DEFINE n == FatCount
           q == Count(n)
<1>1. n \in Nat /\ DOMAIN q = 1 .. n /\ \A k \in 1 .. n : q[k] = k
  BY DiskAssumption DEF Count
<1>2. \A r \in Images, i \in 1 .. n : CopyStep(r, sector, i) \in Images
  BY ImagesGrow, CopyWritten DEF CopyStep
<1>3. \E g : CopyFold(g, images, sector, q, n)
  <2> DEFINE F == [x \in Images \X (1 .. n) |-> CopyStep(x[1], sector, q[x[2]])]
  <2>1. F \in [Images \X (1 .. n) -> Images]
    BY <1>1, <1>2
  <2>2. \A r \in Images, i \in 1 .. n : F[<<r, i>>] = CopyStep(r, sector, q[i])
    OBVIOUS
  <2> HIDE DEF F, n
  <2>3. PICK g \in [SUBSET (1 .. n) -> Images] : IsFold(g, images, F, n)
    BY <1>1, <2>1, FoldExists
  <2>4. ASSUME NEW t \in SUBSET (1 .. n), t # {}
        PROVE  F[<<g[t \ {Max(t)}], Max(t)>>] = CopyStep(g[t \ {Max(t)}], sector, q[Max(t)])
    <3>1. g[t \ {Max(t)}] \in Images
      BY <2>3
    <3>2. Max(t) \in 1 .. n
      BY <1>1, <2>4, MaxIn
    <3> QED
      BY <2>2, <3>1, <3>2
  <2>5. CopyFold(g, images, sector, q, n)
    BY <2>3, <2>4 DEF IsFold, CopyFold
  <2> QED
    BY <2>5
<1>4. PICK g : CopyFold(g, images, sector, q, n) /\ CopySector(images, sector) = g[1 .. n]
  <2>1. CopySector(images, sector) = (CHOOSE g : CopyFold(g, images, sector, q, n))[1 .. n]
    BY CopyFoldIs
  <2> QED
    BY <1>3, <2>1
<1>5. g[1 .. 0] = images
  BY <1>4 DEF CopyFold
<1>6. \A k \in 1 .. n : g[1 .. k] = CopyStep(g[1 .. k - 1], sector, k)
  <2>1. ASSUME NEW k \in 1 .. n
        PROVE  g[1 .. k] = CopyStep(g[1 .. k - 1], sector, k)
    <3>1. 1 .. k \in SUBSET (1 .. n) /\ 1 .. k # {} /\ Max(1 .. k) = k /\ (1 .. k) \ {k} = 1 .. k - 1
      BY <1>1, UpTo
    <3>2. g[1 .. k] = CopyStep(g[(1 .. k) \ {Max(1 .. k)}], sector, q[Max(1 .. k)])
      BY <1>4, <3>1 DEF CopyFold
    <3> QED
      BY <1>1, <3>1, <3>2
  <2> QED
    BY <2>1
<1> DEFINE T == {k \in 0 .. n : Copied(images, g[1 .. k], sector, k)}
<1>7. 0 \in T
  <2>1. \A i \in 1 .. n : ~(i <= 0)
    BY <1>1
  <2>2. Copied(images, images, sector, 0)
    BY <2>1 DEF Copied
  <2> QED
    BY <1>1, <1>5, <2>2
<1>8. ASSUME NEW k \in 0 .. n - 1, k \in T
      PROVE  k + 1 \in T
  <2>1. k + 1 \in 1 .. n /\ (k + 1) - 1 = k /\ k + 1 \in 0 .. n
    BY <1>1
  <2> DEFINE r == g[1 .. k]
             d == Last(r)
             e == [d EXCEPT !.fat[k + 1] = sector]
  <2>2. Copied(images, r, sector, k)
    BY <1>8
  <2>3. r \in Images /\ d \in Disks
    BY <2>2, ImagesGrow DEF Copied
  <2>4. g[1 .. k + 1] = WriteSector(r, e)
    BY <1>6, <2>1 DEF CopyStep
  <2>5. e \in Disks /\ e = [fat |-> [d.fat EXCEPT ![k + 1] = sector], dir |-> d.dir, data |-> d.data]
    BY <2>1, <2>3, CopyWritten
  <2>6. g[1 .. k + 1] \in Images /\ Last(g[1 .. k + 1]) = e
    BY <2>3, <2>4, <2>5, ImagesGrow
  <2> HIDE DEF r, e
  <2>7. ASSUME NEW i \in 1 .. n
        PROVE  e.fat[i] = IF i <= k + 1 THEN sector ELSE Last(images).fat[i]
    <3>1. d.fat \in [1 .. n -> Sectors]
      BY <2>3, DiskParts
    <3>2. e.fat[i] = IF i = k + 1 THEN sector ELSE d.fat[i]
      BY <2>5, <3>1
    <3>3. d.fat[i] = IF i <= k THEN sector ELSE Last(images).fat[i]
      BY <2>2 DEF Copied
    <3> QED
      BY <2>1, <3>2, <3>3
  <2>8. Range(g[1 .. k + 1]) = Range(r) \cup {e}
    BY <2>3, <2>4, <2>5, RangeGrows DEF r, e
  <2>9. e.fat[1] = sector
    <3>1. 1 \in 1 .. n /\ 1 <= k + 1
      BY <2>1, DiskAssumption
    <3> QED
      BY <2>7, <3>1
  <2>10. e.dir = Last(images).dir /\ e.data = Last(images).data
    BY <2>2, <2>5 DEF Copied
  <2>11. \A x \in Range(g[1 .. k + 1]) :
           x \in Range(images) \/ (/\ x.fat[1] = sector
                                  /\ x.dir = Last(images).dir /\ x.data = Last(images).data)
    BY <2>2, <2>8, <2>9, <2>10 DEF Copied
  <2>12. Copied(images, g[1 .. k + 1], sector, k + 1)
    BY <2>2, <2>5, <2>6, <2>7, <2>11 DEF Copied
  <2> QED
    BY <2>1, <2>12
<1> HIDE DEF T
<1>9. n \in T
  <2>1. \A k \in 0 .. n : k \in T
    BY <1>1, <1>7, <1>8, ByCounting
  <2> QED
    BY <1>1, <2>1
<1> QED
  BY <1>4, <1>9 DEF T

-----------------------------------------------------------------------------
(* The copies of the FAT *)

Alike(d) == \A i \in 1 .. FatCount : d.fat[i] = d.fat[1]

\* The copies are alike in e, or e has those of d.
FatKept(d, e) == e.fat = d.fat \/ Alike(e)

\* Images that begin with disks that were written after d.
ImagesAfter(d) == {images \in Images : FatKept(d, Last(images))}

\* A changed entry goes into every copy.
LEMMA EntrySet ==
  ASSUME NEW images \in Images, NEW c, NEW value \in Links
  PROVE  /\ set_fat_entry(images, c, value) \in Images
         /\ Alike(Last(set_fat_entry(images, c, value)))
         /\ Last(set_fat_entry(images, c, value)).fat[1] = [Last(images).fat[1] EXCEPT ![c] = value]
         /\ \A d \in Range(set_fat_entry(images, c, value)) :
              d \in Range(images) \/ (/\ d.fat[1] = [Last(images).fat[1] EXCEPT ![c] = value]
                                     /\ d.dir = Last(images).dir /\ d.data = Last(images).data)
         /\ Last(set_fat_entry(images, c, value)).dir = Last(images).dir
         /\ Last(set_fat_entry(images, c, value)).data = Last(images).data
<1> DEFINE old == Last(images).fat[1]
           sector == [old EXCEPT ![c] = value]
<1>1. Last(images) \in Disks
  BY ImagesGrow
<1>2. old \in Sectors
  BY <1>1, DiskParts
<1>3. sector \in Sectors
  BY <1>2 DEF Sectors
<1>4. set_fat_entry(images, c, value) = CopySector(images, sector)
  BY DEF set_fat_entry
<1> HIDE DEF sector, old
<1>5. Copied(images, set_fat_entry(images, c, value), sector, FatCount)
  BY <1>3, <1>4, SectorCopied
<1>6. 1 \in 1 .. FatCount /\ FatCount \in Nat
  BY DiskAssumption
<1>7. /\ set_fat_entry(images, c, value) \in Images
      /\ Alike(Last(set_fat_entry(images, c, value)))
      /\ Last(set_fat_entry(images, c, value)).dir = Last(images).dir
      /\ Last(set_fat_entry(images, c, value)).data = Last(images).data
      /\ Last(set_fat_entry(images, c, value)).fat[1] = sector
  BY <1>5, <1>6 DEF Copied, Alike
<1>8. \A d \in Range(set_fat_entry(images, c, value)) :
        d \in Range(images) \/ (/\ d.fat[1] = sector
                               /\ d.dir = Last(images).dir /\ d.data = Last(images).data)
  BY <1>5 DEF Copied
<1> QED
  BY <1>7, <1>8 DEF sector, old

\* set_fat_entry keeps the copies of the FAT alike.
LEMMA EntrySetAfter ==
  ASSUME NEW d, NEW images \in ImagesAfter(d), NEW c, NEW value \in Links
  PROVE  set_fat_entry(images, c, value) \in ImagesAfter(d)
BY EntrySet DEF ImagesAfter, FatKept

\* Another sector is written, and the FAT stays as it is.
LEMMA SectorWrittenAfter ==
  ASSUME NEW d, NEW images \in ImagesAfter(d), NEW e \in Disks, e.fat = Last(images).fat
  PROVE  WriteSector(images, e) \in ImagesAfter(d)
BY ImagesGrow DEF ImagesAfter, FatKept, Alike

\* The first image, and the last one of several.
LEMMA FirstImage ==
  ASSUME NEW d \in Disks
  PROVE  Unwritten(d) \in ImagesAfter(d)
BY OneImage DEF ImagesAfter, FatKept

\* A cluster that is free is a cluster; the cluster behind another is one, or
\* none.
LEMMA LinksLead ==
  ASSUME NEW d \in Disks
  PROVE  /\ find_free_cluster(d) \in {0} \cup Clusters
         /\ \A c \in Clusters : fat32_next_cluster(d, c) \in {0} \cup Clusters
<1>1. ASSUME FreeClusters(d) # {}
      PROVE  Min(FreeClusters(d)) \in Clusters
  <2>1. FreeClusters(d) \in SUBSET Nat /\ FreeClusters(d) \in SUBSET Clusters
    BY DiskAssumption DEF FreeClusters, Clusters
  <2> QED
    BY <1>1, <2>1, MinIs
<1>2. d.fat[1] \in [Clusters -> Links]
  BY DiskParts DEF Sectors
<1>3. ASSUME NEW c \in Clusters
      PROVE  fat32_next_cluster(d, c) \in {0} \cup Clusters
  BY <1>2 DEF fat32_next_cluster, Links
<1> QED
  BY <1>1, <1>3 DEF find_free_cluster

-----------------------------------------------------------------------------
(* fat32_rewrite frees the chain *)

FreeStep(s) == IF s.c = 0 THEN s ELSE FreeHead(s, fat32_next_cluster(Last(s.images), s.c))
FreeFold(g, base, n) ==
  g = [t \in SUBSET (1 .. n) |-> IF t = {} THEN base ELSE FreeStep(g[t \ {Max(t)}])]

\* The fold that FreeChain chooses.
LEMMA FreeFoldIs ==
  ASSUME NEW d, NEW start
  PROVE  FreeChain(d, start)
           = (CHOOSE g : FreeFold(g, [images |-> Unwritten(d), c |-> start], TotalClusters))[1 .. TotalClusters].images
<1>1. DOMAIN [i \in 1 .. TotalClusters |-> i] = 1 .. TotalClusters
  OBVIOUS
<1> QED
  BY <1>1 DEF FreeChain, FoldLeft, MapThenFoldSet, FreeFold, FreeStep

\* Whatever the chain is, the copies are alike when it is freed.
LEMMA ChainFreed ==
  ASSUME NEW d \in Disks, NEW start \in {0} \cup Clusters
  PROVE  FreeChain(d, start) \in ImagesAfter(d)
<1> DEFINE S == [images : ImagesAfter(d), c : {0} \cup Clusters]
           n == TotalClusters
           base == [images |-> Unwritten(d), c |-> start]
           F == [x \in S \X (1 .. n) |-> FreeStep(x[1])]
<1>1. n \in Nat
  BY DiskAssumption
<1>2. base \in S
  BY FirstImage
<1>3. ASSUME NEW s \in S
      PROVE  FreeStep(s) \in S
  <2> DEFINE next == fat32_next_cluster(Last(s.images), s.c)
             cleared == set_fat_entry(s.images, s.c, 0)
  <2>1. s.images \in ImagesAfter(d) /\ s.c \in {0} \cup Clusters /\ Last(s.images) \in Disks
    BY ImagesGrow DEF ImagesAfter
  <2>2. cleared \in ImagesAfter(d)
    BY <2>1, EntrySetAfter DEF Links
  <2>3. s.c # 0 => next \in {0} \cup Clusters
    BY <2>1, LinksLead
  <2> HIDE DEF next, cleared
  <2>4. FreeHead(s, next) = [images |-> cleared, c |-> next]
    BY DEF FreeHead, cleared
  <2>5. s.c # 0 => FreeHead(s, next) \in S
    BY <2>2, <2>3, <2>4
  <2> QED
    BY <2>5 DEF FreeStep, next
<1>4. F \in [S \X (1 .. n) -> S]
  BY <1>3
<1>5. \A s \in S, i \in 1 .. n : F[<<s, i>>] = FreeStep(s)
  OBVIOUS
<1> HIDE DEF F, S, base, n
<1>6. \E g : FreeFold(g, base, n)
  <2>1. PICK g \in [SUBSET (1 .. n) -> S] : IsFold(g, base, F, n)
    BY <1>1, <1>2, <1>4, FoldExists
  <2>2. ASSUME NEW t \in SUBSET (1 .. n), t # {}
        PROVE  F[<<g[t \ {Max(t)}], Max(t)>>] = FreeStep(g[t \ {Max(t)}])
    BY <1>1, <1>5, <2>1, <2>2, MaxIn
  <2>3. \A t \in SUBSET (1 .. n) : g[t] = IF t = {} THEN base ELSE FreeStep(g[t \ {Max(t)}])
    BY <2>1, <2>2 DEF IsFold
  <2>4. FreeFold(g, base, n)
    BY <2>1, <2>3 DEF FreeFold
  <2> QED
    BY <2>4
<1>7. PICK g : FreeFold(g, base, n) /\ FreeChain(d, start) = g[1 .. n].images
  <2>1. FreeChain(d, start) = (CHOOSE g : FreeFold(g, base, n))[1 .. n].images
    BY FreeFoldIs DEF base, n
  <2> QED
    BY <1>6, <2>1
<1>8. g[1 .. 0] \in S
  BY <1>2, <1>7 DEF FreeFold
<1>9. \A k \in 1 .. n : g[1 .. k - 1] \in S => g[1 .. k] \in S
  <2>1. ASSUME NEW k \in 1 .. n, g[1 .. k - 1] \in S
        PROVE  g[1 .. k] \in S
    <3>1. 1 .. k \in SUBSET (1 .. n) /\ 1 .. k # {} /\ (1 .. k) \ {Max(1 .. k)} = 1 .. k - 1
      BY <1>1, UpTo
    <3>2. g[1 .. k] = FreeStep(g[(1 .. k) \ {Max(1 .. k)}])
      BY <1>7, <3>1 DEF FreeFold
    <3> QED
      BY <1>3, <2>1, <3>1, <3>2
  <2> QED
    BY <2>1
<1>10. \A k \in 0 .. n : g[1 .. k] \in S
  BY <1>1, <1>8, <1>9, FoldStays
<1>11. g[1 .. n] \in S
  BY <1>1, <1>10
<1> QED
  BY <1>7, <1>11 DEF S

-----------------------------------------------------------------------------
(* Pieces of sequences, and the less and the more of numbers *)

\* What SubSeq returns.
LEMMA Pieces ==
  ASSUME NEW S, NEW s \in Seq(S), NEW a \in Nat \ {0}, NEW b \in Int, b <= Len(s)
  PROVE  /\ SubSeq(s, a, b) \in Seq(S)
         /\ Len(SubSeq(s, a, b)) = IF a <= b THEN (b - a) + 1 ELSE 0
         /\ \A i \in 1 .. Len(SubSeq(s, a, b)) : SubSeq(s, a, b)[i] = s[(i + a) - 1]
<1> DEFINE m == IF a <= b THEN (b - a) + 1 ELSE 0
<1>1. m \in Nat /\ (1 .. (b - a) + 1) = 1 .. m
  BY SMT
<1>2. SubSeq(s, a, b) = [i \in 1 .. m |-> s[(i + a) - 1]]
  <2>1. SubSeq(s, a, b) = [i \in 1 .. (b - a) + 1 |-> s[(i + a) - 1]]
    OBVIOUS
  <2> QED
    BY <1>1, <2>1
<1>3. \A i \in 1 .. m : s[(i + a) - 1] \in S
  <2>1. ASSUME NEW i \in 1 .. m
        PROVE  s[(i + a) - 1] \in S
    <3>1. (i + a) - 1 \in 1 .. Len(s)
      BY SMT
    <3> QED
      BY <3>1, ElementOfSeq
  <2> QED
    BY <2>1
<1> HIDE DEF m
<1>4. SubSeq(s, a, b) \in [1 .. m -> S]
  BY <1>2, <1>3
<1>5. SubSeq(s, a, b) \in Seq(S) /\ Len(SubSeq(s, a, b)) = m
  BY <1>1, <1>4, LenProperties
<1> QED
  BY <1>2, <1>5 DEF m

\* The less of two numbers.
LEMMA LessOf ==
  ASSUME NEW a \in Nat, NEW b \in Nat
  PROVE  Min({a, b}) = IF a <= b THEN a ELSE b
<1>1. {a, b} \in SUBSET Nat /\ {a, b} # {}
  OBVIOUS
<1>2. Min({a, b}) \in {a, b} /\ Min({a, b}) <= a /\ Min({a, b}) <= b
  BY <1>1, MinIs
<1> QED
  BY <1>2

\* The greater of two numbers.
LEMMA MoreOf ==
  ASSUME NEW a \in Nat, NEW b \in Nat
  PROVE  Max({a, b}) = IF a >= b THEN a ELSE b
<1>1. CASE a >= b
  <2>1. \A x \in {a, b} : x <= a
    BY <1>1
  <2> QED
    BY <1>1, <2>1, MaxIs
<1>2. CASE ~(a >= b)
  <2>1. \A x \in {a, b} : x <= b
    BY <1>2
  <2> QED
    BY <1>2, <2>1, MaxIs
<1> QED
  BY <1>1, <1>2

\* Where an offset lies in its cluster.
LEMMA Within ==
  ASSUME NEW x \in Nat
  PROVE  /\ ClusterSize \in Nat \ {0} /\ x % ClusterSize \in 0 .. ClusterSize - 1
         /\ ClusterSize - (x % ClusterSize) \in 1 .. ClusterSize
<1>1. ClusterSize \in Nat \ {0}
  BY DiskAssumption
<1> QED
  BY <1>1

-----------------------------------------------------------------------------
(* fat32_write *)

\* Bytes go into a cluster.
DataPut(d, c, at, bytes) == [d EXCEPT !.data[c] = Overwrite(@, at, bytes)]

\* A write to the bytes of a cluster changes nothing else of the disk.
LEMMA DataWritten ==
  ASSUME NEW d \in Disks, NEW c, NEW at \in Int, NEW bytes \in Seq(Bytes)
  PROVE  DataPut(d, c, at, bytes) \in Disks /\ DataPut(d, c, at, bytes).fat = d.fat
<1> DEFINE e == DataPut(d, c, at, bytes)
           data == [d.data EXCEPT ![c] = Overwrite(d.data[c], at, bytes)]
           Sector == [0 .. ClusterSize - 1 -> Bytes]
<1>1. /\ d.data \in [Clusters -> Sector]
      /\ d = [fat |-> d.fat, dir |-> d.dir, data |-> d.data]
  BY DiskParts
<1>2. e = [fat |-> d.fat, dir |-> d.dir, data |-> data]
  BY <1>1 DEF DataPut
<1>3. ASSUME c \in Clusters
      PROVE  Overwrite(d.data[c], at, bytes) \in Sector
  <2>1. d.data[c] \in Sector
    BY <1>1, <1>3
  <2>2. \A i \in DOMAIN bytes : bytes[i] \in Bytes
    BY LenProperties, ElementOfSeq
  <2> QED
    BY <2>1, <2>2 DEF Overwrite
<1>4. data \in [Clusters -> Sector]
  BY <1>1, <1>3
<1> HIDE DEF e, data
<1>5. e \in Disks
  BY <1>2, <1>4, DiskParts DEF Disks
<1> QED
  BY <1>2, <1>5 DEF e

\* A handle and its parts.
LEMMA HandleTypes ==
  ASSUME NEW h \in Handles
  PROVE  /\ h.ctx \in BOOLEAN /\ h.is_dir \in BOOLEAN
         /\ h.start_cluster \in {0} \cup Clusters /\ h.current_cluster \in {0} \cup Clusters
         /\ h.cluster_offset \in Nat /\ h.file_offset \in Nat /\ h.size \in 0 .. MaxSize
BY DEF Handles

\* A handle that goes on in its file.
Moved(h, next, offset, size) ==
  [h EXCEPT !.file_offset = next, !.cluster_offset = offset, !.size = size]

\* It keeps the type of a handle.
LEMMA HandleMoved ==
  ASSUME NEW h \in Handles, NEW x \in Nat, NEW y \in Nat, NEW z \in 0 .. MaxSize
  PROVE  /\ Moved(h, x, y, z) \in Handles /\ Moved(h, x, y, z).ctx = h.ctx
         /\ Moved(h, x, y, z).file_offset = x /\ Moved(h, x, y, z).size = z
BY DEF Handles, Moved

\* What the loop of fat32_write keeps: the handle has its type, the copies are
\* kept, and what is still to go fits into the bound.
Writing(d) ==
  {w \in [images : ImagesAfter(d), h : Handles, todo : Seq(Bytes)] :
     w.h.ctx /\ w.h.file_offset <= w.h.size /\ w.h.file_offset + Len(w.todo) <= MaxSize}

\* A new cluster is linked behind the last one, and its own entry marked.
LEMMA Linked ==
  ASSUME NEW d, NEW w \in Writing(d), NEW new \in Clusters
  PROVE  Link(w, new) \in Writing(d)
<1> DEFINE linked == set_fat_entry(w.images, w.h.current_cluster, new)
           R == [images : ImagesAfter(d), h : Handles, todo : Seq(Bytes)]
           P(v) == v.h.ctx /\ v.h.file_offset <= v.h.size /\ v.h.file_offset + Len(v.todo) <= MaxSize
<1>1. w \in R /\ P(w)
  BY DEF Writing
<1>2. linked \in ImagesAfter(d)
  BY <1>1, EntrySetAfter DEF Links
<1> HIDE DEF linked
<1>3. [w EXCEPT !.images = linked] \in R /\ P([w EXCEPT !.images = linked])
  BY <1>1, <1>2
<1>4. [w EXCEPT !.h.start_cluster = new] \in R /\ P([w EXCEPT !.h.start_cluster = new])
  BY <1>1 DEF Handles
<1>5. \A v \in R : P(v) => v \in Writing(d)
  BY DEF Writing
<1> QED
  BY <1>3, <1>4, <1>5 DEF Link, linked

\* The new cluster is marked as the last.
LEMMA EndMarked ==
  ASSUME NEW d, NEW w \in Writing(d), NEW new \in Clusters
  PROVE  MarkEnd(w, new) \in Writing(d)
<1> DEFINE marked == set_fat_entry(w.images, new, FAT32_EOC)
           R == [images : ImagesAfter(d), h : Handles, todo : Seq(Bytes)]
           P(v) == v.h.ctx /\ v.h.file_offset <= v.h.size /\ v.h.file_offset + Len(v.todo) <= MaxSize
           m == [w EXCEPT !.images = marked, !.h.current_cluster = new]
<1>1. w \in R /\ P(w)
  BY DEF Writing
<1>2. marked \in ImagesAfter(d)
  BY <1>1, EntrySetAfter DEF Links
<1> HIDE DEF marked
<1>3. m \in R /\ P(m)
  BY <1>1, <1>2 DEF Handles
<1>4. \A v \in R : P(v) => v \in Writing(d)
  BY DEF Writing
<1> QED
  BY <1>3, <1>4 DEF MarkEnd, marked

\* The chain grows by a cluster, unless the disk is full.
LEMMA Extended ==
  ASSUME NEW d, NEW w \in Writing(d), NEW new \in {0} \cup Clusters
  PROVE  Extend(w, new) \in Writing(d)
<1> DEFINE R == [images : ImagesAfter(d), h : Handles, todo : Seq(Bytes)]
<1>1. CASE new = 0
  <2>1. w \in R /\ w.h.ctx /\ w.h.file_offset <= w.h.size /\ w.h.file_offset \in Nat
    BY HandleTypes DEF Writing
  <2>2. <<>> \in Seq(Bytes) /\ Len(<<>>) = 0
    BY EmptySeq
  <2>3. w.h.size <= MaxSize /\ w.h.size \in Nat /\ MaxSize \in Nat
    BY <2>1, HandleTypes, Fat32Assumption
  <2>4. w.h.file_offset + 0 <= MaxSize
    BY <2>1, <2>3
  <2> DEFINE e == <<>>
             v == [w EXCEPT !.todo = e]
  <2> HIDE DEF e
  <2>5. v \in R /\ v.h = w.h /\ v.todo = e
    BY <2>1, <2>2 DEF e
  <2> HIDE DEF v
  <2>6. v \in Writing(d)
    BY <2>1, <2>2, <2>4, <2>5 DEF Writing, e
  <2> QED
    BY <1>1, <2>6 DEF Extend, v, e
<1>2. CASE new \in Clusters
  <2>1. new # 0
    BY <1>2, DiskAssumption DEF Clusters
  <2> QED
    BY <1>2, <2>1, Linked, EndMarked DEF Extend
<1> QED
  BY <1>1, <1>2

\* The bytes that fit go into the cluster.
LEMMA ChunkPut ==
  ASSUME NEW d, NEW w \in Writing(d)
  PROVE  PutChunk(w) \in Writing(d)
<1> DEFINE left == Len(w.todo)
           room == ClusterSize - InCluster(w.h)
           n == Min({left, room})
           at == InCluster(w.h)
           taken == SubSeq(w.todo, 1, n)
           rest == SubSeq(w.todo, n + 1, Len(w.todo))
           e == DataPut(Last(w.images), w.h.current_cluster, at, taken)
           ims == WriteSector(w.images, e)
           offset == w.h.file_offset
           next == offset + n
           size == Max({w.h.size, next})
           moved == w.h.cluster_offset + n
           h == Moved(w.h, next, moved, size)
<1>1. w.images \in ImagesAfter(d) /\ w.h \in Handles /\ w.todo \in Seq(Bytes)
  BY DEF Writing
<1>2. left \in Nat /\ offset <= w.h.size /\ offset + left <= MaxSize /\ w.h.ctx
  BY <1>1, LenProperties DEF Writing
<1>3. offset \in Nat /\ w.h.cluster_offset \in Nat /\ w.h.size \in 0 .. MaxSize /\ MaxSize \in Nat
  BY <1>1, HandleTypes, Fat32Assumption
<1>4. room \in Nat /\ at \in Int
  <2>1. at = offset % ClusterSize /\ room = ClusterSize - at
    BY DEF InCluster
  <2> HIDE DEF at, offset, room
  <2>2. at \in 0 .. ClusterSize - 1 /\ ClusterSize \in Nat
    BY <1>3, <2>1, Within
  <2> QED
    BY <2>1, <2>2
<1> HIDE DEF left, room, at, offset
<1>5. n \in Nat /\ n <= left
  BY <1>2, <1>4, LessOf
<1> HIDE DEF n
<1>6. taken \in Seq(Bytes)
  BY <1>1, <1>5, Pieces DEF left
<1>7. rest \in Seq(Bytes) /\ Len(rest) = left - n
  <2>1. n + 1 \in Nat \ {0} /\ Len(w.todo) \in Int /\ Len(w.todo) <= Len(w.todo)
    BY <1>2, <1>5 DEF left
  <2> HIDE DEF rest
  <2>2. rest \in Seq(Bytes) /\ Len(rest) = IF n + 1 <= Len(w.todo) THEN (Len(w.todo) - (n + 1)) + 1 ELSE 0
    BY <1>1, <2>1, Pieces DEF rest
  <2> QED
    BY <1>2, <1>5, <2>2 DEF left
<1>8. Last(w.images) \in Disks
  BY <1>1, ImagesGrow DEF ImagesAfter
<1> HIDE DEF taken, rest
<1>9. e \in Disks /\ e.fat = Last(w.images).fat
  <2>1. at \in Int
    BY <1>4
  <2> QED
    BY <1>6, <1>8, <2>1, DataWritten
<1> HIDE DEF e
<1>10. ims \in ImagesAfter(d)
  BY <1>1, <1>8, <1>9, SectorWrittenAfter
<1>11. next \in Nat /\ next <= MaxSize /\ moved \in Nat
  BY <1>2, <1>3, <1>5
<1>12. next = offset + n
  OBVIOUS
<1> HIDE DEF ims, next, moved
<1>13. size \in 0 .. MaxSize /\ next <= size
  BY <1>3, <1>11, MoreOf
<1> HIDE DEF size, h
<1>14. h \in Handles /\ h.ctx = w.h.ctx /\ h.file_offset = next /\ h.size = size
  <2>1. w.h \in Handles /\ next \in Nat /\ moved \in Nat /\ size \in 0 .. MaxSize
    BY <1>1, <1>11, <1>13
  <2>2. /\ Moved(w.h, next, moved, size) \in Handles
        /\ Moved(w.h, next, moved, size).ctx = w.h.ctx
        /\ Moved(w.h, next, moved, size).file_offset = next
        /\ Moved(w.h, next, moved, size).size = size
    BY <2>1, HandleMoved
  <2> QED
    BY <2>2 DEF h
<1> HIDE DEF h
<1>15. PutBytes(w, n) = [images |-> ims, h |-> h, todo |-> rest]
  BY DEF PutBytes, DataPut, Moved, moved, h, ims, e, at, taken, rest, size, next, offset
<1>16. h.file_offset <= h.size /\ h.file_offset + Len(rest) <= MaxSize /\ h.ctx
  BY <1>2, <1>3, <1>5, <1>7, <1>12, <1>13, <1>14
<1>17. PutBytes(w, n) \in Writing(d)
  BY <1>7, <1>10, <1>14, <1>15, <1>16 DEF Writing
<1> QED
  BY <1>17 DEF PutChunk, n, room, left

\* A round of the loop.
LEMMA ChunkWritten ==
  ASSUME NEW d, NEW w \in Writing(d)
  PROVE  WriteChunk(w) \in Writing(d)
<1>1. Last(w.images) \in Disks
  BY ImagesGrow DEF Writing, ImagesAfter
<1>2. find_free_cluster(Last(w.images)) \in {0} \cup Clusters
  BY <1>1, LinksLead
<1>3. Extend(w, find_free_cluster(Last(w.images))) \in Writing(d)
  BY <1>2, Extended
<1> QED
  BY <1>3, ChunkPut DEF WriteChunk

\* The loop of fat32_write.
WriteFold(g, base, n) ==
  g = [t \in SUBSET (1 .. n) |-> IF t = {} THEN base ELSE WriteChunk(g[t \ {Max(t)}])]

\* fat32_write as a fold.
LEMMA WriteFoldIs ==
  ASSUME NEW images, NEW h, NEW bytes \in Seq(Bytes)
  PROVE  WriteFrom(images, h, bytes)
           = (CHOOSE g : WriteFold(g, [images |-> images, h |-> h, todo |-> bytes], Len(bytes)))[1 .. Len(bytes)]
<1>1. DOMAIN bytes = 1 .. Len(bytes)
  BY LenProperties
<1> QED
  BY <1>1 DEF WriteFrom, FoldLeft, MapThenFoldSet, WriteFold

\* What a write leaves: the copies are kept, the handle has its type.
LEMMA Written ==
  ASSUME NEW d, NEW w \in Writing(d)
  PROVE  WriteFrom(w.images, w.h, w.todo) \in Writing(d)
<1> DEFINE S == Writing(d)
           n == Len(w.todo)
           base == w
           F == [x \in S \X (1 .. n) |-> WriteChunk(x[1])]
<1>1. n \in Nat /\ w.todo \in Seq(Bytes) /\ w = [images |-> w.images, h |-> w.h, todo |-> w.todo]
  BY LenProperties DEF Writing
<1>2. base \in S
  OBVIOUS
<1>3. ASSUME NEW s \in S
      PROVE  WriteChunk(s) \in S
  BY ChunkWritten
<1>4. F \in [S \X (1 .. n) -> S]
  BY <1>3
<1>5. \A s \in S, i \in 1 .. n : F[<<s, i>>] = WriteChunk(s)
  OBVIOUS
<1> HIDE DEF F, S, base, n
<1>6. \E g : WriteFold(g, base, n)
  <2>1. PICK g \in [SUBSET (1 .. n) -> S] : IsFold(g, base, F, n)
    BY <1>1, <1>2, <1>4, FoldExists
  <2>2. ASSUME NEW t \in SUBSET (1 .. n), t # {}
        PROVE  F[<<g[t \ {Max(t)}], Max(t)>>] = WriteChunk(g[t \ {Max(t)}])
    BY <1>1, <1>5, <2>1, <2>2, MaxIn
  <2>3. \A t \in SUBSET (1 .. n) : g[t] = IF t = {} THEN base ELSE WriteChunk(g[t \ {Max(t)}])
    BY <2>1, <2>2 DEF IsFold
  <2>4. WriteFold(g, base, n)
    BY <2>1, <2>3 DEF WriteFold
  <2> QED
    BY <2>4
<1>7. PICK g : WriteFold(g, base, n) /\ WriteFrom(w.images, w.h, w.todo) = g[1 .. n]
  <2>1. WriteFrom(w.images, w.h, w.todo) = (CHOOSE g : WriteFold(g, base, n))[1 .. n]
    BY <1>1, WriteFoldIs DEF base, n
  <2> QED
    BY <1>6, <2>1
<1>8. g[1 .. 0] \in S
  BY <1>2, <1>7 DEF WriteFold
<1>9. \A k \in 1 .. n : g[1 .. k - 1] \in S => g[1 .. k] \in S
  <2>1. ASSUME NEW k \in 1 .. n, g[1 .. k - 1] \in S
        PROVE  g[1 .. k] \in S
    <3>1. 1 .. k \in SUBSET (1 .. n) /\ 1 .. k # {} /\ (1 .. k) \ {Max(1 .. k)} = 1 .. k - 1
      BY <1>1, UpTo
    <3>2. g[1 .. k] = WriteChunk(g[(1 .. k) \ {Max(1 .. k)}])
      BY <1>7, <3>1 DEF WriteFold
    <3> QED
      BY <1>3, <2>1, <3>1, <3>2
  <2> QED
    BY <2>1
<1>10. \A k \in 0 .. n : g[1 .. k] \in S
  BY <1>1, <1>8, <1>9, FoldStays
<1>11. g[1 .. n] \in S
  BY <1>1, <1>10
<1> QED
  BY <1>7, <1>11 DEF S

-----------------------------------------------------------------------------
(* The chain of a cluster *)

\* A chain from c: each cluster is the one that the FAT leads to from the one
\* before.
Chains(d, c) ==
  {s \in Seq(Clusters) :
     /\ Len(s) >= 1 /\ s[1] = c
     /\ \A i \in 1 .. Len(s) - 1 : s[i + 1] = fat32_next_cluster(d, s[i])}

ChainStep(s, i, d) ==
  IF Len(s) < i THEN s ELSE NextOf(d, s, fat32_next_cluster(d, Last(s)))
ChainFold(g, base, n, d) ==
  g = [t \in SUBSET (1 .. n) |->
         IF t = {} THEN base ELSE ChainStep(g[t \ {Max(t)}], Count(n)[Max(t)], d)]

\* Chain as a fold.
LEMMA ChainFoldIs ==
  ASSUME NEW d, NEW c, c # 0
  PROVE  Chain(d, c) = (CHOOSE g : ChainFold(g, <<c>>, TotalClusters, d))[1 .. TotalClusters]
<1>1. DOMAIN [i \in 1 .. TotalClusters |-> i] = 1 .. TotalClusters
  OBVIOUS
<1> QED
  BY <1>1 DEF Chain, FoldLeft, MapThenFoldSet, ChainFold, ChainStep, Count

\* The chain that the functions follow is one, and ends unless it is too long.
LEMMA ChainIsOne ==
  ASSUME NEW d \in Disks, NEW c \in Clusters
  PROVE  /\ Chain(d, c) \in Chains(d, c) /\ Len(Chain(d, c)) <= TotalClusters + 1
         /\ Len(Chain(d, c)) <= TotalClusters => fat32_next_cluster(d, Last(Chain(d, c))) = 0
<1> DEFINE S == Chains(d, c)
           n == TotalClusters
           base == <<c>>
           F == [x \in S \X (1 .. n) |-> ChainStep(x[1], Count(n)[x[2]], d)]
<1>1. n \in Nat /\ c # 0 /\ \A i \in 1 .. n : Count(n)[i] = i
  BY DiskAssumption DEF Clusters, Count
<1>2. base \in S
  <2>1. base \in Seq(Clusters) /\ Len(base) = 1 /\ base[1] = c
    OBVIOUS
  <2> HIDE DEF base
  <2>2. \A i \in 1 .. Len(base) - 1 : base[i + 1] = fat32_next_cluster(d, base[i])
    BY <2>1
  <2>3. Len(base) >= 1
    BY <2>1
  <2> QED
    BY <2>1, <2>2, <2>3 DEF Chains
<1>3. ASSUME NEW s \in S, NEW i \in 1 .. n
      PROVE  /\ ChainStep(s, Count(n)[i], d) \in S
             /\ \/ /\ ChainStep(s, Count(n)[i], d) = s
                   /\ Len(s) < i \/ fat32_next_cluster(d, Last(s)) = 0
                \/ Len(s) >= i /\ Len(ChainStep(s, Count(n)[i], d)) = Len(s) + 1
  <2> DEFINE next == fat32_next_cluster(d, Last(s))
             m == Len(s)
             r == Append(s, next)
  <2>1. s \in Seq(Clusters) /\ m \in Nat /\ m >= 1 /\ s[1] = c
    BY LenProperties DEF Chains
  <2>2. \A k \in 1 .. m - 1 : s[k + 1] = fat32_next_cluster(d, s[k])
    BY DEF Chains
  <2>3. Last(s) \in Clusters /\ Last(s) = s[m]
    BY <2>1, ElementOfSeq DEF Last
  <2>4. next \in {0} \cup Clusters
    BY <2>3, LinksLead
  <2>5. next = fat32_next_cluster(d, s[m])
    BY <2>3
  <2> HIDE DEF next, m
  <2>6. ASSUME next # 0
        PROVE  r \in S /\ Len(r) = Len(s) + 1
    <3>1. r \in Seq(Clusters) /\ Len(r) = m + 1 /\ r[m + 1] = next /\ \A k \in 1 .. m : r[k] = s[k]
      BY <2>1, <2>4, <2>6, AppendProperties DEF m
    <3> HIDE DEF r
    <3>2. r[1] = c /\ Len(r) >= 1
      BY <2>1, <3>1
    <3>3. ASSUME NEW k \in 1 .. (m + 1) - 1
          PROVE  r[k + 1] = fat32_next_cluster(d, r[k])
      <4>1. CASE k = m
        BY <2>1, <2>5, <3>1, <4>1
      <4>2. CASE k # m
        <5>1. k \in 1 .. m - 1 /\ k \in 1 .. m /\ k + 1 \in 1 .. m
          BY <2>1, <4>2
        <5> QED
          BY <2>2, <3>1, <5>1
      <4> QED
        BY <4>1, <4>2
    <3> QED
      BY <3>1, <3>2, <3>3 DEF Chains, m
  <2>7. ChainStep(s, Count(n)[i], d) = IF Len(s) < i THEN s ELSE IF next = 0 THEN s ELSE r
    BY <1>1 DEF ChainStep, NextOf, next
  <2> HIDE DEF r
  <2>8. i \in Nat /\ Len(s) \in Nat
    BY <1>1, <2>1 DEF m
  <2>9. next = 0 => fat32_next_cluster(d, Last(s)) = 0
    BY DEF next
  <2> QED
    BY <2>6, <2>7, <2>8, <2>9
<1>4. F \in [S \X (1 .. n) -> S]
  BY <1>3
<1>5. \A s \in S, i \in 1 .. n : F[<<s, i>>] = ChainStep(s, Count(n)[i], d)
  OBVIOUS
<1> HIDE DEF F, S, base, n
<1>6. \E g : ChainFold(g, base, n, d)
  <2>1. PICK g \in [SUBSET (1 .. n) -> S] : IsFold(g, base, F, n)
    BY <1>1, <1>2, <1>4, FoldExists
  <2>2. ASSUME NEW t \in SUBSET (1 .. n), t # {}
        PROVE  F[<<g[t \ {Max(t)}], Max(t)>>] = ChainStep(g[t \ {Max(t)}], Count(n)[Max(t)], d)
    BY <1>1, <1>5, <2>1, <2>2, MaxIn
  <2>3. \A t \in SUBSET (1 .. n) :
          g[t] = IF t = {} THEN base ELSE ChainStep(g[t \ {Max(t)}], Count(n)[Max(t)], d)
    BY <2>1, <2>2 DEF IsFold
  <2>4. ChainFold(g, base, n, d)
    BY <2>1, <2>3 DEF ChainFold
  <2> QED
    BY <2>4
<1>7. PICK g : ChainFold(g, base, n, d) /\ Chain(d, c) = g[1 .. n]
  <2>1. Chain(d, c) = (CHOOSE g : ChainFold(g, base, n, d))[1 .. n]
    BY <1>1, ChainFoldIs DEF base, n
  <2> QED
    BY <1>6, <2>1
<1> DEFINE Ends(s, k) == /\ s \in S /\ Len(s) <= k + 1
                         /\ Len(s) <= k => fat32_next_cluster(d, Last(s)) = 0
           T == {k \in 0 .. n : Ends(g[1 .. k], k)}
<1>8. 0 \in T
  <2>1. g[1 .. 0] = base
    BY <1>7 DEF ChainFold
  <2>2. Len(base) = 1
    BY DEF base
  <2>3. Len(base) <= 0 + 1 /\ ~(Len(base) <= 0)
    BY <2>2
  <2>4. Ends(g[1 .. 0], 0)
    BY <1>2, <2>1, <2>3
  <2> QED
    BY <1>1, <2>4
<1>9. ASSUME NEW k \in 0 .. n - 1, k \in T
      PROVE  k + 1 \in T
  <2> DEFINE i == k + 1
             s == g[1 .. k]
             r == g[1 .. i]
  <2>1. i \in 1 .. n /\ i - 1 = k /\ i \in 0 .. n /\ k \in Nat /\ i = k + 1
    BY <1>1
  <2>2. s \in S /\ Len(s) <= k + 1 /\ (Len(s) <= k => fat32_next_cluster(d, Last(s)) = 0)
    BY <1>9
  <2>3. Len(s) \in Nat
    BY <2>2, LenProperties DEF S, Chains
  <2>4. /\ 1 .. i \in SUBSET (1 .. n) /\ 1 .. i # {}
        /\ (1 .. i) \ {Max(1 .. i)} = 1 .. i - 1 /\ Max(1 .. i) = i
    BY <1>1, <2>1, UpTo
  <2>5. r = ChainStep(g[(1 .. i) \ {Max(1 .. i)}], Count(n)[Max(1 .. i)], d)
    BY <1>7, <2>4 DEF ChainFold
  <2>6. r = ChainStep(s, Count(n)[i], d)
    BY <2>1, <2>4, <2>5
  <2> HIDE DEF r, s, i
  <2>7. /\ r \in S
        /\ \/ r = s /\ (Len(s) < i \/ fat32_next_cluster(d, Last(s)) = 0)
           \/ Len(s) >= i /\ Len(r) = Len(s) + 1
    BY <1>3, <2>1, <2>2, <2>6
  <2>8. Ends(r, i)
    <3>1. CASE r = s /\ (Len(s) < i \/ fat32_next_cluster(d, Last(s)) = 0)
      <4>1. Len(r) <= i + 1
        BY <2>1, <2>2, <2>3, <3>1
      <4>2. Len(s) < i => Len(s) <= k
        BY <2>1, <2>3
      <4> QED
        BY <2>2, <2>7, <3>1, <4>1, <4>2
    <3>2. CASE Len(s) >= i /\ Len(r) = Len(s) + 1
      <4>1. Len(r) <= i + 1 /\ ~(Len(r) <= i)
        BY <2>1, <2>2, <2>3, <3>2
      <4> QED
        BY <2>7, <4>1
    <3> QED
      BY <2>7, <3>1, <3>2
  <2> QED
    BY <2>1, <2>8 DEF r
<1> HIDE DEF T
<1>10. \A k \in 0 .. n : k \in T
  BY <1>1, <1>8, <1>9, ByCounting
<1>11. Ends(g[1 .. n], n)
  BY <1>1, <1>10 DEF T
<1> QED
  BY <1>7, <1>11 DEF S, n

\* What a handle that is in its place stands on.
LEMMA ChainIs ==
  ASSUME NEW d \in Disks, NEW c \in {0} \cup Clusters
  PROVE  /\ Chain(d, c) \in Seq(Clusters) /\ Len(Chain(d, c)) \in Nat
         /\ \A i \in 1 .. Len(Chain(d, c)) : Chain(d, c)[i] \in Clusters
         /\ \A i \in 1 .. Len(Chain(d, c)) - 1 : Chain(d, c)[i + 1] = fat32_next_cluster(d, Chain(d, c)[i])
<1>1. CASE c = 0
  <2>1. Chain(d, c) = <<>>
    BY <1>1 DEF Chain
  <2>2. <<>> \in Seq(Clusters) /\ Len(<<>>) = 0
    BY EmptySeq
  <2>3. \A i : ~(i \in 1 .. 0) /\ ~(i \in 1 .. 0 - 1)
    OBVIOUS
  <2> QED
    BY <2>1, <2>2, <2>3
<1>2. CASE c \in Clusters
  <2> DEFINE s == Chain(d, c)
  <2>1. s \in Chains(d, c)
    BY <1>2, ChainIsOne
  <2> HIDE DEF s
  <2>2. s \in Seq(Clusters) /\ \A i \in 1 .. Len(s) - 1 : s[i + 1] = fat32_next_cluster(d, s[i])
    BY <2>1 DEF Chains
  <2>3. Len(s) \in Nat /\ \A i \in 1 .. Len(s) : s[i] \in Clusters
    BY <2>2, LenProperties, ElementOfSeq
  <2> QED
    BY <2>2, <2>3 DEF s
<1> QED
  BY <1>1, <1>2

-----------------------------------------------------------------------------
(* Directories *)

\* Where the x-th of n runs of b elements lies.
LEMMA Division ==
  ASSUME NEW b \in Nat \ {0}, NEW n \in Nat, NEW x \in Nat, x < b * n
  PROVE  (x \div b) \in 0 .. n - 1 /\ (x % b) \in 0 .. b - 1 /\ x = (b * (x \div b)) + (x % b)
<1> DEFINE q == x \div b
           r == x % b
<1>1. q \in Int /\ r \in 0 .. b - 1 /\ x = (b * q) + r
  OBVIOUS
<1> HIDE DEF q, r
<1>2. q >= 0
  <2>1. SUFFICES ASSUME q <= 0 - 1 PROVE FALSE
    BY <1>1
  <2>2. b * q <= b * (0 - 1)
    BY <1>1, <2>1
  <2> QED
    BY <1>1, <2>2
<1>3. q < n
  <2>1. SUFFICES ASSUME q >= n PROVE FALSE
    BY <1>1
  <2>2. b * q >= b * n
    BY <1>1, <2>1
  <2> QED
    BY <1>1, <2>2
<1> QED
  BY <1>1, <1>2, <1>3 DEF q, r

\* The slots of a directory are entries.
LEMMA SlotTypes ==
  ASSUME NEW d \in Disks, NEW c \in {0} \cup Clusters
  PROVE  AllSlots(d, c) \in Seq(Entries)
<1> DEFINE chain == Chain(d, c)
           m == Len(chain)
           n == SlotCount * m
           slot(k) == d.dir[chain[((k - 1) \div SlotCount) + 1]][((k - 1) % SlotCount) + 1]
<1>1. m \in Nat /\ \A i \in 1 .. m : chain[i] \in Clusters
  BY ChainIs
<1>2. SlotCount \in Nat \ {0} /\ d.dir \in [Clusters -> [1 .. SlotCount -> Entries]]
  BY DiskAssumption, DiskParts
<1> HIDE DEF chain, m
<1>3. n \in Nat
  BY <1>1, <1>2
<1>4. ASSUME NEW k \in 1 .. n
      PROVE  slot(k) \in Entries
  <2> DEFINE x == k - 1
             q == x \div SlotCount
             r == x % SlotCount
  <2>1. x \in Nat /\ x < SlotCount * m
    BY <1>3
  <2> HIDE DEF x
  <2>2. q \in 0 .. m - 1 /\ r \in 0 .. SlotCount - 1
    BY <1>1, <1>2, <2>1, Division
  <2> HIDE DEF q, r
  <2>3. q + 1 \in 1 .. m /\ r + 1 \in 1 .. SlotCount
    BY <1>1, <1>2, <2>2
  <2>4. d.dir[chain[q + 1]][r + 1] \in Entries
    BY <1>1, <1>2, <2>3
  <2> QED
    BY <2>4 DEF q, r, x
<1> HIDE DEF n, slot
<1>5. [k \in 1 .. n |-> slot(k)] \in Seq(Entries)
  BY <1>3, <1>4
<1> QED
  BY <1>5 DEF AllSlots, slot, n, m, chain

\* What a listing looks at are slots.
LEMMA ListedTypes ==
  ASSUME NEW d \in Disks, NEW c \in {0} \cup Clusters
  PROVE  Slots(d, c) \in Seq(Entries)
<1> DEFINE all == AllSlots(d, c)
           front == Front(all)
           ends == {i \in DOMAIN front : front[i].name[1] = END}
           last == Min(ends \cup {Len(front) + 1})
<1>1. all \in Seq(Entries) /\ Len(all) \in Nat
  BY SlotTypes, LenProperties
<1> HIDE DEF all
<1>2. front \in Seq(Entries) /\ Len(front) \in Nat
  <2>1. Len(all) - 1 \in Int /\ Len(all) - 1 <= Len(all)
    BY <1>1
  <2>2. SubSeq(all, 1, Len(all) - 1) \in Seq(Entries)
    BY <1>1, <2>1, Pieces
  <2> QED
    BY <2>2, LenProperties DEF Front
<1> HIDE DEF front
<1>3. last - 1 \in Int /\ last - 1 <= Len(front)
  <2>1. ends \in SUBSET Nat
    BY <1>2, LenProperties
  <2> HIDE DEF ends
  <2> DEFINE m == Len(front) + 1
             all2 == ends \cup {m}
  <2>2. m \in Nat
    BY <1>2
  <2> HIDE DEF m
  <2>3. all2 \in SUBSET Nat /\ m \in all2 /\ all2 # {}
    BY <2>1, <2>2
  <2> HIDE DEF all2
  <2>4. Min(all2) \in Nat /\ Min(all2) <= m
    BY <2>3, MinIs
  <2>5. last \in Nat /\ last <= Len(front) + 1
    BY <2>4 DEF all2, m
  <2> HIDE DEF last
  <2> QED
    BY <1>2, <2>5
<1> HIDE DEF last
<1>4. SubSeq(front, 1, last - 1) \in Seq(Entries)
  BY <1>2, <1>3, Pieces
<1> QED
  BY <1>4 DEF Slots, BeforeEnd, last, ends, front, all

\* An entry that was never used.
LEMMA ZeroEntryIsOne == ZeroEntry \in Entries
<1>1. MaxSize \in Nat
  BY Fat32Assumption
<1> QED
  BY <1>1 DEF ZeroEntry, Entry, Entries, END

\* What is found is an entry.
LEMMA FoundTypes ==
  ASSUME NEW d \in Disks, NEW c \in {0} \cup Clusters, NEW name
  PROVE  fat32_find_file(d, c, name) \in Entries
<1> DEFINE slots == Slots(d, c)
           I == {i \in 1 .. Len(slots) : Used(slots[i]) /\ slots[i].attributes # ATTR_VOLUME_ID
                                         /\ slots[i].name = name}
           k == IF I # {} THEN Min(I) ELSE 0
<1>1. slots \in Seq(Entries) /\ Len(slots) \in Nat
  BY ListedTypes, LenProperties
<1>2. fat32_find_file(d, c, name) = EntryOr(slots, k)
  BY DEF fat32_find_file, SelectInSeq
<1> HIDE DEF slots
<1>3. k \in 0 .. Len(slots)
  <2>1. I \in SUBSET Nat /\ I \in SUBSET (1 .. Len(slots))
    BY <1>1
  <2> HIDE DEF I
  <2>2. I # {} => Min(I) \in 1 .. Len(slots)
    BY <2>1, MinIs
  <2> QED
    BY <1>1, <2>2
<1> HIDE DEF k
<1>4. EntryOr(slots, k) \in Entries
  BY <1>1, <1>3, ZeroEntryIsOne, ElementOfSeq DEF EntryOr
<1> QED
  BY <1>2, <1>4

\* Handles as they are opened.
Opened == {h \in Handles : h.file_offset = 0}

\* What Handle returns.
LEMMA OpenedIs ==
  ASSUME NEW ctx \in BOOLEAN, NEW c \in {0} \cup Clusters, NEW size \in 0 .. MaxSize,
         NEW dir \in BOOLEAN
  PROVE  /\ Handle(ctx, c, size, dir) \in Opened /\ Handle(ctx, c, size, dir).ctx = ctx
         /\ Handle(ctx, c, size, dir).size = size /\ Handle(ctx, c, size, dir).file_offset = 0
BY DEF Handle, Opened, Handles

\* The handle of a path that was not found.
LEMMA NoFileIs == NoFile \in Opened /\ NoFile.ctx = FALSE /\ NoFile.size = 0
<1>1. 0 \in 0 .. MaxSize /\ 0 \in {0} \cup Clusters /\ FALSE \in BOOLEAN
  BY Fat32Assumption
<1>2. /\ Handle(FALSE, 0, 0, FALSE) \in Opened /\ Handle(FALSE, 0, 0, FALSE).ctx = FALSE
      /\ Handle(FALSE, 0, 0, FALSE).size = 0
  BY <1>1, OpenedIs, Zenon
<1> QED
  BY <1>2 DEF NoFile

\* A component of a path is entered.
LEMMA EnterTypes ==
  ASSUME NEW h, NEW e \in Entries
  PROVE  Enter(h, e) \in Opened
<1> DEFINE n == IF IsDir(e) THEN 0 ELSE e.file_size
<1>1. e.first_cluster \in {0} \cup Clusters /\ e.file_size \in 0 .. MaxSize
  BY DEF Entries
<1>2. n \in 0 .. MaxSize /\ IsDir(e) \in BOOLEAN
  BY <1>1, Fat32Assumption DEF IsDir
<1> HIDE DEF n
<1>3. Handle(TRUE, e.first_cluster, n, IsDir(e)) \in Opened
  BY <1>1, <1>2, OpenedIs
<1> QED
  BY <1>3, NoFileIs DEF Enter, n

\* The walk along a path.
Walk(h, d, name) ==
  IF h.ctx /\ h.is_dir THEN Enter(h, fat32_find_file(d, h.start_cluster, name)) ELSE h
WalkFold(g, base, n, d, p) ==
  g = [t \in SUBSET (1 .. n) |->
         IF t = {} THEN base ELSE Walk(g[t \ {Max(t)}], d, p[Max(t)])]

\* fat32_open_file as a fold.
LEMMA WalkFoldIs ==
  ASSUME NEW d, NEW p \in Seq(Nat \X Nat)
  PROVE  fat32_open_file(d, p)
           = (CHOOSE g : WalkFold(g, Handle(TRUE, root_cluster, 0, TRUE), Len(p), d, p))[1 .. Len(p)]
<1>1. DOMAIN p = 1 .. Len(p)
  BY LenProperties
<1> QED
  BY <1>1 DEF fat32_open_file, FoldLeft, MapThenFoldSet, WalkFold, Walk

\* A handle that was opened has its type and is at its start.
LEMMA OpenTypes ==
  ASSUME NEW d \in Disks, NEW p \in Seq(Nat \X Nat)
  PROVE  fat32_open_file(d, p) \in Opened
<1> DEFINE S == Opened
           n == Len(p)
           base == Handle(TRUE, root_cluster, 0, TRUE)
           F == [x \in S \X (1 .. n) |-> Walk(x[1], d, p[x[2]])]
<1>1. n \in Nat
  BY LenProperties
<1>2. base \in S
  <2>1. root_cluster \in {0} \cup Clusters /\ 0 \in 0 .. MaxSize
    BY DiskAssumption, Fat32Assumption DEF root_cluster, Clusters
  <2> QED
    BY <2>1, OpenedIs
<1>3. ASSUME NEW s \in S, NEW i \in 1 .. n
      PROVE  Walk(s, d, p[i]) \in S
  <2>1. s.start_cluster \in {0} \cup Clusters
    BY DEF Opened, Handles
  <2> QED
    BY <2>1, FoundTypes, EnterTypes DEF Walk
<1>4. F \in [S \X (1 .. n) -> S]
  BY <1>3
<1>5. \A s \in S, i \in 1 .. n : F[<<s, i>>] = Walk(s, d, p[i])
  OBVIOUS
<1> HIDE DEF F, S, base, n
<1>6. \E g : WalkFold(g, base, n, d, p)
  <2>1. PICK g \in [SUBSET (1 .. n) -> S] : IsFold(g, base, F, n)
    BY <1>1, <1>2, <1>4, FoldExists
  <2>2. ASSUME NEW t \in SUBSET (1 .. n), t # {}
        PROVE  F[<<g[t \ {Max(t)}], Max(t)>>] = Walk(g[t \ {Max(t)}], d, p[Max(t)])
    BY <1>1, <1>5, <2>1, <2>2, MaxIn
  <2>3. \A t \in SUBSET (1 .. n) : g[t] = IF t = {} THEN base ELSE Walk(g[t \ {Max(t)}], d, p[Max(t)])
    BY <2>1, <2>2 DEF IsFold
  <2>4. WalkFold(g, base, n, d, p)
    BY <2>1, <2>3 DEF WalkFold
  <2> QED
    BY <2>4
<1>7. PICK g : WalkFold(g, base, n, d, p) /\ fat32_open_file(d, p) = g[1 .. n]
  <2>1. fat32_open_file(d, p) = (CHOOSE g : WalkFold(g, base, n, d, p))[1 .. n]
    BY <1>1, WalkFoldIs DEF base, n
  <2> QED
    BY <1>6, <2>1
<1>8. g[1 .. 0] \in S
  BY <1>2, <1>7 DEF WalkFold
<1>9. \A k \in 1 .. n : g[1 .. k - 1] \in S => g[1 .. k] \in S
  <2>1. ASSUME NEW k \in 1 .. n, g[1 .. k - 1] \in S
        PROVE  g[1 .. k] \in S
    <3>1. /\ 1 .. k \in SUBSET (1 .. n) /\ 1 .. k # {}
          /\ (1 .. k) \ {Max(1 .. k)} = 1 .. k - 1 /\ Max(1 .. k) = k
      BY <1>1, UpTo
    <3>2. g[1 .. k] = Walk(g[(1 .. k) \ {Max(1 .. k)}], d, p[Max(1 .. k)])
      BY <1>7, <3>1 DEF WalkFold
    <3> QED
      BY <1>3, <2>1, <3>1, <3>2
  <2> QED
    BY <2>1
<1>10. \A k \in 0 .. n : g[1 .. k] \in S
  BY <1>1, <1>8, <1>9, FoldStays
<1>11. g[1 .. n] \in S
  BY <1>1, <1>10
<1> QED
  BY <1>7, <1>11 DEF S

-----------------------------------------------------------------------------
(* Entries are written *)

\* What Entry returns.
LEMMA EntryTypes ==
  ASSUME NEW name \in Nat \X Nat,
         NEW attrs \in {"none", ATTR_ARCHIVE, ATTR_DIRECTORY, ATTR_VOLUME_ID},
         NEW c \in {0} \cup Clusters, NEW size \in 0 .. MaxSize
  PROVE  Entry(name, attrs, c, size) \in Entries
BY DEF Entry, Entries

\* A slot that is written, of a cluster or of none.
SlotPut(d, c, i, e) == [d EXCEPT !.dir[c][i] = e]

\* A write to a slot changes nothing else of the disk.
LEMMA SlotWritten ==
  ASSUME NEW d \in Disks, NEW c, NEW i, NEW e, c \in Clusters => e \in Entries
  PROVE  SlotPut(d, c, i, e) \in Disks /\ SlotPut(d, c, i, e).fat = d.fat
<1> DEFINE Dir == [1 .. SlotCount -> Entries]
           dir == [d.dir EXCEPT ![c][i] = e]
<1>1. /\ d.dir \in [Clusters -> Dir]
      /\ d = [fat |-> d.fat, dir |-> d.dir, data |-> d.data]
  BY DiskParts
<1>2. SlotPut(d, c, i, e) = [fat |-> d.fat, dir |-> dir, data |-> d.data]
  BY <1>1 DEF SlotPut
<1>3. dir \in [Clusters -> Dir]
  <2>1. CASE c \in Clusters
    <3>1. d.dir[c] \in Dir /\ e \in Entries
      BY <1>1, <2>1
    <3>2. [d.dir[c] EXCEPT ![i] = e] \in Dir
      BY <3>1
    <3> QED
      BY <1>1, <3>2
  <2>2. CASE c \notin Clusters
    <3>1. dir = d.dir
      BY <1>1, <2>2
    <3> QED
      BY <1>1, <3>1
  <2> QED
    BY <2>1, <2>2
<1> HIDE DEF dir
<1>4. [fat |-> d.fat, dir |-> dir, data |-> d.data] \in Disks
  BY <1>3, DiskParts DEF Disks
<1> QED
  BY <1>2, <1>4

\* SetSlot writes one sector and no FAT.
LEMMA SlotSet ==
  ASSUME NEW d, NEW images \in ImagesAfter(d), NEW c, NEW i, NEW e, c \in Clusters => e \in Entries
  PROVE  SetSlot(images, c, i, e) \in ImagesAfter(d)
<1> DEFINE b == Last(images)
           put == SlotPut(b, c, i, e)
<1>1. b \in Disks
  BY ImagesGrow DEF ImagesAfter
<1> HIDE DEF b
<1>2. put \in Disks /\ put.fat = b.fat
  BY <1>1, SlotWritten
<1> HIDE DEF put
<1>3. WriteSector(images, put) \in ImagesAfter(d)
  BY <1>2, SectorWrittenAfter DEF b
<1> QED
  BY <1>3 DEF SetSlot, put, SlotPut, b

\* The slot that a loop stops at is one it looks at.
LEMMA FirstSlotSet ==
  ASSUME NEW d, NEW images \in ImagesAfter(d), NEW c, NEW slots \in SUBSET (1 .. SlotCount), NEW changed,
         c \in Clusters => \A i \in 1 .. SlotCount : changed[i] \in Entries
  PROVE  InFirstSlot(images, c, slots, changed) \in ImagesAfter(d)
<1>1. ASSUME slots # {}
      PROVE  Min(slots) \in 1 .. SlotCount
  <2>1. slots \in SUBSET Nat
    BY DiskAssumption
  <2> QED
    BY <1>1, <2>1, MinIs
<1>2. ASSUME slots # {}
      PROVE  SetSlot(images, c, Min(slots), changed[Min(slots)]) \in ImagesAfter(d)
  <2> DEFINE k == Min(slots)
             new == changed[k]
  <2>1. k \in 1 .. SlotCount
    BY <1>1, <1>2
  <2> HIDE DEF k
  <2>2. c \in Clusters => new \in Entries
    BY <2>1
  <2> HIDE DEF new
  <2>3. SetSlot(images, c, k, new) \in ImagesAfter(d)
    BY <2>2, SlotSet
  <2> QED
    BY <2>3 DEF new, k
<1> QED
  BY <1>2 DEF InFirstSlot

\* create_direntry writes an entry into a slot, or nothing.
LEMMA EntryCreated ==
  ASSUME NEW d, NEW images \in ImagesAfter(d), NEW c, NEW entry \in Entries
  PROVE  create_direntry(images, c, entry) \in ImagesAfter(d)
<1> DEFINE slots == FreeSlots(SlotsOf(images, c))
           changed == [i \in 1 .. SlotCount |-> entry]
<1>1. slots \in SUBSET (1 .. SlotCount)
  BY DEF FreeSlots
<1>2. c \in Clusters => \A i \in 1 .. SlotCount : changed[i] \in Entries
  OBVIOUS
<1> HIDE DEF slots, changed
<1>3. InFirstSlot(images, c, slots, changed) \in ImagesAfter(d)
  BY <1>1, <1>2, FirstSlotSet
<1> QED
  BY <1>3 DEF create_direntry, slots, changed

\* A file, and a directory.
LEMMA FileMade ==
  ASSUME NEW d \in Disks, NEW parent, NEW entry \in Entries
  PROVE  MakeEntry(d, parent, entry) \in ImagesAfter(d)
BY FirstImage, EntryCreated DEF MakeEntry

\* The entries of a new directory.
LEMMA DotsWritten ==
  ASSUME NEW d, NEW images \in ImagesAfter(d), NEW new \in Clusters, NEW parent \in {0} \cup Clusters
  PROVE  WriteDots(images, new, parent) \in ImagesAfter(d)
<1> DEFINE b == Last(images)
           dots == DotEntries(new, parent)
           e == [b EXCEPT !.dir[new] = dots]
           Dir == [1 .. SlotCount -> Entries]
<1>1. b \in Disks
  BY ImagesGrow DEF ImagesAfter
<1>2. dots \in Dir
  <2>1. 0 \in 0 .. MaxSize /\ <<DOT, 0>> \in Nat \X Nat /\ <<DOT, DOT>> \in Nat \X Nat
    BY Fat32Assumption DEF DOT
  <2>2. ZeroDir \in Dir
    BY ZeroEntryIsOne DEF ZeroDir
  <2>3. /\ Entry(<<DOT, 0>>, ATTR_DIRECTORY, new, 0) \in Entries
        /\ Entry(<<DOT, DOT>>, ATTR_DIRECTORY, parent, 0) \in Entries
    BY <2>1, EntryTypes
  <2> QED
    BY <2>2, <2>3 DEF DotEntries
<1> HIDE DEF b, dots
<1>3. /\ b.dir \in [Clusters -> Dir]
      /\ b = [fat |-> b.fat, dir |-> b.dir, data |-> b.data]
  BY <1>1, DiskParts
<1>4. e = [fat |-> b.fat, dir |-> [b.dir EXCEPT ![new] = dots], data |-> b.data]
  BY <1>3
<1>5. [b.dir EXCEPT ![new] = dots] \in [Clusters -> Dir]
  BY <1>2, <1>3
<1> HIDE DEF e
<1>6. e \in Disks /\ e.fat = b.fat
  BY <1>1, <1>4, <1>5, DiskParts DEF Disks
<1>7. WriteSector(images, e) \in ImagesAfter(d)
  BY <1>6, SectorWrittenAfter DEF b
<1> QED
  BY <1>7 DEF WriteDots, e, b, dots

\* fat32_mkdir, from the directory above on.
LEMMA DirectoryMade ==
  ASSUME NEW d \in Disks, NEW parent \in Handles, NEW name \in Nat \X Nat, NEW new \in {0} \cup Clusters
  PROVE  MakeDirectory(d, parent, name, new) \in ImagesAfter(d)
<1>1. CASE new \in Clusters
  <2> DEFINE marked == set_fat_entry(Unwritten(d), new, FAT32_EOC)
             dotted == WriteDots(marked, new, parent.start_cluster)
             entry == Entry(name, ATTR_DIRECTORY, new, 0)
  <2>1. parent.start_cluster \in {0} \cup Clusters
    BY HandleTypes
  <2>2. marked \in ImagesAfter(d)
    BY FirstImage, EntrySetAfter DEF Links
  <2> HIDE DEF marked
  <2>3. dotted \in ImagesAfter(d)
    BY <1>1, <2>1, <2>2, DotsWritten
  <2>4. 0 \in 0 .. MaxSize
    BY Fat32Assumption
  <2>5. entry \in Entries
    BY <2>4, EntryTypes
  <2> HIDE DEF dotted, entry
  <2>6. create_direntry(dotted, parent.current_cluster, entry) \in ImagesAfter(d)
    BY <2>3, <2>5, EntryCreated
  <2> QED
    BY <2>6, FirstImage DEF MakeDirectory, dotted, entry, marked
<1>2. CASE new = 0
  BY <1>2, FirstImage DEF MakeDirectory
<1> QED
  BY <1>1, <1>2

\* An entry that is marked as deleted, and one that is changed.
LEMMA DeletedTypes ==
  ASSUME NEW e \in Entries
  PROVE  MarkDeleted(e) \in Entries
<1>1. PICK a \in Nat, b \in Nat : e.name = <<a, b>>
  BY DEF Entries
<1>2. [e.name EXCEPT ![1] = DELETED] = <<DELETED, b>>
  BY <1>1
<1>3. <<DELETED, b>> \in Nat \X Nat
  BY DEF DELETED
<1>4. [e.name EXCEPT ![1] = DELETED] \in Nat \X Nat
  BY <1>2, <1>3
<1> QED
  BY <1>4 DEF MarkDeleted, Entries

\* fat32_remove, from the directory above on.
LEMMA RemovedEntry ==
  ASSUME NEW d \in Disks, NEW parent \in Handles, NEW entry
  PROVE  RemoveEntry(d, parent, entry) \in ImagesAfter(d)
<1> DEFINE c == parent.current_cluster
           slots == {i \in 1 .. SlotCount : memcmp_is_zero(d.dir[c][i].name, entry.name)}
           changed == Deleted(d.dir[c])
<1>1. slots \in SUBSET (1 .. SlotCount)
  OBVIOUS
<1>2. ASSUME c \in Clusters, NEW i \in 1 .. SlotCount
      PROVE  changed[i] \in Entries
  <2>1. d.dir \in [Clusters -> [1 .. SlotCount -> Entries]]
    BY DiskParts
  <2>2. d.dir[c] \in [1 .. SlotCount -> Entries]
    BY <1>2, <2>1
  <2>3. d.dir[c][i] \in Entries
    BY <2>2
  <2> QED
    BY <2>3, DeletedTypes DEF Deleted
<1> HIDE DEF slots, changed, c
<1>3. InFirstSlot(Unwritten(d), c, slots, changed) \in ImagesAfter(d)
  BY <1>1, <1>2, FirstImage, FirstSlotSet
<1> QED
  BY <1>3, FirstImage DEF RemoveEntry, slots, changed, c

\* fat32_update_file_entry, from the directory above on.
LEMMA UpdatedEntry ==
  ASSUME NEW d \in Disks, NEW parent, NEW name, NEW start \in {0} \cup Clusters, NEW size \in 0 .. MaxSize
  PROVE  UpdateIn(d, parent, name, start, size) \in ImagesAfter(d)
<1> DEFINE c == parent.start_cluster
           slots == {i \in 1 .. SlotCount : Used(d.dir[c][i]) /\ d.dir[c][i].name = name}
           changed == Updated(d.dir[c], start, size)
<1>1. slots \in SUBSET (1 .. SlotCount)
  OBVIOUS
<1>2. ASSUME c \in Clusters, NEW i \in 1 .. SlotCount
      PROVE  changed[i] \in Entries
  <2>1. d.dir \in [Clusters -> [1 .. SlotCount -> Entries]]
    BY DiskParts
  <2>2. d.dir[c] \in [1 .. SlotCount -> Entries]
    BY <1>2, <2>1
  <2>3. d.dir[c][i] \in Entries
    BY <2>2
  <2> QED
    BY <2>3 DEF Updated, Entries
<1> HIDE DEF slots, changed, c
<1>3. InFirstSlot(Unwritten(d), c, slots, changed) \in ImagesAfter(d)
  BY <1>1, <1>2, FirstImage, FirstSlotSet
<1> QED
  BY <1>3, FirstImage DEF UpdateIn, slots, changed, c

\* The operations on paths.
LEMMA PathTypes ==
  ASSUME NEW p \in FilePaths \cup DirPaths
  PROVE  p \in Seq(Nat \X Nat) /\ Front(p) \in Seq(Nat \X Nat) /\ Last(p) \in Nat \X Nat
<1>1. p \in Seq(Nat \X Nat) /\ p # <<>> /\ Len(p) \in Nat
  BY Fat32Assumption, LenProperties
<1>2. Len(p) > 0
  BY <1>1, EmptySeq
<1>3. SubSeq(p, 1, Len(p) - 1) \in Seq(Nat \X Nat)
  <2>1. Len(p) - 1 \in Int /\ Len(p) - 1 <= Len(p)
    BY <1>1
  <2> QED
    BY <1>1, <2>1, Pieces
<1>4. p[Len(p)] \in Nat \X Nat
  <2>1. Len(p) \in 1 .. Len(p)
    BY <1>1, <1>2
  <2> QED
    BY <1>1, <2>1, ElementOfSeq
<1> QED
  BY <1>1, <1>3, <1>4 DEF Front, Last

\* What the functions that take a path write.
LEMMA PathImages ==
  ASSUME NEW d \in Disks, NEW p \in FilePaths \cup DirPaths
  PROVE  /\ fat32_create(d, p) \in ImagesAfter(d) /\ fat32_mkdir(d, p) \in ImagesAfter(d)
         /\ fat32_remove(d, p) \in ImagesAfter(d) /\ fat32_rmdir(d, p) \in ImagesAfter(d)
         /\ \A start \in {0} \cup Clusters, size \in 0 .. MaxSize :
              fat32_update_file_entry(d, p, start, size) \in ImagesAfter(d)
<1> DEFINE parent == fat32_open_file(d, Front(p))
<1>1. parent \in Handles /\ Last(p) \in Nat \X Nat
  BY PathTypes, OpenTypes DEF Opened
<1>2. fat32_create(d, p) \in ImagesAfter(d)
  <2>1. 0 \in 0 .. MaxSize
    BY Fat32Assumption
  <2>2. Entry(Last(p), ATTR_ARCHIVE, 0, 0) \in Entries
    BY <1>1, <2>1, EntryTypes
  <2> QED
    BY <2>2, FileMade DEF fat32_create
<1>3. fat32_mkdir(d, p) \in ImagesAfter(d)
  BY <1>1, LinksLead, DirectoryMade DEF fat32_mkdir
<1>4. fat32_remove(d, p) \in ImagesAfter(d)
  BY <1>1, RemovedEntry, FirstImage DEF fat32_remove, RemoveFrom
<1>5. fat32_rmdir(d, p) \in ImagesAfter(d)
  BY <1>4, FirstImage DEF fat32_rmdir
<1>6. ASSUME NEW start \in {0} \cup Clusters, NEW size \in 0 .. MaxSize
      PROVE  fat32_update_file_entry(d, p, start, size) \in ImagesAfter(d)
  BY <1>6, UpdatedEntry DEF fat32_update_file_entry
<1> QED
  BY <1>2, <1>3, <1>4, <1>5, <1>6

-----------------------------------------------------------------------------
(* fat32_read *)

\* A quotient and a remainder are the only ones.
LEMMA DivisionIs ==
  ASSUME NEW b \in Nat \ {0}, NEW q \in Nat, NEW r \in 0 .. b - 1
  PROVE  ((b * q) + r) \div b = q /\ ((b * q) + r) % b = r
<1> DEFINE x == (b * q) + r
           q2 == x \div b
           r2 == x % b
<1>1. x \in Int
  OBVIOUS
<1>2. q2 \in Int /\ r2 \in 0 .. b - 1 /\ (b * q2) + r2 = (b * q) + r
  OBVIOUS
<1> HIDE DEF q2, r2, x
<1>3. q2 = q
  <2>1. SUFFICES ASSUME q2 # q PROVE FALSE
    OBVIOUS
  <2>2. CASE q2 >= q + 1
    <3>1. b * q2 >= b * (q + 1) /\ b * (q + 1) = (b * q) + b
      BY <1>2, <2>2
    <3> QED
      BY <1>2, <3>1
  <2>3. CASE q >= q2 + 1
    <3>1. b * q >= b * (q2 + 1) /\ b * (q2 + 1) = (b * q2) + b
      BY <1>2, <2>3
    <3> QED
      BY <1>2, <3>1
  <2> QED
    BY <1>2, <2>1, <2>2, <2>3
<1>4. r2 = r
  BY <1>2, <1>3
<1> QED
  BY <1>3, <1>4 DEF q2, r2, x

\* Going on in a cluster, and to its end.
LEMMA GoingOn ==
  ASSUME NEW b \in Nat \ {0}, NEW x \in Nat, NEW j \in Nat, (x % b) + j <= b
  PROVE  /\ (x % b) + j < b => (x + j) \div b = x \div b /\ (x + j) % b = (x % b) + j
         /\ (x % b) + j = b => (x + j) \div b = (x \div b) + 1 /\ (x + j) % b = 0
<1> DEFINE q == x \div b
           r == x % b
<1>1. q \in Nat /\ r \in 0 .. b - 1 /\ x = (b * q) + r
  OBVIOUS
<1> HIDE DEF q, r
<1>2. ASSUME r + j < b
      PROVE  (x + j) \div b = q /\ (x + j) % b = r + j
  <2>1. x + j = (b * q) + (r + j) /\ r + j \in 0 .. b - 1
    BY <1>1, <1>2
  <2> QED
    BY <1>1, <2>1, DivisionIs
<1>3. ASSUME r + j = b
      PROVE  (x + j) \div b = q + 1 /\ (x + j) % b = 0
  <2>1. x + j = (b * (q + 1)) + 0 /\ q + 1 \in Nat /\ 0 \in 0 .. b - 1
    BY <1>1, <1>3
  <2>2. ((b * (q + 1)) + 0) \div b = q + 1 /\ ((b * (q + 1)) + 0) % b = 0
    BY <2>1, DivisionIs
  <2> QED
    BY <2>1, <2>2
<1> QED
  BY <1>2, <1>3 DEF q, r

\* An offset in the middle of a cluster is not the end of the chain.
LEMMA MiddleOf ==
  ASSUME NEW x \in Nat, NEW n \in Nat, x <= ClusterSize * n, x % ClusterSize # 0
  PROVE  x < ClusterSize * n
<1>1. ClusterSize \in Nat \ {0} /\ 0 \in 0 .. ClusterSize - 1
  BY DiskAssumption
<1>2. ((ClusterSize * n) + 0) % ClusterSize = 0
  BY <1>1, DivisionIs
<1>3. (ClusterSize * n) + 0 = ClusterSize * n /\ ClusterSize * n \in Nat
  BY <1>1
<1>4. x # ClusterSize * n
  BY <1>2, <1>3
<1> QED
  BY <1>3, <1>4

\* An offset in the middle of a cluster is behind a byte of it.
LEMMA InMiddle ==
  ASSUME NEW x \in Nat, x % ClusterSize # 0
  PROVE  x > 0 /\ (x - 1) \div ClusterSize = x \div ClusterSize
<1> DEFINE q == x \div ClusterSize
<1>1. ClusterSize \in Nat \ {0}
  BY DiskAssumption
<1>2. q \in Nat /\ x % ClusterSize \in 0 .. ClusterSize - 1 /\ x = (ClusterSize * q) + (x % ClusterSize)
  <2>1. x < ClusterSize * (x + 1)
    <3>1. ClusterSize * (x + 1) >= x + 1
      <4>1. ClusterSize * (x + 1) = (x + 1) + ((ClusterSize - 1) * (x + 1))
        BY <1>1
      <4>2. (ClusterSize - 1) * (x + 1) \in Nat
        BY <1>1
      <4> QED
        BY <4>1, <4>2
    <3>2. ClusterSize * (x + 1) \in Nat
      BY <1>1
    <3> QED
      BY <3>1, <3>2
  <2>2. q \in 0 .. (x + 1) - 1 /\ x = (ClusterSize * q) + (x % ClusterSize)
    BY <1>1, <2>1, Division
  <2>3. x % ClusterSize \in 0 .. ClusterSize - 1
    BY Within
  <2> HIDE DEF q
  <2> QED
    BY <2>2, <2>3
<1> HIDE DEF q
<1> DEFINE r == x % ClusterSize
<1>3. r \in 1 .. ClusterSize - 1 /\ x = (ClusterSize * q) + r
  BY <1>1, <1>2
<1> HIDE DEF r
<1>4. r - 1 \in 0 .. ClusterSize - 1 /\ ClusterSize * q \in Nat
  BY <1>1, <1>2, <1>3
<1>5. x - 1 = (ClusterSize * q) + (r - 1) /\ x > 0
  BY <1>1, <1>2, <1>3, <1>4
<1>6. ((ClusterSize * q) + (r - 1)) \div ClusterSize = q
  BY <1>1, <1>2, <1>4, DivisionIs
<1> QED
  BY <1>5, <1>6 DEF q

\* Handles of the same file.
SameFile(h, k) == h.start_cluster = k.start_cluster /\ h.size = k.size /\ h.ctx = k.ctx

\* The next byte is where the handle stands; at the end of the file, if that is
\* in a cluster, it would be.
Inside(h) == h.file_offset < h.size \/ (h.file_offset = h.size /\ h.size % ClusterSize # 0)
InPlace(h, s) ==
  /\ h.file_offset < h.size => h.cluster_offset = InCluster(h)
  /\ Inside(h) => h.current_cluster = s[(h.file_offset \div ClusterSize) + 1]

\* A handle that can be read: it is in its place, and the chain is long enough.
Ready(d) ==
  {h \in Handles :
     /\ h.file_offset <= h.size /\ Holds(Chain(d, h.start_cluster), h.size)
     /\ InPlace(h, Chain(d, h.start_cluster))}

Gone(h, x, y) == [h EXCEPT !.file_offset = x, !.cluster_offset = y]

\* A handle that goes on by some bytes keeps its file and its type.
LEMMA HandleGone ==
  ASSUME NEW h \in Handles, NEW x \in Nat, NEW y \in Nat
  PROVE  /\ Gone(h, x, y) \in Handles /\ SameFile(Gone(h, x, y), h)
         /\ Gone(h, x, y).file_offset = x /\ Gone(h, x, y).cluster_offset = y
         /\ Gone(h, x, y).current_cluster = h.current_cluster
BY DEF Handles, Gone, SameFile

\* The state of the loop, and a step to the next cluster.
Reads == [h : Handles, out : Seq(Bytes), more : Int]

\* The step to the next cluster, or off the chain.
LEMMA CrossedOver ==
  ASSUME NEW r \in Reads, NEW next \in {0} \cup Clusters
  PROVE  /\ CrossTo(r, next) \in Reads /\ CrossTo(r, next).out = r.out
         /\ SameFile(CrossTo(r, next).h, r.h)
         /\ CrossTo(r, next).h.file_offset = r.h.file_offset
         /\ next # 0 => /\ CrossTo(r, next).more = r.more
                        /\ CrossTo(r, next).h.current_cluster = next
                        /\ CrossTo(r, next).h.cluster_offset = 0
<1>1. r.h \in Handles /\ r.more \in Int
  BY DEF Reads
<1>2. CASE next = 0
  <2> DEFINE stop == -1
             v == [r EXCEPT !.h.current_cluster = 0, !.more = stop]
  <2>0. stop \in Int
    OBVIOUS
  <2> HIDE DEF stop
  <2>1. v \in Reads /\ v.out = r.out /\ SameFile(v.h, r.h) /\ v.h.file_offset = r.h.file_offset
    BY <1>1, <2>0 DEF Reads, Handles, SameFile
  <2> HIDE DEF v
  <2> QED
    BY <1>2, <2>1 DEF CrossTo, v, stop
<1>3. CASE next # 0
  <2> DEFINE v == [r EXCEPT !.h.current_cluster = next, !.h.cluster_offset = 0]
  <2>1. v \in Reads /\ v.out = r.out /\ SameFile(v.h, r.h) /\ v.h.file_offset = r.h.file_offset
    BY <1>1 DEF Reads, Handles, SameFile
  <2>2. v.more = r.more /\ v.h.current_cluster = next /\ v.h.cluster_offset = 0
    BY <1>1 DEF Reads, Handles
  <2> HIDE DEF v
  <2> QED
    BY <1>3, <2>1, <2>2 DEF CrossTo, v
<1> QED
  BY <1>2, <1>3

\* What Ready says of a handle.
LEMMA ReadyIs ==
  ASSUME NEW d, NEW h \in Ready(d)
  PROVE  /\ h \in Handles /\ h.file_offset <= h.size /\ Holds(Chain(d, h.start_cluster), h.size)
         /\ InPlace(h, Chain(d, h.start_cluster))
BY DEF Ready

\* The bytes of a chain that is long enough.
LEMMA ContentIs ==
  ASSUME NEW d \in Disks, NEW c \in {0} \cup Clusters, NEW z \in Nat, Holds(Chain(d, c), z)
  PROVE  /\ Content(d, Chain(d, c), z) \in Seq(Bytes) /\ Len(Content(d, Chain(d, c), z)) = z
         /\ \A i \in 1 .. z : Content(d, Chain(d, c), z)[i]
              = d.data[Chain(d, c)[(i - 1) \div ClusterSize + 1]][(i - 1) % ClusterSize]
<1> DEFINE s == Chain(d, c)
           m == Len(s)
           K == Content(d, s, z)
<1>1. m \in Nat /\ \A i \in 1 .. m : s[i] \in Clusters
  BY ChainIs
<1>2. z <= ClusterSize * m /\ ClusterSize \in Nat \ {0}
  BY DiskAssumption DEF Holds
<1>3. d.data \in [Clusters -> [0 .. ClusterSize - 1 -> Bytes]]
  BY DiskParts
<1> HIDE DEF s
<1>4. K = [i \in 1 .. z |-> d.data[s[(i - 1) \div ClusterSize + 1]][(i - 1) % ClusterSize]]
  BY DEF Content
<1> HIDE DEF m
<1>5. ASSUME NEW i \in 1 .. z
      PROVE  d.data[s[(i - 1) \div ClusterSize + 1]][(i - 1) % ClusterSize] \in Bytes
  <2> DEFINE x == i - 1
             q == x \div ClusterSize
             r == x % ClusterSize
  <2>1. x \in Nat /\ x < ClusterSize * m
    BY <1>1, <1>2
  <2> HIDE DEF x
  <2>2. q \in 0 .. m - 1 /\ r \in 0 .. ClusterSize - 1
    BY <1>1, <1>2, <2>1, Division
  <2> HIDE DEF q, r
  <2>3. q + 1 \in 1 .. m
    BY <1>1, <2>2
  <2>4. d.data[s[q + 1]][r] \in Bytes
    BY <1>1, <1>3, <2>2, <2>3
  <2> QED
    BY <2>4 DEF q, r, x
<1>6. K \in [1 .. z -> Bytes]
  BY <1>4, <1>5
<1>7. K \in Seq(Bytes) /\ Len(K) = z
  BY <1>6, LenProperties
<1>8. \A i \in 1 .. z : K[i] = d.data[s[(i - 1) \div ClusterSize + 1]][(i - 1) % ClusterSize]
  BY <1>4
<1> HIDE DEF K
<1>9. /\ K \in Seq(Bytes) /\ Len(K) = z
      /\ \A i \in 1 .. z : K[i] = d.data[s[(i - 1) \div ClusterSize + 1]][(i - 1) % ClusterSize]
  BY <1>7, <1>8
<1> QED
  BY <1>9 DEF K, s

\* Where a handle that is ready stands.
LEMMA StandsOn ==
  ASSUME NEW d \in Disks, NEW h \in Ready(d), h.file_offset < h.size
  PROVE  LET q == h.file_offset \div ClusterSize
             s == Chain(d, h.start_cluster)
         IN  /\ q \in Nat /\ q + 1 \in 1 .. Len(s) /\ h.current_cluster = s[q + 1]
             /\ h.current_cluster \in Clusters
             /\ h.cluster_offset = h.file_offset % ClusterSize
<1> DEFINE x == h.file_offset
           q == x \div ClusterSize
           s == Chain(d, h.start_cluster)
           m == Len(s)
<1>1. x \in Nat /\ x < h.size /\ h.size \in Nat /\ h.start_cluster \in {0} \cup Clusters
  BY ReadyIs, HandleTypes, Fat32Assumption
<1>2. m \in Nat /\ \A i \in 1 .. m : s[i] \in Clusters
  BY <1>1, ChainIs
<1>3. h.size <= ClusterSize * m /\ ClusterSize \in Nat \ {0}
  BY ReadyIs, DiskAssumption DEF Holds
<1>4. h.cluster_offset = x % ClusterSize /\ h.current_cluster = s[q + 1]
  BY <1>1, ReadyIs DEF InPlace, Inside, InCluster
<1> HIDE DEF x, s, m
<1>5. x < ClusterSize * m
  BY <1>1, <1>2, <1>3
<1>6. q \in 0 .. m - 1
  BY <1>1, <1>2, <1>3, <1>5, Division
<1> HIDE DEF q
<1>7. q \in Nat /\ q + 1 \in 1 .. m
  BY <1>2, <1>6
<1>8. s[q + 1] \in Clusters
  BY <1>2, <1>7
<1> QED
  BY <1>4, <1>7, <1>8 DEF q, x, s, m

Chunk(d, h, j) == [i \in 1 .. j |-> d.data[h.current_cluster][InCluster(h) + i - 1]]

\* A chunk of the cluster it stands on is the next bytes of the file.
LEMMA ChunkIs ==
  ASSUME NEW d \in Disks, NEW h \in Ready(d), h.file_offset < h.size, NEW j \in Nat,
         j <= ClusterSize - InCluster(h), j <= h.size - h.file_offset
  PROVE  /\ Chunk(d, h, j) \in Seq(Bytes) /\ Len(Chunk(d, h, j)) = j
         /\ \A i \in 1 .. j : Chunk(d, h, j)[i] = ContentOf(d, h)[h.file_offset + i]
<1> DEFINE x == h.file_offset
           q == x \div ClusterSize
           c == x % ClusterSize
           s == Chain(d, h.start_cluster)
           z == h.size
           t == Chunk(d, h, j)
           K == Content(d, s, z)
           sector == d.data[s[q + 1]]
<1>1. x \in Nat /\ x < z /\ z \in Nat /\ h.start_cluster \in {0} \cup Clusters /\ Holds(s, z)
  BY ReadyIs, HandleTypes, Fat32Assumption
<1>2. q \in Nat /\ q + 1 \in 1 .. Len(s) /\ h.current_cluster = s[q + 1] /\ s[q + 1] \in Clusters
  BY StandsOn
<1>3. ClusterSize \in Nat \ {0} /\ c \in 0 .. ClusterSize - 1 /\ j <= ClusterSize - c /\ j <= z - x
  BY <1>1, Within DEF InCluster
<1>4. \A i \in 1 .. z : K[i] = d.data[s[(i - 1) \div ClusterSize + 1]][(i - 1) % ClusterSize]
  BY <1>1, ContentIs
<1>5. d.data \in [Clusters -> [0 .. ClusterSize - 1 -> Bytes]]
  BY DiskParts
<1>6. t = [i \in 1 .. j |-> sector[(c + i) - 1]]
  <2>1. \A i \in 1 .. j : InCluster(h) + i - 1 = (c + i) - 1
    BY <1>1, <1>3 DEF InCluster
  <2> HIDE DEF q, s
  <2> QED
    BY <1>2, <2>1 DEF Chunk
<1>7. ContentOf(d, h) = K
  BY DEF ContentOf
<1> HIDE DEF t, K, s, z, q, c, x
<1>8. sector \in [0 .. ClusterSize - 1 -> Bytes]
  BY <1>2, <1>5
<1>9. ASSUME NEW i \in 1 .. j
      PROVE  (c + i) - 1 \in 0 .. ClusterSize - 1 /\ K[x + i] = sector[(c + i) - 1]
  <2>1. i - 1 \in Nat /\ c + (i - 1) < ClusterSize /\ c + (i - 1) <= ClusterSize
    BY <1>3
  <2>2. (x + (i - 1)) \div ClusterSize = q /\ (x + (i - 1)) % ClusterSize = c + (i - 1)
    BY <1>1, <1>3, <2>1, GoingOn DEF q, c
  <2>3. x + i \in 1 .. z /\ (x + i) - 1 = x + (i - 1) /\ (c + i) - 1 = c + (i - 1)
    BY <1>1, <1>3
  <2>4. K[x + i] = d.data[s[(((x + i) - 1) \div ClusterSize) + 1]][((x + i) - 1) % ClusterSize]
    BY <1>4, <2>3
  <2> QED
    BY <1>3, <2>1, <2>2, <2>3, <2>4
<1> HIDE DEF sector
<1>10. t \in [1 .. j -> Bytes]
  BY <1>6, <1>8, <1>9
<1>11. t \in Seq(Bytes) /\ Len(t) = j
  BY <1>10, LenProperties
<1>12. \A i \in 1 .. j : t[i] = K[x + i]
  BY <1>6, <1>9
<1> QED
  BY <1>7, <1>11, <1>12 DEF t, x

\* What a chunk adds to what was read, and where it leaves the handle: at the
\* end of a cluster, in the next one.
LEMMA ChunkRead ==
  ASSUME NEW d \in Disks, NEW r \in Reads, r.h \in Ready(d), r.h.file_offset < r.h.size, NEW j \in Nat,
         j <= ClusterSize - InCluster(r.h), j <= r.h.size - r.h.file_offset
  PROVE  LET v == CrossCluster(Advance(r, d, j), d)
         IN  /\ v \in Reads /\ v.h \in Ready(d) /\ SameFile(v.h, r.h)
             /\ v.h.file_offset = r.h.file_offset + j
             /\ v.out = r.out \o Chunk(d, r.h, j)
             /\ v.h.file_offset < v.h.size => v.more = r.more - j
<1> DEFINE f == r.h
           here == f.file_offset
           z == f.size
           q == here \div ClusterSize
           c == here % ClusterSize
           s == Chain(d, f.start_cluster)
           m == Len(s)
           there == here + j
           g == Gone(f, there, f.cluster_offset + j)
           out == r.out \o Chunk(d, f, j)
           more == r.more - j
           a == [h |-> g, out |-> out, more |-> more]
           next == fat32_next_cluster(d, f.current_cluster)
           over == CrossTo(a, next)
<1>1. /\ f \in Handles /\ f \in Ready(d) /\ here \in Nat /\ here < z /\ z \in Nat /\ Holds(s, z)
      /\ f.start_cluster \in {0} \cup Clusters
  BY ReadyIs, HandleTypes, Fat32Assumption DEF Reads
<1>2. /\ q \in Nat /\ q + 1 \in 1 .. m /\ f.current_cluster = s[q + 1]
      /\ f.current_cluster \in Clusters /\ f.cluster_offset = c
  BY <1>1, StandsOn
<1>3. ClusterSize \in Nat \ {0} /\ c \in 0 .. ClusterSize - 1 /\ j <= ClusterSize - c /\ j <= z - here
  BY <1>1, Within DEF InCluster
<1>4. /\ m \in Nat /\ \A i \in 1 .. m : s[i] \in Clusters
      /\ \A i \in 1 .. m - 1 : s[i + 1] = fat32_next_cluster(d, s[i])
  BY <1>1, ChainIs
<1>5. z <= ClusterSize * m
  BY <1>1 DEF Holds
<1>6. out \in Seq(Bytes)
  <2>1. Chunk(d, f, j) \in Seq(Bytes) /\ r.out \in Seq(Bytes)
    BY <1>1, ChunkIs DEF Reads
  <2> QED
    BY <2>1, ConcatProperties
<1>7. more \in Int
  BY DEF Reads
<1>8. Advance(r, d, j) = a
  BY DEF Advance, a, g, Gone, Chunk
<1> HIDE DEF f, here, z, q, c, s, m, out, more
<1>9. there \in Nat /\ there <= z /\ c + j \in Nat /\ c + j <= ClusterSize
  BY <1>1, <1>3
<1>10. /\ g \in Handles /\ SameFile(g, f) /\ g.file_offset = there /\ g.cluster_offset = c + j
       /\ g.current_cluster = f.current_cluster
  <2> DEFINE moved == c + j
  <2>1. f \in Handles /\ there \in Nat /\ moved \in Nat
    BY <1>1, <1>9
  <2>2. moved = c + j /\ f.cluster_offset + j = moved
    BY <1>2
  <2> HIDE DEF g, there, moved
  <2>3. /\ Gone(f, there, moved) \in Handles /\ SameFile(Gone(f, there, moved), f)
        /\ Gone(f, there, moved).file_offset = there /\ Gone(f, there, moved).cluster_offset = moved
        /\ Gone(f, there, moved).current_cluster = f.current_cluster
    BY <2>1 DEF Handles, Gone, SameFile
  <2>4. g = Gone(f, there, moved)
    BY <2>2 DEF g
  <2> QED
    BY <2>2, <2>3, <2>4
<1> HIDE DEF g
<1>11. a \in Reads
  BY <1>6, <1>7, <1>10 DEF Reads
<1>12. a.h = g /\ a.out = out /\ a.more = more
  OBVIOUS
<1> HIDE DEF a
<1>13. next \in {0} \cup Clusters
  BY <1>2, LinksLead
<1>14. CrossCluster(a, d) = IF c + j >= ClusterSize THEN over ELSE a
  BY <1>10, <1>12 DEF CrossCluster
<1> HIDE DEF next
<1>15. g.file_offset <= g.size /\ Holds(Chain(d, g.start_cluster), g.size) /\ g.size = z
  BY <1>1, <1>9, <1>10 DEF SameFile, s, z
<1>16. \A v \in Handles : SameFile(v, g) /\ v.file_offset = there /\ InPlace(v, s) => v \in Ready(d) /\ SameFile(v, f)
  <2>1. Chain(d, g.start_cluster) = s
    BY <1>10 DEF SameFile, s
  <2> QED
    BY <1>10, <1>15, <2>1 DEF SameFile, Ready
<1>17. CASE c + j < ClusterSize
  <2>1. there \div ClusterSize = q /\ there % ClusterSize = c + j
    BY <1>1, <1>3, <1>9, <1>17, GoingOn DEF q, c
  <2>6. there = here + j
    OBVIOUS
  <2> HIDE DEF there
  <2>2. InPlace(g, s)
    BY <1>2, <1>10, <2>1 DEF InPlace, InCluster
  <2>3. g \in Ready(d) /\ SameFile(g, f)
    BY <1>10, <1>16, <2>2 DEF SameFile
  <2>4. CrossCluster(a, d) = a
    BY <1>9, <1>14, <1>17, <1>3
  <2>5. a.h.file_offset = here + j
    BY <1>10, <1>12, <2>6
  <2>7. a.h.file_offset < a.h.size => a.more = more
    BY <1>12
  <2> QED
    BY <1>8, <1>11, <1>12, <2>3, <2>4, <2>5, <2>7 DEF f, here, out, more
<1>18. CASE c + j = ClusterSize
  <2>1. there \div ClusterSize = q + 1 /\ there % ClusterSize = 0
    BY <1>1, <1>3, <1>9, <1>18, GoingOn DEF q, c
  <2>2. there = here + j
    OBVIOUS
  <2> HIDE DEF there
  <2>3. /\ over \in Reads /\ over.out = out /\ SameFile(over.h, g) /\ over.h.file_offset = there
        /\ next # 0 => over.more = more /\ over.h.current_cluster = next /\ over.h.cluster_offset = 0
    BY <1>10, <1>11, <1>12, <1>13, CrossedOver
  <2> HIDE DEF over
  <2>4. ASSUME there < z
        PROVE  next # 0 /\ next = s[(there \div ClusterSize) + 1]
    <3>1. there < ClusterSize * m
      BY <1>1, <1>4, <1>5, <1>9, <1>3, <2>4
    <3>2. (there \div ClusterSize) \in 0 .. m - 1
      BY <1>3, <1>4, <1>9, <3>1, Division
    <3>3. q + 1 \in 1 .. m - 1 /\ (q + 1) + 1 \in 1 .. m
      BY <1>2, <1>4, <2>1, <3>2
    <3>4. s[(q + 1) + 1] = fat32_next_cluster(d, s[q + 1]) /\ s[(q + 1) + 1] \in Clusters
      BY <1>4, <3>3
    <3>5. 0 \notin Clusters
      BY DiskAssumption DEF Clusters
    <3> QED
      BY <1>2, <2>1, <3>4, <3>5 DEF next
  <2>5. over.h \in Handles /\ over.h.size = z
    BY <1>15, <2>3 DEF Reads, SameFile
  <2>6. InPlace(over.h, s)
    <3>1. Inside(over.h) => there < z
      BY <1>9, <2>1, <2>3, <2>5 DEF Inside
    <3> QED
      BY <2>1, <2>3, <2>4, <2>5, <3>1 DEF InPlace, InCluster
  <2>7. over.h \in Ready(d) /\ SameFile(over.h, f)
    BY <1>16, <2>3, <2>5, <2>6
  <2>8. CrossCluster(a, d) = over
    BY <1>14, <1>18, <1>3
  <2>9. over.h.file_offset < over.h.size => over.more = more
    BY <2>3, <2>4, <2>5
  <2> QED
    BY <1>8, <2>2, <2>3, <2>7, <2>8, <2>9 DEF f, here, out, more
<1>19. c + j < ClusterSize \/ c + j = ClusterSize
  BY <1>3, <1>9
<1> QED
  BY <1>17, <1>18, <1>19

\* The least of three numbers.
LEMMA LeastOfThree ==
  ASSUME NEW a \in Nat, NEW b \in Nat, NEW c \in Nat
  PROVE  /\ Min({a, b, c}) \in {a, b, c} /\ Min({a, b, c}) \in Nat
         /\ Min({a, b, c}) <= a /\ Min({a, b, c}) <= b /\ Min({a, b, c}) <= c
<1>1. {a, b, c} \in SUBSET Nat /\ {a, b, c} # {}
  OBVIOUS
<1> QED
  BY <1>1, MinIs

\* What the loop of fat32_read keeps: what was read are the bytes of the file
\* from the offset of the handle on, and the handle is in its place behind them.
Reading(d, f, n) ==
  {r \in Reads :
     /\ r.h \in Ready(d) /\ SameFile(r.h, f)
     /\ r.h.file_offset = f.file_offset + Len(r.out) /\ Len(r.out) <= n
     /\ \A i \in 1 .. Len(r.out) : r.out[i] = ContentOf(d, f)[f.file_offset + i]
     /\ r.h.file_offset < f.size => r.more = n - Len(r.out)}

\* A round of the loop goes on, or the bytes or the file have ended.
LEMMA RoundRead ==
  ASSUME NEW d \in Disks, NEW f \in Ready(d), NEW n \in Nat, NEW r \in Reading(d, f, n)
  PROVE  /\ ReadChunk(r, d) \in Reading(d, f, n)
         /\ \/ Len(ReadChunk(r, d).out) > Len(r.out)
            \/ /\ ReadChunk(r, d) = r
               /\ Len(r.out) = n \/ r.h.file_offset = f.size
<1> DEFINE here == r.h.file_offset
           start == f.file_offset
           z == f.size
           m == Len(r.out)
           room == ClusterSize - InCluster(r.h)
           left == z - here
           j == Min({r.more, room, left})
           t == Chunk(d, r.h, j)
           v == CrossCluster(Advance(r, d, j), d)
           K == ContentOf(d, f)
<1>1. /\ r \in Reads /\ r.h \in Ready(d) /\ SameFile(r.h, f) /\ here = start + m /\ m <= n
      /\ \A i \in 1 .. m : r.out[i] = K[start + i]
      /\ here < z => r.more = n - m
  BY DEF Reading
<1>2. r.h \in Handles /\ r.out \in Seq(Bytes) /\ m \in Nat
  BY <1>1, LenProperties DEF Reads
<1>3. here \in Nat /\ z \in Nat /\ r.h.size = z /\ here <= z /\ start \in Nat
  BY <1>1, <1>2, ReadyIs, HandleTypes, Fat32Assumption DEF SameFile
<1>4. room \in Nat /\ room >= 1
  <2>1. here % ClusterSize \in 0 .. ClusterSize - 1 /\ ClusterSize \in Nat \ {0}
    BY <1>3, Within
  <2> QED
    BY <2>1 DEF InCluster
<1>5. ReadChunk(r, d) = IF r.more <= 0 \/ here >= z THEN r ELSE v
  BY <1>3 DEF ReadChunk
<1> HIDE DEF here, start, z, m, room
<1>6. CASE here < z /\ m < n
  <2>1. r.more = n - m /\ r.more \in Nat /\ r.more >= 1 /\ left \in Nat /\ left >= 1
    BY <1>1, <1>2, <1>3, <1>6
  <2> HIDE DEF left
  <2>2. j \in Nat /\ j >= 1 /\ j <= r.more /\ j <= room /\ j <= left
    BY <1>4, <2>1, LeastOfThree
  <2> HIDE DEF j
  <2>3. /\ r.h.file_offset < r.h.size /\ j <= ClusterSize - InCluster(r.h)
        /\ j <= r.h.size - r.h.file_offset
    BY <1>3, <1>6, <2>2 DEF room, left, here
  <2>4. /\ v \in Reads /\ v.h \in Ready(d) /\ SameFile(v.h, r.h)
        /\ v.h.file_offset = here + j /\ v.out = r.out \o t
        /\ v.h.file_offset < v.h.size => v.more = r.more - j
    BY <1>1, <2>2, <2>3, ChunkRead DEF here
  <2>5. /\ t \in Seq(Bytes) /\ Len(t) = j
        /\ \A i \in 1 .. j : t[i] = ContentOf(d, r.h)[here + i]
    BY <1>1, <2>2, <2>3, ChunkIs DEF here
  <2> HIDE DEF v, t
  <2>6. ContentOf(d, r.h) = K
    BY <1>1 DEF ContentOf, SameFile
  <2> HIDE DEF K
  <2> DEFINE o == r.out
  <2>60. o \in Seq(Bytes) /\ Len(o) = m /\ o = r.out
    BY <1>2 DEF m
  <2> HIDE DEF o
  <2>61. /\ Len(o \o t) = m + j
         /\ \A i \in 1 .. m + j : (o \o t)[i] = IF i <= m THEN o[i] ELSE t[i - m]
    <3>1. /\ Len(o \o t) = Len(o) + Len(t)
          /\ \A i \in 1 .. Len(o) + Len(t) : (o \o t)[i] = IF i <= Len(o) THEN o[i] ELSE t[i - Len(o)]
      <4>1. o \in Seq(Bytes) /\ t \in Seq(Bytes)
        BY <2>5, <2>60
      <4> QED
        BY <4>1, ConcatProperties
    <3> QED
      BY <3>1, <2>60, <2>5
  <2>7. /\ Len(v.out) = m + j
        /\ \A i \in 1 .. m + j : v.out[i] = IF i <= m THEN r.out[i] ELSE t[i - m]
    BY <2>4, <2>61, <2>60
  <2>8. ASSUME NEW i \in 1 .. Len(v.out)
        PROVE  v.out[i] = K[start + i]
    <3>1. CASE i <= m
      <4>1. i \in 1 .. m /\ i \in 1 .. m + j
        BY <1>2, <2>2, <2>7, <3>1
      <4> QED
        BY <1>1, <2>7, <3>1, <4>1
    <3>2. CASE ~(i <= m)
      <4>1. i - m \in 1 .. j /\ i \in 1 .. m + j /\ here + (i - m) = start + i
        BY <1>1, <1>2, <1>3, <2>2, <2>7, <3>2
      <4> QED
        BY <2>5, <2>6, <2>7, <3>2, <4>1
    <3> QED
      BY <3>1, <3>2
  <2>9. SameFile(v.h, f) /\ v.h.size = z
    BY <1>1, <1>3, <2>4 DEF SameFile
  <2>10. /\ v.h.file_offset = start + Len(v.out) /\ Len(v.out) <= n
         /\ v.h.file_offset < z => v.more = n - Len(v.out)
    BY <1>1, <1>2, <1>3, <2>1, <2>2, <2>4, <2>7, <2>9
  <2>11. v \in Reading(d, f, n)
    BY <2>4, <2>8, <2>9, <2>10 DEF Reading, start, z, K
  <2>12. Len(v.out) > m
    BY <1>2, <2>2, <2>7
  <2>13. ReadChunk(r, d) = v
    BY <1>3, <1>5, <1>6, <2>1
  <2> QED
    BY <2>11, <2>12, <2>13 DEF m
<1>7. CASE ~(here < z /\ m < n)
  <2>1. here = z \/ m = n
    BY <1>1, <1>2, <1>3, <1>7
  <2>2. here < z => r.more <= 0
    BY <1>1, <1>2, <1>7
  <2>3. ReadChunk(r, d) = r
    BY <1>3, <1>5, <2>2
  <2> QED
    BY <2>1, <2>3 DEF here, m, z
<1> QED
  BY <1>6, <1>7

ReadFold(g, base, n, d) ==
  g = [t \in SUBSET (1 .. n) |-> IF t = {} THEN base ELSE ReadChunk(g[t \ {Max(t)}], d)]

\* fat32_read as a fold.
LEMMA ReadFoldIs ==
  ASSUME NEW d, NEW f, NEW n
  PROVE  fat32_read(d, f, n)
           = (CHOOSE g : ReadFold(g, [h |-> f, out |-> <<>>, more |-> n], n, d))[1 .. n]
<1>1. DOMAIN [i \in 1 .. n |-> i] = 1 .. n
  OBVIOUS
<1> QED
  BY <1>1 DEF fat32_read, FoldLeft, MapThenFoldSet, ReadFold

\* What was read when the loop has ended, and that it has ended because there
\* was enough or no more.
LEMMA ReadEnds ==
  ASSUME NEW d \in Disks, NEW f \in Ready(d), NEW n \in Nat
  PROVE  /\ fat32_read(d, f, n) \in Reading(d, f, n)
         /\ \/ Len(fat32_read(d, f, n).out) = n
            \/ fat32_read(d, f, n).h.file_offset = f.size
<1> DEFINE S == Reading(d, f, n)
           base == [h |-> f, out |-> <<>>, more |-> n]
           F == [x \in S \X (1 .. n) |-> ReadChunk(x[1], d)]
<1>1. n \in Nat
  OBVIOUS
<1>2. base \in S
  <2> DEFINE e == <<>>
  <2>1. e \in Seq(Bytes) /\ Len(e) = 0
    BY EmptySeq
  <2>2. f \in Handles /\ f.file_offset \in Nat
    BY ReadyIs, HandleTypes
  <2> HIDE DEF e
  <2> DEFINE r == [h |-> f, out |-> e, more |-> n]
  <2>3. r \in Reads /\ r.h = f /\ r.out = e /\ r.more = n
    BY <2>1, <2>2 DEF Reads
  <2> HIDE DEF r
  <2>4. SameFile(f, f) /\ f.file_offset = f.file_offset + 0 /\ 0 <= n /\ n = n - 0
        /\ \A i : ~(i \in 1 .. 0)
    BY <2>2 DEF SameFile
  <2>5. r \in S
    BY <2>1, <2>3, <2>4 DEF Reading
  <2> QED
    BY <2>5 DEF r, e
<1>3. ASSUME NEW s \in S
      PROVE  ReadChunk(s, d) \in S
  BY RoundRead
<1>4. F \in [S \X (1 .. n) -> S]
  BY <1>3
<1>5. \A s \in S, i \in 1 .. n : F[<<s, i>>] = ReadChunk(s, d)
  OBVIOUS
<1> HIDE DEF F, S, base
<1>6. \E g : ReadFold(g, base, n, d)
  <2>1. PICK g \in [SUBSET (1 .. n) -> S] : IsFold(g, base, F, n)
    BY <1>1, <1>2, <1>4, FoldExists
  <2>2. ASSUME NEW t \in SUBSET (1 .. n), t # {}
        PROVE  F[<<g[t \ {Max(t)}], Max(t)>>] = ReadChunk(g[t \ {Max(t)}], d)
    BY <1>1, <1>5, <2>1, <2>2, MaxIn
  <2>3. \A t \in SUBSET (1 .. n) : g[t] = IF t = {} THEN base ELSE ReadChunk(g[t \ {Max(t)}], d)
    BY <2>1, <2>2 DEF IsFold
  <2>4. ReadFold(g, base, n, d)
    BY <2>1, <2>3 DEF ReadFold
  <2> QED
    BY <2>4
<1>7. PICK g : ReadFold(g, base, n, d) /\ fat32_read(d, f, n) = g[1 .. n]
  <2>1. fat32_read(d, f, n) = (CHOOSE g : ReadFold(g, base, n, d))[1 .. n]
    BY <1>1, ReadFoldIs DEF base
  <2> QED
    BY <1>6, <2>1
<1>8. g[1 .. 0] \in S
  BY <1>2, <1>7 DEF ReadFold
<1>9. \A k \in 1 .. n : g[1 .. k - 1] \in S => g[1 .. k] \in S
  <2>1. ASSUME NEW k \in 1 .. n, g[1 .. k - 1] \in S
        PROVE  g[1 .. k] \in S
    <3>1. /\ 1 .. k \in SUBSET (1 .. n) /\ 1 .. k # {}
          /\ (1 .. k) \ {Max(1 .. k)} = 1 .. k - 1 /\ Max(1 .. k) = k
      BY <1>1, UpTo
    <3>2. g[1 .. k] = ReadChunk(g[(1 .. k) \ {Max(1 .. k)}], d)
      BY <1>7, <3>1 DEF ReadFold
    <3> QED
      BY <1>3, <2>1, <3>1, <3>2
  <2> QED
    BY <2>1
<1>10. \A k \in 0 .. n : g[1 .. k] \in S
  BY <1>1, <1>8, <1>9, FoldStays
<1>11. \A k \in 1 .. n : g[1 .. k] = ReadChunk(g[1 .. k - 1], d)
  <2>1. ASSUME NEW k \in 1 .. n
        PROVE  g[1 .. k] = ReadChunk(g[1 .. k - 1], d)
    <3>1. 1 .. k \in SUBSET (1 .. n) /\ 1 .. k # {} /\ (1 .. k) \ {Max(1 .. k)} = 1 .. k - 1
      BY <1>1, UpTo
    <3>2. g[1 .. k] = ReadChunk(g[(1 .. k) \ {Max(1 .. k)}], d)
      BY <1>7, <3>1 DEF ReadFold
    <3> QED
      BY <3>1, <3>2
  <2> QED
    BY <2>1
<1> DEFINE Ended(r) == Len(r.out) = n \/ r.h.file_offset = f.size
           T == {k \in 0 .. n : Len(g[1 .. k].out) >= k \/ Ended(g[1 .. k])}
<1>12. \A r \in S : Len(r.out) \in Nat /\ Len(r.out) <= n
  BY LenProperties DEF S, Reading, Reads
<1>13. 0 \in T
  <2>1. g[1 .. 0] \in S
    BY <1>8
  <2>2. Len(g[1 .. 0].out) >= 0
    BY <1>12, <2>1
  <2> QED
    BY <1>1, <2>2
<1>14. ASSUME NEW k \in 0 .. n - 1, k \in T
       PROVE  k + 1 \in T
  <2>1. k + 1 \in 1 .. n /\ (k + 1) - 1 = k /\ k + 1 \in 0 .. n /\ k \in 0 .. n
    BY <1>1
  <2> DEFINE r == g[1 .. k]
             v == g[1 .. k + 1]
  <2>2. r \in S /\ v \in S /\ v = ReadChunk(r, d)
    BY <1>10, <1>11, <2>1
  <2>3. Len(r.out) >= k \/ Ended(r)
    BY <1>14
  <2> HIDE DEF r, v
  <2>4. Len(v.out) > Len(r.out) \/ (v = r /\ Ended(r))
    BY <2>2, RoundRead DEF S
  <2>5. Len(r.out) \in Nat /\ Len(v.out) \in Nat /\ Len(v.out) <= n
    BY <1>12, <2>2
  <2>6. Ended(r) => Len(v.out) >= k + 1 \/ Ended(v)
    <3>1. ASSUME Len(r.out) = n
          PROVE  v = r
      BY <2>4, <2>5, <3>1
    <3>2. ASSUME r.h.file_offset = f.size
          PROVE  v = r
      <4>1. SUFFICES ASSUME Len(v.out) > Len(r.out) PROVE FALSE
        BY <2>4
      <4>2. /\ v.h.file_offset = f.file_offset + Len(v.out) /\ r.h.file_offset = f.file_offset + Len(r.out)
            /\ v.h \in Ready(d) /\ SameFile(v.h, f) /\ f.file_offset \in Nat /\ f.size \in Nat
        BY <2>2, ReadyIs, HandleTypes, Fat32Assumption DEF S, Reading
      <4>3. v.h.file_offset <= f.size
        BY <4>2, ReadyIs DEF SameFile
      <4> QED
        BY <2>5, <3>2, <4>1, <4>2, <4>3
    <3> QED
      BY <3>1, <3>2
  <2>7. Len(v.out) >= k + 1 \/ Ended(v)
    BY <2>1, <2>3, <2>4, <2>5, <2>6
  <2> QED
    BY <2>1, <2>7 DEF v
<1> HIDE DEF T
<1>15. n \in T
  <2>1. \A k \in 0 .. n : k \in T
    BY <1>1, <1>13, <1>14, ByCounting
  <2> QED
    BY <1>1, <2>1
<1>16. g[1 .. n] \in S
  BY <1>1, <1>10
<1>17. Len(g[1 .. n].out) = n \/ g[1 .. n].h.file_offset = f.size
  <2>1. Len(g[1 .. n].out) >= n \/ Ended(g[1 .. n])
    BY <1>15 DEF T
  <2>2. Len(g[1 .. n].out) \in Nat /\ Len(g[1 .. n].out) <= n
    BY <1>12, <1>16
  <2> QED
    BY <2>1, <2>2
<1> QED
  BY <1>7, <1>16, <1>17 DEF S

\* What fat32_read returns: the bytes of the file from the offset on, as many
\* as were asked for or as there are.
LEMMA ReadIs ==
  ASSUME NEW d \in Disks, NEW f \in Ready(d), NEW n \in Nat
  PROVE  fat32_read(d, f, n).out =
           SubSeq(ContentOf(d, f), f.file_offset + 1, Min({f.file_offset + n, f.size}))
<1> DEFINE start == f.file_offset
           z == f.size
           r == fat32_read(d, f, n)
           got == r.out
           m == Len(got)
           K == ContentOf(d, f)
           upto == start + n
           last == Min({upto, z})
           part == SubSeq(K, start + 1, last)
<1>1. start \in Nat /\ z \in Nat /\ start <= z /\ f.start_cluster \in {0} \cup Clusters
      /\ Holds(Chain(d, f.start_cluster), z)
  BY ReadyIs, HandleTypes, Fat32Assumption
<1>2. /\ r \in Reading(d, f, n) /\ (m = n \/ r.h.file_offset = z)
  BY ReadEnds
<1>3. /\ got \in Seq(Bytes) /\ m \in Nat /\ m <= n /\ r.h.file_offset = start + m
      /\ r.h.file_offset <= z /\ \A i \in 1 .. m : got[i] = K[start + i]
  BY <1>2, ReadyIs, LenProperties DEF Reading, Reads, SameFile
<1>4. K \in Seq(Bytes) /\ Len(K) = z
  BY <1>1, ContentIs DEF ContentOf
<1>5. upto \in Nat /\ upto = start + n
  BY <1>1
<1> HIDE DEF start, z, r, got, m, K, upto
<1>6. last = start + m /\ last \in Nat
  <2>1. last = IF upto <= z THEN upto ELSE z
    BY <1>1, <1>5, LessOf
  <2> QED
    BY <1>1, <1>2, <1>3, <1>5, <2>1
<1> HIDE DEF last
<1>7. /\ part \in Seq(Bytes) /\ Len(part) = m
      /\ \A i \in 1 .. Len(part) : part[i] = K[start + i]
  <2> DEFINE a == start + 1
  <2>1. a \in Nat \ {0} /\ last \in Int /\ last <= Len(K)
    BY <1>1, <1>3, <1>4, <1>6
  <2>2. (IF a <= last THEN (last - a) + 1 ELSE 0) = m
    BY <1>1, <1>3, <1>6
  <2> HIDE DEF a
  <2>3. /\ SubSeq(K, a, last) \in Seq(Bytes) /\ Len(SubSeq(K, a, last)) = m
        /\ \A i \in 1 .. Len(SubSeq(K, a, last)) : SubSeq(K, a, last)[i] = K[(i + a) - 1]
    BY <1>4, <2>1, <2>2, Pieces
  <2>4. \A i \in 1 .. m : (i + a) - 1 = start + i
    BY <1>1, <1>3 DEF a
  <2> QED
    BY <2>3, <2>4 DEF a
<1> HIDE DEF part
<1>8. got = part
  BY <1>3, <1>7, SeqEqual DEF m
<1> QED
  BY <1>8 DEF got, r, part, last, upto, start, z, K

-----------------------------------------------------------------------------
(* The handle is moved *)

Put(h, c, x, y) == [h EXCEPT !.current_cluster = c, !.file_offset = x, !.cluster_offset = y]

\* A handle that is put somewhere else keeps its file and its type.
LEMMA HandlePut ==
  ASSUME NEW h \in Handles, NEW c \in {0} \cup Clusters, NEW x \in Nat, NEW y \in Nat
  PROVE  /\ Put(h, c, x, y) \in Handles /\ SameFile(Put(h, c, x, y), h)
         /\ Put(h, c, x, y).file_offset = x /\ Put(h, c, x, y).cluster_offset = y
         /\ Put(h, c, x, y).current_cluster = c
BY DEF Handles, Put, SameFile

\* fat32_seek changes where the handle stands, and nothing else of it; inside
\* a file whose chain is long enough it stands right.
LEMMA Sought ==
  ASSUME NEW d \in Disks, NEW h \in Handles, NEW x \in Nat
  PROVE  LET s == Chain(d, h.start_cluster)
             k == fat32_seek(d, h, x)
         IN  /\ k \in Handles /\ SameFile(k, h) /\ k.file_offset = x
             /\ Holds(s, h.size) => InPlace(k, s)
<1> DEFINE first == h.start_cluster
           s == Chain(d, first)
           m == Len(s)
           z == h.size
           q == x \div ClusterSize
           at == x % ClusterSize
           k == fat32_seek(d, h, x)
<1>1. /\ first \in {0} \cup Clusters /\ z \in Nat /\ h.current_cluster \in {0} \cup Clusters
      /\ h.cluster_offset \in Nat
  BY HandleTypes, Fat32Assumption
<1>2. ClusterSize \in Nat \ {0} /\ at \in Nat /\ q \in Nat
  BY DiskAssumption
<1>3. m \in Nat /\ \A i \in 1 .. m : s[i] \in Clusters
  BY <1>1, ChainIs
<1>4. k = IF q = 0 THEN Put(h, first, x, at)
          ELSE IF q >= m THEN Put(h, h.current_cluster, x, h.cluster_offset)
          ELSE Put(h, s[q + 1], x, at)
  BY DEF fat32_seek, SeekIn, InCluster, Put, Handles
<1>5. ASSUME Holds(s, z), x < z \/ (x = z /\ z % ClusterSize # 0)
      PROVE  q + 1 \in 1 .. m /\ q < m /\ (q = 0 => first = s[1])
  <2>1. x < ClusterSize * m
    <3>1. z <= ClusterSize * m
      BY <1>5 DEF Holds
    <3>2. CASE x < z
      BY <1>1, <1>2, <1>3, <3>1, <3>2
    <3>3. CASE x = z /\ z % ClusterSize # 0
      BY <1>1, <1>3, <3>1, <3>3, MiddleOf
    <3> QED
      BY <1>5, <3>2, <3>3
  <2>2. q \in 0 .. m - 1
    BY <1>2, <1>3, <2>1, Division
  <2>3. first # 0 => s \in Chains(d, first)
    BY <1>1, ChainIsOne
  <2>4. first = 0 => m = 0
    BY EmptySeq DEF Chain
  <2>5. first # 0
    BY <1>2, <1>3, <2>2, <2>4
  <2> QED
    BY <1>2, <1>3, <2>2, <2>3, <2>5 DEF Chains
<1> HIDE DEF q, at, s, m, k, first
<1>6. CASE q = 0
  <2>0. k = Put(h, first, x, at)
    BY <1>4, <1>6
  <2>1. /\ k \in Handles /\ SameFile(k, h) /\ k.file_offset = x /\ k.cluster_offset = at
        /\ k.current_cluster = first
    <3>1. first \in {0} \cup Clusters /\ at \in Nat
      BY <1>1, <1>2
    <3>2. /\ Put(h, first, x, at) \in Handles /\ SameFile(Put(h, first, x, at), h)
          /\ Put(h, first, x, at).file_offset = x /\ Put(h, first, x, at).cluster_offset = at
          /\ Put(h, first, x, at).current_cluster = first
      BY <3>1, HandlePut
    <3> QED
      BY <2>0, <3>2
  <2>2. ASSUME Holds(s, z), Inside(k)
        PROVE  k.current_cluster = s[q + 1]
    <3>1. x < z \/ (x = z /\ z % ClusterSize # 0)
      BY <2>1, <2>2 DEF SameFile, Inside
    <3> QED
      BY <1>5, <1>6, <2>1, <2>2, <3>1
  <2>3. k.cluster_offset = InCluster(k)
    BY <2>1 DEF InCluster, at
  <2> QED
    BY <2>1, <2>2, <2>3 DEF InPlace, k, s, q, first
<1>7. CASE q # 0 /\ q < m
  <2>1. s[q + 1] \in {0} \cup Clusters
    BY <1>2, <1>3, <1>7
  <2> DEFINE there == s[q + 1]
  <2>3. k = Put(h, there, x, at)
    BY <1>2, <1>3, <1>4, <1>7
  <2> HIDE DEF there
  <2>2. /\ k \in Handles /\ SameFile(k, h) /\ k.file_offset = x /\ k.cluster_offset = at
        /\ k.current_cluster = there
    <3>1. there \in {0} \cup Clusters /\ at \in Nat
      BY <1>2, <2>1 DEF there
    <3>2. /\ Put(h, there, x, at) \in Handles /\ SameFile(Put(h, there, x, at), h)
          /\ Put(h, there, x, at).file_offset = x /\ Put(h, there, x, at).cluster_offset = at
          /\ Put(h, there, x, at).current_cluster = there
      BY <3>1, HandlePut
    <3> QED
      BY <2>3, <3>2
  <2> QED
    BY <2>2 DEF InPlace, InCluster, k, s, q, at, there, first
<1>8. CASE q # 0 /\ ~(q < m)
  <2> DEFINE there == h.current_cluster
             old == h.cluster_offset
  <2>3. there \in {0} \cup Clusters /\ old \in Nat /\ k = Put(h, there, x, old)
    BY <1>1, <1>2, <1>3, <1>4, <1>8
  <2> HIDE DEF there, old
  <2>1. k \in Handles /\ SameFile(k, h) /\ k.file_offset = x
    BY <2>3, HandlePut
  <2>2. ASSUME Holds(s, z)
        PROVE  ~Inside(k)
    BY <1>5, <1>8, <2>1, <2>2 DEF SameFile, Inside
  <2>4. k.file_offset < k.size => Inside(k)
    BY DEF Inside
  <2> QED
    BY <2>1, <2>2, <2>4 DEF InPlace, k, s, first
<1> QED
  BY <1>6, <1>7, <1>8

\* fat32_seek inside the file keeps a handle that can be read.
LEMMA SoughtReady ==
  ASSUME NEW d \in Disks, NEW h \in Ready(d), NEW x \in Nat, x <= h.size
  PROVE  /\ fat32_seek(d, h, x) \in Ready(d) /\ SameFile(fat32_seek(d, h, x), h)
         /\ fat32_seek(d, h, x).file_offset = x
<1> DEFINE k == fat32_seek(d, h, x)
           s == Chain(d, h.start_cluster)
<1>1. h \in Handles /\ Holds(s, h.size)
  BY ReadyIs
<1>2. k \in Handles /\ SameFile(k, h) /\ k.file_offset = x /\ InPlace(k, s)
  BY <1>1, Sought
<1> HIDE DEF k
<1>3. k.size = h.size /\ Chain(d, k.start_cluster) = s
  BY <1>2 DEF SameFile
<1> QED
  BY <1>1, <1>2, <1>3 DEF Ready, k

-----------------------------------------------------------------------------
(* Lines *)

AreFrom(t, K, x) == \A i \in 1 .. Len(t) : t[i] = K[x + i]
Plain(t) == \A i \in 1 .. Len(t) : t[i] # NEWLINE
Line(t) ==
  /\ Len(t) >= 1 /\ t[Len(t)] = NEWLINE
  /\ \A i \in 1 .. Len(t) - 1 : t[i] # NEWLINE

\* Bytes of a file and the bytes after them.
LEMMA JoinedBytes ==
  ASSUME NEW K, NEW x \in Nat, NEW o \in Seq(Bytes), NEW t \in Seq(Bytes),
         AreFrom(o, K, x), AreFrom(t, K, x + Len(o))
  PROVE  /\ o \o t \in Seq(Bytes) /\ Len(o \o t) = Len(o) + Len(t)
         /\ AreFrom(o \o t, K, x)
         /\ Plain(o) /\ Plain(t) => Plain(o \o t)
         /\ Plain(o) /\ Line(t) => Line(o \o t)
<1> DEFINE m == Len(o)
           k == Len(t)
           v == o \o t
<1>1. m \in Nat /\ k \in Nat
  BY LenProperties
<1>2. /\ v \in Seq(Bytes) /\ Len(v) = m + k
      /\ \A i \in 1 .. m + k : v[i] = IF i <= m THEN o[i] ELSE t[i - m]
  BY ConcatProperties
<1> HIDE DEF v
<1>3. \A i \in 1 .. m + k : \/ i \in 1 .. m /\ v[i] = o[i]
                            \/ i - m \in 1 .. k /\ v[i] = t[i - m] /\ (x + m) + (i - m) = x + i
  BY <1>1, <1>2
<1>4. AreFrom(v, K, x)
  BY <1>2, <1>3 DEF AreFrom
<1>5. Plain(o) /\ Plain(t) => Plain(v)
  BY <1>2, <1>3 DEF Plain
<1>6. ASSUME Plain(o), Line(t)
      PROVE  Line(v)
  <2>1. k >= 1 /\ t[k] = NEWLINE /\ \A i \in 1 .. k - 1 : t[i] # NEWLINE
    BY <1>6 DEF Line
  <2>2. m + k \in 1 .. m + k /\ ~(m + k \in 1 .. m) /\ (m + k) - m = k
    BY <1>1, <2>1
  <2>3. v[m + k] = NEWLINE
    BY <1>3, <2>1, <2>2
  <2>4. ASSUME NEW i \in 1 .. Len(v) - 1
        PROVE  v[i] # NEWLINE
    <3>1. i \in 1 .. m + k /\ (i - m \in 1 .. k => i - m \in 1 .. k - 1)
      BY <1>1, <1>2
    <3> QED
      BY <1>3, <1>6, <2>1, <3>1 DEF Plain
  <2> QED
    BY <1>1, <1>2, <2>1, <2>3, <2>4 DEF Line
<1> QED
  BY <1>2, <1>4, <1>5, <1>6 DEF v

\* The first bytes of them.
LEMMA FirstBytes ==
  ASSUME NEW K, NEW x \in Nat, NEW t \in Seq(Bytes), AreFrom(t, K, x), NEW n \in 0 .. Len(t)
  PROVE  /\ SubSeq(t, 1, n) \in Seq(Bytes) /\ Len(SubSeq(t, 1, n)) = n
         /\ AreFrom(SubSeq(t, 1, n), K, x)
         /\ \A i \in 1 .. n : SubSeq(t, 1, n)[i] = t[i]
<1> DEFINE v == SubSeq(t, 1, n)
<1>1. Len(t) \in Nat /\ n \in Nat /\ n <= Len(t)
  BY LenProperties
<1>2. /\ v \in Seq(Bytes) /\ Len(v) = (IF 1 <= n THEN (n - 1) + 1 ELSE 0)
      /\ \A i \in 1 .. Len(v) : v[i] = t[(i + 1) - 1]
  BY <1>1, Pieces
<1> HIDE DEF v
<1>3. Len(v) = n
  BY <1>1, <1>2
<1>4. \A i \in 1 .. n : v[i] = t[i] /\ i \in 1 .. Len(t)
  BY <1>1, <1>2, <1>3
<1> QED
  BY <1>2, <1>3, <1>4 DEF AreFrom, v

\* The first newline of some bytes, or that there is none.
LEMMA FirstNewline ==
  ASSUME NEW t \in Seq(Bytes)
  PROVE  LET k == SelectInSeq(t, LAMBDA b : b = NEWLINE)
         IN  /\ NEWLINE \notin Range(t) => Plain(t)
             /\ Plain(t) => NEWLINE \notin Range(t)
             /\ NEWLINE \in Range(t) => /\ k \in 1 .. Len(t) /\ t[k] = NEWLINE
                                        /\ \A i \in 1 .. k - 1 : t[i] # NEWLINE
<1> DEFINE I == {i \in 1 .. Len(t) : t[i] = NEWLINE}
           k == SelectInSeq(t, LAMBDA b : b = NEWLINE)
<1>1. Len(t) \in Nat /\ DOMAIN t = 1 .. Len(t)
  BY LenProperties
<1>2. NEWLINE \in Range(t) <=> I # {}
  BY <1>1 DEF Range
<1>3. k = IF I # {} THEN Min(I) ELSE 0
  BY DEF SelectInSeq
<1> HIDE DEF k
<1>4. ASSUME I # {}
      PROVE  k \in 1 .. Len(t) /\ t[k] = NEWLINE /\ \A i \in 1 .. k - 1 : t[i] # NEWLINE
  <2>1. I \in SUBSET Nat
    BY <1>1
  <2>2. k \in I /\ \A i \in I : k <= i
    BY <1>3, <1>4, <2>1, MinIs
  <2>3. k \in 1 .. Len(t) /\ t[k] = NEWLINE
    BY <2>2
  <2>4. ASSUME NEW i \in 1 .. k - 1
        PROVE  t[i] # NEWLINE
    <3>1. i \in 1 .. Len(t) /\ ~(k <= i)
      BY <1>1, <2>3
    <3> QED
      BY <2>2, <3>1
  <2> QED
    BY <2>3, <2>4
<1>5. Plain(t) <=> I = {}
  BY DEF Plain
<1> HIDE DEF I
<1> QED
  BY <1>2, <1>4, <1>5 DEF k

\* What the loop of fat32_read_line keeps.
Lines == [h : Handles, out : Seq(Bytes), done : BOOLEAN]
LineDone(l, d, f) ==
  /\ l.h.file_offset = f.file_offset + Len(l.out)
  /\ Line(l.out) \/ (Plain(l.out) /\ l.h.file_offset = f.size)
LineOpen(l, f, size) ==
  /\ Plain(l.out)
  /\ Len(l.out) < size - 1 => l.h.file_offset = f.file_offset + Len(l.out)
Lining(d, f, size) ==
  {l \in Lines :
     /\ l.h \in Ready(d) /\ SameFile(l.h, f)
     /\ f.file_offset + Len(l.out) <= l.h.file_offset
     /\ AreFrom(l.out, ContentOf(d, f), f.file_offset)
     /\ l.done => LineDone(l, d, f)
     /\ ~l.done => LineOpen(l, f, size)}

\* What a round reads from where the handle stands, cut to the room.
LEMMA ReadOn ==
  ASSUME NEW d \in Disks, NEW f \in Ready(d), NEW h \in Ready(d), SameFile(h, f), NEW room \in Nat \ {0}
  PROVE  LET r == fat32_read(d, h, LineChunk)
             t == SubSeq(r.out, 1, Min({room, Len(r.out)}))
         IN  /\ r.h \in Ready(d) /\ SameFile(r.h, f) /\ h.file_offset \in Nat
             /\ t \in Seq(Bytes) /\ Len(t) \in Nat /\ Len(t) <= room
             /\ AreFrom(t, ContentOf(d, f), h.file_offset)
             /\ h.file_offset + Len(t) <= r.h.file_offset
             /\ Len(t) < room => r.h.file_offset = h.file_offset + Len(t)
             /\ Len(t) = 0 => r.h.file_offset = f.size
<1> DEFINE here == h.file_offset
           r == fat32_read(d, h, LineChunk)
           got == r.out
           m == Len(got)
           n == Min({room, m})
           t == SubSeq(got, 1, n)
           K == ContentOf(d, f)
<1>1. LineChunk \in Nat \ {0}
  BY DiskAssumption
<1>2. r \in Reading(d, h, LineChunk) /\ (m = LineChunk \/ r.h.file_offset = h.size)
  BY <1>1, ReadEnds
<1>3. ContentOf(d, h) = K /\ h.size = f.size
  BY DEF ContentOf, SameFile
<1>4. /\ here \in Nat /\ r.h \in Ready(d) /\ SameFile(r.h, h) /\ r.h.file_offset = here + m
      /\ got \in Seq(Bytes) /\ m \in Nat /\ AreFrom(got, K, here)
  <2>1. here \in Nat
    BY ReadyIs, HandleTypes
  <2> QED
    BY <1>2, <1>3, <2>1, LenProperties DEF Reading, Reads, AreFrom
<1>5. SameFile(r.h, f)
  BY <1>4 DEF SameFile
<1> HIDE DEF here, r, got, m, K
<1>6. n = (IF room <= m THEN room ELSE m) /\ n \in 0 .. m
  <2>1. n = IF room <= m THEN room ELSE m
    BY <1>4, LessOf
  <2> QED
    BY <1>4, <2>1
<1> HIDE DEF n
<1>7. t \in Seq(Bytes) /\ Len(t) = n /\ AreFrom(t, K, here)
  BY <1>4, <1>6, FirstBytes DEF m
<1> HIDE DEF t
<1>8. /\ Len(t) \in Nat /\ Len(t) <= room
      /\ here + Len(t) <= r.h.file_offset
      /\ Len(t) < room => r.h.file_offset = here + Len(t)
      /\ Len(t) = 0 => m = 0
  BY <1>4, <1>6, <1>7
<1>9. m = 0 => r.h.file_offset = f.size
  BY <1>1, <1>2, <1>3
<1> QED
  BY <1>4, <1>5, <1>7, <1>8, <1>9 DEF t, n, m, got, r, here, K

\* A round of the loop ends the line or goes on with it.
LEMMA RoundOfLine ==
  ASSUME NEW d \in Disks, NEW f \in Ready(d), NEW size \in Nat, NEW l \in Lining(d, f, size),
         ~l.done, Len(l.out) < size - 1
  PROVE  LET v == LineRound(l, fat32_read(d, l.h, LineChunk), d, size - 1 - Len(l.out), f.file_offset)
         IN  v \in Lining(d, f, size) /\ (v.done \/ Len(v.out) > Len(l.out))
<1> DEFINE start == f.file_offset
           h == l.h
           old == l.out
           m == Len(old)
           room == size - 1 - m
           r == fat32_read(d, h, LineChunk)
           got == SubSeq(r.out, 1, Min({room, Len(r.out)}))
           KK == ContentOf(d, f)
           v == LineRound(l, r, d, room, start)
<1>1. /\ h \in Ready(d) /\ SameFile(h, f) /\ AreFrom(old, KK, start) /\ Plain(old)
      /\ h.file_offset = start + m
  BY DEF Lining, LineOpen
<1>2. old \in Seq(Bytes) /\ m \in Nat /\ start \in Nat /\ f.size \in Nat
  BY ReadyIs, HandleTypes, Fat32Assumption, LenProperties DEF Lining, Lines
<1>3. room \in Nat \ {0} /\ room = (size - 1) - m
  BY <1>2
<1>4. v = TakeLine(l, r, d, got, start)
  BY DEF LineRound
<1> HIDE DEF room
<1>5. /\ r.h \in Ready(d) /\ SameFile(r.h, f)
      /\ got \in Seq(Bytes) /\ Len(got) \in Nat /\ Len(got) <= room
      /\ AreFrom(got, KK, h.file_offset)
      /\ h.file_offset + Len(got) <= r.h.file_offset
      /\ Len(got) < room => r.h.file_offset = h.file_offset + Len(got)
      /\ Len(got) = 0 => r.h.file_offset = f.size
  <2>1. h \in Ready(d) /\ SameFile(h, f) /\ room \in Nat \ {0}
    BY <1>1, <1>3
  <2> HIDE DEF h, KK, m, start
  <2> QED
    BY <2>1, ReadOn DEF KK
<1>6. r.h \in Handles /\ r.h.file_offset \in Nat /\ r.h.file_offset <= f.size /\ r.h.size = f.size
  BY <1>5, ReadyIs, HandleTypes DEF SameFile
<1> DEFINE k == SelectInSeq(got, LAMBDA b : b = NEWLINE)
           head == SubSeq(got, 1, k)
           q == r.h
           whole == old \o head
           long == old \o got
           back == start + Len(whole)
<1>7. v = IF NEWLINE \in Range(got)
          THEN [h |-> fat32_seek(d, q, back), out |-> whole, done |-> TRUE]
          ELSE [h |-> q, out |-> long, done |-> got = <<>>]
  BY <1>4 DEF TakeLine, GoBack
<1> HIDE DEF r, got, KK, v, start, h, m
<1>8. CASE NEWLINE \in Range(got)
  <2>1. k \in 1 .. Len(got) /\ got[k] = NEWLINE /\ \A i \in 1 .. k - 1 : got[i] # NEWLINE
    BY <1>5, <1>8, FirstNewline
  <2> HIDE DEF k
  <2>2. k \in 0 .. Len(got) /\ k >= 1 /\ k \in 1 .. k /\ h.file_offset \in Nat
    BY <1>1, <1>2, <1>5, <2>1
  <2>3. head \in Seq(Bytes) /\ Len(head) = k /\ AreFrom(head, KK, h.file_offset)
        /\ \A i \in 1 .. k : head[i] = got[i]
    BY <1>5, <2>2, FirstBytes
  <2>4. Line(head)
    BY <2>1, <2>2, <2>3 DEF Line
  <2> HIDE DEF head
  <2>5. /\ whole \in Seq(Bytes) /\ Len(whole) = m + k
        /\ AreFrom(whole, KK, start) /\ Line(whole)
    <3>1. AreFrom(head, KK, start + Len(old))
      BY <1>1, <2>3 DEF m
    <3>2. start \in Nat /\ old \in Seq(Bytes) /\ AreFrom(old, KK, start) /\ Plain(old)
      BY <1>1, <1>2
    <3>3. /\ whole \in Seq(Bytes) /\ Len(whole) = Len(old) + Len(head)
          /\ AreFrom(whole, KK, start) /\ Line(whole)
      <4>1. head \in Seq(Bytes)
        BY <2>3
      <4> HIDE DEF old
      <4>2. /\ old \o head \in Seq(Bytes) /\ Len(old \o head) = Len(old) + Len(head)
            /\ AreFrom(old \o head, KK, start)
            /\ Plain(old) /\ Line(head) => Line(old \o head)
        BY <3>1, <3>2, <4>1, JoinedBytes
      <4> QED
        BY <2>4, <3>2, <4>2
    <3> QED
      BY <2>3, <3>3 DEF m
  <2> HIDE DEF whole
  <2>6. back \in Nat /\ back = start + Len(whole) /\ back <= q.size
    BY <1>1, <1>2, <1>5, <1>6, <2>2, <2>1, <2>5
  <2> DEFINE w == fat32_seek(d, q, back)
  <2> HIDE DEF back, q
  <2>7. w \in Ready(d) /\ SameFile(w, q) /\ w.file_offset = back
    BY <1>5, <2>6, SoughtReady DEF q
  <2> HIDE DEF w
  <2>8. w \in Handles /\ SameFile(w, f)
    BY <1>5, <2>7, ReadyIs DEF SameFile, q
  <2>9. v = [h |-> w, out |-> whole, done |-> TRUE]
    BY <1>7, <1>8 DEF w
  <2>10. v \in Lines /\ v.h = w /\ v.out = whole /\ v.done = TRUE
    BY <2>5, <2>8, <2>9 DEF Lines
  <2>11. start + Len(v.out) <= v.h.file_offset
    BY <2>6, <2>7, <2>10
  <2>12. v.h \in Ready(d) /\ SameFile(v.h, f) /\ AreFrom(v.out, KK, start)
    BY <2>5, <2>7, <2>8, <2>10
  <2>13. LineDone(v, d, f)
    BY <2>5, <2>6, <2>7, <2>10 DEF LineDone, start
  <2>14. v \in Lining(d, f, size)
    BY <2>10, <2>11, <2>12, <2>13 DEF Lining, start, KK
  <2>15. v.done
    BY <2>10
  <2> QED
    BY <2>14, <2>15 DEF v, start, h, r, m, room
<1>9. CASE NEWLINE \notin Range(got)
  <2>1. Plain(got)
    BY <1>5, <1>9, FirstNewline
  <2>2. /\ long \in Seq(Bytes) /\ Len(long) = m + Len(got)
        /\ AreFrom(long, KK, start) /\ Plain(long)
    <3>1. AreFrom(got, KK, start + Len(old))
      BY <1>1, <1>5 DEF m
    <3>2. old \in Seq(Bytes) /\ got \in Seq(Bytes) /\ start \in Nat /\ AreFrom(old, KK, start) /\ Plain(old)
      BY <1>1, <1>2, <1>5
    <3> HIDE DEF old, got, KK, start
    <3>3. /\ old \o got \in Seq(Bytes) /\ Len(old \o got) = Len(old) + Len(got)
          /\ AreFrom(old \o got, KK, start) /\ Plain(old \o got)
      BY <2>1, <3>1, <3>2, JoinedBytes
    <3> QED
      BY <3>3 DEF m
  <2>3. got = <<>> <=> Len(got) = 0
    BY <1>5, EmptySeq
  <2> DEFINE done == got = <<>>
  <2>4. done \in BOOLEAN /\ (done <=> Len(got) = 0)
    BY <2>3
  <2>5. v = [h |-> q, out |-> long, done |-> done]
    BY <1>7, <1>9
  <2> HIDE DEF long, q, done
  <2>6. v \in Lines /\ v.h = q /\ v.out = long /\ v.done = done
    <3>1. q \in Handles
      BY <1>6 DEF q
    <3>2. v.h = q /\ v.out = long /\ v.done = done
      BY <2>5, Zenon
    <3>3. v \in Lines
      BY <2>2, <2>4, <2>5, <3>1, Zenon DEF Lines
    <3> QED
      BY <3>2, <3>3
  <2>7. /\ start + Len(long) <= q.file_offset
        /\ Len(long) < size - 1 => q.file_offset = start + Len(long)
        /\ Len(got) = 0 => q.file_offset = f.size /\ q.file_offset = start + Len(long)
        /\ Len(got) = 0 \/ Len(long) > m
    BY <1>1, <1>2, <1>3, <1>5, <1>6, <2>2 DEF q
  <2>8. v.done => LineDone(v, d, f)
    BY <2>2, <2>4, <2>6, <2>7 DEF LineDone, start
  <2>9. ~v.done => LineOpen(v, f, size)
    BY <2>2, <2>6, <2>7 DEF LineOpen, start
  <2>10. v \in Lining(d, f, size)
    BY <1>5, <2>2, <2>6, <2>7, <2>8, <2>9 DEF Lining, start, KK, q
  <2> QED
    BY <2>4, <2>6, <2>7, <2>10 DEF v, start, h, r, m, room
<1> QED
  BY <1>8, <1>9

LineStep(l, d, f, size) ==
  IF l.done \/ Len(l.out) >= size - 1 THEN l
  ELSE LineRound(l, fat32_read(d, l.h, LineChunk), d, size - 1 - Len(l.out), f.file_offset)
LineFold(g, base, n, d, f, size) ==
  g = [t \in SUBSET (1 .. n) |-> IF t = {} THEN base ELSE LineStep(g[t \ {Max(t)}], d, f, size)]

\* fat32_read_line as a fold.
LEMMA LineFoldIs ==
  ASSUME NEW d, NEW f, NEW size
  PROVE  fat32_read_line(d, f, size)
           = (CHOOSE g : LineFold(g, [h |-> f, out |-> <<>>, done |-> FALSE], size, d, f, size))[1 .. size]
<1>1. DOMAIN [i \in 1 .. size |-> i] = 1 .. size
  OBVIOUS
<1> QED
  BY <1>1 DEF fat32_read_line, FoldLeft, MapThenFoldSet, LineFold, LineStep

\* A step of the fold adds to the line, or the line has ended.
LEMMA StepOfLine ==
  ASSUME NEW d \in Disks, NEW f \in Ready(d), NEW size \in Nat, NEW l \in Lining(d, f, size)
  PROVE  LET v == LineStep(l, d, f, size)
         IN  /\ v \in Lining(d, f, size)
             /\ \/ Len(v.out) > Len(l.out)
                \/ v.done
                \/ v = l /\ Len(l.out) >= size - 1
<1>1. Len(l.out) \in Nat
  BY LenProperties DEF Lining, Lines
<1>2. CASE l.done \/ Len(l.out) >= size - 1
  BY <1>2 DEF LineStep
<1>3. CASE ~(l.done \/ Len(l.out) >= size - 1)
  <2>1. ~l.done /\ Len(l.out) < size - 1
    BY <1>1, <1>3
  <2>2. LineStep(l, d, f, size)
          = LineRound(l, fat32_read(d, l.h, LineChunk), d, size - 1 - Len(l.out), f.file_offset)
    BY <1>3 DEF LineStep
  <2> QED
    BY <2>1, <2>2, RoundOfLine
<1> QED
  BY <1>2, <1>3

\* What was read when the loop has ended, and that it has ended because the
\* line is whole or the buffer is full.
LEMMA LineEnds ==
  ASSUME NEW d \in Disks, NEW f \in Ready(d), NEW size \in Nat
  PROVE  /\ fat32_read_line(d, f, size) \in Lining(d, f, size)
         /\ fat32_read_line(d, f, size).done \/ Len(fat32_read_line(d, f, size).out) >= size - 1
<1> DEFINE S == Lining(d, f, size)
           n == size
           base == [h |-> f, out |-> <<>>, done |-> FALSE]
           F == [x \in S \X (1 .. n) |-> LineStep(x[1], d, f, size)]
<1>1. n \in Nat
  OBVIOUS
<1>2. base \in S
  <2> DEFINE e == <<>>
  <2>1. e \in Seq(Bytes) /\ Len(e) = 0
    BY EmptySeq
  <2>2. f \in Handles /\ f.file_offset \in Nat
    BY ReadyIs, HandleTypes
  <2> HIDE DEF e
  <2> DEFINE r == [h |-> f, out |-> e, done |-> FALSE]
  <2>3. r \in Lines /\ r.h = f /\ r.out = e /\ r.done = FALSE
    BY <2>1, <2>2 DEF Lines
  <2> HIDE DEF r
  <2>4. SameFile(f, f) /\ f.file_offset + 0 <= f.file_offset /\ f.file_offset = f.file_offset + 0
        /\ \A i : ~(i \in 1 .. 0)
    BY <2>2 DEF SameFile
  <2>5. AreFrom(r.out, ContentOf(d, f), f.file_offset) /\ Plain(r.out)
    BY <2>1, <2>3, <2>4 DEF AreFrom, Plain
  <2>6. r \in S
    BY <2>1, <2>3, <2>4, <2>5 DEF Lining, LineOpen
  <2> QED
    BY <2>6 DEF r, e
<1>3. ASSUME NEW s \in S
      PROVE  LineStep(s, d, f, size) \in S
  BY StepOfLine
<1>4. F \in [S \X (1 .. n) -> S]
  BY <1>3
<1>5. \A s \in S, i \in 1 .. n : F[<<s, i>>] = LineStep(s, d, f, size)
  OBVIOUS
<1> HIDE DEF F, S, base, n
<1>6. \E g : LineFold(g, base, n, d, f, size)
  <2>1. PICK g \in [SUBSET (1 .. n) -> S] : IsFold(g, base, F, n)
    BY <1>1, <1>2, <1>4, FoldExists
  <2>2. ASSUME NEW t \in SUBSET (1 .. n), t # {}
        PROVE  F[<<g[t \ {Max(t)}], Max(t)>>] = LineStep(g[t \ {Max(t)}], d, f, size)
    BY <1>1, <1>5, <2>1, <2>2, MaxIn
  <2>3. \A t \in SUBSET (1 .. n) : g[t] = IF t = {} THEN base ELSE LineStep(g[t \ {Max(t)}], d, f, size)
    BY <2>1, <2>2 DEF IsFold
  <2>4. LineFold(g, base, n, d, f, size)
    BY <2>1, <2>3 DEF LineFold
  <2> QED
    BY <2>4
<1>7. PICK g : LineFold(g, base, n, d, f, size) /\ fat32_read_line(d, f, size) = g[1 .. n]
  <2>1. fat32_read_line(d, f, size) = (CHOOSE g : LineFold(g, base, n, d, f, size))[1 .. n]
    BY <1>1, LineFoldIs DEF base, n
  <2> QED
    BY <1>6, <2>1
<1>8. g[1 .. 0] \in S
  BY <1>2, <1>7 DEF LineFold
<1>9. \A k \in 1 .. n : g[1 .. k - 1] \in S => g[1 .. k] \in S
  <2>1. ASSUME NEW k \in 1 .. n, g[1 .. k - 1] \in S
        PROVE  g[1 .. k] \in S
    <3>1. /\ 1 .. k \in SUBSET (1 .. n) /\ 1 .. k # {}
          /\ (1 .. k) \ {Max(1 .. k)} = 1 .. k - 1 /\ Max(1 .. k) = k
      BY <1>1, UpTo
    <3>2. g[1 .. k] = LineStep(g[(1 .. k) \ {Max(1 .. k)}], d, f, size)
      BY <1>7, <3>1 DEF LineFold
    <3> QED
      BY <1>3, <2>1, <3>1, <3>2
  <2> QED
    BY <2>1
<1>10. \A k \in 0 .. n : g[1 .. k] \in S
  BY <1>1, <1>8, <1>9, FoldStays
<1>11. \A k \in 1 .. n : g[1 .. k] = LineStep(g[1 .. k - 1], d, f, size)
  <2>1. ASSUME NEW k \in 1 .. n
        PROVE  g[1 .. k] = LineStep(g[1 .. k - 1], d, f, size)
    <3>1. 1 .. k \in SUBSET (1 .. n) /\ 1 .. k # {} /\ (1 .. k) \ {Max(1 .. k)} = 1 .. k - 1
      BY <1>1, UpTo
    <3>2. g[1 .. k] = LineStep(g[(1 .. k) \ {Max(1 .. k)}], d, f, size)
      BY <1>7, <3>1 DEF LineFold
    <3> QED
      BY <3>1, <3>2
  <2> QED
    BY <2>1
<1> DEFINE Ended(r) == r.done \/ Len(r.out) >= size - 1
           T == {k \in 0 .. n : Len(g[1 .. k].out) >= k \/ Ended(g[1 .. k])}
<1>12. \A r \in S : Len(r.out) \in Nat
  BY LenProperties DEF S, Lining, Lines
<1>13. 0 \in T
  <2>1. Len(g[1 .. 0].out) \in Nat
    BY <1>8, <1>12
  <2> QED
    BY <1>1, <2>1
<1>14. ASSUME NEW k \in 0 .. n - 1, k \in T
       PROVE  k + 1 \in T
  <2>1. k + 1 \in 1 .. n /\ (k + 1) - 1 = k /\ k + 1 \in 0 .. n /\ k \in 0 .. n
    BY <1>1
  <2> DEFINE r == g[1 .. k]
             v == g[1 .. k + 1]
  <2>2. r \in S /\ v \in S /\ v = LineStep(r, d, f, size)
    BY <1>10, <1>11, <2>1
  <2>3. Len(r.out) >= k \/ Ended(r)
    BY <1>14
  <2> HIDE DEF r, v
  <2>4. Len(v.out) > Len(r.out) \/ v.done \/ (v = r /\ Len(r.out) >= size - 1)
    BY <2>2, StepOfLine DEF S
  <2>5. Len(r.out) \in Nat /\ Len(v.out) \in Nat
    BY <1>12, <2>2
  <2>6. r.done => v = r
    BY <2>2 DEF LineStep
  <2>7. Len(v.out) >= k + 1 \/ Ended(v)
    BY <2>1, <2>3, <2>4, <2>5, <2>6
  <2> QED
    BY <2>1, <2>7 DEF v
<1> HIDE DEF T
<1>15. n \in T
  <2>1. \A k \in 0 .. n : k \in T
    BY <1>1, <1>13, <1>14, ByCounting
  <2> QED
    BY <1>1, <2>1
<1>16. g[1 .. n] \in S
  BY <1>1, <1>10
<1>17. Ended(g[1 .. n])
  <2>1. Len(g[1 .. n].out) >= n \/ Ended(g[1 .. n])
    BY <1>15 DEF T
  <2>2. Len(g[1 .. n].out) \in Nat
    BY <1>12, <1>16
  <2> QED
    BY <1>1, <2>1, <2>2 DEF n
<1> QED
  BY <1>7, <1>16, <1>17 DEF S

\* A line that fits is read whole, and the handle stands behind it.
LEMMA WholeLine ==
  ASSUME NEW d \in Disks, NEW f \in Ready(d), NEW size \in Nat,
         LineEnd(SubSeq(ContentOf(d, f), f.file_offset + 1, f.size)) < size
  PROVE  LET rest == SubSeq(ContentOf(d, f), f.file_offset + 1, f.size)
             l == fat32_read_line(d, f, size)
         IN  /\ l.out = SubSeq(rest, 1, LineEnd(rest))
             /\ l.h.file_offset = f.file_offset + LineEnd(rest)
<1> DEFINE start == f.file_offset
           z == f.size
           K == ContentOf(d, f)
           rest == SubSeq(K, start + 1, z)
           l == fat32_read_line(d, f, size)
           out == l.out
           m == Len(out)
           e == LineEnd(rest)
           there == l.h.file_offset
<1>1. start \in Nat /\ z \in Nat /\ start <= z /\ f.start_cluster \in {0} \cup Clusters
      /\ Holds(Chain(d, f.start_cluster), z)
  BY ReadyIs, HandleTypes, Fat32Assumption
<1>2. K \in Seq(Bytes) /\ Len(K) = z
  BY <1>1, ContentIs DEF ContentOf
<1>3. l \in Lining(d, f, size) /\ (l.done \/ m >= size - 1)
  BY LineEnds
<1>4. /\ out \in Seq(Bytes) /\ m \in Nat /\ there \in Nat /\ there <= z /\ start + m <= there
      /\ AreFrom(out, K, start)
      /\ l.done => there = start + m /\ (Line(out) \/ (Plain(out) /\ there = z))
      /\ ~l.done => Plain(out)
  BY <1>3, ReadyIs, HandleTypes, LenProperties DEF Lining, Lines, LineDone, LineOpen, SameFile
<1>5. e < size
  OBVIOUS
<1> HIDE DEF start, z, K, l, out, m, there
<1>6. /\ rest \in Seq(Bytes) /\ Len(rest) = z - start
      /\ \A i \in 1 .. z - start : rest[i] = K[start + i]
  <2> DEFINE a == start + 1
  <2>1. a \in Nat \ {0} /\ z \in Int /\ z <= Len(K)
    BY <1>1, <1>2
  <2>2. (IF a <= z THEN (z - a) + 1 ELSE 0) = z - start
    BY <1>1
  <2> HIDE DEF a
  <2>3. /\ SubSeq(K, a, z) \in Seq(Bytes) /\ Len(SubSeq(K, a, z)) = z - start
        /\ \A i \in 1 .. Len(SubSeq(K, a, z)) : SubSeq(K, a, z)[i] = K[(i + a) - 1]
    BY <1>2, <2>1, <2>2, Pieces
  <2>4. \A i \in 1 .. z - start : (i + a) - 1 = start + i
    BY <1>1 DEF a
  <2> QED
    BY <2>3, <2>4 DEF a
<1> HIDE DEF rest
<1>7. m <= z - start /\ \A i \in 1 .. m : i \in 1 .. z - start /\ out[i] = rest[i]
  <2>1. m <= z - start /\ \A i \in 1 .. m : i \in 1 .. z - start
    BY <1>1, <1>4
  <2> QED
    BY <1>4, <1>6, <2>1 DEF AreFrom, m
<1> DEFINE k == SelectInSeq(rest, LAMBDA b : b = NEWLINE)
<1>8. /\ NEWLINE \notin Range(rest) => e = z - start /\ Plain(rest)
      /\ NEWLINE \in Range(rest) => /\ e = k /\ k \in 1 .. z - start /\ rest[k] = NEWLINE
                                    /\ \A i \in 1 .. k - 1 : rest[i] # NEWLINE
  <2>1. e = IF NEWLINE \in Range(rest) THEN k ELSE z - start
    BY <1>6 DEF LineEnd
  <2> HIDE DEF e
  <2> QED
    BY <1>6, <2>1, FirstNewline
<1> HIDE DEF k, e
<1>9. e \in 0 .. z - start
  BY <1>1, <1>8
<1>10. m = e /\ there = start + e
  <2>1. ASSUME Plain(out), NEWLINE \in Range(rest)
        PROVE  m < k
    <3>1. SUFFICES ASSUME k <= m PROVE FALSE
      BY <1>1, <1>4, <1>8, <2>1
    <3>2. k \in 1 .. m
      BY <1>1, <1>4, <1>8, <2>1, <3>1
    <3> QED
      BY <1>7, <1>8, <2>1, <3>2 DEF Plain, m
  <2>2. CASE l.done /\ Line(out)
    <3>1. m >= 1 /\ out[m] = NEWLINE /\ \A i \in 1 .. m - 1 : out[i] # NEWLINE
      BY <2>2 DEF Line, m
    <3>2. m \in 1 .. m /\ m \in 1 .. z - start
      BY <1>4, <1>7, <3>1
    <3>3. rest[m] = NEWLINE /\ NEWLINE \in Range(rest)
      <4>1. rest[m] = NEWLINE
        BY <1>7, <3>1, <3>2
      <4>2. ~Plain(rest)
        BY <1>6, <3>2, <4>1 DEF Plain
      <4> QED
        BY <1>8, <4>1, <4>2
    <3>4. ~(m < k)
      BY <1>1, <1>4, <1>8, <3>1, <3>2, <3>3
    <3>5. ~(k < m)
      <4>1. SUFFICES ASSUME k < m PROVE FALSE
        OBVIOUS
      <4>2. k \in 1 .. m - 1 /\ k \in 1 .. m
        BY <1>1, <1>4, <1>8, <3>3, <4>1
      <4> QED
        BY <1>7, <1>8, <3>1, <3>3, <4>2
    <3> QED
      BY <1>1, <1>4, <1>8, <2>2, <3>3, <3>4, <3>5
  <2>3. CASE l.done /\ Plain(out) /\ there = z
    <3>1. m = z - start
      BY <1>1, <1>4, <2>3
    <3>2. NEWLINE \notin Range(rest)
      BY <1>1, <1>4, <1>8, <2>1, <2>3, <3>1
    <3> QED
      BY <1>1, <1>8, <2>3, <3>1, <3>2
  <2>4. CASE ~l.done
    <3>1. m >= size - 1 /\ Plain(out)
      BY <1>3, <1>4, <2>4
    <3>2. m >= e
      BY <1>4, <1>5, <1>9, <1>1, <3>1
    <3>3. NEWLINE \notin Range(rest)
      BY <1>1, <1>4, <1>8, <1>9, <2>1, <3>1, <3>2
    <3> QED
      BY <1>1, <1>4, <1>7, <1>8, <3>2, <3>3
  <2> QED
    BY <1>4, <2>2, <2>3, <2>4
<1>11. out = SubSeq(rest, 1, e)
  <2> DEFINE line == SubSeq(rest, 1, e)
  <2>1. AreFrom(rest, K, start)
    BY <1>6 DEF AreFrom
  <2>2. e \in 0 .. Len(rest)
    BY <1>6, <1>9
  <2>3. line \in Seq(Bytes) /\ Len(line) = e /\ \A i \in 1 .. e : line[i] = rest[i]
    BY <1>1, <1>6, <2>1, <2>2, FirstBytes
  <2> HIDE DEF line
  <2> QED
    BY <1>4, <1>7, <1>10, <2>3, SeqEqual DEF m, line
<1> QED
  BY <1>10, <1>11 DEF start, z, K, l, out, there, e, rest

-----------------------------------------------------------------------------
(* A key is looked for *)

\* What SelectInSeq returns, from the places where its test holds.
FirstOf(I) == IF I # {} THEN Min(I) ELSE 0

\* It is one of them, if there is one.
LEMMA FirstIs ==
  ASSUME NEW n \in Nat, NEW I \in SUBSET (1 .. n)
  PROVE  FirstOf(I) \in 0 .. n /\ (I # {} => FirstOf(I) \in 1 .. n)
<1>1. CASE I = {}
  BY <1>1 DEF FirstOf
<1>2. CASE I # {}
  <2>1. I \in SUBSET Nat
    OBVIOUS
  <2>2. Min(I) \in I
    BY <1>2, <2>1, MinIs
  <2>3. Min(I) \in 1 .. n
    BY <2>2
  <2> QED
    BY <1>2, <2>3 DEF FirstOf
<1> QED
  BY <1>1, <1>2

\* The strings of config.c are sequences of bytes.
LEMMA StringTypes ==
  ASSUME NEW t \in Seq(Bytes)
  PROVE  /\ CString(t) \in Seq(Bytes) /\ Skipped(t) \in Seq(Bytes)
         /\ TokenOf(t).token \in Seq(Bytes) /\ TokenOf(t).next \in Seq(Bytes)
         /\ \A n \in Nat : strncpy(t, n) \in Seq(Bytes)
<1> DEFINE m == Len(t)
           z == SelectInSeq(t, LAMBDA b : b = 0)
           k == SelectInSeq(t, LAMBDA b : b # EQUALS)
           q == SelectInSeq(t, LAMBDA b : b = EQUALS)
<1>1. m \in Nat
  BY LenProperties
<1>2. /\ z \in 0 .. m /\ q \in 0 .. m
      /\ (\E i \in DOMAIN t : t[i] # EQUALS) => k \in 1 .. m
  <2> DEFINE I0 == {i \in 1 .. m : t[i] = 0}
             I1 == {i \in 1 .. m : t[i] # EQUALS}
             I2 == {i \in 1 .. m : t[i] = EQUALS}
  <2>1. z = FirstOf(I0) /\ k = FirstOf(I1) /\ q = FirstOf(I2)
    BY DEF SelectInSeq, FirstOf
  <2>2. I0 \in SUBSET (1 .. m) /\ I1 \in SUBSET (1 .. m) /\ I2 \in SUBSET (1 .. m)
    OBVIOUS
  <2>3. (\E i \in DOMAIN t : t[i] # EQUALS) => I1 # {}
    BY LenProperties
  <2> HIDE DEF I0, I1, I2, z, k, q, m
  <2>4. /\ FirstOf(I0) \in 0 .. m /\ FirstOf(I2) \in 0 .. m
        /\ I1 # {} => FirstOf(I1) \in 1 .. m
    BY <1>1, <2>2, FirstIs
  <2> QED
    BY <2>1, <2>3, <2>4
<1>3. CString(t) = IF 0 \in Range(t) THEN SubSeq(t, 1, z - 1) ELSE t
  BY DEF CString
<1>4. Skipped(t) = IF \E i \in DOMAIN t : t[i] # EQUALS THEN SubSeq(t, k, m) ELSE <<>>
  BY DEF Skipped
<1>5. TokenEnd(t) = IF EQUALS \in Range(t) THEN q - 1 ELSE m
  BY DEF TokenEnd
<1> HIDE DEF m, z, k, q
<1>6. \A a \in Nat \ {0}, b \in Int : b <= m => SubSeq(t, a, b) \in Seq(Bytes)
  <2>1. ASSUME NEW a \in Nat \ {0}, NEW b \in Int, b <= m
        PROVE  SubSeq(t, a, b) \in Seq(Bytes)
    BY <2>1, Pieces DEF m
  <2> QED
    BY <2>1
<1>7. CString(t) \in Seq(Bytes)
  <2> DEFINE e == z - 1
  <2>1. e \in Int /\ e <= m /\ 1 \in Nat \ {0}
    BY <1>1, <1>2
  <2>2. CString(t) = IF 0 \in Range(t) THEN SubSeq(t, 1, e) ELSE t
    BY <1>3
  <2> HIDE DEF e
  <2>3. SubSeq(t, 1, e) \in Seq(Bytes)
    BY <1>6, <2>1
  <2> QED
    BY <2>2, <2>3
<1>8. Skipped(t) \in Seq(Bytes)
  <2>1. <<>> \in Seq(Bytes)
    BY EmptySeq
  <2>2. (\E i \in DOMAIN t : t[i] # EQUALS) => k \in Nat \ {0} /\ m \in Int /\ m <= m
    BY <1>1, <1>2
  <2> QED
    BY <1>4, <1>6, <2>1, <2>2
<1>9. TokenOf(t).token \in Seq(Bytes) /\ TokenOf(t).next \in Seq(Bytes)
  <2> DEFINE e == TokenEnd(t)
             after == e + 2
  <2>1. \/ EQUALS \in Range(t) /\ q \in 0 .. m /\ e = q - 1
        \/ e = m
    BY <1>2, <1>5
  <2>2. e \in Int /\ e <= m /\ e >= -1
    BY <1>1, <2>1
  <2> HIDE DEF e
  <2>3. after \in Nat \ {0} /\ m \in Int /\ m <= m /\ 1 \in Nat \ {0}
    BY <1>1, <2>2
  <2> HIDE DEF after
  <2>4. SubSeq(t, 1, e) \in Seq(Bytes) /\ SubSeq(t, after, m) \in Seq(Bytes)
    BY <1>6, <2>2, <2>3
  <2>5. TokenOf(t).token = SubSeq(t, 1, e) /\ TokenOf(t).next = SubSeq(t, after, m)
    BY DEF TokenOf, e, after, m
  <2> QED
    BY <2>4, <2>5
<1>10. ASSUME NEW n \in Nat
       PROVE  strncpy(t, n) \in Seq(Bytes)
  <2> DEFINE e == Min({n, m})
  <2>1. e \in Int /\ e <= m
    BY <1>1, LessOf
  <2>2. strncpy(t, n) = SubSeq(t, 1, e)
    BY DEF strncpy, e, m
  <2> HIDE DEF e
  <2> QED
    BY <1>6, <2>1, <2>2
<1> QED
  BY <1>7, <1>8, <1>9, <1>10

\* What the search keeps: the handle can be read and is of the same file.
Searching(d, f) ==
  {c \in [h : Handles, done : BOOLEAN, found : BOOLEAN, out : Seq(Bytes)] :
     c.h \in Ready(d) /\ SameFile(c.h, f)}

\* A line is taken, whatever is on it.
LEMMA LineTaken ==
  ASSUME NEW d \in Disks, NEW f \in Ready(d), NEW key, NEW size \in Nat \ {0},
         NEW c \in Searching(d, f), NEW l \in Lines, l.h \in Ready(d), SameFile(l.h, f)
  PROVE  TakeConfigLine(c, key, size, l) \in Searching(d, f)
<1> DEFINE S == [h : Handles, done : BOOLEAN, found : BOOLEAN, out : Seq(Bytes)]
           there == l.h
           e == [c EXCEPT !.h = there]
           t == strtok(CString(l.out))
           u == strtok(t.next).token
           n == size - 1
           w == strncpy(u, n)
           v == [e EXCEPT !.done = TRUE, !.found = TRUE, !.out = w]
           x == [c EXCEPT !.h = there, !.done = TRUE]
<1>1. l.out \in Seq(Bytes) /\ there \in Handles /\ c \in S
  BY DEF Lines, Searching
<1>2. w \in Seq(Bytes)
  <2>1. CString(l.out) \in Seq(Bytes)
    BY <1>1, StringTypes
  <2>2. t.next \in Seq(Bytes)
    BY <2>1, StringTypes DEF strtok
  <2> HIDE DEF t
  <2>3. u \in Seq(Bytes)
    BY <2>2, StringTypes DEF strtok
  <2> HIDE DEF u
  <2>4. n \in Nat
    OBVIOUS
  <2> HIDE DEF n
  <2> QED
    BY <2>3, <2>4, StringTypes
<1>3. TakeConfigLine(c, key, size, l)
        = IF l.out = <<>> THEN x
          ELSE IF t.token = key /\ t.token # <<>> /\ u # <<>> THEN v ELSE e
  BY DEF TakeConfigLine, TakeValue
<1> HIDE DEF there, t, u, w
<1>4. e \in S /\ e.h = there /\ x \in S /\ x.h = there
  BY <1>1
<1> HIDE DEF e, x
<1>5. v \in S /\ v.h = there
  BY <1>2, <1>4
<1> HIDE DEF v, S
<1>6. \A y \in S : y.h = there => y \in Searching(d, f)
  BY DEF Searching, there, S
<1> QED
  BY <1>3, <1>4, <1>5, <1>6

ConfigStep(c, d, key, size, buffer) ==
  IF c.done THEN c ELSE TakeConfigLine(c, key, size, fat32_read_line(d, c.h, buffer))
ConfigFold(g, base, n, d, key, size, buffer) ==
  g = [t \in SUBSET (1 .. n) |->
         IF t = {} THEN base ELSE ConfigStep(g[t \ {Max(t)}], d, key, size, buffer)]

\* config_get_str as a fold.
LEMMA ConfigFoldIs ==
  ASSUME NEW d, NEW f, NEW key, NEW size, NEW buffer, NEW n, n = f.size + 1
  PROVE  config_get_str(d, f, key, size, buffer)
           = (CHOOSE g : ConfigFold(g, [h |-> f, done |-> FALSE, found |-> FALSE, out |-> <<>>], n,
                                    d, key, size, buffer))[1 .. n]
<1>1. DOMAIN [i \in 1 .. f.size + 1 |-> i] = 1 .. n
  OBVIOUS
<1> QED
  BY <1>1 DEF config_get_str, FoldLeft, MapThenFoldSet, ConfigFold, ConfigStep

\* config_get_str leaves a handle of the same file that can be read.
LEMMA Searched ==
  ASSUME NEW d \in Disks, NEW f \in Ready(d), NEW key, NEW size \in Nat \ {0}, NEW buffer \in Nat
  PROVE  config_get_str(d, f, key, size, buffer) \in Searching(d, f)
<1> DEFINE S == Searching(d, f)
           n == f.size + 1
           base == [h |-> f, done |-> FALSE, found |-> FALSE, out |-> <<>>]
           F == [x \in S \X (1 .. n) |-> ConfigStep(x[1], d, key, size, buffer)]
<1>1. n \in Nat /\ n = f.size + 1
  BY ReadyIs, HandleTypes, Fat32Assumption
<1>2. base \in S
  <2> DEFINE e == <<>>
  <2>1. e \in Seq(Bytes)
    BY EmptySeq
  <2>2. f \in Handles
    BY ReadyIs
  <2> HIDE DEF e
  <2> DEFINE r == [h |-> f, done |-> FALSE, found |-> FALSE, out |-> e]
  <2>3. r \in [h : Handles, done : BOOLEAN, found : BOOLEAN, out : Seq(Bytes)] /\ r.h = f
    BY <2>1, <2>2
  <2> HIDE DEF r
  <2>4. SameFile(f, f)
    BY DEF SameFile
  <2>5. r \in S
    BY <2>3, <2>4 DEF Searching
  <2> QED
    BY <2>5 DEF r, e
<1>3. ASSUME NEW s \in S
      PROVE  ConfigStep(s, d, key, size, buffer) \in S
  <2> DEFINE l == fat32_read_line(d, s.h, buffer)
  <2>1. s.h \in Ready(d) /\ SameFile(s.h, f)
    BY DEF Searching
  <2>2. l \in Lining(d, s.h, buffer)
    BY <2>1, LineEnds
  <2> HIDE DEF l
  <2>3. l \in Lines /\ l.h \in Ready(d) /\ SameFile(l.h, s.h)
    BY <2>2 DEF Lining
  <2>4. SameFile(l.h, f)
    BY <2>1, <2>3 DEF SameFile
  <2>5. TakeConfigLine(s, key, size, l) \in S
    BY <2>3, <2>4, LineTaken
  <2>6. ConfigStep(s, d, key, size, buffer) = IF s.done THEN s ELSE TakeConfigLine(s, key, size, l)
    BY DEF ConfigStep, l
  <2> QED
    BY <2>5, <2>6
<1>4. F \in [S \X (1 .. n) -> S]
  BY <1>3
<1>5. \A s \in S, i \in 1 .. n : F[<<s, i>>] = ConfigStep(s, d, key, size, buffer)
  OBVIOUS
<1> HIDE DEF F, S, base, n
<1>6. \E g : ConfigFold(g, base, n, d, key, size, buffer)
  <2>1. PICK g \in [SUBSET (1 .. n) -> S] : IsFold(g, base, F, n)
    BY <1>1, <1>2, <1>4, FoldExists
  <2>2. ASSUME NEW t \in SUBSET (1 .. n), t # {}
        PROVE  F[<<g[t \ {Max(t)}], Max(t)>>] = ConfigStep(g[t \ {Max(t)}], d, key, size, buffer)
    BY <1>1, <1>5, <2>1, <2>2, MaxIn
  <2>3. \A t \in SUBSET (1 .. n) :
          g[t] = IF t = {} THEN base ELSE ConfigStep(g[t \ {Max(t)}], d, key, size, buffer)
    BY <2>1, <2>2 DEF IsFold
  <2>4. g = [t \in SUBSET (1 .. n) |->
               IF t = {} THEN base ELSE ConfigStep(g[t \ {Max(t)}], d, key, size, buffer)]
    BY <2>1, <2>3
  <2>5. ConfigFold(g, base, n, d, key, size, buffer)
    BY <2>4 DEF ConfigFold
  <2> QED
    BY <2>5
<1>7. PICK g : ConfigFold(g, base, n, d, key, size, buffer) /\ config_get_str(d, f, key, size, buffer) = g[1 .. n]
  <2>1. config_get_str(d, f, key, size, buffer) = (CHOOSE g : ConfigFold(g, base, n, d, key, size, buffer))[1 .. n]
    BY <1>1, ConfigFoldIs DEF base, n
  <2> QED
    BY <1>6, <2>1
<1>8. g[1 .. 0] \in S
  BY <1>2, <1>7 DEF ConfigFold
<1>9. \A k \in 1 .. n : g[1 .. k - 1] \in S => g[1 .. k] \in S
  <2>1. ASSUME NEW k \in 1 .. n, g[1 .. k - 1] \in S
        PROVE  g[1 .. k] \in S
    <3>1. /\ 1 .. k \in SUBSET (1 .. n) /\ 1 .. k # {}
          /\ (1 .. k) \ {Max(1 .. k)} = 1 .. k - 1 /\ Max(1 .. k) = k
      BY <1>1, UpTo
    <3>2. g[1 .. k] = ConfigStep(g[(1 .. k) \ {Max(1 .. k)}], d, key, size, buffer)
      BY <1>7, <3>1 DEF ConfigFold
    <3> QED
      BY <1>3, <2>1, <3>1, <3>2
  <2> QED
    BY <2>1
<1>10. \A k \in 0 .. n : g[1 .. k] \in S
  BY <1>1, <1>8, <1>9, FoldStays
<1>11. g[1 .. n] \in S
  BY <1>1, <1>10
<1> QED
  BY <1>7, <1>11 DEF S

-----------------------------------------------------------------------------
(* The state *)

\* A handle in its place can be read.
LEMMA InSyncIsReady ==
  ASSUME TypeOK, InSync(disk, file)
  PROVE  disk \in Disks /\ file \in Ready(disk)
<1>1. disk \in Disks /\ file \in Handles /\ file.file_offset <= file.size
  BY DEF TypeOK
<1>2. file.file_offset \in Nat /\ file.size \in Nat
  BY <1>1, HandleTypes, Fat32Assumption
<1>3. ASSUME file.file_offset = file.size, file.size % ClusterSize # 0
      PROVE  file.current_cluster = Chain(disk, file.start_cluster)[(file.file_offset \div ClusterSize) + 1]
  BY <1>2, <1>3, InMiddle DEF InSync
<1> QED
  BY <1>1, <1>3 DEF InSync, InPlace, Inside, Ready

\* And is in its place, but at the end of a file that fills its last cluster.
LEMMA ReadyIsInSync ==
  ASSUME NEW d, NEW h \in Ready(d), ~(h.file_offset = h.size /\ h.size % ClusterSize = 0)
  PROVE  InSync(d, h)
<1>1. /\ h \in Handles /\ h.file_offset <= h.size /\ Holds(Chain(d, h.start_cluster), h.size)
      /\ InPlace(h, Chain(d, h.start_cluster))
  BY ReadyIs
<1>2. h.file_offset \in Nat /\ h.size \in Nat
  BY <1>1, HandleTypes, Fat32Assumption
<1>3. ASSUME h.file_offset = h.size
      PROVE  /\ h.size # 0
             /\ h.current_cluster = Chain(d, h.start_cluster)[((h.size - 1) \div ClusterSize) + 1]
  BY <1>1, <1>2, <1>3, InMiddle DEF InPlace, Inside
<1> QED
  BY <1>1, <1>3 DEF InSync, InPlace, Inside

\* The handle moves in its file.
LEMMA HandleMoves ==
  ASSUME TypeOK, NEW h \in Handles, h.file_offset <= h.size, SameFile(h, file),
         file' = h, UNCHANGED <<disk, path, dirty, torn>>
  PROVE  TypeOK'
<1>1. h.ctx = file.ctx
  BY DEF SameFile
<1> QED
  BY <1>1 DEF TypeOK

\* The images that a write leaves, and its handle.
LEMMA WriteTypes ==
  ASSUME NEW d \in Disks, NEW f \in Handles, f.ctx, f.file_offset <= f.size,
         NEW bytes \in Seq(Bytes), f.file_offset + Len(bytes) <= MaxSize
  PROVE  fat32_write(d, f, bytes) \in Writing(d)
<1> DEFINE w == [images |-> Unwritten(d), h |-> f, todo |-> bytes]
<1>1. w.images = Unwritten(d) /\ w.h = f /\ w.todo = bytes
  OBVIOUS
<1>2. w \in [images : ImagesAfter(d), h : Handles, todo : Seq(Bytes)]
  BY FirstImage
<1> HIDE DEF w
<1>3. w \in Writing(d)
  BY <1>1, <1>2 DEF Writing
<1>4. WriteFrom(w.images, w.h, w.todo) \in Writing(d)
  BY <1>3, Written
<1> QED
  BY <1>1, <1>4 DEF fat32_write

\* The images that a rewrite leaves, and its handle.
LEMMA RewriteTypes ==
  ASSUME NEW d \in Disks, NEW f \in Handles, NEW bytes \in Payloads
  PROVE  fat32_rewrite(d, f, bytes) \in Writing(d)
<1> DEFINE images == FreeChain(d, f.start_cluster)
           empty == Handle(TRUE, 0, 0, FALSE)
           w == [images |-> images, h |-> empty, todo |-> bytes]
<1>1. bytes \in Seq(Bytes) /\ Len(bytes) <= MaxSize /\ Len(bytes) \in Nat
  BY Fat32Assumption, LenProperties
<1>2. images \in ImagesAfter(d)
  BY HandleTypes, ChainFreed
<1>3. empty \in Opened /\ empty.ctx = TRUE /\ empty.size = 0 /\ empty.file_offset = 0
  <2>1. 0 \in 0 .. MaxSize /\ 0 \in {0} \cup Clusters /\ FALSE \in BOOLEAN /\ TRUE \in BOOLEAN
    BY Fat32Assumption
  <2> QED
    BY <2>1, OpenedIs, Zenon
<1> HIDE DEF images, empty
<1>4. empty \in Handles
  BY <1>3 DEF Opened
<1>5. w.images = images /\ w.h = empty /\ w.todo = bytes
  OBVIOUS
<1>6. w \in [images : ImagesAfter(d), h : Handles, todo : Seq(Bytes)]
  BY <1>1, <1>2, <1>4
<1> HIDE DEF w
<1>7. w.h.ctx /\ w.h.file_offset <= w.h.size /\ w.h.file_offset + Len(w.todo) <= MaxSize
  BY <1>1, <1>3, <1>5
<1>8. w \in Writing(d)
  BY <1>6, <1>7 DEF Writing
<1>9. WriteFrom(w.images, w.h, w.todo) \in Writing(d)
  BY <1>8, Written
<1> QED
  BY <1>5, <1>9 DEF fat32_rewrite, images, empty

\* What Writing says of its parts.
LEMMA WritingIs ==
  ASSUME NEW d, NEW w \in Writing(d)
  PROVE  /\ w.images \in ImagesAfter(d) /\ w.images \in Images /\ w.h \in Handles /\ w.h.ctx
         /\ w.h.file_offset <= w.h.size
BY DEF Writing, ImagesAfter

\* What can be written to the handle.
LEMMA CanWriteTypes ==
  ASSUME TypeOK, NEW bytes \in Payloads, CanWrite(bytes)
  PROVE  fat32_write(disk, file, bytes) \in Writing(disk)
<1>1. disk \in Disks /\ file \in Handles /\ file.file_offset <= file.size /\ file.ctx
  BY DEF TypeOK, CanWrite
<1>2. bytes \in Seq(Bytes) /\ file.file_offset + Len(bytes) <= MaxSize
  BY Fat32Assumption DEF CanWrite
<1> QED
  BY <1>1, <1>2, WriteTypes

\* The images that the actions of one step leave the last of.
LEMMA StepImages ==
  ASSUME TypeOK
  PROVE  /\ \A p \in FilePaths : fat32_create(disk, p) \in ImagesAfter(disk)
         /\ \A p \in DirPaths : /\ fat32_mkdir(disk, p) \in ImagesAfter(disk)
                                /\ fat32_rmdir(disk, p) \in ImagesAfter(disk)
         /\ \A p \in FilePaths \cup DirPaths : fat32_remove(disk, p) \in ImagesAfter(disk)
         /\ UpdateEntry => fat32_update_file_entry(disk, path, file.start_cluster, file.size)
                             \in ImagesAfter(disk)
<1>1. disk \in Disks
  BY DEF TypeOK
<1>2. ASSUME UpdateEntry
      PROVE  fat32_update_file_entry(disk, path, file.start_cluster, file.size) \in ImagesAfter(disk)
  <2>1. path \in FilePaths \cup DirPaths /\ file \in Handles
    BY <1>2 DEF UpdateEntry, TypeOK
  <2>2. file.start_cluster \in {0} \cup Clusters /\ file.size \in 0 .. MaxSize
    BY <2>1, HandleTypes
  <2> QED
    BY <1>1, <2>1, <2>2, PathImages
<1> QED
  BY <1>1, <1>2, PathImages

\* The disk after them.
LEMMA LastIs ==
  ASSUME NEW d, NEW images \in ImagesAfter(d)
  PROVE  /\ Last(images) \in Disks /\ FatKept(d, Last(images))
         /\ \A k \in DOMAIN images : images[k] \in Disks
BY ImagesGrow DEF ImagesAfter

\* A crash leaves one of the images.
LEMMA CrashTypes ==
  ASSUME NEW images \in Images, CrashIn(images)
  PROVE  /\ disk' \in Disks /\ file' = NoFile /\ path' = <<>> /\ dirty' = CLEAN
BY ImagesGrow DEF CrashIn

-----------------------------------------------------------------------------
(* The steps *)

\* No file is open, and nothing of one is unwritten.
LEMMA NoneIsTyped ==
  /\ NoFile \in Handles /\ NoFile.file_offset <= NoFile.size
  /\ <<>> \in FilePaths \cup {<<>>} /\ NoFile.ctx = (<<>> # <<>>)
  /\ CLEAN \in {CLEAN, WRITTEN, REWRITTEN} /\ (CLEAN # CLEAN => NoFile.ctx)
<1>1. NoFile \in Handles /\ NoFile.file_offset = 0 /\ NoFile.size = 0
  BY NoFileIs DEF Opened
<1>2. NoFile.ctx = (<<>> # <<>>)
  BY NoFileIs, Zenon
<1> QED
  BY <1>1, <1>2

\* The disk as it is mounted.
LEMMA InitTypes == Init => TypeOK
<1> SUFFICES ASSUME Init PROVE TypeOK
  OBVIOUS
<1>1. disk \in Disks
  BY Fat32Assumption DEF Init
<1>2. file = NoFile /\ path = <<>> /\ dirty = CLEAN /\ torn \in BOOLEAN
  BY DEF Init
<1> QED
  BY <1>1, <1>2, NoneIsTyped, Zenon DEF TypeOK

\* A file is opened.
LEMMA OpenStep ==
  ASSUME TypeOK, NEW p \in FilePaths, Open(p)
  PROVE  TypeOK'
<1>1. disk \in Disks /\ p \in Seq(Nat \X Nat) /\ p # <<>>
  BY Fat32Assumption DEF TypeOK
<1> DEFINE h == fat32_open_file(disk, p)
<1>2. h \in Opened
  BY <1>1, OpenTypes
<1>3. h.ctx /\ file' = h /\ path' = p /\ UNCHANGED <<disk, dirty, torn>>
  BY DEF Open
<1> HIDE DEF h
<1>4. h \in Handles /\ h.file_offset = 0 /\ h.size \in 0 .. MaxSize /\ h.ctx = TRUE
  BY <1>2, <1>3, HandleTypes DEF Opened
<1>5. h.file_offset <= h.size
  BY <1>4, Fat32Assumption
<1> QED
  BY <1>1, <1>3, <1>4, <1>5 DEF TypeOK

\* A file is closed.
LEMMA CloseStep ==
  ASSUME TypeOK, Close
  PROVE  TypeOK'
<1>1. /\ file' = NoFile /\ path' = <<>> /\ dirty' = CLEAN /\ torn' \in BOOLEAN
      /\ disk' \in Disks
  BY DEF Close, TypeOK
<1> QED
  BY <1>1, NoneIsTyped, Zenon DEF TypeOK

\* Bytes are read.
LEMMA ReadStep ==
  ASSUME TypeOK, NEW n \in Nat, Read(n)
  PROVE  TypeOK'
<1>1. disk \in Disks /\ file \in Ready(disk)
  BY InSyncIsReady DEF Read
<1> DEFINE h == fat32_read(disk, file, n).h
<1>2. h \in Ready(disk) /\ SameFile(h, file)
  BY <1>1, ReadEnds DEF Reading
<1>3. file' = h /\ UNCHANGED <<disk, path, dirty, torn>>
  BY DEF Read
<1> HIDE DEF h
<1> QED
  BY <1>2, <1>3, ReadyIs, HandleMoves

\* A line is read.
LEMMA ReadLineStep ==
  ASSUME TypeOK, NEW size \in Nat, ReadLine(size)
  PROVE  TypeOK'
<1>1. disk \in Disks /\ file \in Ready(disk)
  BY InSyncIsReady DEF ReadLine
<1> DEFINE h == fat32_read_line(disk, file, size).h
<1>2. h \in Ready(disk) /\ SameFile(h, file)
  BY <1>1, LineEnds DEF Lining
<1>3. file' = h /\ UNCHANGED <<disk, path, dirty, torn>>
  BY DEF ReadLine
<1> HIDE DEF h
<1> QED
  BY <1>2, <1>3, ReadyIs, HandleMoves

\* A key is looked for.
LEMMA ConfigStepTypes ==
  ASSUME TypeOK, NEW key, NEW size \in Nat \ {0}, NEW buffer \in Nat, ConfigGetStr(key, size, buffer)
  PROVE  TypeOK'
<1>1. disk \in Disks /\ file \in Ready(disk)
  BY InSyncIsReady DEF ConfigGetStr
<1> DEFINE h == config_get_str(disk, file, key, size, buffer).h
<1>2. h \in Ready(disk) /\ SameFile(h, file)
  BY <1>1, Searched DEF Searching
<1>3. file' = h /\ UNCHANGED <<disk, path, dirty, torn>>
  BY DEF ConfigGetStr
<1> HIDE DEF h
<1> QED
  BY <1>2, <1>3, ReadyIs, HandleMoves

\* The handle is moved.
LEMMA SeekStep ==
  ASSUME TypeOK, NEW offset \in Nat, Seek(offset)
  PROVE  TypeOK'
<1>1. disk \in Disks /\ file \in Handles /\ offset <= file.size
  BY DEF TypeOK, Seek
<1> DEFINE h == fat32_seek(disk, file, offset)
<1>2. h \in Handles /\ SameFile(h, file) /\ h.file_offset = offset
  BY <1>1, Sought
<1>3. file' = h /\ UNCHANGED <<disk, path, dirty, torn>>
  BY DEF Seek
<1> HIDE DEF h
<1>4. h.file_offset <= h.size
  BY <1>1, <1>2 DEF SameFile
<1> QED
  BY <1>2, <1>3, <1>4, HandleMoves

\* Bytes are written.
LEMMA WriteStep ==
  ASSUME TypeOK, NEW bytes \in Payloads, Write(bytes)
  PROVE  TypeOK' /\ FatKept(disk, disk')
<1> DEFINE w == fat32_write(disk, file, bytes)
<1>1. w \in Writing(disk)
  BY CanWriteTypes DEF Write
<1>2. /\ disk' = Last(w.images) /\ file' = w.h /\ dirty' = AfterWrite(w.h) /\ path' = path
      /\ torn' \in BOOLEAN
  BY DEF Write, CutsShort
<1>3. file.ctx
  BY DEF Write, CanWrite
<1> HIDE DEF w
<1>4. /\ w.images \in ImagesAfter(disk) /\ w.h \in Handles /\ w.h.ctx = TRUE
      /\ w.h.file_offset <= w.h.size
  BY <1>1, WritingIs, HandleTypes
<1>5. disk' \in Disks /\ FatKept(disk, disk')
  BY <1>2, <1>4, LastIs
<1>6. dirty' \in {CLEAN, WRITTEN, REWRITTEN}
  BY <1>2 DEF AfterWrite, TypeOK
<1>7. file.ctx = TRUE /\ path' # <<>> /\ path' \in FilePaths \cup {<<>>} /\ torn' \in BOOLEAN
  BY <1>2, <1>3, HandleTypes DEF TypeOK
<1> QED
  BY <1>2, <1>4, <1>5, <1>6, <1>7 DEF TypeOK

\* A file is written anew.
LEMMA RewriteStep ==
  ASSUME TypeOK, NEW bytes \in Payloads, Rewrite(bytes)
  PROVE  TypeOK' /\ FatKept(disk, disk')
<1> DEFINE w == fat32_rewrite(disk, file, bytes)
<1>1. w \in Writing(disk)
  BY RewriteTypes DEF TypeOK
<1>2. disk' = Last(w.images) /\ file' = w.h /\ dirty' = REWRITTEN /\ UNCHANGED <<path, torn>>
  BY DEF Rewrite
<1>3. file.ctx
  BY DEF Rewrite
<1> HIDE DEF w
<1>4. /\ w.images \in ImagesAfter(disk) /\ w.h \in Handles /\ w.h.ctx = TRUE
      /\ w.h.file_offset <= w.h.size
  BY <1>1, WritingIs, HandleTypes
<1>5. disk' \in Disks /\ FatKept(disk, disk')
  BY <1>2, <1>4, LastIs
<1>6. file.ctx = TRUE /\ path' # <<>> /\ path' \in FilePaths \cup {<<>>} /\ torn' \in BOOLEAN
  BY <1>2, <1>3, HandleTypes DEF TypeOK
<1> QED
  BY <1>2, <1>4, <1>5, <1>6 DEF TypeOK

\* The entry of the file is updated.
LEMMA UpdateStep ==
  ASSUME TypeOK, UpdateEntry
  PROVE  TypeOK' /\ FatKept(disk, disk')
<1> DEFINE images == fat32_update_file_entry(disk, path, file.start_cluster, file.size)
<1>1. images \in ImagesAfter(disk)
  BY StepImages
<1>2. disk' = Last(images) /\ dirty' = CLEAN /\ UNCHANGED <<file, path>> /\ torn' \in BOOLEAN
  BY DEF UpdateEntry
<1> HIDE DEF images
<1>3. disk' \in Disks /\ FatKept(disk, disk')
  BY <1>1, <1>2, LastIs
<1> QED
  BY <1>2, <1>3 DEF TypeOK

\* A directory is changed.
LEMMA OnPathStep ==
  ASSUME TypeOK, NEW images \in ImagesAfter(disk), OnPath(images)
  PROVE  TypeOK' /\ FatKept(disk, disk')
<1>1. disk' = Last(images) /\ UNCHANGED <<file, path, dirty, torn>>
  BY DEF OnPath
<1>2. disk' \in Disks /\ FatKept(disk, disk')
  BY <1>1, LastIs
<1> QED
  BY <1>1, <1>2 DEF TypeOK

\* Steps on paths.
LEMMA PathStep ==
  ASSUME TypeOK,
         \/ \E p \in FilePaths : Create(p)
         \/ \E p \in DirPaths : Mkdir(p) \/ Rmdir(p)
         \/ \E p \in FilePaths \cup DirPaths : RemovePath(p)
  PROVE  TypeOK' /\ FatKept(disk, disk')
<1>1. ASSUME NEW p \in FilePaths, Create(p)
      PROVE  TypeOK' /\ FatKept(disk, disk')
  BY <1>1, StepImages, OnPathStep DEF Create
<1>2. ASSUME NEW p \in DirPaths, Mkdir(p)
      PROVE  TypeOK' /\ FatKept(disk, disk')
  BY <1>2, StepImages, OnPathStep DEF Mkdir
<1>3. ASSUME NEW p \in DirPaths, Rmdir(p)
      PROVE  TypeOK' /\ FatKept(disk, disk')
  BY <1>3, StepImages, OnPathStep DEF Rmdir
<1>4. ASSUME NEW p \in FilePaths \cup DirPaths, RemovePath(p)
      PROVE  TypeOK' /\ FatKept(disk, disk')
  BY <1>4, StepImages, OnPathStep DEF RemovePath
<1> QED
  BY <1>1, <1>2, <1>3, <1>4

\* The machine crashes.
LEMMA CrashStep ==
  ASSUME TypeOK, Crash
  PROVE  TypeOK'
<1> DEFINE Left == /\ disk' \in Disks /\ file' = NoFile /\ path' = <<>> /\ dirty' = CLEAN
                   /\ torn' \in BOOLEAN
<1>1. disk \in Disks /\ file \in Handles
  BY DEF TypeOK
<1>2. ASSUME CrashIdle
      PROVE  Left
  <2>1. torn' \in BOOLEAN
    BY <1>2 DEF CrashIdle, Stale
  <2> QED
    BY <1>1, <1>2, <2>1, OneImage, CrashTypes DEF CrashIdle
<1>3. ASSUME NEW bytes \in Payloads, CrashInWrite(bytes)
      PROVE  Left
  <2>1. fat32_write(disk, file, bytes).images \in Images
    BY <1>3, CanWriteTypes, WritingIs DEF CrashInWrite
  <2>2. torn' \in BOOLEAN
    BY <1>3 DEF CrashInWrite
  <2> QED
    BY <1>3, <2>1, <2>2, CrashTypes DEF CrashInWrite
<1>4. ASSUME NEW bytes \in Payloads, CrashInRewrite(bytes)
      PROVE  Left
  <2>1. fat32_rewrite(disk, file, bytes).images \in Images
    BY <1>1, RewriteTypes, WritingIs
  <2>2. torn' \in BOOLEAN
    BY <1>4 DEF CrashInRewrite
  <2> QED
    BY <1>4, <2>1, <2>2, CrashTypes DEF CrashInRewrite
<1>5. ASSUME NEW p \in DirPaths, CrashInMkdir(p)
      PROVE  Left
  <2>1. fat32_mkdir(disk, p) \in Images
    BY StepImages DEF ImagesAfter
  <2>2. torn' \in BOOLEAN
    BY <1>5 DEF CrashInMkdir
  <2> QED
    BY <1>5, <2>1, <2>2, CrashTypes DEF CrashInMkdir
<1>6. Left
  BY <1>2, <1>3, <1>4, <1>5 DEF Crash
<1> QED
  BY <1>6, NoneIsTyped, Zenon DEF TypeOK

\* The numbers that the actions take.
LEMMA Parameters ==
  /\ \A n \in 1 .. MaxSize : n \in Nat
  /\ \A n \in 0 .. MaxSize : n \in Nat
  /\ \A size \in 2 .. MaxSize + 1 : size \in Nat
  /\ \A size \in {3, MaxSize + 1} : size \in Nat \ {0} /\ size \in Nat
BY Fat32Assumption

\* A step keeps the types, and every step but a crash the copies of the FAT.
LEMMA NextStep ==
  ASSUME TypeOK, [Next]_vars
  PROVE  TypeOK' /\ (Crash \/ FatKept(disk, disk'))
<1>2. ASSUME NEW p \in FilePaths, Open(p)
      PROVE  TypeOK' /\ disk' = disk
  BY <1>2, OpenStep DEF Open
<1>3. ASSUME NEW n \in 1 .. MaxSize, Read(n)
      PROVE  TypeOK' /\ disk' = disk
  BY <1>3, Parameters, ReadStep DEF Read
<1>4. ASSUME NEW size \in 2 .. MaxSize + 1, ReadLine(size)
      PROVE  TypeOK' /\ disk' = disk
  BY <1>4, Parameters, ReadLineStep DEF ReadLine
<1>5. ASSUME NEW key \in ConfigKeys, NEW size \in {3, MaxSize + 1}, NEW buffer \in {3, MaxSize + 1},
             ConfigGetStr(key, size, buffer)
      PROVE  TypeOK' /\ disk' = disk
  BY <1>5, Parameters, ConfigStepTypes DEF ConfigGetStr
<1>6. ASSUME NEW offset \in 0 .. MaxSize, Seek(offset)
      PROVE  TypeOK' /\ disk' = disk
  BY <1>6, Parameters, SeekStep DEF Seek
<1>7. ASSUME Close
      PROVE  TypeOK' /\ disk' = disk
  BY <1>7, CloseStep DEF Close
<1>8. ASSUME NEW bytes \in Payloads, Write(bytes) \/ Rewrite(bytes)
      PROVE  TypeOK' /\ FatKept(disk, disk')
  BY <1>8, WriteStep, RewriteStep
<1>9. ASSUME UpdateEntry
      PROVE  TypeOK' /\ FatKept(disk, disk')
  BY <1>9, UpdateStep
<1>10. ASSUME Crash
       PROVE  TypeOK'
  BY <1>10, CrashStep
<1>11. ASSUME UNCHANGED vars
       PROVE  TypeOK' /\ disk' = disk
  BY <1>11 DEF vars, TypeOK
<1>12. disk' = disk => FatKept(disk, disk')
  BY DEF FatKept
<1> QED
  BY <1>2, <1>3, <1>4, <1>5, <1>6, <1>7, <1>8, <1>9, <1>10, <1>11, <1>12, PathStep DEF Next

\* The state has its type.
THEOREM TypeCorrect == Spec => []TypeOK
<1>1. TypeOK /\ [Next]_vars => TypeOK'
  BY NextStep
<1> QED
  BY InitTypes, <1>1, PTL DEF Spec

\* Every change of the FAT ends with all its copies alike, even if a crash had
\* left them apart.
THEOREM CopiesStayAlike == Spec => CopiesAgree
<1> DEFINE Kept == ~Crash /\ disk'.fat[1] # disk.fat[1] =>
                     \A i \in 1 .. FatCount : disk'.fat[i] = disk'.fat[1]
<1>1. TypeOK /\ [Next]_vars => [Kept]_vars
  <2> SUFFICES ASSUME TypeOK, [Next]_vars, ~Crash, disk'.fat[1] # disk.fat[1]
               PROVE  \A i \in 1 .. FatCount : disk'.fat[i] = disk'.fat[1]
    OBVIOUS
  <2>1. FatKept(disk, disk')
    BY NextStep
  <2> QED
    BY <2>1 DEF FatKept, Alike
<1> QED
  BY <1>1, TypeCorrect, PTL DEF Spec, CopiesAgree

\* A read through a handle in its place returns the bytes of the file from the
\* offset on, over the ends of clusters.
THEOREM ReadsAreExact == Spec => []ReadIsExact
<1>1. TypeOK => ReadIsExact
  <2> SUFFICES ASSUME TypeOK, InSync(disk, file), NEW n \in 1 .. MaxSize
               PROVE  fat32_read(disk, file, n).out =
                        SubSeq(ContentOf(disk, file), file.file_offset + 1,
                               Min({file.file_offset + n, file.size}))
    BY DEF ReadIsExact
  <2> QED
    BY InSyncIsReady, Parameters, ReadIs
<1> QED
  BY <1>1, TypeCorrect, PTL

\* A line that fits into the buffer is read whole, and the handle is left
\* behind its newline.
THEOREM LinesAreReadWhole == Spec => []LinesAreWhole
<1>1. TypeOK => LinesAreWhole
  <2> DEFINE rest == SubSeq(ContentOf(disk, file), file.file_offset + 1, file.size)
  <2> SUFFICES ASSUME TypeOK, InSync(disk, file), NEW size \in 2 .. MaxSize + 1, LineEnd(rest) < size
               PROVE  /\ fat32_read_line(disk, file, size).out = SubSeq(rest, 1, LineEnd(rest))
                      /\ fat32_read_line(disk, file, size).h.file_offset
                           = file.file_offset + LineEnd(rest)
    BY DEF LinesAreWhole
  <2> QED
    BY InSyncIsReady, Parameters, WholeLine
<1> QED
  BY <1>1, TypeCorrect, PTL

=============================================================================
