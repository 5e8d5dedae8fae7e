----------------------------- MODULE HeapProofs -----------------------------
(***************************************************************************)
(* Proofs about Heap, for every size of the heap, every even number of     *)
(* values of a byte and every set of sizes that callers ask for.           *)
(***************************************************************************)
EXTENDS Heap, WellFoundedInduction, TLAPS

-----------------------------------------------------------------------------
(* Numbers *)

\* Division by a positive number.
LEMMA Divides ==
  ASSUME NEW n \in Nat, NEW d \in Nat, d > 0
  PROVE  /\ n % d \in 0 .. d - 1
         /\ n \div d \in Nat
         /\ n = d * (n \div d) + (n % d)
         /\ n < d * d => n \div d < d
         /\ n < d => n % d = n
<1>1. n % d \in 0 .. d - 1
  OBVIOUS
<1>2. n \div d \in Int /\ n \div d >= 0
  <2>1. n \div d \in Int
    OBVIOUS
  <2>2. n \div d >= 0
    OBVIOUS
  <2> QED
    BY <2>1, <2>2
<1>3. n = d * (n \div d) + (n % d)
  OBVIOUS
<1>4. ASSUME n < d * d PROVE n \div d < d
  BY <1>4
<1>5. n < d => n % d = n
  OBVIOUS
<1> QED
  BY <1>1, <1>2, <1>3, <1>4, <1>5

\* Setting and clearing the lowest bit keeps a byte a byte: the number of
\* values of a byte is even.
LEMMA LowestBit ==
  ASSUME NEW n \in 0 .. Radix - 1
  PROVE  /\ n + 1 - (n % 2) \in 0 .. Radix - 1
         /\ n - (n % 2) \in 0 .. Radix - 1
         /\ (n + 1 - (n % 2)) % 2 = 1
         /\ (n - (n % 2)) % 2 = 0
  BY HeapAssumption

\* A set of numbers that is not empty has a least element.
LEMMA LeastOf ==
  ASSUME NEW T \in SUBSET Nat, T # {}
  PROVE  \E x \in T : \A y \in T : x <= y
<1> DEFINE R == {ss \in Nat \X Nat : ss[1] < ss[2]}
<1>1. IsWellFoundedOn(R, Nat)
  BY NatLessThanWellFounded DEF OpToRel
<1>2. \A x, y \in Nat : x < y => <<x, y>> \in R
  OBVIOUS
<1> HIDE DEF R
<1>3. PICK x \in T : \A y \in T : ~(<<y, x>> \in R)
  BY <1>1, WFMin
<1>4. \A y \in T : ~(y < x) /\ y \in Nat /\ x \in Nat
  BY <1>2, <1>3
<1> QED
  BY <1>4

\* A set of offsets of headers that is not empty has a greatest element.
LEMMA GreatestOf ==
  ASSUME NEW T \in SUBSET (0 .. KMALLOC_SIZE), T # {}
  PROVE  \E x \in T : \A y \in T : y <= x
<1> DEFINE U == {KMALLOC_SIZE - t : t \in T}
<1>1. KMALLOC_SIZE \in Nat
  BY HeapAssumption
<1>2. U \in SUBSET Nat /\ U # {}
  <2>1. \A t \in T : KMALLOC_SIZE - t \in Nat
    BY <1>1
  <2> QED
    BY <2>1
<1>3. PICK x \in U : \A y \in U : x <= y
  BY <1>2, LeastOf
<1>4. PICK t \in T : x = KMALLOC_SIZE - t
  BY <1>3
<1>5. ASSUME NEW y \in T PROVE y <= t
  <2>1. KMALLOC_SIZE - y \in U
    BY <1>5
  <2>2. KMALLOC_SIZE - t <= KMALLOC_SIZE - y
    BY <1>3, <1>4, <2>1
  <2>3. t \in 0 .. KMALLOC_SIZE /\ y \in 0 .. KMALLOC_SIZE
    BY <1>4, <1>5
  <2> HIDE DEF U
  <2> QED
    BY <1>1, <2>2, <2>3
<1> QED
  BY <1>5

-----------------------------------------------------------------------------
(* Headers *)

HeapType == [Offsets -> 0 .. Radix - 1]

\* A header that lies in the heap has room for its four bytes.
IsHeader(i) == i \in Nat /\ i + HEADER <= KMALLOC_SIZE

\* Two heaps have the same header at i.
SameHeader(g, h, i) == Size(g, i) = Size(h, i) /\ (Used(g, i) <=> Used(h, i))

\* The bytes of a header are in the heap.
LEMMA HeaderBytes ==
  ASSUME NEW i, IsHeader(i)
  PROVE  i \in Offsets /\ i + 1 \in Offsets /\ i + 2 \in Offsets /\ i + 3 \in Offsets
  BY HeapAssumption DEF IsHeader, Offsets, HEADER

\* The size in a header is a number.
LEMMA SizeIsNat ==
  ASSUME NEW h \in HeapType, NEW i, IsHeader(i)
  PROVE  Size(h, i) \in Nat
<1>1. h[i] \in Nat /\ h[i + 1] \in Nat
  BY HeaderBytes, HeapAssumption DEF HeapType
<1>2. \A a, b, c \in Nat : a + b * c \in Nat
  OBVIOUS
<1> QED
  BY <1>1, <1>2, HeapAssumption DEF Size

\* Two heaps with the same bytes in a header have the same header.
LEMMA SameBytes ==
  ASSUME NEW g, NEW h, NEW i,
         g[i] = h[i], g[i + 1] = h[i + 1], g[i + 2] = h[i + 2]
  PROVE  SameHeader(g, h, i)
  BY DEF SameHeader, Size, Used

\* Writing a size changes two bytes, and the size is there if it has 16 bits.
LEMMA SizeWritten ==
  ASSUME NEW h \in HeapType, NEW i \in Nat, i + 1 \in Offsets, NEW size \in Nat
  PROVE  /\ SetSize(h, i, size) \in HeapType
         /\ \A o \in Offsets \ {i, i + 1} : SetSize(h, i, size)[o] = h[o]
         /\ size < Radix * Radix => Size(SetSize(h, i, size), i) = size
<1> DEFINE low == size % Radix
           high == size \div Radix
           g == SetSize(h, i, size)
<1>1. Radix \in Nat /\ Radix > 0 /\ i \in Offsets /\ i # i + 1
  BY HeapAssumption DEF Offsets
<1>2. low \in 0 .. Radix - 1 /\ high \in Nat /\ size = Radix * high + low
  BY <1>1, Divides
<1>3. high % Radix \in 0 .. Radix - 1
  BY <1>1, <1>2, Divides
<1>4. size < Radix * Radix => high % Radix = high
  <2>1. SUFFICES ASSUME size < Radix * Radix PROVE high % Radix = high
    OBVIOUS
  <2>2. high < Radix
    BY <1>1, <2>1, Divides
  <2> QED
    BY <1>1, <1>2, <2>2, Divides
<1>5. g = [h EXCEPT ![i] = low, ![i + 1] = high % Radix]
  BY DEF SetSize
<1> HIDE DEF low, high, g
<1>6. g \in HeapType /\ g[i] = low /\ g[i + 1] = high % Radix
  BY <1>1, <1>2, <1>3, <1>5 DEF HeapType
<1>7. \A o \in Offsets \ {i, i + 1} : g[o] = h[o]
  BY <1>5 DEF HeapType
<1>8. size < Radix * Radix => Size(g, i) = size
  BY <1>1, <1>2, <1>4, <1>6 DEF Size
<1> QED
  BY <1>6, <1>7, <1>8 DEF g

\* Marking a block as used or free changes one byte, and none of the size.
LEMMA UsedWritten ==
  ASSUME NEW h \in HeapType, NEW i, IsHeader(i)
  PROVE  /\ SetUsed(h, i) \in HeapType /\ ClearUsed(h, i) \in HeapType
         /\ Used(SetUsed(h, i), i) /\ ~Used(ClearUsed(h, i), i)
         /\ \A o \in Offsets \ {i + 2} :
              SetUsed(h, i)[o] = h[o] /\ ClearUsed(h, i)[o] = h[o]
<1>1. i + 2 \in Offsets
  BY HeaderBytes
<1> DEFINE n == h[i + 2]
<1>2. n \in 0 .. Radix - 1
  BY <1>1 DEF HeapType
<1>3. /\ SetUsed(h, i) = [h EXCEPT ![i + 2] = n + 1 - (n % 2)]
      /\ ClearUsed(h, i) = [h EXCEPT ![i + 2] = n - (n % 2)]
  BY DEF SetUsed, ClearUsed
<1>4. /\ n + 1 - (n % 2) \in 0 .. Radix - 1 /\ n - (n % 2) \in 0 .. Radix - 1
      /\ (n + 1 - (n % 2)) % 2 = 1 /\ (n - (n % 2)) % 2 = 0
  BY <1>2, LowestBit
<1> HIDE DEF n
<1>5. SetUsed(h, i) \in HeapType /\ ClearUsed(h, i) \in HeapType
  BY <1>1, <1>3, <1>4 DEF HeapType
<1>6. SetUsed(h, i)[i + 2] = n + 1 - (n % 2) /\ ClearUsed(h, i)[i + 2] = n - (n % 2)
  BY <1>1, <1>3 DEF HeapType
<1>7. \A o \in Offsets \ {i + 2} : SetUsed(h, i)[o] = h[o] /\ ClearUsed(h, i)[o] = h[o]
  BY <1>3 DEF HeapType
<1>8. Used(SetUsed(h, i), i) /\ ~Used(ClearUsed(h, i), i)
  BY <1>4, <1>6 DEF Used
<1> QED
  BY <1>5, <1>7, <1>8, Zenon

\* A block that is filled leaves the rest as it was.
LEMMA Filled ==
  ASSUME NEW h \in HeapType, NEW b, NEW byte \in 0 .. Radix - 1
  PROVE  /\ Fill(h, b, byte) \in HeapType
         /\ \A o \in Offsets \ Bytes(b) : Fill(h, b, byte)[o] = h[o]
  BY DEF Fill, HeapType
-----------------------------------------------------------------------------
(* The chain of headers, and the search of find_free_block in it *)

\* Where the header behind the block at i is.
After(h, i) == i + HEADER + Size(h, i)

\* The end of the chain: a free block of size 0.
End(h, i) == ~Used(h, i) /\ Size(h, i) = 0

\* The block at i is free and large enough, or the end of the chain.
Fit(h, size, i) ==
  /\ i \in Nat /\ i + HEADER + size <= KMALLOC_SIZE
  /\ ~Used(h, i) /\ (Size(h, i) >= size \/ Size(h, i) = 0)

\* One turn of the loop of find_free_block, where f is what the rest returns.
Turn(h, size, f, i) ==
  IF i + HEADER + size > KMALLOC_SIZE THEN NULL
  ELSE IF ~Used(h, i) /\ (Size(h, i) >= size \/ Size(h, i) = 0) THEN i
  ELSE f[i + HEADER + Size(h, i)]

Onward(m) == {i \in Nat : i >= m}

\* f is the search from each offset that is not below m.
Searches(h, size, f, m) == f = [i \in Onward(m) |-> Turn(h, size, f, i)]

\* P holds headers only, each of them start or behind another one in P that is
\* not the end of the chain.
WalkFrom(h, start, P) ==
  \A p \in P : /\ IsHeader(p)
               /\ p = start \/ \E q \in P : ~End(h, q) /\ p = After(h, q)

Walk(h, P) == WalkFrom(h, 0, P)

\* The chain goes up.
LEMMA GoesUp ==
  ASSUME NEW h \in HeapType, NEW i, IsHeader(i)
  PROVE  After(h, i) \in Nat /\ After(h, i) >= i + HEADER
  BY SizeIsNat DEF After, IsHeader, HEADER

\* A turn that does not stop is at a header, and goes on behind it.
LEMMA TurnsUp ==
  ASSUME NEW h \in HeapType, NEW size \in Nat, NEW f, NEW i \in Nat
  PROVE  \/ Turn(h, size, f, i) = NULL
         \/ Turn(h, size, f, i) = i /\ Fit(h, size, i)
         \/ /\ IsHeader(i) /\ ~End(h, i)
            /\ Turn(h, size, f, i) = f[After(h, i)]
            /\ After(h, i) \in Onward(i + 1)
<1>1. CASE i + HEADER + size > KMALLOC_SIZE
  BY <1>1 DEF Turn
<1>2. CASE ~(i + HEADER + size > KMALLOC_SIZE)
  <2>1. i + HEADER + size <= KMALLOC_SIZE /\ IsHeader(i)
    BY <1>2, HeapAssumption DEF IsHeader, HEADER
  <2>2. After(h, i) \in Onward(i + 1)
    BY <2>1, GoesUp DEF Onward, HEADER
  <2>3. CASE ~Used(h, i) /\ (Size(h, i) >= size \/ Size(h, i) = 0)
    BY <1>2, <2>1, <2>3 DEF Turn, Fit
  <2>4. CASE ~(~Used(h, i) /\ (Size(h, i) >= size \/ Size(h, i) = 0))
    <3>1. ~End(h, i)
      BY <2>4 DEF End
    <3> QED
      BY <1>2, <2>1, <2>2, <2>4, <3>1 DEF Turn, After
  <2> QED
    BY <2>3, <2>4
<1> QED
  BY <1>1, <1>2

\* Behind the end of the heap the search returns at once.
LEMMA StopsOutside ==
  ASSUME NEW h, NEW size \in Nat, NEW f, NEW i \in Nat, i >= KMALLOC_SIZE
  PROVE  Turn(h, size, f, i) = NULL
  BY HeapAssumption DEF Turn, HEADER

\* The loop of find_free_block ends: there is a function that is the search
\* from each offset, and find_free_block is its value at 0.
LEMMA SearchEnds ==
  ASSUME NEW h \in HeapType, NEW size \in Nat
  PROVE  \E f : Searches(h, size, f, 0) /\ find_free_block(h, size) = f[0]
<1>1. KMALLOC_SIZE \in Nat
  BY HeapAssumption
<1> DEFINE Open == {m \in 0 .. KMALLOC_SIZE : ~ \E f : Searches(h, size, f, m)}
<1>2. Open = {}
  <2>1. SUFFICES ASSUME Open # {} PROVE FALSE
    OBVIOUS
  <2>2. PICK m \in Open : \A y \in Open : y <= m
    BY <2>1, GreatestOf
  <2>3. m \in Nat /\ m <= KMALLOC_SIZE
    BY <1>1, <2>2
  <2>4. CASE m = KMALLOC_SIZE
    <3> DEFINE f == [i \in Onward(m) |-> NULL]
    <3>1. \A i \in Onward(m) : Turn(h, size, f, i) = NULL
      BY <1>1, <2>4, StopsOutside DEF Onward
    <3>2. Searches(h, size, f, m)
      BY <3>1 DEF Searches
    <3> QED
      BY <2>2, <3>2
  <2>5. CASE m < KMALLOC_SIZE
    <3>1. m + 1 \in 0 .. KMALLOC_SIZE /\ ~(m + 1 <= m)
      BY <1>1, <2>3, <2>5
    <3>2. PICK g : Searches(h, size, g, m + 1)
      BY <2>2, <3>1
    <3> DEFINE f == [i \in Onward(m) |-> IF i = m THEN Turn(h, size, g, m) ELSE g[i]]
    <3>3. \A i \in Onward(m + 1) : f[i] = g[i] /\ i \in Nat /\ i # m /\ i \in Onward(m)
      BY <2>3 DEF Onward
    <3>4. f[m] = Turn(h, size, g, m) /\ m \in Onward(m)
      BY <2>3 DEF Onward
    <3>5. f = [i \in Onward(m) |-> f[i]]
      OBVIOUS
    <3> HIDE DEF f
    <3>6. ASSUME NEW i \in Onward(m)
          PROVE  i \in Nat /\ Turn(h, size, f, i) = Turn(h, size, g, i)
      <4>1. i \in Nat /\ i >= m
        BY <3>6 DEF Onward
      <4>2. CASE i + HEADER + size > KMALLOC_SIZE
        BY <4>1, <4>2 DEF Turn
      <4>3. CASE ~(i + HEADER + size > KMALLOC_SIZE)
        <5>1. IsHeader(i)
          BY <1>1, <4>1, <4>3 DEF IsHeader, HEADER
        <5>2. After(h, i) \in Onward(m + 1)
          BY <2>3, <4>1, <5>1, GoesUp DEF Onward, HEADER
        <5>3. f[i + HEADER + Size(h, i)] = g[i + HEADER + Size(h, i)]
          BY <3>3, <5>2 DEF After
        <5> QED
          BY <4>1, <5>3 DEF Turn
      <4> QED
        BY <4>2, <4>3
    <3>7. ASSUME NEW i \in Onward(m)
          PROVE  f[i] = Turn(h, size, f, i)
      <4>1. CASE i = m
        BY <3>4, <3>6, <4>1
      <4>2. CASE i # m
        <5>1. i \in Onward(m + 1)
          BY <2>3, <3>7, <4>2 DEF Onward
        <5>2. g[i] = Turn(h, size, g, i)
          BY <3>2, <5>1 DEF Searches
        <5> QED
          BY <3>3, <3>6, <5>1, <5>2
      <4> QED
        BY <4>1, <4>2
    <3>8. Searches(h, size, f, m)
      BY <3>5, <3>7 DEF Searches
    <3> QED
      BY <2>2, <3>8
  <2> QED
    BY <1>1, <2>3, <2>4, <2>5
<1>3. \E f : Searches(h, size, f, 0)
  BY <1>1, <1>2
<1>4. Onward(0) = Nat
  BY DEF Onward
<1> DEFINE F == CHOOSE f : f = [i \in Nat |-> Turn(h, size, f, i)]
<1>5. Searches(h, size, F, 0)
  BY <1>3, <1>4 DEF Searches
<1>6. find_free_block(h, size) = F[0]
  BY DEF find_free_block, Turn
<1> QED
  BY <1>5, <1>6

\* What find_free_block returns: nothing, or a block that fits and lies on the
\* chain.
LEMMA FindsFit ==
  ASSUME NEW h \in HeapType, NEW size \in Nat, NEW i, i = find_free_block(h, size)
  PROVE  i = NULL \/ (Fit(h, size, i) /\ \E P : Walk(h, P) /\ i \in P)
<1>1. KMALLOC_SIZE \in Nat
  BY HeapAssumption
<1>2. PICK f : Searches(h, size, f, 0) /\ i = f[0]
  BY SearchEnds
<1>3. \A j \in Nat : f[j] = Turn(h, size, f, j)
  BY <1>2 DEF Searches, Onward
<1> DEFINE Good(j) == \/ f[j] = NULL
                      \/ Fit(h, size, f[j]) /\ \E P : WalkFrom(h, j, P) /\ f[j] \in P
           Bad == {j \in 0 .. KMALLOC_SIZE : ~Good(j)}
<1>4. Bad = {}
  <2>1. SUFFICES ASSUME Bad # {} PROVE FALSE
    OBVIOUS
  <2>2. PICK j \in Bad : \A y \in Bad : y <= j
    BY <2>1, GreatestOf
  <2>3. j \in Nat /\ ~Good(j)
    BY <1>1, <2>2
  <2>4. CASE f[j] = j /\ Fit(h, size, j)
    <3>1. IsHeader(j)
      BY <1>1, <2>4 DEF Fit, IsHeader, HEADER
    <3>2. WalkFrom(h, j, {j})
      BY <3>1 DEF WalkFrom
    <3> QED
      BY <2>3, <2>4, <3>2
  <2>5. CASE /\ IsHeader(j) /\ ~End(h, j)
             /\ f[j] = f[After(h, j)]
             /\ After(h, j) \in Onward(j + 1)
    <3> DEFINE k == After(h, j)
    <3>1. k \in Nat /\ k > j
      BY <2>3, <2>5 DEF Onward
    <3>2. Good(k)
      <4>1. CASE k > KMALLOC_SIZE
        <5>1. f[k] = NULL
          BY <1>1, <1>3, <3>1, <4>1, StopsOutside
        <5> QED
          BY <5>1
      <4>2. CASE ~(k > KMALLOC_SIZE)
        <5>1. k \in 0 .. KMALLOC_SIZE /\ ~(k <= j)
          BY <1>1, <2>3, <3>1, <4>2
        <5> QED
          BY <2>2, <5>1
      <4> QED
        BY <4>1, <4>2
    <3>3. f[k] # NULL
      BY <2>3, <2>5
    <3>4. PICK P : WalkFrom(h, k, P) /\ f[k] \in P
      BY <3>2, <3>3
    <3>5. WalkFrom(h, j, P \union {j}) /\ f[k] \in P \union {j}
      BY <2>5, <3>4 DEF WalkFrom
    <3> QED
      BY <2>3, <2>5, <3>2, <3>3, <3>5
  <2>6. f[j] # NULL
    BY <2>3
  <2> QED
    BY <1>3, <2>3, <2>4, <2>5, <2>6, TurnsUp
<1>5. Good(0)
  BY <1>1, <1>4
<1> QED
  BY <1>2, <1>5 DEF Walk

\* The headers of a walk are in order: each lies behind the end of those below
\* it, and these are not the end of the chain.
LEMMA InOrder ==
  ASSUME NEW h \in HeapType, NEW P, Walk(h, P), NEW p \in P, NEW q \in P, p < q
  PROVE  ~End(h, p) /\ After(h, p) <= q
<1> DEFINE Fine(x, y) == ~End(h, x) /\ After(h, x) <= y
           Bad == {y \in P : \E x \in P : x < y /\ ~Fine(x, y)}
<1>1. \A x \in P : IsHeader(x) /\ x \in Nat
  BY DEF Walk, WalkFrom, IsHeader
<1>2. SUFFICES ASSUME Bad # {} PROVE FALSE
  OBVIOUS
<1>3. PICK y \in Bad : \A z \in Bad : y <= z
  <2>1. Bad \in SUBSET Nat
    BY <1>1
  <2> QED
    BY <1>2, <2>1, LeastOf
<1>4. PICK x \in P : x < y /\ ~Fine(x, y)
  BY <1>3
<1>5. y \in P /\ y \in Nat /\ x \in Nat
  BY <1>1, <1>3, <1>4
<1>6. PICK z \in P : ~End(h, z) /\ y = After(h, z)
  BY <1>4, <1>5 DEF Walk, WalkFrom
<1>7. z \in Nat /\ z < y
  BY <1>1, <1>5, <1>6, GoesUp DEF HEADER
<1>8. CASE z = x
  BY <1>4, <1>5, <1>6, <1>8
<1>9. CASE x < z
  <2>1. z \notin Bad
    BY <1>3, <1>5, <1>7
  <2>2. ~End(h, x) /\ After(h, x) <= z
    BY <1>4, <1>9, <2>1
  <2>3. After(h, x) \in Nat
    BY <1>1, <1>4, GoesUp
  <2> QED
    BY <1>4, <1>5, <1>7, <2>2, <2>3
<1>10. CASE z < x
  <2>1. x \notin Bad
    BY <1>3, <1>4, <1>5
  <2>2. After(h, z) <= x
    BY <1>4, <1>6, <1>10, <2>1
  <2> QED
    BY <1>4, <1>5, <1>6, <2>2
<1> QED
  BY <1>5, <1>7, <1>8, <1>9, <1>10

\* Two walks are one.
LEMMA WalksMeet ==
  ASSUME NEW h, NEW P, NEW Q, Walk(h, P), Walk(h, Q)
  PROVE  Walk(h, P \union Q)
  BY DEF Walk, WalkFrom

\* A walk stays one where the bytes below its last header stay.
LEMMA WalkKept ==
  ASSUME NEW h \in HeapType, NEW g \in HeapType, NEW P, Walk(h, P), NEW i \in P,
         \A o \in Offsets : o < i => g[o] = h[o]
  PROVE  /\ Walk(g, {p \in P : p <= i})
         /\ \A p \in P : p < i => SameHeader(g, h, p)
<1>1. \A x \in P : IsHeader(x) /\ x \in Nat
  BY DEF Walk, WalkFrom, IsHeader
<1>2. ASSUME NEW p \in P, p < i
      PROVE  SameHeader(g, h, p)
  <2>1. After(h, p) <= i /\ After(h, p) >= p + HEADER /\ After(h, p) \in Nat
    BY <1>1, <1>2, InOrder, GoesUp
  <2>2. p \in Nat /\ i \in Nat /\ p + 2 < i
    BY <1>1, <2>1 DEF HEADER
  <2>3. p \in Offsets /\ p + 1 \in Offsets /\ p + 2 \in Offsets
    BY <1>1, HeaderBytes
  <2>4. g[p] = h[p] /\ g[p + 1] = h[p + 1] /\ g[p + 2] = h[p + 2]
    BY <2>2, <2>3
  <2> QED
    BY <2>4, SameBytes
<1>3. ASSUME NEW p \in P, p <= i, p # 0
      PROVE  \E q \in P : q <= i /\ ~End(g, q) /\ p = After(g, q)
  <2>1. PICK q \in P : ~End(h, q) /\ p = After(h, q)
    BY <1>3 DEF Walk, WalkFrom
  <2>2. p \in Nat /\ q \in Nat /\ i \in Nat /\ q < p
    BY <1>1, <2>1, GoesUp DEF HEADER
  <2>3. q < i
    BY <1>3, <2>2
  <2>4. SameHeader(g, h, q)
    BY <1>2, <2>3
  <2> QED
    BY <2>1, <2>2, <2>3, <2>4 DEF SameHeader, End, After
<1>4. Walk(g, {p \in P : p <= i})
  BY <1>1, <1>3 DEF Walk, WalkFrom
<1> QED
  BY <1>2, <1>4

\* A walk stays one where none of its headers is changed but for a mark.
LEMMA WalkMarked ==
  ASSUME NEW h, NEW g, NEW P, Walk(h, P),
         \A p \in P : Size(g, p) = Size(h, p) /\ (End(g, p) => End(h, p))
  PROVE  Walk(g, P)
  BY DEF Walk, WalkFrom, After

-----------------------------------------------------------------------------
(* What alloc_block does to the heap *)

\* Take writes nothing below the header it takes, and leaves there a block that
\* is used and has room for size bytes.
LEMMA Taken ==
  ASSUME NEW h \in HeapType, NEW size \in Nat \ {0}, NEW i, Fit(h, size, i)
  PROVE  /\ Take(h, i, size) \in HeapType
         /\ \A o \in Offsets : o < i => Take(h, i, size)[o] = h[o]
         /\ Used(Take(h, i, size), i)
         /\ Room(size) < Radix * Radix =>
              Size(Take(h, i, size), i) =
                IF Size(h, i) = 0 \/ Size(h, i) >= Room(size) THEN size ELSE Room(size)
<1>1. IsHeader(i) /\ i \in Nat /\ i + HEADER + size <= KMALLOC_SIZE
  BY HeapAssumption DEF Fit, IsHeader, HEADER
<1>2. i \in Offsets /\ i + 1 \in Offsets /\ i + 2 \in Offsets
  BY <1>1, HeaderBytes
<1>3. Size(h, i) \in Nat /\ Room(size) \in Nat /\ Room(size) > size /\ size > 0
  BY <1>1, SizeIsNat DEF Room, HEADER, KMALLOC_MIN_BLOCK_SIZE
<1>4. Radix * Radix \in Nat
  BY HeapAssumption
<1> DEFINE u == SetUsed(h, i)
<1>5. u \in HeapType /\ Used(u, i) /\ \A o \in Offsets \ {i + 2} : u[o] = h[o]
  BY <1>1, UsedWritten
<1> HIDE DEF u
<1>6. Size(u, i) = Size(h, i)
  <2>1. i # i + 2 /\ i + 1 # i + 2
    BY <1>1
  <2>2. u[i] = h[i] /\ u[i + 1] = h[i + 1]
    BY <1>2, <1>5, <2>1
  <2> QED
    BY <2>2 DEF Size
\* What is written to the header at i in the three cases.
<1>7. ASSUME NEW v \in HeapType, NEW n \in Nat,
             Used(v, i), \A o \in Offsets : o < i => v[o] = h[o]
      PROVE  /\ SetSize(v, i, n) \in HeapType
             /\ \A o \in Offsets : o < i => SetSize(v, i, n)[o] = h[o]
             /\ Used(SetSize(v, i, n), i)
             /\ n < Radix * Radix => Size(SetSize(v, i, n), i) = n
  <2> DEFINE w == SetSize(v, i, n)
  <2>1. /\ w \in HeapType
        /\ \A o \in Offsets \ {i, i + 1} : w[o] = v[o]
        /\ n < Radix * Radix => Size(w, i) = n
    BY <1>1, <1>2, <1>7, SizeWritten
  <2> HIDE DEF w
  <2>2. \A o \in Offsets : o < i => w[o] = h[o]
    <3>1. \A o \in Offsets : o < i => o \notin {i, i + 1}
      BY <1>1, HeapAssumption DEF Offsets
    <3> QED
      BY <1>7, <2>1, <3>1
  <2>3. Used(w, i)
    <3>1. i + 2 \in Offsets \ {i, i + 1}
      BY <1>1, <1>2
    <3> QED
      BY <1>7, <2>1, <3>1 DEF Used
  <2> QED
    BY <2>1, <2>2, <2>3 DEF w
<1>8. \A o \in Offsets : o < i => u[o] = h[o]
  <2>1. \A o \in Offsets : o < i => o # i + 2
    BY <1>1, HeapAssumption DEF Offsets
  <2> QED
    BY <1>5, <2>1
<1>9. CASE Size(h, i) = 0
  <2>1. Take(h, i, size) = SetSize(u, i, size)
    BY <1>9 DEF Take, u
  <2> QED
    BY <1>3, <1>4, <1>5, <1>7, <1>8, <1>9, <2>1
<1>10. CASE Size(h, i) # 0 /\ Size(h, i) < Room(size)
  <2>1. Take(h, i, size) = SetSize(u, i, Room(size))
    BY <1>10 DEF Take, u
  <2>2. ~(Size(h, i) = 0 \/ Size(h, i) >= Room(size))
    BY <1>3, <1>10
  <2> QED
    BY <1>3, <1>5, <1>7, <1>8, <2>1, <2>2
<1>11. CASE Size(h, i) # 0 /\ ~(Size(h, i) < Room(size))
  <2> DEFINE v == PutRest(u, i, size)
             r == RestAt(u, i)
             n == Size(u, i) - size - HEADER
  <2>1. Take(h, i, size) = SetSize(v, i, size)
    BY <1>11 DEF Take, u
  <2>2. r \in Nat /\ r > i + 2 /\ n \in Nat
    BY <1>1, <1>3, <1>6, <1>11 DEF RestAt, Room, HEADER, KMALLOC_MIN_BLOCK_SIZE
  <2>3. v = IF SplitsOutside(u, i, size) THEN u ELSE SetSize(u, r, n)
    BY DEF PutRest
  <2>4. ~SplitsOutside(u, i, size) => r + 1 \in Offsets
    BY <1>3, <1>6, <1>11 DEF SplitsOutside
  <2> HIDE DEF v, r, n
  <2>5. v \in HeapType /\ \A o \in Offsets : o < r => v[o] = u[o]
    <3>1. CASE SplitsOutside(u, i, size)
      BY <1>5, <2>3, <3>1
    <3>2. CASE ~SplitsOutside(u, i, size)
      <4>1. v = SetSize(u, r, n)
        BY <2>3, <3>2
      <4>2. v \in HeapType /\ \A o \in Offsets \ {r, r + 1} : v[o] = u[o]
        BY <1>5, <2>2, <2>4, <3>2, <4>1, SizeWritten
      <4>3. \A o \in Offsets : o < r => o \notin {r, r + 1}
        BY <2>2, HeapAssumption DEF Offsets
      <4> QED
        BY <4>2, <4>3
    <3> QED
      BY <3>1, <3>2
  <2>6. Used(v, i)
    BY <1>1, <1>2, <1>5, <2>2, <2>5 DEF Used
  <2>7. \A o \in Offsets : o < i => v[o] = h[o]
    <3>1. \A o \in Offsets : o < i => o < r
      BY <1>1, <2>2, HeapAssumption DEF Offsets
    <3> QED
      BY <1>8, <2>5, <3>1
  <2>8. Size(h, i) >= Room(size)
    BY <1>3, <1>11
  <2> QED
    BY <1>3, <1>4, <1>7, <2>1, <2>5, <2>6, <2>7, <2>8
<1> QED
  BY <1>3, <1>9, <1>10, <1>11

-----------------------------------------------------------------------------
(* The inductive invariant *)

\* The blocks of the callers lie on one chain, each behind a header of its own
\* that is marked and says at least its size.
Holds(h, P, b) ==
  /\ b.at - HEADER \in P
  /\ Used(h, b.at - HEADER)
  /\ Size(h, b.at - HEADER) >= b.size

OnChain(h, blocks) ==
  /\ \E P : Walk(h, P) /\ \A b \in blocks : Holds(h, P, b)
  /\ \A b, c \in blocks : b.at = c.at => b = c

\* The callers took one block at a time, all of this size, from a clear heap.
OnlyOne(size) ==
  /\ use.cleared /\ use.alone /\ use.sizes \subseteq {size}
  /\ Room(size) < Radix * Radix
  /\ HEADER * Room(size) + 1 < KMALLOC_SIZE

\* Then the block is the first of the heap, and its header has one of the three
\* sizes that a call leaves there: the rest of a split lies behind the block.
FirstBlock(size) ==
  /\ ~panic /\ ~outside
  /\ live \subseteq {Block(HEADER, size)}
  /\ live = {} => ~Used(heap, 0)
  /\ Size(heap, 0) \in {0, size, Room(size)}

IInv ==
  /\ TypeOK
  /\ ~use.careless => OnChain(heap, live)
  /\ \A size \in Sizes : OnlyOne(size) => FirstBlock(size)

\* A size is a positive number, and a byte of kcalloc a byte.
LEMMA SizesAreNat ==
  ASSUME NEW size \in Sizes
  PROVE  /\ size \in Nat \ {0} /\ Room(size) \in Nat /\ Room(size) > size
         /\ 0 \in 0 .. Radix - 1
  BY HeapAssumption DEF Room, HEADER, KMALLOC_MIN_BLOCK_SIZE

\* A block of a caller lies in the heap, behind a header that does.
LEMMA BlockInHeap ==
  ASSUME TypeOK, NEW b \in live
  PROVE  /\ b \in [at : Offsets, size : Sizes]
         /\ b.at \in Nat /\ b.size \in Nat /\ b.size > 0
         /\ IsHeader(b.at - HEADER) /\ b.at + b.size <= KMALLOC_SIZE
<1>1. b \in [at : Offsets, size : Sizes] /\ Extent(b) \subseteq Offsets
  BY DEF TypeOK
<1>2. b.at \in Nat /\ b.size \in Nat /\ b.size > 0
  <2>1. b.at \in Offsets /\ b.size \in Sizes
    BY <1>1
  <2>2. b.at \in Nat
    BY <2>1, HeapAssumption DEF Offsets
  <2> QED
    BY <2>1, <2>2, SizesAreNat
<1>3. b.at - HEADER \in Extent(b) /\ b.at + b.size - 1 \in Extent(b)
  BY <1>2 DEF Extent, HEADER
<1>4. b.at - HEADER \in Offsets /\ b.at + b.size - 1 \in Offsets
  BY <1>1, <1>3
<1> QED
  BY <1>1, <1>2, <1>4, HeapAssumption DEF IsHeader, Offsets, HEADER

\* The first state.
LEMMA InitHolds ==
  ASSUME Init
  PROVE  IInv
<1>1. PICK byte \in Leftovers :
        /\ heap = [o \in Offsets |-> byte]
        /\ use = [cleared |-> byte = 0, calls |-> 0, sizes |-> {},
                  alone |-> TRUE, careless |-> FALSE]
  BY DEF Init
<1>2. live = {} /\ panic = FALSE /\ outside = FALSE
  BY DEF Init
<1>3. byte \in 0 .. Radix - 1 /\ 0 \in 0 .. MaxCalls
  BY <1>1, HeapAssumption
<1>4. TypeOK
  <2>1. heap \in [Offsets -> 0 .. Radix - 1]
    BY <1>1, <1>3
  <2>2. use \in [cleared : BOOLEAN, calls : 0 .. MaxCalls, sizes : SUBSET Sizes,
                 alone : BOOLEAN, careless : BOOLEAN]
    <3>1. (byte = 0) \in BOOLEAN
      OBVIOUS
    <3> QED
      BY <1>1, <1>3, <3>1
  <2> QED
    BY <1>2, <2>1, <2>2 DEF TypeOK
<1>5. OnChain(heap, live)
  <2>1. Walk(heap, {})
    BY DEF Walk, WalkFrom
  <2> QED
    BY <1>2, <2>1 DEF OnChain
<1>6. ASSUME NEW size \in Sizes, OnlyOne(size)
      PROVE  FirstBlock(size)
  <2>1. byte = 0
    BY <1>1, <1>6 DEF OnlyOne
  <2>2. IsHeader(0)
    BY HeapAssumption DEF IsHeader, HEADER
  <2>3. heap[0] = 0 /\ heap[0 + 1] = 0 /\ heap[0 + 2] = 0
    BY <1>1, <2>1, <2>2, HeaderBytes
  <2>4. Size(heap, 0) = 0
    BY <2>3, HeapAssumption DEF Size
  <2>5. ~Used(heap, 0)
    BY <2>3 DEF Used
  <2> QED
    BY <1>2, <2>4, <2>5 DEF FirstBlock
<1> QED
  BY <1>4, <1>5, <1>6 DEF IInv

-----------------------------------------------------------------------------
(* kmalloc and kcalloc *)

\* The heap after alloc_block, and after the memset of kcalloc.
Allocated(h, i, size, zeroed) ==
  IF zeroed THEN Fill(Take(h, i, size), Block(i + HEADER, size), 0) ELSE Take(h, i, size)

\* Neither changes a byte below the header, and both leave the header the same.
LEMMA AllocatedHeap ==
  ASSUME NEW h \in HeapType, NEW size \in Sizes, NEW i, Fit(h, size, i),
         NEW zeroed \in BOOLEAN
  PROVE  /\ Allocated(h, i, size, zeroed) \in HeapType
         /\ \A o \in Offsets : o < i => Allocated(h, i, size, zeroed)[o] = h[o]
         /\ Used(Allocated(h, i, size, zeroed), i)
         /\ Room(size) < Radix * Radix =>
              Size(Allocated(h, i, size, zeroed), i) =
                IF Size(h, i) = 0 \/ Size(h, i) >= Room(size) THEN size ELSE Room(size)
<1> DEFINE t == Take(h, i, size)
           b == Block(i + HEADER, size)
<1>1. size \in Nat \ {0} /\ 0 \in 0 .. Radix - 1
  BY SizesAreNat
<1>2. /\ t \in HeapType
      /\ \A o \in Offsets : o < i => t[o] = h[o]
      /\ Used(t, i)
      /\ Room(size) < Radix * Radix =>
           Size(t, i) = IF Size(h, i) = 0 \/ Size(h, i) >= Room(size) THEN size ELSE Room(size)
  BY <1>1, Taken
<1>3. CASE ~zeroed
  BY <1>2, <1>3 DEF Allocated
<1>4. CASE zeroed
  <2> DEFINE g == Fill(t, b, 0)
  <2>1. Allocated(h, i, size, zeroed) = g
    BY <1>4 DEF Allocated
  <2>2. IsHeader(i) /\ i \in Nat
    BY <1>1, HeapAssumption DEF Fit, IsHeader, HEADER
  <2> HIDE DEF t
  <2>3. g \in HeapType /\ \A o \in Offsets \ Bytes(b) : g[o] = t[o]
    BY <1>1, <1>2, Filled
  <2>4. Bytes(b) = i + HEADER .. i + HEADER + size - 1
    BY DEF Bytes, Block
  <2> HIDE DEF g, b
  <2>5. \A o \in Offsets : o < i + HEADER => g[o] = t[o]
    <3>1. \A o \in Offsets : o < i + HEADER => o \notin Bytes(b)
      BY <1>1, <2>2, <2>4, HeapAssumption DEF Offsets, HEADER
    <3> QED
      BY <2>3, <3>1
  <2>6. \A o \in Offsets : o < i => g[o] = h[o]
    <3>1. \A o \in Offsets : o < i => o < i + HEADER
      BY <2>2, HeapAssumption DEF Offsets, HEADER
    <3> QED
      BY <1>2, <2>5, <3>1
  <2>7. g[i] = t[i] /\ g[i + 1] = t[i + 1] /\ g[i + 2] = t[i + 2]
    <3>1. i \in Offsets /\ i + 1 \in Offsets /\ i + 2 \in Offsets
      BY <2>2, HeaderBytes
    <3>2. i < i + HEADER /\ i + 1 < i + HEADER /\ i + 2 < i + HEADER
      BY <2>2 DEF HEADER
    <3> QED
      BY <2>5, <3>1, <3>2
  <2>8. Size(g, i) = Size(t, i) /\ (Used(g, i) <=> Used(t, i))
    BY <2>7, SameBytes DEF SameHeader
  <2> QED
    BY <1>2, <2>1, <2>3, <2>6, <2>8
<1> QED
  BY <1>3, <1>4

\* What a call that finds a block does.
LEMMA AllocFinds ==
  ASSUME TypeOK, NEW size \in Sizes, NEW zeroed \in BOOLEAN,
         NEW i, i = find_free_block(heap, size), i # NULL, Alloc(i, size, zeroed)
  PROVE  /\ Fit(heap, size, i) /\ IsHeader(i) /\ i \in Nat
         /\ \E P : Walk(heap, P) /\ i \in P
         /\ heap' = Allocated(heap, i, size, zeroed)
         /\ live' = live \union {Block(i + HEADER, size)}
<1>1. heap \in HeapType /\ size \in Nat
  BY SizesAreNat DEF TypeOK, HeapType
<1>2. Fit(heap, size, i) /\ \E P : Walk(heap, P) /\ i \in P
  BY <1>1, FindsFit
<1>3. IsHeader(i) /\ i \in Nat
  BY <1>1, <1>2, HeapAssumption DEF Fit, IsHeader, HEADER
<1> QED
  BY <1>2, <1>3 DEF Alloc, Allocated

\* How a call is recorded.
LEMMA AllocRecorded ==
  ASSUME TypeOK, NEW i, NEW size \in Sizes, NEW zeroed, Alloc(i, size, zeroed)
  PROVE  /\ use' \in [cleared : BOOLEAN, calls : 0 .. MaxCalls, sizes : SUBSET Sizes,
                      alone : BOOLEAN, careless : BOOLEAN]
         /\ use'.cleared = use.cleared
         /\ use'.sizes = use.sizes \union {size}
         /\ use'.alone => use.alone /\ live = {}
         /\ ~use'.careless => ~use.careless /\ ~Careless(i, size)
<1>1. use \in [cleared : BOOLEAN, calls : 0 .. MaxCalls, sizes : SUBSET Sizes,
               alone : BOOLEAN, careless : BOOLEAN]
  BY DEF TypeOK
<1> DEFINE calls == use.calls + 1
           sizes == use.sizes \union {size}
           alone == use.alone /\ live = {}
           careless == use.careless \/ Careless(i, size)
<1>2. use' = [use EXCEPT !.calls = calls, !.sizes = sizes, !.alone = alone,
                         !.careless = careless]
  BY DEF Alloc
<1>3. calls \in 0 .. MaxCalls
  <2>1. use.calls \in 0 .. MaxCalls /\ use.calls < MaxCalls /\ MaxCalls \in Nat
    BY <1>1, HeapAssumption DEF Alloc
  <2> QED
    BY <2>1
<1>4. sizes \in SUBSET Sizes
  BY <1>1
<1>5. alone \in BOOLEAN /\ careless \in BOOLEAN
  BY <1>1 DEF Careless
<1>6. alone => use.alone /\ live = {}
  OBVIOUS
<1>7. ~careless => ~use.careless /\ ~Careless(i, size)
  OBVIOUS
<1>8. sizes = use.sizes \union {size}
  OBVIOUS
<1> HIDE DEF calls, sizes, alone, careless
<1>9. use' \in [cleared : BOOLEAN, calls : 0 .. MaxCalls, sizes : SUBSET Sizes,
                alone : BOOLEAN, careless : BOOLEAN]
  BY <1>1, <1>2, <1>3, <1>4, <1>5
<1>10. /\ use'.cleared = use.cleared /\ use'.sizes = sizes
       /\ use'.alone = alone /\ use'.careless = careless
  BY <1>1, <1>2
<1> QED
  BY <1>6, <1>7, <1>8, <1>9, <1>10

\* kmalloc and kcalloc keep the types: a block that is found ends in the heap.
LEMMA AllocTyped ==
  ASSUME TypeOK, NEW size \in Sizes, NEW zeroed \in BOOLEAN,
         Alloc(find_free_block(heap, size), size, zeroed)
  PROVE  TypeOK'
<1> DEFINE i == find_free_block(heap, size)
<1>1. Alloc(i, size, zeroed)
  OBVIOUS
<1> HIDE DEF i
<1>2. use' \in [cleared : BOOLEAN, calls : 0 .. MaxCalls, sizes : SUBSET Sizes,
                alone : BOOLEAN, careless : BOOLEAN]
  BY <1>1, AllocRecorded
<1>3. panic' \in BOOLEAN
  BY <1>1 DEF Alloc
<1>4. CASE i = NULL
  <2>1. UNCHANGED <<heap, live, outside>>
    BY <1>1, <1>4 DEF Alloc
  <2> QED
    BY <1>2, <1>3, <2>1 DEF TypeOK, Offsets, Extent
<1>5. CASE i # NULL
  <2> DEFINE b == Block(i + HEADER, size)
  <2>1. /\ Fit(heap, size, i) /\ IsHeader(i) /\ i \in Nat
        /\ heap' = Allocated(heap, i, size, zeroed)
        /\ live' = live \union {b}
    BY <1>1, <1>5, AllocFinds DEF i
  <2>2. heap \in HeapType
    BY DEF TypeOK, HeapType
  <2>3. heap' \in [Offsets -> 0 .. Radix - 1]
    BY <2>1, <2>2, AllocatedHeap DEF HeapType
  <2>4. size \in Nat /\ size > 0 /\ i + HEADER + size <= KMALLOC_SIZE
    BY <2>1, SizesAreNat DEF Fit
  <2>5. b \in [at : Offsets, size : Sizes]
    BY <2>1, <2>4, HeapAssumption DEF Block, Offsets, HEADER
  <2>6. Extent(b) \subseteq Offsets
    <3>1. b.at = i + HEADER /\ b.size = size
      BY DEF Block
    <3> HIDE DEF b
    <3> QED
      BY <2>1, <2>4, <3>1, HeapAssumption DEF Extent, Offsets, HEADER
  <2> HIDE DEF b
  <2>7. outside' \in BOOLEAN
    <3>1. outside' = (outside \/ SplitsOutside(heap, i, size))
      BY <1>1, <1>5 DEF Alloc
    <3> QED
      BY <3>1, Zenon DEF TypeOK
  <2>8. live' \subseteq [at : Offsets, size : Sizes] /\ \A c \in live' : Extent(c) \subseteq Offsets
    BY <2>1, <2>5, <2>6 DEF TypeOK
  <2> QED
    BY <1>2, <1>3, <2>3, <2>7, <2>8 DEF TypeOK, Offsets, Extent
<1> QED
  BY <1>4, <1>5

\* No byte of a live block lies behind the header that a call finds, unless the
\* block is used again beside another one.
LEMMA BlocksBelow ==
  ASSUME TypeOK, NEW i, NEW P, NEW Q, Walk(heap, P), \A b \in live : Holds(heap, P, b),
         Walk(heap, Q), i \in Q, ~Used(heap, i), Size(heap, i) = 0,
         NEW b \in live
  PROVE  b.at - HEADER < i /\ b.at + b.size <= i
<1> DEFINE p == b.at - HEADER
           R == P \union Q
<1>1. heap \in HeapType
  BY DEF TypeOK, HeapType
<1>2. Walk(heap, R) /\ p \in R /\ i \in R
  BY WalksMeet DEF Holds
<1>3. IsHeader(p) /\ p \in Nat /\ i \in Nat /\ b.at \in Nat /\ b.size \in Nat
  BY <1>2, BlockInHeap DEF Walk, WalkFrom, IsHeader
<1>4. Used(heap, p) /\ Size(heap, p) >= b.size
  BY DEF Holds
<1>5. End(heap, i)
  BY DEF End
<1>6. p # i
  BY <1>4
<1>7. ~(i < p)
  BY <1>1, <1>2, <1>5, InOrder
<1>8. p < i
  BY <1>3, <1>6, <1>7
<1>9. After(heap, p) <= i
  BY <1>1, <1>2, <1>8, InOrder
<1>10. Size(heap, p) \in Nat
  BY <1>1, <1>3, SizeIsNat
<1> QED
  BY <1>3, <1>4, <1>8, <1>9, <1>10 DEF After, HEADER

\* A call that is not careless puts its block behind all that are live, on the
\* same chain.
LEMMA AllocOnChain ==
  ASSUME TypeOK, OnChain(heap, live), NEW size \in Sizes, NEW zeroed \in BOOLEAN,
         NEW i, i = find_free_block(heap, size), Alloc(i, size, zeroed),
         ~Careless(i, size)
  PROVE  OnChain(heap, live)'
<1>1. heap \in HeapType
  BY DEF TypeOK, HeapType
<1>2. CASE i = NULL
  <2>1. heap' = heap /\ live' = live
    BY <1>2 DEF Alloc
  <2> QED
    BY <2>1
<1>3. CASE i # NULL
  <2> DEFINE new == Block(i + HEADER, size)
             g == Allocated(heap, i, size, zeroed)
  <2>1. Fit(heap, size, i) /\ IsHeader(i) /\ i \in Nat /\ heap' = g /\ live' = live \union {new}
    BY <1>3, AllocFinds
  <2>2. PICK Q : Walk(heap, Q) /\ i \in Q
    BY <1>3, AllocFinds
  <2>3. PICK P : Walk(heap, P) /\ \A b \in live : Holds(heap, P, b)
    BY DEF OnChain
  <2>4. size \in Nat \ {0} /\ Room(size) \in Nat /\ Room(size) > size /\ Room(size) < Radix * Radix
    BY SizesAreNat, HeapAssumption DEF Careless
  <2>5. /\ g \in HeapType /\ \A o \in Offsets : o < i => g[o] = heap[o]
        /\ Used(g, i) /\ Size(g, i) >= size
    <3>1. /\ g \in HeapType /\ \A o \in Offsets : o < i => g[o] = heap[o]
          /\ Used(g, i)
          /\ Size(g, i) = IF Size(heap, i) = 0 \/ Size(heap, i) >= Room(size) THEN size
                          ELSE Room(size)
      BY <1>1, <2>1, <2>4, AllocatedHeap
    <3>2. Size(g, i) >= size
      BY <2>4, <3>1
    <3> QED
      BY <3>1, <3>2
  <2>6. new.at = i + HEADER /\ new.size = size
    BY DEF Block
  <2> HIDE DEF new, g
  <2>7. \A b \in live : b.at - HEADER < i /\ b.at # new.at
    <3>1. CASE live = {}
      BY <3>1
    <3>2. CASE live # {}
      <4>1. Size(heap, i) = 0 /\ ~Used(heap, i)
        BY <1>3, <2>1, <3>2 DEF Careless, Fit
      <4>2. \A b \in live : b.at - HEADER < i
        BY <2>2, <2>3, <4>1, BlocksBelow
      <4> QED
        BY <2>1, <2>6, <4>2, BlockInHeap DEF HEADER
    <3> QED
      BY <3>1, <3>2
  <2> DEFINE R == P \union Q
             W == {p \in R : p <= i}
  <2>8. Walk(heap, R) /\ i \in R
    BY <2>2, <2>3, WalksMeet
  <2>9. Walk(g, W) /\ \A p \in R : p < i => SameHeader(g, heap, p)
    BY <1>1, <2>5, <2>8, WalkKept
  <2>10. Holds(g, W, new)
    BY <2>1, <2>5, <2>6, <2>8 DEF Holds, HEADER
  <2>11. ASSUME NEW b \in live
         PROVE  Holds(g, W, b)
    <3>1. Holds(heap, P, b) /\ b.at - HEADER < i
      BY <2>3, <2>7, <2>11
    <3>2. b.at - HEADER \in W
      BY <2>1, <3>1, BlockInHeap DEF Holds, HEADER
    <3>3. SameHeader(g, heap, b.at - HEADER)
      BY <2>9, <3>1, <3>2
    <3> QED
      BY <3>1, <3>2, <3>3 DEF Holds, SameHeader
  <2>12. \A b \in live' : Holds(g, W, b)
    BY <2>1, <2>10, <2>11
  <2>13. \A b, c \in live' : b.at = c.at => b = c
    BY <2>1, <2>7 DEF OnChain
  <2> QED
    BY <2>1, <2>9, <2>12, <2>13 DEF OnChain
<1> QED
  BY <1>2, <1>3

\* With one block at a time a call takes the first block of the heap, and the
\* rest of a split, four times as far behind as it should be, is in the heap.
LEMMA AllocFirst ==
  ASSUME IInv, NEW size \in Sizes, NEW zeroed \in BOOLEAN,
         NEW i, i = find_free_block(heap, size), Alloc(i, size, zeroed),
         NEW s \in Sizes, OnlyOne(s)'
  PROVE  FirstBlock(s)'
<1>1. TypeOK /\ heap \in HeapType /\ KMALLOC_SIZE \in Nat
  BY HeapAssumption DEF IInv, TypeOK, HeapType
<1>2. /\ use'.cleared = use.cleared
      /\ use'.sizes = use.sizes \union {size}
      /\ use'.alone => use.alone /\ live = {}
  BY <1>1, AllocRecorded
<1>3. OnlyOne(s) /\ size = s /\ live = {}
  <2>1. /\ use'.cleared /\ use'.alone /\ use'.sizes \subseteq {s}
        /\ Room(s) < Radix * Radix /\ HEADER * Room(s) + 1 < KMALLOC_SIZE
    BY DEF OnlyOne, Room, HEADER, KMALLOC_MIN_BLOCK_SIZE
  <2> QED
    BY <1>2, <2>1 DEF OnlyOne
<1>4. /\ ~panic /\ ~outside /\ ~Used(heap, 0)
      /\ Size(heap, 0) \in {0, s, Room(s)}
  BY <1>3 DEF IInv, FirstBlock
<1>5. /\ s \in Nat /\ s > 0 /\ Room(s) = s + 6
      /\ Room(s) < Radix * Radix /\ 4 * Room(s) + 1 < KMALLOC_SIZE
  BY <1>3, SizesAreNat DEF OnlyOne, Room, HEADER, KMALLOC_MIN_BLOCK_SIZE
<1>6. i = 0
  <2>1. PICK f : Searches(heap, s, f, 0) /\ i = f[0]
    BY <1>1, <1>3, <1>5, SearchEnds
  <2>2. f[0] = Turn(heap, s, f, 0)
    BY <2>1 DEF Searches, Onward
  <2>3. ~(0 + HEADER + s > KMALLOC_SIZE)
    BY <1>1, <1>5 DEF HEADER
  <2>4. Size(heap, 0) >= s \/ Size(heap, 0) = 0
    BY <1>4, <1>5
  <2> QED
    BY <1>4, <2>1, <2>2, <2>3, <2>4 DEF Turn
<1>7. i # NULL
  BY <1>6 DEF NULL
<1>8. /\ Fit(heap, s, 0)
      /\ heap' = Allocated(heap, 0, s, zeroed)
      /\ live' = {Block(HEADER, s)}
  <2>1. /\ Fit(heap, size, i)
        /\ heap' = Allocated(heap, i, size, zeroed)
        /\ live' = live \union {Block(i + HEADER, size)}
    BY <1>1, <1>7, AllocFinds
  <2>2. 0 + HEADER = HEADER
    BY DEF HEADER
  <2> QED
    BY <1>3, <1>6, <2>1, <2>2
<1>9. Size(heap', 0) = IF Size(heap, 0) = 0 \/ Size(heap, 0) >= Room(s) THEN s ELSE Room(s)
  BY <1>1, <1>5, <1>8, AllocatedHeap
<1>10. ~SplitsOutside(heap, 0, s)
  <2>1. SUFFICES ASSUME Size(heap, 0) >= Room(s)
                 PROVE  RestAt(heap, 0) + 1 \in Offsets
    BY DEF SplitsOutside
  <2>2. Size(heap, 0) = Room(s)
    BY <1>4, <1>5, <2>1
  <2> QED
    BY <1>1, <1>5, <2>2 DEF RestAt, Offsets, HEADER
<1>11. ~panic' /\ ~outside'
  <2>1. panic' = (i = NULL) /\ outside' = (outside \/ SplitsOutside(heap, i, size))
    BY <1>7 DEF Alloc
  <2> QED
    BY <1>3, <1>4, <1>6, <1>7, <1>10, <2>1
<1>12. Size(heap', 0) \in {0, s, Room(s)}
  BY <1>9
<1>13. Room(s)' = Room(s) /\ HEADER' = HEADER
  BY DEF Room, HEADER, KMALLOC_MIN_BLOCK_SIZE
<1> QED
  BY <1>8, <1>11, <1>12, <1>13 DEF FirstBlock, Size, Used, Block

\* kmalloc and kcalloc.
LEMMA AllocKeepsIInv ==
  ASSUME IInv, NEW size \in Sizes, NEW zeroed \in BOOLEAN,
         Alloc(find_free_block(heap, size), size, zeroed)
  PROVE  IInv'
<1>1. TypeOK
  BY DEF IInv
<1>2. TypeOK'
  BY <1>1, AllocTyped
<1>3. ~use'.careless => OnChain(heap, live)'
  <2>1. SUFFICES ASSUME ~use'.careless PROVE OnChain(heap, live)'
    OBVIOUS
  <2>2. ~use.careless /\ ~Careless(find_free_block(heap, size), size)
    BY <1>1, <2>1, AllocRecorded
  <2> QED
    BY <1>1, <2>2, AllocOnChain DEF IInv
<1>4. \A s \in Sizes : OnlyOne(s)' => FirstBlock(s)'
  BY AllocFirst
<1> QED
  BY <1>2, <1>3, <1>4 DEF IInv

-----------------------------------------------------------------------------
(* kfree, and what a caller writes *)

\* kfree keeps the types and the chain: the header it clears keeps its size.
LEMMA FreeKeepsIInv ==
  ASSUME IInv, NEW b \in live, kfree(b)
  PROVE  IInv'
<1> DEFINE p == b.at - HEADER
           g == ClearUsed(heap, p)
<1>1. TypeOK /\ heap \in HeapType
  BY DEF IInv, TypeOK, HeapType
<1>2. /\ IsHeader(p) /\ p \in Nat /\ b.at \in Nat /\ b.at = p + HEADER
      /\ b.size \in Nat /\ b.size > 0
  BY <1>1, BlockInHeap DEF IsHeader, HEADER
<1>3. heap' = g /\ live' = live \ {b} /\ UNCHANGED <<panic, outside, use>>
  BY DEF kfree
<1>4. g \in HeapType /\ ~Used(g, p) /\ \A o \in Offsets \ {p + 2} : g[o] = heap[o]
  BY <1>1, <1>2, UsedWritten
<1>5. Size(g, p) = Size(heap, p)
  <2>1. p \in Offsets \ {p + 2} /\ p + 1 \in Offsets \ {p + 2}
    BY <1>2, HeaderBytes
  <2> QED
    BY <1>4, <2>1 DEF Size
<1> HIDE DEF p, g
<1>6. TypeOK'
  BY <1>1, <1>3, <1>4 DEF TypeOK, HeapType, Offsets, Extent
<1>7. ASSUME ~use'.careless
      PROVE  OnChain(heap, live)'
  <2>1. OnChain(heap, live)
    BY <1>3, <1>7 DEF IInv
  <2>2. PICK P : Walk(heap, P) /\ \A c \in live : Holds(heap, P, c)
    BY <2>1 DEF OnChain
  <2>3. p \in P /\ Used(heap, p) /\ Size(heap, p) >= b.size
    BY <2>2 DEF Holds, p
  <2>4. ASSUME NEW q \in P, q # p
        PROVE  SameHeader(g, heap, q)
    <3>1. IsHeader(q) /\ q \in Nat
      BY <2>2 DEF Walk, WalkFrom, IsHeader
    <3>2. q < p => q + HEADER <= p
      <4>1. q < p => After(heap, q) <= p
        BY <1>1, <2>2, <2>3, InOrder
      <4>2. After(heap, q) >= q + HEADER /\ After(heap, q) \in Nat
        BY <1>1, <3>1, GoesUp
      <4> QED
        BY <1>2, <3>1, <4>1, <4>2 DEF HEADER
    <3>3. p < q => p + HEADER <= q
      <4>1. p < q => After(heap, p) <= q
        BY <1>1, <2>2, <2>3, InOrder
      <4>2. After(heap, p) >= p + HEADER /\ After(heap, p) \in Nat
        BY <1>1, <1>2, GoesUp
      <4> QED
        BY <1>2, <3>1, <4>1, <4>2 DEF HEADER
    <3>4. q # p + 2 /\ q + 1 # p + 2 /\ q + 2 # p + 2
      BY <1>2, <2>4, <3>1, <3>2, <3>3 DEF HEADER
    <3>5. q \in Offsets /\ q + 1 \in Offsets /\ q + 2 \in Offsets
      BY <3>1, HeaderBytes
    <3>6. g[q] = heap[q] /\ g[q + 1] = heap[q + 1] /\ g[q + 2] = heap[q + 2]
      BY <1>4, <3>4, <3>5
    <3> QED
      BY <3>6, SameBytes
  <2>5. Walk(g, P)
    <3>1. Size(g, p) # 0
      BY <1>1, <1>2, <1>5, <2>3, SizeIsNat
    <3>2. \A q \in P : Size(g, q) = Size(heap, q) /\ (End(g, q) => End(heap, q))
      BY <1>5, <2>4, <3>1 DEF SameHeader, End
    <3> QED
      BY <2>2, <3>2, WalkMarked
  <2>6. \A c \in live \ {b} : c.at # b.at
    BY <2>1 DEF OnChain
  <2>7. ASSUME NEW c \in live \ {b}
        PROVE  Holds(g, P, c)
    <3>1. Holds(heap, P, c)
      BY <2>2
    <3>2. c.at - HEADER # p
      BY <1>1, <1>2, <2>6, BlockInHeap DEF HEADER
    <3> QED
      BY <2>4, <3>1, <3>2 DEF Holds, SameHeader
  <2> QED
    BY <1>3, <2>1, <2>5, <2>7 DEF OnChain
<1>8. ASSUME NEW s \in Sizes, OnlyOne(s)'
      PROVE  FirstBlock(s)'
  <2>1. OnlyOne(s)
    BY <1>3, <1>8 DEF OnlyOne, Room, HEADER, KMALLOC_MIN_BLOCK_SIZE
  <2>2. /\ ~panic /\ ~outside /\ live \subseteq {Block(HEADER, s)}
        /\ Size(heap, 0) \in {0, s, Room(s)}
    BY <2>1 DEF IInv, FirstBlock
  <2>3. b = Block(HEADER, s)
    BY <2>2
  <2>4. p = 0
    BY <1>2, <2>3 DEF Block, HEADER
  <2>5. ~panic' /\ ~outside' /\ live' = {}
    BY <1>3, <2>2, <2>3
  <2>6. ~Used(heap', 0) /\ Size(heap', 0) \in {0, s, Room(s)}
    BY <1>3, <1>4, <1>5, <2>2, <2>4
  <2> QED
    BY <2>5, <2>6 DEF FirstBlock, Size, Used, Block, Room, HEADER, KMALLOC_MIN_BLOCK_SIZE
<1> QED
  BY <1>6, <1>7, <1>8 DEF IInv

\* What a caller writes is in its block, so it is in no header of the chain.
LEMMA WriteKeepsIInv ==
  ASSUME IInv, NEW b \in live, NEW byte \in Fills, Write(b, byte)
  PROVE  IInv'
<1> DEFINE p == b.at - HEADER
           g == Fill(heap, b, byte)
<1>1. TypeOK /\ heap \in HeapType
  BY DEF IInv, TypeOK, HeapType
<1>2. /\ IsHeader(p) /\ p \in Nat /\ b.at \in Nat /\ b.at = p + HEADER
      /\ b.size \in Nat /\ b.size > 0
  BY <1>1, BlockInHeap DEF IsHeader, HEADER
<1>3. heap' = g /\ UNCHANGED <<live, panic, outside, use>>
  BY DEF Write
<1>4. g \in HeapType /\ \A o \in Offsets \ Bytes(b) : g[o] = heap[o]
  BY <1>1, Filled, HeapAssumption
<1> HIDE DEF g
<1>5. \A o \in Offsets : (o < b.at \/ o >= b.at + b.size) => g[o] = heap[o]
  <2>1. \A o \in Offsets : (o < b.at \/ o >= b.at + b.size) => o \notin Bytes(b)
    BY <1>2, HeapAssumption DEF Bytes, Offsets
  <2> QED
    BY <1>4, <2>1
<1> HIDE DEF p
<1>6. TypeOK'
  BY <1>1, <1>3, <1>4 DEF TypeOK, HeapType, Offsets, Extent
\* A header before the block, or behind it, stays.
<1>7. ASSUME NEW q, IsHeader(q), q + HEADER <= b.at \/ q >= b.at + b.size
      PROVE  SameHeader(g, heap, q)
  <2>1. q \in Offsets /\ q + 1 \in Offsets /\ q + 2 \in Offsets /\ q \in Nat
    BY <1>7, HeaderBytes DEF IsHeader
  <2>2. \A o \in {q, q + 1, q + 2} : o < b.at \/ o >= b.at + b.size
    BY <1>2, <1>7, <2>1 DEF HEADER
  <2>3. g[q] = heap[q] /\ g[q + 1] = heap[q + 1] /\ g[q + 2] = heap[q + 2]
    BY <1>5, <2>1, <2>2
  <2> QED
    BY <2>3, SameBytes
<1>8. ASSUME ~use'.careless
      PROVE  OnChain(heap, live)'
  <2>1. OnChain(heap, live)
    BY <1>3, <1>8 DEF IInv
  <2>2. PICK P : Walk(heap, P) /\ \A c \in live : Holds(heap, P, c)
    BY <2>1 DEF OnChain
  <2>3. p \in P /\ Size(heap, p) >= b.size
    BY <2>2 DEF Holds, p
  <2>4. ASSUME NEW q \in P
        PROVE  SameHeader(g, heap, q)
    <3>1. IsHeader(q) /\ q \in Nat
      BY <2>2 DEF Walk, WalkFrom, IsHeader
    <3>2. CASE q <= p
      <4>1. q + HEADER <= b.at
        BY <1>2, <3>1, <3>2 DEF HEADER
      <4> QED
        BY <1>7, <3>1, <4>1
    <3>3. CASE ~(q <= p)
      <4>1. After(heap, p) <= q
        BY <1>1, <1>2, <2>2, <2>3, <3>1, <3>3, InOrder
      <4>2. q >= b.at + b.size
        BY <1>1, <1>2, <2>3, <3>1, <4>1, SizeIsNat DEF After, HEADER
      <4> QED
        BY <1>7, <3>1, <4>2
    <3> QED
      BY <3>2, <3>3
  <2>5. Walk(g, P)
    <3>1. \A q \in P : Size(g, q) = Size(heap, q) /\ (End(g, q) => End(heap, q))
      BY <2>4 DEF SameHeader, End
    <3> QED
      BY <2>2, <3>1, WalkMarked
  <2>6. \A c \in live : Holds(g, P, c)
    BY <2>2, <2>4 DEF Holds, SameHeader
  <2> QED
    BY <1>3, <2>1, <2>5, <2>6 DEF OnChain
<1>9. ASSUME NEW s \in Sizes, OnlyOne(s)'
      PROVE  FirstBlock(s)'
  <2>1. OnlyOne(s)
    BY <1>3, <1>9 DEF OnlyOne, Room, HEADER, KMALLOC_MIN_BLOCK_SIZE
  <2>2. /\ ~panic /\ ~outside /\ live \subseteq {Block(HEADER, s)}
        /\ Size(heap, 0) \in {0, s, Room(s)}
    BY <2>1 DEF IInv, FirstBlock
  <2>3. p = 0
    BY <1>2, <2>2 DEF Block, HEADER
  <2>4. SameHeader(g, heap, 0)
    BY <1>2, <1>7, <2>3
  <2>5. ~panic' /\ ~outside' /\ live' = live /\ live # {}
    BY <1>3, <2>2
  <2>6. Size(heap', 0) \in {0, s, Room(s)}
    BY <1>3, <2>2, <2>4 DEF SameHeader
  <2> QED
    BY <2>2, <2>5, <2>6 DEF FirstBlock, Size, Used, Block, Room, HEADER, KMALLOC_MIN_BLOCK_SIZE
<1> QED
  BY <1>6, <1>8, <1>9 DEF IInv

-----------------------------------------------------------------------------
(* The theorems *)

\* Every step keeps the inductive invariant.
LEMMA NextKeepsIInv ==
  IInv /\ [Next]_vars => IInv'
<1>1. SUFFICES ASSUME IInv, [Next]_vars
               PROVE  IInv'
  OBVIOUS
<1>2. ASSUME NEW size \in Sizes, kmalloc(size)
      PROVE  IInv'
  BY <1>1, <1>2, AllocKeepsIInv DEF kmalloc
<1>3. ASSUME NEW size \in Sizes, kcalloc(size)
      PROVE  IInv'
  BY <1>1, <1>3, AllocKeepsIInv DEF kcalloc
<1>4. ASSUME NEW b \in live, kfree(b)
      PROVE  IInv'
  BY <1>1, <1>4, FreeKeepsIInv
<1>5. ASSUME NEW b \in live, NEW byte \in Fills, Write(b, byte)
      PROVE  IInv'
  BY <1>1, <1>5, WriteKeepsIInv
<1>6. CASE UNCHANGED vars
  BY <1>1, <1>6 DEF vars, IInv, TypeOK, OnChain, Holds, Walk, WalkFrom, End, After, Used,
     Size, OnlyOne, FirstBlock, IsHeader, Offsets, Extent, Room, Block, HEADER,
     KMALLOC_MIN_BLOCK_SIZE
<1> QED
  BY <1>1, <1>2, <1>3, <1>4, <1>5, <1>6 DEF Next

\* The inductive invariant holds in every state.
THEOREM Invariance == Spec => []IInv
<1>1. Init => IInv
  BY InitHolds
<1> QED
  BY <1>1, NextKeepsIInv, PTL DEF Spec

\* The heap keeps its type, and no sizes make a block leave it, whatever the
\* chain has become.
THEOREM TypeCorrect == Spec => []TypeOK
<1>1. IInv => TypeOK
  BY DEF IInv
<1> QED
  BY <1>1, Invariance, PTL

\* With one block at a time, of a size that fits, in a clear heap, no call runs
\* out of memory or writes behind the heap.
THEOREM FatIsSafe == Spec => []OneBlockIsSafe
<1>1. IInv => OneBlockIsSafe
  <2>1. SUFFICES ASSUME IInv, use.cleared, use.alone,
                        NEW size \in Sizes, use.sizes \subseteq {size},
                        Room(size) < Radix * Radix, HEADER * Room(size) + 1 < KMALLOC_SIZE
                 PROVE  ~panic /\ ~outside
    BY DEF OneBlockIsSafe
  <2>2. OnlyOne(size)
    BY <2>1 DEF OnlyOne
  <2>3. FirstBlock(size)
    BY <2>1, <2>2 DEF IInv
  <2> QED
    BY <2>3 DEF FirstBlock
<1> QED
  BY <1>1, Invariance, PTL

\* Blocks on one chain do not overlap, not even with their headers.
LEMMA BlocksApart ==
  ASSUME TypeOK, OnChain(heap, live), NEW b \in live, NEW c \in live, b # c
  PROVE  b.at + b.size <= c.at - HEADER \/ c.at + c.size <= b.at - HEADER
<1> DEFINE p == b.at - HEADER
           q == c.at - HEADER
<1>1. heap \in HeapType
  BY DEF TypeOK, HeapType
<1>2. PICK P : Walk(heap, P) /\ Holds(heap, P, b) /\ Holds(heap, P, c)
  BY DEF OnChain
<1>3. /\ IsHeader(p) /\ p \in Nat /\ b.at = p + HEADER /\ b.size \in Nat
      /\ IsHeader(q) /\ q \in Nat /\ c.at = q + HEADER /\ c.size \in Nat
  BY BlockInHeap DEF IsHeader, HEADER
<1>4. b.at # c.at
  BY DEF OnChain
<1>5. p \in P /\ q \in P /\ Size(heap, p) >= b.size /\ Size(heap, q) >= c.size
  BY <1>2 DEF Holds
<1>6. Size(heap, p) \in Nat /\ Size(heap, q) \in Nat
  BY <1>1, <1>3, SizeIsNat
<1> HIDE DEF p, q
<1>7. CASE p < q
  <2>1. After(heap, p) <= q
    BY <1>1, <1>2, <1>5, <1>7, InOrder
  <2>2. b.at + b.size <= q
    BY <1>3, <1>5, <1>6, <2>1 DEF After, HEADER
  <2> QED
    BY <2>2 DEF q
<1>8. CASE q < p
  <2>1. After(heap, q) <= p
    BY <1>1, <1>2, <1>5, <1>8, InOrder
  <2>2. c.at + c.size <= p
    BY <1>3, <1>5, <1>6, <2>1 DEF After, HEADER
  <2> QED
    BY <2>2 DEF p
<1>9. p # q
  BY <1>3, <1>4 DEF HEADER
<1> QED
  BY <1>3, <1>7, <1>8, <1>9

\* The bytes of a live block, as numbers.
LEMMA BytesOfBlock ==
  ASSUME TypeOK, NEW b \in live
  PROVE  \A o \in Bytes(b) : o \in Offsets /\ o >= b.at /\ o < b.at + b.size
  BY BlockInHeap, HeapAssumption DEF Bytes, Offsets, IsHeader, HEADER

\* A call that is not careless leaves the bytes of every live block.
LEMMA AllocKeepsBytes ==
  ASSUME IInv, NEW size \in Sizes, NEW zeroed \in BOOLEAN,
         Alloc(find_free_block(heap, size), size, zeroed),
         ~use'.careless, NEW b \in live, NEW o \in Bytes(b)
  PROVE  heap'[o] = heap[o]
<1> DEFINE i == find_free_block(heap, size)
<1>1. TypeOK /\ heap \in HeapType
  BY DEF IInv, TypeOK, HeapType
<1>2. Alloc(i, size, zeroed)
  OBVIOUS
<1>3. ~use.careless /\ ~Careless(i, size)
  BY <1>1, AllocRecorded
<1>4. CASE i = NULL
  BY <1>2, <1>4 DEF Alloc
<1>5. CASE i # NULL
  <2>1. /\ Fit(heap, size, i) /\ i \in Nat
        /\ heap' = Allocated(heap, i, size, zeroed)
    BY <1>1, <1>5, AllocFinds
  <2>2. PICK Q : Walk(heap, Q) /\ i \in Q
    BY <1>1, <1>5, AllocFinds
  <2>3. PICK P : Walk(heap, P) /\ \A c \in live : Holds(heap, P, c)
    BY <1>3 DEF IInv, OnChain
  <2>4. Size(heap, i) = 0 /\ ~Used(heap, i)
    BY <1>3, <1>5, <2>1 DEF Careless, Fit
  <2> HIDE DEF i
  <2>5. b.at + b.size <= i
    BY <1>1, <2>2, <2>3, <2>4, BlocksBelow
  <2>6. o \in Offsets /\ o < i
    BY <1>1, <2>1, <2>5, BytesOfBlock, BlockInHeap, HeapAssumption DEF Offsets
  <2> QED
    BY <1>1, <2>1, <2>6, AllocatedHeap
<1> QED
  BY <1>4, <1>5

\* kfree leaves the bytes of the other blocks.
LEMMA FreeKeepsBytes ==
  ASSUME IInv, NEW c \in live, kfree(c), ~use'.careless,
         NEW b \in live, b \in live', NEW o \in Bytes(b)
  PROVE  heap'[o] = heap[o]
<1> DEFINE p == c.at - HEADER
<1>1. TypeOK /\ heap \in HeapType
  BY DEF IInv, TypeOK, HeapType
<1>2. heap' = ClearUsed(heap, p) /\ live' = live \ {c} /\ use' = use
  BY DEF kfree
<1>3. OnChain(heap, live)
  BY <1>2 DEF IInv
<1>4. IsHeader(p) /\ p \in Nat /\ c.at = p + HEADER /\ c.size \in Nat
  BY <1>1, BlockInHeap DEF IsHeader, HEADER
<1>5. b.at \in Nat /\ b.size \in Nat /\ o \in Offsets /\ o >= b.at /\ o < b.at + b.size
  BY <1>1, BlockInHeap, BytesOfBlock
<1>6. b.at + b.size <= p \/ c.at + c.size <= b.at - HEADER
  BY <1>1, <1>2, <1>3, BlocksApart
<1> HIDE DEF p
<1>7. o # p + 2
  BY <1>4, <1>5, <1>6, HeapAssumption DEF Offsets, HEADER
<1> QED
  BY <1>1, <1>2, <1>4, <1>5, <1>7, UsedWritten

\* What a caller writes into its block is in no other block.
LEMMA WriteKeepsBytes ==
  ASSUME IInv, NEW c \in live, NEW byte \in Fills, Write(c, byte), ~use'.careless,
         NEW b \in live, b # c, NEW o \in Bytes(b)
  PROVE  heap'[o] = heap[o]
<1>1. TypeOK /\ heap \in HeapType
  BY DEF IInv, TypeOK, HeapType
<1>2. heap' = Fill(heap, c, byte) /\ use' = use
  BY DEF Write
<1>3. OnChain(heap, live)
  BY <1>2 DEF IInv
<1>4. c.at \in Nat /\ c.size \in Nat
  BY <1>1, BlockInHeap
<1>5. b.at \in Nat /\ b.size \in Nat /\ o \in Offsets /\ o >= b.at /\ o < b.at + b.size
  BY <1>1, BlockInHeap, BytesOfBlock
<1>6. b.at + b.size <= c.at - HEADER \/ c.at + c.size <= b.at - HEADER
  BY <1>1, <1>3, BlocksApart
<1>7. o \notin Bytes(c)
  BY <1>4, <1>5, <1>6, HeapAssumption DEF Bytes, Offsets, HEADER
<1> QED
  BY <1>1, <1>2, <1>5, <1>7, Filled, HeapAssumption

\* No call changes the bytes of a block that stays with its caller, as long as
\* no call was careless.
THEOREM BytesKept == Spec => LiveBytesKept
<1> DEFINE Step == ~use'.careless =>
                     \A b \in live \intersect live' :
                       \/ \A o \in Bytes(b) : heap'[o] = heap[o]
                       \/ \E byte \in Fills : Write(b, byte)
<1>1. IInv /\ [Next]_vars => [Step]_vars
  <2>1. SUFFICES ASSUME IInv, Next, ~use'.careless, NEW b \in live, b \in live'
                 PROVE  \/ \A o \in Bytes(b) : heap'[o] = heap[o]
                        \/ \E byte \in Fills : Write(b, byte)
    OBVIOUS
  <2>2. ASSUME NEW size \in Sizes, kmalloc(size)
        PROVE  \A o \in Bytes(b) : heap'[o] = heap[o]
    BY <2>1, <2>2, AllocKeepsBytes DEF kmalloc
  <2>3. ASSUME NEW size \in Sizes, kcalloc(size)
        PROVE  \A o \in Bytes(b) : heap'[o] = heap[o]
    BY <2>1, <2>3, AllocKeepsBytes DEF kcalloc
  <2>4. ASSUME NEW c \in live, kfree(c)
        PROVE  \A o \in Bytes(b) : heap'[o] = heap[o]
    BY <2>1, <2>4, FreeKeepsBytes
  <2>5. ASSUME NEW c \in live, NEW byte \in Fills, Write(c, byte)
        PROVE  \/ \A o \in Bytes(b) : heap'[o] = heap[o]
               \/ \E x \in Fills : Write(b, x)
    <3>1. CASE b = c
      BY <2>5, <3>1
    <3>2. CASE b # c
      BY <2>1, <2>5, <3>2, WriteKeepsBytes
    <3> QED
      BY <3>1, <3>2
  <2> QED
    BY <2>1, <2>2, <2>3, <2>4, <2>5 DEF Next
<1> QED
  BY <1>1, Invariance, PTL DEF Spec, LiveBytesKept

=============================================================================
