---------------------------- MODULE KernelProofs ----------------------------
(***************************************************************************)
(* Proofs about Kernel, and with it about Process, for every number of     *)
(* slots and every memory that satisfies LayoutAssumption.  The lemmas     *)
(* about the operators of Pages come first, as in MemoryProofs; then those *)
(* about address spaces, process_create and the statements of the CPU.     *)
(***************************************************************************)
EXTENDS Kernel, FiniteSetTheorems, WellFoundedInduction, TLAPS

-----------------------------------------------------------------------------
(* Arithmetic of pages *)

\* An address is made of its table and its entry in the table.
LEMMA SplitAddress ==
  ASSUME NEW va \in Nat
  PROVE  /\ PDX(va) \in Nat
         /\ PTX(va) \in TabIndexes
         /\ va = Entries * PDX(va) + PTX(va)
BY LayoutAssumption, SMT DEF PDX, PTX, TabIndexes, LayoutAssumption

\* Two addresses with the same table and entry are the same.
LEMMA AddressIsItsIndexes ==
  ASSUME NEW p \in Nat, NEW q \in Nat, PDX(p) = PDX(q), PTX(p) = PTX(q)
  PROVE  p = q
<1>1. p = Entries * PDX(p) + PTX(p)
  BY SplitAddress
<1>2. q = Entries * PDX(q) + PTX(q)
  BY SplitAddress
<1> QED
  BY <1>1, <1>2

\* The page before one that is not the first of its table has the same table.
LEMMA SameTableAsPrevious ==
  ASSUME NEW p \in Nat, PTX(p) # 0
  PROVE  p > 0 /\ PDX(p - 1) = PDX(p)
<1>1. p > 0
  BY LayoutAssumption, SMT DEF PTX, LayoutAssumption
<1>2. PDX(p - 1) = PDX(p)
  BY <1>1, LayoutAssumption, SMT DEF PTX, PDX, LayoutAssumption
<1> QED
  BY <1>1, <1>2

\* The whole words of a bitmap hold at most the pages it was declared for.
LEMMA CapacityBound ==
  ASSUME NEW count \in Nat
  PROVE  Capacity(count) \in Nat /\ Capacity(count) <= count
<1> DEFINE q == count \div WordBits
<1>1. q \in Nat /\ q * WordBits <= count
  BY LayoutAssumption, SMT DEF LayoutAssumption
<1>2. q * WordBits \in Nat
  BY <1>1, LayoutAssumption, SMT DEF LayoutAssumption
<1> QED
  BY <1>1, <1>2 DEF Capacity

\* The pool of tables lies in the second table of the kernel, below the pages
\* of the processes; the kernel's own tables lie below the pool.
LEMMA Layout ==
  /\ Entries \in Nat \ {0} /\ DirEntries \in Nat
  /\ Bits \subseteq Nat /\ IntrBits \subseteq Nat
  /\ \A f \in Frames : /\ f \in Entries .. 2 * Entries - 1
                       /\ f - PMM_INTR_START \in IntrBits
  /\ \A p \in UserPages : /\ p \in Nat
                          /\ p >= PMM_START
                          /\ p - PMM_START \in Bits
                          /\ p - PMM_START < PagesCount
                          /\ PDX(p) \in 2 .. DirEntries - 1
                          /\ PTX(p) \in TabIndexes
  /\ KDir \notin Frames /\ KTab1 \notin Frames /\ KTab2 \notin Frames
  /\ NULL \notin Tables /\ NotPresent \notin Tables
  /\ \A p \in KernelPages : p < PMM_START
  /\ NotPresent \notin UserPages
<1>1. Capacity(PagesCount) \in Nat /\ Capacity(PagesCount) <= PagesCount
  BY CapacityBound, LayoutAssumption DEF LayoutAssumption
<1>2. Capacity(IntrPagesCount) \in Nat /\ Capacity(IntrPagesCount) <= IntrPagesCount
  BY CapacityBound, LayoutAssumption DEF LayoutAssumption
<1>3. Entries \in Nat \ {0} /\ DirEntries \in Nat
  BY LayoutAssumption DEF LayoutAssumption
<1>4. Bits \subseteq Nat /\ IntrBits \subseteq Nat
  BY <1>1, <1>2 DEF Bits, IntrBits
<1>5. \A f \in Frames : f \in Entries .. 2 * Entries - 1 /\ f - PMM_INTR_START \in IntrBits
  BY <1>2, <1>3, LayoutAssumption DEF Frames, IntrBits, PMM_INTR_START, LayoutAssumption
<1>6. ASSUME NEW p \in UserPages
      PROVE  /\ p \in Nat
             /\ p >= PMM_START
             /\ p - PMM_START \in Bits
             /\ p - PMM_START < PagesCount
             /\ PDX(p) \in 2 .. DirEntries - 1
             /\ PTX(p) \in TabIndexes
  <2>1. PICK k \in Bits : p = PMM_START + k
    BY DEF UserPages
  <2>2. p \in Nat /\ p >= PMM_START /\ p - PMM_START = k
    BY <1>3, <1>4, <2>1 DEF PMM_START
  <2>3. k < PagesCount
    BY <1>1, LayoutAssumption DEF Bits, LayoutAssumption
  <2>4. PDX(p) \in 2 .. DirEntries - 1
    BY <2>1, LayoutAssumption DEF LayoutAssumption
  <2> QED
    BY <2>2, <2>3, <2>4, SplitAddress
<1>7. {KDir, KTab1, KTab2} \subseteq 1 .. Entries - 1
  BY LayoutAssumption DEF LayoutAssumption
<1>8. KDir \notin Frames /\ KTab1 \notin Frames /\ KTab2 \notin Frames
  BY <1>3, <1>5, <1>7
<1>9. NULL \notin Tables /\ NotPresent \notin Tables
  BY <1>3, <1>5, <1>7 DEF Tables, NULL, NotPresent
<1>10. \A p \in KernelPages : p < PMM_START
  BY <1>3 DEF KernelPages, PMM_START
<1>11. NotPresent \notin UserPages
  BY <1>6 DEF NotPresent
<1> QED
  BY <1>3, <1>4, <1>5, <1>6, <1>8, <1>9, <1>10, <1>11

\* A bit of a bitmap stands for a page, and for one page only.
LEMMA PagesOfBits ==
  /\ \A k \in IntrBits : PMM_INTR_START + k \in Frames /\ (PMM_INTR_START + k) - PMM_INTR_START = k
  /\ \A k \in Bits : PMM_START + k \in UserPages /\ (PMM_START + k) - PMM_START = k
<1>1. Entries \in Nat /\ Bits \subseteq Nat /\ IntrBits \subseteq Nat
  BY Layout
<1>2. PMM_INTR_START \in Nat /\ PMM_START \in Nat
  BY <1>1 DEF PMM_INTR_START, PMM_START
<1>3. \A k \in IntrBits : PMM_INTR_START + k \in Frames
  BY DEF Frames
<1>4. \A k \in Bits : PMM_START + k \in UserPages
  BY DEF UserPages
<1> QED
  BY <1>1, <1>2, <1>3, <1>4

-----------------------------------------------------------------------------
(* Memory records *)

\* A memory is the record of its parts.
IsMemory(m) == m = [bitmap |-> m.bitmap, intr_bitmap |-> m.intr_bitmap, dir |-> m.dir,
                    tab |-> m.tab, panic |-> m.panic]

\* A record whose parts have the right types is a memory of the right type.
LEMMA MemoryOfParts ==
  ASSUME NEW m, IsMemory(m),
         m.bitmap \in SUBSET Bits, m.intr_bitmap \in SUBSET IntrBits,
         m.dir \in [Directories -> [DirIndexes -> Tables \union {NotPresent}]],
         m.tab \in [Tables -> [TabIndexes -> PageNumbers \union {NotPresent}]],
         m.panic \in PanicTexts
  PROVE  m \in MemoryType
BY DEF IsMemory, MemoryType

\* The parts of a memory have the right types.
LEMMA PartsOfMemory ==
  ASSUME NEW m \in MemoryType
  PROVE  /\ IsMemory(m)
         /\ m.bitmap \in SUBSET Bits /\ m.intr_bitmap \in SUBSET IntrBits
         /\ m.dir \in [Directories -> [DirIndexes -> Tables \union {NotPresent}]]
         /\ m.tab \in [Tables -> [TabIndexes -> PageNumbers \union {NotPresent}]]
         /\ m.panic \in PanicTexts
BY DEF IsMemory, MemoryType

\* What each of the functions that write leaves behind, part by part: m1 is m
\* with one entry of a table written,
TableEntryWritten(m, t, j, page, m1) ==
  /\ IsMemory(m1)
  /\ m1.bitmap = m.bitmap /\ m1.intr_bitmap = m.intr_bitmap /\ m1.panic = m.panic
  /\ m1.dir = m.dir
  /\ m1.tab = [m.tab EXCEPT ![t] = [m.tab[t] EXCEPT ![j] = page]]

LEMMA WriteTableEntry ==
  ASSUME NEW m \in MemoryType, NEW t, NEW j, NEW page
  PROVE  TableEntryWritten(m, t, j, page, write_table_entry(m, t, j, page))
<1> DEFINE m1 == write_table_entry(m, t, j, page)
<1>0. m1 = write_table_entry(m, t, j, page)
  OBVIOUS
<1> HIDE DEF m1
<1>1. /\ m1.bitmap = m.bitmap /\ m1.intr_bitmap = m.intr_bitmap /\ m1.panic = m.panic
      /\ m1.dir = m.dir
      /\ m1.tab = [m.tab EXCEPT ![t] = [m.tab[t] EXCEPT ![j] = page]]
  BY <1>0, Zenon DEF MemoryType, write_table_entry
<1>2. IsMemory(m1)
  BY <1>0, <1>1, Zenon DEF MemoryType, IsMemory, write_table_entry
<1>3. TableEntryWritten(m, t, j, page, m1)
  BY <1>1, <1>2 DEF TableEntryWritten
<1> QED
  BY <1>3 DEF m1

\* one entry of a directory,
DirectoryEntryWritten(m, d, k, tb, m1) ==
  /\ IsMemory(m1)
  /\ m1.bitmap = m.bitmap /\ m1.intr_bitmap = m.intr_bitmap /\ m1.panic = m.panic
  /\ m1.dir = [m.dir EXCEPT ![d] = [m.dir[d] EXCEPT ![k] = tb]]
  /\ m1.tab = m.tab

LEMMA WriteDirectoryEntry ==
  ASSUME NEW m \in MemoryType, NEW d, NEW k, NEW tb
  PROVE  DirectoryEntryWritten(m, d, k, tb, write_directory_entry(m, d, k, tb))
<1> DEFINE m1 == write_directory_entry(m, d, k, tb)
<1>0. m1 = write_directory_entry(m, d, k, tb)
  OBVIOUS
<1> HIDE DEF m1
<1>1. /\ m1.bitmap = m.bitmap /\ m1.intr_bitmap = m.intr_bitmap /\ m1.panic = m.panic
      /\ m1.dir = [m.dir EXCEPT ![d] = [m.dir[d] EXCEPT ![k] = tb]]
      /\ m1.tab = m.tab
  BY <1>0, Zenon DEF MemoryType, write_directory_entry
<1>2. IsMemory(m1)
  BY <1>0, <1>1, Zenon DEF MemoryType, IsMemory, write_directory_entry
<1>3. DirectoryEntryWritten(m, d, k, tb, m1)
  BY <1>1, <1>2 DEF DirectoryEntryWritten
<1> QED
  BY <1>3 DEF m1

\* a whole directory,
DirectoryWritten(m, d, table_of, m1) ==
  /\ IsMemory(m1)
  /\ m1.bitmap = m.bitmap /\ m1.intr_bitmap = m.intr_bitmap /\ m1.panic = m.panic
  /\ m1.dir = [m.dir EXCEPT ![d] = table_of]
  /\ m1.tab = m.tab

LEMMA WritePageDirectory ==
  ASSUME NEW m \in MemoryType, NEW d, NEW table_of
  PROVE  DirectoryWritten(m, d, table_of, write_page_directory(m, d, table_of))
<1> DEFINE m1 == write_page_directory(m, d, table_of)
<1>0. m1 = write_page_directory(m, d, table_of)
  OBVIOUS
<1> HIDE DEF m1
<1>1. /\ m1.bitmap = m.bitmap /\ m1.intr_bitmap = m.intr_bitmap /\ m1.panic = m.panic
      /\ m1.dir = [m.dir EXCEPT ![d] = table_of]
      /\ m1.tab = m.tab
  BY <1>0, Zenon DEF MemoryType, write_page_directory
<1>2. IsMemory(m1)
  BY <1>0, <1>1, Zenon DEF MemoryType, IsMemory, write_page_directory
<1>3. DirectoryWritten(m, d, table_of, m1)
  BY <1>1, <1>2 DEF DirectoryWritten
<1> QED
  BY <1>3 DEF m1

\* a bit set,
BitSet(m, k, m1) ==
  /\ IsMemory(m1)
  /\ m1.bitmap = m.bitmap \union {k} /\ m1.intr_bitmap = m.intr_bitmap /\ m1.panic = m.panic
  /\ m1.dir = m.dir /\ m1.tab = m.tab

LEMMA BitmapSet ==
  ASSUME NEW m \in MemoryType, NEW k
  PROVE  BitSet(m, k, bitmap_set(m, k))
<1> DEFINE m1 == bitmap_set(m, k)
<1>0. m1 = bitmap_set(m, k)
  OBVIOUS
<1> HIDE DEF m1
<1>1. /\ m1.bitmap = m.bitmap \union {k} /\ m1.intr_bitmap = m.intr_bitmap /\ m1.panic = m.panic
      /\ m1.dir = m.dir /\ m1.tab = m.tab
  BY <1>0, Zenon DEF MemoryType, bitmap_set
<1>2. IsMemory(m1)
  BY <1>0, <1>1, Zenon DEF MemoryType, IsMemory, bitmap_set
<1>3. BitSet(m, k, m1)
  BY <1>1, <1>2 DEF BitSet
<1> QED
  BY <1>3 DEF m1

\* bits cleared,
BitsCleared(m, ks, m1) ==
  /\ IsMemory(m1)
  /\ m1.bitmap = m.bitmap \ ks /\ m1.intr_bitmap = m.intr_bitmap /\ m1.panic = m.panic
  /\ m1.dir = m.dir /\ m1.tab = m.tab

LEMMA BitmapClear ==
  ASSUME NEW m \in MemoryType, NEW ks
  PROVE  BitsCleared(m, ks, bitmap_clear(m, ks))
<1> DEFINE m1 == bitmap_clear(m, ks)
<1>0. m1 = bitmap_clear(m, ks)
  OBVIOUS
<1> HIDE DEF m1
<1>1. /\ m1.bitmap = m.bitmap \ ks /\ m1.intr_bitmap = m.intr_bitmap /\ m1.panic = m.panic
      /\ m1.dir = m.dir /\ m1.tab = m.tab
  BY <1>0, Zenon DEF MemoryType, bitmap_clear
<1>2. IsMemory(m1)
  BY <1>0, <1>1, Zenon DEF MemoryType, IsMemory, bitmap_clear
<1>3. BitsCleared(m, ks, m1)
  BY <1>1, <1>2 DEF BitsCleared
<1> QED
  BY <1>3 DEF m1

\* the kernel panicked,
PanicWritten(m, text, m1) ==
  /\ IsMemory(m1)
  /\ m1.bitmap = m.bitmap /\ m1.intr_bitmap = m.intr_bitmap /\ m1.panic = text
  /\ m1.dir = m.dir /\ m1.tab = m.tab

LEMMA Kpanic ==
  ASSUME NEW m \in MemoryType, NEW text
  PROVE  PanicWritten(m, text, kpanic(m, text))
<1> DEFINE m1 == kpanic(m, text)
<1>0. m1 = kpanic(m, text)
  OBVIOUS
<1> HIDE DEF m1
<1>1. /\ m1.bitmap = m.bitmap /\ m1.intr_bitmap = m.intr_bitmap /\ m1.panic = text
      /\ m1.dir = m.dir /\ m1.tab = m.tab
  BY <1>0, Zenon DEF MemoryType, kpanic
<1>2. IsMemory(m1)
  BY <1>0, <1>1, Zenon DEF MemoryType, IsMemory, kpanic
<1>3. PanicWritten(m, text, m1)
  BY <1>1, <1>2 DEF PanicWritten
<1> QED
  BY <1>3 DEF m1

\* a page of the pool marked and cleared.
PageTaken(m, k, m1) ==
  /\ IsMemory(m1)
  /\ m1.bitmap = m.bitmap /\ m1.intr_bitmap = m.intr_bitmap \union {k} /\ m1.panic = m.panic
  /\ m1.dir = [m.dir EXCEPT ![PMM_INTR_START + k] = EmptyDir]
  /\ m1.tab = [m.tab EXCEPT ![PMM_INTR_START + k] = EmptyTab]

LEMMA MarkAndClear ==
  ASSUME NEW m \in MemoryType, NEW k
  PROVE  PageTaken(m, k, mark_and_clear(m, k))
<1> DEFINE m1 == mark_and_clear(m, k)
<1>0. m1 = mark_and_clear(m, k)
  OBVIOUS
<1> HIDE DEF m1
<1>1. /\ m1.bitmap = m.bitmap /\ m1.intr_bitmap = m.intr_bitmap \union {k} /\ m1.panic = m.panic
      /\ m1.dir = [m.dir EXCEPT ![PMM_INTR_START + k] = EmptyDir]
      /\ m1.tab = [m.tab EXCEPT ![PMM_INTR_START + k] = EmptyTab]
  BY <1>0, Zenon DEF MemoryType, mark_and_clear
<1>2. IsMemory(m1)
  BY <1>0, <1>1, Zenon DEF MemoryType, IsMemory, mark_and_clear
<1>3. PageTaken(m, k, m1)
  BY <1>1, <1>2 DEF PageTaken
<1> QED
  BY <1>3 DEF m1

-----------------------------------------------------------------------------
(* What the functions of pmm.c return *)

\* The scan returns the first page without a mark, or -1.
LEMMA FindFirstPage ==
  ASSUME NEW bits, NEW count
  PROVE  \/ find_first_page(bits, count) = -1
         \/ /\ find_first_page(bits, count) \in 0 .. Capacity(count) - 1
            /\ FirstZero(bits, count, find_first_page(bits, count))
BY DEF find_first_page

\* Page t of the pool, not marked in m, is marked and clear in a.
FrameTaken(m, t, a) ==
  /\ t \in Frames /\ ~FrameMarked(m, t)
  /\ a.bitmap = m.bitmap /\ a.panic = m.panic
  /\ a.intr_bitmap = m.intr_bitmap \union {t - PMM_INTR_START}
  /\ a.dir = [m.dir EXCEPT ![t] = EmptyDir]
  /\ a.tab = [m.tab EXCEPT ![t] = EmptyTab]

\* pmm_intr_alloc_page returns NULL and changes nothing, or marks a page that
\* was not marked and clears it.
LEMMA IntrAlloc ==
  ASSUME NEW m \in MemoryType
  PROVE  LET a == pmm_intr_alloc_page(m)
         IN  \/ a = Result(m, NULL)
             \/ a.mem \in MemoryType /\ FrameTaken(m, a.ret, a.mem)
<1> DEFINE k == find_first_page(m.intr_bitmap, IntrPagesCount)
           f == PMM_INTR_START + k
           r == mark_and_clear(m, k)
<1>1. CASE k = -1
  <2>1. pmm_intr_alloc_page(m) = Result(m, NULL)
    BY <1>1 DEF pmm_intr_alloc_page
  <2> QED
    BY <2>1
<1>2. CASE k # -1
  <2>1. k \in IntrBits /\ FirstZero(m.intr_bitmap, IntrPagesCount, k)
    BY <1>2, FindFirstPage DEF IntrBits
  <2>2. f \in Frames /\ f - PMM_INTR_START = k
    BY <2>1, PagesOfBits
  <2>3. ~FrameMarked(m, f)
    BY <2>1, <2>2 DEF FirstZero, FrameMarked
  <2>parts. /\ IsMemory(r)
            /\ r.bitmap = m.bitmap /\ r.intr_bitmap = m.intr_bitmap \union {k} /\ r.panic = m.panic
            /\ r.dir = [m.dir EXCEPT ![f] = EmptyDir] /\ r.tab = [m.tab EXCEPT ![f] = EmptyTab]
    BY MarkAndClear DEF PageTaken
  <2>4. r \in MemoryType
    <3> HIDE DEF r, k, f
    <3>0. /\ m.dir \in [Directories -> [DirIndexes -> Tables \union {NotPresent}]]
          /\ m.tab \in [Tables -> [TabIndexes -> PageNumbers \union {NotPresent}]]
      BY PartsOfMemory
    <3>1. r.intr_bitmap \in SUBSET IntrBits
      BY <2>1, <2>parts, PartsOfMemory
    <3>2. EmptyDir \in [DirIndexes -> Tables \union {NotPresent}]
      BY DEF EmptyDir
    <3>3. EmptyTab \in [TabIndexes -> PageNumbers \union {NotPresent}]
      BY DEF EmptyTab
    <3>4. r.dir \in [Directories -> [DirIndexes -> Tables \union {NotPresent}]]
      BY <3>0, <3>2, <2>parts
    <3>5. r.tab \in [Tables -> [TabIndexes -> PageNumbers \union {NotPresent}]]
      BY <3>0, <3>3, <2>parts
    <3> QED
      BY <3>1, <3>4, <3>5, <2>parts, PartsOfMemory, MemoryOfParts
  <2>5. pmm_intr_alloc_page(m) = Result(r, f)
    BY <1>2 DEF pmm_intr_alloc_page
  <2>6. pmm_intr_alloc_page(m).ret = f /\ pmm_intr_alloc_page(m).mem = r
    BY <2>5 DEF Result
  <2> HIDE DEF k, f, r
  <2>7. FrameTaken(m, f, r)
    BY <2>2, <2>3, <2>parts DEF FrameTaken
  <2> QED
    BY <2>4, <2>6, <2>7
<1> QED
  BY <1>1, <1>2

-----------------------------------------------------------------------------
(* The inductive invariant, on a memory m with the directories ds *)

\* The kernel's own tables map no page of a process.
KernelTablesClean(m) == \A t \in {KTab1, KTab2}, j \in TabIndexes : m.tab[t][j] \notin UserPages

\* From entry 2 on a directory refers to tables of its own only.
UserHalves(m) == \A d \in Directories, v \in DirIndexes : v >= 2 => m.dir[d][v] \notin {KTab1, KTab2}

Sound(m, ds) == OneUse(m, ds) /\ KernelTablesClean(m) /\ UserHalves(m)

\* What it means for a directory to map a page of a process.
LEMMA MappedPage ==
  ASSUME NEW m, NEW d, NEW p \in UserPages
  PROVE  p \in Mapped(m, d) <=>
           \E v \in DirIndexes, j \in TabIndexes :
             m.dir[d][v] # NotPresent /\ m.tab[m.dir[d][v]][j] = p
BY Layout DEF Mapped

\* The directories in use translate every address as before.
SameView(m, m1, ds) ==
  /\ \A e \in ds \union {KDir} :
       Mapped(m1, e) \intersect UserPages = Mapped(m, e) \intersect UserPages
  /\ \A e \in ds \union {KDir}, x \in Nat :
       PDX(x) \in DirIndexes => vmm_va2pa(m1, e, x) = vmm_va2pa(m, e, x)

\* The kernel's directory keeps the tables that it has.
TablesStay(m, m1) ==
  \A v \in DirIndexes : m.dir[KDir][v] # NotPresent => m1.dir[KDir][v] # NotPresent

\* Entry j of table k of directory d maps page p; the others map what they did.
EntryMapped(m, m1, ds, d, k, j, p) ==
  /\ \A e \in ds \ {d} : Mapped(m1, e) \intersect UserPages = Mapped(m, e) \intersect UserPages
  /\ m.tab[m.dir[d][k]][j] \notin UserPages =>
       Mapped(m1, d) \intersect UserPages = (Mapped(m, d) \intersect UserPages) \union {p}
  /\ \A e \in ds \union {KDir}, x \in Nat :
       PDX(x) \in DirIndexes /\ (e # d \/ PDX(x) # k \/ PTX(x) # j) =>
         vmm_va2pa(m1, e, x) = vmm_va2pa(m, e, x)

\* Writing one entry of a table that a directory has for itself.
LEMMA WriteEntry ==
  ASSUME NEW m \in MemoryType, NEW ds \in SUBSET Frames, Sound(m, ds),
         NEW d \in ds \union {KDir}, NEW k \in 2 .. DirEntries - 1,
         m.dir[d][k] # NotPresent,
         NEW j \in TabIndexes, NEW p \in UserPages,
         NEW m1, TableEntryWritten(m, m.dir[d][k], j, p, m1)
  PROVE  /\ m1 \in MemoryType
         /\ m1.bitmap = m.bitmap /\ m1.panic = m.panic /\ m1.dir = m.dir
         /\ m1.tab[m.dir[d][k]][j] = p
         /\ Sound(m1, ds)
         /\ EntryMapped(m, m1, ds, d, k, j, p)
<1> DEFINE t == m.dir[d][k]
<1>1. d \in Directories /\ k \in DirIndexes /\ ds \union {KDir} \subseteq Directories
  BY Layout DEF Directories, DirIndexes
<1>2. t \in Tables /\ t \notin {KTab1, KTab2, NotPresent}
  BY <1>1 DEF Sound, UserHalves, MemoryType
<1>3. OwnTable(m, d, k)
  BY <1>2 DEF OwnTable
<1>4. \A e \in Directories, v \in DirIndexes : m.dir[e][v] = t => e = d /\ v = k
  BY <1>1, <1>3 DEF Sound, OneUse
<1>5. /\ m1.bitmap = m.bitmap /\ m1.panic = m.panic /\ m1.dir = m.dir
      /\ m1.intr_bitmap = m.intr_bitmap
      /\ m1.tab = [m.tab EXCEPT ![t] = [m.tab[t] EXCEPT ![j] = p]]
      /\ IsMemory(m1)
  BY DEF TableEntryWritten
<1>6. m.tab \in [Tables -> [TabIndexes -> PageNumbers \union {NotPresent}]]
  BY DEF MemoryType
<1>7. m1.tab \in [Tables -> [TabIndexes -> PageNumbers \union {NotPresent}]]
  BY <1>2, <1>5, <1>6 DEF PageNumbers
<1>8. m1 \in MemoryType
  BY <1>5, <1>7, PartsOfMemory, MemoryOfParts
<1>9. /\ \A u \in Tables \ {t} : m1.tab[u] = m.tab[u]
      /\ m1.tab[t][j] = p
      /\ \A l \in TabIndexes \ {j} : m1.tab[t][l] = m.tab[t][l]
  BY <1>2, <1>5, <1>6
<1>10. Sound(m1, ds)
  <2>1. OneUse(m1, ds)
    BY <1>5 DEF Sound, OneUse, OwnTable, FrameMarked
  <2>2. KernelTablesClean(m1)
    BY <1>2, <1>9 DEF Sound, KernelTablesClean, Tables
  <2>3. UserHalves(m1)
    BY <1>5 DEF Sound, UserHalves
  <2> QED
    BY <2>1, <2>2, <2>3 DEF Sound
<1>11. \A e \in Directories, v \in DirIndexes :
         m.dir[e][v] # NotPresent => m.dir[e][v] \in Tables
  BY DEF MemoryType
<1>mapped. ASSUME NEW e, NEW q \in UserPages
           PROVE  q \in Mapped(m1, e) <=>
                    \E v \in DirIndexes, l \in TabIndexes :
                      m.dir[e][v] # NotPresent /\ m1.tab[m.dir[e][v]][l] = q
  <2>1. q \in Mapped(m1, e) <=>
          \E v \in DirIndexes, l \in TabIndexes :
            m1.dir[e][v] # NotPresent /\ m1.tab[m1.dir[e][v]][l] = q
    BY ONLY q \in UserPages, Layout DEF Mapped
  <2> QED
    BY <1>5, <2>1
<1>12. ASSUME NEW e \in ds \ {d}, NEW q \in UserPages
       PROVE  q \in Mapped(m1, e) <=> q \in Mapped(m, e)
  <2>1. e \in Directories
    BY <1>1
  <2>2. \A v \in DirIndexes : m.dir[e][v] # NotPresent => m1.tab[m.dir[e][v]] = m.tab[m.dir[e][v]]
    BY <1>4, <1>9, <1>11, <2>1
  <2> QED
    BY <1>mapped, <2>2, MappedPage
<1>13. ASSUME m.tab[t][j] \notin UserPages, NEW q \in UserPages
       PROVE  q \in Mapped(m1, d) <=> q \in Mapped(m, d) \/ q = p
  <2>1. \A v \in DirIndexes \ {k} :
          m.dir[d][v] # NotPresent => m1.tab[m.dir[d][v]] = m.tab[m.dir[d][v]]
    BY <1>1, <1>4, <1>9, <1>11
  <2>2. ASSUME q \in Mapped(m1, d)
        PROVE  q \in Mapped(m, d) \/ q = p
    <3>1. PICK v \in DirIndexes, l \in TabIndexes :
            m.dir[d][v] # NotPresent /\ m1.tab[m.dir[d][v]][l] = q
      BY <1>mapped, <2>2
    <3>2. CASE v = k /\ l = j
      BY <3>1, <3>2, <1>9
    <3>3. CASE v # k \/ l # j
      <4>1. m.tab[m.dir[d][v]][l] = q
        BY <3>1, <3>3, <2>1, <1>9
      <4> QED
        BY <3>1, <4>1, MappedPage
    <3> QED
      BY <3>2, <3>3
  <2>3. ASSUME q \in Mapped(m, d)
        PROVE  q \in Mapped(m1, d)
    <3>1. PICK v \in DirIndexes, l \in TabIndexes :
            m.dir[d][v] # NotPresent /\ m.tab[m.dir[d][v]][l] = q
      BY <2>3, MappedPage
    <3>2. ~(v = k /\ l = j)
      BY <3>1, <1>13
    <3>3. m1.tab[m.dir[d][v]][l] = q
      BY <3>1, <3>2, <2>1, <1>9
    <3> QED
      BY <1>mapped, <3>1, <3>3
  <2>4. p \in Mapped(m1, d)
    BY <1>mapped, <1>1, <1>2, <1>9
  <2> QED
    BY <2>2, <2>3, <2>4
<1>14. ASSUME NEW e \in ds \union {KDir}, NEW x \in Nat, PDX(x) \in DirIndexes,
              e # d \/ PDX(x) # k \/ PTX(x) # j
       PROVE  vmm_va2pa(m1, e, x) = vmm_va2pa(m, e, x)
  <2>1. e \in Directories /\ PTX(x) \in TabIndexes
    BY <1>1, SplitAddress
  <2>2. ASSUME m.dir[e][PDX(x)] # NotPresent
        PROVE  m1.tab[m.dir[e][PDX(x)]][PTX(x)] = m.tab[m.dir[e][PDX(x)]][PTX(x)]
    <3>1. CASE m.dir[e][PDX(x)] = t
      BY <3>1, <2>1, <1>4, <1>9, <1>14
    <3>2. CASE m.dir[e][PDX(x)] # t
      BY <3>2, <2>1, <2>2, <1>9, <1>11, <1>14
    <3> QED
      BY <3>1, <3>2
  <2> QED
    BY <1>5, <2>2 DEF vmm_va2pa
<1>15. EntryMapped(m, m1, ds, d, k, j, p)
  BY <1>12, <1>13, <1>14 DEF EntryMapped
<1> QED
  BY <1>5, <1>8, <1>9, <1>10, <1>15

\* A directory that refers to nothing where entry k is gets a table that
\* pmm_intr_alloc_page marked and cleared: a is what that call left behind.
LEMMA EnterTable ==
  ASSUME NEW m \in MemoryType, NEW ds \in SUBSET Frames, Sound(m, ds),
         NEW d \in ds \union {KDir}, NEW k \in 2 .. DirEntries - 1,
         m.dir[d][k] = NotPresent,
         NEW t, NEW a \in MemoryType, FrameTaken(m, t, a),
         NEW m1, DirectoryEntryWritten(a, d, k, t, m1)
  PROVE  /\ m1 \in MemoryType
         /\ m1.bitmap = m.bitmap /\ m1.panic = m.panic
         /\ m1.dir[d][k] = t /\ m1.tab[t] = EmptyTab /\ t \in Frames
         /\ Sound(m1, ds)
         /\ SameView(m, m1, ds)
         /\ TablesStay(m, m1)
<1>0. /\ t \in Frames /\ ~FrameMarked(m, t)
      /\ a.bitmap = m.bitmap /\ a.panic = m.panic
      /\ a.intr_bitmap = m.intr_bitmap \union {t - PMM_INTR_START}
      /\ a.dir = [m.dir EXCEPT ![t] = EmptyDir]
      /\ a.tab = [m.tab EXCEPT ![t] = EmptyTab]
  BY DEF FrameTaken
<1>1. d \in Directories /\ k \in DirIndexes /\ ds \union {KDir} \subseteq Directories
  BY Layout DEF Directories, DirIndexes
<1>2. t \notin ds /\ t # d /\ t # KDir /\ t \notin {KTab1, KTab2, NotPresent} /\ t \in Tables
  BY <1>0, Layout DEF Sound, OneUse, Tables
<1>3. /\ m1.bitmap = m.bitmap /\ m1.panic = m.panic /\ m1.tab = a.tab
      /\ m1.intr_bitmap = a.intr_bitmap
      /\ m1.dir = [a.dir EXCEPT ![d] = [a.dir[d] EXCEPT ![k] = t]]
      /\ IsMemory(m1)
  BY <1>0 DEF DirectoryEntryWritten
<1>4. /\ m.dir \in [Directories -> [DirIndexes -> Tables \union {NotPresent}]]
      /\ a.dir \in [Directories -> [DirIndexes -> Tables \union {NotPresent}]]
      /\ m.tab \in [Tables -> [TabIndexes -> PageNumbers \union {NotPresent}]]
  BY DEF MemoryType
<1>5. m1.dir \in [Directories -> [DirIndexes -> Tables \union {NotPresent}]]
  <2>1. [a.dir[d] EXCEPT ![k] = t] \in [DirIndexes -> Tables \union {NotPresent}]
    BY <1>1, <1>2, <1>4
  <2>2. m1.dir = [a.dir EXCEPT ![d] = [a.dir[d] EXCEPT ![k] = t]]
    BY <1>3
  <2> QED
    BY <1>1, <1>4, <2>1, <2>2
<1>6. m1 \in MemoryType
  BY <1>3, <1>5, PartsOfMemory, MemoryOfParts
<1>7. m1.dir[d][k] = t
  BY <1>0, <1>1, <1>2, <1>3, <1>4
<1>8. \A v \in DirIndexes : m1.dir[t][v] = NotPresent
  <2>1. t \in Directories
    BY <1>0 DEF Directories
  <2>2. m1.dir[t] = EmptyDir
    BY <1>0, <1>1, <1>2, <1>3, <1>4, <2>1
  <2> QED
    BY <2>2 DEF EmptyDir
<1>9. \A e \in Directories \ {t}, v \in DirIndexes :
        e # d \/ v # k => m1.dir[e][v] = m.dir[e][v]
  BY <1>0, <1>1, <1>2, <1>3, <1>4
<1>10. m1.tab[t] = EmptyTab /\ \A u \in Tables \ {t} : m1.tab[u] = m.tab[u]
  BY <1>0, <1>2, <1>3, <1>4
<1>11. \A e \in Directories, v \in DirIndexes : m.dir[e][v] # t
  BY <1>0, <1>2 DEF Sound, OneUse, OwnTable
<1>12. /\ \A f \in Frames : FrameMarked(m, f) => FrameMarked(m1, f)
       /\ FrameMarked(m1, t)
  BY <1>0, <1>3 DEF FrameMarked
<1>13. OneUse(m1, ds)
  <2>1. \A e \in ds : FrameMarked(m1, e)
    BY <1>12 DEF Sound, OneUse
  <2>2. ASSUME NEW e \in Directories, NEW v \in DirIndexes, OwnTable(m1, e, v)
        PROVE  /\ FrameMarked(m1, m1.dir[e][v])
               /\ m1.dir[e][v] \notin ds
               /\ \A g \in Directories, l \in DirIndexes :
                    m1.dir[g][l] = m1.dir[e][v] => g = e /\ l = v
    <3>1. CASE e = d /\ v = k
      <4>1. m1.dir[e][v] = t
        BY <3>1, <1>7
      <4>2. \A g \in Directories, l \in DirIndexes : m1.dir[g][l] = t => g = d /\ l = k
        BY <1>2, <1>8, <1>9, <1>11
      <4> QED
        BY <1>2, <1>12, <3>1, <4>1, <4>2
    <3>2. CASE ~(e = d /\ v = k)
      <4>1. e # t
        BY <2>2, <1>8 DEF OwnTable
      <4>2. m1.dir[e][v] = m.dir[e][v] /\ OwnTable(m, e, v)
        BY <2>2, <3>2, <4>1, <1>9 DEF OwnTable
      <4>3. /\ FrameMarked(m, m.dir[e][v])
            /\ m.dir[e][v] \notin ds
            /\ \A g \in Directories, l \in DirIndexes :
                 m.dir[g][l] = m.dir[e][v] => g = e /\ l = v
        BY <4>2 DEF Sound, OneUse
      <4>4. m.dir[e][v] \in Frames
        BY <4>2, <1>4 DEF OwnTable, Tables
      <4>5. m.dir[e][v] # t /\ m.dir[e][v] # NotPresent
        BY <1>11, <4>2 DEF OwnTable
      <4>6. ASSUME NEW g \in Directories, NEW l \in DirIndexes, m1.dir[g][l] = m.dir[e][v]
            PROVE  g = e /\ l = v
        <5>1. g # t /\ ~(g = d /\ l = k)
          BY <4>5, <4>6, <1>7, <1>8
        <5>2. m.dir[g][l] = m.dir[e][v]
          BY <5>1, <4>6, <1>9
        <5> QED
          BY <5>2, <4>3
      <4> QED
        BY <1>12, <4>2, <4>3, <4>4, <4>6
    <3> QED
      BY <3>1, <3>2
  <2> QED
    BY <2>1, <2>2 DEF OneUse
<1>14. KernelTablesClean(m1)
  BY <1>2, <1>10 DEF Sound, KernelTablesClean, Tables
<1>15. UserHalves(m1)
  <2>1. ASSUME NEW e \in Directories, NEW v \in DirIndexes, v >= 2
        PROVE  m1.dir[e][v] \notin {KTab1, KTab2}
    <3>1. CASE e = t
      <4>1. NotPresent \notin {KTab1, KTab2}
        BY Layout DEF Tables
      <4> QED
        BY <3>1, <4>1, <1>8
    <3>2. CASE e = d /\ v = k
      BY <3>2, <1>2, <1>7
    <3>3. CASE e # t /\ ~(e = d /\ v = k)
      BY <2>1, <3>3, <1>9 DEF Sound, UserHalves
    <3> QED
      BY <3>1, <3>2, <3>3
  <2> QED
    BY <2>1 DEF UserHalves
<1>16. ASSUME NEW e \in ds \union {KDir}, NEW q \in UserPages
       PROVE  q \in Mapped(m1, e) <=> q \in Mapped(m, e)
  <2>1. q \in Mapped(m1, e) <=>
          \E v \in DirIndexes, l \in TabIndexes :
            m1.dir[e][v] # NotPresent /\ m1.tab[m1.dir[e][v]][l] = q
    BY ONLY q \in UserPages, Layout DEF Mapped
  <2>2. q \in Mapped(m, e) <=>
          \E v \in DirIndexes, l \in TabIndexes :
            m.dir[e][v] # NotPresent /\ m.tab[m.dir[e][v]][l] = q
    BY ONLY q \in UserPages, Layout DEF Mapped
  <2>3. \A l \in TabIndexes : m1.tab[t][l] # q
    BY <1>10, Layout DEF EmptyTab
  <2>4. e \in Directories \ {t}
    BY <1>1, <1>2
  <2>5. ASSUME NEW v \in DirIndexes, NEW l \in TabIndexes
        PROVE  m1.dir[e][v] # NotPresent /\ m1.tab[m1.dir[e][v]][l] = q <=>
               m.dir[e][v] # NotPresent /\ m.tab[m.dir[e][v]][l] = q
    <3>1. CASE e = d /\ v = k
      BY <3>1, <2>3, <1>7
    <3>2. CASE ~(e = d /\ v = k)
      <4>1. m1.dir[e][v] = m.dir[e][v] /\ m.dir[e][v] # t
        BY <3>2, <2>4, <1>9, <1>11
      <4>2. m.dir[e][v] # NotPresent => m.dir[e][v] \in Tables \ {t}
        BY <2>4, <4>1, <1>4
      <4> QED
        BY <4>1, <4>2, <1>10
    <3> QED
      BY <3>1, <3>2
  <2> QED
    BY <2>1, <2>2, <2>5
<1>17. \A e \in ds \union {KDir} :
         Mapped(m1, e) \intersect UserPages = Mapped(m, e) \intersect UserPages
  BY <1>16
<1>18. Sound(m1, ds)
  BY <1>13, <1>14, <1>15 DEF Sound
<1>19. \A e \in ds \union {KDir}, v \in DirIndexes : e # d \/ v # k => m1.dir[e][v] = m.dir[e][v]
  BY <1>1, <1>2, <1>9
<1>20. ASSUME NEW e \in ds \union {KDir}, NEW x \in Nat, PDX(x) \in DirIndexes
       PROVE  vmm_va2pa(m1, e, x) = vmm_va2pa(m, e, x)
  <2>1. e \in Directories \ {t} /\ PTX(x) \in TabIndexes
    BY <1>1, <1>2, SplitAddress
  <2>2. CASE e = d /\ PDX(x) = k
    <3>1. vmm_va2pa(m, e, x) = NULL
      BY <2>2 DEF vmm_va2pa
    <3>2. m1.tab[t][PTX(x)] = NotPresent
      BY <2>1, <1>10 DEF EmptyTab
    <3> QED
      BY <2>2, <3>1, <3>2, <1>2, <1>7 DEF vmm_va2pa
  <2>3. CASE ~(e = d /\ PDX(x) = k)
    <3>1. m1.dir[e][PDX(x)] = m.dir[e][PDX(x)] /\ m.dir[e][PDX(x)] # t
      BY <2>1, <2>3, <1>9, <1>11, <1>20
    <3>2. m.dir[e][PDX(x)] # NotPresent =>
            m1.tab[m.dir[e][PDX(x)]] = m.tab[m.dir[e][PDX(x)]]
      BY <2>1, <3>1, <1>4, <1>10, <1>20
    <3> QED
      BY <3>1, <3>2 DEF vmm_va2pa
  <2> QED
    BY <2>2, <2>3
<1>21. SameView(m, m1, ds)
  BY <1>17, <1>20 DEF SameView
<1>22. TablesStay(m, m1)
  BY <1>2, <1>7, <1>19 DEF TablesStay
<1> QED
  BY <1>0, <1>3, <1>6, <1>7, <1>10, <1>18, <1>21, <1>22

-----------------------------------------------------------------------------
(* What the functions of vmm.c leave behind *)

\* The directory's table for an address: the one it has, or a new one.
LEMMA Walk ==
  ASSUME NEW m \in MemoryType, NEW ds \in SUBSET Frames, Sound(m, ds),
         NEW d \in ds \union {KDir}, NEW va \in Nat, PDX(va) \in 2 .. DirEntries - 1,
         NEW w, w = vmm_walk_pgdir(m, d, va)
  PROVE  \/ w.ret = NULL /\ w.mem = m
         \/ /\ w.ret # NULL /\ w.mem \in MemoryType /\ Sound(w.mem, ds)
            /\ w.mem.bitmap = m.bitmap /\ w.mem.panic = m.panic
            /\ w.ret = w.mem.dir[d][PDX(va)] /\ w.ret # NotPresent
            /\ SameView(m, w.mem, ds) /\ TablesStay(m, w.mem)
<1> DEFINE k == PDX(va)
           a == pmm_intr_alloc_page(m)
<1>1. d \in Directories /\ k \in DirIndexes
  BY Layout DEF Directories, DirIndexes
<1>2. CASE m.dir[d][k] # NotPresent
  <2>1. w = Result(m, m.dir[d][k])
    BY <1>2 DEF vmm_walk_pgdir
  <2>2. w.ret = m.dir[d][k] /\ w.mem = m
    BY <2>1 DEF Result
  <2>3. m.dir[d][k] # NULL
    BY <1>1, <1>2, Layout DEF MemoryType
  <2>4. SameView(m, m, ds) /\ TablesStay(m, m)
    BY DEF SameView, TablesStay
  <2> QED
    BY <1>2, <2>2, <2>3, <2>4
<1>3. CASE m.dir[d][k] = NotPresent /\ a.ret = NULL
  <2>1. w = a
    BY <1>3 DEF vmm_walk_pgdir
  <2>2. a.mem = m
    <3>1. a = Result(m, NULL) \/ FrameTaken(m, a.ret, a.mem)
      BY IntrAlloc
    <3>2. NULL \notin Frames
      BY Layout DEF Tables
    <3> QED
      BY <1>3, <3>1, <3>2 DEF Result, FrameTaken
  <2> QED
    BY <1>3, <2>1, <2>2
<1>4. CASE m.dir[d][k] = NotPresent /\ a.ret # NULL
  <2> DEFINE t == a.ret
             n == a.mem
             m1 == write_directory_entry(n, d, k, t)
  <2>1. n \in MemoryType /\ FrameTaken(m, t, n)
    <3>1. a # Result(m, NULL)
      BY <1>4 DEF Result
    <3> QED
      BY <3>1, IntrAlloc
  <2>2. w.ret = t /\ w.mem = m1
    <3>1. w = Result(m1, t)
      BY <1>4 DEF vmm_walk_pgdir
    <3> QED
      BY <3>1 DEF Result
  <2>3. k \in 2 .. DirEntries - 1 /\ m.dir[d][k] = NotPresent
    BY <1>4
  <2>4. DirectoryEntryWritten(n, d, k, t, m1)
    BY <2>1, WriteDirectoryEntry, Zenon
  <2> HIDE DEF a, k, t, n, m1
  <2>5. /\ m1 \in MemoryType
        /\ m1.bitmap = m.bitmap /\ m1.panic = m.panic
        /\ m1.dir[d][k] = t /\ t \in Frames
        /\ Sound(m1, ds)
        /\ SameView(m, m1, ds) /\ TablesStay(m, m1)
    BY <2>1, <2>3, <2>4, EnterTable
  <2>6. t # NULL /\ t # NotPresent
    BY <2>5, Layout DEF Tables
  <2> QED
    BY <2>2, <2>5, <2>6 DEF k
<1> QED
  BY <1>2, <1>3, <1>4

\* Page p is mapped at va in directory d; nothing else is mapped or unmapped.
PageMapped(m, m1, ds, d, va, p) ==
  /\ \A e \in ds \ {d} : Mapped(m1, e) \intersect UserPages = Mapped(m, e) \intersect UserPages
  /\ vmm_va2pa(m, d, va) = NULL =>
       Mapped(m1, d) \intersect UserPages = (Mapped(m, d) \intersect UserPages) \union {p}
  /\ vmm_va2pa(m1, d, va) = p
  /\ \A e \in ds \union {KDir}, x \in Nat :
       PDX(x) \in DirIndexes /\ (e # d \/ x # va) => vmm_va2pa(m1, e, x) = vmm_va2pa(m, e, x)

\* Writing the entry of va in the table that directory d has for it.
LEMMA WritePage ==
  ASSUME NEW m \in MemoryType, NEW ds \in SUBSET Frames, Sound(m, ds),
         NEW d \in ds \union {KDir}, NEW va \in Nat, PDX(va) \in 2 .. DirEntries - 1,
         m.dir[d][PDX(va)] # NotPresent,
         NEW p \in UserPages,
         NEW m1, TableEntryWritten(m, m.dir[d][PDX(va)], PTX(va), p, m1)
  PROVE  /\ m1 \in MemoryType /\ Sound(m1, ds)
         /\ m1.bitmap = m.bitmap /\ m1.panic = m.panic
         /\ PageMapped(m, m1, ds, d, va, p)
         /\ TablesStay(m, m1)
<1> DEFINE k == PDX(va)
           j == PTX(va)
<1>1. k \in 2 .. DirEntries - 1 /\ k \in DirIndexes /\ j \in TabIndexes
  BY SplitAddress, Layout DEF DirIndexes
<1>2. /\ m1 \in MemoryType
      /\ m1.bitmap = m.bitmap /\ m1.panic = m.panic /\ m1.dir = m.dir
      /\ m1.tab[m.dir[d][k]][j] = p
      /\ Sound(m1, ds)
      /\ EntryMapped(m, m1, ds, d, k, j, p)
  <2> HIDE DEF k, j
  <2>1. m.dir[d][k] # NotPresent /\ TableEntryWritten(m, m.dir[d][k], j, p, m1)
    BY DEF k, j
  <2> QED
    BY <1>1, <2>1, WriteEntry
<1>3. ASSUME vmm_va2pa(m, d, va) = NULL
      PROVE  m.tab[m.dir[d][k]][j] \notin UserPages
  <2>1. m.tab[m.dir[d][k]][j] = NotPresent \/ m.tab[m.dir[d][k]][j] = NULL
    BY <1>3 DEF vmm_va2pa
  <2>2. NULL \notin UserPages
    BY Layout DEF NULL, PMM_START
  <2> QED
    BY <2>1, <2>2, Layout
<1>4. vmm_va2pa(m1, d, va) = p
  <2>1. p # NotPresent
    BY Layout
  <2> QED
    BY <1>2, <2>1 DEF vmm_va2pa
<1>5. ASSUME NEW e \in ds \union {KDir}, NEW x \in Nat, PDX(x) \in DirIndexes, e # d \/ x # va
      PROVE  vmm_va2pa(m1, e, x) = vmm_va2pa(m, e, x)
  <2>1. e # d \/ PDX(x) # k \/ PTX(x) # j
    BY <1>5, AddressIsItsIndexes
  <2> QED
    BY <1>2, <1>5, <2>1 DEF EntryMapped
<1>6. PageMapped(m, m1, ds, d, va, p)
  BY <1>2, <1>3, <1>4, <1>5 DEF PageMapped, EntryMapped
<1>7. TablesStay(m, m1)
  BY <1>2 DEF TablesStay
<1> QED
  BY <1>2, <1>6, <1>7

\* vmm_mappage fails and changes nothing, or maps the page.
LEMMA Mappage ==
  ASSUME NEW m \in MemoryType, NEW ds \in SUBSET Frames, Sound(m, ds),
         NEW d \in ds \union {KDir}, NEW va \in Nat, PDX(va) \in 2 .. DirEntries - 1,
         NEW p \in UserPages,
         NEW r, r = vmm_mappage(m, d, va, p)
  PROVE  \/ r.ret = -1 /\ r.mem = m
         \/ /\ r.ret = 0 /\ r.mem \in MemoryType /\ Sound(r.mem, ds)
            /\ r.mem.bitmap = m.bitmap /\ r.mem.panic = m.panic
            /\ PageMapped(m, r.mem, ds, d, va, p)
            /\ TablesStay(m, r.mem)
<1> DEFINE w == vmm_walk_pgdir(m, d, va)
           n == w.mem
           m1 == write_table_entry(n, w.ret, PTX(va), p)
<1>0. w = vmm_walk_pgdir(m, d, va)
  OBVIOUS
<1>1. r = IF w.ret = NULL THEN Result(n, -1) ELSE Result(m1, 0)
  BY DEF vmm_mappage
<1>2. \/ w.ret = NULL /\ n = m
      \/ /\ w.ret # NULL /\ n \in MemoryType /\ Sound(n, ds)
         /\ n.bitmap = m.bitmap /\ n.panic = m.panic
         /\ w.ret = n.dir[d][PDX(va)] /\ w.ret # NotPresent
         /\ SameView(m, n, ds) /\ TablesStay(m, n)
  <2> HIDE DEF w
  <2> QED
    BY <1>0, Walk
<1>3. CASE w.ret = NULL
  <2>1. r = Result(n, -1)
    BY <1>1, <1>3
  <2> QED
    BY <1>2, <1>3, <2>1 DEF Result
<1>4. CASE w.ret # NULL
  <2>1. r.ret = 0 /\ r.mem = m1
    BY <1>1, <1>4 DEF Result
  <2>2. n \in MemoryType
    BY <1>2, <1>4
  <2>3. TableEntryWritten(n, w.ret, PTX(va), p, m1)
    BY <2>2, WriteTableEntry, Zenon
  <2> HIDE DEF w, n, m1
  <2>4. TableEntryWritten(n, n.dir[d][PDX(va)], PTX(va), p, m1)
    BY <1>2, <1>4, <2>3
  <2>5. /\ m1 \in MemoryType /\ Sound(m1, ds)
        /\ m1.bitmap = n.bitmap /\ m1.panic = n.panic
        /\ PageMapped(n, m1, ds, d, va, p)
        /\ TablesStay(n, m1)
    BY <1>2, <1>4, <2>4, WritePage
  <2>6. PDX(va) \in DirIndexes
    BY Layout DEF DirIndexes
  <2>7. PageMapped(m, m1, ds, d, va, p)
    <3>1. ASSUME NEW e \in ds \ {d}
          PROVE  Mapped(m1, e) \intersect UserPages = Mapped(m, e) \intersect UserPages
      BY <1>2, <1>4, <2>5 DEF PageMapped, SameView
    <3>2. ASSUME vmm_va2pa(m, d, va) = NULL
          PROVE  Mapped(m1, d) \intersect UserPages = (Mapped(m, d) \intersect UserPages) \union {p}
      BY <1>2, <1>4, <2>5, <2>6, <3>2 DEF PageMapped, SameView
    <3>3. vmm_va2pa(m1, d, va) = p
      BY <2>5 DEF PageMapped
    <3>4. ASSUME NEW e \in ds \union {KDir}, NEW x \in Nat, PDX(x) \in DirIndexes, e # d \/ x # va
          PROVE  vmm_va2pa(m1, e, x) = vmm_va2pa(m, e, x)
      BY <1>2, <1>4, <2>5, <3>4 DEF PageMapped, SameView
    <3> QED
      BY <3>1, <3>2, <3>3, <3>4 DEF PageMapped
  <2>8. TablesStay(m, m1)
    BY <1>2, <1>4, <2>5 DEF TablesStay
  <2> QED
    BY <1>2, <1>4, <2>1, <2>5, <2>7, <2>8
<1> QED
  BY <1>3, <1>4

-----------------------------------------------------------------------------
(* What the functions that callers use leave behind *)

\* Entering a page at its own address panics, or maps it there: the slot that
\* is used is the page's own if a new table is made for a first page only.
LEMMA MapIdentity ==
  ASSUME NEW m \in MemoryType, NEW ds \in SUBSET Frames, Sound(m, ds), ~Panicked(m),
         NEW page \in UserPages,
         m.dir[KDir][PDX(page)] = NotPresent => PTX(page) = 0,
         NEW r, r = pmm_map_identity(m, page)
  PROVE  /\ r \in MemoryType
         /\ \/ Panicked(r)
            \/ /\ ~Panicked(r) /\ Sound(r, ds)
               /\ r.bitmap = m.bitmap
               /\ PageMapped(m, r, ds, KDir, page, page)
               /\ TablesStay(m, r) /\ r.dir[KDir][PDX(page)] # NotPresent
<1> DEFINE k == PDX(page)
           a == pmm_intr_alloc_page(m)
<1>1. page \in Nat /\ k \in 2 .. DirEntries - 1 /\ PTX(page) \in TabIndexes /\ k \in DirIndexes
  BY Layout DEF DirIndexes
<1>2. ASSUME NEW n \in MemoryType, NEW text \in PanicTexts \ {"none"}, r = kpanic(n, text)
      PROVE  r \in MemoryType /\ Panicked(r)
  <2> DEFINE m1 == kpanic(n, text)
  <2>1. PanicWritten(n, text, m1)
    BY Kpanic, Zenon
  <2>2. r = m1
    BY <1>2
  <2> HIDE DEF m1
  <2>3. PanicWritten(n, text, r)
    BY <2>1, <2>2
  <2>4. r.panic = text /\ IsMemory(r)
    BY <2>3 DEF PanicWritten
  <2>5. r \in MemoryType
    BY <2>3, <2>4, PartsOfMemory, MemoryOfParts DEF PanicWritten
  <2> QED
    BY <2>4, <2>5 DEF Panicked
<1>3. ASSUME NEW n \in MemoryType, Sound(n, ds), n.bitmap = m.bitmap, n.panic = m.panic,
             SameView(m, n, ds), TablesStay(m, n), n.dir[KDir][k] # NotPresent,
             r = write_table_entry(n, n.dir[KDir][k], PTX(page), page)
      PROVE  /\ r \in MemoryType
             /\ ~Panicked(r) /\ Sound(r, ds)
             /\ r.bitmap = m.bitmap
             /\ PageMapped(m, r, ds, KDir, page, page)
             /\ TablesStay(m, r) /\ r.dir[KDir][k] # NotPresent
  <2> DEFINE m1 == write_table_entry(n, n.dir[KDir][k], PTX(page), page)
  <2>1. TableEntryWritten(n, n.dir[KDir][k], PTX(page), page, m1)
    BY WriteTableEntry, Zenon
  <2>2. r = m1
    BY <1>3
  <2> HIDE DEF m1
  <2>3. TableEntryWritten(n, n.dir[KDir][k], PTX(page), page, r)
    BY <2>1, <2>2
  <2>4. r.dir = n.dir
    BY <2>3 DEF TableEntryWritten
  <2>5. /\ r \in MemoryType /\ Sound(r, ds)
        /\ r.bitmap = n.bitmap /\ r.panic = n.panic
        /\ PageMapped(n, r, ds, KDir, page, page)
    BY <1>1, <1>3, <2>3, WritePage
  <2>6. PageMapped(m, r, ds, KDir, page, page)
    BY <1>1, <1>3, <2>5 DEF PageMapped, SameView
  <2>7. TablesStay(m, r)
    BY <1>3, <2>4 DEF TablesStay
  <2> QED
    BY <1>3, <2>4, <2>5, <2>6, <2>7 DEF Panicked
<1>4. CASE m.dir[KDir][k] # NotPresent
  <2> DEFINE t == m.dir[KDir][k]
  <2>1. r = IF m.tab[t][PTX(page)] # NotPresent THEN kpanic(m, "Page already allocated")
            ELSE write_table_entry(m, t, PTX(page), page)
    BY <1>4 DEF pmm_map_identity
  <2>2. SameView(m, m, ds) /\ TablesStay(m, m)
    BY DEF SameView, TablesStay
  <2>3. CASE m.tab[t][PTX(page)] # NotPresent
    <3>1. r = kpanic(m, "Page already allocated")
      BY <2>1, <2>3
    <3> QED
      BY <3>1, <1>2 DEF PanicTexts
  <2>4. CASE m.tab[t][PTX(page)] = NotPresent
    <3>1. r = write_table_entry(m, t, PTX(page), page)
      BY <2>1, <2>4
    <3> QED
      BY <3>1, <2>2, <1>3, <1>4
  <2> QED
    BY <2>3, <2>4
<1>5. CASE m.dir[KDir][k] = NotPresent /\ a.ret = NULL
  <2>1. r = kpanic(m, "Failed allocate page table")
    BY <1>5 DEF pmm_map_identity
  <2> QED
    BY <2>1, <1>2 DEF PanicTexts
<1>6. CASE m.dir[KDir][k] = NotPresent /\ a.ret # NULL
  <2> DEFINE t == a.ret
             n == a.mem
             m1 == write_directory_entry(n, KDir, k, t)
  <2>1. n \in MemoryType /\ FrameTaken(m, t, n)
    <3>1. a # Result(m, NULL)
      BY <1>6 DEF Result
    <3> QED
      BY <3>1, IntrAlloc
  <2>2. r = IF m1.tab[t][0] # NotPresent THEN kpanic(m1, "Page already allocated")
            ELSE write_table_entry(m1, t, 0, page)
    BY <1>6 DEF pmm_map_identity
  <2>3. DirectoryEntryWritten(n, KDir, k, t, m1)
    BY <2>1, WriteDirectoryEntry, Zenon
  <2>4. m.dir[KDir][k] = NotPresent /\ PTX(page) = 0
    BY <1>6
  <2> HIDE DEF a, t, n, m1
  <2>5. /\ m1 \in MemoryType
        /\ m1.bitmap = m.bitmap /\ m1.panic = m.panic
        /\ m1.dir[KDir][k] = t /\ m1.tab[t] = EmptyTab /\ t \in Frames
        /\ Sound(m1, ds)
        /\ SameView(m, m1, ds) /\ TablesStay(m, m1)
    <3> HIDE DEF k
    <3> QED
      BY <1>1, <2>1, <2>3, <2>4, EnterTable
  <2>6. m1.tab[t][0] = NotPresent
    BY <1>1, <2>4, <2>5 DEF EmptyTab
  <2>7. t # NotPresent
    BY <2>5, Layout DEF Tables
  <2>8. r = write_table_entry(m1, m1.dir[KDir][k], PTX(page), page)
    BY <2>2, <2>4, <2>5, <2>6
  <2> QED
    BY <1>3, <2>5, <2>7, <2>8
<1> QED
  BY <1>4, <1>5, <1>6

\* A memory with the same directories, tables and marked tables is as sound as
\* the other, and translates every address to the same page.
LEMMA SameTables ==
  ASSUME NEW m, NEW n, n.dir = m.dir, n.tab = m.tab, n.intr_bitmap = m.intr_bitmap,
         NEW ds, Sound(m, ds)
  PROVE  /\ Sound(n, ds)
         /\ \A d : Mapped(n, d) = Mapped(m, d)
         /\ \A d, va : vmm_va2pa(n, d, va) = vmm_va2pa(m, d, va)
<1>1. OneUse(n, ds)
  BY DEF Sound, OneUse, OwnTable, FrameMarked
<1>2. KernelTablesClean(n) /\ UserHalves(n)
  BY DEF Sound, KernelTablesClean, UserHalves
<1>3. \A d : Mapped(n, d) = Mapped(m, d)
  BY DEF Mapped
<1>4. \A d, va : vmm_va2pa(n, d, va) = vmm_va2pa(m, d, va)
  BY DEF vmm_va2pa
<1> QED
  BY <1>1, <1>2, <1>3, <1>4 DEF Sound

\* The kernel's directory has a table for every marked page, except for the
\* bits w, which were marked from the start.
MarkedHaveTables(m, w) ==
  \A p \in UserPages : p - PMM_START \in m.bitmap \ w => m.dir[KDir][PDX(p)] # NotPresent

\* w is an end of the bitmap: pages that the memory is smaller by.
LastBits(w) == \A k \in w, j \in Bits : k < j => j \in w

\* pmm_alloc_page returns NULL and changes nothing, or panics, or marks a page
\* that was not marked and maps it at its own address.
LEMMA AllocatedPage ==
  ASSUME NEW m \in MemoryType, NEW ds \in SUBSET Frames, Sound(m, ds), ~Panicked(m),
         NEW w \in SUBSET m.bitmap, LastBits(w), MarkedHaveTables(m, w),
         NEW a, a = pmm_alloc_page(m)
  PROVE  \/ a.ret = NULL /\ a.mem = m
         \/ /\ a.ret \in UserPages /\ a.mem \in MemoryType
            /\ a.ret - PMM_START \notin m.bitmap
            /\ \/ Panicked(a.mem)
               \/ /\ ~Panicked(a.mem) /\ Sound(a.mem, ds)
                  /\ a.mem.bitmap = m.bitmap \union {a.ret - PMM_START}
                  /\ PageMapped(m, a.mem, ds, KDir, a.ret, a.ret)
                  /\ TablesStay(m, a.mem) /\ a.mem.dir[KDir][PDX(a.ret)] # NotPresent
<1> DEFINE v == find_first_page(m.bitmap, PagesCount)
           page == PMM_START + v
           n == bitmap_set(m, v)
           r == pmm_map_identity(n, page)
<1>1. CASE v = -1
  <2>1. a = Result(m, NULL)
    BY <1>1 DEF pmm_alloc_page
  <2> QED
    BY <2>1 DEF Result
<1>2. CASE v # -1
  <2>1. v \in Bits /\ FirstZero(m.bitmap, PagesCount, v)
    BY <1>2, FindFirstPage DEF Bits
  <2>2. page \in UserPages /\ page - PMM_START = v
    BY <2>1, PagesOfBits
  <2>3. a = Result(r, page)
    BY <1>2 DEF pmm_alloc_page
  <2>4. a.ret = page /\ a.mem = r
    BY <2>3 DEF Result
  <2>5. BitSet(m, v, n)
    BY BitmapSet, Zenon
  <2>6. r = pmm_map_identity(n, page)
    OBVIOUS
  <2>7. page = PMM_START + v
    OBVIOUS
  <2> HIDE DEF v, n, r, page
  <2>8. /\ n.bitmap = m.bitmap \union {v} /\ n.intr_bitmap = m.intr_bitmap
        /\ n.panic = m.panic /\ n.dir = m.dir /\ n.tab = m.tab /\ IsMemory(n)
    BY <2>5 DEF BitSet
  <2>9. n \in MemoryType
    BY <2>1, <2>8, PartsOfMemory, MemoryOfParts
  <2>10. /\ Sound(n, ds)
         /\ \A d : Mapped(n, d) = Mapped(m, d)
         /\ \A d, va : vmm_va2pa(n, d, va) = vmm_va2pa(m, d, va)
    BY <2>8, SameTables
  <2>11. ASSUME n.dir[KDir][PDX(page)] = NotPresent
         PROVE  PTX(page) = 0
    <3>1. SUFFICES ASSUME PTX(page) # 0
                   PROVE  FALSE
      OBVIOUS
    <3>2. page \in Nat
      BY <2>2, Layout
    <3>3. PDX(page - 1) = PDX(page)
      BY <3>1, <3>2, SameTableAsPrevious
    <3>4. v # 0
      <4>1. PTX(PMM_START) = 0
        BY LayoutAssumption, SMT DEF PTX, PMM_START, LayoutAssumption
      <4>2. PMM_START \in Nat
        BY Layout DEF PMM_START
      <4> QED
        BY <2>7, <3>1, <4>1, <4>2
    <3>5. v - 1 \in Bits /\ v - 1 \in 0 .. Capacity(PagesCount) - 1 /\ v - 1 < v
      <4>1. Capacity(PagesCount) \in Nat
        BY CapacityBound, LayoutAssumption DEF LayoutAssumption
      <4> QED
        BY <2>1, <3>4, <4>1 DEF Bits
    <3>6. v - 1 \in m.bitmap \ w
      BY <2>1, <3>5 DEF FirstZero, LastBits
    <3>7. page - 1 \in UserPages /\ (page - 1) - PMM_START = v - 1
      <4>1. page - 1 = PMM_START + (v - 1)
        BY <2>1, <2>7, Layout DEF PMM_START
      <4> QED
        BY <3>5, <4>1, PagesOfBits
    <3>8. m.dir[KDir][PDX(page - 1)] # NotPresent
      BY <3>6, <3>7 DEF MarkedHaveTables
    <3> QED
      BY <2>8, <2>11, <3>3, <3>8
  <2>12. /\ r \in MemoryType
         /\ \/ Panicked(r)
            \/ /\ ~Panicked(r) /\ Sound(r, ds)
               /\ r.bitmap = n.bitmap
               /\ PageMapped(n, r, ds, KDir, page, page)
               /\ TablesStay(n, r) /\ r.dir[KDir][PDX(page)] # NotPresent
    <3>1. ~Panicked(n)
      BY <2>8 DEF Panicked
    <3> QED
      BY <2>2, <2>6, <2>9, <2>10, <2>11, <3>1, MapIdentity
  <2>13. ASSUME PageMapped(n, r, ds, KDir, page, page)
         PROVE  PageMapped(m, r, ds, KDir, page, page)
    BY <2>10, <2>13 DEF PageMapped
  <2>14. ASSUME TablesStay(n, r)
         PROVE  TablesStay(m, r)
    BY <2>8, <2>14 DEF TablesStay
  <2>15. v \notin m.bitmap
    BY <2>1 DEF FirstZero
  <2> QED
    BY <2>2, <2>4, <2>8, <2>12, <2>13, <2>14, <2>15
<1> QED
  BY <1>1, <1>2

\* pmm_free_page clears the page's bit.
LEMMA FreedPage ==
  ASSUME NEW m \in MemoryType, NEW p \in UserPages,
         NEW n, n = pmm_free_page(m, p)
  PROVE  BitsCleared(m, {p - PMM_START}, n)
<1>1. ~(p < PMM_START) /\ ~(p - PMM_START >= PagesCount)
  BY Layout, LayoutAssumption DEF PMM_START, LayoutAssumption
<1>2. n = bitmap_clear(m, {p - PMM_START})
  BY <1>1, Zenon DEF pmm_free_page
<1> QED
  BY <1>2, BitmapClear, Zenon

\* Destroying a directory clears the bits of the pages of processes that it maps.
LEMMA DestroyedDirectory ==
  ASSUME NEW m \in MemoryType, NEW d \in Frames,
         NEW n, n = vmm_destroy_user_page_directory(m, d)
  PROVE  BitsCleared(m, {p - PMM_START : p \in Mapped(m, d) \intersect UserPages}, n)
<1> DEFINE freed == {p \in Mapped(m, d) : p >= PMM_START /\ p - PMM_START < PagesCount}
           ks == {p - PMM_START : p \in freed}
<1>1. Mapped(m, d) \subseteq PageNumbers
  <2>1. d \in Directories
    BY DEF Directories
  <2>2. \A k \in DirIndexes : m.dir[d][k] # NotPresent => m.dir[d][k] \in Tables
    BY <2>1 DEF MemoryType
  <2>3. \A t \in Tables, j \in TabIndexes : m.tab[t][j] \in PageNumbers \union {NotPresent}
    BY DEF MemoryType
  <2> QED
    BY <2>2, <2>3 DEF Mapped
<1>2. freed = Mapped(m, d) \intersect UserPages
  <2>1. \A p \in KernelPages : p < PMM_START /\ ~(p >= PMM_START)
    BY Layout DEF KernelPages, PMM_START
  <2> QED
    BY <1>1, <2>1, Layout DEF PageNumbers
<1>3. n = pmm_free_page(bitmap_clear(m, ks), d)
  BY Zenon DEF vmm_destroy_user_page_directory
<1>4. d < PMM_START
  BY Layout DEF PMM_START
<1>5. n = bitmap_clear(m, ks)
  BY <1>3, <1>4, Zenon DEF pmm_free_page
<1>6. BitsCleared(m, ks, n)
  <2> HIDE DEF ks
  <2> QED
    BY <1>5, BitmapClear, Zenon
<1> QED
  BY <1>2, <1>6

\* The directory that maps the kernel and nothing else.
LEMMA KernelHalfShape ==
  /\ KernelHalf \in [DirIndexes -> Tables \union {NotPresent}]
  /\ \A v \in DirIndexes : KernelHalf[v] \in {KTab1, KTab2, NotPresent}
  /\ \A v \in DirIndexes : v >= 2 => KernelHalf[v] = NotPresent
<1>1. 0 \in DirIndexes /\ 1 \in DirIndexes
  BY LayoutAssumption DEF DirIndexes, LayoutAssumption
<1>2. \A v \in DirIndexes :
        KernelHalf[v] = IF v = 0 THEN KTab1 ELSE IF v = 1 THEN KTab2 ELSE NotPresent
  BY <1>1 DEF KernelHalf, EmptyDir
<1>3. KernelHalf \in [DirIndexes -> Tables \union {NotPresent}]
  BY <1>1 DEF KernelHalf, EmptyDir, Tables
<1>4. \A v \in DirIndexes : v >= 2 => v # 0 /\ v # 1
  OBVIOUS
<1> QED
  BY <1>2, <1>3, <1>4

\* A new directory maps the kernel and no page of a process.
LEMMA CreatedDirectory ==
  ASSUME NEW m \in MemoryType, NEW ds \in SUBSET Frames, Sound(m, ds),
         NEW a, a = vmm_create_user_page_directory(m)
  PROVE  \/ a.ret = NULL /\ a.mem = m
         \/ /\ a.ret \in Frames \ ds /\ a.mem \in MemoryType
            /\ a.mem.bitmap = m.bitmap /\ a.mem.panic = m.panic
            /\ Sound(a.mem, ds \union {a.ret})
            /\ SameView(m, a.mem, ds) /\ TablesStay(m, a.mem)
            /\ Mapped(a.mem, a.ret) \intersect UserPages = {}
            /\ \A x \in Nat : PDX(x) \in 2 .. DirEntries - 1 => vmm_va2pa(a.mem, a.ret, x) = NULL
<1> DEFINE b == pmm_intr_alloc_page(m)
           f == b.ret
           n == b.mem
           r == write_page_directory(n, f, KernelHalf)
<1>1. CASE b.ret = NULL
  <2>1. a = b
    BY <1>1 DEF vmm_create_user_page_directory
  <2>2. b = Result(m, NULL) \/ FrameTaken(m, b.ret, b.mem)
    BY IntrAlloc
  <2>3. NULL \notin Frames
    BY Layout DEF Tables
  <2> QED
    BY <1>1, <2>1, <2>2, <2>3 DEF Result, FrameTaken
<1>2. CASE b.ret # NULL
  <2>1. n \in MemoryType /\ FrameTaken(m, f, n)
    <3>1. b # Result(m, NULL)
      BY <1>2 DEF Result
    <3> QED
      BY <3>1, IntrAlloc
  <2>2. a.ret = f /\ a.mem = r
    <3>1. a = Result(r, f)
      BY <1>2 DEF vmm_create_user_page_directory
    <3> QED
      BY <3>1 DEF Result
  <2>3. DirectoryWritten(n, f, KernelHalf, r)
    BY <2>1, WritePageDirectory, Zenon
  <2> HIDE DEF b, f, n, r
  <2>4. /\ f \in Frames /\ ~FrameMarked(m, f)
        /\ r.bitmap = m.bitmap /\ r.panic = m.panic
        /\ r.intr_bitmap = m.intr_bitmap \union {f - PMM_INTR_START}
        /\ n.dir = [m.dir EXCEPT ![f] = EmptyDir]
        /\ r.dir = [n.dir EXCEPT ![f] = KernelHalf]
        /\ r.tab = [m.tab EXCEPT ![f] = EmptyTab]
        /\ IsMemory(r)
    BY <2>1, <2>3 DEF FrameTaken, DirectoryWritten
  <2>5. /\ m.dir \in [Directories -> [DirIndexes -> Tables \union {NotPresent}]]
        /\ n.dir \in [Directories -> [DirIndexes -> Tables \union {NotPresent}]]
        /\ m.tab \in [Tables -> [TabIndexes -> PageNumbers \union {NotPresent}]]
    BY <2>1 DEF MemoryType
  <2>6. /\ KernelHalf \in [DirIndexes -> Tables \union {NotPresent}]
        /\ \A v \in DirIndexes : KernelHalf[v] \in {KTab1, KTab2, NotPresent}
        /\ \A v \in DirIndexes : v >= 2 => KernelHalf[v] = NotPresent
    BY KernelHalfShape
  <2>7. r \in MemoryType
    <3>1. r.dir \in [Directories -> [DirIndexes -> Tables \union {NotPresent}]]
      BY <2>4, <2>5, <2>6 DEF Directories
    <3>2. r.tab = n.tab /\ r.intr_bitmap = n.intr_bitmap /\ r.bitmap = n.bitmap /\ r.panic = n.panic
      BY <2>3 DEF DirectoryWritten
    <3> QED
      BY <2>1, <2>4, <3>1, <3>2, PartsOfMemory, MemoryOfParts
  <2>8. /\ f \notin ds /\ f \in Directories /\ f \in Tables
        /\ f \notin {KDir, KTab1, KTab2, NotPresent}
    BY <2>4, Layout DEF Sound, OneUse, Directories, Tables
  <2>9. /\ r.dir[f] = KernelHalf
        /\ \A e \in Directories \ {f} : r.dir[e] = m.dir[e]
        /\ r.tab[f] = EmptyTab
        /\ \A t \in Tables \ {f} : r.tab[t] = m.tab[t]
    BY <2>4, <2>5, <2>8
  <2>10. \A e \in Directories, v \in DirIndexes : m.dir[e][v] # f
    BY <2>4, <2>8 DEF Sound, OneUse, OwnTable
  <2>11. /\ FrameMarked(r, f)
         /\ \A g : FrameMarked(m, g) => FrameMarked(r, g)
    BY <2>4 DEF FrameMarked
  <2>12. OneUse(r, ds \union {f})
    <3>1. \A e \in ds \union {f} : FrameMarked(r, e)
      BY <2>11 DEF Sound, OneUse
    <3>2. ASSUME NEW e \in Directories, NEW v \in DirIndexes, OwnTable(r, e, v)
          PROVE  /\ FrameMarked(r, r.dir[e][v])
                 /\ r.dir[e][v] \notin ds \union {f}
                 /\ \A g \in Directories, l \in DirIndexes :
                      r.dir[g][l] = r.dir[e][v] => g = e /\ l = v
      <4>1. e # f
        BY <2>6, <2>9, <3>2 DEF OwnTable
      <4>2. r.dir[e][v] = m.dir[e][v] /\ OwnTable(m, e, v)
        BY <2>9, <3>2, <4>1 DEF OwnTable
      <4>3. /\ FrameMarked(m, m.dir[e][v])
            /\ m.dir[e][v] \notin ds
            /\ \A g \in Directories, l \in DirIndexes :
                 m.dir[g][l] = m.dir[e][v] => g = e /\ l = v
        BY <4>2 DEF Sound, OneUse
      <4>4. ASSUME NEW g \in Directories, NEW l \in DirIndexes, r.dir[g][l] = m.dir[e][v]
            PROVE  g = e /\ l = v
        <5>1. g # f
          BY <2>6, <2>9, <4>2, <4>4 DEF OwnTable
        <5> QED
          BY <2>9, <4>3, <4>4, <5>1
      <4> QED
        BY <2>10, <2>11, <4>2, <4>3, <4>4
    <3> QED
      BY <3>1, <3>2 DEF OneUse
  <2>13. KernelTablesClean(r)
    BY <2>8, <2>9 DEF Sound, KernelTablesClean, Tables
  <2>14. UserHalves(r)
    <3>1. NotPresent \notin {KTab1, KTab2}
      BY Layout DEF Tables
    <3>2. ASSUME NEW e \in Directories, NEW v \in DirIndexes, v >= 2
          PROVE  r.dir[e][v] \notin {KTab1, KTab2}
      <4>1. CASE e = f
        BY <2>6, <2>9, <3>1, <3>2, <4>1
      <4>2. CASE e # f
        BY <2>9, <3>2, <4>2 DEF Sound, UserHalves
      <4> QED
        BY <4>1, <4>2
    <3> QED
      BY <3>2 DEF UserHalves
  <2>15. ASSUME NEW e \in ds \union {KDir}
         PROVE  /\ e \in Directories \ {f} /\ r.dir[e] = m.dir[e]
                /\ \A v \in DirIndexes : m.dir[e][v] # NotPresent =>
                     m.dir[e][v] \in Tables /\ r.tab[m.dir[e][v]] = m.tab[m.dir[e][v]]
    <3>1. e \in Directories \ {f}
      BY <2>8 DEF Directories
    <3> QED
      BY <2>5, <2>9, <2>10, <3>1
  <2>16. SameView(m, r, ds)
    <3>1. ASSUME NEW e \in ds \union {KDir}, NEW q \in UserPages
          PROVE  q \in Mapped(r, e) <=> q \in Mapped(m, e)
      BY <2>15, MappedPage
    <3>2. ASSUME NEW e \in ds \union {KDir}, NEW x \in Nat, PDX(x) \in DirIndexes
          PROVE  vmm_va2pa(r, e, x) = vmm_va2pa(m, e, x)
      BY <2>15, <3>2 DEF vmm_va2pa
    <3> QED
      BY <3>1, <3>2 DEF SameView
  <2>17. TablesStay(m, r)
    BY <2>15 DEF TablesStay
  <2>18. Mapped(r, f) \intersect UserPages = {}
    <3>1. ASSUME NEW q \in UserPages, q \in Mapped(r, f)
          PROVE  FALSE
      <4>1. PICK v \in DirIndexes, j \in TabIndexes :
              r.dir[f][v] # NotPresent /\ r.tab[r.dir[f][v]][j] = q
        BY <3>1, MappedPage
      <4>2. r.dir[f][v] \in {KTab1, KTab2}
        BY <2>6, <2>9, <4>1
      <4> QED
        BY <2>13, <4>1, <4>2 DEF KernelTablesClean
    <3> QED
      BY <3>1
  <2>19. ASSUME NEW x \in Nat, PDX(x) \in 2 .. DirEntries - 1
         PROVE  vmm_va2pa(r, f, x) = NULL
    <3>1. PDX(x) \in DirIndexes /\ PDX(x) >= 2
      BY <2>19, Layout DEF DirIndexes
    <3> QED
      BY <2>6, <2>9, <3>1 DEF vmm_va2pa
  <2> QED
    BY <2>2, <2>4, <2>7, <2>8, <2>12, <2>13, <2>14, <2>16, <2>17, <2>18, <2>19 DEF Sound
<1> QED
  BY <1>1, <1>2

-----------------------------------------------------------------------------
(* The memory that pmm_init and vmm_init leave behind *)

\* It is a memory.
LEMMA InitialMemoryType == InitialMemory \in MemoryType
<1>1. KernelHalf \in [DirIndexes -> Tables \union {NotPresent}]
  BY KernelHalfShape
<1>2. EmptyDir \in [DirIndexes -> Tables \union {NotPresent}]
  BY DEF EmptyDir
<1>3. \A j \in TabIndexes : j \in KernelPages /\ Entries + j \in KernelPages
  BY Layout DEF TabIndexes, KernelPages, PMM_START
<1>4. InitialMemory.dir \in [Directories -> [DirIndexes -> Tables \union {NotPresent}]]
  BY <1>1, <1>2 DEF InitialMemory
<1>5. EmptyTab \in [TabIndexes -> PageNumbers \union {NotPresent}]
  BY DEF EmptyTab
<1>6. InitialMemory.tab \in [Tables -> [TabIndexes -> PageNumbers \union {NotPresent}]]
  BY <1>3, <1>5 DEF InitialMemory, PageNumbers
<1> QED
  BY <1>4, <1>6 DEF InitialMemory, MemoryType, PanicTexts

\* Nothing is mapped outside the kernel, whatever is marked.
LEMMA InitialTables ==
  ASSUME NEW m, m.dir = InitialMemory.dir, m.tab = InitialMemory.tab
  PROVE  Sound(m, {})
<1>1. /\ \A v \in DirIndexes : KernelHalf[v] \in {KTab1, KTab2, NotPresent}
      /\ \A v \in DirIndexes : v >= 2 => KernelHalf[v] = NotPresent
  BY KernelHalfShape
<1>2. \A d \in Directories : m.dir[d] = IF d = KDir THEN KernelHalf ELSE EmptyDir
  BY DEF InitialMemory
<1>3. \A d \in Directories, v \in DirIndexes : ~OwnTable(m, d, v)
  BY <1>1, <1>2 DEF OwnTable, EmptyDir
<1>4. \A d \in Directories, v \in DirIndexes : v >= 2 => m.dir[d][v] = NotPresent
  BY <1>1, <1>2 DEF EmptyDir
<1>5. KernelTablesClean(m)
  <2>1. \A j \in TabIndexes : m.tab[KTab1][j] = j /\ m.tab[KTab2][j] = Entries + j
    BY LayoutAssumption DEF InitialMemory, Tables, LayoutAssumption
  <2>2. \A p \in KernelPages : p \notin UserPages
    BY Layout DEF KernelPages, PMM_START
  <2>3. \A j \in TabIndexes : j \in KernelPages /\ Entries + j \in KernelPages
    BY Layout DEF TabIndexes, KernelPages, PMM_START
  <2> QED
    BY <2>1, <2>2, <2>3 DEF KernelTablesClean
<1>6. NotPresent \notin {KTab1, KTab2}
  BY Layout DEF Tables
<1> QED
  BY <1>3, <1>4, <1>5, <1>6 DEF Sound, OneUse, UserHalves

-----------------------------------------------------------------------------
(* Marks *)

\* A page is marked if and only if its bit is set.
LEMMA MarkedPage ==
  ASSUME NEW m, m.bitmap \in SUBSET Bits
  PROVE  /\ Marked(m) \in SUBSET UserPages
         /\ \A p \in UserPages : p \in Marked(m) <=> p - PMM_START \in m.bitmap
<1>1. Marked(m) \in SUBSET UserPages
  BY DEF Marked, UserPages
<1>2. ASSUME NEW p \in UserPages
      PROVE  p \in Marked(m) <=> p - PMM_START \in m.bitmap
  <2>1. PMM_START \in Nat /\ p \in Nat
    BY Layout DEF PMM_START
  <2>2. p = PMM_START + (p - PMM_START)
    BY <2>1
  <2>3. \A v \in m.bitmap : v \in Bits /\ v \in Nat
    BY Layout
  <2>4. \A v \in m.bitmap : p = PMM_START + v => v = p - PMM_START
    BY <2>1, <2>3
  <2> QED
    BY <2>2, <2>4 DEF Marked
<1> QED
  BY <1>1, <1>2

\* Two pages have two bits.
LEMMA BitsDiffer == \A p, q \in UserPages : p - PMM_START = q - PMM_START => p = q
BY Layout DEF PMM_START

\* Setting the bit of a page marks that page.
LEMMA MarkedAfterSet ==
  ASSUME NEW m, m.bitmap \in SUBSET Bits, NEW n, n.bitmap \in SUBSET Bits,
         NEW p \in UserPages, n.bitmap = m.bitmap \union {p - PMM_START}
  PROVE  Marked(n) = Marked(m) \union {p}
BY BitsDiffer, MarkedPage

\* Clearing the bits of pages takes the mark from these pages only.
LEMMA MarkedAfterClear ==
  ASSUME NEW m, m.bitmap \in SUBSET Bits, NEW n,
         NEW ps \in SUBSET UserPages, BitsCleared(m, {p - PMM_START : p \in ps}, n)
  PROVE  Marked(n) = Marked(m) \ ps
<1>1. \A q \in UserPages : q - PMM_START \in {p - PMM_START : p \in ps} <=> q \in ps
  BY BitsDiffer
<1>2. n.bitmap = m.bitmap \ {p - PMM_START : p \in ps}
  BY DEF BitsCleared
<1>3. n.bitmap \in SUBSET Bits
  BY <1>2
<1> QED
  BY <1>1, <1>2, <1>3, MarkedPage

-----------------------------------------------------------------------------
(* The address spaces of processes *)

\* The pages outside the kernel that directory d maps.
UserPagesOf(m, d) == Mapped(m, d) \intersect UserPages

\* Directory d maps page st as its stack and page co as its code, and nothing
\* else outside the kernel.
HasSpace(m, d, st, co) ==
  /\ d \in Frames /\ st \in UserPages /\ co \in UserPages /\ st # co
  /\ vmm_va2pa(m, d, KERNEL_STACK_BASE) = st
  /\ vmm_va2pa(m, d, USER_PROGRAM_BASE) = co
  /\ UserPagesOf(m, d) = {st, co}

\* The directories of ds map what they did.
SameSpaces(m, n, ds) ==
  \A e \in ds : /\ UserPagesOf(n, e) = UserPagesOf(m, e)
                /\ \A x \in Nat : PDX(x) \in DirIndexes => vmm_va2pa(n, e, x) = vmm_va2pa(m, e, x)

\* The two addresses that process_create maps.
LEMMA Bases ==
  /\ KERNEL_STACK_BASE \in Nat /\ USER_PROGRAM_BASE \in Nat
  /\ KERNEL_STACK_BASE # USER_PROGRAM_BASE
  /\ PDX(KERNEL_STACK_BASE) \in 2 .. DirEntries - 1 /\ PDX(KERNEL_STACK_BASE) \in DirIndexes
  /\ PDX(USER_PROGRAM_BASE) \in 2 .. DirEntries - 1 /\ PDX(USER_PROGRAM_BASE) \in DirIndexes
BY LayoutAssumption DEF LayoutAssumption, DirIndexes

\* SameSpaces is what SameView says of the directories of processes.
LEMMA SpacesOfView ==
  ASSUME NEW m, NEW n, NEW ds, SameView(m, n, ds)
  PROVE  SameSpaces(m, n, ds)
BY DEF SameView, SameSpaces, UserPagesOf

\* Two steps that leave the spaces alone leave them alone together.
LEMMA SameSpacesTwice ==
  ASSUME NEW m, NEW n, NEW o, NEW ds, SameSpaces(m, n, ds), SameSpaces(n, o, ds)
  PROVE  SameSpaces(m, o, ds)
BY DEF SameSpaces

\* A space that a step leaves alone is still one.
LEMMA SpaceStays ==
  ASSUME NEW m, NEW n, NEW ds, SameSpaces(m, n, ds),
         NEW d \in ds, NEW st, NEW co, HasSpace(m, d, st, co)
  PROVE  HasSpace(n, d, st, co)
BY Bases DEF SameSpaces, HasSpace

-----------------------------------------------------------------------------
(* Taking marks back *)

\* n is m with the pages ps free.
Freed(m, n, ps) ==
  /\ n \in MemoryType
  /\ n.dir = m.dir /\ n.tab = m.tab /\ n.intr_bitmap = m.intr_bitmap /\ n.panic = m.panic
  /\ n.bitmap \subseteq m.bitmap
  /\ Marked(n) = Marked(m) \ ps

\* Clearing the bits of pages frees these pages.
LEMMA FreedByBits ==
  ASSUME NEW m \in MemoryType, NEW ps \in SUBSET UserPages,
         NEW n, BitsCleared(m, {p - PMM_START : p \in ps}, n)
  PROVE  Freed(m, n, ps)
<1>1. m.bitmap \in SUBSET Bits
  BY PartsOfMemory
<1>2. Marked(n) = Marked(m) \ ps
  BY <1>1, MarkedAfterClear
<1>3. n \in MemoryType
  BY PartsOfMemory, MemoryOfParts DEF BitsCleared
<1> QED
  BY <1>2, <1>3 DEF Freed, BitsCleared

\* pmm_free_page frees its page, and
LEMMA FreedByFreePage ==
  ASSUME NEW m \in MemoryType, NEW p \in UserPages
  PROVE  Freed(m, pmm_free_page(m, p), {p})
<1> DEFINE n == pmm_free_page(m, p)
<1>1. BitsCleared(m, {p - PMM_START}, n)
  BY FreedPage, Zenon
<1> HIDE DEF n
<1>2. {q - PMM_START : q \in {p}} = {p - PMM_START}
  OBVIOUS
<1>3. Freed(m, n, {p})
  BY <1>1, <1>2, FreedByBits
<1> QED
  BY <1>3 DEF n

\* destroying a directory frees the pages that it maps.
LEMMA FreedByDestroy ==
  ASSUME NEW m \in MemoryType, NEW d \in Frames
  PROVE  Freed(m, vmm_destroy_user_page_directory(m, d), UserPagesOf(m, d))
<1> DEFINE n == vmm_destroy_user_page_directory(m, d)
<1>1. BitsCleared(m, {p - PMM_START : p \in UserPagesOf(m, d)}, n)
  BY DestroyedDirectory, Zenon DEF UserPagesOf
<1> HIDE DEF n
<1>2. UserPagesOf(m, d) \in SUBSET UserPages
  BY DEF UserPagesOf
<1>3. Freed(m, n, UserPagesOf(m, d))
  BY <1>1, <1>2, FreedByBits
<1> QED
  BY <1>3 DEF n

\* What is freed in two steps is freed.
LEMMA FreedTwice ==
  ASSUME NEW m, NEW n, NEW o, NEW ps, NEW qs, Freed(m, n, ps), Freed(n, o, qs)
  PROVE  Freed(m, o, ps \union qs)
BY DEF Freed

\* Freeing pages changes no directory and no table.
LEMMA FreedKeepsSpaces ==
  ASSUME NEW m, NEW n, NEW ps, Freed(m, n, ps), NEW ds, Sound(m, ds)
  PROVE  /\ Sound(n, ds)
         /\ \A d : UserPagesOf(n, d) = UserPagesOf(m, d)
         /\ \A d, va : vmm_va2pa(n, d, va) = vmm_va2pa(m, d, va)
         /\ \A es : SameSpaces(m, n, es)
<1>1. /\ Sound(n, ds)
      /\ \A d : Mapped(n, d) = Mapped(m, d)
      /\ \A d, va : vmm_va2pa(n, d, va) = vmm_va2pa(m, d, va)
  BY SameTables DEF Freed
<1> QED
  BY <1>1 DEF UserPagesOf, SameSpaces

\* Two memories with the same marked pages have the same bits.
LEMMA BitsOfMarked ==
  ASSUME NEW m, m.bitmap \in SUBSET Bits, NEW n, n.bitmap \in SUBSET Bits, Marked(m) = Marked(n)
  PROVE  m.bitmap = n.bitmap
<1>1. ASSUME NEW k \in Bits
      PROVE  k \in m.bitmap <=> k \in n.bitmap
  <2>1. PMM_START + k \in UserPages /\ (PMM_START + k) - PMM_START = k
    BY PagesOfBits
  <2> QED
    BY <2>1, MarkedPage
<1> QED
  BY <1>1

-----------------------------------------------------------------------------
(* process_create, step by step *)

\* So far process_create has made n of m: the directory d is new, the pages ps
\* are taken, and d maps the pages qs.
Building(m, n, ds, w, d, ps, qs) ==
  /\ n \in MemoryType /\ ~Panicked(n)
  /\ d \in Frames \ ds /\ Sound(n, ds \union {d})
  /\ SameSpaces(m, n, ds)
  /\ MarkedHaveTables(n, w) /\ w \in SUBSET n.bitmap
  /\ ps \in SUBSET UserPages /\ qs \subseteq ps
  /\ Marked(n) = Marked(m) \union ps /\ ps \intersect Marked(m) = {}
  /\ UserPagesOf(n, d) = qs

\* It has failed, and no page is marked that was not.
GivenBack(m, n, ds, w) ==
  /\ n \in MemoryType /\ ~Panicked(n)
  /\ Sound(n, ds) /\ SameSpaces(m, n, ds)
  /\ MarkedHaveTables(n, w) /\ n.bitmap = m.bitmap

\* It has succeeded, with stack st and code co.
NewSpace(m, n, ds, w, d, st, co) ==
  /\ Building(m, n, ds, w, d, {st, co}, {st, co})
  /\ HasSpace(n, d, st, co)

\* What process_create makes of m in the end.
Built(m, ds, w, b) ==
  /\ b.mem \in MemoryType
  /\ b.page_directory \in Frames \union {NULL}
  /\ b.kernel_stack \in UserPages \union {NULL}
  /\ \/ b.ok = FALSE /\ Panicked(b.mem)
     \/ b.ok = FALSE /\ GivenBack(m, b.mem, ds, w)
     \/ b.ok = TRUE /\ \E co \in UserPages :
          NewSpace(m, b.mem, ds, w, b.page_directory, b.kernel_stack, co)

\* A memory on which process_create can be called.
Usable(m, ds, w) ==
  /\ m \in MemoryType /\ ~Panicked(m)
  /\ ds \in SUBSET Frames /\ Sound(m, ds)
  /\ w \in SUBSET m.bitmap /\ LastBits(w) /\ MarkedHaveTables(m, w)

\* A sound memory is sound for fewer directories.
LEMMA SoundForFewer ==
  ASSUME NEW m, NEW ds, NEW es, es \subseteq ds, Sound(m, ds)
  PROVE  Sound(m, es)
BY DEF Sound, OneUse

\* When the pages that were taken are freed, the memory is as it was before.
LEMMA GiveBack ==
  ASSUME NEW m, NEW n, NEW o, NEW ds, NEW w, NEW d, NEW ps, NEW qs,
         m \in MemoryType, w \in SUBSET m.bitmap,
         Building(m, n, ds, w, d, ps, qs), Freed(n, o, ps)
  PROVE  GivenBack(m, o, ds, w)
<1>1. Sound(n, ds \union {d}) /\ SameSpaces(m, n, ds)
  BY DEF Building
<1>2. Sound(n, ds)
  BY <1>1, SoundForFewer
<1>3. Sound(o, ds) /\ SameSpaces(n, o, ds)
  BY <1>2, FreedKeepsSpaces
<1>4. SameSpaces(m, o, ds)
  BY <1>1, <1>3, SameSpacesTwice
<1>5. Marked(o) = Marked(m)
  BY DEF Building, Freed
<1>6. m.bitmap \in SUBSET Bits /\ o.bitmap \in SUBSET Bits
  BY PartsOfMemory DEF Freed
<1>7. o.bitmap = m.bitmap
  BY <1>5, <1>6, BitsOfMarked
<1>8. MarkedHaveTables(o, w)
  BY DEF Building, Freed, MarkedHaveTables
<1>9. ~Panicked(o) /\ o \in MemoryType
  BY DEF Building, Freed, Panicked
<1> QED
  BY <1>3, <1>4, <1>7, <1>8, <1>9 DEF GivenBack

\* A page that is taken is marked and mapped in the kernel's directory only.
LEMMA TakePage ==
  ASSUME NEW m, NEW n, NEW ds, NEW w, NEW d, NEW ps, NEW qs,
         Usable(m, ds, w), Building(m, n, ds, w, d, ps, qs),
         NEW a, a = pmm_alloc_page(n)
  PROVE  \/ a.ret = NULL /\ a.mem = n
         \/ a.ret \in UserPages /\ a.mem \in MemoryType /\ Panicked(a.mem)
         \/ /\ a.ret \in UserPages \ ps
            /\ Building(m, a.mem, ds, w, d, ps \union {a.ret}, qs)
            /\ \A x \in Nat : PDX(x) \in DirIndexes => vmm_va2pa(a.mem, d, x) = vmm_va2pa(n, d, x)
<1> DEFINE es == ds \union {d}
           p == a.ret
           o == a.mem
<1>1. /\ n \in MemoryType /\ ~Panicked(n) /\ d \in Frames \ ds
      /\ es \in SUBSET Frames /\ Sound(n, es)
      /\ MarkedHaveTables(n, w) /\ w \in SUBSET n.bitmap /\ LastBits(w)
  BY DEF Building, Usable
<1> HIDE DEF es
<1>2. \/ p = NULL /\ o = n
      \/ /\ p \in UserPages /\ o \in MemoryType
         /\ p - PMM_START \notin n.bitmap
         /\ \/ Panicked(o)
            \/ /\ ~Panicked(o) /\ Sound(o, es)
               /\ o.bitmap = n.bitmap \union {p - PMM_START}
               /\ PageMapped(n, o, es, KDir, p, p)
               /\ TablesStay(n, o) /\ o.dir[KDir][PDX(p)] # NotPresent
  BY <1>1, AllocatedPage
<1>3. SUFFICES ASSUME /\ p \in UserPages /\ o \in MemoryType
                      /\ p - PMM_START \notin n.bitmap
                      /\ ~Panicked(o) /\ Sound(o, es)
                      /\ o.bitmap = n.bitmap \union {p - PMM_START}
                      /\ PageMapped(n, o, es, KDir, p, p)
                      /\ TablesStay(n, o) /\ o.dir[KDir][PDX(p)] # NotPresent
               PROVE  /\ p \in UserPages \ ps
                      /\ Building(m, o, ds, w, d, ps \union {p}, qs)
                      /\ \A x \in Nat : PDX(x) \in DirIndexes => vmm_va2pa(o, d, x) = vmm_va2pa(n, d, x)
  BY <1>2
<1> HIDE DEF p, o
<1>4. n.bitmap \in SUBSET Bits /\ o.bitmap \in SUBSET Bits
  BY <1>1, <1>3, PartsOfMemory
<1>5. Marked(o) = Marked(n) \union {p} /\ p \notin Marked(n)
  BY <1>3, <1>4, MarkedAfterSet, MarkedPage
<1>6. p \notin ps /\ p \notin Marked(m)
  BY <1>5 DEF Building
<1>7. KDir \notin es
  BY <1>1, Layout
<1>8. SameSpaces(n, o, es)
  BY <1>3, <1>7 DEF PageMapped, SameSpaces, UserPagesOf
<1>9. SameSpaces(m, o, ds)
  <2>1. SameSpaces(n, o, ds)
    BY <1>8 DEF SameSpaces, es
  <2> QED
    BY <2>1, SameSpacesTwice DEF Building
<1>10. MarkedHaveTables(o, w)
  <2>1. ASSUME NEW q \in UserPages, q - PMM_START \in o.bitmap \ w
        PROVE  o.dir[KDir][PDX(q)] # NotPresent
    <3>1. PDX(q) \in DirIndexes
      BY Layout DEF DirIndexes
    <3>2. CASE q - PMM_START \in n.bitmap
      BY <1>1, <1>3, <2>1, <3>1, <3>2 DEF MarkedHaveTables, TablesStay
    <3>3. CASE q - PMM_START = p - PMM_START
      BY <1>3, <3>3, BitsDiffer
    <3> QED
      BY <1>3, <2>1, <3>2, <3>3
  <2> QED
    BY <2>1 DEF MarkedHaveTables
<1>11. w \in SUBSET o.bitmap
  BY <1>1, <1>3
<1>12. d \in es
  BY DEF es
<1>13. /\ UserPagesOf(o, d) = qs
       /\ \A x \in Nat : PDX(x) \in DirIndexes => vmm_va2pa(o, d, x) = vmm_va2pa(n, d, x)
  BY <1>8, <1>12 DEF SameSpaces, Building
<1>14. Building(m, o, ds, w, d, ps \union {p}, qs)
  BY <1>1, <1>3, <1>5, <1>6, <1>9, <1>10, <1>11, <1>13 DEF Building, es
<1> QED
  BY <1>3, <1>6, <1>13, <1>14

\* vmm_mappage has failed and changed nothing, or page p is mapped at va in d.
MapResult(m, n, ds, w, d, ps, qs, va, p, r) ==
  \/ r.ret = -1 /\ r.mem = n
  \/ /\ r.ret = 0
     /\ Building(m, r.mem, ds, w, d, ps, qs \union {p})
     /\ vmm_va2pa(r.mem, d, va) = p
     /\ \A x \in Nat : PDX(x) \in DirIndexes /\ x # va =>
          vmm_va2pa(r.mem, d, x) = vmm_va2pa(n, d, x)

\* A page that is mapped in the new directory is mapped nowhere else.
LEMMA MapTaken ==
  ASSUME NEW m, NEW n, NEW ds, NEW w, NEW d, NEW ps, NEW qs,
         Usable(m, ds, w), Building(m, n, ds, w, d, ps, qs),
         NEW va, va \in Nat, PDX(va) \in 2 .. DirEntries - 1, vmm_va2pa(n, d, va) = NULL,
         NEW p, p \in ps,
         NEW r, r = vmm_mappage(n, d, va, p)
  PROVE  MapResult(m, n, ds, w, d, ps, qs, va, p, r)
<1> DEFINE es == ds \union {d}
           o == r.mem
<1>1. /\ n \in MemoryType /\ ~Panicked(n) /\ d \in Frames \ ds
      /\ es \in SUBSET Frames /\ Sound(n, es) /\ p \in UserPages /\ d \in es \union {KDir}
  BY DEF Building, Usable
<1> HIDE DEF es
<1>2. \/ r.ret = -1 /\ o = n
      \/ /\ r.ret = 0 /\ o \in MemoryType /\ Sound(o, es)
         /\ o.bitmap = n.bitmap /\ o.panic = n.panic
         /\ PageMapped(n, o, es, d, va, p)
         /\ TablesStay(n, o)
  BY <1>1, Mappage
<1>3. SUFFICES ASSUME /\ r.ret = 0 /\ o \in MemoryType /\ Sound(o, es)
                      /\ o.bitmap = n.bitmap /\ o.panic = n.panic
                      /\ PageMapped(n, o, es, d, va, p)
                      /\ TablesStay(n, o)
               PROVE  /\ Building(m, o, ds, w, d, ps, qs \union {p})
                      /\ vmm_va2pa(o, d, va) = p
                      /\ \A x \in Nat : PDX(x) \in DirIndexes /\ x # va =>
                           vmm_va2pa(o, d, x) = vmm_va2pa(n, d, x)
  BY <1>2 DEF MapResult
<1> HIDE DEF o
<1>4. SameSpaces(n, o, ds)
  <2>1. d \notin ds
    BY <1>1
  <2> QED
    BY <1>3, <2>1 DEF PageMapped, SameSpaces, UserPagesOf, es
<1>5. SameSpaces(m, o, ds)
  BY <1>4, SameSpacesTwice DEF Building
<1>6. Marked(o) = Marked(n)
  BY <1>3 DEF Marked
<1>7. MarkedHaveTables(o, w)
  <2>1. ASSUME NEW q \in UserPages
        PROVE  PDX(q) \in DirIndexes
    BY Layout DEF DirIndexes
  <2> QED
    BY <1>3, <2>1 DEF Building, MarkedHaveTables, TablesStay
<1>8. UserPagesOf(o, d) = qs \union {p}
  BY <1>3 DEF PageMapped, UserPagesOf, Building
<1>9. Building(m, o, ds, w, d, ps, qs \union {p})
  <2>1. ~Panicked(o)
    BY <1>1, <1>3 DEF Panicked
  <2>2. Sound(o, ds \union {d})
    BY <1>3 DEF es
  <2> QED
    BY <1>3, <1>5, <1>6, <1>7, <1>8, <2>1, <2>2 DEF Building
<1>10. /\ vmm_va2pa(o, d, va) = p
       /\ \A x \in Nat : PDX(x) \in DirIndexes /\ x # va =>
            vmm_va2pa(o, d, x) = vmm_va2pa(n, d, x)
  BY <1>1, <1>3 DEF PageMapped
<1> QED
  BY <1>9, <1>10

\* What is undone frees the stack and what the directory maps.
LEMMA UndoFrees ==
  ASSUME NEW n \in MemoryType, NEW d \in Frames, NEW st \in UserPages, NEW ds, Sound(n, ds)
  PROVE  Freed(n, Undo(n, d, st), UserPagesOf(n, d) \union {st})
<1> DEFINE o == pmm_free_page(n, st)
<1>1. Freed(n, o, {st})
  BY FreedByFreePage
<1>2. Undo(n, d, st) = vmm_destroy_user_page_directory(o, d)
  BY DEF Undo
<1> HIDE DEF o
<1>3. UserPagesOf(o, d) = UserPagesOf(n, d) /\ o \in MemoryType
  BY <1>1, FreedKeepsSpaces DEF Freed
<1>4. Freed(o, Undo(n, d, st), UserPagesOf(n, d))
  BY <1>2, <1>3, FreedByDestroy
<1>5. Freed(n, Undo(n, d, st), {st} \union UserPagesOf(n, d))
  BY <1>1, <1>4, FreedTwice
<1>6. {st} \union UserPagesOf(n, d) = UserPagesOf(n, d) \union {st}
  OBVIOUS
<1> QED
  BY <1>5, <1>6

\* A step that fails after the stack was taken gives back the stack, and
LEMMA FailsWithStack ==
  ASSUME NEW m, NEW n, NEW ds, NEW w, NEW d, NEW ps, NEW qs, NEW st \in UserPages,
         Usable(m, ds, w), Building(m, n, ds, w, d, ps, qs), ps = qs \union {st}
  PROVE  /\ Freed(n, Undo(n, d, st), ps)
         /\ Built(m, ds, w, Space(Undo(n, d, st), d, st, FALSE))
<1> DEFINE o == Undo(n, d, st)
<1>1. /\ n \in MemoryType /\ d \in Frames /\ Sound(n, ds \union {d})
      /\ UserPagesOf(n, d) = qs
      /\ m \in MemoryType /\ w \in SUBSET m.bitmap
  BY DEF Building, Usable
<1>2. Freed(n, o, ps)
  BY <1>1, UndoFrees
<1> HIDE DEF o
<1>3. GivenBack(m, o, ds, w)
  BY <1>1, <1>2, GiveBack
<1>4. Built(m, ds, w, Space(o, d, st, FALSE))
  BY <1>1, <1>3 DEF Built, Space, GivenBack
<1> QED
  BY <1>2, <1>4 DEF o

\* a step that fails after the code was taken gives back the code as well.
LEMMA FailsWithCode ==
  ASSUME NEW m, NEW n, NEW ds, NEW w, NEW d, NEW ps, NEW qs,
         NEW st \in UserPages, NEW co \in UserPages,
         Usable(m, ds, w), Building(m, n, ds, w, d, ps, qs), ps = qs \union {st, co}
  PROVE  Built(m, ds, w, Space(pmm_free_page(Undo(n, d, st), co), d, st, FALSE))
<1> DEFINE o == Undo(n, d, st)
           z == pmm_free_page(o, co)
<1>1. /\ n \in MemoryType /\ d \in Frames /\ Sound(n, ds \union {d})
      /\ UserPagesOf(n, d) = qs
      /\ m \in MemoryType /\ w \in SUBSET m.bitmap
  BY DEF Building, Usable
<1>2. Freed(n, o, qs \union {st})
  BY <1>1, UndoFrees
<1> HIDE DEF o
<1>3. Freed(o, z, {co})
  BY <1>2, FreedByFreePage DEF Freed
<1> HIDE DEF z
<1>4. Freed(n, z, (qs \union {st}) \union {co})
  BY <1>2, <1>3, FreedTwice
<1>5. ps = (qs \union {st}) \union {co}
  OBVIOUS
<1>6. GivenBack(m, z, ds, w)
  BY <1>1, <1>4, <1>5, GiveBack
<1>7. Built(m, ds, w, Space(z, d, st, FALSE))
  BY <1>1, <1>6 DEF Built, Space, GivenBack
<1> QED
  BY <1>7 DEF o, z

\* The fifth step: the code is mapped.
LEMMA CodeMappedBuilds ==
  ASSUME NEW m, NEW n, NEW ds, NEW w, NEW d, NEW st \in UserPages, NEW co \in UserPages, st # co,
         Usable(m, ds, w), Building(m, n, ds, w, d, {st, co}, {st}),
         vmm_va2pa(n, d, KERNEL_STACK_BASE) = st,
         vmm_va2pa(n, d, USER_PROGRAM_BASE) = NULL,
         NEW r, r = vmm_mappage(n, d, USER_PROGRAM_BASE, co)
  PROVE  Built(m, ds, w, CodeMapped(d, st, co, r))
<1>1. \/ r.ret = -1 /\ r.mem = n
      \/ /\ r.ret = 0
         /\ Building(m, r.mem, ds, w, d, {st, co}, {st} \union {co})
         /\ vmm_va2pa(r.mem, d, USER_PROGRAM_BASE) = co
         /\ \A x \in Nat : PDX(x) \in DirIndexes /\ x # USER_PROGRAM_BASE =>
              vmm_va2pa(r.mem, d, x) = vmm_va2pa(n, d, x)
  <2> DEFINE ps == {st, co}
             qs == {st}
             va == USER_PROGRAM_BASE
  <2>1. /\ co \in ps /\ Building(m, n, ds, w, d, ps, qs)
        /\ va \in Nat /\ PDX(va) \in 2 .. DirEntries - 1 /\ vmm_va2pa(n, d, va) = NULL
        /\ r = vmm_mappage(n, d, va, co)
    BY Bases
  <2> HIDE DEF ps, qs, va
  <2>2. MapResult(m, n, ds, w, d, ps, qs, va, co, r)
    BY <2>1, MapTaken, Zenon
  <2> QED
    BY <2>2 DEF MapResult, ps, qs, va
<1>2. CASE r.ret = -1 /\ r.mem = n
  <2>1. CodeMapped(d, st, co, r) = Space(pmm_free_page(Undo(n, d, st), co), d, st, FALSE)
    BY <1>2 DEF CodeMapped
  <2> DEFINE ps == {st, co}
             qs == {st}
  <2>2. ps = qs \union {st, co} /\ Building(m, n, ds, w, d, ps, qs)
    OBVIOUS
  <2> HIDE DEF ps, qs
  <2> QED
    BY <2>1, <2>2, FailsWithCode
<1>3. CASE /\ r.ret = 0
           /\ Building(m, r.mem, ds, w, d, {st, co}, {st} \union {co})
           /\ vmm_va2pa(r.mem, d, USER_PROGRAM_BASE) = co
           /\ \A x \in Nat : PDX(x) \in DirIndexes /\ x # USER_PROGRAM_BASE =>
                vmm_va2pa(r.mem, d, x) = vmm_va2pa(n, d, x)
  <2> DEFINE o == r.mem
  <2>1. CodeMapped(d, st, co, r) = Space(o, d, st, TRUE)
    BY <1>3 DEF CodeMapped
  <2>2. vmm_va2pa(o, d, KERNEL_STACK_BASE) = st /\ vmm_va2pa(o, d, USER_PROGRAM_BASE) = co
    BY <1>3, Bases
  <2>3. Building(m, o, ds, w, d, {st, co}, {st, co})
    <3>1. {st} \union {co} = {st, co}
      OBVIOUS
    <3> QED
      BY <1>3, <3>1
  <2> HIDE DEF o
  <2>4. d \in Frames /\ UserPagesOf(o, d) = {st, co} /\ o \in MemoryType
    BY <2>3 DEF Building
  <2>5. NewSpace(m, o, ds, w, d, st, co)
    BY <2>2, <2>3, <2>4 DEF NewSpace, HasSpace
  <2>6. Built(m, ds, w, Space(o, d, st, TRUE))
    BY <2>4, <2>5 DEF Built, Space
  <2> QED
    BY <2>1, <2>6
<1> QED
  BY <1>1, <1>2, <1>3

\* The fourth step: the page of the code is taken.
LEMMA CodeTakenBuilds ==
  ASSUME NEW m, NEW n, NEW ds, NEW w, NEW d, NEW st \in UserPages,
         Usable(m, ds, w), Building(m, n, ds, w, d, {st}, {st}),
         vmm_va2pa(n, d, KERNEL_STACK_BASE) = st,
         vmm_va2pa(n, d, USER_PROGRAM_BASE) = NULL,
         NEW c, c = pmm_alloc_page(n)
  PROVE  Built(m, ds, w, CodeTaken(d, st, c))
<1> DEFINE o == c.mem
           co == c.ret
<1>1. \/ co = NULL /\ o = n
      \/ co \in UserPages /\ o \in MemoryType /\ Panicked(o)
      \/ /\ co \in UserPages \ {st}
         /\ Building(m, o, ds, w, d, {st} \union {co}, {st})
         /\ \A x \in Nat : PDX(x) \in DirIndexes => vmm_va2pa(o, d, x) = vmm_va2pa(n, d, x)
  BY TakePage
<1>2. d \in Frames /\ ~Panicked(n)
  BY DEF Building
<1>3. CASE co = NULL /\ o = n
  <2>1. CodeTaken(d, st, c) = Space(Undo(n, d, st), d, st, FALSE)
    BY <1>2, <1>3 DEF CodeTaken
  <2> DEFINE ps == {st}
             qs == {st}
  <2>2. ps = qs \union {st} /\ Building(m, n, ds, w, d, ps, qs)
    OBVIOUS
  <2> HIDE DEF ps, qs
  <2> QED
    BY <2>1, <2>2, FailsWithStack
<1>4. CASE o \in MemoryType /\ Panicked(o)
  <2>1. CodeTaken(d, st, c) = Space(o, d, st, FALSE)
    BY <1>4 DEF CodeTaken
  <2> HIDE DEF o
  <2>2. Built(m, ds, w, Space(o, d, st, FALSE))
    BY <1>2, <1>4 DEF Built, Space
  <2> QED
    BY <2>1, <2>2
<1>5. CASE /\ co \in UserPages \ {st}
           /\ Building(m, o, ds, w, d, {st} \union {co}, {st})
           /\ \A x \in Nat : PDX(x) \in DirIndexes => vmm_va2pa(o, d, x) = vmm_va2pa(n, d, x)
  <2>1. co # NULL /\ ~Panicked(o)
    <3>1. NULL \notin UserPages
      BY Layout DEF NULL, PMM_START
    <3> QED
      BY <1>5, <3>1 DEF Building
  <2>2. CodeTaken(d, st, c) = CodeMapped(d, st, co, vmm_mappage(o, d, USER_PROGRAM_BASE, co))
    BY <2>1 DEF CodeTaken
  <2>3. /\ vmm_va2pa(o, d, KERNEL_STACK_BASE) = st
        /\ vmm_va2pa(o, d, USER_PROGRAM_BASE) = NULL
    BY <1>5, Bases
  <2>4. Building(m, o, ds, w, d, {st, co}, {st})
    <3>1. {st} \union {co} = {st, co}
      OBVIOUS
    <3> QED
      BY <1>5, <3>1
  <2> HIDE DEF o, co
  <2> DEFINE r == vmm_mappage(o, d, USER_PROGRAM_BASE, co)
  <2>5. r = vmm_mappage(o, d, USER_PROGRAM_BASE, co)
    OBVIOUS
  <2> HIDE DEF r
  <2>6. Built(m, ds, w, CodeMapped(d, st, co, r))
    BY <1>5, <2>3, <2>4, <2>5, CodeMappedBuilds
  <2> QED
    BY <2>2, <2>6 DEF r
<1> QED
  BY <1>1, <1>3, <1>4, <1>5

\* The third step: the stack is mapped.
LEMMA StackMappedBuilds ==
  ASSUME NEW m, NEW n, NEW ds, NEW w, NEW d, NEW st \in UserPages,
         Usable(m, ds, w), Building(m, n, ds, w, d, {st}, {}),
         vmm_va2pa(n, d, KERNEL_STACK_BASE) = NULL,
         vmm_va2pa(n, d, USER_PROGRAM_BASE) = NULL,
         NEW r, r = vmm_mappage(n, d, KERNEL_STACK_BASE, st)
  PROVE  Built(m, ds, w, StackMapped(d, st, r))
<1> DEFINE o == r.mem
<1>1. \/ r.ret = -1 /\ o = n
      \/ /\ r.ret = 0
         /\ Building(m, o, ds, w, d, {st}, {} \union {st})
         /\ vmm_va2pa(o, d, KERNEL_STACK_BASE) = st
         /\ \A x \in Nat : PDX(x) \in DirIndexes /\ x # KERNEL_STACK_BASE =>
              vmm_va2pa(o, d, x) = vmm_va2pa(n, d, x)
  <2> DEFINE ps == {st}
             qs == {}
             va == KERNEL_STACK_BASE
  <2>1. /\ st \in ps /\ Building(m, n, ds, w, d, ps, qs)
        /\ va \in Nat /\ PDX(va) \in 2 .. DirEntries - 1 /\ vmm_va2pa(n, d, va) = NULL
        /\ r = vmm_mappage(n, d, va, st)
    BY Bases
  <2> HIDE DEF ps, qs, va
  <2>2. MapResult(m, n, ds, w, d, ps, qs, va, st, r)
    BY <2>1, MapTaken, Zenon
  <2> QED
    BY <2>2 DEF MapResult, ps, qs, va
<1>2. CASE r.ret = -1 /\ o = n
  <2>1. StackMapped(d, st, r) = Space(Undo(n, d, st), d, st, FALSE)
    BY <1>2 DEF StackMapped
  <2> DEFINE ps == {st}
             qs == {}
  <2>2. ps = qs \union {st} /\ Building(m, n, ds, w, d, ps, qs)
    OBVIOUS
  <2> HIDE DEF ps, qs
  <2> QED
    BY <2>1, <2>2, FailsWithStack
<1>3. CASE /\ r.ret = 0
           /\ Building(m, o, ds, w, d, {st}, {} \union {st})
           /\ vmm_va2pa(o, d, KERNEL_STACK_BASE) = st
           /\ \A x \in Nat : PDX(x) \in DirIndexes /\ x # KERNEL_STACK_BASE =>
                vmm_va2pa(o, d, x) = vmm_va2pa(n, d, x)
  <2>1. StackMapped(d, st, r) = CodeTaken(d, st, pmm_alloc_page(o))
    BY <1>3 DEF StackMapped
  <2>2. /\ vmm_va2pa(o, d, KERNEL_STACK_BASE) = st
        /\ vmm_va2pa(o, d, USER_PROGRAM_BASE) = NULL
    BY <1>3, Bases
  <2>3. Building(m, o, ds, w, d, {st}, {st})
    <3>1. {} \union {st} = {st}
      OBVIOUS
    <3> QED
      BY <1>3, <3>1
  <2> HIDE DEF o
  <2> DEFINE c == pmm_alloc_page(o)
  <2>4. c = pmm_alloc_page(o)
    OBVIOUS
  <2> HIDE DEF c
  <2>5. Built(m, ds, w, CodeTaken(d, st, c))
    BY <2>2, <2>3, <2>4, CodeTakenBuilds
  <2> QED
    BY <2>1, <2>5 DEF c
<1> QED
  BY <1>1, <1>2, <1>3

\* The second step: the page of the stack is taken.
LEMMA StackTakenBuilds ==
  ASSUME NEW m, NEW n, NEW ds, NEW w, NEW d,
         Usable(m, ds, w), Building(m, n, ds, w, d, {}, {}),
         vmm_va2pa(n, d, KERNEL_STACK_BASE) = NULL,
         vmm_va2pa(n, d, USER_PROGRAM_BASE) = NULL,
         NEW s, s = pmm_alloc_page(n)
  PROVE  Built(m, ds, w, StackTaken(d, s))
<1> DEFINE o == s.mem
           st == s.ret
<1>1. \/ st = NULL /\ o = n
      \/ st \in UserPages /\ o \in MemoryType /\ Panicked(o)
      \/ /\ st \in UserPages \ {}
         /\ Building(m, o, ds, w, d, {} \union {st}, {})
         /\ \A x \in Nat : PDX(x) \in DirIndexes => vmm_va2pa(o, d, x) = vmm_va2pa(n, d, x)
  BY TakePage
<1>2. /\ d \in Frames /\ ~Panicked(n) /\ n \in MemoryType /\ UserPagesOf(n, d) = {}
      /\ m \in MemoryType /\ w \in SUBSET m.bitmap
  BY DEF Building, Usable
<1>3. CASE st = NULL /\ o = n
  <2> DEFINE z == vmm_destroy_user_page_directory(n, d)
  <2>1. StackTaken(d, s) = Space(z, d, NULL, FALSE)
    BY <1>2, <1>3 DEF StackTaken
  <2>2. Freed(n, z, {})
    BY <1>2, FreedByDestroy
  <2> HIDE DEF z
  <2>3. GivenBack(m, z, ds, w)
    BY <1>2, <2>2, GiveBack
  <2>4. Built(m, ds, w, Space(z, d, NULL, FALSE))
    BY <1>2, <2>3 DEF Built, Space, GivenBack
  <2> QED
    BY <2>1, <2>4
<1>4. CASE o \in MemoryType /\ Panicked(o)
  <2>1. StackTaken(d, s) = Space(o, d, NULL, FALSE)
    BY <1>4 DEF StackTaken
  <2> HIDE DEF o
  <2>2. Built(m, ds, w, Space(o, d, NULL, FALSE))
    BY <1>2, <1>4 DEF Built, Space
  <2> QED
    BY <2>1, <2>2
<1>5. CASE /\ st \in UserPages \ {}
           /\ Building(m, o, ds, w, d, {} \union {st}, {})
           /\ \A x \in Nat : PDX(x) \in DirIndexes => vmm_va2pa(o, d, x) = vmm_va2pa(n, d, x)
  <2>1. st # NULL /\ ~Panicked(o)
    <3>1. NULL \notin UserPages
      BY Layout DEF NULL, PMM_START
    <3> QED
      BY <1>5, <3>1 DEF Building
  <2>2. StackTaken(d, s) = StackMapped(d, st, vmm_mappage(o, d, KERNEL_STACK_BASE, st))
    BY <2>1 DEF StackTaken
  <2>3. /\ vmm_va2pa(o, d, KERNEL_STACK_BASE) = NULL
        /\ vmm_va2pa(o, d, USER_PROGRAM_BASE) = NULL
    BY <1>5, Bases
  <2>4. Building(m, o, ds, w, d, {st}, {})
    <3>1. {} \union {st} = {st}
      OBVIOUS
    <3> QED
      BY <1>5, <3>1
  <2> HIDE DEF o, st
  <2> DEFINE r == vmm_mappage(o, d, KERNEL_STACK_BASE, st)
  <2>5. r = vmm_mappage(o, d, KERNEL_STACK_BASE, st)
    OBVIOUS
  <2> HIDE DEF r
  <2>6. Built(m, ds, w, StackMapped(d, st, r))
    BY <1>5, <2>3, <2>4, <2>5, StackMappedBuilds
  <2> QED
    BY <2>2, <2>6 DEF r
<1> QED
  BY <1>1, <1>3, <1>4, <1>5

\* process_create gives a process a space of its own or gives back every page.
LEMMA BuildsSpace ==
  ASSUME NEW m, NEW ds, NEW w, Usable(m, ds, w)
  PROVE  Built(m, ds, w, BuildSpace(m))
<1> DEFINE a == vmm_create_user_page_directory(m)
           d == a.ret
           n == a.mem
<1>0. a = vmm_create_user_page_directory(m)
  OBVIOUS
<1>1. BuildSpace(m) = DirectoryMade(a)
  BY DEF BuildSpace
<1> HIDE DEF a
<1>2. /\ m \in MemoryType /\ ds \in SUBSET Frames /\ Sound(m, ds) /\ ~Panicked(m)
      /\ MarkedHaveTables(m, w) /\ w \in SUBSET m.bitmap
  BY DEF Usable
<1>3. \/ d = NULL /\ n = m
      \/ /\ d \in Frames \ ds /\ n \in MemoryType
         /\ n.bitmap = m.bitmap /\ n.panic = m.panic
         /\ Sound(n, ds \union {d})
         /\ SameView(m, n, ds) /\ TablesStay(m, n)
         /\ Mapped(n, d) \intersect UserPages = {}
         /\ \A x \in Nat : PDX(x) \in 2 .. DirEntries - 1 => vmm_va2pa(n, d, x) = NULL
  BY <1>0, <1>2, CreatedDirectory
<1>4. CASE d = NULL /\ n = m
  <2>1. DirectoryMade(a) = Space(n, NULL, NULL, FALSE)
    BY <1>4 DEF DirectoryMade
  <2>2. SameSpaces(m, n, ds)
    BY <1>4 DEF SameSpaces
  <2>3. GivenBack(m, n, ds, w)
    BY <1>2, <1>4, <2>2 DEF GivenBack
  <2> HIDE DEF n
  <2>4. Built(m, ds, w, Space(n, NULL, NULL, FALSE))
    BY <2>3 DEF Built, Space, GivenBack
  <2> QED
    BY <1>1, <2>1, <2>4
<1>5. CASE /\ d \in Frames \ ds /\ n \in MemoryType
           /\ n.bitmap = m.bitmap /\ n.panic = m.panic
           /\ Sound(n, ds \union {d})
           /\ SameView(m, n, ds) /\ TablesStay(m, n)
           /\ Mapped(n, d) \intersect UserPages = {}
           /\ \A x \in Nat : PDX(x) \in 2 .. DirEntries - 1 => vmm_va2pa(n, d, x) = NULL
  <2>1. DirectoryMade(a) = StackTaken(d, pmm_alloc_page(n))
    <3>1. NULL \notin Frames
      BY Layout DEF Tables
    <3> QED
      BY <1>5, <3>1 DEF DirectoryMade
  <2> HIDE DEF d, n
  <2>2. SameSpaces(m, n, ds)
    BY <1>5, SpacesOfView
  <2>3. MarkedHaveTables(n, w)
    <3>1. ASSUME NEW q \in UserPages
          PROVE  PDX(q) \in DirIndexes
      BY Layout DEF DirIndexes
    <3> QED
      BY <1>2, <1>5, <3>1 DEF MarkedHaveTables, TablesStay
  <2>4. Marked(n) = Marked(m) \union {} /\ ~Panicked(n) /\ UserPagesOf(n, d) = {}
    BY <1>2, <1>5 DEF Marked, Panicked, UserPagesOf
  <2>5. Building(m, n, ds, w, d, {}, {})
    BY <1>2, <1>5, <2>2, <2>3, <2>4 DEF Building
  <2>6. /\ vmm_va2pa(n, d, KERNEL_STACK_BASE) = NULL
        /\ vmm_va2pa(n, d, USER_PROGRAM_BASE) = NULL
    BY <1>5, Bases
  <2> DEFINE s == pmm_alloc_page(n)
  <2>7. s = pmm_alloc_page(n)
    OBVIOUS
  <2> HIDE DEF s
  <2>8. Built(m, ds, w, StackTaken(d, s))
    BY <2>5, <2>6, <2>7, StackTakenBuilds
  <2> QED
    BY <1>1, <2>1, <2>8 DEF s
<1> QED
  BY <1>3, <1>4, <1>5

-----------------------------------------------------------------------------
(* The memory and the process table together *)

\* The slots in use of process table pt, and their directories.
LiveIn(pt) == {s \in Slots : pt[s].state # UNUSED}
DirsOf(pt) == {pt[s].page_directory : s \in LiveIn(pt)}

\* Every process of the table has a space to itself.
SpacesApart(m, pt) ==
  /\ \A s \in LiveIn(pt) :
       \E co \in UserPages : HasSpace(m, pt[s].page_directory, pt[s].kernel_stack, co)
  /\ \A s, r \in LiveIn(pt) :
       s # r => UserPagesOf(m, pt[s].page_directory)
                  \intersect UserPagesOf(m, pt[r].page_directory) = {}

\* Besides the bits w, which were set from the start, the bits of the pages of
\* these spaces are set and no others.
MarksAreSpaces(m, pt, w) ==
  /\ w \in SUBSET m.bitmap
  /\ \A p \in UserPages :
       p - PMM_START \in m.bitmap \ w <=>
         \E s \in LiveIn(pt) : p \in UserPagesOf(m, pt[s].page_directory)

MemorySound(m, pt, w) ==
  /\ m \in MemoryType /\ ~Panicked(m)
  /\ Sound(m, DirsOf(pt))
  /\ MarkedHaveTables(m, w)
  /\ SpacesApart(m, pt)
  /\ MarksAreSpaces(m, pt, w)

\* process_create can be called on such a memory.
LEMMA SoundIsUsable ==
  ASSUME NEW m, NEW pt, NEW w, MemorySound(m, pt, w), LastBits(w)
  PROVE  Usable(m, DirsOf(pt), w)
<1>1. DirsOf(pt) \in SUBSET Frames
  BY DEF MemorySound, SpacesApart, HasSpace, DirsOf
<1> QED
  BY <1>1 DEF MemorySound, MarksAreSpaces, Usable

\* Only whether a process is there, its directory and its stack matter.
LEMMA SameProcesses ==
  ASSUME NEW m, NEW pt, NEW pt1, NEW w, MemorySound(m, pt, w),
         LiveIn(pt1) = LiveIn(pt),
         \A s \in LiveIn(pt) : /\ pt1[s].page_directory = pt[s].page_directory
                               /\ pt1[s].kernel_stack = pt[s].kernel_stack
  PROVE  MemorySound(m, pt1, w)
<1>1. DirsOf(pt1) = DirsOf(pt)
  BY DEF DirsOf
<1>2. SpacesApart(m, pt1)
  BY DEF MemorySound, SpacesApart
<1>3. MarksAreSpaces(m, pt1, w)
  BY DEF MemorySound, MarksAreSpaces
<1> QED
  BY <1>1, <1>2, <1>3 DEF MemorySound

\* A memory whose spaces and marks are those of a sound one has them apart.
LEMMA SpacesStayApart ==
  ASSUME NEW m, NEW n, NEW pt, NEW w, MemorySound(m, pt, w),
         SameSpaces(m, n, DirsOf(pt))
  PROVE  /\ SpacesApart(n, pt)
         /\ \A s \in LiveIn(pt) :
              UserPagesOf(n, pt[s].page_directory) = UserPagesOf(m, pt[s].page_directory)
<1>1. ASSUME NEW s \in LiveIn(pt)
      PROVE  pt[s].page_directory \in DirsOf(pt)
  BY DEF DirsOf
<1>2. \A s \in LiveIn(pt) :
        UserPagesOf(n, pt[s].page_directory) = UserPagesOf(m, pt[s].page_directory)
  BY <1>1 DEF SameSpaces
<1>3. ASSUME NEW s \in LiveIn(pt)
      PROVE  \E co \in UserPages : HasSpace(n, pt[s].page_directory, pt[s].kernel_stack, co)
  <2>1. PICK co \in UserPages : HasSpace(m, pt[s].page_directory, pt[s].kernel_stack, co)
    BY DEF MemorySound, SpacesApart
  <2>2. HasSpace(n, pt[s].page_directory, pt[s].kernel_stack, co)
    BY <1>1, <2>1, SpaceStays, Zenon
  <2> QED
    BY <2>2
<1>4. SpacesApart(n, pt)
  BY <1>2, <1>3 DEF MemorySound, SpacesApart
<1> QED
  BY <1>2, <1>4

\* Slot s of pt1 holds what process_create made; the other slots are as before.
SlotHolds(pt, pt1, s, b) ==
  /\ pt1[s].state = IF b.ok THEN RUNNABLE ELSE UNUSED
  /\ pt1[s].page_directory = b.page_directory
  /\ pt1[s].kernel_stack = b.kernel_stack
  /\ \A r \in Slots \ {s} : pt1[r] = pt[r]

\* process_create keeps the spaces apart and the marks right.
LEMMA SlotFilled ==
  ASSUME NEW m, NEW pt, NEW w, MemorySound(m, pt, w),
         NEW s \in Slots, pt[s].state = UNUSED,
         NEW b, Built(m, DirsOf(pt), w, b), ~Panicked(b.mem),
         NEW pt1, SlotHolds(pt, pt1, s, b)
  PROVE  MemorySound(b.mem, pt1, w)
<1> DEFINE n == b.mem
           ds == DirsOf(pt)
<1> HIDE DEF n, ds
<1>1. /\ m \in MemoryType /\ SpacesApart(m, pt) /\ MarksAreSpaces(m, pt, w)
      /\ n \in MemoryType /\ ~Panicked(n)
  BY DEF MemorySound, Built, n
<1>2. s \notin LiveIn(pt) /\ \A r \in LiveIn(pt) : r \in Slots \ {s} /\ pt1[r] = pt[r]
  BY DEF LiveIn, SlotHolds
<1>3. CASE b.ok = FALSE
  <2>1. GivenBack(m, n, ds, w)
    BY <1>3 DEF Built, n, ds
  <2>2. LiveIn(pt1) = LiveIn(pt)
    BY <1>2, <1>3 DEF LiveIn, SlotHolds
  <2>3. SpacesApart(n, pt) /\ \A r \in LiveIn(pt) :
          UserPagesOf(n, pt[r].page_directory) = UserPagesOf(m, pt[r].page_directory)
    BY <2>1, SpacesStayApart DEF GivenBack, ds
  <2>4. n.bitmap = m.bitmap
    BY <2>1 DEF GivenBack
  <2>5. MarksAreSpaces(n, pt, w)
    BY <1>1, <2>3, <2>4 DEF MarksAreSpaces
  <2>6. MemorySound(n, pt, w)
    BY <1>1, <2>1, <2>3, <2>5 DEF MemorySound, GivenBack, ds
  <2>7. MemorySound(n, pt1, w)
    BY <1>2, <2>2, <2>6, SameProcesses
  <2> QED
    BY <2>7 DEF n
<1>4. CASE b.ok = TRUE
  <2> DEFINE d == b.page_directory
             st == b.kernel_stack
  <2> HIDE DEF d, st
  <2>1. PICK co \in UserPages : NewSpace(m, n, ds, w, d, st, co)
    BY <1>4 DEF Built, n, ds, d, st
  <2>2. HasSpace(n, d, st, co) /\ Building(m, n, ds, w, d, {st, co}, {st, co})
    BY <2>1 DEF NewSpace
  <2>3. /\ LiveIn(pt1) = LiveIn(pt) \union {s}
        /\ pt1[s].page_directory = d /\ pt1[s].kernel_stack = st
    BY <1>2, <1>4 DEF LiveIn, SlotHolds, d, st, RUNNABLE, UNUSED
  <2>4. DirsOf(pt1) = ds \union {d}
    BY <1>2, <2>3 DEF DirsOf, ds
  <2>5. SpacesApart(n, pt) /\ \A r \in LiveIn(pt) :
          UserPagesOf(n, pt[r].page_directory) = UserPagesOf(m, pt[r].page_directory)
    BY <2>2, SpacesStayApart DEF Building, ds
  <2>6. /\ UserPagesOf(n, d) = {st, co} /\ st \in UserPages /\ co \in UserPages
        /\ w \in SUBSET n.bitmap
        /\ Marked(n) = Marked(m) \union {st, co} /\ {st, co} \intersect Marked(m) = {}
    BY <2>2 DEF HasSpace, Building
  <2>7. /\ m.bitmap \in SUBSET Bits /\ n.bitmap \in SUBSET Bits
        /\ w \in SUBSET m.bitmap
    BY <1>1, PartsOfMemory DEF MarksAreSpaces
  <2>8. \A p \in UserPages : /\ p \in Marked(m) <=> p - PMM_START \in m.bitmap
                             /\ p \in Marked(n) <=> p - PMM_START \in n.bitmap
    BY <2>7, MarkedPage
  <2>9. ASSUME NEW r \in LiveIn(pt)
        PROVE  UserPagesOf(n, d) \intersect UserPagesOf(n, pt[r].page_directory) = {}
    <3>1. ASSUME NEW p \in UserPages, p \in UserPagesOf(m, pt[r].page_directory)
          PROVE  p \in Marked(m)
      BY <1>1, <2>8, <3>1 DEF MarksAreSpaces
    <3> QED
      BY <2>5, <2>6, <3>1
  <2>10. SpacesApart(n, pt1)
    <3>1. ASSUME NEW r \in LiveIn(pt1)
          PROVE  \E c \in UserPages : HasSpace(n, pt1[r].page_directory, pt1[r].kernel_stack, c)
      <4>1. CASE r = s
        BY <2>2, <2>3, <4>1
      <4>2. CASE r \in LiveIn(pt)
        BY <1>2, <2>5, <4>2 DEF SpacesApart
      <4> QED
        BY <2>3, <4>1, <4>2
    <3>2. ASSUME NEW q \in LiveIn(pt1), NEW r \in LiveIn(pt1), q # r
          PROVE  UserPagesOf(n, pt1[q].page_directory)
                   \intersect UserPagesOf(n, pt1[r].page_directory) = {}
      <4>1. CASE q = s
        BY <1>2, <2>3, <2>9, <3>2, <4>1
      <4>2. CASE r = s
        BY <1>2, <2>3, <2>9, <3>2, <4>2
      <4>3. CASE q \in LiveIn(pt) /\ r \in LiveIn(pt)
        BY <1>2, <2>5, <3>2, <4>3 DEF SpacesApart
      <4> QED
        BY <2>3, <4>1, <4>2, <4>3
    <3> QED
      BY <3>1, <3>2 DEF SpacesApart
  <2>11. MarksAreSpaces(n, pt1, w)
    <3>1. ASSUME NEW p \in UserPages
          PROVE  p - PMM_START \in n.bitmap \ w <=>
                   \/ p \in {st, co}
                   \/ p - PMM_START \in m.bitmap \ w
      BY <2>6, <2>7, <2>8
    <3>2. ASSUME NEW p \in UserPages
          PROVE  (\E r \in LiveIn(pt1) : p \in UserPagesOf(n, pt1[r].page_directory)) <=>
                   \/ p \in {st, co}
                   \/ \E r \in LiveIn(pt) : p \in UserPagesOf(m, pt[r].page_directory)
      BY <1>2, <2>3, <2>5, <2>6
    <3> QED
      BY <1>1, <2>6, <3>1, <3>2 DEF MarksAreSpaces
  <2>12. Sound(n, DirsOf(pt1)) /\ MarkedHaveTables(n, w)
    BY <2>2, <2>4 DEF Building
  <2> QED
    BY <1>1, <2>10, <2>11, <2>12 DEF MemorySound, n
<1> QED
  BY <1>3, <1>4 DEF Built

\* Slot s of pt1 is unused; the other slots are as before.
SlotUnused(pt, pt1, s) ==
  /\ pt1[s].state = UNUSED
  /\ \A r \in Slots \ {s} : pt1[r] = pt[r]

\* process_terminate frees the pages of its process and no others.
LEMMA SlotFreed ==
  ASSUME NEW m, NEW pt, NEW w, MemorySound(m, pt, w),
         NEW s \in LiveIn(pt), NEW pt1, SlotUnused(pt, pt1, s),
         NEW n, n = vmm_destroy_user_page_directory(m, pt[s].page_directory)
  PROVE  MemorySound(n, pt1, w)
<1> DEFINE d == pt[s].page_directory
           ps == UserPagesOf(m, d)
<1>1. /\ m \in MemoryType /\ SpacesApart(m, pt) /\ MarksAreSpaces(m, pt, w)
      /\ Sound(m, DirsOf(pt)) /\ MarkedHaveTables(m, w) /\ ~Panicked(m)
  BY DEF MemorySound
<1>2. d \in Frames
  BY <1>1 DEF SpacesApart, HasSpace
<1>3. Freed(m, n, ps)
  BY <1>1, <1>2, FreedByDestroy
<1> HIDE DEF d, ps
<1>4. /\ s \notin LiveIn(pt1)
      /\ \A r \in LiveIn(pt1) : r \in LiveIn(pt) /\ r # s /\ pt1[r] = pt[r]
      /\ \A r \in LiveIn(pt) \ {s} : r \in LiveIn(pt1)
  BY DEF LiveIn, SlotUnused
<1>5. DirsOf(pt1) \subseteq DirsOf(pt)
  BY <1>4 DEF DirsOf
<1>6. Sound(m, DirsOf(pt1))
  BY <1>1, <1>5, SoundForFewer
<1>7. /\ Sound(n, DirsOf(pt1))
      /\ \A e : UserPagesOf(n, e) = UserPagesOf(m, e)
      /\ SameSpaces(m, n, DirsOf(pt))
  BY <1>3, <1>6, FreedKeepsSpaces
<1>8. SpacesApart(n, pt)
  BY <1>7, SpacesStayApart
<1>9. SpacesApart(n, pt1)
  BY <1>4, <1>8 DEF SpacesApart
<1>10. /\ m.bitmap \in SUBSET Bits /\ n.bitmap \in SUBSET Bits /\ n.bitmap \subseteq m.bitmap
       /\ w \in SUBSET m.bitmap /\ n \in MemoryType
  BY <1>1, <1>3, PartsOfMemory DEF MarksAreSpaces, Freed
<1>11. \A p \in UserPages : /\ p \in Marked(m) <=> p - PMM_START \in m.bitmap
                            /\ p \in Marked(n) <=> p - PMM_START \in n.bitmap
  BY <1>10, MarkedPage
<1>12. \A p \in UserPages :
         p - PMM_START \in n.bitmap <=> p - PMM_START \in m.bitmap /\ p \notin ps
  BY <1>3, <1>11 DEF Freed
<1>13. \A p \in ps : p \in UserPages /\ p - PMM_START \notin w
  BY <1>1 DEF ps, d, MarksAreSpaces, UserPagesOf
<1>14. MarksAreSpaces(n, pt1, w)
  <2>1. ASSUME NEW p \in UserPages
        PROVE  p - PMM_START \in n.bitmap \ w <=>
                 \E r \in LiveIn(pt1) : p \in UserPagesOf(n, pt1[r].page_directory)
    <3>1. p - PMM_START \in m.bitmap \ w <=>
            \E r \in LiveIn(pt) : p \in UserPagesOf(m, pt[r].page_directory)
      BY <1>1 DEF MarksAreSpaces
    <3>2. (\E r \in LiveIn(pt1) : p \in UserPagesOf(n, pt1[r].page_directory)) <=>
            \E r \in LiveIn(pt) \ {s} : p \in UserPagesOf(m, pt[r].page_directory)
      BY <1>4, <1>7
    <3>3. (\E r \in LiveIn(pt) \ {s} : p \in UserPagesOf(m, pt[r].page_directory)) <=>
            /\ \E r \in LiveIn(pt) : p \in UserPagesOf(m, pt[r].page_directory)
            /\ p \notin ps
      BY <1>1 DEF SpacesApart, ps, d
    <3> QED
      BY <1>12, <3>1, <3>2, <3>3
  <2>2. w \in SUBSET n.bitmap
    <3>1. ASSUME NEW k \in w
          PROVE  k \in n.bitmap
      <4>1. PMM_START + k \in UserPages /\ (PMM_START + k) - PMM_START = k
        BY <1>10, PagesOfBits
      <4> QED
        BY <1>10, <1>12, <1>13, <4>1
    <3> QED
      BY <3>1
  <2> QED
    BY <2>1, <2>2 DEF MarksAreSpaces
<1>15. MarkedHaveTables(n, w)
  BY <1>1, <1>3 DEF MarkedHaveTables, Freed
<1>16. ~Panicked(n)
  BY <1>1, <1>3 DEF Freed, Panicked
<1> QED
  BY <1>7, <1>9, <1>10, <1>14, <1>15, <1>16 DEF MemorySound

\* Mapping the stack in the kernel's directory disturbs no process: it is mapped
\* there, or nothing has changed.
LEMMA StackInKernel ==
  ASSUME NEW m, NEW pt, NEW w, MemorySound(m, pt, w),
         NEW st \in UserPages,
         NEW r, r = vmm_mappage(m, KDir, KERNEL_STACK_BASE, st)
  PROVE  /\ MemorySound(r.mem, pt, w)
         /\ \/ r.ret = -1 /\ r.mem = m
            \/ r.ret = 0 /\ vmm_va2pa(r.mem, KDir, KERNEL_STACK_BASE) = st
<1> DEFINE ds == DirsOf(pt)
           n == r.mem
           va == KERNEL_STACK_BASE
<1>1. /\ m \in MemoryType /\ MarksAreSpaces(m, pt, w) /\ ~Panicked(m)
      /\ Sound(m, ds) /\ MarkedHaveTables(m, w)
      /\ ds \in SUBSET Frames
      /\ va \in Nat /\ PDX(va) \in 2 .. DirEntries - 1
  BY Bases DEF MemorySound, DirsOf, SpacesApart, HasSpace
<1> HIDE DEF ds, va
<1>2. \/ r.ret = -1 /\ n = m
      \/ /\ r.ret = 0 /\ n \in MemoryType /\ Sound(n, ds)
         /\ n.bitmap = m.bitmap /\ n.panic = m.panic
         /\ PageMapped(m, n, ds, KDir, va, st)
         /\ TablesStay(m, n)
  <2>1. r = vmm_mappage(m, KDir, va, st) /\ KDir \in ds \union {KDir}
    BY DEF va
  <2> QED
    BY <1>1, <2>1, Mappage
<1>3. SUFFICES ASSUME /\ r.ret = 0 /\ n \in MemoryType /\ Sound(n, ds)
                      /\ n.bitmap = m.bitmap /\ n.panic = m.panic
                      /\ PageMapped(m, n, ds, KDir, va, st)
                      /\ TablesStay(m, n)
               PROVE  MemorySound(n, pt, w) /\ vmm_va2pa(n, KDir, va) = st
  BY <1>2 DEF va
<1> HIDE DEF n
<1>4. KDir \notin ds
  BY <1>1, Layout
<1>5. SameSpaces(m, n, ds)
  BY <1>3, <1>4 DEF PageMapped, SameSpaces, UserPagesOf
<1>6. SpacesApart(n, pt) /\ \A s \in LiveIn(pt) :
        UserPagesOf(n, pt[s].page_directory) = UserPagesOf(m, pt[s].page_directory)
  BY <1>5, SpacesStayApart DEF ds
<1>7. MarksAreSpaces(n, pt, w)
  BY <1>1, <1>3, <1>6 DEF MarksAreSpaces
<1>8. MarkedHaveTables(n, w)
  <2>1. ASSUME NEW q \in UserPages
        PROVE  PDX(q) \in DirIndexes
    BY Layout DEF DirIndexes
  <2> QED
    BY <1>1, <1>3, <2>1 DEF MarkedHaveTables, TablesStay
<1>9. ~Panicked(n)
  BY <1>1, <1>3 DEF Panicked
<1>10. MemorySound(n, pt, w)
  BY <1>3, <1>6, <1>7, <1>8, <1>9 DEF MemorySound, ds
<1> QED
  BY <1>3, <1>10 DEF PageMapped

\* The memory that kmain starts with is sound, however small it is.
LEMMA InitialSound ==
  ASSUME NEW m, NEW pt, NEW w, w \in SUBSET Bits, LiveIn(pt) = {},
         m.dir = InitialMemory.dir, m.tab = InitialMemory.tab,
         m \in MemoryType, ~Panicked(m), m.bitmap = w
  PROVE  MemorySound(m, pt, w)
<1>1. DirsOf(pt) = {}
  BY DEF DirsOf
<1>2. Sound(m, {})
  BY InitialTables
<1> QED
  BY <1>1, <1>2 DEF MemorySound, MarkedHaveTables, SpacesApart, MarksAreSpaces

-----------------------------------------------------------------------------
(* What is taken from the table pool *)

\* The tables of the kernel's directory that come from the pool.
TablesOf(m) == Frames \intersect {m.dir[KDir][x] : x \in DOMAIN m.dir[KDir]}

\* The pages of the pool that were taken, but for the bits w, which were set
\* from the start, beyond the tables of the kernel.
Spent(m, w) == Cardinality(m.intr_bitmap \ w) - Cardinality(TablesOf(m))

\* A memory whose kernel tables are marked.
Pool(m) == m \in MemoryType /\ \A f \in TablesOf(m) : FrameMarked(m, f)

\* From m to n at most k pages were spent.
Costs(m, n, w, k) == Pool(n) /\ Spent(n, w) <= Spent(m, w) + k

\* The pool and what is taken of it are finite.
LEMMA PoolIsFinite ==
  ASSUME NEW m \in MemoryType, NEW w
  PROVE  /\ IsFiniteSet(m.intr_bitmap \ w) /\ IsFiniteSet(TablesOf(m))
         /\ Cardinality(m.intr_bitmap \ w) \in Nat /\ Cardinality(TablesOf(m)) \in Nat
         /\ Spent(m, w) \in Int
<1>1. Capacity(IntrPagesCount) \in Nat /\ Entries \in Nat
  BY CapacityBound, LayoutAssumption DEF LayoutAssumption
<1>2. IsFiniteSet(IntrBits)
  BY <1>1, FS_Interval DEF IntrBits
<1>3. IsFiniteSet(Entries .. 2 * Entries - 1)
  BY <1>1, FS_Interval
<1>4. TablesOf(m) \in SUBSET (Entries .. 2 * Entries - 1)
  BY Layout DEF TablesOf
<1>5. m.intr_bitmap \ w \in SUBSET IntrBits
  BY PartsOfMemory
<1>6. IsFiniteSet(m.intr_bitmap \ w) /\ IsFiniteSet(TablesOf(m))
  BY <1>2, <1>3, <1>4, <1>5, FS_Subset
<1>7. Cardinality(m.intr_bitmap \ w) \in Nat /\ Cardinality(TablesOf(m)) \in Nat
  BY <1>6, FS_CardinalityType
<1> QED
  BY <1>6, <1>7 DEF Spent

\* Costs add up.
LEMMA CostsAdd ==
  ASSUME NEW m, Pool(m), NEW n, NEW o, NEW w, NEW j \in Nat, NEW k \in Nat, NEW l \in Nat, l = j + k,
         Costs(m, n, w, j), Costs(n, o, w, k)
  PROVE  Costs(m, o, w, l)
<1>1. Spent(m, w) \in Int /\ Spent(n, w) \in Int /\ Spent(o, w) \in Int
  BY PoolIsFinite DEF Costs, Pool
<1> QED
  BY <1>1 DEF Costs

\* What costs nothing: whatever leaves the marks of the pool and the kernel's
\* directory alone.
LEMMA CostsNothing ==
  ASSUME NEW m, Pool(m), NEW n \in MemoryType, NEW w,
         n.intr_bitmap = m.intr_bitmap, n.dir[KDir] = m.dir[KDir]
  PROVE  Costs(m, n, w, 0)
<1>1. TablesOf(n) = TablesOf(m)
  BY DEF TablesOf
<1>2. Pool(n)
  BY <1>1 DEF Pool, FrameMarked
<1>3. Spent(n, w) = Spent(m, w)
  BY <1>1 DEF Spent
<1>4. Spent(m, w) \in Int
  BY PoolIsFinite DEF Pool
<1> QED
  BY <1>2, <1>3, <1>4 DEF Costs

\* The kernel's tables are marked in a sound memory.
LEMMA SoundIsPool ==
  ASSUME NEW m \in MemoryType, NEW ds, Sound(m, ds)
  PROVE  Pool(m)
<1>1. ASSUME NEW f \in TablesOf(m)
      PROVE  FrameMarked(m, f)
  <2>1. m.dir \in [Directories -> [DirIndexes -> Tables \union {NotPresent}]]
    BY PartsOfMemory
  <2>2. KDir \in Directories /\ DOMAIN m.dir[KDir] = DirIndexes
    BY <2>1 DEF Directories
  <2>3. PICK x \in DirIndexes : f = m.dir[KDir][x]
    BY <2>2 DEF TablesOf
  <2>4. f \in Frames
    BY DEF TablesOf
  <2>5. OwnTable(m, KDir, x)
    BY <2>3, <2>4, Layout DEF OwnTable, Tables
  <2> QED
    BY <2>2, <2>3, <2>5 DEF Sound, OneUse
<1> QED
  BY <1>1 DEF Pool

\* A page that pmm_intr_alloc_page returns costs one page; the kernel's
\* directory stays as it is.
LEMMA IntrAllocCosts ==
  ASSUME NEW m, Pool(m), NEW w, NEW a, a = pmm_intr_alloc_page(m)
  PROVE  \/ a.ret = NULL /\ a.mem = m
         \/ /\ a.ret # NULL /\ FrameTaken(m, a.ret, a.mem)
            /\ Costs(m, a.mem, w, 1) /\ a.mem.dir[KDir] = m.dir[KDir]
            /\ Cardinality(a.mem.intr_bitmap \ w) <= Cardinality(m.intr_bitmap \ w) + 1
<1>1. m \in MemoryType
  BY DEF Pool
<1>2. \/ a = Result(m, NULL)
      \/ a.mem \in MemoryType /\ FrameTaken(m, a.ret, a.mem)
  BY <1>1, IntrAlloc
<1>3. CASE a = Result(m, NULL)
  BY <1>3 DEF Result
<1>4. CASE a.mem \in MemoryType /\ FrameTaken(m, a.ret, a.mem)
  <2> DEFINE n == a.mem
             t == a.ret
             b == t - PMM_INTR_START
  <2> HIDE DEF n, t, b
  <2>1. /\ n \in MemoryType /\ t \in Frames /\ t # KDir /\ t # NULL
        /\ n.intr_bitmap = m.intr_bitmap \union {b}
        /\ n.dir = [m.dir EXCEPT ![t] = EmptyDir]
    BY <1>4, Layout DEF FrameTaken, Tables, n, t, b
  <2>2. n.dir[KDir] = m.dir[KDir]
    BY <1>1, <2>1, PartsOfMemory DEF Directories
  <2>3. TablesOf(n) = TablesOf(m)
    BY <2>2 DEF TablesOf
  <2>4. Pool(n)
    BY <2>1, <2>3 DEF Pool, FrameMarked
  <2>5. Cardinality(n.intr_bitmap \ w) <= Cardinality(m.intr_bitmap \ w) + 1
    <3> DEFINE S == m.intr_bitmap \ w
    <3>1. IsFiniteSet(S) /\ Cardinality(S) \in Nat
      BY <1>1, PoolIsFinite
    <3>2. n.intr_bitmap \ w = S \/ n.intr_bitmap \ w = S \union {b}
      BY <2>1
    <3> HIDE DEF S
    <3>3. Cardinality(S \union {b}) = IF b \in S THEN Cardinality(S) ELSE Cardinality(S) + 1
      BY <3>1, FS_AddElement
    <3>4. Cardinality(S \union {b}) <= Cardinality(S) + 1 /\ Cardinality(S) <= Cardinality(S) + 1
      BY <3>1, <3>3
    <3>5. Cardinality(n.intr_bitmap \ w) <= Cardinality(S) + 1
      BY <3>2, <3>4
    <3> QED
      BY <3>5 DEF S
  <2>6. Spent(n, w) <= Spent(m, w) + 1
    <3>1. Cardinality(n.intr_bitmap \ w) \in Nat /\ Cardinality(m.intr_bitmap \ w) \in Nat
      BY <1>1, <2>1, PoolIsFinite
    <3>2. Cardinality(TablesOf(m)) \in Nat
      BY <1>1, PoolIsFinite
    <3> QED
      BY <2>3, <2>5, <3>1, <3>2 DEF Spent
  <2> QED
    BY <1>4, <2>1, <2>2, <2>4, <2>5, <2>6 DEF Costs, n, t
<1> QED
  BY <1>2, <1>3, <1>4

\* A page of the pool that becomes a table of the kernel is not counted.
LEMMA KernelTableCosts ==
  ASSUME NEW m, Pool(m), NEW w, NEW k \in DirIndexes, m.dir[KDir][k] = NotPresent,
         NEW t, NEW n, FrameTaken(m, t, n), n \in MemoryType, n.dir[KDir] = m.dir[KDir],
         Cardinality(n.intr_bitmap \ w) <= Cardinality(m.intr_bitmap \ w) + 1,
         NEW o, DirectoryEntryWritten(n, KDir, k, t, o)
  PROVE  Costs(m, o, w, 0) /\ o.dir[KDir][k] = t
<1>1. /\ m \in MemoryType /\ t \in Frames /\ t \in Tables /\ KDir \in Directories
      /\ m.dir \in [Directories -> [DirIndexes -> Tables \union {NotPresent}]]
      /\ n.dir \in [Directories -> [DirIndexes -> Tables \union {NotPresent}]]
  BY PartsOfMemory DEF Pool, FrameTaken, Directories, Tables
<1>2. /\ o.dir[KDir] = [n.dir[KDir] EXCEPT ![k] = t]
      /\ o.dir \in [Directories -> [DirIndexes -> Tables \union {NotPresent}]]
      /\ o.intr_bitmap = n.intr_bitmap
  BY <1>1 DEF DirectoryEntryWritten
<1>3. o \in MemoryType
  BY <1>2, PartsOfMemory, MemoryOfParts DEF DirectoryEntryWritten
<1>4. /\ o.dir[KDir][k] = t
      /\ \A x \in DirIndexes \ {k} : o.dir[KDir][x] = m.dir[KDir][x]
      /\ DOMAIN o.dir[KDir] = DirIndexes /\ DOMAIN m.dir[KDir] = DirIndexes
  BY <1>1, <1>2
<1>5. TablesOf(o) = TablesOf(m) \union {t}
  <2>1. NotPresent \notin Frames
    BY Layout DEF Tables
  <2> QED
    BY <1>1, <1>4, <2>1 DEF TablesOf
<1>6. t \notin TablesOf(m)
  BY DEF Pool, FrameTaken
<1>7. Cardinality(TablesOf(o)) = Cardinality(TablesOf(m)) + 1
  <2>1. IsFiniteSet(TablesOf(m))
    BY <1>1, PoolIsFinite
  <2> QED
    BY <1>5, <1>6, <2>1, FS_AddElement
<1>8. Pool(o)
  BY <1>2, <1>3, <1>5 DEF Pool, FrameTaken, FrameMarked
<1>9. Spent(o, w) <= Spent(m, w) + 0
  <2>1. /\ Cardinality(m.intr_bitmap \ w) \in Nat /\ Cardinality(TablesOf(m)) \in Nat
        /\ Cardinality(n.intr_bitmap \ w) \in Nat
    BY <1>1, PoolIsFinite
  <2> QED
    BY <1>2, <1>7, <2>1 DEF Spent
<1> QED
  BY <1>4, <1>8, <1>9 DEF Costs

\* Writing an entry of a table costs nothing.
LEMMA EntryCosts ==
  ASSUME NEW m, Pool(m), NEW w, NEW t \in Tables, NEW j \in TabIndexes, NEW p \in UserPages,
         NEW n, n = write_table_entry(m, t, j, p)
  PROVE  Costs(m, n, w, 0)
<1>1. m \in MemoryType
  BY DEF Pool
<1>2. TableEntryWritten(m, t, j, p, n)
  BY <1>1, WriteTableEntry, Zenon
<1>3. m.tab \in [Tables -> [TabIndexes -> PageNumbers \union {NotPresent}]] /\ p \in PageNumbers
  BY <1>1, PartsOfMemory DEF PageNumbers
<1>4. n.tab \in [Tables -> [TabIndexes -> PageNumbers \union {NotPresent}]]
  BY <1>2, <1>3 DEF TableEntryWritten
<1>5. n \in MemoryType
  BY <1>1, <1>2, <1>4, PartsOfMemory, MemoryOfParts DEF TableEntryWritten
<1> QED
  BY <1>2, <1>5, CostsNothing DEF TableEntryWritten

\* What costs little costs no more than that.
LEMMA CostsMore ==
  ASSUME NEW m, Pool(m), NEW n, NEW w, NEW k \in Nat, NEW l \in Nat, k <= l, Costs(m, n, w, k)
  PROVE  Costs(m, n, w, l)
<1>1. Spent(m, w) \in Int /\ Spent(n, w) \in Int
  BY PoolIsFinite DEF Costs, Pool
<1> QED
  BY <1>1 DEF Costs

\* A step that costs nothing, after another one.
LEMMA CostsNoMore ==
  ASSUME NEW m, Pool(m), NEW n, NEW o, NEW w, NEW k \in Nat, Costs(m, n, w, k), Costs(n, o, w, 0)
  PROVE  Costs(m, o, w, k)
<1>1. k = k + 0 /\ 0 \in Nat
  OBVIOUS
<1> QED
  BY <1>1, CostsAdd

\* Clearing bits of pages, and kpanic, cost nothing.
LEMMA ClearedCosts ==
  ASSUME NEW m, Pool(m), NEW w, NEW ks, NEW n, BitsCleared(m, ks, n)
  PROVE  Costs(m, n, w, 0)
<1>1. n \in MemoryType
  BY PartsOfMemory, MemoryOfParts DEF BitsCleared, Pool
<1> QED
  BY <1>1, CostsNothing DEF BitsCleared

\* kpanic costs nothing.
LEMMA PanicCosts ==
  ASSUME NEW m, Pool(m), NEW w, NEW text \in PanicTexts, NEW n, n = kpanic(m, text)
  PROVE  Costs(m, n, w, 0)
<1>1. PanicWritten(m, text, n)
  BY Kpanic, Zenon DEF Pool
<1>2. n \in MemoryType
  BY <1>1, PartsOfMemory, MemoryOfParts DEF PanicWritten, Pool
<1> QED
  BY <1>1, <1>2, CostsNothing DEF PanicWritten

\* The table for an identity entry is the kernel's: it is not counted, not even
\* when pmm_map_identity panics after it has made the table.
LEMMA MapIdentityCosts ==
  ASSUME NEW m, Pool(m), NEW w, NEW page \in UserPages, NEW r, r = pmm_map_identity(m, page)
  PROVE  Costs(m, r, w, 0)
<1> DEFINE k == PDX(page)
           a == pmm_intr_alloc_page(m)
<1>1. k \in DirIndexes /\ PTX(page) \in TabIndexes /\ 0 \in TabIndexes
  BY Layout, LayoutAssumption DEF DirIndexes, TabIndexes, LayoutAssumption
<1>2. m \in MemoryType
  BY DEF Pool
<1>3. ASSUME NEW n, Costs(m, n, w, 0), NEW text \in PanicTexts, r = kpanic(n, text)
      PROVE  Costs(m, r, w, 0)
  BY <1>3, PanicCosts, CostsNoMore DEF Costs
<1>4. ASSUME NEW n, Costs(m, n, w, 0), NEW t \in Tables, NEW j \in TabIndexes,
             r = write_table_entry(n, t, j, page)
      PROVE  Costs(m, r, w, 0)
  <2>1. Pool(n)
    BY <1>4 DEF Costs
  <2>2. Costs(n, r, w, 0)
    BY <1>4, <2>1, EntryCosts
  <2> QED
    BY <1>4, <2>2, CostsNoMore
<1>5. Costs(m, m, w, 0)
  BY <1>2, CostsNothing
<1>6. CASE m.dir[KDir][k] # NotPresent
  <2> DEFINE t == m.dir[KDir][k]
  <2>1. \/ r = kpanic(m, "Page already allocated")
        \/ r = write_table_entry(m, t, PTX(page), page)
    BY <1>6 DEF pmm_map_identity
  <2>2. t \in Tables
    BY <1>1, <1>2, <1>6, PartsOfMemory DEF Directories
  <2> HIDE DEF t
  <2> QED
    BY <1>1, <1>3, <1>4, <1>5, <2>1, <2>2 DEF PanicTexts
<1>7. CASE m.dir[KDir][k] = NotPresent /\ a.ret = NULL
  <2>1. r = kpanic(m, "Failed allocate page table")
    BY <1>7 DEF pmm_map_identity
  <2> QED
    BY <1>3, <1>5, <2>1 DEF PanicTexts
<1>8. CASE m.dir[KDir][k] = NotPresent /\ a.ret # NULL
  <2> DEFINE t == a.ret
             n == a.mem
             m1 == write_directory_entry(n, KDir, k, t)
  <2>0. a = pmm_intr_alloc_page(m)
    OBVIOUS
  <2>1. \/ r = kpanic(m1, "Page already allocated")
        \/ r = write_table_entry(m1, t, 0, page)
    BY <1>8 DEF pmm_map_identity
  <2> HIDE DEF a, k
  <2>2. /\ FrameTaken(m, t, n) /\ n \in MemoryType /\ n.dir[KDir] = m.dir[KDir]
        /\ Cardinality(n.intr_bitmap \ w) <= Cardinality(m.intr_bitmap \ w) + 1
    BY <1>8, <2>0, IntrAllocCosts DEF Costs, Pool
  <2>3. DirectoryEntryWritten(n, KDir, k, t, m1)
    BY <2>2, WriteDirectoryEntry, Zenon
  <2> HIDE DEF t, n, m1
  <2>4. Costs(m, m1, w, 0)
    BY <1>1, <1>8, <2>2, <2>3, KernelTableCosts
  <2>5. t \in Tables
    BY <2>2 DEF FrameTaken, Tables
  <2> QED
    BY <1>1, <1>3, <1>4, <2>1, <2>4, <2>5 DEF PanicTexts
<1> QED
  BY <1>6, <1>7, <1>8

\* pmm_alloc_page costs nothing.
LEMMA AllocCosts ==
  ASSUME NEW m, Pool(m), NEW w, NEW a, a = pmm_alloc_page(m)
  PROVE  Costs(m, a.mem, w, 0) /\ a.ret \in UserPages \union {NULL}
<1> DEFINE k == find_first_page(m.bitmap, PagesCount)
           page == PMM_START + k
           n == bitmap_set(m, k)
<1>1. m \in MemoryType
  BY DEF Pool
<1>2. CASE k = -1
  <2>1. a = Result(m, NULL)
    BY <1>2 DEF pmm_alloc_page
  <2>2. Costs(m, m, w, 0)
    BY <1>1, CostsNothing
  <2> QED
    BY <2>1, <2>2 DEF Result
<1>3. CASE k # -1
  <2>1. k \in Bits
    BY <1>3, FindFirstPage DEF Bits
  <2>2. a = Result(pmm_map_identity(n, page), page)
    BY <1>3 DEF pmm_alloc_page
  <2>3. page \in UserPages
    BY <2>1, PagesOfBits
  <2>4. BitSet(m, k, n)
    BY <1>1, BitmapSet
  <2> HIDE DEF k, page, n
  <2>5. n.bitmap \in SUBSET Bits
    BY <1>1, <2>1, <2>4, PartsOfMemory DEF BitSet
  <2>6. n \in MemoryType
    BY <1>1, <2>4, <2>5, PartsOfMemory, MemoryOfParts DEF BitSet
  <2>7. Costs(m, n, w, 0)
    BY <2>4, <2>6, CostsNothing DEF BitSet
  <2>8. a.mem = pmm_map_identity(n, page) /\ a.ret = page
    BY <2>2 DEF Result
  <2>9. Pool(n)
    BY <2>7 DEF Costs
  <2>10. Costs(n, a.mem, w, 0)
    BY <2>3, <2>8, <2>9, MapIdentityCosts
  <2> QED
    BY <2>3, <2>7, <2>8, <2>10, CostsNoMore
<1> QED
  BY <1>2, <1>3


\* A table for the directory of a process costs a page, one for the kernel's
\* directory does not count.
LEMMA MappageCosts ==
  ASSUME NEW m, Pool(m), NEW w, NEW d \in Directories, NEW va, PDX(va) \in DirIndexes,
         PTX(va) \in TabIndexes, NEW p \in UserPages, NEW r, r = vmm_mappage(m, d, va, p)
  PROVE  Costs(m, r.mem, w, 1) /\ (d = KDir => Costs(m, r.mem, w, 0))
<1> DEFINE k == PDX(va)
           a == pmm_intr_alloc_page(m)
           u == vmm_walk_pgdir(m, d, va)
<1>1. m \in MemoryType
  BY DEF Pool
<1>2. Costs(m, m, w, 0)
  BY <1>1, CostsNothing
<1>3. SUFFICES ASSUME NEW c \in {0, 1}, d = KDir => c = 0, d # KDir => c = 1
               PROVE  Costs(m, r.mem, w, c)
  <2>1. CASE d = KDir
    BY <1>3, <2>1, CostsMore
  <2>2. CASE d # KDir
    BY <1>3, <2>2
  <2> QED
    BY <2>1, <2>2
<1>4. c \in Nat
  OBVIOUS
<1>5. \/ u.ret = NULL /\ Costs(m, u.mem, w, c)
      \/ u.ret \in Tables /\ Costs(m, u.mem, w, c)
  <2>1. CASE m.dir[d][k] # NotPresent
    <3>1. u = Result(m, m.dir[d][k])
      BY <2>1 DEF vmm_walk_pgdir
    <3>2. m.dir[d][k] \in Tables
      BY <1>1, <2>1, PartsOfMemory
    <3>3. Costs(m, m, w, c)
      BY <1>2, <1>4, CostsMore
    <3> QED
      BY <3>1, <3>2, <3>3 DEF Result
  <2>2. CASE m.dir[d][k] = NotPresent /\ a.ret = NULL
    <3>0. a = pmm_intr_alloc_page(m)
      OBVIOUS
    <3>1. u = a
      BY <2>2 DEF vmm_walk_pgdir
    <3> HIDE DEF a
    <3>2. a.mem = m
      BY <2>2, <3>0, IntrAllocCosts
    <3>3. Costs(m, m, w, c)
      BY <1>2, <1>4, CostsMore
    <3> QED
      BY <2>2, <3>1, <3>2, <3>3
  <2>3. CASE m.dir[d][k] = NotPresent /\ a.ret # NULL
    <3> DEFINE t == a.ret
               n == a.mem
               m1 == write_directory_entry(n, d, k, t)
    <3>0. a = pmm_intr_alloc_page(m)
      OBVIOUS
    <3>1. u = Result(m1, t)
      BY <2>3 DEF vmm_walk_pgdir
    <3>2. u.mem = m1 /\ u.ret = t
      BY <3>1 DEF Result
    <3> HIDE DEF a, k, u
    <3>3. /\ FrameTaken(m, t, n) /\ n \in MemoryType /\ n.dir[KDir] = m.dir[KDir]
          /\ Cardinality(n.intr_bitmap \ w) <= Cardinality(m.intr_bitmap \ w) + 1
          /\ Costs(m, n, w, 1)
      BY <2>3, <3>0, IntrAllocCosts DEF Costs, Pool
    <3>4. DirectoryEntryWritten(n, d, k, t, m1)
      BY <3>3, WriteDirectoryEntry, Zenon
    <3> HIDE DEF t, n, m1
    <3>5. t \in Tables
      BY <3>3 DEF FrameTaken, Tables
    <3>6. CASE d = KDir
      <4>1. k \in DirIndexes
        BY DEF k
      <4>2. Costs(m, m1, w, 0)
        BY <2>3, <3>3, <3>4, <3>6, <4>1, KernelTableCosts
      <4> QED
        BY <1>3, <3>2, <3>5, <3>6, <4>2
    <3>7. CASE d # KDir
      <4>1. n.dir \in [Directories -> [DirIndexes -> Tables \union {NotPresent}]]
        BY <3>3, PartsOfMemory
      <4>2. /\ m1.dir \in [Directories -> [DirIndexes -> Tables \union {NotPresent}]]
            /\ m1.dir[KDir] = n.dir[KDir] /\ m1.intr_bitmap = n.intr_bitmap
        BY <3>4, <3>5, <3>7, <4>1 DEF DirectoryEntryWritten, k, Directories
      <4>3. m1 \in MemoryType
        BY <3>3, <3>4, <4>2, PartsOfMemory, MemoryOfParts DEF DirectoryEntryWritten
      <4>4. Costs(n, m1, w, 0)
        BY <3>3, <4>2, <4>3, CostsNothing DEF Costs
      <4>5. Costs(m, m1, w, 1)
        BY <3>3, <4>4, CostsNoMore
      <4> QED
        BY <1>3, <3>2, <3>5, <3>7, <4>5
    <3> QED
      BY <3>6, <3>7
  <2> QED
    BY <2>1, <2>2, <2>3
<1> DEFINE m1 == write_table_entry(u.mem, u.ret, PTX(va), p)
<1>6. \/ u.ret = NULL /\ r = Result(u.mem, -1)
      \/ u.ret # NULL /\ r = Result(m1, 0)
  BY DEF vmm_mappage
<1>7. CASE u.ret = NULL /\ r = Result(u.mem, -1)
  BY <1>5, <1>7 DEF Result
<1>8. CASE u.ret # NULL /\ r = Result(m1, 0)
  <2>1. u.ret \in Tables /\ Costs(m, u.mem, w, c) /\ r.mem = m1
    BY <1>5, <1>8 DEF Result
  <2> HIDE DEF u
  <2>2. Pool(u.mem) /\ m1 = write_table_entry(u.mem, u.ret, PTX(va), p)
    BY <2>1 DEF Costs
  <2> HIDE DEF m1
  <2>3. Costs(u.mem, m1, w, 0)
    BY <2>1, <2>2, EntryCosts
  <2> QED
    BY <1>4, <2>1, <2>3, CostsNoMore
<1> QED
  BY <1>6, <1>7, <1>8

\* A directory costs a page.
LEMMA DirectoryCosts ==
  ASSUME NEW m, Pool(m), NEW w, NEW a, a = vmm_create_user_page_directory(m)
  PROVE  Costs(m, a.mem, w, 1) /\ a.ret \in Frames \union {NULL}
<1> DEFINE b == pmm_intr_alloc_page(m)
           f == b.ret
           n == b.mem
           o == write_page_directory(n, f, KernelHalf)
<1>0. b = pmm_intr_alloc_page(m)
  OBVIOUS
<1>1. \/ f = NULL /\ a = b
      \/ f # NULL /\ a = Result(o, f)
  BY DEF vmm_create_user_page_directory
<1> HIDE DEF b
<1>2. m \in MemoryType
  BY DEF Pool
<1>3. CASE f = NULL /\ a = b
  <2>1. n = m
    BY <1>0, <1>3, IntrAllocCosts
  <2>2. Costs(m, m, w, 0)
    BY <1>2, CostsNothing
  <2>3. Costs(m, m, w, 1)
    BY <2>2, CostsMore
  <2> QED
    BY <1>3, <2>1, <2>3
<1>4. CASE f # NULL /\ a = Result(o, f)
  <2>1. FrameTaken(m, f, n) /\ Costs(m, n, w, 1) /\ n \in MemoryType
    BY <1>0, <1>4, IntrAllocCosts DEF Costs, Pool
  <2>2. DirectoryWritten(n, f, KernelHalf, o)
    BY <2>1, WritePageDirectory, Zenon
  <2>3. a.mem = o /\ a.ret = f
    BY <1>4 DEF Result
  <2> HIDE DEF f, n, o
  <2>4. f \in Frames /\ f # KDir
    BY <2>1, Layout DEF FrameTaken, Tables
  <2>5. n.dir \in [Directories -> [DirIndexes -> Tables \union {NotPresent}]]
    BY <2>1, PartsOfMemory
  <2>6. /\ o.dir \in [Directories -> [DirIndexes -> Tables \union {NotPresent}]]
        /\ o.dir[KDir] = n.dir[KDir]
    BY <2>2, <2>4, <2>5, KernelHalfShape DEF DirectoryWritten, Directories
  <2>7. o \in MemoryType
    BY <2>1, <2>2, <2>6, PartsOfMemory, MemoryOfParts DEF DirectoryWritten
  <2>8. Costs(n, o, w, 0)
    BY <2>1, <2>2, <2>6, <2>7, CostsNothing DEF DirectoryWritten, Costs
  <2>9. Costs(m, o, w, 1)
    BY <2>1, <2>8, CostsNoMore
  <2> QED
    BY <2>3, <2>4, <2>9
<1> QED
  BY <1>1, <1>3, <1>4

\* What process_create undoes costs nothing.
LEMMA UndoCosts ==
  ASSUME NEW m, Pool(m), NEW w, NEW d \in Frames, NEW st \in UserPages, NEW n, n = Undo(m, d, st)
  PROVE  Costs(m, n, w, 0)
<1> DEFINE o == pmm_free_page(m, st)
<1>1. o = pmm_free_page(m, st) /\ n = vmm_destroy_user_page_directory(o, d)
  BY DEF Undo
<1> HIDE DEF o
<1>2. Costs(m, o, w, 0)
  BY <1>1, FreedPage, ClearedCosts DEF Pool
<1>3. Pool(o)
  BY <1>2 DEF Costs
<1>4. BitsCleared(o, {p - PMM_START : p \in Mapped(o, d) \intersect UserPages}, n)
  BY <1>1, <1>3, DestroyedDirectory DEF Pool
<1>5. Costs(o, n, w, 0)
  BY <1>3, <1>4, ClearedCosts
<1> QED
  BY <1>2, <1>5, CostsNoMore

\* process_create takes a directory and two tables at most, whatever fails.
LEMMA CodeMappedCosts ==
  ASSUME NEW m, Pool(m), NEW w, NEW d \in Frames, NEW st \in UserPages, NEW co \in UserPages,
         NEW r, r.mem = m
  PROVE  Costs(m, CodeMapped(d, st, co, r).mem, w, 0)
<1>1. CASE r.ret = 0
  <2>1. CodeMapped(d, st, co, r).mem = m
    BY <1>1 DEF CodeMapped, Space
  <2>2. Costs(m, m, w, 0)
    BY CostsNothing DEF Pool
  <2> QED
    BY <2>1, <2>2
<1>2. CASE r.ret # 0
  <2> DEFINE o == Undo(m, d, st)
             n == pmm_free_page(o, co)
  <2>1. CodeMapped(d, st, co, r).mem = n
    BY <1>2 DEF CodeMapped, Space
  <2>2. Costs(m, o, w, 0)
    BY UndoCosts
  <2> HIDE DEF o
  <2>3. Pool(o)
    BY <2>2 DEF Costs
  <2>4. n = pmm_free_page(o, co)
    OBVIOUS
  <2> HIDE DEF n
  <2>5. Costs(o, n, w, 0)
    BY <2>3, <2>4, FreedPage, ClearedCosts DEF Pool
  <2> QED
    BY <2>1, <2>2, <2>5, CostsNoMore
<1> QED
  BY <1>1, <1>2


\* The fourth step and what follows.
LEMMA CodeTakenCosts ==
  ASSUME NEW m, Pool(m), NEW w, NEW d \in Frames, NEW st \in UserPages,
         NEW c, c.mem = m, c.ret \in UserPages \union {NULL}
  PROVE  Costs(m, CodeTaken(d, st, c).mem, w, 1)
<1> DEFINE va == USER_PROGRAM_BASE
           r == vmm_mappage(m, d, va, c.ret)
           n == Undo(m, d, st)
           o == CodeMapped(d, st, c.ret, r).mem
<1>0. /\ r = vmm_mappage(m, d, va, c.ret) /\ n = Undo(m, d, st)
      /\ PDX(va) \in DirIndexes /\ PTX(va) \in TabIndexes /\ d \in Directories
  BY Bases, SplitAddress DEF DirIndexes, Directories
<1>1. CodeTaken(d, st, c).mem = IF Panicked(m) THEN m ELSE IF c.ret = NULL THEN n ELSE o
  BY DEF CodeTaken, Space
<1>2. Costs(m, m, w, 0)
  BY CostsNothing DEF Pool
<1>3. Costs(m, n, w, 0)
  BY <1>0, UndoCosts
<1> HIDE DEF r, n, va
<1>4. ASSUME c.ret # NULL
      PROVE  Costs(m, o, w, 1)
  <2>1. c.ret \in UserPages
    BY <1>4
  <2>2. Costs(m, r.mem, w, 1)
    BY <1>0, <2>1, MappageCosts
  <2>3. Pool(r.mem)
    BY <2>2 DEF Costs
  <2>4. Costs(r.mem, o, w, 0)
    BY <2>1, <2>3, CodeMappedCosts
  <2> QED
    BY <2>2, <2>4, CostsNoMore
<1> HIDE DEF o
<1>5. Costs(m, m, w, 1) /\ Costs(m, n, w, 1)
  BY <1>2, <1>3, CostsMore
<1> QED
  BY <1>1, <1>4, <1>5

\* The third step and what follows.
LEMMA StackMappedCosts ==
  ASSUME NEW m, Pool(m), NEW w, NEW d \in Frames, NEW st \in UserPages,
         NEW r, r.mem = m
  PROVE  Costs(m, StackMapped(d, st, r).mem, w, 1)
<1> DEFINE c == pmm_alloc_page(m)
           n == Undo(m, d, st)
           o == CodeTaken(d, st, c).mem
<1>0. c = pmm_alloc_page(m) /\ n = Undo(m, d, st)
  OBVIOUS
<1>1. StackMapped(d, st, r).mem = IF r.ret = 0 THEN o ELSE n
  BY DEF StackMapped, Space
<1> HIDE DEF c, n
<1>2. Costs(m, n, w, 0)
  BY <1>0, UndoCosts
<1>3. Costs(m, n, w, 1)
  BY <1>2, CostsMore
<1>4. Costs(m, c.mem, w, 0) /\ c.ret \in UserPages \union {NULL}
  BY <1>0, AllocCosts
<1>5. Pool(c.mem)
  BY <1>4 DEF Costs
<1>6. Costs(c.mem, o, w, 1)
  BY <1>4, <1>5, CodeTakenCosts
<1> HIDE DEF o
<1>7. 1 = 0 + 1 /\ 0 \in Nat /\ 1 \in Nat
  OBVIOUS
<1>8. Costs(m, o, w, 1)
  BY <1>4, <1>6, <1>7, CostsAdd
<1> QED
  BY <1>1, <1>3, <1>8

\* The second step and what follows.
LEMMA StackTakenCosts ==
  ASSUME NEW m, Pool(m), NEW w, NEW d \in Frames,
         NEW s, s.mem = m, s.ret \in UserPages \union {NULL}
  PROVE  Costs(m, StackTaken(d, s).mem, w, 2)
<1> DEFINE va == KERNEL_STACK_BASE
           r == vmm_mappage(m, d, va, s.ret)
           n == vmm_destroy_user_page_directory(m, d)
           o == StackMapped(d, s.ret, r).mem
<1>0. /\ r = vmm_mappage(m, d, va, s.ret) /\ n = vmm_destroy_user_page_directory(m, d)
      /\ PDX(va) \in DirIndexes /\ PTX(va) \in TabIndexes /\ d \in Directories
  BY Bases, SplitAddress DEF DirIndexes, Directories
<1>1. StackTaken(d, s).mem = IF Panicked(m) THEN m ELSE IF s.ret = NULL THEN n ELSE o
  BY DEF StackTaken, Space
<1>2. Costs(m, m, w, 0)
  BY CostsNothing DEF Pool
<1> HIDE DEF r, n, va
<1>3. Costs(m, n, w, 0)
  <2>1. BitsCleared(m, {p - PMM_START : p \in Mapped(m, d) \intersect UserPages}, n)
    BY <1>0, DestroyedDirectory DEF Pool
  <2> QED
    BY <2>1, ClearedCosts
<1>4. ASSUME s.ret # NULL
      PROVE  Costs(m, o, w, 2)
  <2>1. s.ret \in UserPages
    BY <1>4
  <2>2. Costs(m, r.mem, w, 1)
    BY <1>0, <2>1, MappageCosts
  <2>3. Pool(r.mem)
    BY <2>2 DEF Costs
  <2>4. Costs(r.mem, o, w, 1)
    BY <2>1, <2>3, StackMappedCosts
  <2>5. 2 = 1 + 1 /\ 1 \in Nat /\ 2 \in Nat
    OBVIOUS
  <2> HIDE DEF o
  <2> QED
    BY <2>2, <2>4, <2>5, CostsAdd
<1> HIDE DEF o
<1>5. Costs(m, m, w, 2) /\ Costs(m, n, w, 2)
  BY <1>2, <1>3, CostsMore
<1> QED
  BY <1>1, <1>4, <1>5

\* A call of process_create costs three pages of the pool at most.
LEMMA BuildCosts ==
  ASSUME NEW m, Pool(m), NEW w
  PROVE  Costs(m, BuildSpace(m).mem, w, 3)
<1> DEFINE a == vmm_create_user_page_directory(m)
           s == pmm_alloc_page(a.mem)
           o == StackTaken(a.ret, s).mem
<1>0. a = vmm_create_user_page_directory(m) /\ s = pmm_alloc_page(a.mem)
  OBVIOUS
<1>1. BuildSpace(m).mem = IF a.ret = NULL THEN a.mem ELSE o
  BY DEF BuildSpace, DirectoryMade, Space
<1> HIDE DEF a, s
<1>2. Costs(m, a.mem, w, 1) /\ a.ret \in Frames \union {NULL}
  BY <1>0, DirectoryCosts
<1>3. Pool(a.mem)
  BY <1>2 DEF Costs
<1>4. Costs(m, a.mem, w, 3)
  BY <1>2, CostsMore
<1>5. ASSUME a.ret # NULL
      PROVE  Costs(m, o, w, 3)
  <2>1. Costs(a.mem, s.mem, w, 0) /\ s.ret \in UserPages \union {NULL}
    BY <1>0, <1>3, AllocCosts
  <2>2. Pool(s.mem)
    BY <2>1 DEF Costs
  <2>3. Costs(s.mem, o, w, 2)
    BY <1>2, <1>5, <2>1, <2>2, StackTakenCosts
  <2> HIDE DEF o
  <2>4. Costs(m, s.mem, w, 1)
    BY <1>2, <2>1, CostsNoMore
  <2>5. 3 = 1 + 2 /\ 1 \in Nat /\ 2 \in Nat /\ 3 \in Nat
    OBVIOUS
  <2> QED
    BY <2>3, <2>4, <2>5, CostsAdd
<1> HIDE DEF o
<1> QED
  BY <1>1, <1>4, <1>5

-----------------------------------------------------------------------------
(* When vmm_mappage fails *)

\* A set of natural numbers that is not empty has a least element.
LEMMA LeastElement ==
  ASSUME NEW T \in SUBSET Nat, T # {}
  PROVE  \E x \in T : \A y \in T : x <= y
<1> DEFINE R == {ss \in Nat \X Nat : ss[1] < ss[2]}
<1>1. IsWellFoundedOn(R, Nat)
  BY NatLessThanWellFounded DEF OpToRel
<1>2. \A x, y \in Nat : x < y => <<x, y>> \in R
  OBVIOUS
<1> HIDE DEF R
<1>3. PICK x \in T : \A y \in T : ~(<<y, x>> \in R)
  BY <1>1, WFMin
<1>4. \A y \in T : ~(y < x) /\ y \in Nat /\ x \in Nat
  BY <1>2, <1>3
<1> QED
  BY <1>4

\* pmm_intr_alloc_page returns NULL only when every page of the pool is marked.
LEMMA PoolIsEmpty ==
  ASSUME NEW m \in MemoryType, pmm_intr_alloc_page(m).ret = NULL
  PROVE  m.intr_bitmap = IntrBits
<1> DEFINE k == find_first_page(m.intr_bitmap, IntrPagesCount)
           free == IntrBits \ m.intr_bitmap
<1>1. m.intr_bitmap \in SUBSET IntrBits
  BY PartsOfMemory
<1>2. SUFFICES ASSUME free # {}
               PROVE  FALSE
  BY <1>1
<1>3. free \in SUBSET Nat
  BY Layout
<1>4. PICK x \in free : \A y \in free : x <= y
  BY <1>2, <1>3, LeastElement
<1>5. FirstZero(m.intr_bitmap, IntrPagesCount, x)
  <2>1. x \in 0 .. Capacity(IntrPagesCount) - 1 /\ x \notin m.intr_bitmap
    BY DEF IntrBits
  <2>2. ASSUME NEW j \in 0 .. Capacity(IntrPagesCount) - 1, j < x
        PROVE  j \in m.intr_bitmap
    <3>1. j \in IntrBits /\ ~(x <= j)
      BY <1>3, <2>2 DEF IntrBits
    <3> QED
      BY <1>4, <3>1
  <2> QED
    BY <2>1, <2>2 DEF FirstZero
<1>6. k \in IntrBits
  BY <1>5 DEF find_first_page, FirstZero, IntrBits
<1>7. pmm_intr_alloc_page(m).ret = PMM_INTR_START + k /\ PMM_INTR_START + k \in Frames
  <2>1. k # -1
    BY <1>6, Layout
  <2> QED
    BY <1>6, <2>1, PagesOfBits DEF pmm_intr_alloc_page, Result
<1> QED
  BY <1>7, Layout DEF Tables

\* vmm_mappage fails only when there is no table for the address and no page of
\* the pool to make one.
LEMMA MappageFails ==
  ASSUME NEW m \in MemoryType, NEW d \in Directories, NEW va, PDX(va) \in DirIndexes, NEW p,
         vmm_mappage(m, d, va, p).ret = -1
  PROVE  vmm_va2pa(m, d, va) = NULL /\ m.intr_bitmap = IntrBits
<1> DEFINE u == vmm_walk_pgdir(m, d, va)
           a == pmm_intr_alloc_page(m)
<1>1. u.ret = NULL
  BY DEF vmm_mappage, Result
<1>2. m.dir[d][PDX(va)] \in Tables \union {NotPresent} /\ NULL \notin Tables
  BY Layout, PartsOfMemory
<1>3. m.dir[d][PDX(va)] = NotPresent /\ a.ret = NULL
  BY <1>1, <1>2 DEF vmm_walk_pgdir, Result
<1> QED
  BY <1>3, PoolIsEmpty DEF vmm_va2pa

-----------------------------------------------------------------------------
(* The inductive invariant *)

\* The memory: each process has its space and nothing else is marked, unless
\* the kernel has panicked; what each call of process_create has cost.
MemoryHolds ==
  /\ mem \in MemoryType /\ Pool(mem)
  /\ withheld.bits \in SUBSET Bits /\ LastBits(withheld.bits)
  /\ Panicked(mem) => pc = "panicked"
  /\ ~Panicked(mem) => MemorySound(mem, ptable, withheld.bits)
  /\ Spent(mem, withheld.intr_bits) <= 3 * (next_pid - 1)

PidsAreSet == \A s \in Slots : Live(s) => ptable[s].pid # 0

\* The frames of the running code are in no stack that a process has.
StackIsNobodys == \A s \in Slots : Live(s) => ptable[s].kernel_stack # stack

\* The slots are filled from the first one on.
NoGap == \A s, r \in Slots : Live(s) /\ r < s => Live(r)

\* Where the CPU is.  On the first stack the scheduler runs once, and takes slot
\* 0; process 0 then runs until it exits, on a stack that nobody has any more;
\* any process that is taken after that is taken on this stack.
Control ==
  /\ prev = None
  /\ \A s \in Slots : ptable[s].state = RUNNING => s = current_process
  /\ pc \in {"kmain", "scan"} => current_process = None
  /\ pc \notin {"switch", "user", "read_wait", "read_echo"} => cr3 = KDir
  /\ pc = "kmain" => scheduler_running = FALSE
  /\ pc \in {"kmain", "switch"} => stack = BootStack
  /\ pc = "scan" => i = 0
  /\ pc \in {"mark", "load", "switch"} => current_process \in Slots
  /\ pc = "mark" => ptable[current_process].state = RUNNABLE
  /\ pc \in {"load", "switch"} => ptable[current_process].state = RUNNING
  /\ pc = "switch" => cr3 = Directory(current_process)
  /\ pc \in {"user", "read_wait", "read_echo", "exit_terminate"} =>
       /\ current_process = 0 /\ ptable[0].state = RUNNING
       /\ stack = ptable[0].kernel_stack
  /\ InProcess => cr3 = Directory(0)
  /\ pc = "exit_clear" => current_process = 0 /\ stack # BootStack
  /\ stack = BootStack => NoGap /\ current_process \in {None, 0}
  /\ stack # BootStack /\ pc \in {"scan", "mark", "load", "exit_clear"} =>
       StackIsNobodys /\ ~Live(0)

IInv ==
  /\ TypeOK
  /\ MemoryHolds
  /\ PidsAreSet
  /\ pc \notin Stopped => Control
  /\ LoadedDirectoryLives
  /\ KeepsItsStack

-----------------------------------------------------------------------------
(* Slots *)

\* The slots start with 0, and None is none of them.
LEMMA SlotNumbers ==
  /\ 0 \in Slots /\ None \notin Slots /\ Slots \subseteq Nat
  /\ \A s \in Slots : s < MAX_PROCESSES /\ s >= 0
  /\ MAX_PROCESSES \in Nat /\ MaxPid \in Nat
BY ProcessAssumption DEF ProcessAssumption, Slots, None

\* A set of slots that is not empty has a first and a last one.
LEMMA FirstAndLast ==
  ASSUME NEW T \in SUBSET Slots, T # {}
  PROVE  /\ Min(T) \in T /\ \A s \in T : Min(T) <= s
         /\ Max(T) \in T /\ \A s \in T : s <= Max(T)
<1>1. \A s \in T : s \in Nat /\ s < MAX_PROCESSES /\ MAX_PROCESSES \in Nat
  BY SlotNumbers
<1>2. \E s \in T : \A r \in T : s <= r
  BY <1>1, LeastElement
<1>3. \E s \in T : \A r \in T : s >= r
  <2> DEFINE U == {MAX_PROCESSES - s : s \in T}
  <2>1. U \in SUBSET Nat /\ U # {}
    BY <1>1
  <2>2. PICK u \in U : \A v \in U : u <= v
    BY <2>1, LeastElement
  <2>3. PICK s \in T : u = MAX_PROCESSES - s
    OBVIOUS
  <2>4. \A r \in T : MAX_PROCESSES - s <= MAX_PROCESSES - r
    BY <2>2, <2>3
  <2>5. \A r \in T : s >= r
    BY <1>1, <2>4
  <2> QED
    BY <2>5
<1>4. Min(T) \in T /\ \A s \in T : Min(T) <= s
  BY <1>2 DEF Min
<1>5. Max(T) \in T /\ \A s \in T : Max(T) >= s
  BY <1>3 DEF Max
<1> QED
  BY <1>1, <1>4, <1>5

-----------------------------------------------------------------------------
(* What the invariant says of the memory *)

\* The memory is sound while the CPU runs.
LEMMA RunningIsSound ==
  ASSUME MemoryHolds, pc \notin Stopped
  PROVE  ~Panicked(mem) /\ MemorySound(mem, ptable, withheld.bits)
BY DEF MemoryHolds, Stopped

\* The space of a process.
LEMMA LiveSpace ==
  ASSUME NEW w, MemorySound(mem, ptable, w), NEW s \in Slots, Live(s)
  PROVE  /\ Directory(s) \in Frames /\ Directory(s) \in Directories /\ Directory(s) # KDir
         /\ ptable[s].kernel_stack \in UserPages
         /\ ptable[s].kernel_stack # BootStack
         /\ vmm_va2pa(mem, Directory(s), KERNEL_STACK_BASE) = ptable[s].kernel_stack
<1>1. s \in LiveIn(ptable)
  BY DEF Live, LiveIn
<1>2. PICK co \in UserPages : HasSpace(mem, ptable[s].page_directory, ptable[s].kernel_stack, co)
  BY <1>1 DEF MemorySound, SpacesApart
<1>3. BootStack \notin UserPages
  BY Layout DEF BootStack, PMM_START
<1> QED
  BY <1>2, <1>3, Layout DEF HasSpace, Directory, Directories

\* Two processes have two stacks.
LEMMA StacksDiffer ==
  ASSUME NEW w, MemorySound(mem, ptable, w),
         NEW s \in Slots, Live(s), NEW r \in Slots, Live(r), s # r
  PROVE  ptable[s].kernel_stack # ptable[r].kernel_stack
<1>1. s \in LiveIn(ptable) /\ r \in LiveIn(ptable)
  BY DEF Live, LiveIn
<1>2. PICK co \in UserPages : HasSpace(mem, ptable[s].page_directory, ptable[s].kernel_stack, co)
  BY <1>1 DEF MemorySound, SpacesApart
<1>3. PICK c \in UserPages : HasSpace(mem, ptable[r].page_directory, ptable[r].kernel_stack, c)
  BY <1>1 DEF MemorySound, SpacesApart
<1>4. UserPagesOf(mem, ptable[s].page_directory)
        \intersect UserPagesOf(mem, ptable[r].page_directory) = {}
  BY <1>1 DEF MemorySound, SpacesApart
<1> QED
  BY <1>2, <1>3, <1>4 DEF HasSpace

\* Loading the directory of a process: the code goes on when it runs on the
\* kernel's first stack or on the stack of that process.
LEMMA LoadsDirectory ==
  ASSUME NEW w, MemorySound(mem, ptable, w), NEW s \in Slots, Live(s), NEW next
  PROVE  AfterLoad(mem, Directory(s), next) =
           IF stack = BootStack \/ stack = ptable[s].kernel_stack THEN next ELSE "wild"
<1>1. /\ vmm_va2pa(mem, Directory(s), KERNEL_STACK_BASE) = ptable[s].kernel_stack
      /\ ptable[s].kernel_stack # NULL
  BY LiveSpace DEF BootStack, NULL
<1> QED
  BY <1>1 DEF AfterLoad, Seen

\* A step that leaves the memory alone, and of the table whether a process is
\* there, its directory and its stack.
LEMMA MemoryStays ==
  ASSUME MemoryHolds, pc \notin Stopped,
         mem' = mem, next_pid' = next_pid, withheld' = withheld,
         LiveIn(ptable') = LiveIn(ptable),
         \A s \in LiveIn(ptable) : /\ ptable'[s].page_directory = ptable[s].page_directory
                                   /\ ptable'[s].kernel_stack = ptable[s].kernel_stack
  PROVE  MemoryHolds'
<1>1. ~Panicked(mem) /\ MemorySound(mem, ptable, withheld.bits)
  BY RunningIsSound
<1>2. MemorySound(mem, ptable', withheld.bits)
  BY <1>1, SameProcesses
<1>3. ~Panicked(mem')
  BY <1>1
<1> QED
  BY <1>2, <1>3 DEF MemoryHolds

\* In particular one that leaves the table alone.
LEMMA TableStays ==
  ASSUME MemoryHolds, PidsAreSet, pc \notin Stopped, UNCHANGED table
  PROVE  MemoryHolds' /\ PidsAreSet'
<1>1. mem' = mem /\ ptable' = ptable /\ next_pid' = next_pid /\ withheld' = withheld
  BY DEF table
<1>2. MemoryHolds'
  BY <1>1, MemoryStays
<1>3. PidsAreSet'
  BY <1>1 DEF PidsAreSet, Live
<1> QED
  BY <1>2, <1>3

-----------------------------------------------------------------------------
(* Each action keeps the invariant *)

\* scheduler_init starts the scheduler on the first stack.
LEMMA SchedulerInitKeeps ==
  ASSUME IInv, scheduler_init
  PROVE  IInv'
<1>1. pc \notin Stopped /\ Control /\ pc = "kmain"
  BY DEF IInv, scheduler_init, Stopped
<1>2. MemoryHolds' /\ PidsAreSet'
  BY <1>1, TableStays DEF IInv, scheduler_init
<1>3. TypeOK'
  BY SlotNumbers DEF IInv, TypeOK, scheduler_init, table, irq
<1>4. Control'
  BY <1>1 DEF Control, scheduler_init, table, irq, InProcess, NoGap, Live, Directory
<1>5. LoadedDirectoryLives'
  BY DEF IInv, LoadedDirectoryLives, scheduler_init, table, Live, Directory
<1>6. KeepsItsStack'
  BY DEF KeepsItsStack, scheduler_init
<1> QED
  BY <1>2, <1>3, <1>4, <1>5, <1>6 DEF IInv

\* Slot 0 is taken first while no process runs and the slots are filled from it.
LEMMA SlotZeroFirst ==
  ASSUME NoGap, ptable[0].state \in {UNUSED, RUNNABLE, RUNNING}, ptable[0].state # RUNNING,
         NEW s \in Runnable, \A r \in Runnable : s <= r
  PROVE  s = 0
<1>1. s \in Slots /\ Live(s) /\ s \in Nat /\ 0 \in Slots
  BY SlotNumbers DEF Runnable, Live, UNUSED, RUNNABLE
<1>2. Live(0)
  BY <1>1 DEF NoGap
<1>3. 0 \in Runnable
  BY <1>1, <1>2 DEF Live, Runnable
<1> QED
  BY <1>1, <1>3

\* schedule() takes a process that can run.
LEMMA ScheduleTakeKeeps ==
  ASSUME IInv, schedule_take
  PROVE  IInv'
<1> DEFINE t == Min(Runnable)
<1>1. pc \notin Stopped /\ Control /\ pc = "scan" /\ TypeOK
  BY DEF IInv, schedule_take, Stopped
<1>2. i = 0 /\ current_process = None
  BY <1>1 DEF Control
<1>3. Runnable \in SUBSET Slots /\ {s \in Runnable : s >= i} = Runnable
  BY <1>2, SlotNumbers DEF Runnable
<1>4. Runnable # {} /\ i' = t /\ current_process' = t /\ prev' = None /\ pc' = "mark"
  BY <1>2, <1>3, Zenon DEF schedule_take
<1>5. t \in Runnable /\ \A s \in Runnable : t <= s
  BY <1>3, <1>4, FirstAndLast
<1> HIDE DEF t
<1>6. t \in Slots /\ ptable[t].state = RUNNABLE
  BY <1>5 DEF Runnable
<1>7. stack = BootStack => NoGap /\ t = 0
  <2>1. stack = BootStack => NoGap
    BY <1>1 DEF Control
  <2>2. ptable[0].state \in {UNUSED, RUNNABLE, RUNNING}
    BY <1>1, SlotNumbers DEF TypeOK
  <2>3. ptable[0].state # RUNNING
    BY <1>1, <1>2, SlotNumbers DEF Control
  <2> QED
    BY <1>5, <2>1, <2>2, <2>3, SlotZeroFirst
<1>8. MemoryHolds' /\ PidsAreSet'
  BY <1>1, TableStays DEF IInv, schedule_take
<1>9. /\ UNCHANGED <<table, scheduler_running, cr3, stack, irq, unread>>
  BY DEF schedule_take
<1>10. TypeOK'
  BY <1>1, <1>4, <1>6, <1>9, SlotNumbers DEF TypeOK, table, irq
<1>11. Control'
  BY <1>1, <1>2, <1>4, <1>6, <1>7, <1>9, SlotNumbers
     DEF Control, table, irq, InProcess, NoGap, StackIsNobodys, Live, Directory
<1>12. LoadedDirectoryLives'
  BY <1>9 DEF IInv, LoadedDirectoryLives, table, Live, Directory
<1>13. KeepsItsStack'
  BY <1>4 DEF KeepsItsStack
<1> QED
  BY <1>8, <1>10, <1>11, <1>12, <1>13 DEF IInv

\* It marks that process as running.
LEMMA ScheduleMarkKeeps ==
  ASSUME IInv, schedule_mark
  PROVE  IInv'
<1> DEFINE t == current_process
<1>1. pc \notin Stopped /\ Control /\ pc = "mark" /\ TypeOK
  BY DEF IInv, schedule_mark, Stopped
<1>2. t \in Slots /\ ptable[t].state = RUNNABLE
  BY <1>1 DEF Control
<1>3. /\ ptable' = [ptable EXCEPT ![t].state = RUNNING] /\ pc' = "load"
      /\ UNCHANGED <<mem, next_pid, withheld, i, prev, current_process, scheduler_running, cr3,
                     stack, irq, unread>>
  BY DEF schedule_mark
<1>4. /\ DOMAIN ptable = Slots
      /\ \A s \in Slots : ptable[s] \in [state : {UNUSED, RUNNABLE, RUNNING}, pid : 0 .. MaxPid,
                                         page_directory : Frames \union {NULL},
                                         kernel_stack : UserPages \union {NULL}]
  BY <1>1 DEF TypeOK
<1>5. /\ ptable'[t].state = RUNNING /\ ptable'[t].pid = ptable[t].pid
      /\ ptable'[t].page_directory = ptable[t].page_directory
      /\ ptable'[t].kernel_stack = ptable[t].kernel_stack
      /\ \A s \in Slots \ {t} : ptable'[s] = ptable[s]
  BY <1>2, <1>3, <1>4
<1>6. \A s \in Slots : /\ Live(s)' <=> Live(s)
                       /\ ptable'[s].pid = ptable[s].pid
                       /\ ptable'[s].page_directory = ptable[s].page_directory
                       /\ ptable'[s].kernel_stack = ptable[s].kernel_stack
  BY <1>2, <1>5 DEF Live, UNUSED, RUNNABLE, RUNNING
<1>7. LiveIn(ptable') = LiveIn(ptable)
  BY <1>6 DEF LiveIn, Live
<1>8. MemoryHolds'
  BY <1>1, <1>3, <1>6, <1>7, MemoryStays DEF IInv, LiveIn
<1>9. PidsAreSet'
  BY <1>6 DEF IInv, PidsAreSet
<1>10. TypeOK'
  <2>1. ptable' \in [Slots -> [state : {UNUSED, RUNNABLE, RUNNING}, pid : 0 .. MaxPid,
                               page_directory : Frames \union {NULL},
                               kernel_stack : UserPages \union {NULL}]]
    BY <1>1, <1>2, <1>3 DEF TypeOK
  <2> QED
    BY <1>1, <1>3, <2>1 DEF TypeOK, irq
<1>11. Control'
  <2>1. \A s \in Slots : ptable'[s].state = RUNNING => s = current_process'
    BY <1>1, <1>3, <1>5 DEF Control
  <2>2. NoGap => NoGap'
    BY <1>6 DEF NoGap
  <2>3. StackIsNobodys /\ ~Live(0) => StackIsNobodys' /\ ~Live(0)'
    BY <1>3, <1>6, SlotNumbers DEF StackIsNobodys
  <2> HIDE DEF t
  <2> QED
    BY <1>1, <1>2, <1>3, <1>5, <2>1, <2>2, <2>3 DEF Control, InProcess, t
<1>12. LoadedDirectoryLives'
  BY <1>1, <1>3 DEF Control, LoadedDirectoryLives
<1>13. KeepsItsStack'
  BY <1>3 DEF KeepsItsStack
<1> QED
  BY <1>8, <1>9, <1>10, <1>11, <1>12, <1>13 DEF IInv

\* It loads the directory of that process, which goes well on the first stack
\* only.
LEMMA ScheduleLoadKeeps ==
  ASSUME IInv, schedule_load
  PROVE  IInv'
<1> DEFINE t == current_process
<1>1. pc \notin Stopped /\ Control /\ pc = "load" /\ TypeOK /\ MemoryHolds /\ PidsAreSet
  BY DEF IInv, schedule_load, Stopped
<1>2. t \in Slots /\ ptable[t].state = RUNNING /\ Live(t)
  BY <1>1 DEF Control, Live, RUNNING, UNUSED
<1>3. MemorySound(mem, ptable, withheld.bits)
  BY <1>1, RunningIsSound
<1>4. Directory(t) \in Directories
  BY <1>2, <1>3, LiveSpace
<1>5. /\ cr3' = Directory(t) /\ pc' = AfterLoad(mem, Directory(t), "switch")
      /\ UNCHANGED <<table, i, prev, current_process, scheduler_running, stack, irq, unread>>
  BY DEF schedule_load
<1>6. pc' = IF stack = BootStack \/ stack = ptable[t].kernel_stack THEN "switch" ELSE "wild"
  BY <1>2, <1>3, <1>5, LoadsDirectory
<1>7. ASSUME stack = BootStack
      PROVE  (pc' \notin Stopped => Control') /\ KeepsItsStack' /\ pc' \in {"switch", "wild"}
  <2>1. pc' = "switch"
    BY <1>6, <1>7
  <2>2. Control'
    BY <1>1, <1>2, <1>5, <1>7, <2>1 DEF Control, table, InProcess, NoGap, Live, Directory
  <2>3. KeepsItsStack'
    BY <2>1 DEF KeepsItsStack
  <2> QED
    BY <2>1, <2>2, <2>3
<1>8. ASSUME stack # BootStack
      PROVE  (pc' \notin Stopped => Control') /\ KeepsItsStack' /\ pc' \in {"switch", "wild"}
  <2>1. ptable[t].kernel_stack # stack /\ ~Live(0)
    BY <1>1, <1>2, <1>8 DEF Control, StackIsNobodys
  <2>2. pc' = "wild"
    BY <1>6, <1>8, <2>1
  <2>3. t # 0 /\ ptable[t].pid # 0
    BY <1>1, <1>2, <2>1 DEF PidsAreSet
  <2>4. ~OneProcess'
    BY <1>2, <1>5, <2>3 DEF OneProcess, table
  <2> QED
    BY <2>2, <2>4 DEF KeepsItsStack, Stopped
<1>9. (pc' \notin Stopped => Control') /\ KeepsItsStack' /\ pc' \in {"switch", "wild"}
  BY <1>7, <1>8
<1>10. MemoryHolds' /\ PidsAreSet'
  BY <1>1, <1>5, TableStays
<1>11. TypeOK'
  BY <1>1, <1>4, <1>5, <1>9 DEF TypeOK, table, irq, Stopped
<1>12. LoadedDirectoryLives'
  BY <1>2, <1>5 DEF LoadedDirectoryLives, table, Live, Directory
<1>13. Stopped' = Stopped
  BY DEF Stopped
<1> QED
  BY <1>9, <1>10, <1>11, <1>12, <1>13 DEF IInv

\* switch_context enters the process that was taken, on its own stack.
LEMMA ScheduleSwitchKeeps ==
  ASSUME IInv, schedule_switch
  PROVE  IInv'
<1>1. pc \notin Stopped /\ Control /\ pc = "switch" /\ TypeOK /\ MemoryHolds /\ PidsAreSet
  BY DEF IInv, schedule_switch, Stopped
<1>2. current_process = 0 /\ ptable[0].state = RUNNING /\ cr3 = Directory(0) /\ prev = None
  BY <1>1, SlotNumbers DEF Control
<1>3. 0 \in Slots /\ Live(0)
  BY <1>2, SlotNumbers DEF Live, RUNNING, UNUSED
<1>4. MemorySound(mem, ptable, withheld.bits)
  BY <1>1, RunningIsSound
<1>5. /\ pc' = "user" /\ stack' = vmm_va2pa(mem, Directory(0), KERNEL_STACK_BASE)
      /\ UNCHANGED <<table, i, prev, current_process, scheduler_running, cr3, irq, unread>>
  BY <1>2 DEF schedule_switch
<1>6. /\ stack' = ptable[0].kernel_stack /\ stack' \in UserPages /\ stack' # BootStack
  BY <1>3, <1>4, <1>5, LiveSpace
<1>7. MemoryHolds' /\ PidsAreSet'
  BY <1>1, <1>5, TableStays
<1>8. TypeOK'
  BY <1>1, <1>5, <1>6 DEF TypeOK, table, irq
<1>9. Control'
  BY <1>1, <1>2, <1>5, <1>6 DEF Control, table, InProcess, Directory, BootStack
<1>10. LoadedDirectoryLives'
  BY <1>5 DEF IInv, LoadedDirectoryLives, table, Live, Directory
<1>11. KeepsItsStack'
  BY <1>5 DEF KeepsItsStack
<1> QED
  BY <1>7, <1>8, <1>9, <1>10, <1>11 DEF IInv

\* schedule() halts.
LEMMA ScheduleHaltKeeps ==
  ASSUME IInv, schedule_halt
  PROVE  IInv'
<1>1. pc \notin Stopped /\ pc' = "halted" /\ TypeOK /\ MemoryHolds /\ PidsAreSet
  BY DEF IInv, schedule_halt, Stopped
<1>2. /\ scheduler_running' = FALSE
      /\ UNCHANGED <<table, i, prev, current_process, cr3, stack, irq, unread>>
  BY DEF schedule_halt
<1>3. MemoryHolds' /\ PidsAreSet'
  BY <1>1, <1>2, TableStays
<1>4. TypeOK'
  BY <1>1, <1>2 DEF TypeOK, table, irq, Stopped
<1>5. LoadedDirectoryLives'
  BY <1>2 DEF IInv, LoadedDirectoryLives, table, Live, Directory
<1>6. KeepsItsStack'
  BY <1>1 DEF KeepsItsStack
<1> QED
  BY <1>1, <1>3, <1>4, <1>5, <1>6 DEF IInv, Stopped

\* A key arrives.
LEMMA KeyboardHandlerKeeps ==
  ASSUME IInv, keyboard_handler
  PROVE  IInv'
<1>1. pc \notin Stopped /\ Control /\ TypeOK /\ MemoryHolds /\ PidsAreSet
  BY DEF IInv, keyboard_handler, Interruptible
<1>2. UNCHANGED <<table, pc, i, prev, current_process, scheduler_running, cr3, stack, irq>>
  BY DEF keyboard_handler, cpu
<1>3. unread' \in 0 .. MaxUnread
  <2>1. unread \in 0 .. MaxUnread /\ unread' = unread + 1 /\ unread < MaxUnread
    BY <1>1 DEF TypeOK, keyboard_handler
  <2> QED
    BY <2>1, KernelAssumption DEF KernelAssumption
<1>4. MemoryHolds' /\ PidsAreSet'
  BY <1>1, <1>2, TableStays
<1>5. TypeOK'
  BY <1>1, <1>2, <1>3 DEF TypeOK, table, irq
<1>6. Control'
  BY <1>1, <1>2 DEF Control, table, InProcess, NoGap, StackIsNobodys, Live, Directory
<1>7. LoadedDirectoryLives'
  BY <1>2 DEF IInv, LoadedDirectoryLives, table, Live, Directory
<1>8. KeepsItsStack'
  BY <1>1, <1>2 DEF KeepsItsStack, Stopped
<1> QED
  BY <1>4, <1>5, <1>6, <1>7, <1>8 DEF IInv

\* A process that runs waits for a key, is given one, goes on.
LEMMA ReadKeeps ==
  ASSUME IInv, syscall_read \/ getchar_take \/ getchar_return
  PROVE  IInv'
<1>1. InProcess /\ InProcess' /\ pc \notin Stopped
  BY DEF syscall_read, getchar_take, getchar_return, InProcess, Stopped
<1>2. Control /\ TypeOK /\ MemoryHolds /\ PidsAreSet
  BY <1>1 DEF IInv
<1>3. UNCHANGED <<table, i, prev, current_process, scheduler_running, cr3, stack, in_service>>
  BY DEF syscall_read, getchar_take, getchar_return, irq
<1>4. MemoryHolds' /\ PidsAreSet'
  BY <1>1, <1>2, <1>3, TableStays
<1>5. unread' \in 0 .. MaxUnread
  <2>1. unread \in 0 .. MaxUnread
    BY <1>2 DEF TypeOK
  <2>2. unread' = unread \/ (unread > 0 /\ unread' = unread - 1)
    BY DEF syscall_read, getchar_take, getchar_return
  <2>3. unread \in Nat /\ MaxUnread \in Nat
    BY <2>1, KernelAssumption DEF KernelAssumption
  <2> QED
    BY <2>1, <2>2, <2>3
<1>6. IF_' \in BOOLEAN /\ saved_IF' \in BOOLEAN
  BY <1>2, Zenon DEF TypeOK, syscall_read, getchar_take, getchar_return, irq
<1>7. TypeOK'
  BY <1>1, <1>2, <1>3, <1>5, <1>6 DEF TypeOK, table, InProcess
<1>8. stack # BootStack
  <2>1. 0 \in Slots /\ Live(0) /\ stack = ptable[0].kernel_stack
    BY <1>1, <1>2, SlotNumbers DEF Control, InProcess, Live, RUNNING, UNUSED
  <2> QED
    BY <1>1, <1>2, <2>1, RunningIsSound, LiveSpace
<1>9. Control'
  BY <1>1, <1>2, <1>3, <1>8 DEF Control, table, InProcess, Directory, BootStack
<1>10. LoadedDirectoryLives'
  BY <1>3 DEF IInv, LoadedDirectoryLives, table, Live, Directory
<1>11. KeepsItsStack'
  BY <1>1 DEF KeepsItsStack, InProcess
<1> QED
  BY <1>4, <1>7, <1>9, <1>10, <1>11 DEF IInv

\* kmain makes a process in the first slot that is unused, or fails to, or the
\* kernel panics.
LEMMA KmainCreateKeeps ==
  ASSUME IInv, kmain_create
  PROVE  IInv'
<1> DEFINE w == withheld.bits
           b == BuildSpace(mem)
<1>1. pc \notin Stopped /\ Control /\ pc = "kmain" /\ TypeOK /\ MemoryHolds /\ PidsAreSet
  BY DEF IInv, kmain_create, Stopped
<1>2. /\ stack = BootStack /\ cr3 = KDir /\ current_process = None /\ NoGap
      /\ scheduler_running = FALSE /\ prev = None
      /\ \A s \in Slots : ptable[s].state # RUNNING
  BY <1>1, SlotNumbers DEF Control
<1>3. /\ UNCHANGED <<withheld, i, prev, current_process, scheduler_running, cr3, stack, irq, unread>>
      /\ pc' = IF Panicked(mem') THEN "panicked" ELSE "kmain"
      /\ next_pid <= MaxPid
  BY <1>1 DEF kmain_create
<1>4. MemorySound(mem, ptable, w) /\ ~Panicked(mem) /\ LastBits(w)
  BY <1>1, RunningIsSound DEF MemoryHolds
<1>5. LoadedDirectoryLives' /\ KeepsItsStack'
  BY <1>2, <1>3 DEF LoadedDirectoryLives, KeepsItsStack
<1>6. CASE UNCHANGED <<mem, ptable, next_pid>>
  <2>1. pc' = "kmain" /\ UNCHANGED table
    BY <1>3, <1>4, <1>6 DEF table
  <2>2. MemoryHolds' /\ PidsAreSet'
    BY <1>1, <2>1, TableStays
  <2>3. TypeOK'
    BY <1>1, <1>3, <2>1 DEF TypeOK, table, irq
  <2>4. Control'
    BY <1>1, <1>3, <2>1 DEF Control, table, InProcess, NoGap, Live, Directory
  <2> QED
    BY <1>5, <2>2, <2>3, <2>4 DEF IInv
<1>7. ASSUME NEW s \in Slots, FirstUnused(s), FillSlot(s, b)
      PROVE  IInv'
  <2>1. Usable(mem, DirsOf(ptable), w)
    BY <1>4, SoundIsUsable
  <2>2. Built(mem, DirsOf(ptable), w, b)
    BY <2>1, BuildsSpace
  <2>3. Costs(mem, b.mem, withheld.intr_bits, 3)
    BY <1>1, BuildCosts DEF MemoryHolds
  <2>4. /\ mem' = b.mem /\ next_pid' = next_pid + 1
        /\ ptable' = [ptable EXCEPT ![s] = [state          |-> IF b.ok THEN RUNNABLE ELSE UNUSED,
                                            pid            |-> next_pid,
                                            page_directory |-> b.page_directory,
                                            kernel_stack   |-> b.kernel_stack]]
    BY <1>7 DEF FillSlot
  <2> HIDE DEF b, w
  <2>5. /\ DOMAIN ptable = Slots /\ next_pid \in 1 .. MaxPid /\ MaxPid \in Nat
        /\ ptable \in [Slots -> [state : {UNUSED, RUNNABLE, RUNNING}, pid : 0 .. MaxPid,
                                 page_directory : Frames \union {NULL},
                                 kernel_stack : UserPages \union {NULL}]]
    BY <1>1, <1>3, SlotNumbers DEF TypeOK
  <2>6. /\ ptable'[s] = [state          |-> IF b.ok THEN RUNNABLE ELSE UNUSED,
                         pid            |-> next_pid,
                         page_directory |-> b.page_directory,
                         kernel_stack   |-> b.kernel_stack]
        /\ \A r \in Slots \ {s} : ptable'[r] = ptable[r]
    BY <2>4, <2>5
  <2>7. SlotHolds(ptable, ptable', s, b)
    BY <2>6 DEF SlotHolds
  <2>8. ptable'[s].state \in {UNUSED, RUNNABLE} /\ ptable'[s].pid = next_pid
    BY <2>2, <2>6 DEF Built
  <2>9. ptable' \in [Slots -> [state : {UNUSED, RUNNABLE, RUNNING}, pid : 0 .. MaxPid,
                               page_directory : Frames \union {NULL},
                               kernel_stack : UserPages \union {NULL}]]
    <3> DEFINE e == [state          |-> IF b.ok THEN RUNNABLE ELSE UNUSED,
                     pid            |-> next_pid,
                     page_directory |-> b.page_directory,
                     kernel_stack   |-> b.kernel_stack]
    <3>1. e \in [state : {UNUSED, RUNNABLE, RUNNING}, pid : 0 .. MaxPid,
                 page_directory : Frames \union {NULL}, kernel_stack : UserPages \union {NULL}]
      <4>1. b.page_directory \in Frames \union {NULL} /\ b.kernel_stack \in UserPages \union {NULL}
        BY <2>2 DEF Built
      <4>2. next_pid \in 0 .. MaxPid
        BY <2>5
      <4>3. (IF b.ok THEN RUNNABLE ELSE UNUSED) \in {UNUSED, RUNNABLE, RUNNING}
        BY <2>6, <2>8
      <4> QED
        BY <4>1, <4>2, <4>3
    <3>2. ptable' = [ptable EXCEPT ![s] = e]
      BY <2>4
    <3> HIDE DEF e
    <3> QED
      BY <2>5, <3>1, <3>2
  <2>10. TypeOK'
    <3>1. next_pid' \in 1 .. MaxPid + 1
      BY <2>4, <2>5
    <3> QED
      BY <1>1, <1>3, <2>9, <3>1 DEF TypeOK, irq, Stopped
  <2>11. PidsAreSet'
    BY <1>1, <2>5, <2>6, <2>8 DEF PidsAreSet, Live
  <2>12. MemoryHolds'
    <3>1. mem' \in MemoryType /\ Pool(mem')
      BY <2>3, <2>4 DEF Costs, Pool
    <3>2. w' = w
      BY <1>3 DEF w
    <3>3. ~Panicked(mem') => MemorySound(mem', ptable', w)
      <4>1. ASSUME ~Panicked(b.mem)
            PROVE  MemorySound(b.mem, ptable', w)
        <5>1. ptable[s].state = UNUSED
          BY <1>7 DEF FirstUnused, Live
        <5> QED
          BY <1>4, <2>2, <2>7, <4>1, <5>1, SlotFilled
      <4> QED
        BY <2>4, <4>1
    <3>4. Panicked(mem') => pc' = "panicked"
      BY <1>3
    <3>5. Spent(mem', withheld'.intr_bits) <= 3 * (next_pid' - 1)
      <4>1. Spent(mem, withheld.intr_bits) <= 3 * (next_pid - 1)
        BY <1>1 DEF MemoryHolds
      <4>2. Spent(mem', withheld.intr_bits) <= Spent(mem, withheld.intr_bits) + 3
        BY <2>3, <2>4 DEF Costs
      <4>3. Spent(mem, withheld.intr_bits) \in Int /\ Spent(mem', withheld.intr_bits) \in Int
        BY <1>1, <3>1, PoolIsFinite DEF MemoryHolds
      <4>4. next_pid' = next_pid + 1 /\ next_pid \in Nat /\ withheld' = withheld
        BY <1>3, <2>4, <2>5
      <4> QED
        BY <4>1, <4>2, <4>3, <4>4
    <3> QED
      BY <1>1, <1>3, <3>1, <3>2, <3>3, <3>4, <3>5 DEF MemoryHolds, w
  <2>13. pc' = "panicked" \/ (pc' = "kmain" /\ Control')
    <3>1. NoGap'
      <4>1. ASSUME NEW q \in Slots, NEW r \in Slots, Live(q)', r < q
            PROVE  Live(r)'
        <5>1. \A x \in Slots \ {s} : Live(x)' <=> Live(x)
          BY <2>6 DEF Live
        <5>2. ~Live(s) /\ \A x \in Slots : x < s => Live(x)
          BY <1>7 DEF FirstUnused
        <5>3. s \in Nat /\ q \in Nat /\ r \in Nat
          BY SlotNumbers
        <5>4. CASE q = s
          BY <4>1, <5>1, <5>2, <5>3, <5>4
        <5>5. CASE q # s
          BY <1>2, <4>1, <5>1, <5>2, <5>5 DEF NoGap
        <5> QED
          BY <5>4, <5>5
      <4> QED
        BY <4>1 DEF NoGap
    <3>2. \A r \in Slots : ptable'[r].state # RUNNING
      BY <1>2, <2>6, <2>8 DEF UNUSED, RUNNABLE, RUNNING
    <3>3. pc' \in {"panicked", "kmain"}
      BY <1>3
    <3> QED
      BY <1>2, <1>3, <3>1, <3>2, <3>3 DEF Control, InProcess
  <2> QED
    BY <1>5, <2>10, <2>11, <2>12, <2>13 DEF IInv, Stopped
<1>8. process_create
  BY DEF kmain_create
<1> QED
  BY <1>6, <1>7, <1>8 DEF process_create

\* What holds while process 0 runs or waits in a system call.
LEMMA ProcessRuns ==
  ASSUME IInv, InProcess \/ pc = "exit_terminate"
  PROVE  /\ pc \notin Stopped /\ Control /\ TypeOK /\ MemoryHolds /\ PidsAreSet
         /\ MemorySound(mem, ptable, withheld.bits)
         /\ 0 \in Slots /\ current_process = 0 /\ Live(0) /\ ptable[0].state = RUNNING
         /\ stack = ptable[0].kernel_stack /\ stack \in UserPages /\ stack # BootStack
         /\ Directory(0) \in Frames /\ prev = None
         /\ \A s \in Slots : ptable[s].state = RUNNING => s = 0
<1>1. pc \in {"user", "read_wait", "read_echo", "exit_terminate"} /\ pc \notin Stopped
  BY DEF InProcess, Stopped
<1>2. Control /\ TypeOK /\ MemoryHolds /\ PidsAreSet
  BY <1>1 DEF IInv
<1>3. /\ current_process = 0 /\ ptable[0].state = RUNNING /\ stack = ptable[0].kernel_stack
      /\ prev = None
      /\ \A s \in Slots : ptable[s].state = RUNNING => s = current_process
  BY <1>1, <1>2 DEF Control
<1>4. MemorySound(mem, ptable, withheld.bits)
  BY <1>1, <1>2, RunningIsSound
<1>5. 0 \in Slots /\ Live(0)
  BY <1>3, SlotNumbers DEF Live, RUNNING, UNUSED
<1> QED
  BY <1>1, <1>2, <1>3, <1>4, <1>5, LiveSpace

\* The process exits: its stack is mapped in the kernel's directory, where the
\* code goes on, or the pool is empty and the stack is lost.
LEMMA SyscallExitKeeps ==
  ASSUME IInv, syscall_exit
  PROVE  IInv'
<1> DEFINE w == withheld.bits
           va == KERNEL_STACK_BASE
           r == vmm_mappage(mem, KDir, va, stack)
<1>1. InProcess
  BY DEF syscall_exit, InProcess
<1>2. /\ pc \notin Stopped /\ Control /\ TypeOK /\ MemoryHolds /\ PidsAreSet
      /\ MemorySound(mem, ptable, w)
      /\ 0 \in Slots /\ current_process = 0 /\ ptable[0].state = RUNNING
      /\ stack = ptable[0].kernel_stack /\ stack \in UserPages /\ stack # BootStack
      /\ prev = None
      /\ \A s \in Slots : ptable[s].state = RUNNING => s = 0
  BY <1>1, ProcessRuns
<1>3. /\ mem' = r.mem /\ cr3' = KDir /\ pc' = AfterLoad(r.mem, KDir, "exit_terminate")
      /\ saved_IF' = IF_ /\ IF_' = FALSE
      /\ UNCHANGED <<ptable, next_pid, withheld, i, prev, current_process, scheduler_running,
                     stack, in_service, unread>>
  BY <1>2 DEF syscall_exit
<1>4. /\ MemorySound(r.mem, ptable, w)
      /\ \/ r.ret = -1 /\ r.mem = mem
         \/ r.ret = 0 /\ vmm_va2pa(r.mem, KDir, va) = stack
  BY <1>2, StackInKernel
<1>5. r.ret = -1 => vmm_va2pa(mem, KDir, va) = NULL /\ mem.intr_bitmap = IntrBits
  <2>1. KDir \in Directories /\ PDX(va) \in DirIndexes /\ mem \in MemoryType
    BY <1>2, Bases DEF Directories, DirIndexes, MemoryHolds
  <2> HIDE DEF va
  <2> QED
    BY <2>1, MappageFails
<1>6. Costs(mem, r.mem, withheld.intr_bits, 0)
  <2>1. /\ KDir \in Directories /\ PDX(va) \in DirIndexes /\ PTX(va) \in TabIndexes
        /\ Pool(mem)
    BY <1>2, Bases, SplitAddress DEF Directories, DirIndexes, MemoryHolds
  <2> HIDE DEF va
  <2> QED
    BY <1>2, <2>1, MappageCosts
<1> HIDE DEF r, w
<1>7. \/ pc' = "exit_terminate"
      \/ pc' = "triple_fault" /\ mem'.intr_bitmap = IntrBits
  <2>1. pc' = IF vmm_va2pa(r.mem, KDir, va) = stack THEN "exit_terminate"
              ELSE IF vmm_va2pa(r.mem, KDir, va) = NULL THEN "triple_fault" ELSE "wild"
    BY <1>2, <1>3 DEF AfterLoad, Seen
  <2>2. stack # NULL
    BY <1>2 DEF BootStack, NULL
  <2> HIDE DEF va
  <2> QED
    BY <1>3, <1>4, <1>5, <2>1, <2>2
<1>8. MemoryHolds'
  <2>1. mem' \in MemoryType /\ Pool(mem') /\ ~Panicked(mem') /\ MemorySound(mem', ptable', w')
    BY <1>3, <1>4, <1>6 DEF Costs, Pool, MemorySound, w
  <2>2. Spent(mem', withheld'.intr_bits) <= 3 * (next_pid' - 1)
    <3>1. Spent(mem, withheld.intr_bits) <= 3 * (next_pid - 1)
      BY <1>2 DEF MemoryHolds
    <3>2. Spent(mem', withheld.intr_bits) <= Spent(mem, withheld.intr_bits) + 0
      BY <1>3, <1>6 DEF Costs
    <3>3. Spent(mem, withheld.intr_bits) \in Int /\ Spent(mem', withheld.intr_bits) \in Int
      BY <1>2, <2>1, PoolIsFinite DEF MemoryHolds
    <3>4. next_pid' = next_pid /\ next_pid \in Nat /\ withheld' = withheld
      BY <1>2, <1>3, SlotNumbers DEF TypeOK
    <3> QED
      BY <3>1, <3>2, <3>3, <3>4
  <2> QED
    BY <1>2, <1>3, <2>1, <2>2 DEF MemoryHolds, w
<1>9. PidsAreSet'
  BY <1>2, <1>3 DEF PidsAreSet, Live
<1>10. TypeOK'
  <2>1. KDir \in Directories
    BY DEF Directories
  <2>2. IF_' \in BOOLEAN /\ saved_IF' \in BOOLEAN
    BY <1>2, <1>3, Zenon DEF TypeOK
  <2> QED
    BY <1>2, <1>3, <1>7, <2>1, <2>2 DEF TypeOK, Stopped
<1>11. pc' \notin Stopped => Control'
  <2>1. pc' = "triple_fault" => pc' \in Stopped
    BY DEF Stopped
  <2>2. pc' = "exit_terminate" => Control'
    BY <1>2, <1>3 DEF Control, InProcess, BootStack
  <2> QED
    BY <1>7, <2>1, <2>2
<1>12. LoadedDirectoryLives' /\ KeepsItsStack'
  BY <1>3, <1>7 DEF LoadedDirectoryLives, KeepsItsStack
<1> QED
  BY <1>8, <1>9, <1>10, <1>11, <1>12 DEF IInv, Stopped

\* Its pages are freed, while the code runs on one of them.
LEMMA ExitTerminateKeeps ==
  ASSUME IInv, exit_terminate
  PROVE  IInv'
<1> DEFINE w == withheld.bits
           d == Directory(0)
<1>1. pc = "exit_terminate"
  BY DEF exit_terminate
<1>2. /\ pc \notin Stopped /\ Control /\ TypeOK /\ MemoryHolds /\ PidsAreSet
      /\ MemorySound(mem, ptable, w)
      /\ 0 \in Slots /\ current_process = 0 /\ Live(0) /\ ptable[0].state = RUNNING
      /\ stack = ptable[0].kernel_stack /\ stack \in UserPages /\ stack # BootStack
      /\ d \in Frames /\ prev = None
      /\ \A s \in Slots : ptable[s].state = RUNNING => s = 0
  BY <1>1, ProcessRuns
<1>3. Terminates(current_process)
  BY <1>2 DEF Terminates
<1>4. /\ ptable' = [ptable EXCEPT ![0].state = UNUSED]
      /\ mem' = vmm_destroy_user_page_directory(mem, d)
      /\ IF_' = TRUE /\ pc' = "exit_clear"
      /\ UNCHANGED <<next_pid, withheld, i, prev, current_process, scheduler_running, cr3, stack,
                     saved_IF, in_service, unread>>
  BY <1>3, Zenon DEF exit_terminate, process_terminate, Directory
<1>5. /\ DOMAIN ptable = Slots
      /\ \A s \in Slots : ptable[s] \in [state : {UNUSED, RUNNABLE, RUNNING}, pid : 0 .. MaxPid,
                                         page_directory : Frames \union {NULL},
                                         kernel_stack : UserPages \union {NULL}]
  BY <1>2 DEF TypeOK
<1>6. /\ ptable'[0].state = UNUSED
      /\ \A s \in Slots \ {0} : ptable'[s] = ptable[s]
  BY <1>2, <1>4, <1>5
<1>7. ~Live(0)' /\ \A s \in Slots \ {0} : Live(s)' <=> Live(s)
  BY <1>6 DEF Live
<1>8. MemorySound(mem', ptable', w)
  <2>1. 0 \in LiveIn(ptable) /\ SlotUnused(ptable, ptable', 0)
    BY <1>2, <1>6 DEF LiveIn, Live, SlotUnused
  <2> QED
    BY <1>2, <1>4, <2>1, SlotFreed DEF Directory
<1>9. Costs(mem, mem', withheld.intr_bits, 0)
  <2> HIDE DEF d
  <2>1. BitsCleared(mem, {p - PMM_START : p \in Mapped(mem, d) \intersect UserPages}, mem')
    BY <1>2, <1>4, DestroyedDirectory DEF MemoryHolds
  <2> QED
    BY <1>2, <2>1, ClearedCosts DEF MemoryHolds
<1> HIDE DEF w
<1>10. MemoryHolds'
  <2>1. mem' \in MemoryType /\ Pool(mem') /\ ~Panicked(mem') /\ MemorySound(mem', ptable', w')
    BY <1>4, <1>8, <1>9 DEF Costs, Pool, MemorySound, w
  <2>2. Spent(mem', withheld'.intr_bits) <= 3 * (next_pid' - 1)
    <3>1. Spent(mem, withheld.intr_bits) <= 3 * (next_pid - 1)
      BY <1>2 DEF MemoryHolds
    <3>2. Spent(mem', withheld.intr_bits) <= Spent(mem, withheld.intr_bits) + 0
      BY <1>9 DEF Costs
    <3>3. Spent(mem, withheld.intr_bits) \in Int /\ Spent(mem', withheld.intr_bits) \in Int
      BY <1>2, <2>1, PoolIsFinite DEF MemoryHolds
    <3>4. next_pid' = next_pid /\ next_pid \in Nat /\ withheld' = withheld
      BY <1>2, <1>4, SlotNumbers DEF TypeOK
    <3> QED
      BY <3>1, <3>2, <3>3, <3>4
  <2> QED
    BY <1>2, <1>4, <2>1, <2>2 DEF MemoryHolds, w
<1>11. PidsAreSet'
  BY <1>2, <1>6, <1>7 DEF PidsAreSet
<1>12. TypeOK'
  <2>1. ptable' \in [Slots -> [state : {UNUSED, RUNNABLE, RUNNING}, pid : 0 .. MaxPid,
                               page_directory : Frames \union {NULL},
                               kernel_stack : UserPages \union {NULL}]]
    BY <1>2, <1>4 DEF TypeOK
  <2> QED
    BY <1>2, <1>4, <2>1 DEF TypeOK
<1>13. Control'
  <2>1. \A s \in Slots : ptable'[s].state # RUNNING
    BY <1>2, <1>6 DEF RUNNING, UNUSED
  <2>2. StackIsNobodys'
    <3>1. ASSUME NEW s \in Slots, Live(s)'
          PROVE  ptable'[s].kernel_stack # stack'
      <4>1. s # 0 /\ Live(s) /\ ptable'[s] = ptable[s]
        BY <1>6, <1>7, <3>1
      <4> QED
        BY <1>2, <1>4, <4>1, StacksDiffer
    <3> QED
      BY <3>1 DEF StackIsNobodys
  <2> QED
    BY <1>1, <1>2, <1>4, <1>7, <2>1, <2>2 DEF Control, InProcess, BootStack
<1>14. LoadedDirectoryLives' /\ KeepsItsStack'
  BY <1>1, <1>2, <1>4 DEF Control, LoadedDirectoryLives, KeepsItsStack
<1> QED
  BY <1>10, <1>11, <1>12, <1>13, <1>14 DEF IInv

\* The scheduler goes on, on a stack that nobody has any more.
LEMMA ExitClearKeeps ==
  ASSUME IInv, exit_clear
  PROVE  IInv'
<1>1. pc \notin Stopped /\ Control /\ pc = "exit_clear" /\ TypeOK /\ MemoryHolds /\ PidsAreSet
  BY DEF IInv, exit_clear, Stopped
<1>2. /\ current_process' = None /\ i' = 0 /\ pc' = "scan"
      /\ UNCHANGED <<table, prev, scheduler_running, cr3, stack, irq, unread>>
  BY DEF exit_clear
<1>3. stack # BootStack /\ StackIsNobodys /\ ~Live(0) /\ current_process = 0 /\ cr3 = KDir
  BY <1>1 DEF Control
<1>4. \A s \in Slots : ptable[s].state # RUNNING
  BY <1>1, <1>3 DEF Control, Live, RUNNING, UNUSED
<1>5. MemoryHolds' /\ PidsAreSet'
  BY <1>1, <1>2, TableStays
<1>6. TypeOK'
  BY <1>1, <1>2, SlotNumbers DEF TypeOK, table, irq
<1>7. Control'
  BY <1>1, <1>2, <1>3, <1>4 DEF Control, table, InProcess, StackIsNobodys, Live
<1>8. LoadedDirectoryLives' /\ KeepsItsStack'
  BY <1>2, <1>3 DEF LoadedDirectoryLives, KeepsItsStack
<1> QED
  BY <1>5, <1>6, <1>7, <1>8 DEF IInv

\* A tick marks processes that can run and loads the directory of the last one.
\* It enters a process only from the first stack, before any process has run.
LEMMA TimerHandlerKeeps ==
  ASSUME IInv, timer_handler
  PROVE  IInv'
<1> DEFINE first  == {s \in Runnable : s = Min(Runnable)}
           lost   == {s \in Runnable : AfterLoad(mem, Directory(s), "back") # "back"}
           taken  == IF current_process = None THEN first
                     ELSE {s \in Runnable : \A r \in lost : s <= r}
           last   == Max(taken)
           enters == taken # {} /\ current_process = None /\ last \notin lost
<1>1. pc \notin Stopped /\ Control /\ TypeOK /\ MemoryHolds /\ PidsAreSet
  BY DEF IInv, timer_handler, Interruptible
<1>2. /\ in_service' = in_service \union {TIMER}
      /\ IF_' = FALSE
      /\ ptable' = [s \in Slots |->
           IF s \in taken THEN [ptable[s] EXCEPT !.state = RUNNING] ELSE ptable[s]]
      /\ current_process' = IF taken = {} THEN current_process ELSE last
      /\ cr3' = IF taken = {} THEN cr3 ELSE Directory(last)
      /\ pc' = IF enters THEN "user" ELSE IF taken \intersect lost # {} THEN "wild" ELSE "halted"
      /\ scheduler_running' = (pc' # "halted")
      /\ stack' = IF enters THEN vmm_va2pa(mem, cr3', KERNEL_STACK_BASE) ELSE stack
      /\ UNCHANGED <<mem, next_pid, withheld, i, prev, saved_IF, unread>>
  BY Zenon DEF timer_handler
<1>3. scheduler_running /\ pc # "kmain"
  BY <1>1 DEF timer_handler, Control
<1>4. MemorySound(mem, ptable, withheld.bits)
  BY <1>1, RunningIsSound
<1>5. taken \in SUBSET Runnable /\ Runnable \in SUBSET Slots
  BY DEF Runnable
<1>6. taken # {} => last \in taken
  BY <1>5, FirstAndLast
<1>7. \A s \in Runnable : ptable[s].state = RUNNABLE /\ s \in Slots /\ Live(s)
  BY DEF Runnable, Live, RUNNABLE, UNUSED
<1>8. \A s \in Runnable : s \in lost <=> stack # BootStack /\ stack # ptable[s].kernel_stack
  <2>1. ASSUME NEW s \in Runnable
        PROVE  AfterLoad(mem, Directory(s), "back") =
                 IF stack = BootStack \/ stack = ptable[s].kernel_stack THEN "back" ELSE "wild"
    BY <1>4, <1>7, LoadsDirectory
  <2> QED
    BY <2>1
<1>9. enters => /\ taken # {} /\ current_process = None /\ last \notin lost
                /\ last \in Runnable /\ \A s \in Runnable : last <= s
                /\ taken = {last}
  <2>1. ASSUME enters
        PROVE  last \in first /\ taken = first
    BY <1>6, <2>1
  <2>2. ASSUME enters
        PROVE  \A s \in Runnable : last <= s
    <3>1. last \in Runnable /\ last = Min(Runnable)
      BY <2>1, <2>2
    <3>2. \A s \in Runnable : Min(Runnable) <= s
      BY <1>5, <3>1, FirstAndLast
    <3> HIDE DEF last
    <3> QED
      BY <3>1, <3>2
  <2> QED
    BY <2>1, <2>2
<1> HIDE DEF first, lost, taken, last, enters
<1>10. /\ DOMAIN ptable = Slots
       /\ \A s \in Slots : ptable[s] \in [state : {UNUSED, RUNNABLE, RUNNING}, pid : 0 .. MaxPid,
                                          page_directory : Frames \union {NULL},
                                          kernel_stack : UserPages \union {NULL}]
  BY <1>1 DEF TypeOK
<1>11. \A s \in Slots :
         /\ ptable'[s] \in [state : {UNUSED, RUNNABLE, RUNNING}, pid : 0 .. MaxPid,
                            page_directory : Frames \union {NULL},
                            kernel_stack : UserPages \union {NULL}]
         /\ ptable'[s].state = IF s \in taken THEN RUNNING ELSE ptable[s].state
         /\ ptable'[s].pid = ptable[s].pid
         /\ ptable'[s].page_directory = ptable[s].page_directory
         /\ ptable'[s].kernel_stack = ptable[s].kernel_stack
  BY <1>2, <1>10
<1>12. \A s \in Slots : Live(s)' <=> Live(s)
  BY <1>5, <1>7, <1>11 DEF Live, RUNNING, UNUSED
<1>13. MemoryHolds' /\ PidsAreSet'
  <2>1. LiveIn(ptable') = LiveIn(ptable)
    BY <1>12 DEF LiveIn, Live
  <2>2. MemoryHolds'
    BY <1>1, <1>2, <1>11, <2>1, MemoryStays DEF LiveIn
  <2> QED
    BY <1>1, <1>11, <1>12, <2>2 DEF PidsAreSet
<1>14. taken # {} => last \in Slots /\ Live(last) /\ Directory(last) \in Directories
  BY <1>4, <1>5, <1>6, <1>7, LiveSpace
<1>15. enters => /\ stack = BootStack /\ last = 0 /\ pc = "scan"
                 /\ stack' = ptable[0].kernel_stack /\ stack' \in UserPages /\ stack' # BootStack
  <2>1. SUFFICES ASSUME enters
                 PROVE  /\ stack = BootStack /\ last = 0 /\ pc = "scan"
                        /\ stack' = ptable[0].kernel_stack /\ stack' \in UserPages
                        /\ stack' # BootStack
    OBVIOUS
  <2>2. pc = "scan"
    <3>1. current_process \notin Slots /\ current_process # 0
      BY <1>9, <2>1, SlotNumbers
    <3> QED
      BY <1>1, <1>3, <3>1 DEF Control, TypeOK
  <2>3. stack = BootStack
    BY <1>1, <1>7, <1>8, <1>9, <2>1, <2>2 DEF Control, StackIsNobodys
  <2>4. last = 0
    <3>1. NoGap /\ ptable[0].state # RUNNING /\ ptable[0].state \in {UNUSED, RUNNABLE, RUNNING}
      BY <1>1, <1>9, <2>1, <2>3, SlotNumbers DEF Control, TypeOK
    <3> QED
      BY <1>9, <2>1, <3>1, SlotZeroFirst
  <2>5. stack' = vmm_va2pa(mem, Directory(0), KERNEL_STACK_BASE)
    BY <1>2, <1>9, <2>1, <2>4
  <2> QED
    BY <1>4, <1>9, <1>14, <2>1, <2>2, <2>3, <2>4, <2>5, LiveSpace
<1>16. TypeOK'
  <2>1. ptable' \in [Slots -> [state : {UNUSED, RUNNABLE, RUNNING}, pid : 0 .. MaxPid,
                               page_directory : Frames \union {NULL},
                               kernel_stack : UserPages \union {NULL}]]
    BY <1>2, <1>11
  <2>2. pc' \in {"user", "wild", "halted"}
    BY <1>2
  <2>3. current_process' \in Slots \union {None} /\ cr3' \in Directories
    BY <1>1, <1>2, <1>14 DEF TypeOK
  <2>4. stack' \in UserPages \union {BootStack}
    BY <1>1, <1>2, <1>15 DEF TypeOK
  <2>5. scheduler_running' \in BOOLEAN /\ IF_' \in BOOLEAN /\ saved_IF' \in BOOLEAN
    BY <1>1, <1>2, Zenon DEF TypeOK
  <2>6. in_service' \in SUBSET {TIMER, KEYBOARD}
    BY <1>1, <1>2 DEF TypeOK
  <2> QED
    BY <1>1, <1>2, <2>1, <2>2, <2>3, <2>4, <2>5, <2>6 DEF TypeOK, Stopped
<1>17. pc' \notin Stopped => Control'
  <2>1. SUFFICES ASSUME enters
                 PROVE  Control'
    BY <1>2 DEF Stopped
  <2>2. pc' = "user" /\ current_process' = 0 /\ cr3' = Directory(0) /\ taken = {0}
    BY <1>2, <1>9, <1>15, <2>1
  <2>3. \A s \in Slots : ptable'[s].state = RUNNING => s = 0
    BY <1>1, <1>9, <1>11, <2>1, <2>2, SlotNumbers DEF Control
  <2>4. /\ ptable'[0].state = RUNNING /\ stack' = ptable'[0].kernel_stack
        /\ Directory(0)' = Directory(0)
    BY <1>11, <1>15, <2>1, <2>2, SlotNumbers DEF Directory
  <2>5. prev' = None
    BY <1>1, <1>2 DEF Control
  <2> QED
    BY <1>15, <2>1, <2>2, <2>3, <2>4, <2>5 DEF Control, InProcess
<1>18. LoadedDirectoryLives'
  <2>1. \A s \in Slots : Directory(s)' = Directory(s)
    BY <1>11 DEF Directory
  <2>2. CASE taken = {}
    BY <1>2, <1>12, <2>1, <2>2 DEF IInv, LoadedDirectoryLives
  <2>3. CASE taken # {}
    BY <1>2, <1>12, <1>14, <2>1, <2>3 DEF LoadedDirectoryLives
  <2> QED
    BY <2>2, <2>3
<1>19. KeepsItsStack'
  <2>1. SUFFICES ASSUME OneProcess, NEW s \in Slots, s \in taken, s \in lost
                 PROVE  FALSE
    <3>1. OneProcess' => OneProcess
      BY <1>11 DEF OneProcess
    <3>2. lost \in SUBSET Slots
      BY <1>5 DEF lost
    <3>3. pc' # "triple_fault"
      BY <1>2
    <3>4. pc' = "wild" => taken \intersect lost # {}
      BY <1>2
    <3> QED
      BY <3>1, <3>2, <3>3, <3>4 DEF KeepsItsStack
  <2>2. s \in Runnable /\ Live(s) /\ ptable[s].state = RUNNABLE
    BY <1>5, <1>7, <2>1
  <2>3. s = 0
    BY <1>1, <2>1, <2>2 DEF PidsAreSet, OneProcess
  <2>4. stack # BootStack /\ stack # ptable[0].kernel_stack
    BY <1>8, <2>1, <2>2, <2>3
  <2>5. pc \notin {"kmain", "switch", "scan", "mark", "load", "exit_clear"}
    BY <1>1, <2>2, <2>3, <2>4 DEF Control
  <2>6. pc \in {"user", "read_wait", "read_echo", "exit_terminate"}
    BY <1>1, <2>5 DEF TypeOK
  <2> QED
    BY <1>1, <2>4, <2>6 DEF Control
<1> QED
  BY <1>13, <1>16, <1>17, <1>18, <1>19 DEF IInv, Stopped

-----------------------------------------------------------------------------
(* The theorems *)

\* The invariant holds at the start, whatever the size of the memory.
LEMMA InitHolds == Init => IInv
<1>1. SUFFICES ASSUME Init
               PROVE  IInv
  OBVIOUS
<1> DEFINE w == withheld.bits
           v == withheld.intr_bits
<1>2. PICK n \in Withheld :
        withheld = [bits      |-> {k \in Bits : k + n[1] \notin Bits},
                    intr_bits |-> {k \in IntrBits : k + n[2] \notin IntrBits}]
  BY <1>1 DEF Init, ProcessInit
<1>3. /\ w = {k \in Bits : k + n[1] \notin Bits}
      /\ v = {k \in IntrBits : k + n[2] \notin IntrBits}
  BY <1>2
<1>4. /\ mem = [InitialMemory EXCEPT !.bitmap = w, !.intr_bitmap = v]
      /\ ptable = [s \in Slots |-> NoProcess] /\ next_pid = 1
  BY <1>1 DEF Init, ProcessInit
<1> HIDE DEF w, v
<1>5. n[1] \in Nat
  BY ProcessAssumption, LayoutAssumption DEF ProcessAssumption, LayoutAssumption
<1>6. w \in SUBSET Bits /\ v \in SUBSET IntrBits
  BY <1>3
<1>7. LastBits(w)
  <2>1. ASSUME NEW k \in w, NEW j \in Bits, k < j
        PROVE  j \in w
    <3>1. Capacity(PagesCount) \in Nat
      BY CapacityBound, LayoutAssumption DEF LayoutAssumption
    <3>2. k \in Bits /\ k + n[1] \notin Bits
      BY <1>3
    <3>3. j + n[1] \notin Bits
      BY <1>5, <2>1, <3>1, <3>2 DEF Bits
    <3> QED
      BY <1>3, <3>3
  <2> QED
    BY <2>1 DEF LastBits
<1>8. /\ mem.bitmap = w /\ mem.intr_bitmap = v
      /\ mem.dir = InitialMemory.dir /\ mem.tab = InitialMemory.tab
      /\ mem.panic = "none" /\ IsMemory(mem)
  BY <1>4 DEF InitialMemory, IsMemory
<1>9. mem \in MemoryType
  BY <1>6, <1>8, InitialMemoryType, PartsOfMemory, MemoryOfParts DEF PanicTexts
<1>10. \A s \in Slots : ptable[s] = NoProcess /\ ptable[s].state = UNUSED
  BY <1>4 DEF NoProcess
<1>11. LiveIn(ptable) = {}
  BY <1>10 DEF LiveIn
<1>12. MemorySound(mem, ptable, w) /\ ~Panicked(mem)
  BY <1>6, <1>8, <1>9, <1>11, InitialSound DEF Panicked
<1>13. Pool(mem)
  BY <1>9, <1>12, SoundIsPool DEF MemorySound
<1>14. Spent(mem, v) <= 3 * (next_pid - 1)
  <2>1. mem.intr_bitmap \ v = {}
    BY <1>8
  <2>2. Cardinality(mem.intr_bitmap \ v) = 0
    BY <2>1, FS_EmptySet
  <2>3. Cardinality(TablesOf(mem)) \in Nat
    BY <1>9, PoolIsFinite
  <2> QED
    BY <1>4, <2>2, <2>3 DEF Spent
<1>15. MemoryHolds
  BY <1>6, <1>7, <1>9, <1>12, <1>13, <1>14 DEF MemoryHolds, w, v
<1>16. TypeOK
  <2>1. NoProcess \in [state : {UNUSED, RUNNABLE, RUNNING}, pid : 0 .. MaxPid,
                       page_directory : Frames \union {NULL},
                       kernel_stack : UserPages \union {NULL}]
    BY SlotNumbers DEF NoProcess
  <2>2. ptable \in [Slots -> [state : {UNUSED, RUNNABLE, RUNNING}, pid : 0 .. MaxPid,
                              page_directory : Frames \union {NULL},
                              kernel_stack : UserPages \union {NULL}]]
    BY <1>4, <2>1
  <2>3. MaxUnread \in Nat
    BY KernelAssumption DEF KernelAssumption
  <2>4. scheduler_running \in BOOLEAN /\ IF_ \in BOOLEAN /\ saved_IF \in BOOLEAN
    BY <1>1, Zenon DEF Init
  <2>5. /\ next_pid \in 1 .. MaxPid + 1 /\ i \in 0 .. MAX_PROCESSES /\ unread \in 0 .. MaxUnread
        /\ cr3 \in Directories /\ in_service \in SUBSET {TIMER, KEYBOARD}
    BY <1>1, <1>4, <2>3, SlotNumbers DEF Init, Directories
  <2>6. /\ pc = "kmain" /\ prev \in Slots \union {None} /\ current_process \in Slots \union {None}
        /\ stack \in UserPages \union {BootStack}
    BY <1>1 DEF Init
  <2> QED
    BY <2>2, <2>4, <2>5, <2>6 DEF TypeOK
<1>17. Control
  <2>1. \A s \in Slots : ~Live(s) /\ ptable[s].state # RUNNING
    BY <1>10 DEF Live, UNUSED, RUNNING
  <2> QED
    BY <1>1, <2>1 DEF Control, Init, InProcess, NoGap
<1>18. PidsAreSet /\ LoadedDirectoryLives /\ KeepsItsStack
  BY <1>1, <1>10 DEF PidsAreSet, Live, LoadedDirectoryLives, KeepsItsStack, Init
<1> QED
  BY <1>15, <1>16, <1>17, <1>18 DEF IInv

\* A step that changes nothing keeps the invariant.
LEMMA StutterKeeps ==
  ASSUME IInv, UNCHANGED vars
  PROVE  IInv'
<1>1. UNCHANGED <<mem, ptable, next_pid, withheld, pc, i, prev, current_process,
                  scheduler_running, cr3, stack, IF_, saved_IF, in_service, unread>>
  BY DEF vars, table, cpu, irq
<1>2. MemoryHolds' /\ PidsAreSet'
  BY <1>1 DEF IInv, MemoryHolds, PidsAreSet, Live
<1>3. TypeOK'
  BY <1>1 DEF IInv, TypeOK
<1>4. pc' \notin Stopped => Control'
  BY <1>1 DEF IInv, Control, InProcess, NoGap, StackIsNobodys, Live, Directory
<1>5. LoadedDirectoryLives' /\ KeepsItsStack'
  BY <1>1 DEF IInv, LoadedDirectoryLives, KeepsItsStack, OneProcess, Live, Directory
<1> QED
  BY <1>2, <1>3, <1>4, <1>5 DEF IInv, Stopped

\* The invariant is one: every reachable state of the kernel satisfies it.
THEOREM Invariance == Spec => []IInv
<1>1. IInv /\ [Next]_vars => IInv'
  <2>1. SUFFICES ASSUME IInv, [Next]_vars
                 PROVE  IInv'
    OBVIOUS
  <2>2. CASE kmain_create
    BY <2>1, <2>2, KmainCreateKeeps
  <2>3. CASE scheduler_init
    BY <2>1, <2>3, SchedulerInitKeeps
  <2>4. CASE schedule_take
    BY <2>1, <2>4, ScheduleTakeKeeps
  <2>5. CASE schedule_mark
    BY <2>1, <2>5, ScheduleMarkKeeps
  <2>6. CASE schedule_load
    BY <2>1, <2>6, ScheduleLoadKeeps
  <2>7. CASE schedule_switch
    BY <2>1, <2>7, ScheduleSwitchKeeps
  <2>8. CASE schedule_halt
    BY <2>1, <2>8, ScheduleHaltKeeps
  <2>9. CASE syscall_read \/ getchar_take \/ getchar_return
    BY <2>1, <2>9, ReadKeeps
  <2>10. CASE syscall_exit
    BY <2>1, <2>10, SyscallExitKeeps
  <2>11. CASE exit_terminate
    BY <2>1, <2>11, ExitTerminateKeeps
  <2>12. CASE exit_clear
    BY <2>1, <2>12, ExitClearKeeps
  <2>13. CASE timer_handler
    BY <2>1, <2>13, TimerHandlerKeeps
  <2>14. CASE keyboard_handler
    BY <2>1, <2>14, KeyboardHandlerKeeps
  <2>15. CASE UNCHANGED vars
    BY <2>1, <2>15, StutterKeeps
  <2> QED
    BY <2>1, <2>2, <2>3, <2>4, <2>5, <2>6, <2>7, <2>8, <2>9, <2>10, <2>11, <2>12, <2>13,
       <2>14, <2>15 DEF Next, CpuStep
<1> QED
  BY <1>1, InitHolds, PTL DEF Spec

\* Every variable of the kernel keeps its type.
THEOREM TypeCorrect == Spec => []TypeOK
<1>1. IInv => TypeOK
  BY DEF IInv
<1> QED
  BY <1>1, Invariance, PTL

\* The code of a process runs in its own space, on its own stack, and no other
\* process is marked as running: for every number of slots and every order of
\* the statements of schedule() and the interrupts.
THEOREM OwnSpace == Spec => []RunsInOwnSpace
<1>1. IInv => RunsInOwnSpace
  <2>1. InProcess => pc \notin Stopped
    BY DEF InProcess, Stopped
  <2>2. 0 # None
    BY DEF None
  <2> QED
    BY <2>1, <2>2 DEF IInv, Control, RunsInOwnSpace, InProcess
<1> QED
  BY <1>1, Invariance, PTL

\* The directory that is loaded is the kernel's or that of a live process.
THEOREM DirectoryLives == Spec => []LoadedDirectoryLives
<1>1. IInv => LoadedDirectoryLives
  BY DEF IInv
<1> QED
  BY <1>1, Invariance, PTL

\* With one process no function returns through a stack that is not its own, and
\* the stack is lost only in an exit that finds the table pool empty.
THEOREM StackIsKept == Spec => []KeepsItsStack
<1>1. IInv => KeepsItsStack
  BY DEF IInv
<1> QED
  BY <1>1, Invariance, PTL

\* A process has its stack and its code to itself.
THEOREM SpacesAreIsolated == Spec => []Isolation
<1>1. ASSUME NEW w, MemorySound(mem, ptable, w), NEW s \in Slots, Live(s)
      PROVE  /\ Stack(s) = ptable[s].kernel_stack
             /\ Stack(s) # Code(s)
             /\ UserMapped(ptable[s].page_directory) = {Stack(s), Code(s)}
             /\ \A r \in Slots \ {s} : Live(r) =>
                  UserMapped(ptable[s].page_directory)
                    \intersect UserMapped(ptable[r].page_directory) = {}
  <2>1. s \in LiveIn(ptable) /\ \A r \in Slots : Live(r) => r \in LiveIn(ptable)
    BY <1>1 DEF Live, LiveIn
  <2>2. PICK co \in UserPages : HasSpace(mem, ptable[s].page_directory, ptable[s].kernel_stack, co)
    BY <1>1, <2>1 DEF MemorySound, SpacesApart
  <2>3. \A r \in LiveIn(ptable) : s # r =>
          UserPagesOf(mem, ptable[s].page_directory)
            \intersect UserPagesOf(mem, ptable[r].page_directory) = {}
    BY <1>1, <2>1 DEF MemorySound, SpacesApart
  <2>4. Stack(s) = ptable[s].kernel_stack /\ Code(s) = co
    BY <2>2 DEF HasSpace, Stack, Code
  <2> QED
    BY <2>1, <2>2, <2>3, <2>4 DEF HasSpace, UserMapped, UserPagesOf
<1>2. IInv => Isolation
  BY <1>1 DEF IInv, MemoryHolds, Isolation
<1> QED
  BY <1>2, Invariance, PTL

\* The marked pages are those of the processes, and a call of process_create
\* costs three pages of the table pool at most.
THEOREM EveryPageAccounted == Spec => []PagesAccounted
<1>1. ASSUME IInv, ~Panicked(mem)
      PROVE  {PMM_START + k : k \in mem.bitmap \ withheld.bits} =
               UNION {{Stack(s), Code(s)} : s \in {r \in Slots : Live(r)}}
  <2> DEFINE w == withheld.bits
             marked == {PMM_START + k : k \in mem.bitmap \ w}
  <2>1. MemorySound(mem, ptable, w) /\ mem.bitmap \in SUBSET Bits
    BY <1>1, PartsOfMemory DEF IInv, MemoryHolds
  <2> HIDE DEF w
  <2>2. ASSUME NEW s \in Slots, Live(s)
        PROVE  UserPagesOf(mem, ptable[s].page_directory) = {Stack(s), Code(s)}
    <3>1. PICK co \in UserPages : HasSpace(mem, ptable[s].page_directory, ptable[s].kernel_stack, co)
      BY <2>1, <2>2 DEF MemorySound, SpacesApart, LiveIn, Live
    <3> QED
      BY <3>1 DEF HasSpace, Stack, Code
  <2>3. \A p \in UserPages : p - PMM_START \in mem.bitmap \ w <=>
          \E s \in LiveIn(ptable) : p \in UserPagesOf(mem, ptable[s].page_directory)
    BY <2>1 DEF MemorySound, MarksAreSpaces
  <2>4. \A k \in mem.bitmap : PMM_START + k \in UserPages /\ (PMM_START + k) - PMM_START = k
    BY <2>1, PagesOfBits
  <2>5. \A p \in UserPages : p \in marked <=> p - PMM_START \in mem.bitmap \ w
    <3>1. \A p \in UserPages : PMM_START + (p - PMM_START) = p
      BY Layout DEF PMM_START
    <3> QED
      BY <2>4, <3>1
  <2>6. marked \in SUBSET UserPages
    BY <2>4
  <2>7. LiveIn(ptable) = {r \in Slots : Live(r)}
    BY DEF LiveIn, Live
  <2>8. \A s \in LiveIn(ptable) : /\ UserPagesOf(mem, ptable[s].page_directory) = {Stack(s), Code(s)}
                                  /\ {Stack(s), Code(s)} \in SUBSET UserPages
    BY <2>2, <2>7 DEF UserPagesOf
  <2> HIDE DEF marked
  <2>9. marked = UNION {{Stack(s), Code(s)} : s \in LiveIn(ptable)}
    BY <2>3, <2>5, <2>6, <2>8
  <2> QED
    BY <2>7, <2>9 DEF marked, w
<1>2. ASSUME IInv
      PROVE  Cardinality(mem.intr_bitmap \ withheld.intr_bits)
               <= Cardinality(KernelTables) + 3 * (next_pid - 1)
  <2>1. KernelTables = TablesOf(mem)
    BY DEF KernelTables, TablesOf
  <2>2. /\ Cardinality(mem.intr_bitmap \ withheld.intr_bits) \in Nat
        /\ Cardinality(TablesOf(mem)) \in Nat
    BY <1>2, PoolIsFinite DEF IInv, MemoryHolds
  <2>3. next_pid \in Nat
    BY <1>2, SlotNumbers DEF IInv, TypeOK
  <2>4. Spent(mem, withheld.intr_bits) <= 3 * (next_pid - 1)
    BY <1>2 DEF IInv, MemoryHolds
  <2> QED
    BY <2>1, <2>2, <2>3, <2>4 DEF Spent
<1>3. IInv => PagesAccounted
  BY <1>1, <1>2 DEF PagesAccounted
<1> QED
  BY <1>3, Invariance, PTL

=============================================================================
