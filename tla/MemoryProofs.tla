---------------------------- MODULE MemoryProofs ----------------------------
(***************************************************************************)
(* Proofs about Memory for every size of the tables, of the bitmaps and of *)
(* the memory that satisfies LayoutAssumption.  The lemmas about the       *)
(* operators of Pages come first; KernelProofs, which extends a            *)
(* specification with variables of its own, begins with the same ones.     *)
(***************************************************************************)
EXTENDS Memory, TLAPS

-----------------------------------------------------------------------------
(* Arithmetic of pages *)

\* An address is made of its table and its entry in the table.
LEMMA SplitAddress ==
  ASSUME NEW va \in Nat
  PROVE  /\ PDX(va) \in Nat
         /\ PTX(va) \in TabIndexes
         /\ va = Entries * PDX(va) + PTX(va)
BY LayoutAssumption, SMT DEF PDX, PTX, TabIndexes, LayoutAssumption

\* Two addresses with the same table and entry are the same.
LEMMA AddressIsItsIndexes ==
  ASSUME NEW p \in Nat, NEW q \in Nat, PDX(p) = PDX(q), PTX(p) = PTX(q)
  PROVE  p = q
<1>1. p = Entries * PDX(p) + PTX(p)
  BY SplitAddress
<1>2. q = Entries * PDX(q) + PTX(q)
  BY SplitAddress
<1> QED
  BY <1>1, <1>2

\* The page before one that is not the first of its table has the same table.
LEMMA SameTableAsPrevious ==
  ASSUME NEW p \in Nat, PTX(p) # 0
  PROVE  p > 0 /\ PDX(p - 1) = PDX(p)
<1>1. p > 0
  BY LayoutAssumption, SMT DEF PTX, LayoutAssumption
<1>2. PDX(p - 1) = PDX(p)
  BY <1>1, LayoutAssumption, SMT DEF PTX, PDX, LayoutAssumption
<1> QED
  BY <1>1, <1>2

\* The whole words of a bitmap hold at most the pages it was declared for.
LEMMA CapacityBound ==
  ASSUME NEW count \in Nat
  PROVE  Capacity(count) \in Nat /\ Capacity(count) <= count
<1> DEFINE q == count \div WordBits
<1>1. q \in Nat /\ q * WordBits <= count
  BY LayoutAssumption, SMT DEF LayoutAssumption
<1>2. q * WordBits \in Nat
  BY <1>1, LayoutAssumption, SMT DEF LayoutAssumption
<1> QED
  BY <1>1, <1>2 DEF Capacity

\* The pool of tables lies in the second table of the kernel, below the pages
\* of the processes; the kernel's own tables lie below the pool.
LEMMA Layout ==
  /\ Entries \in Nat \ {0} /\ DirEntries \in Nat
  /\ Bits \subseteq Nat /\ IntrBits \subseteq Nat
  /\ \A f \in Frames : /\ f \in Entries .. 2 * Entries - 1
                       /\ f - PMM_INTR_START \in IntrBits
  /\ \A p \in UserPages : /\ p \in Nat
                          /\ p >= PMM_START
                          /\ p - PMM_START \in Bits
                          /\ p - PMM_START < PagesCount
                          /\ PDX(p) \in 2 .. DirEntries - 1
                          /\ PTX(p) \in TabIndexes
  /\ KDir \notin Frames /\ KTab1 \notin Frames /\ KTab2 \notin Frames
  /\ NULL \notin Tables /\ NotPresent \notin Tables
  /\ \A p \in KernelPages : p < PMM_START
  /\ NotPresent \notin UserPages
<1>1. Capacity(PagesCount) \in Nat /\ Capacity(PagesCount) <= PagesCount
  BY CapacityBound, LayoutAssumption DEF LayoutAssumption
<1>2. Capacity(IntrPagesCount) \in Nat /\ Capacity(IntrPagesCount) <= IntrPagesCount
  BY CapacityBound, LayoutAssumption DEF LayoutAssumption
<1>3. Entries \in Nat \ {0} /\ DirEntries \in Nat
  BY LayoutAssumption DEF LayoutAssumption
<1>4. Bits \subseteq Nat /\ IntrBits \subseteq Nat
  BY <1>1, <1>2 DEF Bits, IntrBits
<1>5. \A f \in Frames : f \in Entries .. 2 * Entries - 1 /\ f - PMM_INTR_START \in IntrBits
  BY <1>2, <1>3, LayoutAssumption DEF Frames, IntrBits, PMM_INTR_START, LayoutAssumption
<1>6. ASSUME NEW p \in UserPages
      PROVE  /\ p \in Nat
             /\ p >= PMM_START
             /\ p - PMM_START \in Bits
             /\ p - PMM_START < PagesCount
             /\ PDX(p) \in 2 .. DirEntries - 1
             /\ PTX(p) \in TabIndexes
  <2>1. PICK k \in Bits : p = PMM_START + k
    BY DEF UserPages
  <2>2. p \in Nat /\ p >= PMM_START /\ p - PMM_START = k
    BY <1>3, <1>4, <2>1 DEF PMM_START
  <2>3. k < PagesCount
    BY <1>1, LayoutAssumption DEF Bits, LayoutAssumption
  <2>4. PDX(p) \in 2 .. DirEntries - 1
    BY <2>1, LayoutAssumption DEF LayoutAssumption
  <2> QED
    BY <2>2, <2>3, <2>4, SplitAddress
<1>7. {KDir, KTab1, KTab2} \subseteq 1 .. Entries - 1
  BY LayoutAssumption DEF LayoutAssumption
<1>8. KDir \notin Frames /\ KTab1 \notin Frames /\ KTab2 \notin Frames
  BY <1>3, <1>5, <1>7
<1>9. NULL \notin Tables /\ NotPresent \notin Tables
  BY <1>3, <1>5, <1>7 DEF Tables, NULL, NotPresent
<1>10. \A p \in KernelPages : p < PMM_START
  BY <1>3 DEF KernelPages, PMM_START
<1>11. NotPresent \notin UserPages
  BY <1>6 DEF NotPresent
<1> QED
  BY <1>3, <1>4, <1>5, <1>6, <1>8, <1>9, <1>10, <1>11

\* A bit of a bitmap stands for a page, and for one page only.
LEMMA PagesOfBits ==
  /\ \A k \in IntrBits : PMM_INTR_START + k \in Frames /\ (PMM_INTR_START + k) - PMM_INTR_START = k
  /\ \A k \in Bits : PMM_START + k \in UserPages /\ (PMM_START + k) - PMM_START = k
<1>1. Entries \in Nat /\ Bits \subseteq Nat /\ IntrBits \subseteq Nat
  BY Layout
<1>2. PMM_INTR_START \in Nat /\ PMM_START \in Nat
  BY <1>1 DEF PMM_INTR_START, PMM_START
<1>3. \A k \in IntrBits : PMM_INTR_START + k \in Frames
  BY DEF Frames
<1>4. \A k \in Bits : PMM_START + k \in UserPages
  BY DEF UserPages
<1> QED
  BY <1>1, <1>2, <1>3, <1>4

-----------------------------------------------------------------------------
(* Memory records *)

\* A memory is the record of its parts.
IsMemory(m) == m = [bitmap |-> m.bitmap, intr_bitmap |-> m.intr_bitmap, dir |-> m.dir,
                    tab |-> m.tab, panic |-> m.panic]

\* A record whose parts have the right types is a memory of the right type.
LEMMA MemoryOfParts ==
  ASSUME NEW m, IsMemory(m),
         m.bitmap \in SUBSET Bits, m.intr_bitmap \in SUBSET IntrBits,
         m.dir \in [Directories -> [DirIndexes -> Tables \union {NotPresent}]],
         m.tab \in [Tables -> [TabIndexes -> PageNumbers \union {NotPresent}]],
         m.panic \in PanicTexts
  PROVE  m \in MemoryType
BY DEF IsMemory, MemoryType

\* The parts of a memory have the right types.
LEMMA PartsOfMemory ==
  ASSUME NEW m \in MemoryType
  PROVE  /\ IsMemory(m)
         /\ m.bitmap \in SUBSET Bits /\ m.intr_bitmap \in SUBSET IntrBits
         /\ m.dir \in [Directories -> [DirIndexes -> Tables \union {NotPresent}]]
         /\ m.tab \in [Tables -> [TabIndexes -> PageNumbers \union {NotPresent}]]
         /\ m.panic \in PanicTexts
BY DEF IsMemory, MemoryType

\* What each of the functions that write leaves behind, part by part: m1 is m
\* with one entry of a table written,
TableEntryWritten(m, t, j, page, m1) ==
  /\ IsMemory(m1)
  /\ m1.bitmap = m.bitmap /\ m1.intr_bitmap = m.intr_bitmap /\ m1.panic = m.panic
  /\ m1.dir = m.dir
  /\ m1.tab = [m.tab EXCEPT ![t] = [m.tab[t] EXCEPT ![j] = page]]

LEMMA WriteTableEntry ==
  ASSUME NEW m \in MemoryType, NEW t, NEW j, NEW page
  PROVE  TableEntryWritten(m, t, j, page, write_table_entry(m, t, j, page))
<1> DEFINE m1 == write_table_entry(m, t, j, page)
<1>0. m1 = write_table_entry(m, t, j, page)
  OBVIOUS
<1> HIDE DEF m1
<1>1. /\ m1.bitmap = m.bitmap /\ m1.intr_bitmap = m.intr_bitmap /\ m1.panic = m.panic
      /\ m1.dir = m.dir
      /\ m1.tab = [m.tab EXCEPT ![t] = [m.tab[t] EXCEPT ![j] = page]]
  BY <1>0, Zenon DEF MemoryType, write_table_entry
<1>2. IsMemory(m1)
  BY <1>0, <1>1, Zenon DEF MemoryType, IsMemory, write_table_entry
<1>3. TableEntryWritten(m, t, j, page, m1)
  BY <1>1, <1>2 DEF TableEntryWritten
<1> QED
  BY <1>3 DEF m1

\* one entry of a directory,
DirectoryEntryWritten(m, d, k, tb, m1) ==
  /\ IsMemory(m1)
  /\ m1.bitmap = m.bitmap /\ m1.intr_bitmap = m.intr_bitmap /\ m1.panic = m.panic
  /\ m1.dir = [m.dir EXCEPT ![d] = [m.dir[d] EXCEPT ![k] = tb]]
  /\ m1.tab = m.tab

LEMMA WriteDirectoryEntry ==
  ASSUME NEW m \in MemoryType, NEW d, NEW k, NEW tb
  PROVE  DirectoryEntryWritten(m, d, k, tb, write_directory_entry(m, d, k, tb))
<1> DEFINE m1 == write_directory_entry(m, d, k, tb)
<1>0. m1 = write_directory_entry(m, d, k, tb)
  OBVIOUS
<1> HIDE DEF m1
<1>1. /\ m1.bitmap = m.bitmap /\ m1.intr_bitmap = m.intr_bitmap /\ m1.panic = m.panic
      /\ m1.dir = [m.dir EXCEPT ![d] = [m.dir[d] EXCEPT ![k] = tb]]
      /\ m1.tab = m.tab
  BY <1>0, Zenon DEF MemoryType, write_directory_entry
<1>2. IsMemory(m1)
  BY <1>0, <1>1, Zenon DEF MemoryType, IsMemory, write_directory_entry
<1>3. DirectoryEntryWritten(m, d, k, tb, m1)
  BY <1>1, <1>2 DEF DirectoryEntryWritten
<1> QED
  BY <1>3 DEF m1

\* a whole directory,
DirectoryWritten(m, d, table_of, m1) ==
  /\ IsMemory(m1)
  /\ m1.bitmap = m.bitmap /\ m1.intr_bitmap = m.intr_bitmap /\ m1.panic = m.panic
  /\ m1.dir = [m.dir EXCEPT ![d] = table_of]
  /\ m1.tab = m.tab

LEMMA WritePageDirectory ==
  ASSUME NEW m \in MemoryType, NEW d, NEW table_of
  PROVE  DirectoryWritten(m, d, table_of, write_page_directory(m, d, table_of))
<1> DEFINE m1 == write_page_directory(m, d, table_of)
<1>0. m1 = write_page_directory(m, d, table_of)
  OBVIOUS
<1> HIDE DEF m1
<1>1. /\ m1.bitmap = m.bitmap /\ m1.intr_bitmap = m.intr_bitmap /\ m1.panic = m.panic
      /\ m1.dir = [m.dir EXCEPT ![d] = table_of]
      /\ m1.tab = m.tab
  BY <1>0, Zenon DEF MemoryType, write_page_directory
<1>2. IsMemory(m1)
  BY <1>0, <1>1, Zenon DEF MemoryType, IsMemory, write_page_directory
<1>3. DirectoryWritten(m, d, table_of, m1)
  BY <1>1, <1>2 DEF DirectoryWritten
<1> QED
  BY <1>3 DEF m1

\* a bit set,
BitSet(m, k, m1) ==
  /\ IsMemory(m1)
  /\ m1.bitmap = m.bitmap \union {k} /\ m1.intr_bitmap = m.intr_bitmap /\ m1.panic = m.panic
  /\ m1.dir = m.dir /\ m1.tab = m.tab

LEMMA BitmapSet ==
  ASSUME NEW m \in MemoryType, NEW k
  PROVE  BitSet(m, k, bitmap_set(m, k))
<1> DEFINE m1 == bitmap_set(m, k)
<1>0. m1 = bitmap_set(m, k)
  OBVIOUS
<1> HIDE DEF m1
<1>1. /\ m1.bitmap = m.bitmap \union {k} /\ m1.intr_bitmap = m.intr_bitmap /\ m1.panic = m.panic
      /\ m1.dir = m.dir /\ m1.tab = m.tab
  BY <1>0, Zenon DEF MemoryType, bitmap_set
<1>2. IsMemory(m1)
  BY <1>0, <1>1, Zenon DEF MemoryType, IsMemory, bitmap_set
<1>3. BitSet(m, k, m1)
  BY <1>1, <1>2 DEF BitSet
<1> QED
  BY <1>3 DEF m1

\* bits cleared,
BitsCleared(m, ks, m1) ==
  /\ IsMemory(m1)
  /\ m1.bitmap = m.bitmap \ ks /\ m1.intr_bitmap = m.intr_bitmap /\ m1.panic = m.panic
  /\ m1.dir = m.dir /\ m1.tab = m.tab

LEMMA BitmapClear ==
  ASSUME NEW m \in MemoryType, NEW ks
  PROVE  BitsCleared(m, ks, bitmap_clear(m, ks))
<1> DEFINE m1 == bitmap_clear(m, ks)
<1>0. m1 = bitmap_clear(m, ks)
  OBVIOUS
<1> HIDE DEF m1
<1>1. /\ m1.bitmap = m.bitmap \ ks /\ m1.intr_bitmap = m.intr_bitmap /\ m1.panic = m.panic
      /\ m1.dir = m.dir /\ m1.tab = m.tab
  BY <1>0, Zenon DEF MemoryType, bitmap_clear
<1>2. IsMemory(m1)
  BY <1>0, <1>1, Zenon DEF MemoryType, IsMemory, bitmap_clear
<1>3. BitsCleared(m, ks, m1)
  BY <1>1, <1>2 DEF BitsCleared
<1> QED
  BY <1>3 DEF m1

\* the kernel panicked,
PanicWritten(m, text, m1) ==
  /\ IsMemory(m1)
  /\ m1.bitmap = m.bitmap /\ m1.intr_bitmap = m.intr_bitmap /\ m1.panic = text
  /\ m1.dir = m.dir /\ m1.tab = m.tab

LEMMA Kpanic ==
  ASSUME NEW m \in MemoryType, NEW text
  PROVE  PanicWritten(m, text, kpanic(m, text))
<1> DEFINE m1 == kpanic(m, text)
<1>0. m1 = kpanic(m, text)
  OBVIOUS
<1> HIDE DEF m1
<1>1. /\ m1.bitmap = m.bitmap /\ m1.intr_bitmap = m.intr_bitmap /\ m1.panic = text
      /\ m1.dir = m.dir /\ m1.tab = m.tab
  BY <1>0, Zenon DEF MemoryType, kpanic
<1>2. IsMemory(m1)
  BY <1>0, <1>1, Zenon DEF MemoryType, IsMemory, kpanic
<1>3. PanicWritten(m, text, m1)
  BY <1>1, <1>2 DEF PanicWritten
<1> QED
  BY <1>3 DEF m1

\* a page of the pool marked and cleared.
PageTaken(m, k, m1) ==
  /\ IsMemory(m1)
  /\ m1.bitmap = m.bitmap /\ m1.intr_bitmap = m.intr_bitmap \union {k} /\ m1.panic = m.panic
  /\ m1.dir = [m.dir EXCEPT ![PMM_INTR_START + k] = EmptyDir]
  /\ m1.tab = [m.tab EXCEPT ![PMM_INTR_START + k] = EmptyTab]

LEMMA MarkAndClear ==
  ASSUME NEW m \in MemoryType, NEW k
  PROVE  PageTaken(m, k, mark_and_clear(m, k))
<1> DEFINE m1 == mark_and_clear(m, k)
<1>0. m1 = mark_and_clear(m, k)
  OBVIOUS
<1> HIDE DEF m1
<1>1. /\ m1.bitmap = m.bitmap /\ m1.intr_bitmap = m.intr_bitmap \union {k} /\ m1.panic = m.panic
      /\ m1.dir = [m.dir EXCEPT ![PMM_INTR_START + k] = EmptyDir]
      /\ m1.tab = [m.tab EXCEPT ![PMM_INTR_START + k] = EmptyTab]
  BY <1>0, Zenon DEF MemoryType, mark_and_clear
<1>2. IsMemory(m1)
  BY <1>0, <1>1, Zenon DEF MemoryType, IsMemory, mark_and_clear
<1>3. PageTaken(m, k, m1)
  BY <1>1, <1>2 DEF PageTaken
<1> QED
  BY <1>3 DEF m1

-----------------------------------------------------------------------------
(* What the functions of pmm.c return *)

\* The scan returns the first page without a mark, or -1.
LEMMA FindFirstPage ==
  ASSUME NEW bits, NEW count
  PROVE  \/ find_first_page(bits, count) = -1
         \/ /\ find_first_page(bits, count) \in 0 .. Capacity(count) - 1
            /\ FirstZero(bits, count, find_first_page(bits, count))
BY DEF find_first_page

\* Page t of the pool, not marked in m, is marked and clear in a.
FrameTaken(m, t, a) ==
  /\ t \in Frames /\ ~FrameMarked(m, t)
  /\ a.bitmap = m.bitmap /\ a.panic = m.panic
  /\ a.intr_bitmap = m.intr_bitmap \union {t - PMM_INTR_START}
  /\ a.dir = [m.dir EXCEPT ![t] = EmptyDir]
  /\ a.tab = [m.tab EXCEPT ![t] = EmptyTab]

\* pmm_intr_alloc_page returns NULL and changes nothing, or marks a page that
\* was not marked and clears it.
LEMMA IntrAlloc ==
  ASSUME NEW m \in MemoryType
  PROVE  LET a == pmm_intr_alloc_page(m)
         IN  \/ a = Result(m, NULL)
             \/ a.mem \in MemoryType /\ FrameTaken(m, a.ret, a.mem)
<1> DEFINE k == find_first_page(m.intr_bitmap, IntrPagesCount)
           f == PMM_INTR_START + k
           r == mark_and_clear(m, k)
<1>1. CASE k = -1
  <2>1. pmm_intr_alloc_page(m) = Result(m, NULL)
    BY <1>1 DEF pmm_intr_alloc_page
  <2> QED
    BY <2>1
<1>2. CASE k # -1
  <2>1. k \in IntrBits /\ FirstZero(m.intr_bitmap, IntrPagesCount, k)
    BY <1>2, FindFirstPage DEF IntrBits
  <2>2. f \in Frames /\ f - PMM_INTR_START = k
    BY <2>1, PagesOfBits
  <2>3. ~FrameMarked(m, f)
    BY <2>1, <2>2 DEF FirstZero, FrameMarked
  <2>parts. /\ IsMemory(r)
            /\ r.bitmap = m.bitmap /\ r.intr_bitmap = m.intr_bitmap \union {k} /\ r.panic = m.panic
            /\ r.dir = [m.dir EXCEPT ![f] = EmptyDir] /\ r.tab = [m.tab EXCEPT ![f] = EmptyTab]
    BY MarkAndClear DEF PageTaken
  <2>4. r \in MemoryType
    <3> HIDE DEF r, k, f
    <3>0. /\ m.dir \in [Directories -> [DirIndexes -> Tables \union {NotPresent}]]
          /\ m.tab \in [Tables -> [TabIndexes -> PageNumbers \union {NotPresent}]]
      BY PartsOfMemory
    <3>1. r.intr_bitmap \in SUBSET IntrBits
      BY <2>1, <2>parts, PartsOfMemory
    <3>2. EmptyDir \in [DirIndexes -> Tables \union {NotPresent}]
      BY DEF EmptyDir
    <3>3. EmptyTab \in [TabIndexes -> PageNumbers \union {NotPresent}]
      BY DEF EmptyTab
    <3>4. r.dir \in [Directories -> [DirIndexes -> Tables \union {NotPresent}]]
      BY <3>0, <3>2, <2>parts
    <3>5. r.tab \in [Tables -> [TabIndexes -> PageNumbers \union {NotPresent}]]
      BY <3>0, <3>3, <2>parts
    <3> QED
      BY <3>1, <3>4, <3>5, <2>parts, PartsOfMemory, MemoryOfParts
  <2>5. pmm_intr_alloc_page(m) = Result(r, f)
    BY <1>2 DEF pmm_intr_alloc_page
  <2>6. pmm_intr_alloc_page(m).ret = f /\ pmm_intr_alloc_page(m).mem = r
    BY <2>5 DEF Result
  <2> HIDE DEF k, f, r
  <2>7. FrameTaken(m, f, r)
    BY <2>2, <2>3, <2>parts DEF FrameTaken
  <2> QED
    BY <2>4, <2>6, <2>7
<1> QED
  BY <1>1, <1>2

-----------------------------------------------------------------------------
(* The inductive invariant, on a memory m with the directories ds *)

\* The kernel's own tables map no page of a process.
KernelTablesClean(m) == \A t \in {KTab1, KTab2}, j \in TabIndexes : m.tab[t][j] \notin UserPages

\* From entry 2 on a directory refers to tables of its own only.
UserHalves(m) == \A d \in Directories, v \in DirIndexes : v >= 2 => m.dir[d][v] \notin {KTab1, KTab2}

Sound(m, ds) == OneUse(m, ds) /\ KernelTablesClean(m) /\ UserHalves(m)

\* What it means for a directory to map a page of a process.
LEMMA MappedPage ==
  ASSUME NEW m, NEW d, NEW p \in UserPages
  PROVE  p \in Mapped(m, d) <=>
           \E v \in DirIndexes, j \in TabIndexes :
             m.dir[d][v] # NotPresent /\ m.tab[m.dir[d][v]][j] = p
BY Layout DEF Mapped

\* The directories in use translate every address as before.
SameView(m, m1, ds) ==
  /\ \A e \in ds \union {KDir} :
       Mapped(m1, e) \intersect UserPages = Mapped(m, e) \intersect UserPages
  /\ \A e \in ds \union {KDir}, x \in Nat :
       PDX(x) \in DirIndexes => vmm_va2pa(m1, e, x) = vmm_va2pa(m, e, x)

\* The kernel's directory keeps the tables that it has.
TablesStay(m, m1) ==
  \A v \in DirIndexes : m.dir[KDir][v] # NotPresent => m1.dir[KDir][v] # NotPresent

\* Entry j of table k of directory d maps page p; the others map what they did.
EntryMapped(m, m1, ds, d, k, j, p) ==
  /\ \A e \in ds \ {d} : Mapped(m1, e) \intersect UserPages = Mapped(m, e) \intersect UserPages
  /\ m.tab[m.dir[d][k]][j] \notin UserPages =>
       Mapped(m1, d) \intersect UserPages = (Mapped(m, d) \intersect UserPages) \union {p}
  /\ \A e \in ds \union {KDir}, x \in Nat :
       PDX(x) \in DirIndexes /\ (e # d \/ PDX(x) # k \/ PTX(x) # j) =>
         vmm_va2pa(m1, e, x) = vmm_va2pa(m, e, x)

\* Writing one entry of a table that a directory has for itself.
LEMMA WriteEntry ==
  ASSUME NEW m \in MemoryType, NEW ds \in SUBSET Frames, Sound(m, ds),
         NEW d \in ds \union {KDir}, NEW k \in 2 .. DirEntries - 1,
         m.dir[d][k] # NotPresent,
         NEW j \in TabIndexes, NEW p \in UserPages,
         NEW m1, TableEntryWritten(m, m.dir[d][k], j, p, m1)
  PROVE  /\ m1 \in MemoryType
         /\ m1.bitmap = m.bitmap /\ m1.panic = m.panic /\ m1.dir = m.dir
         /\ m1.tab[m.dir[d][k]][j] = p
         /\ Sound(m1, ds)
         /\ EntryMapped(m, m1, ds, d, k, j, p)
<1> DEFINE t == m.dir[d][k]
<1>1. d \in Directories /\ k \in DirIndexes /\ ds \union {KDir} \subseteq Directories
  BY Layout DEF Directories, DirIndexes
<1>2. t \in Tables /\ t \notin {KTab1, KTab2, NotPresent}
  BY <1>1 DEF Sound, UserHalves, MemoryType
<1>3. OwnTable(m, d, k)
  BY <1>2 DEF OwnTable
<1>4. \A e \in Directories, v \in DirIndexes : m.dir[e][v] = t => e = d /\ v = k
  BY <1>1, <1>3 DEF Sound, OneUse
<1>5. /\ m1.bitmap = m.bitmap /\ m1.panic = m.panic /\ m1.dir = m.dir
      /\ m1.intr_bitmap = m.intr_bitmap
      /\ m1.tab = [m.tab EXCEPT ![t] = [m.tab[t] EXCEPT ![j] = p]]
      /\ IsMemory(m1)
  BY DEF TableEntryWritten
<1>6. m.tab \in [Tables -> [TabIndexes -> PageNumbers \union {NotPresent}]]
  BY DEF MemoryType
<1>7. m1.tab \in [Tables -> [TabIndexes -> PageNumbers \union {NotPresent}]]
  BY <1>2, <1>5, <1>6 DEF PageNumbers
<1>8. m1 \in MemoryType
  BY <1>5, <1>7, PartsOfMemory, MemoryOfParts
<1>9. /\ \A u \in Tables \ {t} : m1.tab[u] = m.tab[u]
      /\ m1.tab[t][j] = p
      /\ \A l \in TabIndexes \ {j} : m1.tab[t][l] = m.tab[t][l]
  BY <1>2, <1>5, <1>6
<1>10. Sound(m1, ds)
  <2>1. OneUse(m1, ds)
    BY <1>5 DEF Sound, OneUse, OwnTable, FrameMarked
  <2>2. KernelTablesClean(m1)
    BY <1>2, <1>9 DEF Sound, KernelTablesClean, Tables
  <2>3. UserHalves(m1)
    BY <1>5 DEF Sound, UserHalves
  <2> QED
    BY <2>1, <2>2, <2>3 DEF Sound
<1>11. \A e \in Directories, v \in DirIndexes :
         m.dir[e][v] # NotPresent => m.dir[e][v] \in Tables
  BY DEF MemoryType
<1>mapped. ASSUME NEW e, NEW q \in UserPages
           PROVE  q \in Mapped(m1, e) <=>
                    \E v \in DirIndexes, l \in TabIndexes :
                      m.dir[e][v] # NotPresent /\ m1.tab[m.dir[e][v]][l] = q
  <2>1. q \in Mapped(m1, e) <=>
          \E v \in DirIndexes, l \in TabIndexes :
            m1.dir[e][v] # NotPresent /\ m1.tab[m1.dir[e][v]][l] = q
    BY ONLY q \in UserPages, Layout DEF Mapped
  <2> QED
    BY <1>5, <2>1
<1>12. ASSUME NEW e \in ds \ {d}, NEW q \in UserPages
       PROVE  q \in Mapped(m1, e) <=> q \in Mapped(m, e)
  <2>1. e \in Directories
    BY <1>1
  <2>2. \A v \in DirIndexes : m.dir[e][v] # NotPresent => m1.tab[m.dir[e][v]] = m.tab[m.dir[e][v]]
    BY <1>4, <1>9, <1>11, <2>1
  <2> QED
    BY <1>mapped, <2>2, MappedPage
<1>13. ASSUME m.tab[t][j] \notin UserPages, NEW q \in UserPages
       PROVE  q \in Mapped(m1, d) <=> q \in Mapped(m, d) \/ q = p
  <2>1. \A v \in DirIndexes \ {k} :
          m.dir[d][v] # NotPresent => m1.tab[m.dir[d][v]] = m.tab[m.dir[d][v]]
    BY <1>1, <1>4, <1>9, <1>11
  <2>2. ASSUME q \in Mapped(m1, d)
        PROVE  q \in Mapped(m, d) \/ q = p
    <3>1. PICK v \in DirIndexes, l \in TabIndexes :
            m.dir[d][v] # NotPresent /\ m1.tab[m.dir[d][v]][l] = q
      BY <1>mapped, <2>2
    <3>2. CASE v = k /\ l = j
      BY <3>1, <3>2, <1>9
    <3>3. CASE v # k \/ l # j
      <4>1. m.tab[m.dir[d][v]][l] = q
        BY <3>1, <3>3, <2>1, <1>9
      <4> QED
        BY <3>1, <4>1, MappedPage
    <3> QED
      BY <3>2, <3>3
  <2>3. ASSUME q \in Mapped(m, d)
        PROVE  q \in Mapped(m1, d)
    <3>1. PICK v \in DirIndexes, l \in TabIndexes :
            m.dir[d][v] # NotPresent /\ m.tab[m.dir[d][v]][l] = q
      BY <2>3, MappedPage
    <3>2. ~(v = k /\ l = j)
      BY <3>1, <1>13
    <3>3. m1.tab[m.dir[d][v]][l] = q
      BY <3>1, <3>2, <2>1, <1>9
    <3> QED
      BY <1>mapped, <3>1, <3>3
  <2>4. p \in Mapped(m1, d)
    BY <1>mapped, <1>1, <1>2, <1>9
  <2> QED
    BY <2>2, <2>3, <2>4
<1>14. ASSUME NEW e \in ds \union {KDir}, NEW x \in Nat, PDX(x) \in DirIndexes,
              e # d \/ PDX(x) # k \/ PTX(x) # j
       PROVE  vmm_va2pa(m1, e, x) = vmm_va2pa(m, e, x)
  <2>1. e \in Directories /\ PTX(x) \in TabIndexes
    BY <1>1, SplitAddress
  <2>2. ASSUME m.dir[e][PDX(x)] # NotPresent
        PROVE  m1.tab[m.dir[e][PDX(x)]][PTX(x)] = m.tab[m.dir[e][PDX(x)]][PTX(x)]
    <3>1. CASE m.dir[e][PDX(x)] = t
      BY <3>1, <2>1, <1>4, <1>9, <1>14
    <3>2. CASE m.dir[e][PDX(x)] # t
      BY <3>2, <2>1, <2>2, <1>9, <1>11, <1>14
    <3> QED
      BY <3>1, <3>2
  <2> QED
    BY <1>5, <2>2 DEF vmm_va2pa
<1>15. EntryMapped(m, m1, ds, d, k, j, p)
  BY <1>12, <1>13, <1>14 DEF EntryMapped
<1> QED
  BY <1>5, <1>8, <1>9, <1>10, <1>15

\* A directory that refers to nothing where entry k is gets a table that
\* pmm_intr_alloc_page marked and cleared: a is what that call left behind.
LEMMA EnterTable ==
  ASSUME NEW m \in MemoryType, NEW ds \in SUBSET Frames, Sound(m, ds),
         NEW d \in ds \union {KDir}, NEW k \in 2 .. DirEntries - 1,
         m.dir[d][k] = NotPresent,
         NEW t, NEW a \in MemoryType, FrameTaken(m, t, a),
         NEW m1, DirectoryEntryWritten(a, d, k, t, m1)
  PROVE  /\ m1 \in MemoryType
         /\ m1.bitmap = m.bitmap /\ m1.panic = m.panic
         /\ m1.dir[d][k] = t /\ m1.tab[t] = EmptyTab /\ t \in Frames
         /\ Sound(m1, ds)
         /\ SameView(m, m1, ds)
         /\ TablesStay(m, m1)
<1>0. /\ t \in Frames /\ ~FrameMarked(m, t)
      /\ a.bitmap = m.bitmap /\ a.panic = m.panic
      /\ a.intr_bitmap = m.intr_bitmap \union {t - PMM_INTR_START}
      /\ a.dir = [m.dir EXCEPT ![t] = EmptyDir]
      /\ a.tab = [m.tab EXCEPT ![t] = EmptyTab]
  BY DEF FrameTaken
<1>1. d \in Directories /\ k \in DirIndexes /\ ds \union {KDir} \subseteq Directories
  BY Layout DEF Directories, DirIndexes
<1>2. t \notin ds /\ t # d /\ t # KDir /\ t \notin {KTab1, KTab2, NotPresent} /\ t \in Tables
  BY <1>0, Layout DEF Sound, OneUse, Tables
<1>3. /\ m1.bitmap = m.bitmap /\ m1.panic = m.panic /\ m1.tab = a.tab
      /\ m1.intr_bitmap = a.intr_bitmap
      /\ m1.dir = [a.dir EXCEPT ![d] = [a.dir[d] EXCEPT ![k] = t]]
      /\ IsMemory(m1)
  BY <1>0 DEF DirectoryEntryWritten
<1>4. /\ m.dir \in [Directories -> [DirIndexes -> Tables \union {NotPresent}]]
      /\ a.dir \in [Directories -> [DirIndexes -> Tables \union {NotPresent}]]
      /\ m.tab \in [Tables -> [TabIndexes -> PageNumbers \union {NotPresent}]]
  BY DEF MemoryType
<1>5. m1.dir \in [Directories -> [DirIndexes -> Tables \union {NotPresent}]]
  <2>1. [a.dir[d] EXCEPT ![k] = t] \in [DirIndexes -> Tables \union {NotPresent}]
    BY <1>1, <1>2, <1>4
  <2>2. m1.dir = [a.dir EXCEPT ![d] = [a.dir[d] EXCEPT ![k] = t]]
    BY <1>3
  <2> QED
    BY <1>1, <1>4, <2>1, <2>2
<1>6. m1 \in MemoryType
  BY <1>3, <1>5, PartsOfMemory, MemoryOfParts
<1>7. m1.dir[d][k] = t
  BY <1>0, <1>1, <1>2, <1>3, <1>4
<1>8. \A v \in DirIndexes : m1.dir[t][v] = NotPresent
  <2>1. t \in Directories
    BY <1>0 DEF Directories
  <2>2. m1.dir[t] = EmptyDir
    BY <1>0, <1>1, <1>2, <1>3, <1>4, <2>1
  <2> QED
    BY <2>2 DEF EmptyDir
<1>9. \A e \in Directories \ {t}, v \in DirIndexes :
        e # d \/ v # k => m1.dir[e][v] = m.dir[e][v]
  BY <1>0, <1>1, <1>2, <1>3, <1>4
<1>10. m1.tab[t] = EmptyTab /\ \A u \in Tables \ {t} : m1.tab[u] = m.tab[u]
  BY <1>0, <1>2, <1>3, <1>4
<1>11. \A e \in Directories, v \in DirIndexes : m.dir[e][v] # t
  BY <1>0, <1>2 DEF Sound, OneUse, OwnTable
<1>12. /\ \A f \in Frames : FrameMarked(m, f) => FrameMarked(m1, f)
       /\ FrameMarked(m1, t)
  BY <1>0, <1>3 DEF FrameMarked
<1>13. OneUse(m1, ds)
  <2>1. \A e \in ds : FrameMarked(m1, e)
    BY <1>12 DEF Sound, OneUse
  <2>2. ASSUME NEW e \in Directories, NEW v \in DirIndexes, OwnTable(m1, e, v)
        PROVE  /\ FrameMarked(m1, m1.dir[e][v])
               /\ m1.dir[e][v] \notin ds
               /\ \A g \in Directories, l \in DirIndexes :
                    m1.dir[g][l] = m1.dir[e][v] => g = e /\ l = v
    <3>1. CASE e = d /\ v = k
      <4>1. m1.dir[e][v] = t
        BY <3>1, <1>7
      <4>2. \A g \in Directories, l \in DirIndexes : m1.dir[g][l] = t => g = d /\ l = k
        BY <1>2, <1>8, <1>9, <1>11
      <4> QED
        BY <1>2, <1>12, <3>1, <4>1, <4>2
    <3>2. CASE ~(e = d /\ v = k)
      <4>1. e # t
        BY <2>2, <1>8 DEF OwnTable
      <4>2. m1.dir[e][v] = m.dir[e][v] /\ OwnTable(m, e, v)
        BY <2>2, <3>2, <4>1, <1>9 DEF OwnTable
      <4>3. /\ FrameMarked(m, m.dir[e][v])
            /\ m.dir[e][v] \notin ds
            /\ \A g \in Directories, l \in DirIndexes :
                 m.dir[g][l] = m.dir[e][v] => g = e /\ l = v
        BY <4>2 DEF Sound, OneUse
      <4>4. m.dir[e][v] \in Frames
        BY <4>2, <1>4 DEF OwnTable, Tables
      <4>5. m.dir[e][v] # t /\ m.dir[e][v] # NotPresent
        BY <1>11, <4>2 DEF OwnTable
      <4>6. ASSUME NEW g \in Directories, NEW l \in DirIndexes, m1.dir[g][l] = m.dir[e][v]
            PROVE  g = e /\ l = v
        <5>1. g # t /\ ~(g = d /\ l = k)
          BY <4>5, <4>6, <1>7, <1>8
        <5>2. m.dir[g][l] = m.dir[e][v]
          BY <5>1, <4>6, <1>9
        <5> QED
          BY <5>2, <4>3
      <4> QED
        BY <1>12, <4>2, <4>3, <4>4, <4>6
    <3> QED
      BY <3>1, <3>2
  <2> QED
    BY <2>1, <2>2 DEF OneUse
<1>14. KernelTablesClean(m1)
  BY <1>2, <1>10 DEF Sound, KernelTablesClean, Tables
<1>15. UserHalves(m1)
  <2>1. ASSUME NEW e \in Directories, NEW v \in DirIndexes, v >= 2
        PROVE  m1.dir[e][v] \notin {KTab1, KTab2}
    <3>1. CASE e = t
      <4>1. NotPresent \notin {KTab1, KTab2}
        BY Layout DEF Tables
      <4> QED
        BY <3>1, <4>1, <1>8
    <3>2. CASE e = d /\ v = k
      BY <3>2, <1>2, <1>7
    <3>3. CASE e # t /\ ~(e = d /\ v = k)
      BY <2>1, <3>3, <1>9 DEF Sound, UserHalves
    <3> QED
      BY <3>1, <3>2, <3>3
  <2> QED
    BY <2>1 DEF UserHalves
<1>16. ASSUME NEW e \in ds \union {KDir}, NEW q \in UserPages
       PROVE  q \in Mapped(m1, e) <=> q \in Mapped(m, e)
  <2>1. q \in Mapped(m1, e) <=>
          \E v \in DirIndexes, l \in TabIndexes :
            m1.dir[e][v] # NotPresent /\ m1.tab[m1.dir[e][v]][l] = q
    BY ONLY q \in UserPages, Layout DEF Mapped
  <2>2. q \in Mapped(m, e) <=>
          \E v \in DirIndexes, l \in TabIndexes :
            m.dir[e][v] # NotPresent /\ m.tab[m.dir[e][v]][l] = q
    BY ONLY q \in UserPages, Layout DEF Mapped
  <2>3. \A l \in TabIndexes : m1.tab[t][l] # q
    BY <1>10, Layout DEF EmptyTab
  <2>4. e \in Directories \ {t}
    BY <1>1, <1>2
  <2>5. ASSUME NEW v \in DirIndexes, NEW l \in TabIndexes
        PROVE  m1.dir[e][v] # NotPresent /\ m1.tab[m1.dir[e][v]][l] = q <=>
               m.dir[e][v] # NotPresent /\ m.tab[m.dir[e][v]][l] = q
    <3>1. CASE e = d /\ v = k
      BY <3>1, <2>3, <1>7
    <3>2. CASE ~(e = d /\ v = k)
      <4>1. m1.dir[e][v] = m.dir[e][v] /\ m.dir[e][v] # t
        BY <3>2, <2>4, <1>9, <1>11
      <4>2. m.dir[e][v] # NotPresent => m.dir[e][v] \in Tables \ {t}
        BY <2>4, <4>1, <1>4
      <4> QED
        BY <4>1, <4>2, <1>10
    <3> QED
      BY <3>1, <3>2
  <2> QED
    BY <2>1, <2>2, <2>5
<1>17. \A e \in ds \union {KDir} :
         Mapped(m1, e) \intersect UserPages = Mapped(m, e) \intersect UserPages
  BY <1>16
<1>18. Sound(m1, ds)
  BY <1>13, <1>14, <1>15 DEF Sound
<1>19. \A e \in ds \union {KDir}, v \in DirIndexes : e # d \/ v # k => m1.dir[e][v] = m.dir[e][v]
  BY <1>1, <1>2, <1>9
<1>20. ASSUME NEW e \in ds \union {KDir}, NEW x \in Nat, PDX(x) \in DirIndexes
       PROVE  vmm_va2pa(m1, e, x) = vmm_va2pa(m, e, x)
  <2>1. e \in Directories \ {t} /\ PTX(x) \in TabIndexes
    BY <1>1, <1>2, SplitAddress
  <2>2. CASE e = d /\ PDX(x) = k
    <3>1. vmm_va2pa(m, e, x) = NULL
      BY <2>2 DEF vmm_va2pa
    <3>2. m1.tab[t][PTX(x)] = NotPresent
      BY <2>1, <1>10 DEF EmptyTab
    <3> QED
      BY <2>2, <3>1, <3>2, <1>2, <1>7 DEF vmm_va2pa
  <2>3. CASE ~(e = d /\ PDX(x) = k)
    <3>1. m1.dir[e][PDX(x)] = m.dir[e][PDX(x)] /\ m.dir[e][PDX(x)] # t
      BY <2>1, <2>3, <1>9, <1>11, <1>20
    <3>2. m.dir[e][PDX(x)] # NotPresent =>
            m1.tab[m.dir[e][PDX(x)]] = m.tab[m.dir[e][PDX(x)]]
      BY <2>1, <3>1, <1>4, <1>10, <1>20
    <3> QED
      BY <3>1, <3>2 DEF vmm_va2pa
  <2> QED
    BY <2>2, <2>3
<1>21. SameView(m, m1, ds)
  BY <1>17, <1>20 DEF SameView
<1>22. TablesStay(m, m1)
  BY <1>2, <1>7, <1>19 DEF TablesStay
<1> QED
  BY <1>0, <1>3, <1>6, <1>7, <1>10, <1>18, <1>21, <1>22

-----------------------------------------------------------------------------
(* What the functions of vmm.c leave behind *)

\* The directory's table for an address: the one it has, or a new one.
LEMMA Walk ==
  ASSUME NEW m \in MemoryType, NEW ds \in SUBSET Frames, Sound(m, ds),
         NEW d \in ds \union {KDir}, NEW va \in Nat, PDX(va) \in 2 .. DirEntries - 1,
         NEW w, w = vmm_walk_pgdir(m, d, va)
  PROVE  \/ w.ret = NULL /\ w.mem = m
         \/ /\ w.ret # NULL /\ w.mem \in MemoryType /\ Sound(w.mem, ds)
            /\ w.mem.bitmap = m.bitmap /\ w.mem.panic = m.panic
            /\ w.ret = w.mem.dir[d][PDX(va)] /\ w.ret # NotPresent
            /\ SameView(m, w.mem, ds) /\ TablesStay(m, w.mem)
<1> DEFINE k == PDX(va)
           a == pmm_intr_alloc_page(m)
<1>1. d \in Directories /\ k \in DirIndexes
  BY Layout DEF Directories, DirIndexes
<1>2. CASE m.dir[d][k] # NotPresent
  <2>1. w = Result(m, m.dir[d][k])
    BY <1>2 DEF vmm_walk_pgdir
  <2>2. w.ret = m.dir[d][k] /\ w.mem = m
    BY <2>1 DEF Result
  <2>3. m.dir[d][k] # NULL
    BY <1>1, <1>2, Layout DEF MemoryType
  <2>4. SameView(m, m, ds) /\ TablesStay(m, m)
    BY DEF SameView, TablesStay
  <2> QED
    BY <1>2, <2>2, <2>3, <2>4
<1>3. CASE m.dir[d][k] = NotPresent /\ a.ret = NULL
  <2>1. w = a
    BY <1>3 DEF vmm_walk_pgdir
  <2>2. a.mem = m
    <3>1. a = Result(m, NULL) \/ FrameTaken(m, a.ret, a.mem)
      BY IntrAlloc
    <3>2. NULL \notin Frames
      BY Layout DEF Tables
    <3> QED
      BY <1>3, <3>1, <3>2 DEF Result, FrameTaken
  <2> QED
    BY <1>3, <2>1, <2>2
<1>4. CASE m.dir[d][k] = NotPresent /\ a.ret # NULL
  <2> DEFINE t == a.ret
             n == a.mem
             m1 == write_directory_entry(n, d, k, t)
  <2>1. n \in MemoryType /\ FrameTaken(m, t, n)
    <3>1. a # Result(m, NULL)
      BY <1>4 DEF Result
    <3> QED
      BY <3>1, IntrAlloc
  <2>2. w.ret = t /\ w.mem = m1
    <3>1. w = Result(m1, t)
      BY <1>4 DEF vmm_walk_pgdir
    <3> QED
      BY <3>1 DEF Result
  <2>3. k \in 2 .. DirEntries - 1 /\ m.dir[d][k] = NotPresent
    BY <1>4
  <2>4. DirectoryEntryWritten(n, d, k, t, m1)
    BY <2>1, WriteDirectoryEntry, Zenon
  <2> HIDE DEF a, k, t, n, m1
  <2>5. /\ m1 \in MemoryType
        /\ m1.bitmap = m.bitmap /\ m1.panic = m.panic
        /\ m1.dir[d][k] = t /\ t \in Frames
        /\ Sound(m1, ds)
        /\ SameView(m, m1, ds) /\ TablesStay(m, m1)
    BY <2>1, <2>3, <2>4, EnterTable
  <2>6. t # NULL /\ t # NotPresent
    BY <2>5, Layout DEF Tables
  <2> QED
    BY <2>2, <2>5, <2>6 DEF k
<1> QED
  BY <1>2, <1>3, <1>4

\* Page p is mapped at va in directory d; nothing else is mapped or unmapped.
PageMapped(m, m1, ds, d, va, p) ==
  /\ \A e \in ds \ {d} : Mapped(m1, e) \intersect UserPages = Mapped(m, e) \intersect UserPages
  /\ vmm_va2pa(m, d, va) = NULL =>
       Mapped(m1, d) \intersect UserPages = (Mapped(m, d) \intersect UserPages) \union {p}
  /\ vmm_va2pa(m1, d, va) = p
  /\ \A e \in ds \union {KDir}, x \in Nat :
       PDX(x) \in DirIndexes /\ (e # d \/ x # va) => vmm_va2pa(m1, e, x) = vmm_va2pa(m, e, x)

\* Writing the entry of va in the table that directory d has for it.
LEMMA WritePage ==
  ASSUME NEW m \in MemoryType, NEW ds \in SUBSET Frames, Sound(m, ds),
         NEW d \in ds \union {KDir}, NEW va \in Nat, PDX(va) \in 2 .. DirEntries - 1,
         m.dir[d][PDX(va)] # NotPresent,
         NEW p \in UserPages,
         NEW m1, TableEntryWritten(m, m.dir[d][PDX(va)], PTX(va), p, m1)
  PROVE  /\ m1 \in MemoryType /\ Sound(m1, ds)
         /\ m1.bitmap = m.bitmap /\ m1.panic = m.panic
         /\ PageMapped(m, m1, ds, d, va, p)
         /\ TablesStay(m, m1)
<1> DEFINE k == PDX(va)
           j == PTX(va)
<1>1. k \in 2 .. DirEntries - 1 /\ k \in DirIndexes /\ j \in TabIndexes
  BY SplitAddress, Layout DEF DirIndexes
<1>2. /\ m1 \in MemoryType
      /\ m1.bitmap = m.bitmap /\ m1.panic = m.panic /\ m1.dir = m.dir
      /\ m1.tab[m.dir[d][k]][j] = p
      /\ Sound(m1, ds)
      /\ EntryMapped(m, m1, ds, d, k, j, p)
  <2> HIDE DEF k, j
  <2>1. m.dir[d][k] # NotPresent /\ TableEntryWritten(m, m.dir[d][k], j, p, m1)
    BY DEF k, j
  <2> QED
    BY <1>1, <2>1, WriteEntry
<1>3. ASSUME vmm_va2pa(m, d, va) = NULL
      PROVE  m.tab[m.dir[d][k]][j] \notin UserPages
  <2>1. m.tab[m.dir[d][k]][j] = NotPresent \/ m.tab[m.dir[d][k]][j] = NULL
    BY <1>3 DEF vmm_va2pa
  <2>2. NULL \notin UserPages
    BY Layout DEF NULL, PMM_START
  <2> QED
    BY <2>1, <2>2, Layout
<1>4. vmm_va2pa(m1, d, va) = p
  <2>1. p # NotPresent
    BY Layout
  <2> QED
    BY <1>2, <2>1 DEF vmm_va2pa
<1>5. ASSUME NEW e \in ds \union {KDir}, NEW x \in Nat, PDX(x) \in DirIndexes, e # d \/ x # va
      PROVE  vmm_va2pa(m1, e, x) = vmm_va2pa(m, e, x)
  <2>1. e # d \/ PDX(x) # k \/ PTX(x) # j
    BY <1>5, AddressIsItsIndexes
  <2> QED
    BY <1>2, <1>5, <2>1 DEF EntryMapped
<1>6. PageMapped(m, m1, ds, d, va, p)
  BY <1>2, <1>3, <1>4, <1>5 DEF PageMapped, EntryMapped
<1>7. TablesStay(m, m1)
  BY <1>2 DEF TablesStay
<1> QED
  BY <1>2, <1>6, <1>7

\* vmm_mappage fails and changes nothing, or maps the page.
LEMMA Mappage ==
  ASSUME NEW m \in MemoryType, NEW ds \in SUBSET Frames, Sound(m, ds),
         NEW d \in ds \union {KDir}, NEW va \in Nat, PDX(va) \in 2 .. DirEntries - 1,
         NEW p \in UserPages,
         NEW r, r = vmm_mappage(m, d, va, p)
  PROVE  \/ r.ret = -1 /\ r.mem = m
         \/ /\ r.ret = 0 /\ r.mem \in MemoryType /\ Sound(r.mem, ds)
            /\ r.mem.bitmap = m.bitmap /\ r.mem.panic = m.panic
            /\ PageMapped(m, r.mem, ds, d, va, p)
            /\ TablesStay(m, r.mem)
<1> DEFINE w == vmm_walk_pgdir(m, d, va)
           n == w.mem
           m1 == write_table_entry(n, w.ret, PTX(va), p)
<1>0. w = vmm_walk_pgdir(m, d, va)
  OBVIOUS
<1>1. r = IF w.ret = NULL THEN Result(n, -1) ELSE Result(m1, 0)
  BY DEF vmm_mappage
<1>2. \/ w.ret = NULL /\ n = m
      \/ /\ w.ret # NULL /\ n \in MemoryType /\ Sound(n, ds)
         /\ n.bitmap = m.bitmap /\ n.panic = m.panic
         /\ w.ret = n.dir[d][PDX(va)] /\ w.ret # NotPresent
         /\ SameView(m, n, ds) /\ TablesStay(m, n)
  <2> HIDE DEF w
  <2> QED
    BY <1>0, Walk
<1>3. CASE w.ret = NULL
  <2>1. r = Result(n, -1)
    BY <1>1, <1>3
  <2> QED
    BY <1>2, <1>3, <2>1 DEF Result
<1>4. CASE w.ret # NULL
  <2>1. r.ret = 0 /\ r.mem = m1
    BY <1>1, <1>4 DEF Result
  <2>2. n \in MemoryType
    BY <1>2, <1>4
  <2>3. TableEntryWritten(n, w.ret, PTX(va), p, m1)
    BY <2>2, WriteTableEntry, Zenon
  <2> HIDE DEF w, n, m1
  <2>4. TableEntryWritten(n, n.dir[d][PDX(va)], PTX(va), p, m1)
    BY <1>2, <1>4, <2>3
  <2>5. /\ m1 \in MemoryType /\ Sound(m1, ds)
        /\ m1.bitmap = n.bitmap /\ m1.panic = n.panic
        /\ PageMapped(n, m1, ds, d, va, p)
        /\ TablesStay(n, m1)
    BY <1>2, <1>4, <2>4, WritePage
  <2>6. PDX(va) \in DirIndexes
    BY Layout DEF DirIndexes
  <2>7. PageMapped(m, m1, ds, d, va, p)
    <3>1. ASSUME NEW e \in ds \ {d}
          PROVE  Mapped(m1, e) \intersect UserPages = Mapped(m, e) \intersect UserPages
      BY <1>2, <1>4, <2>5 DEF PageMapped, SameView
    <3>2. ASSUME vmm_va2pa(m, d, va) = NULL
          PROVE  Mapped(m1, d) \intersect UserPages = (Mapped(m, d) \intersect UserPages) \union {p}
      BY <1>2, <1>4, <2>5, <2>6, <3>2 DEF PageMapped, SameView
    <3>3. vmm_va2pa(m1, d, va) = p
      BY <2>5 DEF PageMapped
    <3>4. ASSUME NEW e \in ds \union {KDir}, NEW x \in Nat, PDX(x) \in DirIndexes, e # d \/ x # va
          PROVE  vmm_va2pa(m1, e, x) = vmm_va2pa(m, e, x)
      BY <1>2, <1>4, <2>5, <3>4 DEF PageMapped, SameView
    <3> QED
      BY <3>1, <3>2, <3>3, <3>4 DEF PageMapped
  <2>8. TablesStay(m, m1)
    BY <1>2, <1>4, <2>5 DEF TablesStay
  <2> QED
    BY <1>2, <1>4, <2>1, <2>5, <2>7, <2>8
<1> QED
  BY <1>3, <1>4

-----------------------------------------------------------------------------
(* What the functions that callers use leave behind *)

\* Entering a page at its own address panics, or maps it there: the slot that
\* is used is the page's own if a new table is made for a first page only.
LEMMA MapIdentity ==
  ASSUME NEW m \in MemoryType, NEW ds \in SUBSET Frames, Sound(m, ds), ~Panicked(m),
         NEW page \in UserPages,
         m.dir[KDir][PDX(page)] = NotPresent => PTX(page) = 0,
         NEW r, r = pmm_map_identity(m, page)
  PROVE  /\ r \in MemoryType
         /\ \/ Panicked(r)
            \/ /\ ~Panicked(r) /\ Sound(r, ds)
               /\ r.bitmap = m.bitmap
               /\ PageMapped(m, r, ds, KDir, page, page)
               /\ TablesStay(m, r) /\ r.dir[KDir][PDX(page)] # NotPresent
<1> DEFINE k == PDX(page)
           a == pmm_intr_alloc_page(m)
<1>1. page \in Nat /\ k \in 2 .. DirEntries - 1 /\ PTX(page) \in TabIndexes /\ k \in DirIndexes
  BY Layout DEF DirIndexes
<1>2. ASSUME NEW n \in MemoryType, NEW text \in PanicTexts \ {"none"}, r = kpanic(n, text)
      PROVE  r \in MemoryType /\ Panicked(r)
  <2> DEFINE m1 == kpanic(n, text)
  <2>1. PanicWritten(n, text, m1)
    BY Kpanic, Zenon
  <2>2. r = m1
    BY <1>2
  <2> HIDE DEF m1
  <2>3. PanicWritten(n, text, r)
    BY <2>1, <2>2
  <2>4. r.panic = text /\ IsMemory(r)
    BY <2>3 DEF PanicWritten
  <2>5. r \in MemoryType
    BY <2>3, <2>4, PartsOfMemory, MemoryOfParts DEF PanicWritten
  <2> QED
    BY <2>4, <2>5 DEF Panicked
<1>3. ASSUME NEW n \in MemoryType, Sound(n, ds), n.bitmap = m.bitmap, n.panic = m.panic,
             SameView(m, n, ds), TablesStay(m, n), n.dir[KDir][k] # NotPresent,
             r = write_table_entry(n, n.dir[KDir][k], PTX(page), page)
      PROVE  /\ r \in MemoryType
             /\ ~Panicked(r) /\ Sound(r, ds)
             /\ r.bitmap = m.bitmap
             /\ PageMapped(m, r, ds, KDir, page, page)
             /\ TablesStay(m, r) /\ r.dir[KDir][k] # NotPresent
  <2> DEFINE m1 == write_table_entry(n, n.dir[KDir][k], PTX(page), page)
  <2>1. TableEntryWritten(n, n.dir[KDir][k], PTX(page), page, m1)
    BY WriteTableEntry, Zenon
  <2>2. r = m1
    BY <1>3
  <2> HIDE DEF m1
  <2>3. TableEntryWritten(n, n.dir[KDir][k], PTX(page), page, r)
    BY <2>1, <2>2
  <2>4. r.dir = n.dir
    BY <2>3 DEF TableEntryWritten
  <2>5. /\ r \in MemoryType /\ Sound(r, ds)
        /\ r.bitmap = n.bitmap /\ r.panic = n.panic
        /\ PageMapped(n, r, ds, KDir, page, page)
    BY <1>1, <1>3, <2>3, WritePage
  <2>6. PageMapped(m, r, ds, KDir, page, page)
    BY <1>1, <1>3, <2>5 DEF PageMapped, SameView
  <2>7. TablesStay(m, r)
    BY <1>3, <2>4 DEF TablesStay
  <2> QED
    BY <1>3, <2>4, <2>5, <2>6, <2>7 DEF Panicked
<1>4. CASE m.dir[KDir][k] # NotPresent
  <2> DEFINE t == m.dir[KDir][k]
  <2>1. r = IF m.tab[t][PTX(page)] # NotPresent THEN kpanic(m, "Page already allocated")
            ELSE write_table_entry(m, t, PTX(page), page)
    BY <1>4 DEF pmm_map_identity
  <2>2. SameView(m, m, ds) /\ TablesStay(m, m)
    BY DEF SameView, TablesStay
  <2>3. CASE m.tab[t][PTX(page)] # NotPresent
    <3>1. r = kpanic(m, "Page already allocated")
      BY <2>1, <2>3
    <3> QED
      BY <3>1, <1>2 DEF PanicTexts
  <2>4. CASE m.tab[t][PTX(page)] = NotPresent
    <3>1. r = write_table_entry(m, t, PTX(page), page)
      BY <2>1, <2>4
    <3> QED
      BY <3>1, <2>2, <1>3, <1>4
  <2> QED
    BY <2>3, <2>4
<1>5. CASE m.dir[KDir][k] = NotPresent /\ a.ret = NULL
  <2>1. r = kpanic(m, "Failed allocate page table")
    BY <1>5 DEF pmm_map_identity
  <2> QED
    BY <2>1, <1>2 DEF PanicTexts
<1>6. CASE m.dir[KDir][k] = NotPresent /\ a.ret # NULL
  <2> DEFINE t == a.ret
             n == a.mem
             m1 == write_directory_entry(n, KDir, k, t)
  <2>1. n \in MemoryType /\ FrameTaken(m, t, n)
    <3>1. a # Result(m, NULL)
      BY <1>6 DEF Result
    <3> QED
      BY <3>1, IntrAlloc
  <2>2. r = IF m1.tab[t][0] # NotPresent THEN kpanic(m1, "Page already allocated")
            ELSE write_table_entry(m1, t, 0, page)
    BY <1>6 DEF pmm_map_identity
  <2>3. DirectoryEntryWritten(n, KDir, k, t, m1)
    BY <2>1, WriteDirectoryEntry, Zenon
  <2>4. m.dir[KDir][k] = NotPresent /\ PTX(page) = 0
    BY <1>6
  <2> HIDE DEF a, t, n, m1
  <2>5. /\ m1 \in MemoryType
        /\ m1.bitmap = m.bitmap /\ m1.panic = m.panic
        /\ m1.dir[KDir][k] = t /\ m1.tab[t] = EmptyTab /\ t \in Frames
        /\ Sound(m1, ds)
        /\ SameView(m, m1, ds) /\ TablesStay(m, m1)
    <3> HIDE DEF k
    <3> QED
      BY <1>1, <2>1, <2>3, <2>4, EnterTable
  <2>6. m1.tab[t][0] = NotPresent
    BY <1>1, <2>4, <2>5 DEF EmptyTab
  <2>7. t # NotPresent
    BY <2>5, Layout DEF Tables
  <2>8. r = write_table_entry(m1, m1.dir[KDir][k], PTX(page), page)
    BY <2>2, <2>4, <2>5, <2>6
  <2> QED
    BY <1>3, <2>5, <2>7, <2>8
<1> QED
  BY <1>4, <1>5, <1>6

\* A memory with the same directories, tables and marked tables is as sound as
\* the other, and translates every address to the same page.
LEMMA SameTables ==
  ASSUME NEW m, NEW n, n.dir = m.dir, n.tab = m.tab, n.intr_bitmap = m.intr_bitmap,
         NEW ds, Sound(m, ds)
  PROVE  /\ Sound(n, ds)
         /\ \A d : Mapped(n, d) = Mapped(m, d)
         /\ \A d, va : vmm_va2pa(n, d, va) = vmm_va2pa(m, d, va)
<1>1. OneUse(n, ds)
  BY DEF Sound, OneUse, OwnTable, FrameMarked
<1>2. KernelTablesClean(n) /\ UserHalves(n)
  BY DEF Sound, KernelTablesClean, UserHalves
<1>3. \A d : Mapped(n, d) = Mapped(m, d)
  BY DEF Mapped
<1>4. \A d, va : vmm_va2pa(n, d, va) = vmm_va2pa(m, d, va)
  BY DEF vmm_va2pa
<1> QED
  BY <1>1, <1>2, <1>3, <1>4 DEF Sound

\* The kernel's directory has a table for every marked page, except for the
\* bits w, which were marked from the start.
MarkedHaveTables(m, w) ==
  \A p \in UserPages : p - PMM_START \in m.bitmap \ w => m.dir[KDir][PDX(p)] # NotPresent

\* w is an end of the bitmap: pages that the memory is smaller by.
LastBits(w) == \A k \in w, j \in Bits : k < j => j \in w

\* pmm_alloc_page returns NULL and changes nothing, or panics, or marks a page
\* that was not marked and maps it at its own address.
LEMMA AllocatedPage ==
  ASSUME NEW m \in MemoryType, NEW ds \in SUBSET Frames, Sound(m, ds), ~Panicked(m),
         NEW w \in SUBSET m.bitmap, LastBits(w), MarkedHaveTables(m, w),
         NEW a, a = pmm_alloc_page(m)
  PROVE  \/ a.ret = NULL /\ a.mem = m
         \/ /\ a.ret \in UserPages /\ a.mem \in MemoryType
            /\ a.ret - PMM_START \notin m.bitmap
            /\ \/ Panicked(a.mem)
               \/ /\ ~Panicked(a.mem) /\ Sound(a.mem, ds)
                  /\ a.mem.bitmap = m.bitmap \union {a.ret - PMM_START}
                  /\ PageMapped(m, a.mem, ds, KDir, a.ret, a.ret)
                  /\ TablesStay(m, a.mem) /\ a.mem.dir[KDir][PDX(a.ret)] # NotPresent
<1> DEFINE v == find_first_page(m.bitmap, PagesCount)
           page == PMM_START + v
           n == bitmap_set(m, v)
           r == pmm_map_identity(n, page)
<1>1. CASE v = -1
  <2>1. a = Result(m, NULL)
    BY <1>1 DEF pmm_alloc_page
  <2> QED
    BY <2>1 DEF Result
<1>2. CASE v # -1
  <2>1. v \in Bits /\ FirstZero(m.bitmap, PagesCount, v)
    BY <1>2, FindFirstPage DEF Bits
  <2>2. page \in UserPages /\ page - PMM_START = v
    BY <2>1, PagesOfBits
  <2>3. a = Result(r, page)
    BY <1>2 DEF pmm_alloc_page
  <2>4. a.ret = page /\ a.mem = r
    BY <2>3 DEF Result
  <2>5. BitSet(m, v, n)
    BY BitmapSet, Zenon
  <2>6. r = pmm_map_identity(n, page)
    OBVIOUS
  <2>7. page = PMM_START + v
    OBVIOUS
  <2> HIDE DEF v, n, r, page
  <2>8. /\ n.bitmap = m.bitmap \union {v} /\ n.intr_bitmap = m.intr_bitmap
        /\ n.panic = m.panic /\ n.dir = m.dir /\ n.tab = m.tab /\ IsMemory(n)
    BY <2>5 DEF BitSet
  <2>9. n \in MemoryType
    BY <2>1, <2>8, PartsOfMemory, MemoryOfParts
  <2>10. /\ Sound(n, ds)
         /\ \A d : Mapped(n, d) = Mapped(m, d)
         /\ \A d, va : vmm_va2pa(n, d, va) = vmm_va2pa(m, d, va)
    BY <2>8, SameTables
  <2>11. ASSUME n.dir[KDir][PDX(page)] = NotPresent
         PROVE  PTX(page) = 0
    <3>1. SUFFICES ASSUME PTX(page) # 0
                   PROVE  FALSE
      OBVIOUS
    <3>2. page \in Nat
      BY <2>2, Layout
    <3>3. PDX(page - 1) = PDX(page)
      BY <3>1, <3>2, SameTableAsPrevious
    <3>4. v # 0
      <4>1. PTX(PMM_START) = 0
        BY LayoutAssumption, SMT DEF PTX, PMM_START, LayoutAssumption
      <4>2. PMM_START \in Nat
        BY Layout DEF PMM_START
      <4> QED
        BY <2>7, <3>1, <4>1, <4>2
    <3>5. v - 1 \in Bits /\ v - 1 \in 0 .. Capacity(PagesCount) - 1 /\ v - 1 < v
      <4>1. Capacity(PagesCount) \in Nat
        BY CapacityBound, LayoutAssumption DEF LayoutAssumption
      <4> QED
        BY <2>1, <3>4, <4>1 DEF Bits
    <3>6. v - 1 \in m.bitmap \ w
      BY <2>1, <3>5 DEF FirstZero, LastBits
    <3>7. page - 1 \in UserPages /\ (page - 1) - PMM_START = v - 1
      <4>1. page - 1 = PMM_START + (v - 1)
        BY <2>1, <2>7, Layout DEF PMM_START
      <4> QED
        BY <3>5, <4>1, PagesOfBits
    <3>8. m.dir[KDir][PDX(page - 1)] # NotPresent
      BY <3>6, <3>7 DEF MarkedHaveTables
    <3> QED
      BY <2>8, <2>11, <3>3, <3>8
  <2>12. /\ r \in MemoryType
         /\ \/ Panicked(r)
            \/ /\ ~Panicked(r) /\ Sound(r, ds)
               /\ r.bitmap = n.bitmap
               /\ PageMapped(n, r, ds, KDir, page, page)
               /\ TablesStay(n, r) /\ r.dir[KDir][PDX(page)] # NotPresent
    <3>1. ~Panicked(n)
      BY <2>8 DEF Panicked
    <3> QED
      BY <2>2, <2>6, <2>9, <2>10, <2>11, <3>1, MapIdentity
  <2>13. ASSUME PageMapped(n, r, ds, KDir, page, page)
         PROVE  PageMapped(m, r, ds, KDir, page, page)
    BY <2>10, <2>13 DEF PageMapped
  <2>14. ASSUME TablesStay(n, r)
         PROVE  TablesStay(m, r)
    BY <2>8, <2>14 DEF TablesStay
  <2>15. v \notin m.bitmap
    BY <2>1 DEF FirstZero
  <2> QED
    BY <2>2, <2>4, <2>8, <2>12, <2>13, <2>14, <2>15
<1> QED
  BY <1>1, <1>2

\* pmm_free_page clears the page's bit.
LEMMA FreedPage ==
  ASSUME NEW m \in MemoryType, NEW p \in UserPages,
         NEW n, n = pmm_free_page(m, p)
  PROVE  BitsCleared(m, {p - PMM_START}, n)
<1>1. ~(p < PMM_START) /\ ~(p - PMM_START >= PagesCount)
  BY Layout, LayoutAssumption DEF PMM_START, LayoutAssumption
<1>2. n = bitmap_clear(m, {p - PMM_START})
  BY <1>1, Zenon DEF pmm_free_page
<1> QED
  BY <1>2, BitmapClear, Zenon

\* Destroying a directory clears the bits of the pages of processes that it maps.
LEMMA DestroyedDirectory ==
  ASSUME NEW m \in MemoryType, NEW d \in Frames,
         NEW n, n = vmm_destroy_user_page_directory(m, d)
  PROVE  BitsCleared(m, {p - PMM_START : p \in Mapped(m, d) \intersect UserPages}, n)
<1> DEFINE freed == {p \in Mapped(m, d) : p >= PMM_START /\ p - PMM_START < PagesCount}
           ks == {p - PMM_START : p \in freed}
<1>1. Mapped(m, d) \subseteq PageNumbers
  <2>1. d \in Directories
    BY DEF Directories
  <2>2. \A k \in DirIndexes : m.dir[d][k] # NotPresent => m.dir[d][k] \in Tables
    BY <2>1 DEF MemoryType
  <2>3. \A t \in Tables, j \in TabIndexes : m.tab[t][j] \in PageNumbers \union {NotPresent}
    BY DEF MemoryType
  <2> QED
    BY <2>2, <2>3 DEF Mapped
<1>2. freed = Mapped(m, d) \intersect UserPages
  <2>1. \A p \in KernelPages : p < PMM_START /\ ~(p >= PMM_START)
    BY Layout DEF KernelPages, PMM_START
  <2> QED
    BY <1>1, <2>1, Layout DEF PageNumbers
<1>3. n = pmm_free_page(bitmap_clear(m, ks), d)
  BY Zenon DEF vmm_destroy_user_page_directory
<1>4. d < PMM_START
  BY Layout DEF PMM_START
<1>5. n = bitmap_clear(m, ks)
  BY <1>3, <1>4, Zenon DEF pmm_free_page
<1>6. BitsCleared(m, ks, n)
  <2> HIDE DEF ks
  <2> QED
    BY <1>5, BitmapClear, Zenon
<1> QED
  BY <1>2, <1>6

\* The directory that maps the kernel and nothing else.
LEMMA KernelHalfShape ==
  /\ KernelHalf \in [DirIndexes -> Tables \union {NotPresent}]
  /\ \A v \in DirIndexes : KernelHalf[v] \in {KTab1, KTab2, NotPresent}
  /\ \A v \in DirIndexes : v >= 2 => KernelHalf[v] = NotPresent
<1>1. 0 \in DirIndexes /\ 1 \in DirIndexes
  BY LayoutAssumption DEF DirIndexes, LayoutAssumption
<1>2. \A v \in DirIndexes :
        KernelHalf[v] = IF v = 0 THEN KTab1 ELSE IF v = 1 THEN KTab2 ELSE NotPresent
  BY <1>1 DEF KernelHalf, EmptyDir
<1>3. KernelHalf \in [DirIndexes -> Tables \union {NotPresent}]
  BY <1>1 DEF KernelHalf, EmptyDir, Tables
<1>4. \A v \in DirIndexes : v >= 2 => v # 0 /\ v # 1
  OBVIOUS
<1> QED
  BY <1>2, <1>3, <1>4

\* A new directory maps the kernel and no page of a process.
LEMMA CreatedDirectory ==
  ASSUME NEW m \in MemoryType, NEW ds \in SUBSET Frames, Sound(m, ds),
         NEW a, a = vmm_create_user_page_directory(m)
  PROVE  \/ a.ret = NULL /\ a.mem = m
         \/ /\ a.ret \in Frames \ ds /\ a.mem \in MemoryType
            /\ a.mem.bitmap = m.bitmap /\ a.mem.panic = m.panic
            /\ Sound(a.mem, ds \union {a.ret})
            /\ SameView(m, a.mem, ds) /\ TablesStay(m, a.mem)
            /\ Mapped(a.mem, a.ret) \intersect UserPages = {}
            /\ \A x \in Nat : PDX(x) \in 2 .. DirEntries - 1 => vmm_va2pa(a.mem, a.ret, x) = NULL
<1> DEFINE b == pmm_intr_alloc_page(m)
           f == b.ret
           n == b.mem
           r == write_page_directory(n, f, KernelHalf)
<1>1. CASE b.ret = NULL
  <2>1. a = b
    BY <1>1 DEF vmm_create_user_page_directory
  <2>2. b = Result(m, NULL) \/ FrameTaken(m, b.ret, b.mem)
    BY IntrAlloc
  <2>3. NULL \notin Frames
    BY Layout DEF Tables
  <2> QED
    BY <1>1, <2>1, <2>2, <2>3 DEF Result, FrameTaken
<1>2. CASE b.ret # NULL
  <2>1. n \in MemoryType /\ FrameTaken(m, f, n)
    <3>1. b # Result(m, NULL)
      BY <1>2 DEF Result
    <3> QED
      BY <3>1, IntrAlloc
  <2>2. a.ret = f /\ a.mem = r
    <3>1. a = Result(r, f)
      BY <1>2 DEF vmm_create_user_page_directory
    <3> QED
      BY <3>1 DEF Result
  <2>3. DirectoryWritten(n, f, KernelHalf, r)
    BY <2>1, WritePageDirectory, Zenon
  <2> HIDE DEF b, f, n, r
  <2>4. /\ f \in Frames /\ ~FrameMarked(m, f)
        /\ r.bitmap = m.bitmap /\ r.panic = m.panic
        /\ r.intr_bitmap = m.intr_bitmap \union {f - PMM_INTR_START}
        /\ n.dir = [m.dir EXCEPT ![f] = EmptyDir]
        /\ r.dir = [n.dir EXCEPT ![f] = KernelHalf]
        /\ r.tab = [m.tab EXCEPT ![f] = EmptyTab]
        /\ IsMemory(r)
    BY <2>1, <2>3 DEF FrameTaken, DirectoryWritten
  <2>5. /\ m.dir \in [Directories -> [DirIndexes -> Tables \union {NotPresent}]]
        /\ n.dir \in [Directories -> [DirIndexes -> Tables \union {NotPresent}]]
        /\ m.tab \in [Tables -> [TabIndexes -> PageNumbers \union {NotPresent}]]
    BY <2>1 DEF MemoryType
  <2>6. /\ KernelHalf \in [DirIndexes -> Tables \union {NotPresent}]
        /\ \A v \in DirIndexes : KernelHalf[v] \in {KTab1, KTab2, NotPresent}
        /\ \A v \in DirIndexes : v >= 2 => KernelHalf[v] = NotPresent
    BY KernelHalfShape
  <2>7. r \in MemoryType
    <3>1. r.dir \in [Directories -> [DirIndexes -> Tables \union {NotPresent}]]
      BY <2>4, <2>5, <2>6 DEF Directories
    <3>2. r.tab = n.tab /\ r.intr_bitmap = n.intr_bitmap /\ r.bitmap = n.bitmap /\ r.panic = n.panic
      BY <2>3 DEF DirectoryWritten
    <3> QED
      BY <2>1, <2>4, <3>1, <3>2, PartsOfMemory, MemoryOfParts
  <2>8. /\ f \notin ds /\ f \in Directories /\ f \in Tables
        /\ f \notin {KDir, KTab1, KTab2, NotPresent}
    BY <2>4, Layout DEF Sound, OneUse, Directories, Tables
  <2>9. /\ r.dir[f] = KernelHalf
        /\ \A e \in Directories \ {f} : r.dir[e] = m.dir[e]
        /\ r.tab[f] = EmptyTab
        /\ \A t \in Tables \ {f} : r.tab[t] = m.tab[t]
    BY <2>4, <2>5, <2>8
  <2>10. \A e \in Directories, v \in DirIndexes : m.dir[e][v] # f
    BY <2>4, <2>8 DEF Sound, OneUse, OwnTable
  <2>11. /\ FrameMarked(r, f)
         /\ \A g : FrameMarked(m, g) => FrameMarked(r, g)
    BY <2>4 DEF FrameMarked
  <2>12. OneUse(r, ds \union {f})
    <3>1. \A e \in ds \union {f} : FrameMarked(r, e)
      BY <2>11 DEF Sound, OneUse
    <3>2. ASSUME NEW e \in Directories, NEW v \in DirIndexes, OwnTable(r, e, v)
          PROVE  /\ FrameMarked(r, r.dir[e][v])
                 /\ r.dir[e][v] \notin ds \union {f}
                 /\ \A g \in Directories, l \in DirIndexes :
                      r.dir[g][l] = r.dir[e][v] => g = e /\ l = v
      <4>1. e # f
        BY <2>6, <2>9, <3>2 DEF OwnTable
      <4>2. r.dir[e][v] = m.dir[e][v] /\ OwnTable(m, e, v)
        BY <2>9, <3>2, <4>1 DEF OwnTable
      <4>3. /\ FrameMarked(m, m.dir[e][v])
            /\ m.dir[e][v] \notin ds
            /\ \A g \in Directories, l \in DirIndexes :
                 m.dir[g][l] = m.dir[e][v] => g = e /\ l = v
        BY <4>2 DEF Sound, OneUse
      <4>4. ASSUME NEW g \in Directories, NEW l \in DirIndexes, r.dir[g][l] = m.dir[e][v]
            PROVE  g = e /\ l = v
        <5>1. g # f
          BY <2>6, <2>9, <4>2, <4>4 DEF OwnTable
        <5> QED
          BY <2>9, <4>3, <4>4, <5>1
      <4> QED
        BY <2>10, <2>11, <4>2, <4>3, <4>4
    <3> QED
      BY <3>1, <3>2 DEF OneUse
  <2>13. KernelTablesClean(r)
    BY <2>8, <2>9 DEF Sound, KernelTablesClean, Tables
  <2>14. UserHalves(r)
    <3>1. NotPresent \notin {KTab1, KTab2}
      BY Layout DEF Tables
    <3>2. ASSUME NEW e \in Directories, NEW v \in DirIndexes, v >= 2
          PROVE  r.dir[e][v] \notin {KTab1, KTab2}
      <4>1. CASE e = f
        BY <2>6, <2>9, <3>1, <3>2, <4>1
      <4>2. CASE e # f
        BY <2>9, <3>2, <4>2 DEF Sound, UserHalves
      <4> QED
        BY <4>1, <4>2
    <3> QED
      BY <3>2 DEF UserHalves
  <2>15. ASSUME NEW e \in ds \union {KDir}
         PROVE  /\ e \in Directories \ {f} /\ r.dir[e] = m.dir[e]
                /\ \A v \in DirIndexes : m.dir[e][v] # NotPresent =>
                     m.dir[e][v] \in Tables /\ r.tab[m.dir[e][v]] = m.tab[m.dir[e][v]]
    <3>1. e \in Directories \ {f}
      BY <2>8 DEF Directories
    <3> QED
      BY <2>5, <2>9, <2>10, <3>1
  <2>16. SameView(m, r, ds)
    <3>1. ASSUME NEW e \in ds \union {KDir}, NEW q \in UserPages
          PROVE  q \in Mapped(r, e) <=> q \in Mapped(m, e)
      BY <2>15, MappedPage
    <3>2. ASSUME NEW e \in ds \union {KDir}, NEW x \in Nat, PDX(x) \in DirIndexes
          PROVE  vmm_va2pa(r, e, x) = vmm_va2pa(m, e, x)
      BY <2>15, <3>2 DEF vmm_va2pa
    <3> QED
      BY <3>1, <3>2 DEF SameView
  <2>17. TablesStay(m, r)
    BY <2>15 DEF TablesStay
  <2>18. Mapped(r, f) \intersect UserPages = {}
    <3>1. ASSUME NEW q \in UserPages, q \in Mapped(r, f)
          PROVE  FALSE
      <4>1. PICK v \in DirIndexes, j \in TabIndexes :
              r.dir[f][v] # NotPresent /\ r.tab[r.dir[f][v]][j] = q
        BY <3>1, MappedPage
      <4>2. r.dir[f][v] \in {KTab1, KTab2}
        BY <2>6, <2>9, <4>1
      <4> QED
        BY <2>13, <4>1, <4>2 DEF KernelTablesClean
    <3> QED
      BY <3>1
  <2>19. ASSUME NEW x \in Nat, PDX(x) \in 2 .. DirEntries - 1
         PROVE  vmm_va2pa(r, f, x) = NULL
    <3>1. PDX(x) \in DirIndexes /\ PDX(x) >= 2
      BY <2>19, Layout DEF DirIndexes
    <3> QED
      BY <2>6, <2>9, <3>1 DEF vmm_va2pa
  <2> QED
    BY <2>2, <2>4, <2>7, <2>8, <2>12, <2>13, <2>14, <2>16, <2>17, <2>18, <2>19 DEF Sound
<1> QED
  BY <1>1, <1>2

-----------------------------------------------------------------------------
(* The memory that pmm_init and vmm_init leave behind *)

\* It is a memory.
LEMMA InitialMemoryType == InitialMemory \in MemoryType
<1>1. KernelHalf \in [DirIndexes -> Tables \union {NotPresent}]
  BY KernelHalfShape
<1>2. EmptyDir \in [DirIndexes -> Tables \union {NotPresent}]
  BY DEF EmptyDir
<1>3. \A j \in TabIndexes : j \in KernelPages /\ Entries + j \in KernelPages
  BY Layout DEF TabIndexes, KernelPages, PMM_START
<1>4. InitialMemory.dir \in [Directories -> [DirIndexes -> Tables \union {NotPresent}]]
  BY <1>1, <1>2 DEF InitialMemory
<1>5. EmptyTab \in [TabIndexes -> PageNumbers \union {NotPresent}]
  BY DEF EmptyTab
<1>6. InitialMemory.tab \in [Tables -> [TabIndexes -> PageNumbers \union {NotPresent}]]
  BY <1>3, <1>5 DEF InitialMemory, PageNumbers
<1> QED
  BY <1>4, <1>6 DEF InitialMemory, MemoryType, PanicTexts

\* Nothing is mapped outside the kernel, whatever is marked.
LEMMA InitialTables ==
  ASSUME NEW m, m.dir = InitialMemory.dir, m.tab = InitialMemory.tab
  PROVE  Sound(m, {})
<1>1. /\ \A v \in DirIndexes : KernelHalf[v] \in {KTab1, KTab2, NotPresent}
      /\ \A v \in DirIndexes : v >= 2 => KernelHalf[v] = NotPresent
  BY KernelHalfShape
<1>2. \A d \in Directories : m.dir[d] = IF d = KDir THEN KernelHalf ELSE EmptyDir
  BY DEF InitialMemory
<1>3. \A d \in Directories, v \in DirIndexes : ~OwnTable(m, d, v)
  BY <1>1, <1>2 DEF OwnTable, EmptyDir
<1>4. \A d \in Directories, v \in DirIndexes : v >= 2 => m.dir[d][v] = NotPresent
  BY <1>1, <1>2 DEF EmptyDir
<1>5. KernelTablesClean(m)
  <2>1. \A j \in TabIndexes : m.tab[KTab1][j] = j /\ m.tab[KTab2][j] = Entries + j
    BY LayoutAssumption DEF InitialMemory, Tables, LayoutAssumption
  <2>2. \A p \in KernelPages : p \notin UserPages
    BY Layout DEF KernelPages, PMM_START
  <2>3. \A j \in TabIndexes : j \in KernelPages /\ Entries + j \in KernelPages
    BY Layout DEF TabIndexes, KernelPages, PMM_START
  <2> QED
    BY <2>1, <2>2, <2>3 DEF KernelTablesClean
<1>6. NotPresent \notin {KTab1, KTab2}
  BY Layout DEF Tables
<1> QED
  BY <1>3, <1>4, <1>5, <1>6 DEF Sound, OneUse, UserHalves

-----------------------------------------------------------------------------
(* Marks *)

\* A page is marked if and only if its bit is set.
LEMMA MarkedPage ==
  ASSUME NEW m, m.bitmap \in SUBSET Bits
  PROVE  /\ Marked(m) \in SUBSET UserPages
         /\ \A p \in UserPages : p \in Marked(m) <=> p - PMM_START \in m.bitmap
<1>1. Marked(m) \in SUBSET UserPages
  BY DEF Marked, UserPages
<1>2. ASSUME NEW p \in UserPages
      PROVE  p \in Marked(m) <=> p - PMM_START \in m.bitmap
  <2>1. PMM_START \in Nat /\ p \in Nat
    BY Layout DEF PMM_START
  <2>2. p = PMM_START + (p - PMM_START)
    BY <2>1
  <2>3. \A v \in m.bitmap : v \in Bits /\ v \in Nat
    BY Layout
  <2>4. \A v \in m.bitmap : p = PMM_START + v => v = p - PMM_START
    BY <2>1, <2>3
  <2> QED
    BY <2>2, <2>4 DEF Marked
<1> QED
  BY <1>1, <1>2

\* Two pages have two bits.
LEMMA BitsDiffer == \A p, q \in UserPages : p - PMM_START = q - PMM_START => p = q
BY Layout DEF PMM_START

\* Setting the bit of a page marks that page.
LEMMA MarkedAfterSet ==
  ASSUME NEW m, m.bitmap \in SUBSET Bits, NEW n, n.bitmap \in SUBSET Bits,
         NEW p \in UserPages, n.bitmap = m.bitmap \union {p - PMM_START}
  PROVE  Marked(n) = Marked(m) \union {p}
BY BitsDiffer, MarkedPage

\* Clearing the bits of pages takes the mark from these pages only.
LEMMA MarkedAfterClear ==
  ASSUME NEW m, m.bitmap \in SUBSET Bits, NEW n,
         NEW ps \in SUBSET UserPages, BitsCleared(m, {p - PMM_START : p \in ps}, n)
  PROVE  Marked(n) = Marked(m) \ ps
<1>1. \A q \in UserPages : q - PMM_START \in {p - PMM_START : p \in ps} <=> q \in ps
  BY BitsDiffer
<1>2. n.bitmap = m.bitmap \ {p - PMM_START : p \in ps}
  BY DEF BitsCleared
<1>3. n.bitmap \in SUBSET Bits
  BY <1>2
<1> QED
  BY <1>1, <1>2, <1>3, MarkedPage

-----------------------------------------------------------------------------
(* The inductive invariant *)

\* Every page that a caller has is entered in a table of the kernel, at its own
\* address but for the region of the kernel stack.
HeldEntered(m, h) ==
  /\ \A p \in h : m.dir[KDir][PDX(p)] # NotPresent
  /\ \A p \in h : PDX(p) # PDX(KERNEL_STACK_BASE) => vmm_va2pa(m, KDir, p) = p

\* A directory maps exactly the pages that callers mapped there, which they
\* have and mapped in no other directory.
GivenAreMapped(m, h, ds, g) ==
  /\ \A d \in ds : Mapped(m, d) \intersect UserPages = g[d]
  /\ \A d \in Frames \ ds : g[d] = {}
  /\ \A d \in Frames : g[d] \subseteq h
  /\ \A d, e \in Frames : d # e => g[d] \intersect g[e] = {}

Exact(m, h, ds, g) ==
  /\ Sound(m, ds)
  /\ Marked(m) = h
  /\ HeldEntered(m, h)
  /\ GivenAreMapped(m, h, ds, g)

\* BitmapIsExact alone is not inductive: that destroying a directory frees what
\* its owner mapped there rests on its tables being its own, and that a new
\* table is made for a first page only on every marked page having a table.
IInv == TypeOK /\ (Alive => Exact(mem, held, dirs, given))

\* The memory that pmm_init and vmm_init leave behind.
LEMMA InitialState ==
  ASSUME Init
  PROVE  IInv
<1>1. InitialMemory \in MemoryType /\ Sound(InitialMemory, {})
  BY InitialMemoryType, InitialTables
<1>2. Marked(InitialMemory) = {}
  BY DEF InitialMemory, Marked
<1> QED
  BY <1>1, <1>2 DEF Init, IInv, TypeOK, Exact, HeldEntered, GivenAreMapped

\* Every call keeps the invariant.
LEMMA NextKeepsIInv ==
  ASSUME IInv, [Next]_vars
  PROVE  IInv'
<1> USE DEF IInv
<1>1. /\ mem \in MemoryType /\ held \in SUBSET UserPages
      /\ dirs \in SUBSET Frames /\ given \in [Frames -> SUBSET UserPages]
      /\ mem.bitmap \in SUBSET Bits
  BY DEF TypeOK, MemoryType
<1>2. ASSUME Alive
      PROVE  /\ Sound(mem, dirs) /\ Marked(mem) = held /\ ~Panicked(mem)
             /\ HeldEntered(mem, held) /\ GivenAreMapped(mem, held, dirs, given)
  BY <1>2 DEF Exact, Alive
<1>3. ASSUME AllocPage
      PROVE  IInv'
  <2> DEFINE a == pmm_alloc_page(mem)
  <2>1. /\ Alive /\ mem' = a.mem /\ dirs' = dirs /\ given' = given
        /\ held' = IF a.ret = NULL \/ Panicked(a.mem) THEN held ELSE held \union {a.ret}
    BY <1>3 DEF AllocPage
  <2>2. LastBits({}) /\ MarkedHaveTables(mem, {})
    BY <1>1, <1>2, <2>1, MarkedPage DEF LastBits, MarkedHaveTables, HeldEntered
  <2>3. a = pmm_alloc_page(mem)
    OBVIOUS
  <2> HIDE DEF a
  <2>4. \/ a.ret = NULL /\ a.mem = mem
        \/ /\ a.ret \in UserPages /\ a.mem \in MemoryType
           /\ a.ret - PMM_START \notin mem.bitmap
           /\ \/ Panicked(a.mem)
              \/ /\ ~Panicked(a.mem) /\ Sound(a.mem, dirs)
                 /\ a.mem.bitmap = mem.bitmap \union {a.ret - PMM_START}
                 /\ PageMapped(mem, a.mem, dirs, KDir, a.ret, a.ret)
                 /\ TablesStay(mem, a.mem) /\ a.mem.dir[KDir][PDX(a.ret)] # NotPresent
    BY <1>1, <1>2, <2>1, <2>2, <2>3, AllocatedPage
  <2>5. CASE a.ret = NULL /\ a.mem = mem
    BY <2>1, <2>5 DEF TypeOK, Alive
  <2>6. CASE a.ret \in UserPages /\ a.mem \in MemoryType /\ Panicked(a.mem)
    BY <1>1, <2>1, <2>6 DEF TypeOK, Alive
  <2>7. CASE /\ a.ret \in UserPages /\ a.mem \in MemoryType
             /\ ~Panicked(a.mem) /\ Sound(a.mem, dirs)
             /\ a.mem.bitmap = mem.bitmap \union {a.ret - PMM_START}
             /\ PageMapped(mem, a.mem, dirs, KDir, a.ret, a.ret)
             /\ TablesStay(mem, a.mem) /\ a.mem.dir[KDir][PDX(a.ret)] # NotPresent
    <3>1. held' = held \union {a.ret}
      <4>1. NULL \notin UserPages
        BY Layout DEF NULL, PMM_START
      <4> QED
        BY <2>1, <2>7, <4>1
    <3>2. Marked(mem') = held'
      <4>1. /\ mem.bitmap \in SUBSET Bits
            /\ a.mem.bitmap \in SUBSET Bits /\ a.ret \in UserPages
            /\ a.mem.bitmap = mem.bitmap \union {a.ret - PMM_START}
        BY <1>1, <2>7 DEF MemoryType
      <4>2. Marked(a.mem) = Marked(mem) \union {a.ret}
        BY <4>1, MarkedAfterSet
      <4> QED
        BY <1>2, <2>1, <3>1, <4>2
    <3>3. HeldEntered(mem', held')
      <4>1. ASSUME NEW p \in held'
            PROVE  /\ p \in Nat /\ PDX(p) \in DirIndexes
                   /\ a.mem.dir[KDir][PDX(p)] # NotPresent
        BY <1>1, <1>2, <2>1, <2>7, <3>1, Layout DEF HeldEntered, TablesStay, DirIndexes
      <4>2. ASSUME NEW p \in held', PDX(p) # PDX(KERNEL_STACK_BASE)
            PROVE  vmm_va2pa(a.mem, KDir, p) = p
        <5>1. CASE p = a.ret
          BY <2>7, <5>1 DEF PageMapped
        <5>2. CASE p # a.ret
          BY <1>2, <2>1, <2>7, <3>1, <4>1, <4>2, <5>2 DEF PageMapped, HeldEntered
        <5> QED
          BY <5>1, <5>2
      <4> QED
        BY <2>1, <4>1, <4>2 DEF HeldEntered
    <3>4. GivenAreMapped(mem', held', dirs', given')
      <4>1. KDir \notin dirs
        BY <1>1, Layout
      <4> QED
        BY <1>2, <2>1, <2>7, <3>1, <4>1 DEF GivenAreMapped, PageMapped
    <3> QED
      BY <1>1, <2>1, <2>7, <3>1, <3>2, <3>3, <3>4 DEF TypeOK, Exact
  <2> QED
    BY <2>4, <2>5, <2>6, <2>7
<1>4. ASSUME NEW p \in UserPages, FreePage(p)
      PROVE  IInv'
  <2>1. /\ Alive /\ Unmapped(p) /\ mem' = pmm_free_page(mem, p)
        /\ held' = held \ {p} /\ dirs' = dirs /\ given' = given
    BY <1>4 DEF FreePage
  <2>2. BitsCleared(mem, {p - PMM_START}, mem')
    BY <1>1, <2>1, FreedPage
  <2>3. /\ IsMemory(mem') /\ mem'.bitmap = mem.bitmap \ {p - PMM_START}
        /\ mem'.intr_bitmap = mem.intr_bitmap /\ mem'.panic = mem.panic
        /\ mem'.dir = mem.dir /\ mem'.tab = mem.tab
    BY <2>2 DEF BitsCleared
  <2>4. mem' \in MemoryType
    BY <1>1, <2>3, PartsOfMemory, MemoryOfParts
  <2>5. /\ Sound(mem', dirs) /\ \A d : Mapped(mem', d) = Mapped(mem, d)
        /\ \A d, va : vmm_va2pa(mem', d, va) = vmm_va2pa(mem, d, va)
    BY <1>2, <2>1, <2>3, SameTables
  <2>6. Marked(mem') = held'
    <3>1. {p - PMM_START} = {q - PMM_START : q \in {p}} /\ {p} \in SUBSET UserPages
      OBVIOUS
    <3>2. BitsCleared(mem, {q - PMM_START : q \in {p}}, mem')
      BY <2>2, <3>1, Zenon
    <3>3. Marked(mem') = Marked(mem) \ {p}
      BY <1>1, <3>1, <3>2, MarkedAfterClear, Zenon
    <3> QED
      BY <1>2, <2>1, <3>3
  <2>7. HeldEntered(mem', held')
    BY <1>2, <2>1, <2>3, <2>5 DEF HeldEntered
  <2>8. GivenAreMapped(mem', held', dirs', given')
    BY <1>2, <2>1, <2>5 DEF GivenAreMapped, Unmapped
  <2> QED
    BY <1>1, <2>1, <2>4, <2>5, <2>6, <2>7, <2>8 DEF TypeOK, Exact
<1>5. ASSUME CreateDirectory
      PROVE  IInv'
  <2> DEFINE a == vmm_create_user_page_directory(mem)
  <2>1. /\ Alive /\ mem' = a.mem /\ held' = held /\ given' = given
        /\ dirs' = IF a.ret = NULL THEN dirs ELSE dirs \union {a.ret}
    BY <1>5 DEF CreateDirectory
  <2>2. a = vmm_create_user_page_directory(mem)
    OBVIOUS
  <2> HIDE DEF a
  <2>3. \/ a.ret = NULL /\ a.mem = mem
        \/ /\ a.ret \in Frames \ dirs /\ a.mem \in MemoryType
           /\ a.mem.bitmap = mem.bitmap /\ a.mem.panic = mem.panic
           /\ Sound(a.mem, dirs \union {a.ret})
           /\ SameView(mem, a.mem, dirs) /\ TablesStay(mem, a.mem)
           /\ Mapped(a.mem, a.ret) \intersect UserPages = {}
    BY <1>1, <1>2, <2>1, <2>2, CreatedDirectory
  <2>4. CASE a.ret = NULL /\ a.mem = mem
    BY <2>1, <2>4 DEF TypeOK, Alive
  <2>5. CASE /\ a.ret \in Frames \ dirs /\ a.mem \in MemoryType
             /\ a.mem.bitmap = mem.bitmap /\ a.mem.panic = mem.panic
             /\ Sound(a.mem, dirs \union {a.ret})
             /\ SameView(mem, a.mem, dirs) /\ TablesStay(mem, a.mem)
             /\ Mapped(a.mem, a.ret) \intersect UserPages = {}
    <3>1. dirs' = dirs \union {a.ret}
      <4>1. NULL \notin Frames
        BY Layout DEF Tables
      <4> QED
        BY <2>1, <2>5, <4>1
    <3>2. Marked(mem') = held'
      BY <1>2, <2>1, <2>5 DEF Marked
    <3>3. HeldEntered(mem', held')
      <4>1. \A p \in held : p \in Nat /\ PDX(p) \in DirIndexes
        BY <1>1, Layout DEF DirIndexes
      <4> QED
        BY <1>2, <2>1, <2>5, <4>1 DEF HeldEntered, SameView, TablesStay
    <3>4. GivenAreMapped(mem', held', dirs', given')
      BY <1>2, <2>1, <2>5, <3>1 DEF GivenAreMapped, SameView
    <3> QED
      BY <1>1, <2>1, <2>5, <3>1, <3>2, <3>3, <3>4 DEF TypeOK, Exact
  <2> QED
    BY <2>3, <2>4, <2>5
<1>6. ASSUME NEW d \in Frames, NEW va \in {KERNEL_STACK_BASE, USER_PROGRAM_BASE},
             NEW p \in UserPages, MapPage(d, va, p)
      PROVE  IInv'
  <2> DEFINE r == vmm_mappage(mem, d, va, p)
  <2>1. /\ Alive /\ d \in dirs /\ Unmapped(p) /\ vmm_va2pa(mem, d, va) = NULL
        /\ mem' = r.mem /\ held' = held /\ dirs' = dirs
        /\ given' = IF r.ret = 0 THEN [given EXCEPT ![d] = given[d] \union {p}] ELSE given
    BY <1>6 DEF MapPage
  <2>2. va \in Nat /\ PDX(va) \in 2 .. DirEntries - 1
    BY LayoutAssumption DEF LayoutAssumption
  <2>3. r = vmm_mappage(mem, d, va, p)
    OBVIOUS
  <2> HIDE DEF r
  <2>4. \/ r.ret = -1 /\ r.mem = mem
        \/ /\ r.ret = 0 /\ r.mem \in MemoryType /\ Sound(r.mem, dirs)
           /\ r.mem.bitmap = mem.bitmap /\ r.mem.panic = mem.panic
           /\ PageMapped(mem, r.mem, dirs, d, va, p)
           /\ TablesStay(mem, r.mem)
    BY <1>1, <1>2, <2>1, <2>2, <2>3, Mappage
  <2>5. CASE r.ret = -1 /\ r.mem = mem
    BY <2>1, <2>5 DEF TypeOK, Alive
  <2>6. CASE /\ r.ret = 0 /\ r.mem \in MemoryType /\ Sound(r.mem, dirs)
             /\ r.mem.bitmap = mem.bitmap /\ r.mem.panic = mem.panic
             /\ PageMapped(mem, r.mem, dirs, d, va, p)
             /\ TablesStay(mem, r.mem)
    <3>1. given' = [given EXCEPT ![d] = given[d] \union {p}]
      BY <2>1, <2>6
    <3>2. Marked(mem') = held'
      BY <1>2, <2>1, <2>6 DEF Marked
    <3>3. HeldEntered(mem', held')
      <4>1. \A q \in held : q \in Nat /\ PDX(q) \in DirIndexes
        BY <1>1, Layout DEF DirIndexes
      <4>2. KDir # d
        BY Layout
      <4> QED
        BY <1>2, <2>1, <2>6, <4>1, <4>2 DEF HeldEntered, PageMapped, TablesStay
    <3>4. GivenAreMapped(mem', held', dirs', given')
      <4>1. /\ given'[d] = given[d] \union {p}
            /\ \A e \in Frames \ {d} : given'[e] = given[e]
        BY <1>1, <3>1
      <4>2. p \in held /\ \A e \in Frames : p \notin given[e]
        BY <2>1 DEF Unmapped
      <4>3. \A e \in dirs : Mapped(mem', e) \intersect UserPages = given'[e]
        BY <1>1, <1>2, <2>1, <2>6, <4>1 DEF GivenAreMapped, PageMapped
      <4>4. \A e \in Frames \ dirs : given'[e] = {}
        BY <1>2, <2>1, <4>1 DEF GivenAreMapped
      <4>5. \A e \in Frames : given'[e] \subseteq held
        BY <1>2, <2>1, <4>1, <4>2 DEF GivenAreMapped
      <4>6. \A e, f \in Frames : e # f => given'[e] \intersect given'[f] = {}
        BY <1>2, <2>1, <4>1, <4>2 DEF GivenAreMapped
      <4> QED
        BY <2>1, <4>3, <4>4, <4>5, <4>6 DEF GivenAreMapped
    <3> QED
      BY <1>1, <2>1, <2>6, <3>1, <3>2, <3>3, <3>4 DEF TypeOK, Exact
  <2> QED
    BY <2>4, <2>5, <2>6
<1>7. ASSUME NEW d \in Frames, DestroyDirectory(d)
      PROVE  IInv'
  <2>1. /\ Alive /\ d \in dirs /\ mem' = vmm_destroy_user_page_directory(mem, d)
        /\ held' = held \ given[d] /\ dirs' = dirs \ {d}
        /\ given' = [given EXCEPT ![d] = {}]
    BY <1>7 DEF DestroyDirectory
  <2>2. Mapped(mem, d) \intersect UserPages = given[d]
    BY <1>2, <2>1 DEF GivenAreMapped
  <2>3. BitsCleared(mem, {p - PMM_START : p \in given[d]}, mem')
    <3>1. BitsCleared(mem, {p - PMM_START : p \in Mapped(mem, d) \intersect UserPages}, mem')
      BY <1>1, <2>1, DestroyedDirectory
    <3> QED
      BY <2>2, <3>1
  <2>4. /\ IsMemory(mem') /\ mem'.bitmap = mem.bitmap \ {p - PMM_START : p \in given[d]}
        /\ mem'.intr_bitmap = mem.intr_bitmap /\ mem'.panic = mem.panic
        /\ mem'.dir = mem.dir /\ mem'.tab = mem.tab
    BY <2>3 DEF BitsCleared
  <2>5. mem'.bitmap \in SUBSET Bits
    BY <1>1, <2>4
  <2>6. mem' \in MemoryType
    BY <1>1, <2>4, <2>5, PartsOfMemory, MemoryOfParts
  <2>7. /\ Sound(mem', dirs) /\ \A e : Mapped(mem', e) = Mapped(mem, e)
        /\ \A e, va : vmm_va2pa(mem', e, va) = vmm_va2pa(mem, e, va)
    BY <1>2, <2>1, <2>4, SameTables
  <2>8. Sound(mem', dirs')
    BY <2>1, <2>7 DEF Sound, OneUse
  <2>9. Marked(mem') = held'
    <3>1. given[d] \in SUBSET UserPages
      BY <1>1
    <3>2. Marked(mem') = Marked(mem) \ given[d]
      BY <1>1, <2>3, <3>1, MarkedAfterClear, Zenon
    <3> QED
      BY <1>2, <2>1, <3>2
  <2>10. HeldEntered(mem', held')
    BY <1>2, <2>1, <2>4, <2>7 DEF HeldEntered
  <2>11. GivenAreMapped(mem', held', dirs', given')
    <3>1. given'[d] = {} /\ \A e \in Frames \ {d} : given'[e] = given[e]
      BY <1>1, <2>1
    <3>2. \A e \in Frames : given'[e] \subseteq held \ given[d]
      BY <1>2, <2>1, <3>1 DEF GivenAreMapped
    <3> QED
      BY <1>1, <1>2, <2>1, <2>7, <3>1, <3>2 DEF GivenAreMapped
  <2> QED
    BY <1>1, <2>1, <2>6, <2>8, <2>9, <2>10, <2>11 DEF TypeOK, Exact
<1>8. ASSUME NEW kstack \in UserPages, vmm_switch_kernel_page_directory(kstack)
      PROVE  IInv'
  <2> DEFINE va == KERNEL_STACK_BASE
             r == vmm_mappage(mem, KDir, va, kstack)
  <2>1. /\ Alive /\ mem' = r.mem /\ held' = held /\ dirs' = dirs /\ given' = given
    BY <1>8 DEF vmm_switch_kernel_page_directory
  <2>2. va \in Nat /\ PDX(va) \in 2 .. DirEntries - 1 /\ PDX(va) = PDX(KERNEL_STACK_BASE)
    BY LayoutAssumption DEF LayoutAssumption
  <2>3. r = vmm_mappage(mem, KDir, va, kstack)
    OBVIOUS
  <2> HIDE DEF r, va
  <2>4. \/ r.ret = -1 /\ r.mem = mem
        \/ /\ r.ret = 0 /\ r.mem \in MemoryType /\ Sound(r.mem, dirs)
           /\ r.mem.bitmap = mem.bitmap /\ r.mem.panic = mem.panic
           /\ PageMapped(mem, r.mem, dirs, KDir, va, kstack)
           /\ TablesStay(mem, r.mem)
    <3>1. KDir \in dirs \union {KDir}
      OBVIOUS
    <3> QED
      BY <1>1, <1>2, <2>1, <2>2, <2>3, <3>1, Mappage
  <2>5. CASE r.ret = -1 /\ r.mem = mem
    BY <2>1, <2>5 DEF TypeOK, Alive
  <2>6. CASE /\ r.ret = 0 /\ r.mem \in MemoryType /\ Sound(r.mem, dirs)
             /\ r.mem.bitmap = mem.bitmap /\ r.mem.panic = mem.panic
             /\ PageMapped(mem, r.mem, dirs, KDir, va, kstack)
             /\ TablesStay(mem, r.mem)
    <3>1. Marked(mem') = held'
      BY <1>2, <2>1, <2>6 DEF Marked
    <3>2. HeldEntered(mem', held')
      <4>1. \A q \in held : q \in Nat /\ PDX(q) \in DirIndexes
        BY <1>1, Layout DEF DirIndexes
      <4>2. \A q \in held : PDX(q) # PDX(KERNEL_STACK_BASE) => q # va
        BY <2>2
      <4> QED
        BY <1>2, <2>1, <2>6, <4>1, <4>2 DEF HeldEntered, PageMapped, TablesStay
    <3>3. GivenAreMapped(mem', held', dirs', given')
      <4>1. KDir \notin dirs
        BY <1>1, Layout
      <4> QED
        BY <1>2, <2>1, <2>6, <4>1 DEF GivenAreMapped, PageMapped
    <3> QED
      BY <1>1, <2>1, <2>6, <3>1, <3>2, <3>3 DEF TypeOK, Exact
  <2> QED
    BY <2>4, <2>5, <2>6
<1>9. CASE UNCHANGED vars
  BY <1>9 DEF vars, TypeOK, Alive
<1> QED
  BY <1>3, <1>4, <1>5, <1>6, <1>7, <1>8, <1>9 DEF Next

-----------------------------------------------------------------------------
(* Theorems *)

\* The inductive invariant holds in every state.
THEOREM Invariance == Spec => []IInv
<1>1. Init => IInv
  BY InitialState
<1>2. IInv /\ [Next]_vars => IInv'
  BY NextKeepsIInv
<1> QED
  BY <1>1, <1>2, PTL DEF Spec

\* The memory record and the sets of what callers have keep their shape: every
\* entry of every directory refers to a table, and every entry of every table
\* to a page that exists.
THEOREM TypeCorrect == Spec => []TypeOK
<1>1. IInv => TypeOK
  BY DEF IInv
<1> QED
  BY <1>1, Invariance, PTL

\* The bitmap of pmm.c marks exactly the pages that callers have, after any
\* sequence of allocations, frees, mappings and destroyed directories.
THEOREM BitmapExact == Spec => []BitmapIsExact
<1>1. IInv => BitmapIsExact
  BY DEF IInv, Exact, BitmapIsExact
<1> QED
  BY <1>1, Invariance, PTL

\* The kernel reaches every page that a caller has at the page's own address.
THEOREM HeldReachable == Spec => []HeldPagesReachable
<1>1. IInv => HeldPagesReachable
  BY DEF IInv, Exact, HeldEntered, HeldPagesReachable
<1> QED
  BY <1>1, Invariance, PTL

\* A page of the pool of tables has one use.
THEOREM OneUseOfFrames == Spec => []FramesHaveOneUse
<1>1. IInv => FramesHaveOneUse
  BY DEF IInv, Exact, Sound, FramesHaveOneUse
<1> QED
  BY <1>1, Invariance, PTL

=============================================================================
