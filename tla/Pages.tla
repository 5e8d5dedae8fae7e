------------------------------- MODULE Pages -------------------------------
(***************************************************************************)
(* The memory of the kernel as pmm.c and vmm.c see it: two bitmaps of      *)
(* physical pages, page directories and page tables.  Every function of    *)
(* the two files is an operator from a memory record to a memory record    *)
(* and a return value, so that a caller such as process_create can chain   *)
(* them the way the C code does.                                           *)
(*                                                                         *)
(* An address is the number of its page (address / PAGE_SIZE), since every *)
(* address these functions handle is the base of a page.                   *)
(***************************************************************************)
EXTENDS Integers

CONSTANTS
  Entries,            \* PAGE_TABLE_ENTRIES_COUNT: 1024 entries in a page table
  DirEntries,         \* PAGE_DIRECTORY_ENTRIES_COUNT: 1024 entries in a directory
  WordBits,           \* 32 bits in a word of a bitmap
  PagesCount,         \* PAGES_COUNT: pages from PMM_START_ADDR to PMM_END_ADDR
  IntrPagesCount,     \* PMM_INTR_PAGES_COUNT: pages kept for the kernel's tables
  KERNEL_STACK_BASE,  \* page of the kernel stack of the process that runs
  USER_PROGRAM_BASE,  \* page of the code of the process that runs
  KDir, KTab1, KTab2  \* the pages of kpage_directory, kpage_table1, kpage_table2

NULL == 0
NotPresent == -1      \* an entry whose present bit is 0

PDX(va) == va \div Entries
PTX(va) == va % Entries

DirIndexes == 0 .. DirEntries - 1
TabIndexes == 0 .. Entries - 1

\* The kernel identity-maps its first two tables: pages 0 .. 2 * Entries - 1.
PMM_INTR_START == Entries
PMM_START == 2 * Entries

\* Both bitmaps are declared with count / 32 words: the pages of the last,
\* incomplete word have no bit.
Capacity(count) == (count \div WordBits) * WordBits

Bits == 0 .. Capacity(PagesCount) - 1
IntrBits == 0 .. Capacity(IntrPagesCount) - 1

Frames == {PMM_INTR_START + i : i \in IntrBits}
UserPages == {PMM_START + i : i \in Bits}
KernelPages == 0 .. PMM_START - 1
Directories == {KDir} \union Frames
Tables == {KTab1, KTab2} \union Frames

ASSUME LayoutAssumption ==
  /\ Entries \in Nat \ {0}
  /\ DirEntries \in Nat \ {0, 1}
  /\ WordBits \in Nat \ {0}
  /\ PagesCount \in Nat
  /\ IntrPagesCount \in Nat
  /\ IntrPagesCount <= Entries
  /\ \A i \in Bits : PDX(PMM_START + i) \in 2 .. DirEntries - 1
  /\ {KDir, KTab1, KTab2} \subseteq 1 .. Entries - 1
  /\ KTab1 # KTab2 /\ KDir # KTab1 /\ KDir # KTab2
  /\ KERNEL_STACK_BASE \in Nat /\ PDX(KERNEL_STACK_BASE) \in 2 .. DirEntries - 1
  /\ USER_PROGRAM_BASE \in Nat /\ PDX(USER_PROGRAM_BASE) \in 2 .. DirEntries - 1
  /\ PDX(USER_PROGRAM_BASE) # PDX(KERNEL_STACK_BASE)

EmptyDir == [i \in DirIndexes |-> NotPresent]
EmptyTab == [j \in TabIndexes |-> NotPresent]

\* The two tables that map the kernel into every address space.
KernelHalf == [EmptyDir EXCEPT ![0] = KTab1, ![1] = KTab2]

\* What the functions below leave behind when they return.
Result(m, r) == [mem |-> m, ret |-> r]

\* kpanic prints its text and loops for ever.
kpanic(m, text) == [m EXCEPT !.panic = text]
Panicked(m) == m.panic # "none"

\* pmm_init followed by vmm_init, as kmain calls them.
InitialMemory ==
  [bitmap      |-> {},
   intr_bitmap |-> {},
   dir         |-> [d \in Directories |-> IF d = KDir THEN KernelHalf ELSE EmptyDir],
   tab         |-> [t \in Tables |->
                      IF t = KTab1 THEN [j \in TabIndexes |-> j]
                      ELSE IF t = KTab2 THEN [j \in TabIndexes |-> Entries + j]
                      ELSE EmptyTab],
   panic       |-> "none"]

-----------------------------------------------------------------------------
(* What the functions write *)

\* bitmap_set on the pool's bitmap and the memset that makes page i of the
\* pool an empty table or an empty directory.
mark_and_clear(m, i) ==
  [m EXCEPT !.intr_bitmap = @ \union {i},
            !.dir[PMM_INTR_START + i] = EmptyDir,
            !.tab[PMM_INTR_START + i] = EmptyTab]

\* bitmap_set and bitmap_clear on the pages' bitmap.
bitmap_set(m, i) == [m EXCEPT !.bitmap = @ \union {i}]
bitmap_clear(m, is) == [m EXCEPT !.bitmap = @ \ is]

write_page_directory(m, d, table_of) == [m EXCEPT !.dir[d] = table_of]
write_directory_entry(m, d, k, table) == [m EXCEPT !.dir[d][k] = table]
write_table_entry(m, t, j, page) == [m EXCEPT !.tab[t][j] = page]

-----------------------------------------------------------------------------
(* pmm.c *)

FirstZero(bits, count, i) ==
  /\ i \in 0 .. Capacity(count) - 1
  /\ i \notin bits
  /\ \A j \in 0 .. Capacity(count) - 1 : j < i => j \in bits

\* Mutant: the scan does not stop at the last whole word of the bitmap.
find_first_page_beyond(bits, count) ==
  IF \E i \in 0 .. count - 1 : i \notin bits
  THEN CHOOSE i \in 0 .. count - 1 : i \notin bits /\ \A j \in 0 .. i - 1 : j \in bits
  ELSE -1

\* Mutant: the scan starts at the second word.
find_page_after_first_word(bits, count) ==
  IF \E i \in WordBits .. Capacity(count) - 1 : i \notin bits
  THEN CHOOSE i \in WordBits .. Capacity(count) - 1 :
         i \notin bits /\ \A j \in WordBits .. i - 1 : j \in bits
  ELSE -1

find_first_page(bits, count) ==
  IF \E i \in 0 .. Capacity(count) - 1 : FirstZero(bits, count, i)
  THEN CHOOSE i \in 0 .. Capacity(count) - 1 : FirstZero(bits, count, i)
  ELSE -1

\* Mutant: the bit of the page is not set.
pmm_intr_alloc_page_unmarked(m) ==
  LET i == find_first_page(m.intr_bitmap, IntrPagesCount)
      f == PMM_INTR_START + i
  IN  IF i = -1 THEN Result(m, NULL)
      ELSE Result([m EXCEPT !.dir[f] = EmptyDir,
                            !.tab[f] = EmptyTab], f)

\* The page is zeroed, so it is an empty table or an empty directory.
pmm_intr_alloc_page(m) ==
  LET i == find_first_page(m.intr_bitmap, IntrPagesCount)
      f == PMM_INTR_START + i
  IN  IF i = -1 THEN Result(m, NULL)
      ELSE Result(mark_and_clear(m, i), f)

\* The page is entered in the kernel's own directory at its own address.  A
\* table made for it is used from its first entry, whatever the page's index.
pmm_map_identity(m, page) ==
  LET new == m.dir[KDir][PDX(page)] = NotPresent
      a == pmm_intr_alloc_page(m)
      t == IF new THEN a.ret ELSE m.dir[KDir][PDX(page)]
      m1 == IF new
            THEN write_directory_entry(a.mem, KDir, PDX(page), t)
            ELSE m
      slot == IF new THEN 0 ELSE PTX(page)
  IN  IF new /\ a.ret = NULL THEN kpanic(m, "Failed allocate page table")
      ELSE IF m1.tab[t][slot] # NotPresent THEN kpanic(m1, "Page already allocated")
      ELSE write_table_entry(m1, t, slot, page)

pmm_alloc_page(m) ==
  LET i == find_first_page(m.bitmap, PagesCount)
      page == PMM_START + i
  IN  IF i = -1 THEN Result(m, NULL)
      ELSE Result(pmm_map_identity(bitmap_set(m, i), page), page)

\* Addresses below PMM_START_ADDR are ignored, and with them every page that
\* pmm_intr_alloc_page handed out; the entry in the kernel's table stays.
pmm_free_page(m, page) ==
  IF page < PMM_START \/ page - PMM_START >= PagesCount THEN m
  ELSE bitmap_clear(m, {page - PMM_START})

-----------------------------------------------------------------------------
(* vmm.c *)

\* The pages that a directory maps, the kernel's included.
Mapped(m, d) ==
  {m.tab[m.dir[d][i]][j] : i \in {k \in DirIndexes : m.dir[d][k] # NotPresent},
                           j \in TabIndexes} \ {NotPresent}

\* Mutant: the new directory is a copy of the kernel's.
vmm_copy_kernel_page_directory(m) ==
  LET a == pmm_intr_alloc_page(m)
  IN  IF a.ret = NULL THEN a
      ELSE Result(write_page_directory(a.mem, a.ret, m.dir[KDir]), a.ret)

vmm_create_user_page_directory(m) ==
  LET a == pmm_intr_alloc_page(m)
  IN  IF a.ret = NULL THEN a
      ELSE Result(write_page_directory(a.mem, a.ret, KernelHalf), a.ret)

\* Mutant: the first page of the region is skipped.
vmm_destroy_all_but_first(m, d) ==
  LET freed == {p \in Mapped(m, d) : p > PMM_START /\ p - PMM_START < PagesCount}
  IN  pmm_free_page(bitmap_clear(m, {p - PMM_START : p \in freed}), d)

\* Frees the pages that the directory maps above PMM_START_ADDR; the page of
\* the directory is given to pmm_free_page, which ignores it.
vmm_destroy_user_page_directory(m, d) ==
  LET freed == {p \in Mapped(m, d) : p >= PMM_START /\ p - PMM_START < PagesCount}
  IN  pmm_free_page(bitmap_clear(m, {p - PMM_START : p \in freed}), d)

vmm_va2pa(m, d, va) ==
  IF m.dir[d][PDX(va)] = NotPresent THEN NULL
  ELSE IF m.tab[m.dir[d][PDX(va)]][PTX(va)] = NotPresent THEN NULL
  ELSE m.tab[m.dir[d][PDX(va)]][PTX(va)]

\* Returns the table that holds the entry of va, made if it was missing.
vmm_walk_pgdir(m, d, va) ==
  LET a == pmm_intr_alloc_page(m)
  IN  IF m.dir[d][PDX(va)] # NotPresent THEN Result(m, m.dir[d][PDX(va)])
      ELSE IF a.ret = NULL THEN a
      ELSE Result(write_directory_entry(a.mem, d, PDX(va), a.ret), a.ret)

\* Every caller maps one page, so the loop over the pages runs once.
vmm_mappage(m, d, va, pa) ==
  LET w == vmm_walk_pgdir(m, d, va)
  IN  IF w.ret = NULL THEN Result(w.mem, -1)
      ELSE Result(write_table_entry(w.mem, w.ret, PTX(va), pa), 0)

-----------------------------------------------------------------------------
(* What a memory record is, and the terms in which its owners speak of it *)

PanicTexts == {"none", "Failed allocate page table", "Page already allocated"}
PageNumbers == KernelPages \union UserPages

MemoryType ==
  [bitmap      : SUBSET Bits,
   intr_bitmap : SUBSET IntrBits,
   dir         : [Directories -> [DirIndexes -> Tables \union {NotPresent}]],
   tab         : [Tables -> [TabIndexes -> PageNumbers \union {NotPresent}]],
   panic       : PanicTexts]

\* The pages that are not free.
Marked(m) == {PMM_START + i : i \in m.bitmap}

\* Entry i of directory d refers to a table of its own, not to the two of
\* the kernel that every directory shares.
OwnTable(m, d, i) == m.dir[d][i] \notin {NotPresent, KTab1, KTab2}

FrameMarked(m, f) == f - PMM_INTR_START \in m.intr_bitmap

\* A page of the pool is a directory of ds, or one table of one directory.
OneUse(m, ds) ==
  /\ \A d \in ds : FrameMarked(m, d)
  /\ \A d \in Directories, i \in DirIndexes :
       OwnTable(m, d, i) =>
         /\ FrameMarked(m, m.dir[d][i])
         /\ m.dir[d][i] \notin ds
         /\ \A e \in Directories, j \in DirIndexes :
              m.dir[e][j] = m.dir[d][i] => e = d /\ j = i

=============================================================================
