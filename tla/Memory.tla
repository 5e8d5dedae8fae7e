------------------------------- MODULE Memory -------------------------------
(***************************************************************************)
(* The page allocator and the page tables as a component: kernel code that *)
(* calls the functions of pmm.h and vmm.h in any legal order.  A call runs *)
(* to its end before the next one starts (no interrupt handler calls into  *)
(* this component while another call is under way).                        *)
(***************************************************************************)
EXTENDS Pages

VARIABLES
  mem,     \* bitmap, intr_bitmap, directories, tables, and whether kpanic ran
  held,    \* the pages that pmm_alloc_page returned and that were not freed
  dirs,    \* the user directories created and not destroyed
  given    \* the held pages that callers mapped, by directory

vars == <<mem, held, dirs, given>>

Init ==
  /\ mem = InitialMemory
  /\ held = {}
  /\ dirs = {}
  /\ given = [d \in Frames |-> {}]

\* kpanic never returns: no call follows one that panicked.
Alive == ~Panicked(mem)

\* A page that its owner has and mapped nowhere.
Unmapped(p) == p \in held /\ \A d \in Frames : p \notin given[d]

AllocPage ==
  LET a == pmm_alloc_page(mem)
  IN  /\ Alive
      /\ mem' = a.mem
      /\ held' = IF a.ret = NULL \/ Panicked(a.mem) THEN held ELSE held \union {a.ret}
      /\ UNCHANGED <<dirs, given>>

\* A caller frees a page that it has and that no directory maps.
FreePage(p) ==
  /\ Alive
  /\ Unmapped(p)
  /\ mem' = pmm_free_page(mem, p)
  /\ held' = held \ {p}
  /\ UNCHANGED <<dirs, given>>

CreateDirectory ==
  LET a == vmm_create_user_page_directory(mem)
  IN  /\ Alive
      /\ mem' = a.mem
      /\ dirs' = IF a.ret = NULL THEN dirs ELSE dirs \union {a.ret}
      /\ UNCHANGED <<held, given>>

\* The two pages that process_create maps; a page goes to one directory.
MapPage(d, va, p) ==
  LET r == vmm_mappage(mem, d, va, p)
  IN  /\ Alive
      /\ d \in dirs
      /\ Unmapped(p)
      /\ vmm_va2pa(mem, d, va) = NULL
      /\ mem' = r.mem
      /\ given' = IF r.ret = 0 THEN [given EXCEPT ![d] = @ \union {p}] ELSE given
      /\ UNCHANGED <<held, dirs>>

\* The caller gives up the directory and the pages that it mapped there.
DestroyDirectory(d) ==
  /\ Alive
  /\ d \in dirs
  /\ mem' = vmm_destroy_user_page_directory(mem, d)
  /\ held' = held \ given[d]
  /\ dirs' = dirs \ {d}
  /\ given' = [given EXCEPT ![d] = {}]

\* The first half of the exit of a process: its stack, mapped by its own
\* directory, is mapped by the kernel's.
vmm_switch_kernel_page_directory(kstack) ==
  /\ Alive
  /\ kstack \in held
  /\ \E d \in dirs : vmm_va2pa(mem, d, KERNEL_STACK_BASE) = kstack
  /\ mem' = vmm_mappage(mem, KDir, KERNEL_STACK_BASE, kstack).mem
  /\ UNCHANGED <<held, dirs, given>>

Next ==
  \/ AllocPage
  \/ \E p \in UserPages : FreePage(p)
  \/ CreateDirectory
  \/ \E d \in Frames, va \in {KERNEL_STACK_BASE, USER_PROGRAM_BASE}, p \in UserPages :
       MapPage(d, va, p)
  \/ \E d \in Frames : DestroyDirectory(d)
  \/ \E p \in UserPages : vmm_switch_kernel_page_directory(p)

Spec == Init /\ [][Next]_vars

-----------------------------------------------------------------------------
(* Types *)

\* The shape of the memory record and of the two sets of what callers have.
TypeOK ==
  /\ mem \in MemoryType
  /\ held \in SUBSET UserPages
  /\ dirs \in SUBSET Frames
  /\ given \in [Frames -> SUBSET UserPages]

-----------------------------------------------------------------------------
(* Properties *)

\* The bitmap marks exactly the pages that callers have: no page is free
\* while somebody has it (it could be handed out again) and none stays marked
\* after its last owner gave it back, through pmm_free_page or with a
\* directory.  (pmm_alloc_page, pmm_free_page, vmm_destroy_user_page_directory)
BitmapIsExact == Alive => Marked(mem) = held

\* Every page that a caller has can be reached by the kernel at its own
\* address, as the memset of pmm_alloc_page and the memcpy of process_create
\* need.  The identity entry is written at the start of a new table whatever
\* the index of the page: what saves it is that find_first_page enters every
\* table at its first page.  The region of the kernel stack, whose first
\* entry vmm_switch_kernel_page_directory rewrites, is not covered.
HeldPagesReachable ==
  Alive => \A p \in held :
             PDX(p) # PDX(KERNEL_STACK_BASE) => vmm_va2pa(mem, KDir, p) = p

\* A page of the table pool has one use: it is marked, it is not both a
\* directory and a table, and two directories never share one (destroying
\* one would free the pages of the other).  (pmm_intr_alloc_page,
\* vmm_walk_pgdir, vmm_create_user_page_directory)
FramesHaveOneUse == Alive => OneUse(mem, dirs)

\* What the panic text "Page already allocated" says: pmm_alloc_page meets a
\* present entry only for a page that is allocated.  (pmm.c:99)
AllocatedPagePanicIsTrue == mem.panic # "Page already allocated"

=============================================================================
