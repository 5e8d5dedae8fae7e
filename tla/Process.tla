------------------------------ MODULE Process ------------------------------
(***************************************************************************)
(* The process table of process.c, on top of the memory of Pages.  The two *)
(* operations are actions on the table and on the memory; Kernel runs them *)
(* from kmain and from syscall_exit.                                       *)
(***************************************************************************)
EXTENDS Pages, FiniteSets

CONSTANTS
  MAX_PROCESSES,   \* slots of the process table
  MaxPid,          \* bound: calls of process_create in a behaviour
  Withheld         \* bound: how many pages, and pages of the pool, the memory
                   \* is smaller by; one instance has memories of several sizes

VARIABLES
  mem,        \* bitmaps, page directories, page tables (see Pages)
  ptable,     \* the process table, by slot
  next_pid,
  withheld    \* the last bits of both bitmaps, which are marked from the start

Slots == 0 .. MAX_PROCESSES - 1

ASSUME ProcessAssumption ==
  /\ MAX_PROCESSES \in Nat \ {0} /\ MaxPid \in Nat \ {0}
  /\ Withheld \subseteq (0 .. PagesCount) \X (0 .. IntrPagesCount)

\* EMBRYO is not here: nothing that runs during process_create reads a state.
UNUSED   == "unused"
RUNNABLE == "runnable"
RUNNING  == "running"

\* process_t; the context and the stack pointer are the same for all.
NoProcess == [state |-> UNUSED, pid |-> 0, page_directory |-> NULL, kernel_stack |-> NULL]

ProcessInit ==
  /\ \E n \in Withheld :
       withheld = [bits      |-> {k \in Bits : k + n[1] \notin Bits},
                   intr_bits |-> {k \in IntrBits : k + n[2] \notin IntrBits}]
  /\ mem = [InitialMemory EXCEPT !.bitmap = withheld.bits, !.intr_bitmap = withheld.intr_bits]
  /\ ptable = [s \in Slots |-> NoProcess]
  /\ next_pid = 1

Live(s) == ptable[s].state # UNUSED

-----------------------------------------------------------------------------
(* process_create *)

Space(m, dir, stack, ok) == [mem |-> m, page_directory |-> dir, kernel_stack |-> stack, ok |-> ok]

\* What process_create undoes when a step fails after the stack was taken: the
\* stack is given back twice when it was mapped, by itself and with the
\* directory.
Undo(m, dir, stack) ==
  vmm_destroy_user_page_directory(pmm_free_page(m, stack), dir)

\* The fifth step: r is the result of mapping the code.
CodeMapped(dir, stack, code, r) ==
  IF r.ret = 0 THEN Space(r.mem, dir, stack, TRUE)
  ELSE Space(pmm_free_page(Undo(r.mem, dir, stack), code), dir, stack, FALSE)

\* The fourth step: c is the page of the code.
CodeTaken(dir, stack, c) ==
  IF Panicked(c.mem) THEN Space(c.mem, dir, stack, FALSE)
  ELSE IF c.ret = NULL THEN Space(Undo(c.mem, dir, stack), dir, stack, FALSE)
  ELSE CodeMapped(dir, stack, c.ret, vmm_mappage(c.mem, dir, USER_PROGRAM_BASE, c.ret))

\* The third step: r is the result of mapping the stack.
StackMapped(dir, stack, r) ==
  IF r.ret = 0 THEN CodeTaken(dir, stack, pmm_alloc_page(r.mem))
  ELSE Space(Undo(r.mem, dir, stack), dir, stack, FALSE)

\* The second step: s is the page of the stack.
StackTaken(dir, s) ==
  IF Panicked(s.mem) THEN Space(s.mem, dir, NULL, FALSE)
  ELSE IF s.ret = NULL
  THEN Space(vmm_destroy_user_page_directory(s.mem, dir), dir, NULL, FALSE)
  ELSE StackMapped(dir, s.ret, vmm_mappage(s.mem, dir, KERNEL_STACK_BASE, s.ret))

\* The first step: d is the directory.
DirectoryMade(d) ==
  IF d.ret = NULL THEN Space(d.mem, NULL, NULL, FALSE)
  ELSE StackTaken(d.ret, pmm_alloc_page(d.mem))

\* The directory, the stack and the code of a new process, with every page
\* that was taken given back when a step fails.
BuildSpace(m) == DirectoryMade(vmm_create_user_page_directory(m))

\* The process goes into slot s, or the slot is left unused with what the
\* steps before the one that failed wrote there.
FillSlot(s, b) ==
  /\ mem' = b.mem
  /\ ptable' = [ptable EXCEPT ![s] =
       [state          |-> IF b.ok THEN RUNNABLE ELSE UNUSED,
        pid            |-> next_pid,
        page_directory |-> b.page_directory,
        kernel_stack   |-> b.kernel_stack]]
  /\ next_pid' = next_pid + 1

FirstUnused(s) == ~Live(s) /\ \A r \in Slots : r < s => Live(r)

process_create ==
  \/ /\ \A s \in Slots : Live(s)
     /\ UNCHANGED <<mem, ptable, next_pid>>
  \/ \E s \in Slots : FirstUnused(s) /\ FillSlot(s, BuildSpace(mem))

-----------------------------------------------------------------------------
(* process_terminate *)

\* The loop compares the pid of slot 0 in every round, so it finds slot 0 or
\* nothing: any other process stays as it is.
Terminates(s) == ptable[0].pid = ptable[s].pid

process_terminate(s) ==
  IF Terminates(s)
  THEN /\ ptable' = [ptable EXCEPT ![0].state = UNUSED]
       /\ mem' = vmm_destroy_user_page_directory(mem, ptable[0].page_directory)
  ELSE UNCHANGED <<mem, ptable>>

-----------------------------------------------------------------------------
(* Properties of the table and the memory together *)

\* The pages above PMM_START that a directory maps.
UserMapped(d) == Mapped(mem, d) \intersect UserPages

Stack(s) == vmm_va2pa(mem, ptable[s].page_directory, KERNEL_STACK_BASE)
Code(s)  == vmm_va2pa(mem, ptable[s].page_directory, USER_PROGRAM_BASE)

\* A live process has a stack and a code page of its own, and its directory
\* maps nothing else outside the kernel: not the pages of another process and
\* not the kernel's identity entries.  (process_create)
Isolation ==
  ~Panicked(mem) =>
    \A s \in Slots : Live(s) =>
      /\ Stack(s) = ptable[s].kernel_stack
      /\ Stack(s) # Code(s)
      /\ UserMapped(ptable[s].page_directory) = {Stack(s), Code(s)}
      /\ \A r \in Slots \ {s} : Live(r) =>
           UserMapped(ptable[s].page_directory) \intersect
           UserMapped(ptable[r].page_directory) = {}

\* The marked pages are exactly those of the live processes: a process_create
\* that fails on any of its steps, and a process_terminate, give back every
\* page and no page of anybody else.  Of the table pool nothing is given back,
\* and beyond the kernel's own tables each process_create, whether it fails or
\* not, has cost at most a directory and two tables.  (process_create,
\* process_terminate, process.c:55-66)
KernelTables == Frames \intersect {mem.dir[KDir][x] : x \in DOMAIN mem.dir[KDir]}
PagesAccounted ==
  /\ ~Panicked(mem) =>
       {PMM_START + k : k \in mem.bitmap \ withheld.bits} =
         UNION {{Stack(s), Code(s)} : s \in {r \in Slots : Live(r)}}
  /\ Cardinality(mem.intr_bitmap \ withheld.intr_bits)
       <= Cardinality(KernelTables) + 3 * (next_pid - 1)

=============================================================================
