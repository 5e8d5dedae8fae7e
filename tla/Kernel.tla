------------------------------- MODULE Kernel -------------------------------
(***************************************************************************)
(* The one CPU of the kernel from the end of kmain on: kmain creates the   *)
(* processes and starts the scheduler, a process runs and makes system     *)
(* calls, and the timer and the keyboard interrupt wherever IF allows it.  *)
(*                                                                         *)
(* A step of kmain, of schedule() or of a system call is one statement;    *)
(* an interrupt handler runs with IF clear, so it is one step.  A process  *)
(* runs in ring 0 on its own page at KERNEL_STACK_BASE, the address of the *)
(* stack of every process: loading another directory replaces the stack    *)
(* under the code that does it.                                            *)
(*                                                                         *)
(* Left out: the ticks before scheduler_init, which return at once, and    *)
(* the write call, which changes the screen only.                          *)
(***************************************************************************)
EXTENDS Process, FiniteSetsExt

CONSTANT MaxUnread   \* bound: keys that wait in the keyboard buffer

ASSUME KernelAssumption == MaxUnread \in Nat

VARIABLES
  pc,                  \* the statement the CPU is at
  i,                   \* the loop variable of schedule()
  prev,                \* the local variable of schedule()
  current_process,     \* a slot, or None
  scheduler_running,
  cr3,                 \* the directory that is loaded
  stack,               \* the page that holds the frames of the running code
  IF_,                 \* the interrupt flag
  saved_IF,            \* IF in the EFLAGS that the system call saved
  in_service,          \* interrupts the PIC waits to be acknowledged
  unread               \* keys in the keyboard buffer

cpu == <<pc, i, prev, current_process, scheduler_running, cr3, stack>>
irq == <<IF_, saved_IF, in_service>>
table == <<mem, ptable, next_pid, withheld>>
vars == <<table, cpu, irq, unread>>

None == -1
BootStack == 0        \* the kernel's first stack, in a page every directory maps
TIMER == 0
KEYBOARD == 1

\* for (;;), or code that nobody wrote: the CPU does nothing more of interest.
Stopped == {"halted", "panicked", "wild", "triple_fault"}

Init ==
  /\ ProcessInit
  /\ pc = "kmain"
  /\ i = 0
  /\ prev = None
  /\ current_process = None
  /\ scheduler_running = FALSE
  /\ cr3 = KDir
  /\ stack = BootStack
  /\ IF_ = TRUE
  /\ saved_IF = FALSE
  /\ in_service = {}
  /\ unread = 0

-----------------------------------------------------------------------------
(* The stack under a change of directory *)

\* Where the frames of the running code are seen through directory d.
Seen(m, d) == IF stack = BootStack THEN BootStack ELSE vmm_va2pa(m, d, KERNEL_STACK_BASE)

\* The function that loaded d returns to its caller when its frames are where
\* they were, to whatever the other page holds when they are not, and cannot
\* even take the page fault when no page is there.
AfterLoad(m, d, next) ==
  IF Seen(m, d) = stack THEN next
  ELSE IF Seen(m, d) = NULL THEN "triple_fault" ELSE "wild"

-----------------------------------------------------------------------------
(* kmain *)

\* kmain makes one process; the table has room for more.
kmain_create ==
  /\ pc = "kmain"
  /\ next_pid <= MaxPid
  /\ process_create
  /\ pc' = IF Panicked(mem') THEN "panicked" ELSE pc
  /\ UNCHANGED <<withheld, i, prev, current_process, scheduler_running, cr3, stack, irq, unread>>

scheduler_init ==
  /\ pc = "kmain"
  /\ next_pid > 1
  /\ scheduler_running' = ~scheduler_running
  /\ i' = 0
  /\ pc' = "scan"
  /\ UNCHANGED <<table, prev, current_process, cr3, stack, irq, unread>>

-----------------------------------------------------------------------------
(* schedule(), from scheduler_init and from syscall_exit *)

Runnable == {s \in Slots : ptable[s].state = RUNNABLE}
Directory(s) == ptable[s].page_directory

schedule_take ==
  LET ready == {s \in Runnable : s >= i}
  IN  /\ pc = "scan"
      /\ scheduler_running
      /\ ready # {}
      /\ i' = Min(ready)
      /\ prev' = current_process
      /\ current_process' = Min(ready)
      /\ pc' = "mark"
      /\ UNCHANGED <<table, scheduler_running, cr3, stack, irq, unread>>

schedule_mark ==
  /\ pc = "mark"
  /\ ptable' = [ptable EXCEPT ![current_process].state = RUNNING]
  /\ pc' = "load"
  /\ UNCHANGED <<mem, next_pid, withheld, i, prev, current_process, scheduler_running, cr3,
                 stack, irq, unread>>

\* Mutant: the directory of the process is not loaded.
schedule_load_dropped ==
  /\ pc = "load"
  /\ pc' = "switch"
  /\ UNCHANGED <<table, i, prev, current_process, scheduler_running, cr3, stack, irq, unread>>

schedule_load ==
  /\ pc = "load"
  /\ cr3' = Directory(current_process)
  /\ pc' = AfterLoad(mem, cr3', "switch")
  /\ UNCHANGED <<table, i, prev, current_process, scheduler_running, stack, irq, unread>>

\* switch_context(NULL, ...) leaves the old context behind for good.
schedule_switch ==
  /\ pc = "switch"
  /\ IF prev = None
     THEN /\ stack' = vmm_va2pa(mem, cr3, KERNEL_STACK_BASE)
          /\ pc' = "user"
          /\ UNCHANGED i
     ELSE /\ i' = i + 1
          /\ pc' = "scan"
          /\ UNCHANGED stack
  /\ UNCHANGED <<table, prev, current_process, scheduler_running, cr3, irq, unread>>

\* Mutant: the loop starts again when it finds no process.
schedule_wrap ==
  /\ pc = "scan"
  /\ \A s \in Runnable : s < i
  /\ i' = 0
  /\ UNCHANGED <<table, pc, prev, current_process, scheduler_running, cr3, stack, irq, unread>>

schedule_halt ==
  /\ pc = "scan"
  /\ scheduler_running
  /\ \A s \in Runnable : s < i
  /\ scheduler_running' = FALSE
  /\ pc' = "halted"
  /\ UNCHANGED <<table, i, prev, current_process, cr3, stack, irq, unread>>

-----------------------------------------------------------------------------
(* Interrupts *)

Interruptible(n) ==
  /\ pc \notin Stopped
  /\ IF_
  /\ \A k \in in_service : n < k

\* timer_handler while the scheduler runs: schedule() in the handler, to its
\* end, on the stack it interrupted.  It never returns, so the timer is never
\* acknowledged and IF stays clear.  (Before scheduler_init it returns at once.)
timer_handler ==
  LET first  == {s \in Runnable : s = Min(Runnable)}
      lost   == {s \in Runnable : AfterLoad(mem, Directory(s), "back") # "back"}
      taken  == IF current_process = None THEN first
                ELSE {s \in Runnable : \A r \in lost : s <= r}
      last   == Max(taken)
      enters == taken # {} /\ current_process = None /\ last \notin lost
  IN  /\ Interruptible(TIMER)
      /\ scheduler_running
      /\ in_service' = in_service \union {TIMER}
      /\ IF_' = FALSE
      /\ ptable' = [s \in Slots |->
           IF s \in taken THEN [ptable[s] EXCEPT !.state = RUNNING] ELSE ptable[s]]
      /\ current_process' = IF taken = {} THEN current_process ELSE last
      /\ cr3' = IF taken = {} THEN cr3 ELSE Directory(last)
      /\ pc' = IF enters THEN "user" ELSE IF taken \intersect lost # {} THEN "wild" ELSE "halted"
      /\ scheduler_running' = (pc' # "halted")
      /\ stack' = IF enters THEN vmm_va2pa(mem, cr3', KERNEL_STACK_BASE) ELSE stack
      /\ UNCHANGED <<mem, next_pid, withheld, i, prev, saved_IF, unread>>

\* keyboard_handler, acknowledged when it returns; Keyboard has its details.
keyboard_handler ==
  /\ Interruptible(KEYBOARD)
  /\ unread < MaxUnread
  /\ unread' = unread + 1
  /\ UNCHANGED <<table, cpu, irq>>

-----------------------------------------------------------------------------
(* System calls of the running process *)

\* int 0x80 clears IF, keyboard_getchar sets it.
syscall_read ==
  /\ pc = "user"
  /\ saved_IF' = IF_
  /\ IF_' = TRUE
  /\ pc' = "read_wait"
  /\ UNCHANGED <<table, i, prev, current_process, scheduler_running, cr3, stack, in_service,
                 unread>>

\* Mutant: the loop waits while there is a single key.
getchar_take_late ==
  /\ pc = "read_wait"
  /\ unread > 1
  /\ unread' = unread - 1
  /\ pc' = "read_echo"
  /\ UNCHANGED <<table, i, prev, current_process, scheduler_running, cr3, stack, irq>>

\* Mutant: nothing waits for a key.
getchar_take_early ==
  /\ pc = "read_wait"
  /\ unread' = unread - 1
  /\ pc' = "read_echo"
  /\ UNCHANGED <<table, i, prev, current_process, scheduler_running, cr3, stack, irq>>

getchar_take ==
  /\ pc = "read_wait"
  /\ unread > 0
  /\ unread' = unread - 1
  /\ pc' = "read_echo"
  /\ UNCHANGED <<table, i, prev, current_process, scheduler_running, cr3, stack, irq>>

\* tty_putchar and cli; iret brings back the flags of the process.
getchar_return ==
  /\ pc = "read_echo"
  /\ IF_' = saved_IF
  /\ pc' = "user"
  /\ UNCHANGED <<table, i, prev, current_process, scheduler_running, cr3, stack, saved_IF,
                 in_service, unread>>

\* Mutant: the stack is not mapped in the kernel's directory.
syscall_exit_unmapped ==
  /\ pc = "user"
  /\ saved_IF' = IF_
  /\ IF_' = FALSE
  /\ cr3' = KDir
  /\ pc' = AfterLoad(mem, KDir, "exit_terminate")
  /\ UNCHANGED <<table, i, prev, current_process, scheduler_running, stack, in_service, unread>>

\* Mutant: the process exits in its own directory.
syscall_exit_in_place ==
  /\ pc = "user"
  /\ saved_IF' = IF_
  /\ IF_' = FALSE
  /\ pc' = "exit_terminate"
  /\ UNCHANGED <<table, i, prev, current_process, scheduler_running, cr3, stack, in_service, unread>>

\* syscall_exit: the stack is mapped in the kernel's directory (the result of
\* vmm_mappage is not looked at), then that directory is loaded.
syscall_exit ==
  /\ pc = "user"
  /\ saved_IF' = IF_
  /\ IF_' = FALSE
  /\ mem' = vmm_mappage(mem, KDir, KERNEL_STACK_BASE, ptable[current_process].kernel_stack).mem
  /\ cr3' = KDir
  /\ pc' = AfterLoad(mem', KDir, "exit_terminate")
  /\ UNCHANGED <<ptable, next_pid, withheld, i, prev, current_process, scheduler_running,
                 stack, in_service, unread>>

exit_terminate ==
  /\ pc = "exit_terminate"
  /\ process_terminate(current_process)
  /\ IF_' = IF Terminates(current_process) THEN TRUE ELSE IF_
  /\ pc' = "exit_clear"
  /\ UNCHANGED <<next_pid, withheld, i, prev, current_process, scheduler_running, cr3, stack,
                 saved_IF, in_service, unread>>

\* current_process = NULL and the call of yield().
exit_clear ==
  /\ pc = "exit_clear"
  /\ current_process' = None
  /\ i' = 0
  /\ pc' = "scan"
  /\ UNCHANGED <<table, prev, scheduler_running, cr3, stack, irq, unread>>

-----------------------------------------------------------------------------

\* What the CPU does by itself, once it is at the statement.
CpuStep ==
  \/ schedule_take \/ schedule_mark \/ schedule_load \/ schedule_switch \/ schedule_halt
  \/ getchar_take \/ getchar_return
  \/ exit_terminate \/ exit_clear

Next ==
  \/ kmain_create \/ scheduler_init
  \/ CpuStep
  \/ syscall_read \/ syscall_exit
  \/ timer_handler \/ keyboard_handler

\* The CPU goes on to the next statement unless an interrupt handler that
\* never returns takes it; interrupts and system calls may never come.
Spec == Init /\ [][Next]_vars /\ WF_vars(CpuStep)

-----------------------------------------------------------------------------
(* Properties *)

TypeOK ==
  /\ ptable \in [Slots -> [state : {UNUSED, RUNNABLE, RUNNING}, pid : 0 .. MaxPid,
                           page_directory : Frames \union {NULL},
                           kernel_stack : UserPages \union {NULL}]]
  /\ next_pid \in 1 .. MaxPid + 1
  /\ pc \in {"kmain", "scan", "mark", "load", "switch", "user", "read_wait", "read_echo",
             "exit_terminate", "exit_clear"} \union Stopped
  /\ i \in 0 .. MAX_PROCESSES
  /\ prev \in Slots \union {None} /\ current_process \in Slots \union {None}
  /\ scheduler_running \in BOOLEAN /\ IF_ \in BOOLEAN /\ saved_IF \in BOOLEAN
  /\ cr3 \in Directories
  /\ stack \in UserPages \union {BootStack}
  /\ in_service \in SUBSET {TIMER, KEYBOARD}
  /\ unread \in 0 .. MaxUnread

InProcess == pc \in {"user", "read_wait", "read_echo"}

\* Whenever the code of a process or a system call it waits in runs, it is
\* that of current_process, marked RUNNING, in its own address space and on
\* its own stack, however the schedule() that started it was interrupted; and
\* while the code runs on as written, no other process is marked, which would
\* then never run.  (schedule, timer_handler, switch_context)
RunsInOwnSpace ==
  /\ InProcess =>
       /\ current_process # None
       /\ ptable[current_process].state = RUNNING
       /\ cr3 = Directory(current_process)
       /\ stack = ptable[current_process].kernel_stack
  /\ pc \notin Stopped =>
       \A s \in Slots : ptable[s].state = RUNNING => s = current_process

\* The CPU never goes on with a directory that process_terminate destroyed.
\* (syscall_exit loads the kernel's first; pages of the old one are free.)
LoadedDirectoryLives ==
  cr3 # KDir => \E s \in Slots : Live(s) /\ Directory(s) = cr3

\* Only slot 0 was ever used: what kmain does.
OneProcess == \A s \in Slots \ {0} : ptable[s].pid = 0

\* With one process the code never returns through a stack that is not its
\* own, and loses its stack only when syscall_exit finds the pool empty: there
\* is no page for the table that maps the stack in the kernel's directory, and
\* nobody looks at that.  (scheduler.c:26, syscall.c:54, vmm.c:186)
KeepsItsStack ==
  OneProcess =>
    /\ pc # "wild"
    /\ pc = "triple_fault" => cr3 = KDir /\ mem.intr_bitmap = IntrBits

\* schedule() comes to an end: a process runs or the system is halted.
ScheduleEnds == pc = "scan" ~> pc \in {"user"} \union Stopped

\* A process that waits for a key can be given one, unless a tick that never
\* returned started it: the PIC then holds the keyboard back for ever.  And
\* once a key is there the process goes on, unless the timer halts the system
\* first.  (irq.c:69, keyboard_getchar)
ReadEnds ==
  /\ [](pc = "read_wait" => Interruptible(KEYBOARD) = (TIMER \notin in_service))
  /\ pc = "read_wait" /\ unread > 0 ~> pc \in {"user"} \union Stopped

\* The exit of the only process ends with the system halted, no process left
\* and every page free, on the stack that was freed and wherever the timer
\* falls.  (syscall_exit, process_terminate, schedule)
ExitLeavesNothing ==
  pc = "exit_terminate" /\ OneProcess ~>
    pc = "halted" /\ mem.bitmap = withheld.bits /\ \A s \in Slots : ~Live(s)

\* "Reason: There is not a single running process" (scheduler.c:36): when the
\* system is halted, no process is running or can run.
HaltReasonIsTrue == pc = "halted" => \A s \in Slots : ptable[s].state \notin {RUNNABLE, RUNNING}

=============================================================================
