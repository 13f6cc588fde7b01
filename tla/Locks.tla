-------------------------------- MODULE Locks --------------------------------
(***************************************************************************)
(* Spinlocks, the IRQ mask and preemption on one CPU: heap_lock of         *)
(* kmalloc.c, which is taken with interrupts as they are, proc_table_lock, *)
(* which is taken with spin_lock_irqsave, and the places of process.c that *)
(* mask interrupts by hand and switch contexts under the mask.             *)
(*                                                                         *)
(* Process models what the calls do to the process table; here a process   *)
(* is created once, READY, and the steps are as small as the locks and the *)
(* mask can tell.  `arch' selects the build: on arm64 the timer IRQ        *)
(* switches processes, on x86_64 it does not.  masked[t] is PSTATE.I or    *)
(* not RFLAGS.IF, in the CPU for the running thread and in its saved       *)
(* context for the others; every switch restores it.                       *)
(*                                                                         *)
(* The names that every module has carry this module's, as KernelProofs    *)
(* extends it together with Vm.                                            *)
(***************************************************************************)
EXTENDS Integers, Sequences, FiniteSets, SequencesExt

CONSTANTS
  MAX_PROCESSES,    \* slots, each with one process
  Parent            \* Parent[p]: the process that spawned p, or the kernel

Slots == 1 .. MAX_PROCESSES
Kernel == 0
Threads == {Kernel} \cup Slots
Nobody == -1

ASSUME LocksAssumption ==
  /\ MAX_PROCESSES \in Nat \ {0}
  /\ Parent \in [Slots -> Threads]
  /\ \A p \in Slots : Parent[p] < p

VARIABLES
  arch,
  state,            \* proc_table[p].state: READY, RUNNING or FREE
  cur,              \* current_pid
  masked, pc,
  flags,            \* what spin_lock_irqsave returned
  todo,             \* the processes the thread is about to kill
  exiting,          \* the thread is in process_exit
  stacks,           \* the slots whose stack_base is not NULL
  heap_lock, proc_table_lock,
  scheduled         \* history: the process has been through process_schedule

lockVars == <<arch, state, stacks, cur, masked, pc, flags, todo, exiting, heap_lock,
              proc_table_lock, scheduled>>

locks == <<heap_lock, proc_table_lock>>
private == <<flags, todo, exiting>>
build == <<arch, stacks>>

Ready == {p \in Slots : state[p] = "READY"}

\* n is the first of S in the order of the round robin after t.
FirstFrom(t, S, n) ==
  LET Turn(p) == (p - t - 1 + MAX_PROCESSES) % MAX_PROCESSES
  IN  n \in S /\ \A p \in S : Turn(n) <= Turn(p)

Go(t, l) == pc' = [pc EXCEPT ![t] = l]

-----------------------------------------------------------------------------
(* The heap's lock.                                                        *)

\* A program, or the kernel's main loop, allocates or frees.
CallHeap(t) ==
  /\ cur = t /\ pc[t] = "run"
  /\ Go(t, "lock")
  /\ UNCHANGED <<build, state, cur, masked, private, locks, scheduled>>

\* lock_heap: the test-and-set succeeds; as long as it does not the thread spins.
lock_heap(t) ==
  /\ cur = t /\ pc[t] = "lock" /\ heap_lock = Nobody
  /\ heap_lock' = t
  /\ Go(t, "heap")
  /\ UNCHANGED <<build, state, cur, masked, private, proc_table_lock, scheduled>>

\* Mutant: a block that is killed is freed without unlock.
unlock_heap_not(t) ==
  /\ cur = t /\ pc[t] = "heap"
  /\ heap_lock' = IF todo[t] = <<>> THEN Nobody ELSE heap_lock
  /\ Go(t, IF todo[t] = <<>> THEN "run" ELSE "dead")
  /\ UNCHANGED <<build, state, cur, masked, private, proc_table_lock, scheduled>>

unlock_heap(t) ==
  /\ cur = t /\ pc[t] = "heap"
  /\ heap_lock' = Nobody
  /\ Go(t, IF todo[t] = <<>> THEN "run" ELSE "dead")
  /\ UNCHANGED <<build, state, cur, masked, private, proc_table_lock, scheduled>>

-----------------------------------------------------------------------------
(* The process table's lock.                                               *)

\* Mutant: spin_lock instead of spin_lock_irqsave.
CallTableUnmasked(t) ==
  /\ cur = t /\ pc[t] = "run"
  /\ flags' = [flags EXCEPT ![t] = masked[t]]
  /\ Go(t, "tlock")
  /\ UNCHANGED <<build, state, cur, masked, todo, exiting, locks, scheduled>>

\* process_get, process_count_ready, process_create: spin_lock_irqsave masks
\* interrupts first.
CallTable(t) ==
  /\ cur = t /\ pc[t] = "run"
  /\ flags' = [flags EXCEPT ![t] = masked[t]]
  /\ masked' = [masked EXCEPT ![t] = TRUE]
  /\ Go(t, "tlock")
  /\ UNCHANGED <<build, state, cur, todo, exiting, locks, scheduled>>

spin_lock(t) ==
  /\ cur = t /\ pc[t] = "tlock" /\ proc_table_lock = Nobody
  /\ proc_table_lock' = t
  /\ Go(t, "table")
  /\ UNCHANGED <<build, state, cur, masked, private, heap_lock, scheduled>>

spin_unlock(t) ==
  /\ cur = t /\ pc[t] = "table"
  /\ proc_table_lock' = Nobody
  /\ Go(t, "unmask")
  /\ UNCHANGED <<build, state, cur, masked, private, heap_lock, scheduled>>

arch_irq_restore_local(t) ==
  /\ cur = t /\ pc[t] = "unmask"
  /\ masked' = [masked EXCEPT ![t] = flags[t]]
  /\ Go(t, "run")
  /\ UNCHANGED <<build, state, cur, private, locks, scheduled>>

-----------------------------------------------------------------------------
(* Switching.                                                              *)

Switched(t, n) ==
  [p \in Slots |-> IF p = n THEN "RUNNING"
                   ELSE IF p = t /\ state[p] = "RUNNING" THEN "READY" ELSE state[p]]

\* process_yield marks the process READY before interrupts are masked.
process_yield(t) ==
  /\ cur = t /\ pc[t] = "run" /\ t # Kernel
  /\ state' = [state EXCEPT ![t] = "READY"]
  /\ Go(t, "yield")
  /\ UNCHANGED <<build, cur, masked, private, locks, scheduled>>

CallsSchedule(t) == cur = t /\ pc[t] = IF t = Kernel THEN "run" ELSE "yield"

\* process_schedule masks interrupts and switches to the next READY process.
\* The context of t is saved with the mask set.
ScheduleSwitch(t) ==
  /\ CallsSchedule(t)
  /\ \E n \in Ready : /\ FirstFrom(t, Ready, n) /\ n # t
                      /\ state' = Switched(t, n)
                      /\ cur' = n
  /\ masked' = [masked EXCEPT ![t] = TRUE]
  /\ scheduled' = scheduled \cup {t}
  /\ Go(t, "sched")
  /\ UNCHANGED <<build, private, locks>>

\* Nobody else is READY: unmask, and return after arch_idle.
ScheduleStay(t) ==
  /\ CallsSchedule(t)
  /\ Ready \subseteq {t}
  /\ state' = [p \in Slots |-> IF p = t THEN "RUNNING" ELSE state[p]]
  /\ masked' = [masked EXCEPT ![t] = FALSE]
  /\ scheduled' = scheduled \cup {t}
  /\ Go(t, "run")
  /\ UNCHANGED <<build, cur, private, locks>>

\* Mutant: the thread returns without unmasking.
ResumeMasked(t) ==
  /\ cur = t /\ pc[t] = "sched"
  /\ Go(t, "run")
  /\ UNCHANGED <<build, state, cur, masked, private, locks, scheduled>>

\* The thread is switched back to, behind switch_context, and unmasks.
Resume(t) ==
  /\ cur = t /\ pc[t] = "sched"
  /\ masked' = [masked EXCEPT ![t] = FALSE]
  /\ Go(t, "run")
  /\ UNCHANGED <<build, state, cur, private, locks, scheduled>>

\* The timer IRQ.  process_schedule_from_irq takes proc_table_lock in the
\* handler, then switches as process_schedule does.  The kernel's context is
\* saved with the link register in place of the interrupted address, so that it
\* does not go on where it was.
TimerIrq(t) ==
  /\ arch = "arm64" /\ cur = t /\ ~masked[t] /\ proc_table_lock = Nobody
  /\ t # Kernel => \E p \in Slots \ {t} : state[p] # "FREE"
  /\ \E n \in Ready : /\ FirstFrom(t, Ready, n) /\ n # t
                      /\ state' = Switched(t, n)
                      /\ cur' = n
  /\ pc' = [pc EXCEPT ![t] = IF t = Kernel THEN "astray" ELSE @]
  /\ UNCHANGED <<build, masked, private, locks, scheduled>>

-----------------------------------------------------------------------------
(* Exit and kill.  A killed process's stack is freed under heap_lock.      *)

\* The processes below p: its live children, their live children and so on.
Below(p) ==
  LET Closed(S) ==
        \A q \in Slots : state[q] # "FREE" /\ Parent[q] \in S \cup {p} => q \in S
  IN  {q \in Slots : \A S \in SUBSET Slots : Closed(S) => q \in S}

Victims(p) == Below(p) \ {cur}

\* The work stack of kill_children comes to each of S once, to a parent before
\* its children.
KillOrders(S) ==
  {s \in SeqOf(S, MAX_PROCESSES) :
     /\ ToSet(s) = S /\ Len(s) = Cardinality(S)
     /\ \A i, j \in 1 .. Len(s) : Parent[s[j]] = s[i] => i < j}

process_exit(t) ==
  /\ cur = t /\ pc[t] = "run" /\ t # Kernel
  /\ masked' = [masked EXCEPT ![t] = TRUE]
  /\ exiting' = [exiting EXCEPT ![t] = TRUE]
  /\ \E s \in KillOrders(Victims(t)) : todo' = [todo EXCEPT ![t] = s]
  /\ Go(t, "kill")
  /\ UNCHANGED <<build, state, cur, flags, locks, scheduled>>

process_kill(t, v) ==
  /\ cur = t /\ pc[t] = "run" /\ t # Kernel
  /\ v # t /\ state[v] # "FREE"
  /\ \E s \in KillOrders(Victims(v)) : todo' = [todo EXCEPT ![t] = Append(s, v)]
  /\ Go(t, "kill")
  /\ UNCHANGED <<build, state, cur, masked, flags, exiting, locks, scheduled>>

\* kill_children passes over a child that is FREE by now; process_kill does not
\* look again at the one it was called for.
Passed(t) ==
  state[Head(todo[t])] = "FREE" /\ (exiting[t] \/ Len(todo[t]) > 1)

SkipFree(t) ==
  /\ cur = t /\ pc[t] = "kill" /\ todo[t] # <<>> /\ Passed(t)
  /\ todo' = [todo EXCEPT ![t] = Tail(@)]
  /\ UNCHANGED <<build, state, cur, masked, pc, flags, exiting, locks, scheduled>>

\* free() of the next one's stack, if it has one.
FreeStack(t) ==
  /\ cur = t /\ pc[t] = "kill" /\ todo[t] # <<>> /\ ~Passed(t)
  /\ Go(t, IF Head(todo[t]) \in stacks THEN "lock" ELSE "dead")
  /\ UNCHANGED <<build, state, cur, masked, private, locks, scheduled>>

\* Nobody looks at the context of a process that is FREE: it is forgotten.  What
\* it has locked stays locked.
Forget(v, place) ==
  /\ pc' = [place EXCEPT ![v] = "gone"]
  /\ masked' = [masked EXCEPT ![v] = FALSE]
  /\ flags' = [flags EXCEPT ![v] = FALSE]
  /\ exiting' = [exiting EXCEPT ![v] = FALSE]
  /\ scheduled' = scheduled \ {v}
  /\ state' = [state EXCEPT ![v] = "FREE"]

\* Its slot becomes FREE once the stack is freed.
MarkFree(t) ==
  LET v == Head(todo[t])
  IN  /\ cur = t /\ pc[t] = "dead"
      /\ stacks' = stacks \ {v}
      /\ todo' = [todo EXCEPT ![t] = Tail(@), ![v] = <<>>]
      /\ Forget(v, [pc EXCEPT ![t] = "kill"])
      /\ UNCHANGED <<arch, cur, locks>>

\* All are dead: process_kill returns, process_exit switches to the kernel.
KillDone(t) ==
  /\ cur = t /\ pc[t] = "kill" /\ todo[t] = <<>>
  /\ IF exiting[t]
     THEN cur' = Kernel /\ Forget(t, pc)
     ELSE Go(t, "run") /\ UNCHANGED <<state, cur, masked, flags, exiting, scheduled>>
  /\ UNCHANGED <<build, todo, locks>>

-----------------------------------------------------------------------------

\* process_create leaves a READY process whose saved flags mask interrupts on
\* arm64 (0x3c5) and not on x86_64 (0x202); process_entry_wrapper, where it
\* starts, goes straight to the program.
LocksInit ==
  /\ arch \in {"arm64", "x86_64"}
  /\ state = [p \in Slots |-> "READY"]
  /\ stacks = Slots
  /\ cur = Kernel
  /\ masked = [t \in Threads |-> t # Kernel /\ arch = "arm64"]
  /\ pc = [t \in Threads |-> "run"]
  /\ flags = [t \in Threads |-> FALSE]
  /\ todo = [t \in Threads |-> <<>>]
  /\ exiting = [t \in Threads |-> FALSE]
  /\ heap_lock = Nobody /\ proc_table_lock = Nobody
  /\ scheduled = {}

\* What a thread does next without choice, once it is in a call.
Continue(t) ==
  \/ lock_heap(t) \/ unlock_heap(t) \/ spin_lock(t) \/ spin_unlock(t)
  \/ arch_irq_restore_local(t) \/ Resume(t) \/ SkipFree(t) \/ FreeStack(t)
  \/ MarkFree(t) \/ KillDone(t)
  \/ pc[t] = "yield" /\ (ScheduleSwitch(t) \/ ScheduleStay(t))
  \/ t = Kernel /\ (ScheduleSwitch(t) \/ ScheduleStay(t))

\* What the program decides to call.
Call(t) ==
  \/ CallHeap(t) \/ CallTable(t) \/ process_yield(t) \/ process_exit(t)
  \/ \E v \in Slots : process_kill(t, v)

Timer == \E t \in Threads : TimerIrq(t)

LocksNext == Timer \/ \E t \in Threads : Continue(t) \/ Call(t)

LocksSpec == LocksInit /\ [][LocksNext]_lockVars

\* A thread executes whenever it has the CPU, however often it is interrupted,
\* and a pending timer IRQ is taken when interrupts are unmasked.  Nothing says
\* that a program ever makes another call.
FairSpec == LocksSpec /\ SF_lockVars(Timer) /\ \A t \in Threads : SF_lockVars(Continue(t))

-----------------------------------------------------------------------------
(* Properties.                                                             *)

\* Every variable keeps its type; the contexts wait and run at known places.
LocksTypeOK ==
  /\ arch \in {"arm64", "x86_64"}
  /\ state \in [Slots -> {"READY", "RUNNING", "FREE"}]
  /\ stacks \subseteq Slots /\ cur \in Threads
  /\ masked \in [Threads -> BOOLEAN] /\ flags \in [Threads -> BOOLEAN]
  /\ todo \in [Threads -> Seq(Slots)] /\ exiting \in [Threads -> BOOLEAN]
  /\ heap_lock \in Threads \cup {Nobody}
  /\ proc_table_lock \in Threads \cup {Nobody}
  /\ pc \in [Threads -> {"run", "lock", "heap", "tlock", "table", "unmask", "yield",
                         "sched", "kill", "dead", "gone", "astray"}]

\* The handler of the timer never waits for a lock that the thread it interrupted
\* holds, as the comment on the IRQ-safe variants promises (spinlock.c:148): when
\* an interrupt can come, proc_table_lock is free.
HandlerFindsLockFree == ~masked[cur] => proc_table_lock = Nobody

\* Whoever masked interrupts to switch contexts, the thread that comes back
\* unmasks (process.c:524): a process that has once been through
\* process_schedule runs its own code, and waits for a lock that it did not mask
\* for, with interrupts enabled, through every mixture of yields, preemptions,
\* exits and kills by others.
InterruptsComeBack ==
  \A t \in scheduled :
    cur = t /\ pc[t] \in {"run", "lock", "heap"} /\ ~exiting[t] => ~masked[t]

\* The holder was killed, or is the kernel and lost its place (TimerIrq).
StrandedHolder ==
  \/ heap_lock \in Slots /\ state[heap_lock] = "FREE"
  \/ heap_lock = Kernel /\ pc[Kernel] = "astray"

\* heap_lock is never held for ever, unless its holder cannot go on, or the CPU
\* stays with a thread that has interrupts masked (a new process on
\* arm64, or process_exit that frees a child's stack): then the holder cannot run
\* to release it (kmalloc.c:55).  On x86_64 none of this happens.
HeapReleased ==
  \/ []<>(heap_lock = Nobody)
  \/ arch = "arm64" /\ <>(StrandedHolder \/ [](masked[cur]))

\* Without preemption no thread ever waits for the heap at all: the lock is free
\* whenever another thread gets the CPU (process.c:437).
NoContentionOnX86 == arch = "x86_64" /\ pc[cur] = "lock" => heap_lock = Nobody

\* A lock is never found taken where nobody could give it back: by the timer's
\* handler, or by any thread of the build without preemption.
LockFreeWhenNeeded == LocksTypeOK /\ HandlerFindsLockFree /\ NoContentionOnX86

\* "Preemptive multitasking - timer IRQ forces context switches" (process.c:4): on
\* arm64 a READY process gets the CPU or is killed.
EveryReadyRuns ==
  arch = "arm64" =>
    \A p \in Slots : state[p] = "READY" ~> state[p] # "READY"
=============================================================================
