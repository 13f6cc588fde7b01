------------------------------- MODULE Process -------------------------------
(***************************************************************************)
(* The process table and the scheduler of kernel/core/process.c, with the  *)
(* context switch of kernel/arch/*/switch.S and, on the build with timer   *)
(* preemption (arm64), the IRQ entry of kernel/arch/arm64/boot.S.          *)
(*                                                                         *)
(* One CPU runs one thread at a time: the kernel thread (the GUI loop or a *)
(* caller of process_exec) or the process of a slot of proc_table.  A      *)
(* thread's place inside a kernel call is pc[t]; while t does not own the  *)
(* CPU, pc[t] and masked[t] are what its cpu_context_t holds.              *)
(***************************************************************************)
EXTENDS Integers, FiniteSets, Sequences

CONSTANTS
  MAX_PROCESSES, \* number of slots of proc_table
  PREEMPTIVE,    \* TRUE: arm64, the timer IRQ switches; FALSE: x86_64
  AslrOffsets,   \* what aslr_exec_offset() may return, in units of one image
  LinkAddresses, \* where programs are linked: 0, or the address of an ET_EXEC
  HeapEnd,       \* the first image's place after the heap, program_base being 1
  Stacks,        \* the stacks malloc can return; bound: how many fit
  NULL,
  MaxPid         \* bound: pids handed out by next_pid++

ASSUME ProcessAssumption ==
  /\ MAX_PROCESSES \in Nat \ {0}
  /\ PREEMPTIVE \in BOOLEAN
  /\ AslrOffsets \subseteq Nat /\ LinkAddresses \subseteq Nat /\ HeapEnd \in Nat
  /\ MaxPid \in Nat
  /\ NULL \notin Stacks

Slots == 0 .. MAX_PROCESSES - 1

Kernel == -1                  \* current_pid < 0: no process runs

Threads == Slots \cup {Kernel}

States == {"FREE", "READY", "RUNNING", "BLOCKED", "ZOMBIE"}

\* Stages of process_create, named for what the thread does next.
CreateStages == {"load", "publish", "number", "stack", "context"}

\* Stages of process_kill: the loop of kill_children, and what is done to each
\* victim.
VictimStages == {"free", "clear", "mark", "unpid"}
KillStages == {"kill"} \cup VictimStages

\* Where a thread is.  "none": a context that is still all zero; "dead": the
\* words a finished or killed process left behind; "user": outside the
\* process API; "sched": switched out by process_schedule; "astray": resumed
\* at an address other than the interrupted one.
Pcs == CreateStages \cup KillStages
         \cup {"none", "dead", "user", "find", "wait", "yield", "sched", "astray"}

VARIABLES
  state, pid, parent_pid, stack_base, load_base, exit_status, \* proc_table[]
  current_pid,     \* slot of the running process, or Kernel
  next_pid,
  next_load_addr,
  stacks,          \* stacks that are allocated in the heap
  pc,              \* per thread: place in the code
  masked,          \* per thread: IRQs masked (DAIF.I / EFLAGS.IF)
  target,          \* per thread: local `slot` of create, exec_args and kill
  reg,             \* per thread: local load address or pid
  exec,            \* per thread: inside process_exec_args
  kill,            \* per thread: work_stack, current_parent and i of
                   \* kill_children, and whether it is done
  vaddr,           \* per slot: where the program is linked, 0 if anywhere
  spawner          \* history: pid of the process that created this one, or 0

table == <<state, pid, parent_pid, stack_base, load_base, exit_status>>
alloc == <<next_pid, next_load_addr, stacks>>
thread == <<pc, masked, target, reg, exec, kill>>
history == <<vaddr, spawner>>
vars == <<table, current_pid, alloc, thread, history>>

\* The locals of kill_children.
KillLoops == [work : Seq(Nat), parent : Nat, i : Slots, last : BOOLEAN]

NoKill == [work |-> <<>>, parent |-> 0, i |-> 0, last |-> FALSE]

Init ==
  /\ state = [s \in Slots |-> "FREE"]
  /\ pid = [s \in Slots |-> 0]
  /\ parent_pid = [s \in Slots |-> 0]
  /\ stack_base = [s \in Slots |-> NULL]
  /\ load_base = [s \in Slots |-> 0]
  /\ exit_status = [s \in Slots |-> 0]
  /\ current_pid = Kernel
  /\ next_pid = 1
  /\ next_load_addr = 1        \* program_base
  /\ stacks = {}
  /\ pc = [t \in Threads |-> IF t = Kernel THEN "user" ELSE "none"]
  /\ masked = [t \in Threads |-> FALSE]
  /\ target = [t \in Threads |-> 0]
  /\ reg = [t \in Threads |-> 0]
  /\ exec = [t \in Threads |-> FALSE]
  /\ kill = [t \in Threads |-> NoKill]
  /\ vaddr = [s \in Slots |-> 0]
  /\ spawner = [s \in Slots |-> 0]

-----------------------------------------------------------------------------
(* process_create: every store of one call, one step per point where the   *)
(* timer IRQ can make a difference.                                         *)

\* Thread t returns from the process API; its locals are gone.
Returns(t) ==
  /\ pc' = [pc EXCEPT ![t] = "user"]
  /\ exec' = [exec EXCEPT ![t] = FALSE]
  /\ target' = [target EXCEPT ![t] = 0]
  /\ reg' = [reg EXCEPT ![t] = 0]

\* find_free_slot_unlocked and the reservation, under proc_table_lock with
\* IRQs off.  isExec tells process_exec_args from a plain process_create.
\* Without a free slot the call returns -1 and changes nothing.
CreateReserve(t, isExec) ==
  /\ current_pid = t /\ pc[t] = "user"
  /\ next_pid <= MaxPid
  /\ \E s \in Slots :
       /\ state[s] = "FREE"
       /\ \A j \in Slots : j < s => state[j] # "FREE"
       /\ state' = [state EXCEPT ![s] = "BLOCKED"]
       /\ target' = [target EXCEPT ![t] = s]
  /\ exec' = [exec EXCEPT ![t] = isExec]
  /\ pc' = [pc EXCEPT ![t] = "load"]
  /\ UNCHANGED <<pid, parent_pid, stack_base, load_base, exit_status,
                 current_pid, alloc, masked, reg, kill, history>>

\* The file is missing, a directory, empty, unreadable or no ELF image, or
\* its buffer cannot be allocated: the slot is given back.
CreateFail(t) ==
  /\ current_pid = t /\ pc[t] = "load"
  /\ state' = [state EXCEPT ![target[t]] = "FREE"]
  /\ Returns(t)
  /\ UNCHANGED <<pid, parent_pid, stack_base, load_base, exit_status,
                 current_pid, alloc, masked, kill, history>>

\* Read next_load_addr, add the ASLR offset and load the image: there if it is
\* position-independent, and at the address it is linked for if it is an
\* ET_EXEC (elf.c:208).
CreateLoad(t) ==
  /\ current_pid = t /\ pc[t] = "load"
  /\ \E off \in AslrOffsets, v \in LinkAddresses :
       /\ reg' = [reg EXCEPT ![t] = next_load_addr + off]
       /\ vaddr' = [vaddr EXCEPT ![target[t]] = v]
  /\ pc' = [pc EXCEPT ![t] = "publish"]
  /\ UNCHANGED <<table, current_pid, alloc, masked, target, exec, kill, spawner>>

\* Store next_load_addr and load_base, which is load_addr for an ET_EXEC too,
\* and fetch next_pid for next_pid++.  info.load_size is the highest p_vaddr.
CreatePublish(t) ==
  /\ current_pid = t /\ pc[t] = "publish"
  /\ next_load_addr' = reg[t] + vaddr[target[t]] + 1
  /\ load_base' = [load_base EXCEPT ![target[t]] = reg[t]]
  /\ reg' = [reg EXCEPT ![t] = next_pid]
  /\ pc' = [pc EXCEPT ![t] = "number"]
  /\ UNCHANGED <<state, pid, parent_pid, stack_base, exit_status, current_pid,
                 next_pid, stacks, masked, target, exec, kill, history>>

\* The rest of next_pid++ and the identity of the process.  parent_pid gets
\* current_pid, the creator's slot index.
CreateNumber(t) ==
  /\ current_pid = t /\ pc[t] = "number"
  /\ next_pid' = reg[t] + 1
  /\ pid' = [pid EXCEPT ![target[t]] = reg[t]]
  /\ parent_pid' = [parent_pid EXCEPT ![target[t]] = current_pid]
  /\ exit_status' = [exit_status EXCEPT ![target[t]] = 0]
  /\ spawner' = [spawner EXCEPT ![target[t]] = IF t = Kernel THEN 0 ELSE pid[t]]
  /\ pc' = [pc EXCEPT ![t] = "stack"]
  /\ UNCHANGED <<state, stack_base, load_base, current_pid, next_load_addr,
                 stacks, masked, target, reg, exec, kill, vaddr>>

\* proc->stack_base = malloc(...): the old value is overwritten.
CreateStack(t) ==
  /\ current_pid = t /\ pc[t] = "stack"
  /\ \E b \in Stacks :
       /\ b \notin stacks
       /\ stacks' = stacks \cup {b}
       /\ stack_base' = [stack_base EXCEPT ![target[t]] = b]
  /\ pc' = [pc EXCEPT ![t] = "context"]
  /\ UNCHANGED <<state, pid, parent_pid, load_base, exit_status, current_pid,
                 next_pid, next_load_addr, masked, target, reg, exec, kill, history>>

\* Mutant: the result of malloc is not checked.
CreateStackUnchecked(t) ==
  /\ current_pid = t /\ pc[t] = "stack"
  /\ stack_base' = [stack_base EXCEPT ![target[t]] = NULL]
  /\ pc' = [pc EXCEPT ![t] = "context"]
  /\ UNCHANGED <<state, pid, parent_pid, load_base, exit_status, current_pid,
                 alloc, masked, target, reg, exec, kill, history>>

\* malloc returned NULL.
CreateStackFail(t) ==
  /\ current_pid = t /\ pc[t] = "stack"
  /\ stack_base' = [stack_base EXCEPT ![target[t]] = NULL]
  /\ state' = [state EXCEPT ![target[t]] = "FREE"]
  /\ Returns(t)
  /\ UNCHANGED <<pid, parent_pid, load_base, exit_status, current_pid, alloc,
                 masked, kill, history>>

\* Fill in the initial context (on arm64 with IRQs masked, pstate 0x3c5),
\* make the process READY and return its pid.  process_start, which every
\* caller calls next, changes nothing.
CreateContext(t) ==
  LET s == target[t] IN
  /\ current_pid = t /\ pc[t] = "context"
  /\ state' = [state EXCEPT ![s] = "READY"]
  /\ pc' = [pc EXCEPT ![s] = "user", ![t] = IF exec[t] THEN "find" ELSE "user"]
  /\ masked' = [masked EXCEPT ![s] = PREEMPTIVE]
  /\ exec' = [exec EXCEPT ![s] = FALSE]
  /\ kill' = [kill EXCEPT ![s] = NoKill]
  /\ target' = [target EXCEPT ![s] = 0, ![t] = 0]
  /\ reg' = [reg EXCEPT ![s] = 0, ![t] = IF exec[t] THEN pid[s] ELSE 0]
  /\ UNCHANGED <<pid, parent_pid, stack_base, load_base, exit_status,
                 current_pid, alloc, history>>

-----------------------------------------------------------------------------
(* Scheduling. *)

\* How many places after `old` the round-robin scan meets slot s.
Distance(old, s) == (s - (old + 1)) % MAX_PROCESSES

\* The scan of both schedulers starts after `old` (at 0 from the kernel, which
\* is slot -1) and stops at the first member of S.
FirstFrom(old, S, n) ==
  n \in S /\ \A j \in S : Distance(old, n) <= Distance(old, j)

Ready == {s \in Slots : state[s] = "READY"}

\* Mutant: the process that loses the CPU stays RUNNING.
SwitchedKeepsOld(t, n) == [state EXCEPT ![n] = "RUNNING"]

\* The table after the CPU goes from thread t to slot n.
Switched(t, n) ==
  [s \in Slots |-> IF s = n THEN "RUNNING"
                   ELSE IF s = t /\ state[s] = "RUNNING" THEN "READY"
                   ELSE state[s]]

\* Where a thread continues when process_schedule returns.
AfterSchedule(t) == IF exec[t] THEN "wait" ELSE "user"

\* process_yield's own store; process_schedule is the next step.
Yield(t) ==
  /\ current_pid = t /\ pc[t] = "user" /\ t # Kernel
  /\ state' = [state EXCEPT ![t] = "READY"]
  /\ pc' = [pc EXCEPT ![t] = "yield"]
  /\ UNCHANGED <<pid, parent_pid, stack_base, load_base, exit_status,
                 current_pid, alloc, masked, target, reg, exec, kill, history>>

\* Threads that are about to call process_schedule: after process_yield, from
\* the kernel's own code, and in the loop of process_exec_args while the
\* slot it watches is neither FREE nor ZOMBIE.
CallsSchedule(t) ==
  /\ current_pid = t
  /\ \/ pc[t] = "yield"
     \/ pc[t] = "user" /\ t = Kernel
     \/ pc[t] = "wait" /\ state[target[t]] \notin {"FREE", "ZOMBIE"}

\* Mutant: a switch away from the kernel saves no context.
ScheduleSwitchNoSave(t) ==
  /\ CallsSchedule(t)
  /\ \E n \in Slots :
       /\ FirstFrom(t, Ready, n) /\ n # t
       /\ state' = Switched(t, n)
       /\ current_pid' = n
  /\ pc' = [pc EXCEPT ![t] = IF t = Kernel THEN @ ELSE "sched"]
  /\ masked' = [masked EXCEPT ![t] = TRUE]
  /\ UNCHANGED <<pid, parent_pid, stack_base, load_base, exit_status, alloc,
                 target, reg, exec, kill, history>>

\* process_schedule finds another READY process and switches to it; the old
\* context is saved with IRQs masked.
ScheduleSwitch(t) ==
  /\ CallsSchedule(t)
  /\ \E n \in Slots :
       /\ FirstFrom(t, Ready, n) /\ n # t
       /\ state' = Switched(t, n)
       /\ current_pid' = n
  /\ pc' = [pc EXCEPT ![t] = "sched"]
  /\ masked' = [masked EXCEPT ![t] = TRUE]
  /\ UNCHANGED <<pid, parent_pid, stack_base, load_base, exit_status, alloc,
                 target, reg, exec, kill, history>>

\* process_schedule finds nobody else: the yielding process runs on, the
\* kernel or a still RUNNING process returns; IRQs are enabled.
ScheduleStay(t) ==
  /\ CallsSchedule(t)
  /\ \/ FirstFrom(t, Ready, t) /\ state' = [state EXCEPT ![t] = "RUNNING"]
     \/ /\ Ready = {} /\ UNCHANGED state
        /\ t # Kernel => state[t] = "RUNNING"
  /\ pc' = [pc EXCEPT ![t] = AfterSchedule(t)]
  /\ masked' = [masked EXCEPT ![t] = FALSE]
  /\ UNCHANGED <<pid, parent_pid, stack_base, load_base, exit_status,
                 current_pid, alloc, target, reg, exec, kill, history>>

\* A thread comes back from switch_context and re-enables IRQs.
Resume(t) ==
  /\ current_pid = t /\ pc[t] = "sched"
  /\ pc' = [pc EXCEPT ![t] = AfterSchedule(t)]
  /\ masked' = [masked EXCEPT ![t] = FALSE]
  /\ UNCHANGED <<table, current_pid, alloc, target, reg, exec, kill, history>>

\* process_exec_args: find the slot by pid, whatever its state.
ExecFind(t) ==
  /\ current_pid = t /\ pc[t] = "find"
  /\ \E s \in Slots :
       /\ pid[s] = reg[t] /\ \A j \in Slots : j < s => pid[j] # reg[t]
       /\ target' = [target EXCEPT ![t] = s]
  /\ pc' = [pc EXCEPT ![t] = "wait"]
  /\ UNCHANGED <<table, current_pid, alloc, masked, reg, exec, kill, history>>

\* process_exec_args: no slot has the pid any more, return -1.
ExecLost(t) ==
  /\ current_pid = t /\ pc[t] = "find"
  /\ \A s \in Slots : pid[s] # reg[t]
  /\ Returns(t)
  /\ UNCHANGED <<table, current_pid, alloc, masked, kill, history>>

\* process_exec_args: the watched slot is FREE, return its exit_status.
ExecReturn(t) ==
  /\ current_pid = t /\ pc[t] = "wait"
  /\ state[target[t]] \in {"FREE", "ZOMBIE"}
  /\ Returns(t)
  /\ UNCHANGED <<table, current_pid, alloc, masked, kill, history>>

\* The timer IRQ: timer_irq_handler, process_schedule_from_irq and the
\* register save and restore of irq_handler.  Contexts with sp or pc zero are
\* skipped.  The kernel path of irq_handler stores the link register where
\* the interrupted address belongs.
Preempt(t) ==
  /\ PREEMPTIVE /\ current_pid = t /\ ~masked[t]
  /\ t # Kernel =>
       Cardinality({s \in Slots : state[s] \in {"READY", "RUNNING"}}) > 1
  /\ \E n \in Slots :
       /\ FirstFrom(t, {s \in Ready : s = t \/ pc[s] # "none"}, n) /\ n # t
       /\ state' = Switched(t, n)
       /\ current_pid' = n
  /\ pc' = [u \in Threads |-> IF u = Kernel /\ t = Kernel THEN "astray"
                              ELSE pc[u]]
  /\ UNCHANGED <<pid, parent_pid, stack_base, load_base, exit_status, alloc,
                 masked, target, reg, exec, kill, history>>

-----------------------------------------------------------------------------
(* Exit and kill. *)

\* D is closed under kill_children's search from pid p: it holds every slot in
\* use whose parent_pid is p or the pid of a member.
ClosedUnderChildren(p, D) ==
  \A i \in Slots :
    /\ state[i] # "FREE"
    /\ parent_pid[i] = p \/ \E d \in D : parent_pid[i] = pid[d]
    => i \in D

\* The slots kill_children(p) visits: the least closed set.
Visited(p) ==
  {i \in Slots : \A D \in SUBSET Slots : ClosedUnderChildren(p, D) => i \in D}

\* Free the stacks and the slots of K, as kill_children does with IRQs off.
KillSlots(K) ==
  /\ stacks' = stacks \ {stack_base[i] : i \in K}
  /\ stack_base' = [i \in Slots |-> IF i \in K THEN NULL ELSE stack_base[i]]
  /\ pid' = [i \in Slots |-> IF i \in K THEN 0 ELSE pid[i]]

\* Mutant: the exiting process's slot is not freed.
ExitStaysInTable(t) ==
  LET K == Visited(pid[t]) \ {t} IN
  /\ current_pid = t /\ t # Kernel /\ pc[t] = "user"
  /\ KillSlots(K)
  /\ state' = [i \in Slots |-> IF i \in K THEN "FREE" ELSE state[i]]
  /\ exit_status' = [exit_status EXCEPT ![t] = pid[t]]
  /\ current_pid' = Kernel
  /\ pc' = [u \in Threads |-> IF u \in K \cup {t} THEN "dead" ELSE pc[u]]
  /\ UNCHANGED <<parent_pid, load_base, next_pid, next_load_addr, masked,
                 target, reg, exec, kill, history>>

\* process_exit of the running process, IRQs off throughout.  Its status is
\* its pid, so that the statuses of different processes differ.  The slot is
\* freed, pid and stack_base stay, and the CPU goes to kernel_context.
Exit(t) ==
  LET K == Visited(pid[t]) \ {t} IN
  /\ current_pid = t /\ t # Kernel /\ pc[t] = "user"
  /\ KillSlots(K)
  /\ state' = [i \in Slots |-> IF i \in K \cup {t} THEN "FREE" ELSE state[i]]
  /\ exit_status' = [exit_status EXCEPT ![t] = pid[t]]
  /\ current_pid' = Kernel
  /\ pc' = [u \in Threads |-> IF u \in K \cup {t} THEN "dead" ELSE pc[u]]
  /\ UNCHANGED <<parent_pid, load_base, next_pid, next_load_addr, masked,
                 target, reg, exec, kill, history>>

\* process_kill runs with IRQs as they are: between any two of its accesses to
\* the table the timer may switch to another thread.

\* The loops of kill_children after index i: the next index, the next parent of
\* the work stack, or the slot that process_kill has found.
Onward(k, slot) ==
  IF k.i + 1 < MAX_PROCESSES THEN [k EXCEPT !.i = @ + 1]
  ELSE IF k.work # <<>>
       THEN [work |-> SubSeq(k.work, 1, Len(k.work) - 1), last |-> FALSE,
             parent |-> k.work[Len(k.work)], i |-> 0]
       ELSE [k EXCEPT !.i = slot, !.last = TRUE]

\* process_kill(p): find the slot, refuse the running process, start the loop.
KillFind(t, p) ==
  /\ current_pid = t /\ pc[t] = "user"
  /\ \E s \in Slots :
       /\ pid[s] = p /\ state[s] # "FREE" /\ s # t
       /\ \A j \in Slots : j < s => ~(pid[j] = p /\ state[j] # "FREE")
       /\ target' = [target EXCEPT ![t] = s]
  /\ kill' = [kill EXCEPT ![t] = [NoKill EXCEPT !.parent = p]]
  /\ pc' = [pc EXCEPT ![t] = "kill"]
  /\ UNCHANGED <<table, current_pid, alloc, masked, reg, exec, history>>

\* kill_children looks at slot i.  A child is pushed on the work stack, and
\* killed if it does not run.
KillScan(t) ==
  LET k == kill[t]
      child == state[k.i] # "FREE" /\ parent_pid[k.i] = k.parent
      pushed == IF child /\ Len(k.work) < MAX_PROCESSES
                THEN [k EXCEPT !.work = Append(@, pid[k.i])] ELSE k
      next == IF child /\ k.i # t THEN pushed ELSE Onward(pushed, target[t])
  IN  /\ current_pid = t /\ pc[t] = "kill"
      /\ kill' = [kill EXCEPT ![t] = next]
      /\ pc' = [pc EXCEPT ![t] = IF next.last \/ (child /\ k.i # t) THEN "free" ELSE "kill"]
      /\ UNCHANGED <<table, current_pid, alloc, masked, target, reg, exec, history>>

\* free(stack_base) of the victim.  kfree refuses a block that is not in use.
FreeStack(t) ==
  LET b == stack_base[kill[t].i] IN
  /\ current_pid = t /\ pc[t] = "free"
  /\ stacks' = stacks \ {b}
  /\ pc' = [pc EXCEPT ![t] = IF b = NULL THEN "mark" ELSE "clear"]
  /\ UNCHANGED <<table, current_pid, next_pid, next_load_addr, masked, target,
                 reg, exec, kill, history>>

\* Mutant: stack_base keeps pointing to the freed stack.
ClearStackNot(t) ==
  /\ current_pid = t /\ pc[t] = "clear"
  /\ pc' = [pc EXCEPT ![t] = "mark"]
  /\ UNCHANGED <<table, current_pid, alloc, masked, target, reg, exec, kill, history>>

\* stack_base = NULL.
ClearStack(t) ==
  /\ current_pid = t /\ pc[t] = "clear"
  /\ stack_base' = [stack_base EXCEPT ![kill[t].i] = NULL]
  /\ pc' = [pc EXCEPT ![t] = "mark"]
  /\ UNCHANGED <<state, pid, parent_pid, load_base, exit_status, current_pid,
                 alloc, masked, target, reg, exec, kill, history>>

\* state = PROC_STATE_FREE: the victim cannot be scheduled any more.
MarkFree(t) ==
  /\ current_pid = t /\ pc[t] = "mark"
  /\ state' = [state EXCEPT ![kill[t].i] = "FREE"]
  /\ pc' = [pc EXCEPT ![kill[t].i] = "dead", ![t] = "unpid"]
  /\ UNCHANGED <<pid, parent_pid, stack_base, load_base, exit_status, current_pid,
                 alloc, masked, target, reg, exec, kill, history>>

\* pid = 0; the loop goes on, or process_kill returns.
ClearPid(t) ==
  LET k == kill[t]
      next == IF k.last THEN NoKill ELSE Onward(k, target[t])
  IN  /\ current_pid = t /\ pc[t] = "unpid"
      /\ pid' = [pid EXCEPT ![k.i] = 0]
      /\ kill' = [kill EXCEPT ![t] = next]
      /\ pc' = [pc EXCEPT ![t] = IF k.last THEN "user" ELSE IF next.last THEN "free" ELSE "kill"]
      /\ target' = [target EXCEPT ![t] = IF k.last THEN 0 ELSE @]
      /\ UNCHANGED <<state, parent_pid, stack_base, load_base, exit_status,
                     current_pid, alloc, masked, reg, exec, history>>

Kill(t) ==
  \/ KillScan(t)
  \/ FreeStack(t)
  \/ ClearStack(t)
  \/ MarkFree(t)
  \/ ClearPid(t)

-----------------------------------------------------------------------------

Create(t) ==
  \/ \E isExec \in BOOLEAN : CreateReserve(t, isExec)
  \/ CreateFail(t)
  \/ CreateLoad(t)
  \/ CreatePublish(t)
  \/ CreateNumber(t)
  \/ CreateStack(t)
  \/ CreateStackFail(t)
  \/ CreateContext(t)

Schedule(t) ==
  \/ Yield(t)
  \/ ScheduleSwitch(t)
  \/ ScheduleStay(t)
  \/ Resume(t)
  \/ Preempt(t)

Next ==
  \E t \in Threads :
    \/ Create(t)
    \/ Schedule(t)
    \/ ExecFind(t)
    \/ ExecLost(t)
    \/ ExecReturn(t)
    \/ Exit(t)
    \/ \E p \in 1 .. MaxPid : KillFind(t, p)
    \/ Kill(t)

Spec == Init /\ [][Next]_vars

-----------------------------------------------------------------------------
(* Properties. *)

\* Every variable keeps its type; process_create and the wait loop index
\* proc_table within bounds.
TypeOK ==
  /\ state \in [Slots -> States]
  /\ pid \in [Slots -> Nat]
  /\ parent_pid \in [Slots -> Threads]
  /\ stack_base \in [Slots -> Stacks \cup {NULL}]
  /\ load_base \in [Slots -> Nat]
  /\ exit_status \in [Slots -> Nat]
  /\ current_pid \in Threads
  /\ next_pid \in Nat
  /\ next_load_addr \in Nat
  /\ stacks \subseteq Stacks
  /\ pc \in [Threads -> Pcs]
  /\ masked \in [Threads -> BOOLEAN]
  /\ target \in [Threads -> Slots]
  /\ reg \in [Threads -> Nat]
  /\ exec \in [Threads -> BOOLEAN]
  /\ kill \in [Threads -> KillLoops]
  /\ vaddr \in [Slots -> Nat]
  /\ spawner \in [Slots -> Nat]

\* A slot is RUNNING only while current_pid names it, and the slot current_pid
\* names is RUNNING or in the READY window of process_yield.  So the branch of
\* process_schedule that falls back to the kernel because the current process
\* is no longer runnable is never taken, whatever the other threads kill,
\* create or fail to create.
OneRunning ==
  /\ \A s \in Slots : state[s] = "RUNNING" => current_pid = s
  /\ current_pid \in Slots =>
       \/ state[current_pid] = "RUNNING"
       \/ state[current_pid] = "READY" /\ pc[current_pid] = "yield"

\* The table and the scheduler's idea of it agree and every index is in range,
\* with the timer interrupt between any two steps of any call.
TableConsistent == TypeOK /\ OneRunning

\* No stack belongs to two slots, and no slot keeps a pointer to a freed stack,
\* but for the moment that process_kill needs to clear it: over creations that
\* fail, exits that leave the pointer and kills, no stack is freed twice and
\* nobody runs on one that another process has got.
StacksOwnedOnce ==
  \A s \in Slots : stack_base[s] # NULL =>
    \/ /\ stack_base[s] \in stacks
       /\ \A u \in Slots : stack_base[u] = stack_base[s] => u = s
    \/ \E t \in Threads : current_pid = t /\ pc[t] = "clear" /\ kill[t].i = s

\* While a process runs, kernel_context holds a saved kernel thread, so the
\* sanity check of process_exit never hangs the machine.
KernelContextSaved ==
  current_pid # Kernel => pc[Kernel] \in {"sched", "astray"}

\* A process the scheduler may pick has an allocated stack of its own, an
\* initialised context and a pid that names it alone.
RunnableIsComplete ==
  \A s \in Slots : state[s] \in {"READY", "RUNNING"} =>
    /\ stack_base[s] \in stacks \/ \E t \in Threads : pc[t] \in {"clear", "mark"} /\ kill[t].i = s
    /\ pc[s] \notin {"none", "dead"}
    /\ pid[s] \in 1 .. next_pid - 1
    /\ \A u \in Slots : state[u] # "FREE" /\ pid[u] = pid[s] => u = s

\* Where a program's segments are.
Image(s) == IF vaddr[s] = 0 THEN load_base[s] ELSE vaddr[s]

Live(s) == state[s] \in {"READY", "RUNNING"}

\* The images of two live processes never overlap.
ImagesDisjoint ==
  \A s, u \in Slots : s # u /\ Live(s) /\ Live(u) => Image(s) # Image(u)

\* "Programs load right after the heap."
ImagesAfterHeap == \A s \in Slots : Live(s) => Image(s) >= HeapEnd

\* "Reserve the slot immediately, but do not let the scheduler run it until
\* the ELF, stack and initial CPU context are fully initialized."  A slot
\* stays BLOCKED from its reservation to the end of process_create.
ReservationHeld ==
  \A t \in Threads : pc[t] \in CreateStages => state[target[t]] = "BLOCKED"

\* Nothing of a creation can be seen before it is complete: whichever of its
\* error returns it takes, and whoever looks at the table in between, the slot
\* is BLOCKED until process_create is done and runs only with all it needs.
CreationSafe == ReservationHeld /\ RunnableIsComplete

\* "The stack will be freed when the slot is reused": every allocated stack
\* is still owned by a slot.
StackReclaimed == \A b \in stacks : \E s \in Slots : stack_base[s] = b

\* "Kill all children of this process before exiting": a live process was
\* created by the kernel or by a process that is still alive.
ChildrenDieWithParent ==
  \A s \in Slots : state[s] \in {"READY", "RUNNING"} /\ spawner[s] # 0 =>
    \E u \in Slots : state[u] # "FREE" /\ pid[u] = spawner[s]

\* process_exec_args "waits for it to finish": the slot it watches belongs to
\* the process it created for as long as the slot is in use.
ExecWatchesItsChild ==
  \A t \in Threads :
    /\ pc[t] = "wait"
    /\ t = current_pid
    /\ state[target[t]] \notin {"FREE", "ZOMBIE"}
    => pid[target[t]] = reg[t]

-----------------------------------------------------------------------------
(* Liveness: programs terminate, and a thread that owns the CPU advances. *)

Exits == \A t \in Slots : SF_vars(Exit(t))

KernelAdvances ==
  \A t \in Threads :
    /\ WF_vars(Create(t)) /\ WF_vars(ExecFind(t)) /\ WF_vars(ExecReturn(t))
    /\ WF_vars(Kill(t))   /\ WF_vars(Resume(t))
    /\ WF_vars(ScheduleStay(t) \/ ScheduleSwitch(t))

FairSpec == Spec /\ Exits /\ KernelAdvances

\* process_exec called by the kernel returns: the CPU comes back from every
\* process it is lent to.
ExecReturns == (exec[Kernel] /\ pc[Kernel] = "wait") ~> ~exec[Kernel]
=============================================================================
