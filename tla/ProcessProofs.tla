---------------------------- MODULE ProcessProofs ----------------------------
(***************************************************************************)
(* Proofs about Process for every number of slots, every set of stacks and *)
(* both builds.                                                            *)
(***************************************************************************)
EXTENDS Process, TLAPS

\* A thread never works on its own slot in process_create or process_kill:
\* it reserves a FREE slot, refuses to kill current_pid and skips it among the
\* children, while its own slot is in use for as long as it runs.
NeverOwnTarget ==
  \A t \in Threads :
    /\ pc[t] \in CreateStages \cup KillStages => target[t] # t
    /\ pc[t] \in VictimStages => kill[t].i # t
    /\ pc[t] = "kill" => ~kill[t].last

\* The inductive invariant of both builds.
IInv ==
  /\ TypeOK
  /\ OneRunning
  /\ NeverOwnTarget
  /\ KernelContextSaved

-----------------------------------------------------------------------------

\* The constants, spelled out for the provers.
LEMMA Constants ==
  /\ MAX_PROCESSES \in Nat /\ MAX_PROCESSES > 0
  /\ 0 \in Slots /\ Slots \subseteq Int /\ Slots \subseteq Threads
  /\ Kernel \in Threads /\ Kernel \notin Slots
  /\ \A t \in Threads : t # Kernel => t \in Slots
  /\ PREEMPTIVE \in BOOLEAN
  /\ NULL \notin Stacks
  BY ProcessAssumption DEF ProcessAssumption, Slots, Threads, Kernel

LEMMA NoKillType == NoKill \in KillLoops
  BY Constants DEF NoKill, KillLoops

\* process_init establishes the invariant.
LEMMA InitIInv == Init => IInv
  <1> QED
    BY NoKillType, Constants
    DEF Init, IInv, TypeOK, OneRunning, NeverOwnTarget, KernelContextSaved,
        States, Pcs, CreateStages, KillStages, VictimStages

\* The loops of kill_children keep their types: parents are popped from a
\* work stack of pids, and the index stays in the table.
LEMMA OnwardType ==
  ASSUME NEW k \in KillLoops, NEW slot \in Slots
  PROVE  Onward(k, slot) \in KillLoops
  <1> USE ProcessAssumption DEF KillLoops, Onward, Slots, ProcessAssumption
  <1>1. CASE k.i + 1 < MAX_PROCESSES
    <2>1. k.i + 1 \in Slots
      BY <1>1
    <2> HIDE DEF Slots
    <2> QED
      BY <1>1, <2>1
  <1>2. CASE ~(k.i + 1 < MAX_PROCESSES) /\ k.work # <<>>
    <2>1. SubSeq(k.work, 1, Len(k.work) - 1) \in Seq(Nat) /\ k.work[Len(k.work)] \in Nat
      BY <1>2
    <2> QED
      BY <1>2, <2>1
  <1>3. CASE ~(k.i + 1 < MAX_PROCESSES) /\ k.work = <<>>
    BY <1>3
  <1> QED
    BY <1>1, <1>2, <1>3

\* The loops end with the slot that process_kill found.
LEMMA OnwardLast ==
  ASSUME NEW k \in KillLoops, NEW slot \in Slots, ~k.last
  PROVE  Onward(k, slot).last => Onward(k, slot).i = slot
  <1> USE DEF KillLoops, Onward
  <1>1. CASE k.i + 1 < MAX_PROCESSES
    BY <1>1
  <1>2. CASE ~(k.i + 1 < MAX_PROCESSES) /\ k.work # <<>>
    BY <1>2
  <1>3. CASE ~(k.i + 1 < MAX_PROCESSES) /\ k.work = <<>>
    BY <1>3
  <1> QED
    BY <1>1, <1>2, <1>3

\* A child is pushed as a pid.
LEMMA PushType ==
  ASSUME NEW k \in KillLoops, NEW p \in Nat
  PROVE  /\ [k EXCEPT !.work = Append(@, p)] \in KillLoops
         /\ [k EXCEPT !.work = Append(@, p)].last = k.last
         /\ [k EXCEPT !.work = Append(@, p)].i = k.i
  BY DEF KillLoops

\* Steps keep the types.
LEMMA TypeStep == TypeOK /\ [Next]_vars => TypeOK'
  <1> SUFFICES ASSUME TypeOK, [Next]_vars PROVE TypeOK'
    OBVIOUS
  <1> USE Constants
      DEF TypeOK, States, Pcs, CreateStages, KillStages, VictimStages, table,
          alloc, thread, history
  <1>1. ASSUME NEW t \in Threads, Create(t) PROVE TypeOK'
    <2>1. ASSUME NEW isExec \in BOOLEAN, CreateReserve(t, isExec) PROVE TypeOK'
      BY <2>1 DEF CreateReserve
    <2>2. CASE CreateFail(t)
      BY <2>2 DEF CreateFail, Returns
    <2>3. CASE CreateLoad(t)
      BY <2>3, ProcessAssumption DEF CreateLoad, ProcessAssumption
    <2>4. CASE CreatePublish(t)
      <3>1. reg[t] \in Nat /\ vaddr[target[t]] \in Nat
        OBVIOUS
      <3> QED
        BY <2>4, <3>1 DEF CreatePublish
    <2>5. CASE CreateNumber(t)
      BY <2>5 DEF CreateNumber
    <2>6. CASE CreateStack(t)
      BY <2>6 DEF CreateStack
    <2>7. CASE CreateStackFail(t)
      BY <2>7 DEF CreateStackFail, Returns
    <2>8. CASE CreateContext(t)
      BY <2>8, NoKillType DEF CreateContext
    <2> QED
      BY <1>1, <2>1, <2>2, <2>3, <2>4, <2>5, <2>6, <2>7, <2>8 DEF Create
  <1>2. ASSUME NEW t \in Threads, Schedule(t) PROVE TypeOK'
    <2>1. CASE Yield(t)
      BY <2>1 DEF Yield
    <2>2. CASE ScheduleSwitch(t)
      BY <2>2 DEF ScheduleSwitch, Switched
    <2>3. CASE ScheduleStay(t)
      BY <2>3 DEF ScheduleStay, FirstFrom, AfterSchedule
    <2>4. CASE Resume(t)
      BY <2>4 DEF Resume, AfterSchedule
    <2>5. CASE Preempt(t)
      BY <2>5 DEF Preempt, Switched
    <2> QED
      BY <1>2, <2>1, <2>2, <2>3, <2>4, <2>5 DEF Schedule
  <1>3. ASSUME NEW t \in Threads, ExecFind(t) PROVE TypeOK'
    BY <1>3 DEF ExecFind
  <1>4. ASSUME NEW t \in Threads, ExecLost(t) PROVE TypeOK'
    BY <1>4 DEF ExecLost, Returns
  <1>5. ASSUME NEW t \in Threads, ExecReturn(t) PROVE TypeOK'
    BY <1>5 DEF ExecReturn, Returns
  <1>6. ASSUME NEW t \in Threads, Exit(t) PROVE TypeOK'
    BY <1>6 DEF Exit, KillSlots
  <1>7. ASSUME NEW t \in Threads, NEW p \in 1 .. MaxPid, KillFind(t, p)
        PROVE  TypeOK'
    <2>1. p \in Nat
      BY ProcessAssumption DEF ProcessAssumption
    <2>2. [NoKill EXCEPT !.parent = p] \in KillLoops
      BY <2>1, NoKillType DEF KillLoops
    <2> QED
      BY <1>7, <2>2 DEF KillFind
  <1>8. ASSUME NEW t \in Threads, Kill(t) PROVE TypeOK'
    <2>1. kill[t] \in KillLoops /\ kill[t].i \in Slots /\ target[t] \in Slots
      BY DEF KillLoops
    <2>2. CASE KillScan(t)
      <3>1. ASSUME NEW n \in KillLoops, kill' = [kill EXCEPT ![t] = n]
            PROVE  kill' \in [Threads -> KillLoops]
        BY <3>1
      <3> DEFINE child == state[kill[t].i] # "FREE" /\ parent_pid[kill[t].i] = kill[t].parent
                 pushed == IF child /\ Len(kill[t].work) < MAX_PROCESSES
                           THEN [kill[t] EXCEPT !.work = Append(@, pid[kill[t].i])]
                           ELSE kill[t]
                 next == IF child /\ kill[t].i # t THEN pushed
                         ELSE Onward(pushed, target[t])
      <3>2. pushed \in KillLoops
        BY <2>1, PushType
      <3> HIDE DEF pushed
      <3>3. next \in KillLoops
        BY <2>1, <3>2, OnwardType
      <3>4. kill' = [kill EXCEPT ![t] = next]
        BY <2>2 DEF KillScan, pushed
      <3>5. kill' \in [Threads -> KillLoops]
        BY <3>1, <3>3, <3>4
      <3> QED
        BY <2>2, <3>5 DEF KillScan
    <2>3. CASE FreeStack(t)
      BY <2>3 DEF FreeStack
    <2>4. CASE ClearStack(t)
      BY <2>1, <2>4 DEF ClearStack
    <2>5. CASE MarkFree(t)
      BY <2>1, <2>5 DEF MarkFree
    <2>6. CASE ClearPid(t)
      <3> DEFINE next == IF kill[t].last THEN NoKill ELSE Onward(kill[t], target[t])
      <3>2. next \in KillLoops
        BY <2>1, NoKillType, OnwardType
      <3>3. kill' = [kill EXCEPT ![t] = next]
        BY <2>6 DEF ClearPid
      <3> HIDE DEF next
      <3>4. kill' \in [Threads -> KillLoops]
        BY <3>2, <3>3
      <3>5. pc' \in [Threads -> Pcs]
        BY <2>6 DEF ClearPid
      <3>6. pid' \in [Slots -> Nat] /\ target' \in [Threads -> Slots]
        BY <2>1, <2>6 DEF ClearPid
      <3> QED
        BY <2>6, <3>4, <3>5, <3>6 DEF ClearPid
    <2> QED
      BY <1>8, <2>2, <2>3, <2>4, <2>5, <2>6 DEF Kill
  <1>9. CASE UNCHANGED vars
    BY <1>9 DEF vars
  <1> QED
    BY <1>1, <1>2, <1>3, <1>4, <1>5, <1>6, <1>7, <1>8, <1>9 DEF Next

\* Scheduling, exit and kill keep current_pid and the RUNNING state together.
LEMMA RunningStep ==
  TypeOK /\ OneRunning /\ NeverOwnTarget /\ [Next]_vars
    => OneRunning' /\ NeverOwnTarget'
  <1> SUFFICES ASSUME TypeOK, OneRunning, NeverOwnTarget, [Next]_vars
               PROVE  OneRunning' /\ NeverOwnTarget'
    OBVIOUS
  <1> USE Constants
      DEF TypeOK, OneRunning, NeverOwnTarget, CreateStages, KillStages,
          VictimStages, table, alloc, thread, history
  <1>1. ASSUME NEW t \in Threads, Create(t)
        PROVE  OneRunning' /\ NeverOwnTarget'
    <2>1. ASSUME NEW isExec \in BOOLEAN, CreateReserve(t, isExec)
          PROVE  OneRunning' /\ NeverOwnTarget'
      BY <2>1 DEF CreateReserve
    <2>2. CASE CreateFail(t)
      BY <2>2 DEF CreateFail, Returns
    <2>3. CASE CreateLoad(t)
      BY <2>3 DEF CreateLoad
    <2>4. CASE CreatePublish(t)
      BY <2>4 DEF CreatePublish
    <2>5. CASE CreateNumber(t)
      BY <2>5 DEF CreateNumber
    <2>6. CASE CreateStack(t)
      BY <2>6 DEF CreateStack
    <2>7. CASE CreateStackFail(t)
      BY <2>7 DEF CreateStackFail, Returns
    <2>8. CASE CreateContext(t)
      BY <2>8 DEF CreateContext
    <2> QED
      BY <1>1, <2>1, <2>2, <2>3, <2>4, <2>5, <2>6, <2>7, <2>8 DEF Create
  <1>2. ASSUME NEW t \in Threads, Schedule(t)
        PROVE  OneRunning' /\ NeverOwnTarget'
    <2>1. CASE Yield(t)
      BY <2>1 DEF Yield
    <2>2. CASE ScheduleSwitch(t)
      BY <2>2 DEF ScheduleSwitch, Switched, CallsSchedule
    <2>3. CASE ScheduleStay(t)
      BY <2>3 DEF ScheduleStay, FirstFrom, AfterSchedule, CallsSchedule, Ready
    <2>4. CASE Resume(t)
      BY <2>4 DEF Resume, AfterSchedule
    <2>5. CASE Preempt(t)
      BY <2>5 DEF Preempt, Switched
    <2> QED
      BY <1>2, <2>1, <2>2, <2>3, <2>4, <2>5 DEF Schedule
  <1>3. ASSUME NEW t \in Threads, ExecFind(t)
        PROVE  OneRunning' /\ NeverOwnTarget'
    BY <1>3 DEF ExecFind
  <1>4. ASSUME NEW t \in Threads, ExecLost(t)
        PROVE  OneRunning' /\ NeverOwnTarget'
    BY <1>4 DEF ExecLost, Returns
  <1>5. ASSUME NEW t \in Threads, ExecReturn(t)
        PROVE  OneRunning' /\ NeverOwnTarget'
    BY <1>5 DEF ExecReturn, Returns
  <1>6. ASSUME NEW t \in Threads, Exit(t)
        PROVE  OneRunning' /\ NeverOwnTarget'
    BY <1>6 DEF Exit, KillSlots
  <1>7. ASSUME NEW t \in Threads, NEW p \in 1 .. MaxPid, KillFind(t, p)
        PROVE  OneRunning' /\ NeverOwnTarget'
    <2>1. ~[NoKill EXCEPT !.parent = p].last
      BY DEF NoKill
    <2> DEFINE loop == [NoKill EXCEPT !.parent = p]
    <2>2. kill' = [kill EXCEPT ![t] = loop]
      BY <1>7 DEF KillFind
    <2> HIDE DEF loop
    <2>3. ~loop.last
      BY <2>1 DEF loop
    <2> QED
      <3>1. \A u \in Threads : u # t =>
              pc'[u] = pc[u] /\ kill'[u] = kill[u] /\ target'[u] = target[u]
        BY <1>7, <2>2 DEF KillFind
      <3>2. target'[t] # t /\ pc'[t] = "kill" /\ kill'[t] = loop
        BY <1>7, <2>2 DEF KillFind
      <3>3. NeverOwnTarget'
        BY <2>3, <3>1, <3>2
      <3> QED
        BY <1>7, <3>3 DEF KillFind
  <1>8. ASSUME NEW t \in Threads, Kill(t)
        PROVE  OneRunning' /\ NeverOwnTarget'
    <2>1. kill[t] \in KillLoops /\ kill[t].i \in Slots /\ target[t] \in Slots
      BY DEF KillLoops
    <2>2. CASE KillScan(t)
      <3> DEFINE child == state[kill[t].i] # "FREE" /\ parent_pid[kill[t].i] = kill[t].parent
                 pushed == IF child /\ Len(kill[t].work) < MAX_PROCESSES
                           THEN [kill[t] EXCEPT !.work = Append(@, pid[kill[t].i])]
                           ELSE kill[t]
                 on == Onward(pushed, target[t])
      <3>1. pushed \in KillLoops /\ ~pushed.last /\ pushed.i = kill[t].i
        <4>1. pid[kill[t].i] \in Nat /\ ~kill[t].last
          BY <2>1, <2>2 DEF KillScan
        <4> QED
          BY <2>1, <4>1, PushType
      <3> HIDE DEF pushed
      <3>2. on.last => on.i = target[t]
        BY <2>1, <3>1, OnwardLast
      <3> HIDE DEF on
      <3>3. /\ kill' = [kill EXCEPT ![t] = IF child /\ kill[t].i # t THEN pushed ELSE on]
            /\ pc' = [pc EXCEPT ![t] = IF \/ (IF child /\ kill[t].i # t THEN pushed ELSE on).last
                                          \/ (child /\ kill[t].i # t)
                                       THEN "free" ELSE "kill"]
        BY <2>2 DEF KillScan, pushed, on
      <3> HIDE DEF child
      <3>4. NeverOwnTarget'
        <4>1. \A u \in Threads : u # t =>
                pc'[u] = pc[u] /\ kill'[u] = kill[u] /\ target'[u] = target[u]
          BY <2>2, <3>3 DEF KillScan
        <4>2. target'[t] = target[t] /\ target[t] # t /\ pc'[t] \in {"kill", "free"}
          BY <2>2, <3>3 DEF KillScan
        <4>3. CASE child /\ kill[t].i # t
          <5>1. pc'[t] = "free" /\ kill'[t] = pushed
            BY <3>3, <4>3
          <5> QED
            BY <3>1, <4>1, <4>2, <4>3, <5>1
        <4>4. CASE ~(child /\ kill[t].i # t)
          <5>1. kill'[t] = on /\ pc'[t] = IF on.last THEN "free" ELSE "kill"
            BY <3>3, <4>4
          <5> QED
            BY <3>2, <4>1, <4>2, <5>1
        <4> QED
          BY <4>3, <4>4
      <3>5. OneRunning'
        BY <2>2, <3>3 DEF KillScan
      <3> QED
        BY <3>4, <3>5
    <2>3. CASE FreeStack(t)
      BY <2>3 DEF FreeStack
    <2>4. CASE ClearStack(t)
      BY <2>4 DEF ClearStack
    <2>5. CASE MarkFree(t)
      BY <2>1, <2>5 DEF MarkFree
    <2>6. CASE ClearPid(t)
      <3> DEFINE on == Onward(kill[t], target[t])
      <3>1. ~kill[t].last => (on.last => on.i = target[t])
        BY <2>1, OnwardLast
      <3> HIDE DEF on
      <3>2. /\ kill' = [kill EXCEPT ![t] = IF kill[t].last THEN NoKill ELSE on]
            /\ pc' = [pc EXCEPT ![t] =
                        IF kill[t].last THEN "user"
                        ELSE IF (IF kill[t].last THEN NoKill ELSE on).last
                             THEN "free" ELSE "kill"]
        BY <2>6 DEF ClearPid, on
      <3>3. NeverOwnTarget'
        BY <2>6, <3>1, <3>2 DEF ClearPid
      <3>4. OneRunning'
        BY <2>6, <3>2 DEF ClearPid
      <3> QED
        BY <3>3, <3>4
    <2> QED
      BY <1>8, <2>2, <2>3, <2>4, <2>5, <2>6 DEF Kill
  <1>9. CASE UNCHANGED vars
    BY <1>9 DEF vars
  <1> QED
    BY <1>1, <1>2, <1>3, <1>4, <1>5, <1>6, <1>7, <1>8, <1>9 DEF Next

\* Only the kernel thread itself, by process_schedule or by being preempted,
\* gives up the CPU, and both save its context.
LEMMA KernelContextStep ==
  TypeOK /\ KernelContextSaved /\ [Next]_vars => KernelContextSaved'
  <1> SUFFICES ASSUME TypeOK, KernelContextSaved, [Next]_vars
               PROVE  KernelContextSaved'
    OBVIOUS
  <1> USE Constants DEF TypeOK, KernelContextSaved, table, alloc, thread
  <1>1. ASSUME NEW t \in Threads, Create(t) PROVE KernelContextSaved'
    BY <1>1 DEF Create, CreateReserve, CreateFail, CreateLoad, CreatePublish,
       CreateNumber, CreateStack, CreateStackFail, CreateContext, Returns
  <1>2. ASSUME NEW t \in Threads, Schedule(t) PROVE KernelContextSaved'
    BY <1>2 DEF Schedule, Yield, ScheduleSwitch, ScheduleStay, Resume, Preempt,
       CallsSchedule
  <1>3. ASSUME NEW t \in Threads,
               ExecFind(t) \/ ExecLost(t) \/ ExecReturn(t) \/ Exit(t) \/ Kill(t)
        PROVE  KernelContextSaved'
    <2>1. CASE ExecFind(t) \/ ExecLost(t) \/ ExecReturn(t)
      BY <2>1 DEF ExecFind, ExecLost, ExecReturn, Returns
    <2>2. CASE Exit(t)
      BY <2>2 DEF Exit
    <2>3. CASE Kill(t)
      <3>1. kill[t].i \in Slots
        BY DEF KillLoops
      <3> QED
        BY <2>3, <3>1
        DEF Kill, KillScan, FreeStack, ClearStack, MarkFree, ClearPid
    <2> QED
      BY <1>3, <2>1, <2>2, <2>3
  <1>4. ASSUME NEW t \in Threads, NEW p \in 1 .. MaxPid, KillFind(t, p)
        PROVE  KernelContextSaved'
    BY <1>4 DEF KillFind
  <1>5. CASE UNCHANGED vars
    BY <1>5 DEF vars
  <1> QED
    BY <1>1, <1>2, <1>3, <1>4, <1>5 DEF Next

\* The inductive invariant holds on both builds.
LEMMA Invariance == Spec => []IInv
  <1>1. IInv /\ [Next]_vars => IInv'
    BY TypeStep, RunningStep, KernelContextStep DEF IInv
  <1> QED
    BY <1>1, InitIInv, PTL DEF Spec

\* Types: in particular every slot index process.c computes is in range.
THEOREM TypeCorrect == Spec => []TypeOK
  BY Invariance, PTL DEF IInv

\* current_pid and the RUNNING state agree in every reachable state, for any
\* number of slots, with and without timer preemption.
THEOREM SchedulerConsistent == Spec => []TableConsistent
  BY Invariance, PTL DEF IInv, TableConsistent

\* process_exit always finds a saved kernel_context.
THEOREM KernelReachable == Spec => []KernelContextSaved
  BY Invariance, PTL DEF IInv

-----------------------------------------------------------------------------
(* The build without timer preemption.  A thread that does not own the CPU *)
(* is suspended in process_schedule or has not started, so a call of the   *)
(* process API is never interleaved with another one.                      *)

Suspended ==
  \A t \in Threads :
    t # current_pid => pc[t] \in {"none", "dead", "user", "sched"}

\* No two slots remember the same pid, stale ones included.
PidsDistinct ==
  /\ next_pid > 0
  /\ \A s \in Slots :
       /\ pid[s] < next_pid
       /\ pid[s] # 0 => \A u \in Slots : pid[u] = pid[s] => u = s

\* What process_create and process_kill have achieved when they reach each of
\* their stages.
StageFacts ==
  \A t \in Threads :
    /\ pc[t] = "number" => reg[t] = next_pid
    /\ pc[t] \in {"stack", "context"} => pid[target[t]] # 0
    /\ pc[t] = "context" => stack_base[target[t]] \in stacks
    /\ pc[t] = "unpid" => state[kill[t].i] = "FREE"

\* process_kill has freed the stack of s and has not yet marked s FREE.
LosesStack(s) == \E t \in Threads : pc[t] \in {"clear", "mark"} /\ kill[t].i = s

\* What the scheduler needs of a process it may pick.
Complete ==
  \A s \in Slots : state[s] \in {"READY", "RUNNING"} =>
    /\ stack_base[s] \in stacks \/ LosesStack(s)
    /\ pc[s] \notin {"none", "dead"}
    /\ pid[s] # 0

\* The inductive invariant of the build without preemption.
CoopInv ==
  /\ Suspended
  /\ ReservationHeld
  /\ PidsDistinct
  /\ StacksOwnedOnce
  /\ StageFacts
  /\ Complete

LEMMA CoopInit == Init => CoopInv
  BY Constants
  DEF Init, CoopInv, Suspended, ReservationHeld, PidsDistinct, StacksOwnedOnce,
      StageFacts, Complete, CreateStages

\* Without preemption the CPU leaves a thread only in process_schedule or
\* process_exit, and a reserved slot is touched by its creator alone.
LEMMA CoopControlStep ==
  ASSUME ~PREEMPTIVE, IInv, Suspended, ReservationHeld, [Next]_vars
  PROVE  Suspended' /\ ReservationHeld'
  <1> USE Constants
      DEF IInv, TypeOK, NeverOwnTarget, OneRunning, Suspended,
          ReservationHeld, CreateStages, KillStages, VictimStages, table,
          alloc, thread, history
  <1> DEFINE G == Suspended' /\ ReservationHeld'
  <1>1. ASSUME NEW t \in Threads, Create(t) PROVE G
    <2>1. ASSUME NEW isExec \in BOOLEAN, CreateReserve(t, isExec) PROVE G
      BY <2>1 DEF CreateReserve
    <2>2. CASE CreateFail(t)
      BY <2>2 DEF CreateFail, Returns
    <2>3. CASE CreateLoad(t)
      BY <2>3 DEF CreateLoad
    <2>4. CASE CreatePublish(t)
      BY <2>4 DEF CreatePublish
    <2>5. CASE CreateNumber(t)
      BY <2>5 DEF CreateNumber
    <2>6. CASE CreateStack(t)
      BY <2>6 DEF CreateStack
    <2>7. CASE CreateStackFail(t)
      BY <2>7 DEF CreateStackFail, Returns
    <2>8. CASE CreateContext(t)
      BY <2>8 DEF CreateContext
    <2> QED
      BY <1>1, <2>1, <2>2, <2>3, <2>4, <2>5, <2>6, <2>7, <2>8 DEF Create
  <1>2. ASSUME NEW t \in Threads, Schedule(t) PROVE G
    <2>1. CASE Yield(t)
      BY <2>1 DEF Yield
    <2>2. CASE ScheduleSwitch(t)
      BY <2>2 DEF ScheduleSwitch, CallsSchedule
    <2>3. CASE ScheduleStay(t)
      BY <2>3 DEF ScheduleStay, AfterSchedule, CallsSchedule
    <2>4. CASE Resume(t)
      BY <2>4 DEF Resume, AfterSchedule
    <2> QED
      BY <1>2, <2>1, <2>2, <2>3, <2>4 DEF Schedule, Preempt
  <1>3. ASSUME NEW t \in Threads, ExecFind(t) \/ ExecLost(t) \/ ExecReturn(t)
        PROVE  G
    BY <1>3 DEF ExecFind, ExecLost, ExecReturn, Returns
  <1>4. ASSUME NEW t \in Threads, Exit(t) PROVE G
    BY <1>4 DEF Exit
  <1>5. ASSUME NEW t \in Threads, NEW p \in 1 .. MaxPid, KillFind(t, p)
        PROVE  G
    BY <1>5 DEF KillFind
  <1>6. ASSUME NEW t \in Threads, Kill(t) PROVE G
    <2>1. kill[t].i \in Slots
      BY DEF KillLoops
    <2>2. CASE KillScan(t)
      BY <2>2 DEF KillScan
    <2>3. CASE FreeStack(t)
      BY <2>3 DEF FreeStack
    <2>4. CASE ClearStack(t)
      BY <2>4 DEF ClearStack
    <2>5. CASE MarkFree(t)
      BY <2>1, <2>5 DEF MarkFree
    <2>6. CASE ClearPid(t)
      BY <2>6 DEF ClearPid
    <2> QED
      BY <1>6, <2>2, <2>3, <2>4, <2>5, <2>6 DEF Kill
  <1>7. CASE UNCHANGED vars
    BY <1>7 DEF vars
  <1> QED
    BY <1>1, <1>2, <1>3, <1>4, <1>5, <1>6, <1>7 DEF Next

\* Stacks change hands in CreateStack, and process_kill clears the pointer to
\* the stack it has freed before any other thread gets the CPU.
LEMMA CoopStackStep ==
  ASSUME ~PREEMPTIVE, IInv, StacksOwnedOnce, [Next]_vars
  PROVE  StacksOwnedOnce'
  <1> USE Constants
      DEF IInv, TypeOK, NeverOwnTarget, CreateStages, KillStages, VictimStages,
          StacksOwnedOnce, table, alloc, thread, history
  <1>1. ASSUME NEW t \in Threads, Create(t) PROVE StacksOwnedOnce'
    <2>1. ASSUME NEW isExec \in BOOLEAN, CreateReserve(t, isExec)
          PROVE  StacksOwnedOnce'
      BY <2>1 DEF CreateReserve
    <2>2. CASE CreateFail(t)
      BY <2>2 DEF CreateFail, Returns
    <2>3. CASE CreateLoad(t) \/ CreatePublish(t) \/ CreateNumber(t)
      BY <2>3 DEF CreateLoad, CreatePublish, CreateNumber
    <2>4. CASE CreateStack(t)
      BY <2>4 DEF CreateStack
    <2>5. CASE CreateStackFail(t)
      BY <2>5 DEF CreateStackFail, Returns
    <2>6. CASE CreateContext(t)
      BY <2>6 DEF CreateContext
    <2> QED
      BY <1>1, <2>1, <2>2, <2>3, <2>4, <2>5, <2>6 DEF Create
  <1>2. ASSUME NEW t \in Threads, Schedule(t) PROVE StacksOwnedOnce'
    <2>1. CASE Yield(t)
      BY <2>1 DEF Yield
    <2>2. CASE ScheduleSwitch(t)
      BY <2>2 DEF ScheduleSwitch, CallsSchedule
    <2>3. CASE ScheduleStay(t)
      BY <2>3 DEF ScheduleStay, CallsSchedule
    <2>4. CASE Resume(t)
      BY <2>4 DEF Resume
    <2> QED
      BY <1>2, <2>1, <2>2, <2>3, <2>4 DEF Schedule, Preempt
  <1>3. ASSUME NEW t \in Threads, ExecFind(t) \/ ExecLost(t) \/ ExecReturn(t)
        PROVE  StacksOwnedOnce'
    BY <1>3 DEF ExecFind, ExecLost, ExecReturn, Returns
  <1>4. ASSUME NEW t \in Threads, Exit(t) PROVE StacksOwnedOnce'
    <2> DEFINE K == Visited(pid[t]) \ {t}
    <2>1. K \in SUBSET Slots /\ KillSlots(K)
      BY <1>4 DEF Visited, Exit
    <2> HIDE DEF K
    <2>2. \A s \in Slots : stack_base[s] # NULL =>
            /\ stack_base[s] \in stacks
            /\ \A u \in Slots : stack_base[u] = stack_base[s] => u = s
      BY <1>4 DEF Exit
    <2> QED
      BY <2>1, <2>2 DEF KillSlots
  <1>5. ASSUME NEW t \in Threads, NEW p \in 1 .. MaxPid, KillFind(t, p)
        PROVE  StacksOwnedOnce'
    BY <1>5 DEF KillFind
  <1>6. ASSUME NEW t \in Threads, Kill(t) PROVE StacksOwnedOnce'
    <2>1. kill[t].i \in Slots
      BY DEF KillLoops
    <2>2. CASE KillScan(t)
      BY <2>2 DEF KillScan
    <2>3. CASE FreeStack(t)
      BY <2>1, <2>3 DEF FreeStack
    <2>4. CASE ClearStack(t)
      BY <2>1, <2>4 DEF ClearStack
    <2>5. CASE MarkFree(t)
      BY <2>1, <2>5 DEF MarkFree
    <2>6. CASE ClearPid(t)
      BY <2>6 DEF ClearPid
    <2> QED
      BY <1>6, <2>2, <2>3, <2>4, <2>5, <2>6 DEF Kill
  <1>7. CASE UNCHANGED vars
    BY <1>7 DEF vars
  <1> QED
    BY <1>1, <1>2, <1>3, <1>4, <1>5, <1>6, <1>7 DEF Next

\* pids are handed out in increasing order, and a stage of
\* process_create finds what the earlier stages of the same call left.
LEMMA CoopDataStep ==
  ASSUME ~PREEMPTIVE, IInv, CoopInv, [Next]_vars
  PROVE  PidsDistinct' /\ StageFacts' /\ Complete'
  <1> DEFINE G == PidsDistinct' /\ StageFacts' /\ Complete'
  <1> USE Constants
      DEF IInv, TypeOK, NeverOwnTarget, OneRunning, Suspended, CoopInv,
          ReservationHeld, CreateStages, KillStages, VictimStages,
          PidsDistinct, StageFacts, Complete, LosesStack, table, alloc,
          thread, history
  <1>1. ASSUME NEW t \in Threads, Create(t) PROVE G
    <2>1. ASSUME NEW isExec \in BOOLEAN, CreateReserve(t, isExec) PROVE G
      BY <2>1 DEF CreateReserve
    <2>2. CASE CreateFail(t)
      BY <2>2 DEF CreateFail, Returns
    <2>3. CASE CreateLoad(t)
      BY <2>3, ProcessAssumption DEF CreateLoad, ProcessAssumption
    <2>4. CASE CreatePublish(t)
      BY <2>4 DEF CreatePublish
    <2>5. CASE CreateNumber(t)
      <3>1. reg[t] = next_pid /\ target[t] \in Slots
        BY <2>5 DEF CreateNumber
      <3>2. PidsDistinct'
        BY <2>5, <3>1 DEF CreateNumber
      <3>3. StageFacts'
        BY <2>5, <3>1 DEF CreateNumber
      <3>4. Complete'
        BY <2>5, <3>1 DEF CreateNumber
      <3> QED
        BY <3>2, <3>3, <3>4
    <2>6. CASE CreateStack(t)
      BY <2>6 DEF CreateStack
    <2>7. CASE CreateStackFail(t)
      BY <2>7 DEF CreateStackFail, Returns
    <2>8. CASE CreateContext(t)
      BY <2>8 DEF CreateContext
    <2> QED
      BY <1>1, <2>1, <2>2, <2>3, <2>4, <2>5, <2>6, <2>7, <2>8 DEF Create
  <1>2. ASSUME NEW t \in Threads, Schedule(t) PROVE G
    <2>1. CASE Yield(t)
      BY <2>1 DEF Yield
    <2>2. CASE ScheduleSwitch(t)
      BY <2>2 DEF ScheduleSwitch, CallsSchedule, Switched, FirstFrom, Ready
    <2>3. CASE ScheduleStay(t)
      BY <2>3 DEF ScheduleStay, AfterSchedule, CallsSchedule, FirstFrom, Ready
    <2>4. CASE Resume(t)
      BY <2>4 DEF Resume, AfterSchedule
    <2> QED
      BY <1>2, <2>1, <2>2, <2>3, <2>4 DEF Schedule, Preempt
  <1>3. ASSUME NEW t \in Threads, ExecFind(t) \/ ExecLost(t) \/ ExecReturn(t)
        PROVE  G
    BY <1>3 DEF ExecFind, ExecLost, ExecReturn, Returns
  <1>5. ASSUME NEW t \in Threads, Exit(t) PROVE G
    <2> DEFINE K == Visited(pid[t]) \ {t}
    <2>1. K \in SUBSET Slots /\ KillSlots(K) /\ t \in Slots
      BY <1>5 DEF Visited, Exit
    <2>2. \A u \in Threads : pc[u] \notin {"clear", "mark"}
      BY <1>5 DEF Exit
    <2> HIDE DEF K
    <2>3. PidsDistinct'
      BY <1>5, <2>1 DEF Exit, KillSlots, K
    <2>4. StageFacts'
      BY <1>5, <2>1 DEF Exit, K
    <2>5. Complete'
      BY <1>5, <2>1, <2>2 DEF Exit, KillSlots, K, StacksOwnedOnce
    <2> QED
      BY <2>3, <2>4, <2>5
  <1>6. ASSUME NEW t \in Threads, NEW p \in 1 .. MaxPid, KillFind(t, p)
        PROVE  G
    BY <1>6 DEF KillFind
  <1>7. ASSUME NEW t \in Threads, Kill(t) PROVE G
    <2>1. kill[t].i \in Slots
      BY DEF KillLoops
    <2>2. CASE KillScan(t)
      BY <2>2 DEF KillScan
    <2>3. CASE FreeStack(t)
      <3>1. \A s \in Slots : s # kill[t].i /\ stack_base[s] \in stacks
              => stack_base[s] \in stacks'
        <4> SUFFICES ASSUME NEW s \in Slots, s # kill[t].i, stack_base[s] \in stacks
                     PROVE  stack_base[s] \in stacks'
          OBVIOUS
        <4>1. stack_base[s] # NULL
          OBVIOUS
        <4>2. current_pid = t /\ pc[t] = "free" /\ stacks' = stacks \ {stack_base[kill[t].i]}
          BY <2>3 DEF FreeStack
        <4>3. \A u \in Slots : stack_base[u] = stack_base[s] => u = s
          BY <4>1, <4>2 DEF StacksOwnedOnce
        <4> QED
          BY <2>1, <4>2, <4>3
      <3>2. \A u \in Threads : pc[u] \notin {"clear", "mark"}
        BY <2>3 DEF FreeStack
      <3>3. pc'[t] \in {"clear", "mark"}
        BY <2>3 DEF FreeStack
      <3>4. Complete'
        BY <2>1, <2>3, <3>1, <3>2, <3>3 DEF FreeStack
      <3> QED
        BY <2>3, <3>4 DEF FreeStack
    <2>4. CASE ClearStack(t)
      BY <2>1, <2>4 DEF ClearStack, StacksOwnedOnce
    <2>5. CASE MarkFree(t)
      BY <2>1, <2>5 DEF MarkFree
    <2>6. CASE ClearPid(t)
      <3>1. \A u \in Threads : pc[u] \notin {"clear", "mark"}
        BY <2>6 DEF ClearPid
      <3>2. pid' = [pid EXCEPT ![kill[t].i] = 0] /\ state[kill[t].i] = "FREE"
        BY <2>1, <2>6 DEF ClearPid
      <3>3. PidsDistinct'
        BY <2>1, <2>6, <3>2 DEF ClearPid
      <3>4. \A u \in Threads :
              pc'[u] \notin {"number", "stack", "context", "unpid", "clear", "mark"}
        BY <2>1, <2>6 DEF ClearPid
      <3>5. Complete'
        BY <2>1, <2>6, <3>1, <3>2 DEF ClearPid
      <3> QED
        BY <3>3, <3>4, <3>5
    <2> QED
      BY <1>7, <2>2, <2>3, <2>4, <2>5, <2>6 DEF Kill
  <1>8. CASE UNCHANGED vars
    BY <1>8 DEF vars
  <1> QED
    BY <1>1, <1>2, <1>3, <1>5, <1>6, <1>7, <1>8 DEF Next

\* The inductive invariant holds on the build without preemption.
LEMMA CoopInvariance == ~PREEMPTIVE /\ Spec => []CoopInv
  <1> SUFFICES ASSUME ~PREEMPTIVE PROVE Spec => []CoopInv
    OBVIOUS
  <1>1. IInv /\ CoopInv /\ [Next]_vars => CoopInv'
    BY CoopControlStep, CoopStackStep, CoopDataStep DEF CoopInv
  <1> QED
    BY <1>1, CoopInit, Invariance, PTL DEF Spec

\* Without preemption a slot stays BLOCKED until process_create has finished
\* with it: no kill and no other creation gets in between.
THEOREM ReservationSafe == ~PREEMPTIVE /\ Spec => []ReservationHeld
  BY CoopInvariance, PTL DEF CoopInv

\* Without preemption the scheduler only ever picks processes with a stack, a
\* context and a pid of their own.
THEOREM RunnableSafe == ~PREEMPTIVE /\ Spec => []RunnableIsComplete
  <1>1. IInv /\ CoopInv => RunnableIsComplete
    BY Constants
    DEF IInv, TypeOK, CoopInv, Complete, LosesStack, PidsDistinct,
        RunnableIsComplete
  <1> QED
    BY <1>1, Invariance, CoopInvariance, PTL

\* Without preemption process_kill and kill_children free no stack twice, and
\* no process runs on a stack that another one has got.
THEOREM StackSafety == ~PREEMPTIVE /\ Spec => []StacksOwnedOnce
  BY CoopInvariance, PTL DEF CoopInv

\* Without preemption nothing of an unfinished process_create is ever visible.
THEOREM CreationIsSafe == ~PREEMPTIVE /\ Spec => []CreationSafe
  BY ReservationSafe, RunnableSafe, PTL DEF CreationSafe
=============================================================================
