------------------------------ MODULE RunQueue ------------------------------
(***************************************************************************)
(* The task scheduler of kernel/sched: the run queue of sched.c, task      *)
(* creation by create_task, create_thread and do_fork, exit, wake-up and   *)
(* kill, and the signals and do_waitpid of signal.c.  There is one CPU and *)
(* no preemption here: every call is made by the current task, runs to its *)
(* end or to a context switch, and is one step; do_signal, whose loop may  *)
(* switch in the middle, is one step per signal.                           *)
(***************************************************************************)
EXTENDS Integers, FiniteSets

CONSTANTS
  MAX_TASKS,      \* size of task_pool; tasks are never returned to it
  SIG_POOL,       \* size of sig_pool
  Workloads,      \* the calls the tasks make: the signals they send, by number,
                  \* and the tasks among them that call do_waitpid
  MaxRunning,     \* bound on nr_running, which counts a task queued twice twice
  NULL

SIGKILL == 9
SIGTERM == 15
SIGCONT == 18
SIGSTOP == 19

IDLE == 0                       \* init_task
Tasks == 1 .. MAX_TASKS
All == {IDLE} \cup Tasks

ASSUME RunQueueAssumption ==
  /\ MAX_TASKS \in Nat /\ SIG_POOL \in Nat /\ MaxRunning \in Nat
  /\ \A w \in Workloads : /\ w.sigs \subseteq {SIGKILL, SIGTERM, SIGCONT, SIGSTOP}
                          /\ w.waiters \subseteq Tasks
  /\ NULL \notin Int

VARIABLES
  rq,          \* head, tail, nr_running, current, and the tasks' next and prev
  state,       \* task->state, "none" for a pool entry not yet used
  pool_index,  \* task_pool_index
  stack,       \* tasks whose creation got as far as a kernel stack
  exiting,     \* tasks with PF_EXITING and bit 9 of pending_signals
  signals,     \* tasks with a signal_struct
  pending, blocked, ignored,   \* its sets of signals
  todo,        \* what the loop of a do_signal under way has still to handle
  calls,       \* the workload; it never changes
  woken        \* history: wake_up_process has queued a task again

pool == <<pool_index, stack>>
sig == <<signals, pending, blocked, ignored, todo>>
vars == <<rq, state, pool, exiting, sig, calls, woken>>

\* sched_init
Init ==
  /\ rq = [head |-> NULL, tail |-> NULL, nr_running |-> 0, current |-> IDLE,
           next |-> [t \in All |-> NULL], prev |-> [t \in All |-> NULL]]
  /\ state = [t \in All |-> IF t = IDLE THEN "RUNNING" ELSE "none"]
  /\ pool_index = 0
  /\ stack = {}
  /\ exiting = {}
  /\ signals = {}
  /\ pending = [t \in All |-> {}]
  /\ blocked = [t \in All |-> {}]
  /\ ignored = [t \in All |-> {}]
  /\ todo = [t \in All |-> {}]
  /\ calls \in Workloads
  /\ woken = FALSE

current == rq.current

-----------------------------------------------------------------------------
(* The run queue. *)

\* Mutant: a task goes to the front.
enqueue_task_front(r, t) ==
  IF r.head = NULL
  THEN [r EXCEPT !.head = t, !.tail = t, !.next[t] = NULL, !.prev[t] = NULL,
                 !.nr_running = @ + 1]
  ELSE LET linked == [r EXCEPT !.next[t] = r.head, !.prev[t] = NULL]
       IN  [linked EXCEPT !.prev[r.head] = t, !.head = t, !.nr_running = @ + 1]

\* Append t.
enqueue_task(r, t) ==
  IF r.head = NULL
  THEN [r EXCEPT !.head = t, !.tail = t, !.next[t] = NULL, !.prev[t] = NULL,
                 !.nr_running = @ + 1]
  ELSE LET linked == [r EXCEPT !.prev[t] = r.tail, !.next[t] = NULL]
       IN  [linked EXCEPT !.next[r.tail] = t, !.tail = t, !.nr_running = @ + 1]

\* Mutant: tail is not moved when the last task leaves.
dequeue_task_keeps_tail(r, t) ==
  LET p == r.prev[t]
      n == r.next[t]
      front == IF p # NULL THEN [r EXCEPT !.next[p] = n]
               ELSE [r EXCEPT !.head = n]
      back == IF n # NULL THEN [front EXCEPT !.prev[n] = p] ELSE front
  IN  [back EXCEPT !.next[t] = NULL, !.prev[t] = NULL,
                   !.nr_running = IF @ > 0 THEN @ - 1 ELSE @]

\* Take t out.
dequeue_task(r, t) ==
  LET p == r.prev[t]
      n == r.next[t]
      front == IF p # NULL THEN [r EXCEPT !.next[p] = n]
               ELSE [r EXCEPT !.head = n]
      back == IF n # NULL THEN [front EXCEPT !.prev[n] = p]
              ELSE [front EXCEPT !.tail = p]
  IN  [back EXCEPT !.next[t] = NULL, !.prev[t] = NULL,
                   !.nr_running = IF @ > 0 THEN @ - 1 ELSE @]

pick_next_task(r) == IF r.head = NULL THEN IDLE ELSE r.head

\* schedule and context_switch, from queue r with task states st.
Scheduled(r, st) ==
  LET prev == r.current
      next == pick_next_task(r)
      moved == IF st[prev] = "RUNNING" /\ prev # IDLE
               THEN enqueue_task(dequeue_task(r, prev), prev) ELSE r
  IN  IF next = prev THEN r ELSE [moved EXCEPT !.current = next]

\* sys_sched_yield
Schedule ==
  /\ rq' = Scheduled(rq, state)
  /\ UNCHANGED <<state, pool, exiting, sig, woken>>

\* create_task; create_thread and do_fork queue their task the same way, and
\* do_fork leaves it queued when copy_mm fails.
CreateTask ==
  LET t == pool_index + 1 IN
  /\ pool_index < MAX_TASKS
  /\ pool_index' = t
  /\ stack' = stack \cup {t}
  /\ state' = [state EXCEPT ![t] = "RUNNING"]
  /\ rq' = enqueue_task(rq, t)
  /\ UNCHANGED <<exiting, sig, woken>>

\* create_task gets no stack: the pool entry is used up, without a pid by which
\* it could be found.
CreateTaskFail ==
  /\ pool_index < MAX_TASKS
  /\ pool_index' = pool_index + 1
  /\ UNCHANGED <<rq, state, stack, exiting, sig, woken>>

\* create_thread gets no stack: the entry has its pid and TASK_RUNNING already,
\* and is not queued.
CreateThreadFail ==
  /\ pool_index < MAX_TASKS
  /\ pool_index' = pool_index + 1
  /\ state' = [state EXCEPT ![pool_index + 1] = "RUNNING"]
  /\ UNCHANGED <<rq, stack, exiting, sig, woken>>

\* exit_task of the current task.  The idle task does not exit.
ExitTask ==
  LET zombie == [state EXCEPT ![current] = "ZOMBIE"] IN
  /\ current # IDLE
  /\ state' = zombie
  /\ exiting' = exiting \cup {current}
  /\ rq' = Scheduled(dequeue_task(rq, current), zombie)

Exit == ExitTask /\ UNCHANGED <<pool, sig, woken>>

\* wake_up_process of t, a task that do_waitpid left in the queue.
WakeUp(t) ==
  /\ rq.nr_running < MaxRunning
  /\ state' = [state EXCEPT ![t] = "RUNNING"]
  /\ rq' = enqueue_task(rq, t)
  /\ woken' = TRUE

\* Only a task in TASK_INTERRUPTIBLE is woken.
WakeIfWaiting(t) ==
  IF state[t] = "INTERRUPTIBLE" THEN WakeUp(t) ELSE UNCHANGED <<rq, state, woken>>

\* sched_kill_task: any task the pool has handed out but idle.
KillTask(t) ==
  /\ state[t] # "none"
  /\ exiting' = exiting \cup {t}
  /\ WakeIfWaiting(t)
  /\ UNCHANGED <<pool, sig>>

-----------------------------------------------------------------------------
(* Signals. *)

\* signal_init; a second call resets the structure the task has.
SignalInit(t) ==
  /\ state[t] # "none"
  /\ t \in signals \/ Cardinality(signals) < SIG_POOL
  /\ signals' = signals \cup {t}
  /\ pending' = [pending EXCEPT ![t] = {}]
  /\ blocked' = [blocked EXCEPT ![t] = {}]
  /\ ignored' = [ignored EXCEPT ![t] = {}]
  /\ UNCHANGED <<rq, state, pool, exiting, woken, todo>>

\* kill_task.
Kill(t, s) ==
  /\ t \in signals
  /\ pending' = [pending EXCEPT ![t] = @ \cup {s}]
  /\ WakeIfWaiting(t)
  /\ UNCHANGED <<pool, exiting, signals, blocked, ignored, todo>>

\* Mutant: every signal can be blocked.
SigProcMaskAll(S) ==
  /\ current \in signals
  /\ blocked' = [blocked EXCEPT ![current] = S]
  /\ UNCHANGED <<rq, state, pool, exiting, woken, signals, pending, ignored, todo>>

\* sigprocmask of the current task; the three ways to change the mask reach
\* every set, and SIGKILL and SIGSTOP are taken out last.
SigProcMask(S) ==
  /\ current \in signals
  /\ blocked' = [blocked EXCEPT ![current] = S \ {SIGKILL, SIGSTOP}]
  /\ UNCHANGED <<rq, state, pool, exiting, woken, signals, pending, ignored, todo>>

\* sigaction of the current task: a signal is ignored (or handled, which
\* changes nothing here) or gets its default action back.
SigAction(s, ignore) ==
  /\ current \in signals
  /\ s \notin {SIGKILL, SIGSTOP}
  /\ ignored' = [ignored EXCEPT ![current] =
                   IF ignore THEN @ \cup {s} ELSE @ \ {s}]
  /\ UNCHANGED <<rq, state, pool, exiting, woken, signals, pending, blocked, todo>>

\* do_signal takes the set of signals it will handle.
DoSignal ==
  /\ current \in signals
  /\ todo[current] = {} /\ pending[current] \ blocked[current] # {}
  /\ todo' = [todo EXCEPT ![current] = pending[current] \ blocked[current]]
  /\ UNCHANGED <<rq, state, pool, exiting, woken, signals, pending, blocked, ignored>>

\* It handles the lowest: clear the bit, then ignore, continue, stop or exit.
HandleSignal ==
  /\ todo[current] # {}
  /\ \E s \in todo[current] :
       /\ \A u \in todo[current] : s <= u
       /\ pending' = [pending EXCEPT ![current] = @ \ {s}]
       /\ todo' = [todo EXCEPT ![current] = @ \ {s}]
       /\ \/ /\ s \in ignored[current]
             /\ UNCHANGED <<rq, state, exiting>>
          \/ /\ s \notin ignored[current] /\ s = SIGCONT
             /\ state' = [state EXCEPT ![current] = "RUNNING"]
             /\ UNCHANGED <<rq, exiting>>
          \/ /\ s \notin ignored[current] /\ s = SIGSTOP
             /\ state' = [state EXCEPT ![current] = "STOPPED"]
             /\ rq' = Scheduled(rq, state')
             /\ UNCHANGED exiting
          \/ s \notin ignored[current] /\ s \in {SIGKILL, SIGTERM} /\ ExitTask
  /\ UNCHANGED <<pool, signals, blocked, ignored, woken>>

\* do_waitpid of the current task: it does not leave the run queue.
DoWaitpid ==
  /\ current \in calls.waiters
  /\ state' = [state EXCEPT ![current] = "INTERRUPTIBLE"]
  /\ rq' = Scheduled(rq, state')
  /\ UNCHANGED <<pool, exiting, sig, woken>>

-----------------------------------------------------------------------------

Step ==
  \/ Schedule \/ CreateTask \/ CreateTaskFail \/ CreateThreadFail \/ Exit
  \/ \E t \in Tasks : KillTask(t) \/ SignalInit(t)
  \/ \E t \in Tasks, s \in calls.sigs : Kill(t, s)
  \/ \E S \in SUBSET calls.sigs : SigProcMask(S)
  \/ \E s \in calls.sigs, ignore \in BOOLEAN : SigAction(s, ignore)
  \/ DoSignal \/ HandleSignal \/ DoWaitpid

Next == Step /\ UNCHANGED calls

Spec == Init /\ [][Next]_vars

-----------------------------------------------------------------------------
(* Properties. *)

\* Every variable keeps its type, and only the pool's tasks have a state.
TypeOK ==
  /\ rq.head \in Tasks \cup {NULL} /\ rq.tail \in Tasks \cup {NULL}
  /\ rq.nr_running \in 0 .. MaxRunning + MAX_TASKS
  /\ current \in All
  /\ rq.next \in [All -> Tasks \cup {NULL}] /\ rq.prev \in [All -> Tasks \cup {NULL}]
  /\ state \in [All -> {"none", "RUNNING", "INTERRUPTIBLE", "STOPPED", "ZOMBIE"}]
  /\ pool_index \in 0 .. MAX_TASKS
  /\ \A t \in Tasks : state[t] # "none" => t <= pool_index
  /\ stack \subseteq Tasks /\ exiting \subseteq Tasks /\ signals \subseteq Tasks
  /\ woken \in BOOLEAN
  /\ \A t \in All : pending[t] \cup blocked[t] \cup ignored[t] \cup todo[t] \subseteq calls.sigs

\* The tasks that belong in the queue: created with all they need, and not
\* exited.  A task that waits or is stopped does not leave the queue.
Queued == {t \in stack : state[t] \in {"RUNNING", "INTERRUPTIBLE", "STOPPED"}}

\* Queue r holds exactly the tasks of R: next and prev undo each other from
\* head to tail, every task of R is reached, and nr_running counts them.
Holds(r, R) ==
  /\ IF R = {} THEN r.head = NULL /\ r.tail = NULL ELSE {r.head, r.tail} \subseteq R
  /\ \A t \in R :
       /\ r.prev[t] = NULL <=> t = r.head
       /\ r.next[t] = NULL <=> t = r.tail
       /\ r.next[t] # NULL => r.next[t] \in R /\ r.prev[r.next[t]] = t
  /\ \A S \in SUBSET R :
       (r.head # NULL => r.head \in S) /\ (\A t \in S : r.next[t] # NULL => r.next[t] \in S)
         => S = R
  /\ r.nr_running = Cardinality(R)

\* Until a task is woken, the queue holds each task that has been created and
\* has not exited, once, and no other: not the RUNNING entry that a failed
\* create_thread leaves in the pool.  wake_up_process breaks this, because the
\* task it queues has not left the queue.
QueueExact == ~woken => Holds(rq, Queued)

\* Until a task is woken, the CPU runs the idle task or a task of the queue,
\* never one that has exited or has no stack.
CurrentQueued == ~woken => current = IDLE \/ current \in Queued

\* The queue, the states and the task on the CPU agree after every call.
QueueConsistent == TypeOK /\ QueueExact /\ CurrentQueued

\* SIGKILL and SIGSTOP are neither blocked nor ignored, by whatever calls.
KillNotMaskable ==
  \A t \in All : {SIGKILL, SIGSTOP} \cap (blocked[t] \cup ignored[t]) = {}

\* b comes after a in queue r.
Before(r, a, b) ==
  /\ a # b
  /\ \A S \in SUBSET Tasks :
       a \in S /\ (\A t \in S : r.next[t] # NULL => r.next[t] \in S) => b \in S

\* Until a task is woken, no call lets a task of the queue overtake one that
\* waits before it: creations, exits from the middle, stops and waits keep the
\* order, and only the task on the CPU goes behind the others.
NotOvertaken ==
  [][~woken' => \A a \in Queued \ {current}, b \in Queued :
       Before(rq, a, b) /\ {a, b} \subseteq Queued' => Before(rq', a, b)]_vars

\* "nr_running: Number of runnable tasks", whatever is woken.
RunnableCounted ==
  rq.nr_running = Cardinality({t \in Tasks : state[t] = "RUNNING"})

\* "Simple round-robin": every runnable task gets the CPU.
RoundRobin == \A t \in Tasks : state[t] = "RUNNING" ~> current = t \/ state[t] # "RUNNING"
=============================================================================
