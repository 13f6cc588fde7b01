--------------------------- MODULE RunQueueProofs ---------------------------
(***************************************************************************)
(* Proofs about RunQueue for every number of tasks and every workload.     *)
(* The inductive invariant joins the types to the signals that no mask     *)
(* holds and, until a task is woken, to what is in the queue and on the    *)
(* CPU.                                                                    *)
(***************************************************************************)
EXTENDS RunQueue, FiniteSetTheorems, TLAPS

\* Queues whose links lead to tasks of P only.
Queues(P) ==
  [head : P \cup {NULL}, tail : P \cup {NULL}, nr_running : Nat,
   current : P \cup {IDLE}, next : [All -> P \cup {NULL}], prev : [All -> P \cup {NULL}]]

\* The entries of the task pool that have been used.
Pool == 1 .. pool_index

\* The queue and the states: only wake_up_process can take nr_running above the
\* number of pool entries used.
QueueTypes ==
  /\ rq \in Queues(Pool) /\ rq.nr_running <= MaxRunning + pool_index
  /\ state \in [All -> {"none", "RUNNING", "INTERRUPTIBLE", "STOPPED", "ZOMBIE"}]
  /\ pool_index \in 0 .. MAX_TASKS
  /\ \A t \in Tasks : state[t] # "none" => t <= pool_index
  /\ exiting \subseteq Tasks /\ stack \subseteq Pool /\ woken \in BOOLEAN

\* The signals: a task without a signal_struct has no do_signal under way.
SignalTypes ==
  /\ calls \in Workloads /\ signals \subseteq Tasks
  /\ pending \in [All -> SUBSET calls.sigs] /\ blocked \in [All -> SUBSET calls.sigs]
  /\ ignored \in [All -> SUBSET calls.sigs] /\ todo \in [All -> SUBSET calls.sigs]
  /\ \A t \in All : todo[t] # {} => t \in signals

IInv ==
  /\ QueueTypes /\ SignalTypes
  /\ QueueExact /\ CurrentQueued
  /\ KillNotMaskable

-----------------------------------------------------------------------------
(* What enqueue_task and dequeue_task do to the fields. *)

LEMMA Identities == NULL \notin All /\ IDLE \notin Tasks /\ Tasks \subseteq All
BY RunQueueAssumption DEF All, Tasks, IDLE

LEMMA EnqueueFields ==
  ASSUME NEW P \in SUBSET Tasks, NEW r \in Queues(P), NEW t \in P
  PROVE  LET e == enqueue_task(r, t)
             last == IF r.head = NULL THEN NULL ELSE r.tail
         IN  /\ e \in Queues(P)
             /\ e.head = (IF r.head = NULL THEN t ELSE r.head) /\ e.tail = t
             /\ e.nr_running = r.nr_running + 1 /\ e.current = r.current
             /\ e.prev[t] = last /\ (last # t => e.next[t] = NULL)
             /\ \A u \in All \ {t} : /\ e.prev[u] = r.prev[u]
                                     /\ e.next[u] = IF u = last THEN t ELSE r.next[u]
<1> DEFINE last == IF r.head = NULL THEN NULL ELSE r.tail
           f == IF r.head = NULL THEN [r.next EXCEPT ![t] = NULL]
                ELSE [[r.next EXCEPT ![t] = NULL] EXCEPT ![r.tail] = t]
           g == [r.prev EXCEPT ![t] = last]
           e == [head |-> IF r.head = NULL THEN t ELSE r.head, tail |-> t,
                 nr_running |-> r.nr_running + 1, current |-> r.current,
                 next |-> f, prev |-> g]
<1>1. enqueue_task(r, t) = e
  <2>1. CASE r.head = NULL
    BY <2>1 DEF enqueue_task, Queues
  <2>2. CASE r.head # NULL
    BY <2>2 DEF enqueue_task, Queues
  <2> QED BY <2>1, <2>2
<1>2. /\ r.next \in [All -> P \cup {NULL}] /\ r.prev \in [All -> P \cup {NULL}]
      /\ r.head \in P \cup {NULL} /\ r.tail \in P \cup {NULL}
      /\ r.nr_running \in Nat /\ r.current \in P \cup {IDLE}
  BY DEF Queues
<1>3. /\ f \in [All -> P \cup {NULL}] /\ (last # t => f[t] = NULL)
      /\ \A u \in All \ {t} : f[u] = IF u = last THEN t ELSE r.next[u]
  BY <1>2, Identities
<1>4. /\ g \in [All -> P \cup {NULL}] /\ g[t] = last
      /\ \A u \in All \ {t} : g[u] = r.prev[u]
  BY <1>2, Identities
<1> HIDE DEF f, g
<1>5. e \in Queues(P)
  BY <1>2, <1>3, <1>4 DEF Queues
<1> QED BY <1>1, <1>3, <1>4, <1>5

LEMMA DequeueFields ==
  ASSUME NEW P \in SUBSET Tasks, NEW r \in Queues(P), NEW t \in Tasks
  PROVE  LET d == dequeue_task(r, t)
             p == r.prev[t]
             n == r.next[t]
         IN  /\ d \in Queues(P)
             /\ d.head = (IF p = NULL THEN n ELSE r.head)
             /\ d.tail = (IF n = NULL THEN p ELSE r.tail)
             /\ d.nr_running = (IF r.nr_running > 0 THEN r.nr_running - 1 ELSE r.nr_running)
             /\ d.current = r.current
             /\ \A u \in All \ {t} : /\ d.prev[u] = (IF u = n THEN p ELSE r.prev[u])
                                     /\ d.next[u] = (IF u = p THEN n ELSE r.next[u])
<1> DEFINE p == r.prev[t]
           n == r.next[t]
           f == [IF p = NULL THEN r.next ELSE [r.next EXCEPT ![p] = n] EXCEPT ![t] = NULL]
           g == [IF n = NULL THEN r.prev ELSE [r.prev EXCEPT ![n] = p] EXCEPT ![t] = NULL]
           d == [head |-> IF p = NULL THEN n ELSE r.head,
                 tail |-> IF n = NULL THEN p ELSE r.tail,
                 nr_running |-> IF r.nr_running > 0 THEN r.nr_running - 1
                                ELSE r.nr_running,
                 current |-> r.current, next |-> f, prev |-> g]
<1>1. dequeue_task(r, t) = d
  <2> DEFINE Fields(h, l, c, x, v) == [head |-> h, tail |-> l, nr_running |-> c,
                                       current |-> r.current, next |-> x, prev |-> v]
             front == IF p # NULL THEN [r EXCEPT !.next[p] = n] ELSE [r EXCEPT !.head = n]
             back == IF n # NULL THEN [front EXCEPT !.prev[n] = p]
                     ELSE [front EXCEPT !.tail = p]
  <2>1. r = Fields(r.head, r.tail, r.nr_running, r.next, r.prev)
    BY DEF Queues
  <2>2. front = Fields(d.head, r.tail, r.nr_running,
                       IF p = NULL THEN r.next ELSE [r.next EXCEPT ![p] = n], r.prev)
    BY <2>1
  <2>3. back = Fields(d.head, d.tail, r.nr_running,
                      IF p = NULL THEN r.next ELSE [r.next EXCEPT ![p] = n],
                      IF n = NULL THEN r.prev ELSE [r.prev EXCEPT ![n] = p])
    <3> HIDE DEF front
    <3> QED BY <2>2
  <2>4. [back EXCEPT !.next[t] = NULL, !.prev[t] = NULL,
                     !.nr_running = IF @ > 0 THEN @ - 1 ELSE @] = d
    <3> DEFINE x == IF p = NULL THEN r.next ELSE [r.next EXCEPT ![p] = n]
               v == IF n = NULL THEN r.prev ELSE [r.prev EXCEPT ![n] = p]
               c == IF r.nr_running > 0 THEN r.nr_running - 1 ELSE r.nr_running
    <3>1. back = Fields(d.head, d.tail, r.nr_running, x, v)
      BY <2>3
    <3> HIDE DEF back, d, x, v
    <3> DEFINE b1 == [back EXCEPT !.next[t] = NULL]
               b2 == [b1 EXCEPT !.prev[t] = NULL]
    <3>2. b1 = Fields(d.head, d.tail, r.nr_running, [x EXCEPT ![t] = NULL], v)
      BY <3>1
    <3>3. b2 = Fields(d.head, d.tail, r.nr_running,
                      [x EXCEPT ![t] = NULL], [v EXCEPT ![t] = NULL])
      <4> HIDE DEF b1
      <4> QED BY <3>2
    <3>4. [b2 EXCEPT !.nr_running = IF @ > 0 THEN @ - 1 ELSE @]
            = Fields(d.head, d.tail, c, [x EXCEPT ![t] = NULL], [v EXCEPT ![t] = NULL])
      <4> HIDE DEF b2
      <4> QED BY <3>3
    <3>5. [back EXCEPT !.next[t] = NULL, !.prev[t] = NULL,
                       !.nr_running = IF @ > 0 THEN @ - 1 ELSE @]
            = [b2 EXCEPT !.nr_running = IF @ > 0 THEN @ - 1 ELSE @]
      BY DEF b1, b2
    <3>6. d = Fields(d.head, d.tail, c, [x EXCEPT ![t] = NULL], [v EXCEPT ![t] = NULL])
      BY DEF d, x, v, f, g
    <3> QED BY <3>4, <3>5, <3>6
  <2> QED BY <2>4 DEF dequeue_task
<1>2. /\ r.next \in [All -> P \cup {NULL}] /\ r.prev \in [All -> P \cup {NULL}]
      /\ r.head \in P \cup {NULL} /\ r.tail \in P \cup {NULL}
      /\ r.nr_running \in Nat /\ r.current \in P \cup {IDLE}
      /\ p \in P \cup {NULL} /\ n \in P \cup {NULL}
  BY Identities DEF Queues
<1>3. /\ f \in [All -> P \cup {NULL}]
      /\ \A u \in All \ {t} : f[u] = IF u = p THEN n ELSE r.next[u]
  BY <1>2, Identities
<1>4. /\ g \in [All -> P \cup {NULL}]
      /\ \A u \in All \ {t} : g[u] = IF u = n THEN p ELSE r.prev[u]
  BY <1>2, Identities
<1> HIDE DEF f, g
<1>5. d \in Queues(P)
  <2> HIDE DEF p, n
  <2> QED BY <1>2, <1>3, <1>4 DEF Queues
<1> QED BY <1>1, <1>3, <1>4, <1>5

-----------------------------------------------------------------------------
(* A queue that holds a set of tasks. *)

LEMMA Finite == \A R \in SUBSET Tasks : IsFiniteSet(R)
<1>1. IsFiniteSet(Tasks)
  BY FS_Interval, RunQueueAssumption DEF Tasks
<1> QED BY <1>1, FS_Subset

\* enqueue_task adds its task.
LEMMA Enqueued ==
  ASSUME NEW P \in SUBSET Tasks, NEW r \in Queues(P),
         NEW R \in SUBSET Tasks, NEW t \in P \ R, Holds(r, R)
  PROVE  Holds(enqueue_task(r, t), R \cup {t})
<1> DEFINE e == enqueue_task(r, t)
           Q == R \cup {t}
<1>1. /\ e.head = (IF r.head = NULL THEN t ELSE r.head) /\ e.tail = t
      /\ e.nr_running = r.nr_running + 1
      /\ e.prev[t] = (IF r.head = NULL THEN NULL ELSE r.tail)
      /\ \A u \in R : /\ e.prev[u] = r.prev[u]
                      /\ e.next[u] = IF r.head # NULL /\ u = r.tail THEN t ELSE r.next[u]
  BY EnqueueFields, Identities
<1>2. R = {} => r.head = NULL /\ r.tail = NULL
  BY DEF Holds
<1>3. R # {} => r.head \in R /\ r.tail \in R /\ r.head # NULL
  BY Identities DEF Holds
<1>4. e.next[t] = NULL
  BY <1>2, <1>3, EnqueueFields, Identities
<1>5. /\ Q # {} /\ {e.head, e.tail} \subseteq Q
  BY <1>1, <1>2, <1>3
<1>6. ASSUME NEW u \in Q
      PROVE  /\ e.prev[u] = NULL <=> u = e.head
             /\ e.next[u] = NULL <=> u = e.tail
             /\ e.next[u] # NULL => e.next[u] \in Q /\ e.prev[e.next[u]] = u
  <2>1. CASE u = t
    BY <1>1, <1>2, <1>3, <1>4, <2>1, Identities
  <2>2. CASE u # t
    <3>1. /\ r.prev[u] = NULL <=> u = r.head
          /\ r.next[u] = NULL <=> u = r.tail
          /\ r.next[u] # NULL => r.next[u] \in R /\ r.prev[r.next[u]] = u
      BY <2>2 DEF Holds
    <3> QED BY <1>1, <1>2, <1>3, <2>2, <3>1, Identities
  <2> QED BY <2>1, <2>2
<1>7. ASSUME NEW S \in SUBSET Q, e.head # NULL => e.head \in S,
             \A u \in S : e.next[u] # NULL => e.next[u] \in S
      PROVE  S = Q
  <2>0. e.head \in S
    BY <1>5, <1>7, Identities
  <2>1. CASE R = {}
    BY <1>1, <1>2, <2>0, <2>1
  <2>2. CASE R # {}
    <3> DEFINE V == S \ {t}
    <3>1. r.head \in V
      BY <1>1, <1>3, <2>0, <2>2
    <3>2. ASSUME NEW u \in V, r.next[u] # NULL PROVE r.next[u] \in V
      <4>1. u \in R /\ u # r.tail /\ r.next[u] \in R
        BY <3>2 DEF Holds
      <4> QED BY <1>1, <1>7, <3>2, <4>1
    <3>3. V = R
      <4>1. V \in SUBSET R
        OBVIOUS
      <4> HIDE DEF V
      <4> QED BY <3>1, <3>2, <4>1 DEF Holds
    <3>4. e.next[r.tail] = t /\ r.tail \in S
      BY <1>1, <1>3, <2>2, <3>3
    <3> QED BY <1>7, <3>3, <3>4, Identities
  <2> QED BY <2>1, <2>2
<1>8. e.nr_running = Cardinality(Q)
  <2>1. Cardinality(Q) = Cardinality(R) + 1
    BY Finite, FS_AddElement
  <2> QED BY <1>1, <2>1 DEF Holds
<1> HIDE DEF e, Q
<1>9. Holds(e, Q)
  BY <1>5, <1>6, <1>7, <1>8 DEF Holds
<1> QED BY <1>9 DEF e, Q

\* The predecessor of a task, if any, is in the queue and leads to it.
LEMMA Predecessor ==
  ASSUME NEW r, NEW R \in SUBSET Tasks, NEW t \in R, Holds(r, R), r.prev[t] # NULL
  PROVE  r.prev[t] \in R /\ r.next[r.prev[t]] = t
<1>1. r.head \in R
  BY DEF Holds
<1>2. \A u \in R : /\ r.prev[u] = NULL <=> u = r.head
                   /\ r.next[u] # NULL => r.next[u] \in R /\ r.prev[r.next[u]] = u
  BY DEF Holds
<1> DEFINE S == {u \in R : u = r.head \/ (r.prev[u] \in R /\ r.next[r.prev[u]] = u)}
<1>3. r.head \in S /\ (\A u \in S : r.next[u] # NULL => r.next[u] \in S) /\ S \in SUBSET R
  BY <1>1, <1>2
<1>4. S = R
  <2> HIDE DEF S
  <2> QED BY <1>3 DEF Holds
<1>5. t = r.head \/ (r.prev[t] \in R /\ r.next[r.prev[t]] = t)
  BY <1>4
<1> QED BY <1>2, <1>5

\* dequeue_task takes its task out, wherever it is in the queue.
LEMMA Dequeued ==
  ASSUME NEW P \in SUBSET Tasks, NEW r \in Queues(P),
         NEW R \in SUBSET Tasks, NEW t \in R, Holds(r, R)
  PROVE  Holds(dequeue_task(r, t), R \ {t})
<1> DEFINE d == dequeue_task(r, t)
           p == r.prev[t]
           n == r.next[t]
           Q == R \ {t}
<1>1. /\ d.head = (IF p = NULL THEN n ELSE r.head)
      /\ d.tail = (IF n = NULL THEN p ELSE r.tail)
      /\ d.nr_running = (IF r.nr_running > 0 THEN r.nr_running - 1 ELSE r.nr_running)
      /\ \A u \in Q : /\ d.prev[u] = (IF u = n THEN p ELSE r.prev[u])
                      /\ d.next[u] = (IF u = p THEN n ELSE r.next[u])
  BY DequeueFields, Identities
<1>2. r.head \in R /\ r.tail \in R /\ r.head # NULL /\ r.tail # NULL
  BY Identities DEF Holds
<1> HIDE DEF d
<1>3. \A u \in R : /\ r.prev[u] = NULL <=> u = r.head
                   /\ r.next[u] = NULL <=> u = r.tail
                   /\ r.next[u] # NULL => r.next[u] \in R /\ r.prev[r.next[u]] = u
  BY DEF Holds
\* The predecessor of t, if any, is a task of R whose next is t.
<1>4. p # NULL => p \in R /\ r.next[p] = t
  BY Predecessor
<1>5. n # NULL => n \in R /\ r.prev[n] = t
  BY <1>3
\* No task follows itself, so that neither neighbour is t.
<1>6. n # t /\ p # t
  <2>1. ASSUME n = t PROVE FALSE
    <3>1. r.head # t /\ p = t
      BY <1>3, <2>1, Identities
    <3> DEFINE S == R \ {t}
    <3>2. S \in SUBSET R /\ r.head \in S
      BY <1>2, <3>1
    <3>3. \A u \in S : r.next[u] # NULL => r.next[u] \in S
      BY <1>3, <3>1
    <3>4. S = R
      <4> HIDE DEF S
      <4> QED BY <3>2, <3>3 DEF Holds
    <3> QED BY <3>4
  <2> QED BY <1>4, <2>1, Identities
<1>7. IF Q = {} THEN d.head = NULL /\ d.tail = NULL ELSE {d.head, d.tail} \subseteq Q
  <2>1. CASE p = NULL /\ n = NULL
    <3>1. r.head = t /\ r.tail = t
      BY <1>3, <2>1
    <3> DEFINE S == {t}
    <3>2. S \in SUBSET R /\ r.head \in S /\ \A u \in S : r.next[u] # NULL => r.next[u] \in S
      BY <2>1, <3>1
    <3>3. S = R
      <4> HIDE DEF S
      <4> QED BY <3>2 DEF Holds
    <3> QED BY <1>1, <2>1, <3>3
  <2>2. CASE p = NULL /\ n # NULL
    BY <1>1, <1>2, <1>3, <1>5, <1>6, <2>2
  <2>3. CASE p # NULL /\ n = NULL
    BY <1>1, <1>2, <1>3, <1>4, <1>6, <2>3
  <2>4. CASE p # NULL /\ n # NULL
    BY <1>1, <1>2, <1>3, <1>4, <1>5, <1>6, <2>4
  <2> QED BY <2>1, <2>2, <2>3, <2>4
<1>8. ASSUME NEW u \in Q
      PROVE  /\ d.prev[u] = NULL <=> u = d.head
             /\ d.next[u] = NULL <=> u = d.tail
             /\ d.next[u] # NULL => d.next[u] \in Q /\ d.prev[d.next[u]] = u
  <2>0. u \in R /\ u # t
    OBVIOUS
  <2>1. d.prev[u] = NULL <=> u = d.head
    BY <1>1, <1>3, <1>4, <1>5, <1>6, <2>0, Identities
  <2>2. d.next[u] = NULL <=> u = d.tail
    BY <1>1, <1>3, <1>4, <1>5, <1>6, <2>0, Identities
  <2>3. ASSUME d.next[u] # NULL PROVE d.next[u] \in Q /\ d.prev[d.next[u]] = u
    <3>1. CASE u = p
      BY <1>1, <1>4, <1>5, <1>6, <2>0, <2>3, <3>1
    <3>2. CASE u # p
      <4>1. d.next[u] = r.next[u] /\ r.next[u] \in R /\ r.prev[r.next[u]] = u
        BY <1>1, <1>3, <2>0, <2>3, <3>2
      <4>2. r.next[u] # t /\ r.next[u] # n
        BY <1>5, <2>0, <2>3, <3>2, <4>1
      <4> QED BY <1>1, <4>1, <4>2
    <3> QED BY <3>1, <3>2
  <2> QED BY <2>1, <2>2, <2>3
<1>9. ASSUME NEW S \in SUBSET Q, d.head # NULL => d.head \in S,
             \A u \in S : d.next[u] # NULL => d.next[u] \in S
      PROVE  S = Q
  <2>1. CASE p # NULL /\ p \notin S
    <3>1. r.head \in S
      BY <1>1, <1>2, <1>9, <2>1
    <3>2. \A u \in S : r.next[u] # NULL => r.next[u] \in S
      BY <1>1, <1>9, <2>1
    <3>3. S = R
      BY <3>1, <3>2 DEF Holds
    <3> QED BY <3>3
  <2>2. CASE p = NULL \/ p \in S
    <3> DEFINE V == S \cup {t}
    <3>1. r.head \in V
      BY <1>1, <1>2, <1>3, <1>9, <2>2
    <3>2. n # NULL => n \in S
      BY <1>1, <1>4, <1>6, <1>9, <2>2
    <3>3. ASSUME NEW u \in V, r.next[u] # NULL PROVE r.next[u] \in V
      <4>1. CASE u = t
        BY <3>2, <3>3, <4>1
      <4>2. CASE u # t /\ u # p
        BY <1>1, <1>9, <3>3, <4>2
      <4>3. CASE u = p
        BY <1>4, <3>3, <4>3, Identities
      <4> QED BY <4>1, <4>2, <4>3
    <3>4. V = R
      <4>1. V \in SUBSET R
        OBVIOUS
      <4> HIDE DEF V
      <4> QED BY <3>1, <3>3, <4>1 DEF Holds
    <3> QED BY <3>4
  <2> QED BY <2>1, <2>2
<1>10. d.nr_running = Cardinality(Q)
  <2>1. Cardinality(Q) = Cardinality(R) - 1 /\ Cardinality(R) \in Nat
    BY Finite, FS_RemoveElement, FS_CardinalityType
  <2>2. Cardinality(Q) \in Nat
    BY Finite, FS_CardinalityType
  <2>3. r.nr_running = Cardinality(R)
    BY DEF Holds
  <2> HIDE DEF Q
  <2> QED BY <1>1, <2>1, <2>2, <2>3
<1> HIDE DEF Q
<1>11. Holds(d, Q)
  BY <1>7, <1>8, <1>9, <1>10 DEF Holds
<1> QED BY <1>11 DEF d, Q

\* schedule changes the queue's order and the current task, and counts a task
\* only when it puts it back.
LEMMA ScheduledType ==
  ASSUME NEW P \in SUBSET Tasks, NEW r \in Queues(P), NEW st
  PROVE  /\ Scheduled(r, st) \in Queues(P)
         /\ \/ Scheduled(r, st).nr_running <= r.nr_running
            \/ /\ Scheduled(r, st).nr_running = 1
               /\ st[r.current] = "RUNNING" /\ r.current \in P
<1> DEFINE next == pick_next_task(r)
           d == dequeue_task(r, r.current)
           q == enqueue_task(d, r.current)
<1>1. next \in P \cup {IDLE} /\ r.current \in P \cup {IDLE} /\ r.nr_running \in Nat
  BY Identities DEF pick_next_task, Queues, All
<1>2. CASE next = r.current
  BY <1>1, <1>2 DEF Scheduled
<1>3. CASE next # r.current /\ ~(st[r.current] = "RUNNING" /\ r.current # IDLE)
  <2>1. Scheduled(r, st) = [r EXCEPT !.current = next]
    BY <1>3 DEF Scheduled
  <2> HIDE DEF next
  <2>2. /\ [r EXCEPT !.current = next] \in Queues(P)
        /\ [r EXCEPT !.current = next].nr_running = r.nr_running
    BY <1>1 DEF Queues
  <2> QED BY <1>1, <2>1, <2>2
<1>4. CASE next # r.current /\ st[r.current] = "RUNNING" /\ r.current # IDLE
  <2>1. Scheduled(r, st) = [q EXCEPT !.current = next]
    BY <1>4 DEF Scheduled
  <2>2. r.current \in P
    BY <1>1, <1>4
  <2>3. d \in Queues(P) /\ d.nr_running = (IF r.nr_running > 0 THEN r.nr_running - 1
                                        ELSE r.nr_running)
    BY <2>2, DequeueFields
  <2>4. q \in Queues(P) /\ q.nr_running = d.nr_running + 1
    <3> HIDE DEF d
    <3> QED BY <2>2, <2>3, EnqueueFields
  <2> HIDE DEF next, q, d
  <2>5. [q EXCEPT !.current = next] \in Queues(P)
        /\ [q EXCEPT !.current = next].nr_running = q.nr_running
    BY <1>1, <2>4 DEF Queues
  <2>6. q.nr_running <= r.nr_running \/ q.nr_running = 1
    BY <1>1, <2>3, <2>4
  <2> QED BY <1>4, <2>1, <2>2, <2>5, <2>6
<1> QED BY <1>2, <1>3, <1>4

\* schedule of a queue that holds R, the current task among it if it is
\* running, keeps it so and gives the CPU to a task of R or to the idle task.
LEMMA ScheduledHolds ==
  ASSUME NEW P \in SUBSET Tasks, NEW r \in Queues(P), NEW st,
         NEW R \in SUBSET Tasks, Holds(r, R),
         st[r.current] = "RUNNING" /\ r.current # IDLE => r.current \in R
  PROVE  Holds(Scheduled(r, st), R) /\ Scheduled(r, st).current \in R \cup {IDLE}
<1> DEFINE next == pick_next_task(r)
           d == dequeue_task(r, r.current)
           q == enqueue_task(d, r.current)
<1>1. next \in R \cup {IDLE} /\ r.current \in P \cup {IDLE}
  BY Identities DEF pick_next_task, Holds, Queues
<1>2. CASE next = r.current
  BY <1>1, <1>2 DEF Scheduled
<1>3. ASSUME NEW p \in Queues(P), Holds(p, R)
      PROVE  Holds([p EXCEPT !.current = next], R) /\ [p EXCEPT !.current = next].current = next
  <2> DEFINE c == [p EXCEPT !.current = next]
  <2>1. /\ c.head = p.head /\ c.tail = p.tail /\ c.nr_running = p.nr_running
        /\ c.next = p.next /\ c.prev = p.prev /\ c.current = next
    <3> HIDE DEF next
    <3> QED BY DEF Queues
  <2> HIDE DEF c, next
  <2>2. Holds(c, R)
    BY <1>3, <2>1 DEF Holds
  <2> QED BY <2>1, <2>2 DEF c
<1>4. CASE next # r.current /\ ~(st[r.current] = "RUNNING" /\ r.current # IDLE)
  <2>1. Scheduled(r, st) = [r EXCEPT !.current = next]
    BY <1>4 DEF Scheduled
  <2> HIDE DEF next
  <2> QED BY <1>1, <1>3, <2>1
<1>5. CASE next # r.current /\ st[r.current] = "RUNNING" /\ r.current # IDLE
  <2>1. Scheduled(r, st) = [q EXCEPT !.current = next]
    BY <1>5 DEF Scheduled
  <2>2. r.current \in P /\ r.current \in R
    BY <1>1, <1>5
  <2>3. d \in Queues(P) /\ Holds(d, R \ {r.current})
    BY <2>2, DequeueFields, Dequeued
  <2>4. q \in Queues(P) /\ Holds(q, (R \ {r.current}) \cup {r.current})
    <3> HIDE DEF d
    <3>1. r.current \in P \ (R \ {r.current}) /\ R \ {r.current} \in SUBSET Tasks
      BY <2>2
    <3> QED BY <2>2, <2>3, <3>1, EnqueueFields, Enqueued
  <2>5. (R \ {r.current}) \cup {r.current} = R
    BY <2>2
  <2> HIDE DEF next, q, d
  <2>6. Holds(q, R)
    BY <2>4, <2>5
  <2>7. Holds([q EXCEPT !.current = next], R) /\ [q EXCEPT !.current = next].current = next
    BY <1>3, <2>4, <2>6
  <2> QED BY <1>1, <2>1, <2>7
<1> QED BY <1>2, <1>4, <1>5

-----------------------------------------------------------------------------
(* The order of the queue.  *)

\* From every task of the queue its tail is reached: a set that is closed under
\* next and has no end would be mapped to itself by next, one to one, and so be
\* closed under prev as well, which leads to the head.
LEMMA TailReached ==
  ASSUME NEW r, NEW R \in SUBSET Tasks, Holds(r, R),
         NEW S \in SUBSET R, S # {},
         \A t \in S : r.next[t] # NULL => r.next[t] \in S
  PROVE  r.tail \in S
<1> SUFFICES ASSUME r.tail \notin S PROVE FALSE
  OBVIOUS
<1>1. \A u \in R : /\ r.prev[u] = NULL <=> u = r.head
                   /\ r.next[u] = NULL <=> u = r.tail
                   /\ r.next[u] # NULL => r.next[u] \in R /\ r.prev[r.next[u]] = u
  BY DEF Holds
<1> DEFINE f == [u \in S |-> r.next[u]]
<1>2. f \in [S -> S]
  BY <1>1
<1>3. \A u, v \in S : f[u] = f[v] => u = v
  BY <1>1
<1>4. f \in Injection(S, S)
  <2> HIDE DEF f
  <2> QED BY <1>2, <1>3 DEF Injection, IsInjective
<1>5. f \in Surjection(S, S)
  <2> HIDE DEF f
  <2>1. IsFiniteSet(S)
    BY Finite
  <2> QED BY <1>4, <2>1, FS_Injection
<1>6. \A u \in S : \E v \in S : r.next[v] = u
  <2>1. \A u \in S : \E v \in S : f[v] = u
    <3> HIDE DEF f
    <3> QED BY <1>5 DEF Surjection
  <2> QED BY <2>1
<1> DEFINE W == R \ S
<1>7. \A u \in W : r.next[u] # NULL => r.next[u] \in W
  BY <1>1, <1>6
<1>8. r.head \in W
  <2>1. r.head \in R
    BY DEF Holds
  <2>2. r.head \notin S
    <3> SUFFICES ASSUME r.head \in S PROVE FALSE
      OBVIOUS
    <3>1. PICK v \in S : r.next[v] = r.head
      BY <1>6
    <3>2. r.prev[r.head] = v /\ r.prev[r.head] = NULL
      BY <1>1, <2>1, <3>1, Identities
    <3> QED BY <3>2, Identities
  <2> QED BY <2>1, <2>2
<1>9. W = R
  <2>1. W \in SUBSET R
    OBVIOUS
  <2> HIDE DEF W
  <2> QED BY <1>7, <1>8, <2>1 DEF Holds
<1> QED BY <1>9

\* enqueue_task keeps the order and puts its task behind the others.
LEMMA BeforeEnqueued ==
  ASSUME NEW P \in SUBSET Tasks, NEW r \in Queues(P),
         NEW R \in SUBSET Tasks, NEW t \in P \ R, Holds(r, R), NEW a \in R
  PROVE  /\ Before(enqueue_task(r, t), a, t)
         /\ \A b \in R : Before(r, a, b) => Before(enqueue_task(r, t), a, b)
<1> DEFINE e == enqueue_task(r, t)
<1>1. r.head # NULL /\ r.tail \in R
  BY Identities DEF Holds
<1>2. \A u \in R : e.next[u] = IF u = r.tail THEN t ELSE r.next[u]
  BY <1>1, EnqueueFields, Identities
<1> HIDE DEF e
<1>3. \A u \in R : r.next[u] # NULL => r.next[u] \in R /\ u # r.tail
  BY DEF Holds
<1>4. ASSUME NEW S \in SUBSET Tasks, a \in S,
             \A u \in S : e.next[u] # NULL => e.next[u] \in S
      PROVE  t \in S /\ \A b \in R : Before(r, a, b) => b \in S
  <2> DEFINE V == S \cap R
  <2>1. \A u \in V : r.next[u] # NULL => r.next[u] \in V
    BY <1>2, <1>3, <1>4
  <2>2. a \in V /\ V \in SUBSET R /\ V \in SUBSET Tasks
    BY <1>4
  <2>3. r.tail \in V
    <3> HIDE DEF V
    <3> QED BY <2>1, <2>2, TailReached
  <2>4. t \in S
    BY <1>1, <1>2, <1>4, <2>3, Identities
  <2>5. ASSUME NEW b \in R, Before(r, a, b) PROVE b \in V
    <3> HIDE DEF V
    <3> QED BY <2>1, <2>2, <2>5 DEF Before
  <2> QED BY <2>4, <2>5
<1>5. a # t
  OBVIOUS
<1> QED BY <1>4, <1>5 DEF Before, e

\* dequeue_task keeps the order of the others.
LEMMA BeforeDequeued ==
  ASSUME NEW P \in SUBSET Tasks, NEW r \in Queues(P),
         NEW R \in SUBSET Tasks, NEW t \in R, Holds(r, R),
         NEW a \in R \ {t}, NEW b \in R \ {t}, Before(r, a, b)
  PROVE  Before(dequeue_task(r, t), a, b)
<1> DEFINE d == dequeue_task(r, t)
           p == r.prev[t]
           n == r.next[t]
<1>1. \A u \in R \ {t} : d.next[u] = IF u = p THEN n ELSE r.next[u]
  BY DequeueFields, Identities
<1>2. p # NULL => p \in R /\ r.next[p] = t
  BY Predecessor
<1> HIDE DEF d
<1>3. \A u \in R : r.next[u] # NULL => r.next[u] \in R /\ r.prev[r.next[u]] = u
  BY DEF Holds
<1>4. ASSUME NEW S \in SUBSET Tasks, a \in S,
             \A u \in S : d.next[u] # NULL => d.next[u] \in S
      PROVE  b \in S
  <2> DEFINE V == ((S \cap R) \ {t}) \cup (IF p \in S THEN {t} ELSE {})
  <2>1. ASSUME NEW u \in V, r.next[u] # NULL PROVE r.next[u] \in V
    <3>1. CASE u = t
      <4>1. p \in S /\ p \in R /\ n \in R
        BY <1>2, <1>3, <2>1, <3>1, Identities
      <4>2. CASE n = t
        BY <3>1, <4>1, <4>2
      <4>3. CASE n # t /\ p # t
        BY <1>1, <1>4, <2>1, <3>1, <4>1, <4>3
      <4>4. CASE p = t
        BY <1>2, <2>1, <3>1, <4>1, <4>4, Identities
      <4> QED BY <4>2, <4>3, <4>4
    <3>2. CASE u # t /\ u = p
      BY <1>2, <2>1, <3>2, Identities
    <3>3. CASE u # t /\ u # p
      BY <1>1, <1>3, <1>4, <2>1, <3>3
    <3> QED BY <3>1, <3>2, <3>3
  <2>2. a \in V /\ V \in SUBSET Tasks
    BY <1>4
  <2>3. b \in V
    <3> HIDE DEF V
    <3> QED BY <2>1, <2>2 DEF Before
  <2> QED BY <2>3
<1>5. a # b
  BY DEF Before
<1> QED BY <1>4, <1>5 DEF Before, d

\* schedule moves only the current task, and behind the others.
LEMMA BeforeScheduled ==
  ASSUME NEW P \in SUBSET Tasks, NEW r \in Queues(P), NEW st,
         NEW R \in SUBSET Tasks, Holds(r, R),
         st[r.current] = "RUNNING" /\ r.current # IDLE => r.current \in R,
         NEW a \in R \ {r.current}, NEW b \in R, Before(r, a, b)
  PROVE  Before(Scheduled(r, st), a, b)
<1> DEFINE next == pick_next_task(r)
           c == r.current
           d == dequeue_task(r, c)
           q == enqueue_task(d, c)
<1>1. CASE next = c
  BY <1>1 DEF Scheduled
<1>2. ASSUME NEW p \in Queues(P), Before(p, a, b)
      PROVE  Before([p EXCEPT !.current = next], a, b)
  <2> HIDE DEF next
  <2>1. [p EXCEPT !.current = next].next = p.next
    BY DEF Queues
  <2> QED BY <1>2, <2>1 DEF Before
<1>3. CASE next # c /\ ~(st[c] = "RUNNING" /\ c # IDLE)
  <2>1. Scheduled(r, st) = [r EXCEPT !.current = next]
    BY <1>3 DEF Scheduled
  <2> HIDE DEF next
  <2> QED BY <1>2, <2>1
<1>4. CASE next # c /\ st[c] = "RUNNING" /\ c # IDLE
  <2>1. Scheduled(r, st) = [q EXCEPT !.current = next]
    BY <1>4 DEF Scheduled
  <2>2. c \in P /\ c \in R /\ c \in Tasks
    BY <1>4 DEF Queues
  <2> HIDE DEF c, next
  <2>3. d \in Queues(P) /\ Holds(d, R \ {c})
    BY <2>2, DequeueFields, Dequeued
  <2>4. c \in P \ (R \ {c}) /\ R \ {c} \in SUBSET Tasks /\ a \in R \ {c}
    BY <2>2 DEF c
  <2>5. q \in Queues(P)
    <3> HIDE DEF d
    <3> QED BY <2>2, <2>3, EnqueueFields
  <2>6. Before(q, a, b)
    <3>1. CASE b = c
      <4> HIDE DEF d
      <4>1. Before(q, a, c)
        BY <2>3, <2>4, BeforeEnqueued
      <4> QED BY <3>1, <4>1
    <3>2. CASE b # c
      <4>1. b \in R \ {c}
        BY <3>2
      <4>2. Before(d, a, b)
        BY <2>2, <2>4, <4>1, BeforeDequeued
      <4> HIDE DEF d
      <4> QED BY <2>3, <2>4, <4>1, <4>2, BeforeEnqueued
    <3> QED BY <3>1, <3>2
  <2> HIDE DEF q
  <2> QED BY <1>2, <2>1, <2>5, <2>6
<1> QED BY <1>1, <1>3, <1>4 DEF c

-----------------------------------------------------------------------------
(* The inductive invariant. *)

\* A queue may lead to further entries of the pool.
LEMMA QueuesGrow ==
  ASSUME NEW P \in SUBSET Tasks, NEW Q \in SUBSET Tasks, P \subseteq Q
  PROVE  Queues(P) \subseteq Queues(Q)
BY DEF Queues

LEMMA PoolType == QueueTypes => Pool \in SUBSET Tasks /\ pool_index \in Nat
BY RunQueueAssumption DEF QueueTypes, Pool, Tasks

\* The queue and the states tell the type of every variable.
LEMMA TypesOK == IInv => TypeOK
<1> SUFFICES ASSUME IInv PROVE TypeOK
  OBVIOUS
<1>1. rq \in Queues(Tasks) /\ rq.nr_running \in 0 .. MaxRunning + MAX_TASKS
  <2>1. Pool \in SUBSET Tasks /\ rq \in Queues(Pool)
    BY PoolType DEF IInv, QueueTypes
  <2>2. rq.nr_running \in Nat
    BY <2>1 DEF Queues
  <2> QED BY <2>1, <2>2, QueuesGrow, RunQueueAssumption DEF IInv, QueueTypes
<1>2. /\ rq.head \in Tasks \cup {NULL} /\ rq.tail \in Tasks \cup {NULL} /\ current \in All
      /\ rq.next \in [All -> Tasks \cup {NULL}] /\ rq.prev \in [All -> Tasks \cup {NULL}]
  BY <1>1 DEF Queues, All, current
<1>3. stack \subseteq Tasks
  BY PoolType DEF IInv, QueueTypes
<1> QED BY <1>1, <1>2, <1>3 DEF IInv, QueueTypes, SignalTypes, TypeOK

\* wake_up_process queues one more task only below its bound.
LEMMA WakeUpTypes ==
  ASSUME QueueTypes, NEW t \in Pool, WakeUp(t),
         UNCHANGED pool, exiting' \subseteq Tasks
  PROVE  QueueTypes'
<1>0. Pool' = Pool /\ Pool \in SUBSET Tasks /\ pool_index \in Nat
  BY PoolType DEF Pool, pool
<1>1. /\ rq.nr_running < MaxRunning
      /\ state' = [state EXCEPT ![t] = "RUNNING"]
      /\ rq' = enqueue_task(rq, t) /\ woken' = TRUE
  BY DEF WakeUp
<1>2. rq \in Queues(Pool) /\ rq.nr_running \in Nat
  BY DEF QueueTypes, Queues
<1>3. rq' \in Queues(Pool) /\ rq'.nr_running = rq.nr_running + 1
  BY <1>0, <1>1, <1>2, EnqueueFields
<1>4. rq'.nr_running <= MaxRunning + pool_index
  BY <1>0, <1>1, <1>2, <1>3, RunQueueAssumption
<1>5. \A u \in Tasks : state'[u] # "none" => u <= pool_index
  BY <1>1 DEF QueueTypes, Pool
<1> QED BY <1>0, <1>1, <1>3, <1>4, <1>5 DEF QueueTypes, pool

\* schedule, with the current task in a new state.
LEMMA ScheduledTypes ==
  ASSUME QueueTypes, NEW st,
         st \in [All -> {"none", "RUNNING", "INTERRUPTIBLE", "STOPPED", "ZOMBIE"}],
         \A t \in Tasks : st[t] # "none" => t <= pool_index,
         NEW r \in Queues(Pool), r.nr_running <= rq.nr_running,
         rq' = Scheduled(r, st), state' = st, UNCHANGED <<pool, woken>>,
         exiting' \subseteq Tasks
  PROVE  QueueTypes'
<1>1. rq' \in Queues(Pool) /\ r.nr_running \in Nat /\ rq.nr_running \in Nat
  BY ScheduledType, PoolType DEF Queues, QueueTypes
<1>2. CASE rq'.nr_running <= r.nr_running
  <2>1. rq'.nr_running \in Nat
    BY <1>1 DEF Queues
  <2> QED BY <1>1, <1>2, <2>1, PoolType, RunQueueAssumption DEF QueueTypes, Pool, pool
<1>3. CASE rq'.nr_running = 1 /\ st[r.current] = "RUNNING" /\ r.current \in Pool
  <2>1. r.current <= pool_index /\ pool_index >= 1
    BY <1>3, PoolType DEF Pool
  <2> QED BY <1>1, <1>3, <2>1, RunQueueAssumption DEF QueueTypes, Pool, pool
<1> QED BY <1>2, <1>3, PoolType, ScheduledType

\* exit_task.
LEMMA ExitTypes ==
  ASSUME QueueTypes, ExitTask, UNCHANGED <<pool, woken>>
  PROVE  QueueTypes'
<1> DEFINE zombie == [state EXCEPT ![current] = "ZOMBIE"]
           r == dequeue_task(rq, current)
<1>1. rq \in Queues(Pool) /\ rq.nr_running \in Nat /\ current \in Pool /\ Pool \in SUBSET Tasks
  BY PoolType DEF QueueTypes, ExitTask, Queues, current
<1>2. r \in Queues(Pool) /\ r.nr_running <= rq.nr_running
  <2> HIDE DEF current
  <2>1. current \in Tasks
    BY <1>1
  <2> QED BY <1>1, <2>1, DequeueFields
<1>3. /\ zombie \in [All -> {"none", "RUNNING", "INTERRUPTIBLE", "STOPPED", "ZOMBIE"}]
      /\ exiting' \subseteq Tasks /\ rq' = Scheduled(r, zombie) /\ state' = zombie
  BY <1>1 DEF QueueTypes, ExitTask
<1>4. \A t \in Tasks : zombie[t] # "none" => t <= pool_index
  BY <1>1 DEF QueueTypes, Pool
<1> HIDE DEF zombie, r
<1> QED BY <1>2, <1>3, <1>4, ScheduledTypes

\* A task in any state but "none" has a pool entry.
LEMMA InPool == ASSUME QueueTypes, NEW t \in Tasks, state[t] # "none" PROVE t \in Pool
BY DEF QueueTypes, Pool, Tasks

\* A task with a pool entry may be given any state.
LEMMA NewState ==
  ASSUME QueueTypes, NEW t \in Pool,
         NEW st \in {"none", "RUNNING", "INTERRUPTIBLE", "STOPPED", "ZOMBIE"},
         state' = [state EXCEPT ![t] = st]
  PROVE  /\ state' \in [All -> {"none", "RUNNING", "INTERRUPTIBLE", "STOPPED", "ZOMBIE"}]
         /\ \A u \in Tasks : state'[u] # "none" => u <= pool_index
<1> DEFINE S == {"none", "RUNNING", "INTERRUPTIBLE", "STOPPED", "ZOMBIE"}
<1>1. /\ state \in [All -> S] /\ \A u \in Tasks : state[u] # "none" => u <= pool_index
      /\ st \in S
  BY DEF QueueTypes
<1>2. t <= pool_index
  BY PoolType DEF Pool
<1> HIDE DEF S
<1>3. state' \in [All -> S] /\ \A u \in Tasks : state'[u] # "none" => u <= pool_index
  BY <1>1, <1>2, Identities
<1> QED BY <1>3 DEF S

\* Every call keeps the types of the queue and the states.
LEMMA QueueStep ==
  ASSUME IInv, Step, calls' = calls
  PROVE  QueueTypes'
<1>0. QueueTypes /\ SignalTypes
  BY DEF IInv
<1>1. CASE Schedule
  <2>1. /\ rq \in Queues(Pool) /\ rq.nr_running <= rq.nr_running
        /\ rq' = Scheduled(rq, state) /\ exiting' \subseteq Tasks
        /\ state' = state /\ UNCHANGED <<pool, woken>>
    BY <1>0, <1>1 DEF QueueTypes, Schedule, Queues
  <2>2. /\ state \in [All -> {"none", "RUNNING", "INTERRUPTIBLE", "STOPPED", "ZOMBIE"}]
        /\ \A t \in Tasks : state[t] # "none" => t <= pool_index
    BY <1>0 DEF QueueTypes
  <2> QED BY <1>0, <2>1, <2>2, ScheduledTypes
<1>2. CASE CreateTask
  <2> DEFINE t == pool_index + 1
  <2>1. /\ pool_index' = t /\ t \in Tasks /\ t \in Pool' /\ Pool' \in SUBSET Tasks
        /\ Pool \subseteq Pool' /\ pool_index \in Nat
    BY <1>0, <1>2, PoolType, RunQueueAssumption DEF CreateTask, Tasks, QueueTypes, Pool
  <2>2. rq \in Queues(Pool') /\ rq.nr_running \in Nat
    BY <1>0, <2>1, QueuesGrow DEF QueueTypes, Queues
  <2>3. rq' = enqueue_task(rq, t)
    BY <1>2 DEF CreateTask
  <2>4. rq' \in Queues(Pool') /\ rq'.nr_running = rq.nr_running + 1
    <3> HIDE DEF t
    <3> QED BY <2>1, <2>2, <2>3, EnqueueFields
  <2>5. rq'.nr_running <= MaxRunning + pool_index'
    BY <1>0, <2>1, <2>2, <2>4, RunQueueAssumption DEF QueueTypes
  <2>6. /\ state' = [state EXCEPT ![t] = "RUNNING"] /\ exiting' = exiting
        /\ pool_index' \in 0 .. MAX_TASKS /\ stack' = stack \cup {t} /\ woken' = woken
    BY <1>0, <1>2, <2>1, RunQueueAssumption DEF CreateTask, QueueTypes
  <2>7. \A u \in Tasks : state'[u] # "none" => u <= pool_index'
    BY <1>0, <2>1, <2>6 DEF QueueTypes, Tasks
  <2>8. stack' \subseteq Pool'
    BY <1>0, <2>1, <2>6 DEF QueueTypes
  <2> QED BY <1>0, <2>4, <2>5, <2>6, <2>7, <2>8 DEF QueueTypes
<1>3. CASE CreateTaskFail
  <2>1. /\ pool_index' = pool_index + 1 /\ Pool' \in SUBSET Tasks
        /\ Pool \subseteq Pool' /\ pool_index \in Nat
    BY <1>0, <1>3, PoolType, RunQueueAssumption DEF CreateTaskFail, Tasks, QueueTypes, Pool
  <2>2. rq \in Queues(Pool') /\ rq.nr_running \in Nat
    BY <1>0, <2>1, QueuesGrow DEF QueueTypes, Queues
  <2>3. stack' \subseteq Pool'
    BY <1>0, <1>3, <2>1 DEF QueueTypes, CreateTaskFail
  <2> QED BY <1>0, <1>3, <2>1, <2>2, <2>3, RunQueueAssumption
          DEF QueueTypes, CreateTaskFail, Tasks
<1>12. CASE CreateThreadFail
  <2>1. /\ pool_index' = pool_index + 1 /\ Pool' \in SUBSET Tasks
        /\ Pool \subseteq Pool' /\ pool_index \in Nat /\ pool_index + 1 \in Tasks
    BY <1>0, <1>12, PoolType, RunQueueAssumption
    DEF CreateThreadFail, Tasks, QueueTypes, Pool
  <2>2. rq \in Queues(Pool') /\ rq.nr_running \in Nat
    BY <1>0, <2>1, QueuesGrow DEF QueueTypes, Queues
  <2>3. stack' \subseteq Pool'
    BY <1>0, <1>12, <2>1 DEF QueueTypes, CreateThreadFail
  <2>4. state' = [state EXCEPT ![pool_index + 1] = "RUNNING"]
    BY <1>12 DEF CreateThreadFail
  <2>5. \A u \in Tasks : state'[u] # "none" => u <= pool_index'
    BY <1>0, <2>1, <2>4 DEF QueueTypes, Tasks
  <2>6. state' \in [All -> {"none", "RUNNING", "INTERRUPTIBLE", "STOPPED", "ZOMBIE"}]
    BY <1>0, <2>1, <2>4, Identities DEF QueueTypes
  <2>9. pool_index' \in 0 .. MAX_TASKS
    BY <2>1, RunQueueAssumption DEF Tasks
  <2>7. rq' = rq /\ exiting' = exiting /\ woken' = woken
    BY <1>12 DEF CreateThreadFail
  <2>8. rq'.nr_running <= MaxRunning + pool_index'
    BY <1>0, <2>1, <2>2, <2>7, RunQueueAssumption DEF QueueTypes
  <2> QED BY <1>0, <2>2, <2>3, <2>5, <2>6, <2>7, <2>8, <2>9 DEF QueueTypes
<1>4. CASE Exit
  BY <1>0, <1>4, ExitTypes DEF Exit
<1>5. ASSUME NEW t \in Tasks, KillTask(t) PROVE QueueTypes'
  <2>1. UNCHANGED pool /\ exiting' \subseteq Tasks /\ t \in Pool
    BY <1>0, <1>5, InPool DEF KillTask, QueueTypes
  <2>2. CASE UNCHANGED <<rq, state, woken>>
    BY <1>0, <2>1, <2>2 DEF QueueTypes, Pool, pool
  <2>3. CASE WakeUp(t)
    BY <1>0, <2>1, <2>3, WakeUpTypes
  <2> QED BY <1>5, <2>2, <2>3 DEF KillTask, WakeIfWaiting
<1>6. ASSUME NEW t \in Tasks, NEW s, Kill(t, s) PROVE QueueTypes'
  <2>1. UNCHANGED pool /\ exiting' \subseteq Tasks
    BY <1>0, <1>6 DEF Kill, QueueTypes
  <2>2. CASE UNCHANGED <<rq, state, woken>>
    BY <1>0, <2>1, <2>2 DEF QueueTypes, Pool, pool
  <2>3. CASE state[t] = "INTERRUPTIBLE" /\ WakeUp(t)
    BY <1>0, <2>1, <2>3, InPool, WakeUpTypes
  <2> QED BY <1>6, <2>2, <2>3 DEF Kill, WakeIfWaiting
<1>7. ASSUME UNCHANGED <<rq, state, pool, exiting, woken>> PROVE QueueTypes'
  BY <1>0, <1>7 DEF QueueTypes, Pool, pool
<1>8. ASSUME NEW st \in {"INTERRUPTIBLE", "STOPPED"}, current \in Tasks,
             state' = [state EXCEPT ![current] = st], rq' = Scheduled(rq, state'),
             UNCHANGED <<pool, exiting, woken>>
      PROVE  QueueTypes'
  <2>1. /\ rq \in Queues(Pool) /\ rq.nr_running <= rq.nr_running
        /\ exiting' \subseteq Tasks /\ UNCHANGED <<pool, woken>> /\ current \in Pool
    BY <1>0, <1>8, PoolType DEF QueueTypes, Queues, current, Tasks, IDLE
  <2>2. /\ state' \in [All -> {"none", "RUNNING", "INTERRUPTIBLE", "STOPPED", "ZOMBIE"}]
        /\ \A t \in Tasks : state'[t] # "none" => t <= pool_index
    BY <1>0, <1>8, <2>1, NewState
  <2> DEFINE new == state'
  <2>3. rq' = Scheduled(rq, new) /\ state' = new
    BY <1>8
  <2> HIDE DEF new
  <2>4. new \in [All -> {"none", "RUNNING", "INTERRUPTIBLE", "STOPPED", "ZOMBIE"}]
        /\ \A t \in Tasks : new[t] # "none" => t <= pool_index
    BY <2>2 DEF new
  <2> QED BY <1>0, <2>1, <2>3, <2>4, ScheduledTypes
<1>9. CASE HandleSignal
  <2>1. UNCHANGED <<pool, woken>> /\ current \in signals /\ current \in Tasks
    <3>1. rq \in Queues(Pool) /\ Pool \in SUBSET Tasks
      BY <1>0, PoolType DEF QueueTypes
    <3>2. current \in All
      BY <3>1, Identities DEF Queues, current, All
    <3> QED BY <1>0, <1>9, <3>2 DEF HandleSignal, SignalTypes
  <2>2. CASE UNCHANGED <<rq, state, exiting>>
    BY <1>7, <2>1, <2>2
  <2>3. CASE state' = [state EXCEPT ![current] = "RUNNING"] /\ UNCHANGED <<rq, exiting>>
    <3>1. current \in Pool
      BY <1>0, <2>1 DEF QueueTypes, Queues, current, Tasks, IDLE
    <3>2. /\ state' \in [All -> {"none", "RUNNING", "INTERRUPTIBLE", "STOPPED", "ZOMBIE"}]
          /\ \A t \in Tasks : state'[t] # "none" => t <= pool_index
      BY <1>0, <2>3, <3>1, NewState
    <3> QED BY <1>0, <2>1, <2>3, <3>2 DEF QueueTypes, Pool, pool
  <2>4. CASE /\ state' = [state EXCEPT ![current] = "STOPPED"]
             /\ rq' = Scheduled(rq, state') /\ UNCHANGED exiting
    BY <1>8, <2>1, <2>4
  <2>5. CASE ExitTask
    BY <1>0, <2>1, <2>5, ExitTypes
  <2> QED BY <1>9, <2>2, <2>3, <2>4, <2>5 DEF HandleSignal
<1>10. CASE DoWaitpid
  <2>1. current \in Tasks
    BY <1>0, <1>10, RunQueueAssumption DEF DoWaitpid, SignalTypes
  <2> QED BY <1>8, <1>10, <2>1 DEF DoWaitpid
<1>11. CASE DoSignal \/ (\E t \in Tasks : SignalInit(t))
            \/ (\E S \in SUBSET calls.sigs : SigProcMask(S))
            \/ (\E s \in calls.sigs, ignore \in BOOLEAN : SigAction(s, ignore))
  BY <1>7, <1>11 DEF DoSignal, SignalInit, SigProcMask, SigAction
<1> QED BY <1>1, <1>2, <1>3, <1>4, <1>5, <1>6, <1>9, <1>10, <1>11, <1>12 DEF Step

\* Every call keeps the types of the signals, and no call masks SIGKILL or
\* SIGSTOP.
LEMMA SignalStep ==
  ASSUME IInv, Step, calls' = calls
  PROVE  SignalTypes' /\ KillNotMaskable'
<1>0. QueueTypes /\ SignalTypes /\ KillNotMaskable
  BY DEF IInv
<1>1. ASSUME UNCHANGED sig PROVE SignalTypes' /\ KillNotMaskable'
  BY <1>0, <1>1 DEF SignalTypes, KillNotMaskable, sig
<1>2. CASE Schedule \/ CreateTask \/ CreateTaskFail \/ CreateThreadFail \/ Exit
           \/ DoWaitpid \/ (\E t \in Tasks : KillTask(t))
  BY <1>1, <1>2
  DEF Schedule, CreateTask, CreateTaskFail, CreateThreadFail, Exit, DoWaitpid, KillTask
<1>3. ASSUME NEW t \in Tasks, SignalInit(t) PROVE SignalTypes' /\ KillNotMaskable'
  BY <1>0, <1>3 DEF SignalTypes, KillNotMaskable, SignalInit
<1>4. ASSUME NEW t \in Tasks, NEW s \in calls.sigs, Kill(t, s)
      PROVE  SignalTypes' /\ KillNotMaskable'
  <2>1. pending' \in [All -> SUBSET calls.sigs]
    BY <1>0, <1>4 DEF SignalTypes, Kill
  <2> QED BY <1>0, <1>4, <2>1 DEF SignalTypes, KillNotMaskable, Kill
<1>5. ASSUME NEW S \in SUBSET calls.sigs, SigProcMask(S)
      PROVE  SignalTypes' /\ KillNotMaskable'
  <2>1. /\ blocked' = [blocked EXCEPT ![current] = S \ {SIGKILL, SIGSTOP}]
        /\ UNCHANGED <<signals, pending, ignored, todo>>
    BY <1>5 DEF SigProcMask
  <2> QED BY <1>0, <2>1 DEF SignalTypes, KillNotMaskable
<1>6. ASSUME NEW s \in calls.sigs, NEW ignore \in BOOLEAN, SigAction(s, ignore)
      PROVE  SignalTypes' /\ KillNotMaskable'
  <2>1. PICK S \in SUBSET calls.sigs :
          /\ ignored' = [ignored EXCEPT ![current] = S]
          /\ current \in All => {SIGKILL, SIGSTOP} \cap S = {}
    <3> DEFINE T == IF ignore THEN ignored[current] \cup {s} ELSE ignored[current] \ {s}
    <3>1. ignored' = [ignored EXCEPT ![current] = T] /\ current \in Tasks
          /\ s \notin {SIGKILL, SIGSTOP}
      BY <1>0, <1>6 DEF SigAction, SignalTypes
    <3>2. ignored[current] \in SUBSET calls.sigs /\ current \in All
          /\ {SIGKILL, SIGSTOP} \cap ignored[current] = {}
      BY <1>0, <3>1, Identities DEF SignalTypes, KillNotMaskable
    <3>3. T \in SUBSET calls.sigs /\ {SIGKILL, SIGSTOP} \cap T = {}
      BY <3>1, <3>2
    <3> HIDE DEF T
    <3> QED BY <3>1, <3>3
  <2>2. UNCHANGED <<signals, pending, blocked, todo>>
    BY <1>6 DEF SigAction
  <2> QED BY <1>0, <2>1, <2>2 DEF SignalTypes, KillNotMaskable
<1>7. CASE DoSignal
  <2>1. /\ current \in All => pending[current] \ blocked[current] \in SUBSET calls.sigs
        /\ current \in signals
        /\ todo' = [todo EXCEPT ![current] = pending[current] \ blocked[current]]
        /\ UNCHANGED <<signals, pending, blocked, ignored>>
    BY <1>0, <1>7 DEF DoSignal, SignalTypes
  <2> QED BY <1>0, <2>1 DEF SignalTypes, KillNotMaskable
<1>8. CASE HandleSignal
  <2>1. PICK s :
          /\ pending' = [pending EXCEPT ![current] = @ \ {s}]
          /\ todo' = [todo EXCEPT ![current] = @ \ {s}]
          /\ UNCHANGED <<signals, blocked, ignored>>
    BY <1>8 DEF HandleSignal
  <2>2. /\ pending' \in [All -> SUBSET calls.sigs] /\ todo' \in [All -> SUBSET calls.sigs]
        /\ \A t \in All : todo'[t] # {} => t \in signals
    BY <1>0, <2>1 DEF SignalTypes
  <2> QED BY <1>0, <2>1, <2>2 DEF SignalTypes, KillNotMaskable
<1> QED BY <1>2, <1>3, <1>4, <1>5, <1>6, <1>7, <1>8 DEF Step

\* Until a task is woken, every call keeps the queue exact.
LEMMA ExactStep ==
  ASSUME IInv, Step, calls' = calls
  PROVE  QueueExact' /\ CurrentQueued'
<1> SUFFICES ASSUME ~woken'
             PROVE  Holds(rq', Queued') /\ rq'.current \in Queued' \cup {IDLE}
  BY DEF QueueExact, CurrentQueued, current
<1>w. ~woken
  BY DEF Step, Schedule, CreateTask, CreateTaskFail, CreateThreadFail, Exit, KillTask,
         SignalInit, Kill, WakeIfWaiting, WakeUp, SigProcMask, SigAction, DoSignal,
         HandleSignal, DoWaitpid
<1>0. /\ QueueTypes /\ SignalTypes
      /\ Holds(rq, Queued) /\ rq.current \in Queued \cup {IDLE}
  BY <1>w DEF IInv, QueueExact, CurrentQueued, current
<1>1. /\ rq \in Queues(Pool) /\ Pool \in SUBSET Tasks /\ Queued \in SUBSET Tasks
      /\ stack \subseteq Pool
  BY <1>0, PoolType DEF QueueTypes, Queued
<1> DEFINE Goal == Holds(rq', Queued') /\ rq'.current \in Queued' \cup {IDLE}
<1>2. ASSUME UNCHANGED <<rq, state, stack>> PROVE Goal
  BY <1>0, <1>2 DEF Queued
\* schedule, after the state of a task of the queue has changed.
<1>3. ASSUME NEW st, state' = st, stack' = stack, rq' = Scheduled(rq, st), Queued' = Queued
      PROVE  Goal
  <2>1. /\ Holds(Scheduled(rq, st), Queued)
        /\ Scheduled(rq, st).current \in Queued \cup {IDLE}
    BY <1>0, <1>1, ScheduledHolds
  <2> QED BY <1>3, <2>1
<1>4. ASSUME NEW t \in Queued, NEW st \in {"RUNNING", "INTERRUPTIBLE", "STOPPED"},
             state' = [state EXCEPT ![t] = st], stack' = stack
      PROVE  Queued' = Queued
  BY <1>0, <1>1, <1>4, Identities DEF Queued, QueueTypes
<1>5. CASE Schedule
  <2>1. rq' = Scheduled(rq, state) /\ state' = state /\ stack' = stack
    BY <1>5 DEF Schedule, pool
  <2>2. Queued' = Queued
    BY <2>1 DEF Queued
  <2> QED BY <1>3, <2>1, <2>2
<1>6. CASE CreateTask
  <2> DEFINE t == pool_index + 1
  <2>1. /\ t \in Tasks /\ t \in Pool' /\ Pool' \in SUBSET Tasks
        /\ Pool \subseteq Pool' /\ t \notin Pool
    BY <1>0, <1>6, PoolType, RunQueueAssumption DEF CreateTask, Tasks, QueueTypes, Pool
  <2>2. t \notin Queued
    BY <1>1, <2>1 DEF Queued
  <2>3. /\ rq' = enqueue_task(rq, t) /\ state' = [state EXCEPT ![t] = "RUNNING"]
        /\ stack' = stack \cup {t}
    BY <1>6 DEF CreateTask
  <2>4. rq \in Queues(Pool')
    BY <1>1, <2>1, QueuesGrow
  <2>5. Queued' = Queued \cup {t}
    <3> HIDE DEF t
    <3> QED BY <1>0, <1>1, <2>1, <2>3, Identities DEF Queued, QueueTypes
  <2>6. Holds(rq', Queued') /\ rq'.current = rq.current
    <3> HIDE DEF t
    <3>1. t \in Pool' \ Queued
      BY <2>1, <2>2
    <3> QED BY <1>0, <1>1, <2>1, <2>3, <2>4, <2>5, <3>1, Enqueued, EnqueueFields
  <2> QED BY <1>0, <2>5, <2>6
<1>7. CASE CreateThreadFail
  <2>1. /\ pool_index + 1 \in Tasks /\ pool_index + 1 \notin stack
        /\ state' = [state EXCEPT ![pool_index + 1] = "RUNNING"]
        /\ rq' = rq /\ stack' = stack
    BY <1>0, <1>1, <1>7, PoolType, RunQueueAssumption
    DEF CreateThreadFail, Tasks, QueueTypes, Pool
  <2>2. Queued' = Queued
    BY <1>0, <1>1, <2>1, Identities DEF Queued, QueueTypes
  <2> QED BY <1>0, <2>1, <2>2
<1>8. ASSUME ExitTask, UNCHANGED stack PROVE Goal
  <2> DEFINE zombie == [state EXCEPT ![current] = "ZOMBIE"]
             r == dequeue_task(rq, current)
  <2>1. /\ current \in Queued /\ current \in Tasks
        /\ state' = zombie /\ rq' = Scheduled(r, zombie)
    BY <1>0, <1>1, <1>8 DEF ExitTask, current
  <2>2. Queued' = Queued \ {current} /\ zombie[current] = "ZOMBIE"
    <3> HIDE DEF current
    <3> QED BY <1>0, <1>1, <1>8, <2>1, Identities DEF Queued, QueueTypes
  <2>3. r \in Queues(Pool) /\ Holds(r, Queued \ {current}) /\ r.current = rq.current
    <3> HIDE DEF current
    <3> QED BY <1>0, <1>1, <2>1, DequeueFields, Dequeued
  <2> HIDE DEF zombie, r
  <2>4. zombie[r.current] # "RUNNING" /\ Queued \ {current} \in SUBSET Tasks
    BY <1>1, <2>2, <2>3 DEF current
  <2>5. /\ Holds(Scheduled(r, zombie), Queued \ {current})
        /\ Scheduled(r, zombie).current \in (Queued \ {current}) \cup {IDLE}
    BY <1>1, <2>3, <2>4, ScheduledHolds
  <2> QED BY <2>1, <2>2, <2>5
\* do_waitpid and the stop signal leave the current task in the queue.
<1>9. ASSUME NEW st \in {"INTERRUPTIBLE", "STOPPED"}, current \in Tasks,
             state' = [state EXCEPT ![current] = st], rq' = Scheduled(rq, state'),
             stack' = stack
      PROVE  Goal
  <2>1. current \in Queued
    BY <1>0, <1>9, Identities DEF current
  <2>2. Queued' = Queued
    BY <1>4, <1>9, <2>1
  <2> DEFINE new == state'
  <2>3. rq' = Scheduled(rq, new) /\ state' = new
    BY <1>9
  <2> HIDE DEF new
  <2> QED BY <1>3, <1>9, <2>2, <2>3
<1>10. CASE HandleSignal
  <2>1. PICK s \in todo[current] :
          \/ UNCHANGED <<rq, state>>
          \/ state' = [state EXCEPT ![current] = "RUNNING"] /\ UNCHANGED rq
          \/ state' = [state EXCEPT ![current] = "STOPPED"] /\ rq' = Scheduled(rq, state')
          \/ ExitTask
    BY <1>10 DEF HandleSignal
  <2>2. current \in All /\ current \in Tasks /\ stack' = stack
    <3>1. current \in All
      BY <1>0, <1>1, Identities DEF current, Queues, All
    <3>2. current \in signals
      BY <1>0, <2>1, <3>1 DEF SignalTypes
    <3> QED BY <1>0, <1>10, <3>1, <3>2 DEF SignalTypes, HandleSignal, pool
  <2>3. CASE state' = [state EXCEPT ![current] = "RUNNING"] /\ UNCHANGED rq
    <3>1. current \in Queued
      BY <1>0, <2>2, Identities DEF current
    <3>2. Queued' = Queued
      BY <1>4, <2>2, <2>3, <3>1
    <3> QED BY <1>0, <2>3, <3>2
  <2>4. CASE state' = [state EXCEPT ![current] = "STOPPED"] /\ rq' = Scheduled(rq, state')
    BY <1>9, <2>2, <2>4
  <2> QED BY <1>2, <1>8, <2>1, <2>2, <2>3, <2>4
<1>11. CASE (\E t \in Tasks : KillTask(t)) \/ (\E t \in Tasks, s \in calls.sigs : Kill(t, s))
  BY <1>2, <1>11 DEF KillTask, Kill, WakeIfWaiting, WakeUp, pool
<1>12. CASE DoWaitpid
  <2>1. current \in Tasks
    BY <1>0, <1>12, RunQueueAssumption DEF DoWaitpid, SignalTypes
  <2> QED BY <1>9, <1>12, <2>1 DEF DoWaitpid, pool
<1>13. CASE CreateTaskFail \/ DoSignal \/ (\E t \in Tasks : SignalInit(t))
           \/ (\E S \in SUBSET calls.sigs : SigProcMask(S))
           \/ (\E s \in calls.sigs, ignore \in BOOLEAN : SigAction(s, ignore))
  BY <1>2, <1>13 DEF CreateTaskFail, DoSignal, SignalInit, SigProcMask, SigAction, pool
<1> QED BY <1>5, <1>6, <1>7, <1>8, <1>10, <1>11, <1>12, <1>13 DEF Step, Exit, pool

\* sched_init establishes the invariant.
LEMMA Initially == Init => IInv
<1> SUFFICES ASSUME Init PROVE IInv
  OBVIOUS
<1>1. /\ rq.head = NULL /\ rq.tail = NULL /\ rq.nr_running = 0 /\ rq.current = IDLE
      /\ rq \in Queues(Pool)
  BY DEF Init, Queues
<1>2. Queued = {}
  BY DEF Init, Queued
<1>3. Holds(rq, {})
  BY <1>1, FS_EmptySet DEF Holds
<1>4. QueueTypes
  <2>1. /\ stack = {} /\ exiting = {} /\ woken = FALSE /\ pool_index = 0
        /\ state = [t \in All |-> IF t = IDLE THEN "RUNNING" ELSE "none"]
    BY DEF Init
  <2>2. \A t \in Tasks : state[t] = "none"
    BY <2>1, Identities
  <2>3. /\ state \in [All -> {"none", "RUNNING", "INTERRUPTIBLE", "STOPPED", "ZOMBIE"}]
        /\ pool_index \in 0 .. MAX_TASKS
    BY <2>1, RunQueueAssumption
  <2>4. rq.nr_running <= MaxRunning + pool_index
    BY <1>1, <2>1, RunQueueAssumption
  <2> QED BY <1>1, <2>1, <2>2, <2>3, <2>4 DEF QueueTypes
<1>5. SignalTypes /\ KillNotMaskable
  BY DEF Init, SignalTypes, KillNotMaskable
<1>6. QueueExact /\ CurrentQueued
  BY <1>1, <1>2, <1>3 DEF QueueExact, CurrentQueued, current
<1> QED BY <1>4, <1>5, <1>6 DEF IInv

\* The inductive invariant holds in every state.
THEOREM Invariance == Spec => []IInv
<1>1. IInv /\ [Next]_vars => IInv'
  <2> SUFFICES ASSUME IInv, [Next]_vars PROVE IInv'
    OBVIOUS
  <2>1. CASE Next
    BY <2>1, QueueStep, SignalStep, ExactStep DEF IInv, Next
  <2>2. CASE UNCHANGED vars
    BY <2>2 DEF IInv, vars, sig, pool, QueueTypes, Pool, SignalTypes, QueueExact,
                Queued, CurrentQueued, current, KillNotMaskable
  <2> QED BY <2>1, <2>2
<1> QED BY Initially, <1>1, PTL DEF Spec

\* For every number of tasks and every workload: the types are kept, and until
\* a task is woken, through failed creations, waits, stops and exits, the run
\* queue holds each created task that has not exited once, in a list without a
\* break, and the CPU runs one of them or the idle task.
THEOREM RunQueueConsistent == Spec => []QueueConsistent
<1>1. IInv => QueueConsistent
  BY TypesOK DEF IInv, QueueConsistent
<1> QED BY Invariance, <1>1, PTL

\* One call, until a task is woken: a task of the queue that does not run stays
\* before those that come after it.
LEMMA OrderStep ==
  ASSUME IInv, Step, calls' = calls, ~woken',
         NEW a \in Queued \ {current}, NEW b \in Queued, Before(rq, a, b),
         {a, b} \subseteq Queued'
  PROVE  Before(rq', a, b)
<1>w. ~woken
  BY DEF Step, Schedule, CreateTask, CreateTaskFail, CreateThreadFail, Exit, KillTask,
         SignalInit, Kill, WakeIfWaiting, WakeUp, SigProcMask, SigAction, DoSignal,
         HandleSignal, DoWaitpid
<1>0. /\ QueueTypes /\ SignalTypes
      /\ Holds(rq, Queued) /\ rq.current \in Queued \cup {IDLE}
  BY <1>w DEF IInv, QueueExact, CurrentQueued, current
<1>1. /\ rq \in Queues(Pool) /\ Pool \in SUBSET Tasks /\ Queued \in SUBSET Tasks
      /\ stack \subseteq Pool
  BY <1>0, PoolType DEF QueueTypes, Queued
<1>2. ASSUME rq' = rq PROVE Before(rq', a, b)
  BY <1>2
<1>3. ASSUME NEW st, rq' = Scheduled(rq, st) PROVE Before(rq', a, b)
  <2>1. a \in Queued \ {rq.current}
    BY DEF current
  <2> QED BY <1>0, <1>1, <1>3, <2>1, BeforeScheduled
<1>4. CASE CreateTask
  <2> DEFINE t == pool_index + 1
  <2>1. /\ t \in Tasks /\ t \in Pool' /\ Pool' \in SUBSET Tasks
        /\ Pool \subseteq Pool' /\ t \notin Pool
    BY <1>0, <1>4, PoolType, RunQueueAssumption DEF CreateTask, Tasks, QueueTypes, Pool
  <2>2. t \in Pool' \ Queued
    BY <1>1, <2>1 DEF Queued
  <2>3. rq' = enqueue_task(rq, t)
    BY <1>4 DEF CreateTask
  <2>4. rq \in Queues(Pool')
    BY <1>1, <2>1, QueuesGrow
  <2> HIDE DEF t
  <2> QED BY <1>0, <1>1, <2>1, <2>2, <2>3, <2>4, BeforeEnqueued
<1>5. ASSUME ExitTask, UNCHANGED stack PROVE Before(rq', a, b)
  <2> DEFINE zombie == [state EXCEPT ![current] = "ZOMBIE"]
             r == dequeue_task(rq, current)
  <2>1. /\ current \in Queued /\ current \in Tasks
        /\ state' = zombie /\ rq' = Scheduled(r, zombie)
    BY <1>0, <1>1, <1>5 DEF ExitTask, current
  <2>2. Queued' = Queued \ {current} /\ zombie[current] = "ZOMBIE"
    <3> HIDE DEF current
    <3> QED BY <1>0, <1>1, <1>5, <2>1, Identities DEF Queued, QueueTypes
  <2>3. r \in Queues(Pool) /\ Holds(r, Queued \ {current}) /\ r.current = current
    <3>1. rq.current = current
      BY DEF current
    <3>2. rq \in Queues(Pool) /\ Holds(rq, Queued) /\ current \in Queued
      BY <1>0, <1>1, <2>1
    <3>3. current \in Pool
      BY <1>1, <2>1 DEF Queued
    <3> HIDE DEF current
    <3>4. Holds(r, Queued \ {current})
      BY <1>1, <3>2, <3>3, Dequeued
    <3>5. r \in Queues(Pool) /\ r.current = rq.current
      BY <1>1, <3>2, <3>3, DequeueFields
    <3> QED BY <3>1, <3>4, <3>5
  <2>4. a \in Queued \ {current} /\ b \in Queued \ {current}
    BY <2>2
  <2>5. Before(r, a, b)
    <3> HIDE DEF current
    <3> QED BY <1>0, <1>1, <2>1, <2>4, BeforeDequeued
  <2> HIDE DEF zombie, r
  <2>6. zombie[r.current] # "RUNNING" /\ Queued \ {current} \in SUBSET Tasks
        /\ a \in (Queued \ {current}) \ {r.current}
    BY <1>1, <2>2, <2>3, <2>4
  <2>7. Before(Scheduled(r, zombie), a, b)
    BY <1>1, <2>3, <2>4, <2>5, <2>6, BeforeScheduled
  <2> QED BY <2>1, <2>7
<1>6. CASE HandleSignal
  <2>1. \/ rq' = rq \/ rq' = Scheduled(rq, state')
        \/ ExitTask /\ UNCHANGED stack
    BY <1>6 DEF HandleSignal, pool
  <2> DEFINE new == state'
  <2>2. rq' = rq \/ rq' = Scheduled(rq, new) \/ (ExitTask /\ UNCHANGED stack)
    BY <2>1
  <2> HIDE DEF new
  <2> QED BY <1>2, <1>3, <1>5, <2>2
<1>7. CASE DoWaitpid
  <2> DEFINE new == state'
  <2>1. rq' = Scheduled(rq, new)
    BY <1>7 DEF DoWaitpid
  <2> HIDE DEF new
  <2> QED BY <1>3, <2>1
<1>8. CASE (\E t \in Tasks : KillTask(t)) \/ (\E t \in Tasks, s \in calls.sigs : Kill(t, s))
  BY <1>2, <1>8 DEF KillTask, Kill, WakeIfWaiting, WakeUp
<1>9. CASE Schedule
  BY <1>3, <1>9 DEF Schedule
<1>10. CASE Exit
  BY <1>5, <1>10 DEF Exit, pool
<1>11. CASE CreateTaskFail \/ CreateThreadFail \/ DoSignal \/ (\E t \in Tasks : SignalInit(t))
           \/ (\E S \in SUBSET calls.sigs : SigProcMask(S))
           \/ (\E s \in calls.sigs, ignore \in BOOLEAN : SigAction(s, ignore))
  BY <1>2, <1>11
  DEF CreateTaskFail, CreateThreadFail, DoSignal, SignalInit, SigProcMask, SigAction
<1> QED BY <1>4, <1>6, <1>7, <1>8, <1>9, <1>10, <1>11 DEF Step

\* For every number of tasks and every workload, until a task is woken, no call
\* lets a task of the queue overtake one that waits before it.
THEOREM RunQueueNotOvertaken == Spec => NotOvertaken
<1> DEFINE Order == ~woken' => \A a \in Queued \ {current}, b \in Queued :
              Before(rq, a, b) /\ {a, b} \subseteq Queued' => Before(rq', a, b)
<1>1. IInv /\ [Next]_vars => [Order]_vars
  <2> SUFFICES ASSUME IInv, Next PROVE Order
    OBVIOUS
  <2> QED BY OrderStep DEF Next
<1>2. Spec => [][Order]_vars
  <2> HIDE DEF Order
  <2> QED BY Invariance, <1>1, PTL DEF Spec
<1> QED BY <1>2 DEF NotOvertaken

\* Whatever calls tasks make, none of them blocks or ignores SIGKILL or
\* SIGSTOP.
THEOREM RunQueueKillNotMaskable == Spec => []KillNotMaskable
<1>1. IInv => KillNotMaskable
  BY DEF IInv
<1> QED BY Invariance, <1>1, PTL
=============================================================================
