----------------------------- MODULE PipeProofs -----------------------------
(***************************************************************************)
(* Proofs about Pipe for every number of readers and writers, every ring   *)
(* size and every set of messages.  The inductive invariant joins the type *)
(* and the arithmetic of the ring (RingExact) to two facts about calls and *)
(* files: a thread in a call has its end open and its arguments set, and   *)
(* the counts, the files and the allocations of do_pipe agree.             *)
(***************************************************************************)
EXTENDS Pipe, SequenceTheorems, TLAPS

\* A reader in a call has not closed its end and asks for a byte at least.
ReaderCall(r) ==
  /\ pc[r] \in {"idle", "read"}
  /\ pc[r] = "read" => file["r"] = "open" /\ want[r] >= 1

\* A writer in a call has not closed its end; outside of a call it has nothing
\* left to write.
WriterCall(w) ==
  /\ pc[w] \in {"idle", "write"}
  /\ pc[w] = "write" => file["w"] = "open"
  /\ pc[w] = "idle" => buf[w] = <<>> /\ written[w] = 0

Calls == (\A r \in Readers : ReaderCall(r)) /\ (\A w \in Writers : WriterCall(w))

\* The counts, the files and what is allocated agree.  Without a dentry no
\* close reaches the pipe, so that counts and pipe stay as do_pipe left them.
Lifecycle ==
  /\ \A e \in Ends :
       /\ e \in mem <=> file[e] # "closed"
       /\ file[e] = "open" => users[e] = 1
       /\ dentry => (users[e] = 1 => file[e] = "open")
       /\ file[e] = "last" => dentry /\ \A d \in Ends : users[d] = 0
  /\ "pipe" \in mem <=> "buffer" \in mem
  /\ dentry =>
       ("pipe" \in mem <=> \E e \in Ends : file[e] \in {"open", "last"})
  /\ \A e, d \in Ends : file[e] = "last" /\ file[d] = "last" => e = d
  /\ ~dentry => "pipe" \in mem \/ \A e \in Ends : users[e] = 0 /\ file[e] = "closed"

IInv == TypeOK /\ RingConsistent /\ Calls /\ Lifecycle

-----------------------------------------------------------------------------
(* The ring's arithmetic: every sum the code reduces is below two turns. *)

\* A number below two turns wraps at most once.
LEMMA Wrap ==
  ASSUME NEW n \in Nat, n < 2 * PIPE_SIZE
  PROVE  /\ n % PIPE_SIZE \in Index
         /\ n < PIPE_SIZE => n % PIPE_SIZE = n
         /\ n >= PIPE_SIZE => n % PIPE_SIZE = n - PIPE_SIZE
<1>1. CASE n < PIPE_SIZE
  BY <1>1, PipeAssumption DEF Index
<1>2. CASE n >= PIPE_SIZE
  BY <1>2, PipeAssumption DEF Index
<1> QED BY <1>1, <1>2, PipeAssumption

\* A position moved by at most one turn.
LEMMA Advance ==
  ASSUME NEW p \in Index, NEW k \in 0 .. PIPE_SIZE
  PROVE  /\ (p + k) % PIPE_SIZE \in Index
         /\ p + k < PIPE_SIZE => (p + k) % PIPE_SIZE = p + k
         /\ p + k >= PIPE_SIZE => (p + k) % PIPE_SIZE = p + k - PIPE_SIZE
<1> DEFINE n == p + k
<1>1. n \in Nat /\ n < 2 * PIPE_SIZE
  BY PipeAssumption DEF Index
<1>2. /\ n % PIPE_SIZE \in Index
      /\ n < PIPE_SIZE => n % PIPE_SIZE = n
      /\ n >= PIPE_SIZE => n % PIPE_SIZE = n - PIPE_SIZE
  <2> HIDE DEF n
  <2> QED BY <1>1, Wrap
<1> QED BY <1>2, PipeAssumption DEF Index

\* k steps and then m steps are k + m steps.
LEMMA WrapTwice ==
  ASSUME NEW p \in Index, NEW k \in 0 .. PIPE_SIZE, NEW m \in 0 .. PIPE_SIZE,
         k + m <= PIPE_SIZE
  PROVE  (((p + k) % PIPE_SIZE) + m) % PIPE_SIZE = (p + (k + m)) % PIPE_SIZE
<1> DEFINE q == (p + k) % PIPE_SIZE
           km == k + m
<1>1. /\ q \in Index
      /\ p + k < PIPE_SIZE => q = p + k
      /\ p + k >= PIPE_SIZE => q = p + k - PIPE_SIZE
  BY Advance
<1>2. km \in 0 .. PIPE_SIZE
  BY PipeAssumption
<1> HIDE DEF q
<1>3. /\ q + m < PIPE_SIZE => (q + m) % PIPE_SIZE = q + m
      /\ q + m >= PIPE_SIZE => (q + m) % PIPE_SIZE = q + m - PIPE_SIZE
  BY <1>1, Advance
<1>4. /\ p + km < PIPE_SIZE => (p + km) % PIPE_SIZE = p + km
      /\ p + km >= PIPE_SIZE => (p + km) % PIPE_SIZE = p + km - PIPE_SIZE
  <2> HIDE DEF km
  <2> QED BY <1>2, Advance
<1>5. (q + m) % PIPE_SIZE = (p + km) % PIPE_SIZE
  BY <1>1, <1>3, <1>4, PipeAssumption DEF Index
<1> QED BY <1>5 DEF q

\* The distance from the slot c after p to the slot j after p.
LEMMA Distance ==
  ASSUME NEW p \in Index, NEW j \in Index, NEW c \in 0 .. PIPE_SIZE
  PROVE  (((p + j) % PIPE_SIZE) + PIPE_SIZE - ((p + c) % PIPE_SIZE)) % PIPE_SIZE
           = IF j >= c THEN j - c ELSE PIPE_SIZE + j - c
<1> DEFINE a == (p + j) % PIPE_SIZE
           b == (p + c) % PIPE_SIZE
           r == a + PIPE_SIZE - b
<1>0. j \in 0 .. PIPE_SIZE
  BY PipeAssumption DEF Index
<1>1. /\ a \in Index
      /\ p + j < PIPE_SIZE => a = p + j
      /\ p + j >= PIPE_SIZE => a = p + j - PIPE_SIZE
  BY <1>0, Advance
<1>2. /\ b \in Index
      /\ p + c < PIPE_SIZE => b = p + c
      /\ p + c >= PIPE_SIZE => b = p + c - PIPE_SIZE
  BY Advance
<1> HIDE DEF a, b
<1>3. r \in Nat /\ r < 2 * PIPE_SIZE
  BY <1>1, <1>2, PipeAssumption DEF Index
<1>4. /\ r < PIPE_SIZE => r % PIPE_SIZE = r
      /\ r >= PIPE_SIZE => r % PIPE_SIZE = r - PIPE_SIZE
  <2> HIDE DEF r
  <2> QED BY <1>3, Wrap
<1>5. r % PIPE_SIZE = IF j >= c THEN j - c ELSE PIPE_SIZE + j - c
  BY <1>1, <1>2, <1>4, PipeAssumption DEF Index
<1> QED BY <1>5 DEF a, b

-----------------------------------------------------------------------------
(* The bytes of a ring as a sequence. *)

\* The k slots of f from p on; Bytes is this for the buffer.
Slots(f, p, k) == [i \in 1 .. k |-> f[(p + i - 1) % PIPE_SIZE]]

\* The slots are a sequence of k bytes, its i-th the one at distance i - 1.
LEMMA SlotsSeq ==
  ASSUME NEW f \in [Index -> Nat], NEW p \in Index, NEW k \in 0 .. PIPE_SIZE
  PROVE  /\ Slots(f, p, k) \in Seq(Nat)
         /\ Len(Slots(f, p, k)) = k
         /\ \A i \in 1 .. k : /\ Slots(f, p, k)[i] = f[(p + (i - 1)) % PIPE_SIZE]
                              /\ i - 1 \in Index
                              /\ (p + (i - 1)) % PIPE_SIZE \in Index
<1>1. ASSUME NEW i \in 1 .. k
      PROVE  /\ i - 1 \in Index
             /\ (p + (i - 1)) % PIPE_SIZE \in Index
             /\ p + i - 1 = p + (i - 1)
  <2> DEFINE j == i - 1
  <2>1. j \in 0 .. PIPE_SIZE /\ j \in Index
    BY PipeAssumption DEF Index
  <2>2. (p + j) % PIPE_SIZE \in Index
    <3> HIDE DEF j
    <3> QED BY <2>1, Advance
  <2>3. p + i - 1 = p + j
    BY DEF Index
  <2> QED BY <2>1, <2>2, <2>3
<1>2. \A i \in 1 .. k : Slots(f, p, k)[i] = f[(p + (i - 1)) % PIPE_SIZE]
  BY <1>1 DEF Slots
<1>3. \A i \in 1 .. k : f[(p + i - 1) % PIPE_SIZE] \in Nat
  BY <1>1
<1>4. Slots(f, p, k) \in Seq(Nat) /\ Len(Slots(f, p, k)) = k
  BY <1>3 DEF Slots
<1> QED BY <1>1, <1>2, <1>4

\* A read takes the front of the ring and leaves the rest.
LEMMA SlotsSplit ==
  ASSUME NEW f \in [Index -> Nat], NEW p \in Index,
         NEW m \in 0 .. PIPE_SIZE, NEW k \in 0 .. m
  PROVE  /\ Slots(f, p, k) = SubSeq(Slots(f, p, m), 1, k)
         /\ Slots(f, (p + k) % PIPE_SIZE, m - k) = SubSeq(Slots(f, p, m), k + 1, m)
<1> DEFINE q == (p + k) % PIPE_SIZE
           s == Slots(f, p, m)
<1>0. k \in 0 .. PIPE_SIZE /\ m - k \in 0 .. PIPE_SIZE /\ q \in Index
  <2>1. k \in 0 .. PIPE_SIZE
    BY PipeAssumption
  <2>2. q \in Index
    BY <2>1, Advance
  <2> QED BY <2>1, <2>2, PipeAssumption
<1>1. /\ s \in Seq(Nat) /\ Len(s) = m
      /\ \A i \in 1 .. m : s[i] = f[(p + (i - 1)) % PIPE_SIZE]
  BY SlotsSeq
<1>2. Slots(f, p, k) = SubSeq(s, 1, k)
  <2> DEFINE a == Slots(f, p, k)
             b == SubSeq(s, 1, k)
  <2>1. /\ a \in Seq(Nat) /\ Len(a) = k
        /\ \A i \in 1 .. k : a[i] = f[(p + (i - 1)) % PIPE_SIZE]
    BY <1>0, SlotsSeq
  <2>2. b \in Seq(Nat) /\ Len(b) = k /\ \A i \in 1 .. k : b[i] = s[i]
    <3> HIDE DEF s
    <3> QED BY <1>0, <1>1
  <2>3. ASSUME NEW i \in 1 .. k PROVE a[i] = b[i]
    <3>1. i \in 1 .. m
      BY PipeAssumption
    <3> HIDE DEF a, b, s
    <3> QED BY <1>1, <2>1, <2>2, <3>1
  <2> HIDE DEF a, b
  <2>4. a = b
    BY <2>1, <2>2, <2>3, SeqEqual
  <2> QED BY <2>4 DEF a, b
<1>3. Slots(f, q, m - k) = SubSeq(s, k + 1, m)
  <2> DEFINE r == m - k
             a == Slots(f, q, r)
             b == SubSeq(s, k + 1, m)
  <2>1. /\ a \in Seq(Nat) /\ Len(a) = r
        /\ \A i \in 1 .. r : a[i] = f[(q + (i - 1)) % PIPE_SIZE]
    <3> HIDE DEF r, q
    <3> QED BY <1>0, SlotsSeq DEF r
  <2>2. b \in Seq(Nat) /\ Len(b) = r /\ \A i \in 1 .. r : b[i] = s[i + k]
    <3> HIDE DEF s
    <3> QED BY <1>0, <1>1
  <2>3. ASSUME NEW i \in 1 .. r PROVE a[i] = b[i]
    <3> DEFINE j == i - 1
    <3>1. j \in 0 .. PIPE_SIZE /\ k + j <= PIPE_SIZE /\ i + k \in 1 .. m
          /\ i + k - 1 = k + j
      BY PipeAssumption
    <3>2. (q + j) % PIPE_SIZE = (p + (k + j)) % PIPE_SIZE
      <4> HIDE DEF j
      <4> QED BY <1>0, <3>1, WrapTwice DEF q
    <3>3. a[i] = f[(q + j) % PIPE_SIZE]
      BY <2>1
    <3>4. s[i + k] = f[(p + (k + j)) % PIPE_SIZE]
      <4> HIDE DEF s, j
      <4> QED BY <1>1, <3>1
    <3>5. b[i] = s[i + k]
      BY <2>2
    <3> HIDE DEF a, b, s, q, j
    <3> QED BY <3>2, <3>3, <3>4, <3>5
  <2> HIDE DEF a, b, r
  <2>4. a = b
    BY <2>1, <2>2, <2>3, SeqEqual
  <2> QED BY <2>4 DEF a, b, r
<1> QED BY <1>2, <1>3

\* Concatenation as an operator of the module, for facts that quantify over it.
Joined(u, v) == u \o v

\* The ring f after s is copied in behind the c bytes at p.
CopiedIn(f, g, p, c, s) ==
  \A i \in Index :
    LET d == (i + PIPE_SIZE - ((p + c) % PIPE_SIZE)) % PIPE_SIZE
    IN  g[i] = IF d < Len(s) THEN s[d + 1] ELSE f[i]

\* A write of s behind c bytes adds s at the end and keeps the c bytes.
LEMMA SlotsAdd ==
  ASSUME NEW f \in [Index -> Nat], NEW g \in [Index -> Nat], NEW p \in Index,
         NEW c \in 0 .. PIPE_SIZE, NEW t \in 0 .. PIPE_SIZE,
         NEW s \in Seq(Nat), t = c + Len(s), CopiedIn(f, g, p, c, s)
  PROVE  Slots(g, p, t) = Joined(Slots(f, p, c), s)
<1> DEFINE n == Len(s)
           a == Slots(g, p, t)
           o == Slots(f, p, c)
           b == o \o s
<1>1. n \in Nat /\ t = c + n
  OBVIOUS
<1>2. /\ a \in Seq(Nat) /\ Len(a) = t
      /\ \A i \in 1 .. t : /\ a[i] = g[(p + (i - 1)) % PIPE_SIZE]
                           /\ i - 1 \in Index
                           /\ (p + (i - 1)) % PIPE_SIZE \in Index
  BY SlotsSeq
<1>3. /\ o \in Seq(Nat) /\ Len(o) = c
      /\ \A i \in 1 .. c : o[i] = f[(p + (i - 1)) % PIPE_SIZE]
  BY SlotsSeq
<1>4. /\ b \in Seq(Nat) /\ Len(b) = t
      /\ \A i \in 1 .. t : b[i] = IF i <= c THEN o[i] ELSE s[i - c]
  <2> HIDE DEF o
  <2> QED BY <1>3, ConcatProperties
<1>5. ASSUME NEW i \in 1 .. t PROVE a[i] = b[i]
  <2> DEFINE j == i - 1
             x == (p + j) % PIPE_SIZE
             d == (x + PIPE_SIZE - ((p + c) % PIPE_SIZE)) % PIPE_SIZE
  <2>1. a[i] = g[x] /\ j \in Index /\ x \in Index
    <3> HIDE DEF a
    <3> QED BY <1>2
  <2>2. d = IF j >= c THEN j - c ELSE PIPE_SIZE + j - c
    <3> HIDE DEF j
    <3> QED BY <2>1, Distance
  <2>3. g[x] = IF d < n THEN s[d + 1] ELSE f[x]
    <3> HIDE DEF x
    <3> QED BY <2>1 DEF CopiedIn
  <2> HIDE DEF x, d, a, b, o, n
  <2>4. CASE i <= c
    <3>1. ~(d < n)
      BY <1>1, <2>2, <2>4, PipeAssumption
    <3>2. o[i] = f[x]
      BY <1>3, <2>4 DEF x
    <3> QED BY <1>4, <2>1, <2>3, <2>4, <3>1, <3>2
  <2>5. CASE ~(i <= c)
    <3>1. d = i - 1 - c /\ d < n /\ d + 1 = i - c
      BY <1>1, <2>2, <2>5
    <3> QED BY <1>4, <2>1, <2>3, <2>5, <3>1
  <2> QED BY <2>4, <2>5
<1> HIDE DEF a, b
<1>6. a = b
  BY <1>2, <1>4, <1>5, SeqEqual
<1> QED BY <1>6 DEF a, b, Joined

-----------------------------------------------------------------------------
(* The inductive invariant. *)

\* The actions of Next, with the values they quantify over.
Step ==
  \/ DoPipe
  \/ \E r \in Readers : ReadTransfer(r) \/ \E n \in 1 .. MaxRead : ReadCall(r, n)
  \/ \E w \in Writers :
       WriteTransfer(w) \/ WriteBroken(w) \/ \E s \in Messages : WriteCall(w, s)
  \/ \E e \in Ends : CloseRelease(e) \/ CloseFree(e) \/ ClosePut(e)

\* What one transfer of a writer moves: all that is left or all that fits.
LEMMA Amount ==
  ASSUME TypeOK, NEW w \in Writers
  PROVE  LET todo == Len(buf[w]) - written[w]
             n == Fits(todo)
         IN  /\ todo \in Nat /\ n \in 0 .. todo /\ n \in 0 .. PIPE_SIZE
             /\ count + n \in 0 .. PIPE_SIZE
             /\ n # todo => n = PIPE_SIZE - count
             /\ written[w] + n \in Nat /\ written[w] + n <= Len(buf[w])
<1>1. /\ buf[w] \in Seq(Nat) /\ Len(buf[w]) \in Nat
      /\ written[w] \in Nat /\ written[w] <= Len(buf[w])
      /\ count \in 0 .. PIPE_SIZE /\ PIPE_SIZE \in Nat
  BY PipeAssumption DEF TypeOK
<1> QED BY <1>1 DEF Fits, Smaller

\* What one transfer of a reader moves: all that is asked for or all there is.
LEMMA Taken ==
  ASSUME TypeOK, NEW r \in Readers
  PROVE  LET k == Smaller(want[r], count)
         IN  /\ k \in 0 .. count /\ k \in 0 .. PIPE_SIZE
             /\ count - k \in 0 .. PIPE_SIZE
             /\ want[r] >= 1 /\ count > 0 => k >= 1
  BY PipeAssumption DEF TypeOK, Smaller

\* The copy loop of pipe_write fills the buffer with bytes.
LEMMA StoredType ==
  ASSUME TypeOK, NEW w \in Writers
  PROVE  Stored(w, Fits(Len(buf[w]) - written[w])) \in [Index -> Nat]
<1> DEFINE n == Fits(Len(buf[w]) - written[w])
<1>1. /\ n \in Nat /\ written[w] + n <= Len(buf[w]) /\ written[w] \in Nat
      /\ buf[w] \in Seq(Nat) /\ buffer \in [Index -> Nat] /\ write_pos \in Index
  <2>1. n \in Nat /\ written[w] + n <= Len(buf[w])
    BY Amount
  <2> QED BY <2>1 DEF TypeOK
<1> HIDE DEF n
<1>2. ASSUME NEW i \in Index
      PROVE  LET d == (i + PIPE_SIZE - write_pos) % PIPE_SIZE
             IN  (IF d < n THEN buf[w][written[w] + d + 1] ELSE buffer[i]) \in Nat
  <2> DEFINE d == (i + PIPE_SIZE - write_pos) % PIPE_SIZE
             x == i + PIPE_SIZE - write_pos
  <2>1. x \in Nat /\ x < 2 * PIPE_SIZE
    BY <1>1, PipeAssumption DEF Index
  <2>2. x % PIPE_SIZE \in Index
    <3> HIDE DEF x
    <3> QED BY <2>1, Wrap
  <2>3. d \in Nat
    BY <2>2, PipeAssumption DEF Index
  <2> HIDE DEF d
  <2>4. ASSUME d < n PROVE buf[w][written[w] + d + 1] \in Nat
    <3>1. written[w] + d + 1 \in 1 .. Len(buf[w])
      BY <1>1, <2>3, <2>4, SMTT(30)
    <3> QED BY <1>1, <3>1, ElementOfSeq
  <2>5. (IF d < n THEN buf[w][written[w] + d + 1] ELSE buffer[i]) \in Nat
    BY <1>1, <2>4
  <2> QED BY <2>5 DEF d
<1> QED BY <1>2 DEF Stored, n

\* A writer's call that begins or ends leaves its arguments in order.
LEMMA ArgumentsType ==
  ASSUME TypeOK, NEW w \in Writers, NEW s \in Seq(Nat),
         NEW l \in {"idle", "write"},
         pc' = [pc EXCEPT ![w] = l],
         buf' = [buf EXCEPT ![w] = s], written' = [written EXCEPT ![w] = 0]
  PROVE  /\ pc' \in [Threads -> {"idle", "read", "write"}]
         /\ buf' \in [Writers -> Seq(Nat)] /\ written' \in [Writers -> Nat]
         /\ \A v \in Writers : written'[v] <= Len(buf'[v])
<1>1. pc' \in [Threads -> {"idle", "read", "write"}]
  BY DEF TypeOK
<1>2. buf' \in [Writers -> Seq(Nat)] /\ written' \in [Writers -> Nat]
  BY DEF TypeOK
<1>3. ASSUME NEW v \in Writers PROVE written'[v] <= Len(buf'[v])
  <2>1. Len(s) \in Nat
    OBVIOUS
  <2>2. CASE v = w
    BY <2>1, <2>2 DEF TypeOK
  <2>3. CASE v # w
    BY <2>3 DEF TypeOK
  <2> QED BY <2>2, <2>3
<1> QED BY <1>1, <1>2, <1>3

\* Every step keeps the types.
LEMMA TypeStep == IInv /\ Step => TypeOK'
<1> USE PipeAssumption
<1> SUFFICES ASSUME IInv, Step PROVE TypeOK'
  OBVIOUS
<1>0. TypeOK
  BY DEF IInv
<1>1. CASE DoPipe
  <2>1. 0 \in Index /\ 0 \in 0 .. PIPE_SIZE
    BY DEF Index
  <2>2. users' \in [Ends -> 0 .. 1]
    BY <1>1 DEF DoPipe
  <2> QED BY <1>0, <1>1, <2>1, <2>2 DEF DoPipe, TypeOK
<1>2. ASSUME NEW r \in Readers, ReadTransfer(r) PROVE TypeOK'
  <2> DEFINE k == Smaller(want[r], count)
  <2>1. k \in 0 .. PIPE_SIZE /\ count - k \in 0 .. PIPE_SIZE
    BY <1>0, Taken
  <2>2. /\ got' = [got EXCEPT ![r] = Slots(buffer, read_pos, k)]
        /\ read_pos' = (read_pos + k) % PIPE_SIZE
        /\ count' = count - k
    BY <1>2 DEF ReadTransfer, ReadPosAfter, Bytes, Slots
  <2> HIDE DEF k
  <2>3. Slots(buffer, read_pos, k) \in Seq(Nat) /\ (read_pos + k) % PIPE_SIZE \in Index
    BY <1>0, <2>1, SlotsSeq, Advance DEF TypeOK
  <2>4. got' \in [Readers -> Seq(Nat)] /\ read_pos' \in Index /\ count' \in 0 .. PIPE_SIZE
    BY <1>0, <2>1, <2>2, <2>3 DEF TypeOK
  <2>5. /\ pc' \in [Threads -> {"idle", "read", "write"}]
        /\ want' \in [Readers -> 0 .. MaxRead]
    <3>1. pc' = [pc EXCEPT ![r] = "idle"] /\ want' = [want EXCEPT ![r] = 0]
      BY <1>2 DEF ReadTransfer
    <3>2. 0 \in 0 .. MaxRead
      OBVIOUS
    <3> QED BY <1>0, <3>1, <3>2 DEF TypeOK
  <2>6. UNCHANGED <<dentry, buffer, write_pos, users, mem, file, buf, written>>
    BY <1>2 DEF ReadTransfer
  <2> QED BY <1>0, <2>4, <2>5, <2>6 DEF TypeOK
<1>3. ASSUME NEW r \in Readers, NEW n \in 1 .. MaxRead, ReadCall(r, n) PROVE TypeOK'
  BY <1>0, <1>3 DEF ReadCall, TypeOK, ring, Threads
<1>4. ASSUME NEW w \in Writers, WriteTransfer(w) PROVE TypeOK'
  <2> DEFINE todo == Len(buf[w]) - written[w]
             n == Fits(todo)
  <2>1. /\ n \in 0 .. PIPE_SIZE /\ count + n \in 0 .. PIPE_SIZE
        /\ written[w] + n \in Nat /\ written[w] + n <= Len(buf[w])
    BY <1>0, Amount
  <2>2. (write_pos + n) % PIPE_SIZE \in Index
    <3> HIDE DEF n
    <3> QED BY <1>0, <2>1, Advance DEF TypeOK
  <2>3. Stored(w, n) \in [Index -> Nat]
    BY <1>0, StoredType
  <2>4. /\ buffer' = Stored(w, n) /\ write_pos' = (write_pos + n) % PIPE_SIZE
        /\ count' = count + n
        /\ \/ WriteReturn(w)
           \/ written' = [written EXCEPT ![w] = @ + n] /\ UNCHANGED <<pc, buf>>
        /\ UNCHANGED <<dentry, read_pos, users, mem, file, want, got>>
    BY <1>4 DEF WriteTransfer
  <2> HIDE DEF n
  <2>5. CASE WriteReturn(w)
    <3>1. <<>> \in Seq(Nat)
      OBVIOUS
    <3> QED BY <1>0, <2>1, <2>2, <2>3, <2>4, <2>5, <3>1, ArgumentsType DEF WriteReturn, TypeOK
  <2>6. CASE written' = [written EXCEPT ![w] = @ + n] /\ UNCHANGED <<pc, buf>>
    BY <1>0, <2>1, <2>2, <2>3, <2>4, <2>6 DEF TypeOK
  <2> QED BY <2>4, <2>5, <2>6
<1>5. ASSUME NEW w \in Writers, WriteBroken(w) PROVE TypeOK'
  <2>1. <<>> \in Seq(Nat)
    OBVIOUS
  <2> QED BY <1>0, <1>5, <2>1, ArgumentsType DEF WriteBroken, WriteReturn, TypeOK, ring
<1>6. ASSUME NEW w \in Writers, NEW s \in Messages, WriteCall(w, s) PROVE TypeOK'
  <2>1. s \in Seq(Nat)
    OBVIOUS
  <2> QED BY <1>0, <1>6, <2>1, ArgumentsType DEF WriteCall, TypeOK, ring
<1>7. ASSUME NEW e \in Ends, CloseRelease(e) PROVE TypeOK'
  <2>1. users[e] = 1
    BY <1>7 DEF CloseRelease, IInv, Lifecycle
  <2>2. users' \in [Ends -> 0 .. 1]
    BY <1>0, <1>7, <2>1 DEF CloseRelease, TypeOK
  <2> QED BY <1>0, <1>7, <2>2 DEF CloseRelease, TypeOK, ring
<1>8. ASSUME NEW e \in Ends, CloseFree(e) \/ ClosePut(e) PROVE TypeOK'
  BY <1>0, <1>8 DEF CloseFree, ClosePut, TypeOK, ring
<1> QED BY <1>1, <1>2, <1>3, <1>4, <1>5, <1>6, <1>7, <1>8 DEF Step

\* Every step keeps positions and count in agreement.
LEMMA RingStep == IInv /\ Step => RingConsistent'
<1> USE PipeAssumption
<1> SUFFICES ASSUME IInv, Step PROVE RingConsistent'
  OBVIOUS
<1>0. TypeOK /\ RingConsistent
  BY DEF IInv
<1>1. CASE DoPipe
  BY <1>1 DEF DoPipe, RingConsistent, IInv, Lifecycle
<1>2. ASSUME NEW r \in Readers, ReadTransfer(r) PROVE RingConsistent'
  <2> DEFINE k == Smaller(want[r], count)
             m == count - k
  <2>1. k \in 0 .. PIPE_SIZE /\ m \in 0 .. PIPE_SIZE /\ k + m = count
    BY <1>0, Taken DEF TypeOK
  <2>2. read_pos' = (read_pos + k) % PIPE_SIZE /\ count' = m /\ write_pos' = write_pos
    BY <1>2 DEF ReadTransfer, ReadPosAfter
  <2> HIDE DEF k, m
  <2>3. (((read_pos + k) % PIPE_SIZE) + m) % PIPE_SIZE = (read_pos + (k + m)) % PIPE_SIZE
    BY <1>0, <2>1, WrapTwice DEF TypeOK
  <2> QED BY <1>0, <2>1, <2>2, <2>3 DEF RingConsistent
<1>3. ASSUME NEW w \in Writers, WriteTransfer(w) PROVE RingConsistent'
  <2> DEFINE n == Fits(Len(buf[w]) - written[w])
  <2>1. n \in 0 .. PIPE_SIZE /\ count + n <= PIPE_SIZE /\ count \in 0 .. PIPE_SIZE
    BY <1>0, Amount DEF TypeOK
  <2>2. write_pos' = (write_pos + n) % PIPE_SIZE /\ count' = count + n /\ read_pos' = read_pos
    BY <1>3 DEF WriteTransfer
  <2> HIDE DEF n
  <2>3. (((read_pos + count) % PIPE_SIZE) + n) % PIPE_SIZE = (read_pos + (count + n)) % PIPE_SIZE
    BY <1>0, <2>1, WrapTwice DEF TypeOK
  <2> QED BY <1>0, <2>2, <2>3 DEF RingConsistent
<1>4. CASE UNCHANGED ring
  BY <1>0, <1>4 DEF RingConsistent, ring
<1> QED
  BY <1>1, <1>2, <1>3, <1>4 DEF Step, ReadCall, WriteCall, WriteBroken,
    CloseRelease, CloseFree, ClosePut

\* Every step keeps a call's end open and its arguments set.
LEMMA CallsStep == IInv /\ Step => Calls'
<1> SUFFICES ASSUME IInv, Step PROVE Calls'
  OBVIOUS
<1>0. /\ TypeOK /\ Calls
      /\ \A r \in Readers, w \in Writers : r # w
      /\ Readers \subseteq Threads /\ Writers \subseteq Threads
  BY PipeAssumption DEF IInv, Threads
<1>a. /\ pc = [t \in Threads |-> pc[t]] /\ want = [r \in Readers |-> want[r]]
      /\ buf = [w \in Writers |-> buf[w]] /\ written = [w \in Writers |-> written[w]]
  BY <1>0 DEF TypeOK
<1>1. CASE DoPipe
  <2>1. file'["r"] = "open" /\ file'["w"] = "open"
    BY <1>1 DEF DoPipe, Ends
  <2>2. UNCHANGED <<pc, want, buf, written>>
    BY <1>1 DEF DoPipe
  <2>3. ASSUME NEW r \in Readers PROVE ReaderCall(r)'
    BY <1>0, <2>1, <2>2 DEF Calls, ReaderCall
  <2>4. ASSUME NEW w \in Writers PROVE WriterCall(w)'
    BY <1>0, <2>1, <2>2 DEF Calls, WriterCall
  <2> QED BY <2>3, <2>4 DEF Calls
<1>2. ASSUME NEW r \in Readers, ReadTransfer(r) \/ \E n \in 1 .. MaxRead : ReadCall(r, n)
      PROVE  Calls'
  <2>1. PICK l, n :
          /\ pc' = [pc EXCEPT ![r] = l] /\ want' = [want EXCEPT ![r] = n]
          /\ l = "idle" \/ (l = "read" /\ file["r"] = "open" /\ n \in 1 .. MaxRead)
          /\ UNCHANGED <<file, buf, written>>
    BY <1>2 DEF ReadTransfer, ReadCall
  <2>2. /\ \A t \in Threads : pc'[t] = IF t = r THEN l ELSE pc[t]
        /\ \A q \in Readers : want'[q] = IF q = r THEN n ELSE want[q]
    BY <1>0, <1>a, <2>1
  <2>3. ASSUME NEW q \in Readers PROVE ReaderCall(q)'
    <3>1. \A k \in 1 .. MaxRead : k >= 1
      BY PipeAssumption
    <3> QED BY <1>0, <2>1, <2>2, <3>1 DEF Calls, ReaderCall
  <2>4. ASSUME NEW w \in Writers PROVE WriterCall(w)'
    BY <1>0, <2>1, <2>2 DEF Calls, WriterCall
  <2> QED BY <2>3, <2>4 DEF Calls
<1>3. ASSUME NEW w \in Writers,
             WriteTransfer(w) \/ WriteBroken(w) \/ \E s \in Messages : WriteCall(w, s)
      PROVE  Calls'
  <2>1. /\ UNCHANGED <<file, want>>
        /\ \A t \in Threads : t # w => pc'[t] = pc[t]
        /\ \A v \in Writers : v # w => buf'[v] = buf[v] /\ written'[v] = written[v]
        /\ \/ pc'[w] = "idle" /\ buf'[w] = <<>> /\ written'[w] = 0
           \/ pc'[w] = "write" /\ file["w"] = "open"
    <3>1. CASE WriteReturn(w) /\ UNCHANGED <<file, want>>
      BY <1>0, <1>a, <3>1 DEF WriteReturn
    <3>2. ASSUME NEW x, written' = [written EXCEPT ![w] = x], pc[w] = "write",
                 UNCHANGED <<pc, buf, file, want>>
          PROVE  <2>1
      BY <1>0, <1>a, <3>2 DEF Calls, WriterCall
    <3>3. ASSUME NEW s \in Messages, WriteCall(w, s) PROVE <2>1
      BY <1>0, <1>a, <3>3 DEF WriteCall
    <3> QED BY <1>3, <3>1, <3>2, <3>3 DEF WriteTransfer, WriteBroken
  <2>2. ASSUME NEW r \in Readers PROVE ReaderCall(r)'
    BY <1>0, <2>1 DEF Calls, ReaderCall
  <2>3. ASSUME NEW v \in Writers PROVE WriterCall(v)'
    <3>1. CASE v = w
      BY <2>1, <3>1 DEF WriterCall
    <3>2. CASE v # w
      BY <1>0, <2>1, <3>2 DEF Calls, WriterCall
    <3> QED BY <3>1, <3>2
  <2> QED BY <2>2, <2>3 DEF Calls
<1>4. ASSUME NEW e \in Ends, CloseRelease(e) \/ CloseFree(e) \/ ClosePut(e)
      PROVE  Calls'
  <2>1. /\ UNCHANGED <<pc, want, buf, written>>
        /\ file[e] # "open" \/ \A t \in Side(e) : pc[t] = "idle"
    BY <1>4 DEF CloseRelease, CloseFree, ClosePut, ring
  <2>2. \A d \in Ends : d # e => file'[d] = file[d]
    BY <1>0, <1>4 DEF CloseRelease, CloseFree, ClosePut, TypeOK
  <2>3. ASSUME NEW r \in Readers PROVE ReaderCall(r)'
    BY <1>0, <2>1, <2>2 DEF Calls, ReaderCall, Side, Ends
  <2>4. ASSUME NEW w \in Writers PROVE WriterCall(w)'
    BY <1>0, <2>1, <2>2 DEF Calls, WriterCall, Side, Ends
  <2> QED BY <2>3, <2>4 DEF Calls
<1> QED BY <1>1, <1>2, <1>3, <1>4 DEF Step

\* Every step keeps counts, files and allocations in agreement.
LEMMA LifecycleStep == IInv /\ Step => Lifecycle'
<1> SUFFICES ASSUME IInv, Step PROVE Lifecycle'
  OBVIOUS
<1>0. TypeOK /\ Lifecycle
  BY DEF IInv
<1>1. CASE DoPipe
  BY <1>0, <1>1 DEF DoPipe, Lifecycle, TypeOK, Ends
<1>2. ASSUME NEW e \in Ends, CloseRelease(e) PROVE Lifecycle'
  BY <1>0, <1>2 DEF CloseRelease, LastUser, Lifecycle, TypeOK, Ends
<1>3. ASSUME NEW e \in Ends, CloseFree(e) PROVE Lifecycle'
  BY <1>0, <1>3 DEF CloseFree, Lifecycle, TypeOK, Ends
<1>4. ASSUME NEW e \in Ends, ClosePut(e) PROVE Lifecycle'
  BY <1>0, <1>4 DEF ClosePut, Lifecycle, TypeOK, Ends
<1>5. CASE UNCHANGED <<users, dentry, mem, file>>
  BY <1>0, <1>5 DEF Lifecycle
<1> QED
  BY <1>1, <1>2, <1>3, <1>4, <1>5 DEF Step, ReadTransfer, ReadCall, WriteCall,
    WriteTransfer, WriteBroken

\* The initial state satisfies the invariant.
LEMMA InitIInv == Init => IInv
<1> SUFFICES ASSUME Init PROVE IInv
  OBVIOUS
<1> USE PipeAssumption DEF Init
<1>1. 0 \in Index /\ 0 \in 0 .. PIPE_SIZE /\ 0 \in 0 .. MaxRead
  BY DEF Index
<1>2. <<>> \in Seq(Nat) /\ Len(<<>>) = 0
  OBVIOUS
<1>3. TypeOK
  <2>1. buffer \in [Index -> Nat] /\ users \in [Ends -> 0 .. 1]
    OBVIOUS
  <2>2. \A w \in Writers : written[w] <= Len(buf[w])
    BY <1>2
  <2> QED BY <1>1, <1>2, <2>1, <2>2 DEF TypeOK
<1>4. RingConsistent
  BY <1>1, Wrap DEF RingConsistent
<1>5. Calls
  BY DEF Calls, ReaderCall, WriterCall, Threads
<1>6. Lifecycle
  BY DEF Lifecycle, Ends
<1> QED BY <1>3, <1>4, <1>5, <1>6 DEF IInv

\* IInv is inductive.
LEMMA NextIInv == IInv /\ [Next]_vars => IInv'
<1> SUFFICES ASSUME IInv, [Next]_vars PROVE IInv'
  OBVIOUS
<1>1. CASE Next
  <2>1. Step
    BY <1>1 DEF Next, Step
  <2> QED BY <2>1, TypeStep, RingStep, CallsStep, LifecycleStep DEF IInv
<1>2. CASE UNCHANGED vars
  BY <1>2 DEF vars, ring, IInv, TypeOK, RingConsistent, Calls, ReaderCall,
    WriterCall, Lifecycle
<1> QED BY <1>1, <1>2

\* The inductive invariant of the pipe: types, ring arithmetic, calls under way
\* and the life cycle of files, counts and allocations.
THEOREM Invariance == Spec => []IInv
BY InitIInv, NextIInv, PTL DEF Spec

\* pipe_read and pipe_write keep positions, count and their own progress in
\* range and in agreement, for every ring size.
THEOREM PipeRingExact == Spec => []RingExact
<1>1. IInv => RingExact
  BY DEF IInv, RingExact
<1> QED BY <1>1, Invariance, PTL

\* The releases of the two ends free the pipe once: never under a call or
\* before the other end is done with it, and not never.
THEOREM PipeFreedOnce == Spec => []FreedOnce
<1>1. IInv => NoUseAfterFree
  <2> SUFFICES ASSUME IInv PROVE NoUseAfterFree
    OBVIOUS
  <2>1. ASSUME NEW e \in Ends, file[e] \in {"open", "last"}
        PROVE  {"pipe", "buffer"} \subseteq mem
    BY <2>1 DEF IInv, Lifecycle, Ends
  <2>2. ASSUME NEW t \in Threads, pc[t] # "idle" PROVE {"pipe", "buffer"} \subseteq mem
    <3>1. \E e \in Ends : file[e] = "open"
      BY <2>2 DEF IInv, Calls, ReaderCall, WriterCall, Threads, Ends
    <3> QED BY <2>1, <3>1
  <2>3. ASSUME NEW e \in Ends, file[e] = "open" PROVE {"pipe", "buffer", e} \subseteq mem
    BY <2>1, <2>3 DEF IInv, Lifecycle
  <2> QED BY <2>1, <2>2, <2>3 DEF NoUseAfterFree
<1>2. IInv => Reclaimed
  <2> SUFFICES ASSUME IInv, dentry, \A e \in Ends : file[e] = "closed"
               PROVE  mem = {}
    BY DEF Reclaimed
  <2>1. "r" \notin mem /\ "w" \notin mem
    BY DEF IInv, Lifecycle, Ends
  <2>2. "pipe" \notin mem /\ "buffer" \notin mem
    BY DEF IInv, Lifecycle
  <2> QED BY <2>1, <2>2 DEF IInv, TypeOK
<1> QED BY <1>1, <1>2, Invariance, PTL DEF FreedOnce

-----------------------------------------------------------------------------
(* Refinement of ByteChannel. *)

\* The variables of the channel, under the refinement mapping.
Chan == Bytes(read_pos, count)
Rest == [w \in Writers |-> SubSeq(buf[w], written[w] + 1, Len(buf[w]))]
OpenEnds == {e \in Ends : users[e] > 0}

\* The channel holds count bytes of the ring.
LEMMA ChanSlots ==
  ASSUME TypeOK
  PROVE  /\ Chan = Slots(buffer, read_pos, count)
         /\ Chan \in Seq(Nat) /\ Len(Chan) = count
         /\ count = 0 => Chan = <<>>
<1>1. Chan = Slots(buffer, read_pos, count)
  BY DEF Chan, Bytes, Slots
<1>2. Chan \in Seq(Nat) /\ Len(Chan) = count
  BY <1>1, SlotsSeq DEF TypeOK
<1>3. count = 0 => Chan = <<>>
  BY <1>2, EmptySeq
<1> QED BY <1>1, <1>2, <1>3

\* What is left of a sequence behind its first p elements.
LEMMA Suffix ==
  ASSUME NEW b \in Seq(Nat), NEW p \in 0 .. Len(b)
  PROVE  /\ SubSeq(b, p + 1, Len(b)) \in Seq(Nat)
         /\ Len(SubSeq(b, p + 1, Len(b))) = Len(b) - p
         /\ \A i \in 1 .. Len(b) - p : SubSeq(b, p + 1, Len(b))[i] = b[p + i]
<1>1. Len(b) \in Nat /\ p \in Nat /\ p <= Len(b)
  OBVIOUS
<1>2. \A i \in p + 1 .. Len(b) : b[i] \in Nat
  BY <1>1, ElementOfSeq
<1> QED BY <1>1, <1>2

\* Dropping n more elements.
LEMMA SuffixOfSuffix ==
  ASSUME NEW b \in Seq(Nat), NEW p \in 0 .. Len(b), NEW n \in 0 .. Len(b) - p
  PROVE  SubSeq(SubSeq(b, p + 1, Len(b)), n + 1, Len(b) - p) = SubSeq(b, p + n + 1, Len(b))
<1> DEFINE s == SubSeq(b, p + 1, Len(b))
           q == p + n
           l == SubSeq(s, n + 1, Len(s))
           r == SubSeq(b, q + 1, Len(b))
<1>1. q \in 0 .. Len(b) /\ Len(b) - q = Len(b) - p - n /\ Len(b) \in Nat
  OBVIOUS
<1>2. /\ s \in Seq(Nat) /\ Len(s) = Len(b) - p
      /\ \A i \in 1 .. Len(b) - p : s[i] = b[p + i]
  BY Suffix
<1>3. /\ r \in Seq(Nat) /\ Len(r) = Len(b) - q
      /\ \A i \in 1 .. Len(b) - q : r[i] = b[q + i]
  <2> HIDE DEF q
  <2> QED BY <1>1, Suffix
<1>4. /\ l \in Seq(Nat) /\ Len(l) = Len(s) - n
      /\ \A i \in 1 .. Len(s) - n : l[i] = s[n + i]
  <2> HIDE DEF s
  <2> QED BY <1>2, Suffix, SMTT(30)
<1>5. ASSUME NEW i \in 1 .. Len(r) PROVE l[i] = r[i]
  <2>1. i \in 1 .. Len(b) - q
    BY <1>3
  <2>2. i \in 1 .. Len(s) - n /\ n + i \in 1 .. Len(b) - p /\ p + (n + i) = q + i
    <3> HIDE DEF s, r
    <3> QED BY <1>1, <1>2, <2>1
  <2> HIDE DEF s, l, r, q
  <2> QED BY <1>2, <1>3, <1>4, <2>1, <2>2
<1> HIDE DEF l, r
<1>6. l = r
  BY <1>1, <1>2, <1>3, <1>4, <1>5, SeqEqual
<1> QED BY <1>2, <1>6 DEF l, r

\* What a writer has still to put in.
LEMMA RestSeq ==
  ASSUME TypeOK, NEW w \in Writers
  PROVE  /\ Rest[w] = SubSeq(buf[w], written[w] + 1, Len(buf[w]))
         /\ Rest[w] \in Seq(Nat) /\ Len(Rest[w]) = Len(buf[w]) - written[w]
         /\ \A i \in 1 .. Len(Rest[w]) : Rest[w][i] = buf[w][written[w] + i]
         /\ written[w] = Len(buf[w]) => Rest[w] = <<>>
<1>1. buf[w] \in Seq(Nat) /\ written[w] \in 0 .. Len(buf[w])
  BY DEF TypeOK
<1>2. Rest[w] = SubSeq(buf[w], written[w] + 1, Len(buf[w]))
  BY DEF Rest
<1>3. /\ Rest[w] \in Seq(Nat) /\ Len(Rest[w]) = Len(buf[w]) - written[w]
      /\ \A i \in 1 .. Len(Rest[w]) : Rest[w][i] = buf[w][written[w] + i]
  BY <1>1, <1>2, Suffix, ZenonT(60)
<1>4. written[w] = Len(buf[w]) => Rest[w] = <<>>
  BY <1>1, <1>3, EmptySeq
<1> QED BY <1>2, <1>3, <1>4

\* pipe_read takes from the front, or reports the end of file.
LEMMA ReadRefines ==
  ASSUME IInv, NEW r \in Readers, ReadTransfer(r)
  PROVE  Channel!Get(r) \/ Channel!Eof(r)
<1> DEFINE k == Smaller(want[r], count)
<1>0. TypeOK /\ TypeOK' /\ Chan' = Bytes(read_pos, count)'
  BY TypeStep DEF IInv, Step, Chan
<1>1. /\ k \in 0 .. count /\ count \in 0 .. PIPE_SIZE /\ count \in Nat
      /\ want[r] >= 1 /\ count > 0 => k >= 1
  BY <1>0, Taken, PipeAssumption, SMTT(30) DEF TypeOK
<1>2. want[r] >= 1
  BY DEF ReadTransfer, IInv, Calls, ReaderCall
<1>3. /\ read_pos' = (read_pos + k) % PIPE_SIZE /\ count' = count - k
      /\ got' = [got EXCEPT ![r] = Slots(buffer, read_pos, k)]
      /\ UNCHANGED <<buffer, users, buf, written>>
  BY DEF ReadTransfer, ReadPosAfter, Bytes, Slots
<1>4. Chan' = Slots(buffer', read_pos', count')
  BY DEF Chan, Bytes, Slots
<1> HIDE DEF k
<1>5. /\ Slots(buffer, read_pos, k) = SubSeq(Chan, 1, k)
      /\ Chan' = SubSeq(Chan, k + 1, Len(Chan))
  <2>1. buffer \in [Index -> Nat] /\ read_pos \in Index
    BY <1>0 DEF TypeOK
  <2>2. /\ Slots(buffer, read_pos, k) = SubSeq(Slots(buffer, read_pos, count), 1, k)
        /\ Slots(buffer, (read_pos + k) % PIPE_SIZE, count - k)
             = SubSeq(Slots(buffer, read_pos, count), k + 1, count)
    BY <1>1, <2>1, SlotsSplit
  <2>3. Chan = Slots(buffer, read_pos, count) /\ Len(Chan) = count
    BY <1>0, ChanSlots
  <2>4. Chan' = Slots(buffer, (read_pos + k) % PIPE_SIZE, count - k)
    BY <1>3, <1>4
  <2> QED BY <2>2, <2>3, <2>4
<1>6. UNCHANGED <<Rest, OpenEnds>>
  BY <1>3 DEF Rest, OpenEnds
<1>7. CASE count > 0
  <2>1. k \in 1 .. Len(Chan)
    BY <1>0, <1>1, <1>2, <1>7, ChanSlots
  <2>2. /\ got' = [got EXCEPT ![r] = SubSeq(Chan, 1, k)]
        /\ Chan' = SubSeq(Chan, k + 1, Len(Chan))
    BY <1>3, <1>5
  <2>3. Channel!Get(r)
    BY <1>6, <2>1, <2>2 DEF Channel!Get, Chan, Rest, OpenEnds
  <2> QED BY <2>3
<1>8. CASE count = 0
  <2>1. k = 0
    BY <1>1, <1>8
  <2>2. Chan = <<>> /\ Slots(buffer, read_pos, k) = <<>> /\ Chan' = <<>>
    <3>1. SubSeq(Chan, 1, 0) = <<>> /\ SubSeq(Chan, 1, Len(Chan)) = Chan
      BY <1>0, ChanSlots, SubSeqEmpty, SubSeqFull
    <3> QED BY <1>0, <1>5, <1>8, <2>1, <3>1, ChanSlots
  <2>3. "w" \notin OpenEnds
    BY <1>8 DEF ReadTransfer, WaitsForBytes, OpenEnds
  <2>4. got' = [got EXCEPT ![r] = <<>>]
    BY <1>3, <2>2
  <2>5. Channel!Eof(r)
    BY <1>6, <2>2, <2>3, <2>4 DEF Channel!Eof, Chan, Rest, OpenEnds
  <2> QED BY <2>5
<1> QED BY <1>1, <1>7, <1>8

\* What a transfer of pipe_write does to the channel and to the writer.
LEMMA WriteMoves ==
  ASSUME IInv, NEW w \in Writers, WriteTransfer(w)
  PROVE  LET n == Fits(Len(buf[w]) - written[w])
         IN  /\ n \in 0 .. Len(Rest[w]) /\ Len(Chan) + n <= PIPE_SIZE
             /\ n = 0 => Rest[w] = <<>>
             /\ Chan' = Chan \o SubSeq(Rest[w], 1, n)
             /\ Rest' = [Rest EXCEPT ![w] = SubSeq(Rest[w], n + 1, Len(Rest[w]))]
             /\ UNCHANGED <<got, OpenEnds>>
<1> DEFINE todo == Len(buf[w]) - written[w]
           n == Fits(todo)
           s == SubSeq(Rest[w], 1, n)
<1>0. /\ TypeOK /\ TypeOK' /\ RingConsistent
      /\ count \in 0 .. PIPE_SIZE /\ count < PIPE_SIZE
  BY TypeStep DEF IInv, Step, WriteTransfer, TypeOK
<1>1. /\ todo \in Nat /\ n \in 0 .. todo /\ n \in 0 .. PIPE_SIZE
      /\ count + n \in 0 .. PIPE_SIZE /\ count + n <= PIPE_SIZE
      /\ n # todo => n = PIPE_SIZE - count
  BY <1>0, Amount
<1>2. /\ Rest[w] \in Seq(Nat) /\ Len(Rest[w]) = todo
      /\ \A i \in 1 .. todo : Rest[w][i] = buf[w][written[w] + i]
  BY <1>0, RestSeq
<1>3. /\ buffer' = Stored(w, n) /\ count' = count + n /\ read_pos' = read_pos
      /\ IF n = todo THEN WriteReturn(w)
         ELSE written' = [written EXCEPT ![w] = @ + n] /\ UNCHANGED <<pc, buf>>
      /\ UNCHANGED <<users, got>>
  BY DEF WriteTransfer
<1> HIDE DEF n, todo
<1>4. n = 0 => Rest[w] = <<>>
  <2> SUFFICES ASSUME n = 0 PROVE Rest[w] = <<>>
    OBVIOUS
  <2>1. todo = 0
    BY <1>0, <1>1, PipeAssumption
  <2> QED BY <1>2, <2>1, EmptySeq
<1>5. s \in Seq(Nat) /\ Len(s) = n /\ \A i \in 1 .. n : s[i] = buf[w][written[w] + i]
  BY <1>1, <1>2
<1> HIDE DEF s
<1>6. Chan' = Chan \o s
  <2> DEFINE g == buffer'
             c == count
             t == count + n
  <2>1. ASSUME NEW i \in Index
        PROVE  LET d == (i + PIPE_SIZE - ((read_pos + count) % PIPE_SIZE)) % PIPE_SIZE
               IN  buffer'[i] = IF d < n THEN s[d + 1] ELSE buffer[i]
    <3> DEFINE d == (i + PIPE_SIZE - write_pos) % PIPE_SIZE
               x == i + PIPE_SIZE - write_pos
    <3>1. buffer'[i] = IF d < n THEN buf[w][written[w] + d + 1] ELSE buffer[i]
      BY <1>3 DEF Stored
    <3>2. x \in Nat /\ x < 2 * PIPE_SIZE
      BY <1>0, PipeAssumption DEF Index, TypeOK
    <3>3. x % PIPE_SIZE \in Index
      <4> HIDE DEF x
      <4> QED BY <3>2, Wrap
    <3>4. d \in Nat
      BY <3>3, PipeAssumption DEF Index
    <3> HIDE DEF d
    <3>5. written[w] \in Nat
      BY <1>0 DEF TypeOK
    <3>6. d < n => s[d + 1] = buf[w][written[w] + d + 1]
      <4> SUFFICES ASSUME d < n PROVE s[d + 1] = buf[w][written[w] + d + 1]
        OBVIOUS
      <4>1. d + 1 \in 1 .. n /\ written[w] + (d + 1) = written[w] + d + 1
        BY <1>1, <3>4, <3>5
      <4> QED BY <1>5, <4>1
    <3>7. buffer'[i] = IF d < n THEN s[d + 1] ELSE buffer[i]
      BY <3>1, <3>6
    <3> QED BY <1>0, <3>7 DEF d, RingConsistent
  <2>2. /\ buffer \in [Index -> Nat] /\ buffer' \in [Index -> Nat]
        /\ read_pos \in Index
    BY <1>0 DEF TypeOK
  <2>3. Slots(buffer', read_pos, count + n) = Slots(buffer, read_pos, count) \o s
    <3>1. c \in 0 .. PIPE_SIZE /\ t \in 0 .. PIPE_SIZE /\ t = c + Len(s)
      BY <1>0, <1>1, <1>5
    <3>2. g \in [Index -> Nat] /\ CopiedIn(buffer, g, read_pos, c, s)
      BY <1>5, <2>1, <2>2 DEF CopiedIn
    <3> HIDE DEF g, c, t
    <3>3. Slots(g, read_pos, t) = Joined(Slots(buffer, read_pos, c), s)
      <4>1. s \in Seq(Nat) /\ buffer \in [Index -> Nat] /\ read_pos \in Index
        BY <1>5, <2>2
      <4> QED BY ONLY <3>1, <3>2, <4>1, SlotsAdd, SMTT(30)
    <3> QED BY <3>3 DEF g, c, t, Joined
  <2>4. Chan' = Slots(buffer', read_pos', count') /\ Chan = Slots(buffer, read_pos, count)
    BY DEF Chan, Bytes, Slots
  <2> QED BY <1>3, <2>3, <2>4
<1>7. Rest' = [Rest EXCEPT ![w] = SubSeq(Rest[w], n + 1, Len(Rest[w]))]
  <2>1. ASSUME NEW v \in Writers, v # w PROVE Rest'[v] = Rest[v]
    <3>1. buf'[v] = buf[v] /\ written'[v] = written[v]
      BY <1>0, <1>3, <2>1 DEF WriteReturn, TypeOK
    <3> QED BY <3>1 DEF Rest
  <2>2. Rest'[w] = SubSeq(Rest[w], n + 1, Len(Rest[w]))
    <3>1. CASE n = todo
      <4>1. SubSeq(Rest[w], n + 1, Len(Rest[w])) = <<>>
        BY <1>1, <1>2, <3>1, SubSeqEmpty
      <4>2. buf'[w] = <<>> /\ written'[w] = 0
        BY <1>0, <1>3, <3>1 DEF WriteReturn, TypeOK
      <4>3. Rest'[w] = SubSeq(<<>>, 0 + 1, Len(<<>>)) /\ Len(<<>>) = 0
        BY <4>2, EmptySeq DEF Rest
      <4>4. SubSeq(<<>>, 0 + 1, 0) = <<>>
        BY SubSeqEmpty
      <4> QED BY <4>1, <4>3, <4>4
    <3>2. CASE n # todo
      <4>1. buf'[w] = buf[w] /\ written'[w] = written[w] + n
        BY <1>0, <1>3, <3>2 DEF TypeOK
      <4>2. Rest'[w] = SubSeq(buf[w], written[w] + n + 1, Len(buf[w]))
        BY <4>1 DEF Rest
      <4>3. /\ buf[w] \in Seq(Nat) /\ written[w] \in 0 .. Len(buf[w])
            /\ n \in 0 .. Len(buf[w]) - written[w]
        BY <1>0, <1>1 DEF TypeOK, todo
      <4>4. /\ Rest[w] = SubSeq(buf[w], written[w] + 1, Len(buf[w]))
            /\ Len(Rest[w]) = Len(buf[w]) - written[w]
        BY <1>0, RestSeq
      <4> QED BY <4>2, <4>3, <4>4, SuffixOfSuffix
    <3> QED BY <3>1, <3>2
  <2>3. Rest = [v \in Writers |-> Rest[v]] /\ Rest' = [v \in Writers |-> Rest'[v]]
    BY DEF Rest
  <2> QED BY <2>1, <2>2, <2>3
<1>8. Len(Chan) = count /\ UNCHANGED <<got, OpenEnds>>
  BY <1>0, <1>3, ChanSlots DEF OpenEnds
<1> QED BY <1>1, <1>2, <1>4, <1>6, <1>7, <1>8 DEF n, todo, s

\* A call of pipe_write begins with its whole argument to put in.
LEMMA WriteStarts ==
  ASSUME IInv, NEW w \in Writers, NEW m \in Messages, WriteCall(w, m)
  PROVE  Channel!Start(w)
<1>0. TypeOK /\ TypeOK' /\ m \in Seq(Nat)
  BY TypeStep, PipeAssumption DEF IInv, Step
<1>1. Rest[w] = <<>>
  <2>1. written[w] = 0 /\ buf[w] = <<>>
    BY DEF WriteCall, IInv, Calls, WriterCall
  <2>2. written[w] = Len(buf[w])
    BY <2>1, EmptySeq
  <2> QED BY <1>0, <2>2, RestSeq
<1>2. Rest' = [Rest EXCEPT ![w] = m]
  <2>1. buf'[w] = m /\ written'[w] = 0
    BY <1>0 DEF WriteCall, TypeOK
  <2>2. Rest'[w] = SubSeq(m, 0 + 1, Len(m))
    BY <2>1 DEF Rest
  <2>3. Rest'[w] = m
    BY <1>0, <2>2, SubSeqFull
  <2>4. ASSUME NEW v \in Writers, v # w PROVE Rest'[v] = Rest[v]
    <3>1. buf'[v] = buf[v] /\ written'[v] = written[v]
      BY <1>0, <2>4 DEF WriteCall, TypeOK
    <3> QED BY <3>1 DEF Rest
  <2>5. Rest = [v \in Writers |-> Rest[v]] /\ Rest' = [v \in Writers |-> Rest'[v]]
    BY DEF Rest
  <2> QED BY <2>3, <2>4, <2>5
<1>3. UNCHANGED <<Chan, got, OpenEnds>>
  BY DEF WriteCall, ring, Chan, Bytes, OpenEnds
<1> QED BY <1>1, <1>2, <1>3 DEF Channel!Start, Chan, Rest, OpenEnds

\* A write gives up what is left of its argument only without a reader.
LEMMA WriteBreaks ==
  ASSUME IInv, NEW w \in Writers, WriteBroken(w)
  PROVE  Channel!CutShort(w)
<1>0. TypeOK
  BY DEF IInv
<1>1. "r" \notin OpenEnds
  BY DEF WriteBroken, NoReader, OpenEnds
<1>2. Rest' = [Rest EXCEPT ![w] = <<>>]
  <2>1. buf'[w] = <<>> /\ written'[w] = 0
    BY <1>0 DEF WriteBroken, WriteReturn, TypeOK
  <2>2. Rest'[w] = SubSeq(<<>>, 0 + 1, Len(<<>>)) /\ Len(<<>>) = 0
    BY <2>1, EmptySeq DEF Rest
  <2>3. Rest'[w] = <<>>
    BY <2>2, SubSeqEmpty
  <2>4. ASSUME NEW v \in Writers, v # w PROVE Rest'[v] = Rest[v]
    <3>1. buf'[v] = buf[v] /\ written'[v] = written[v]
      BY <1>0, <2>4 DEF WriteBroken, WriteReturn, TypeOK
    <3> QED BY <3>1 DEF Rest
  <2>5. Rest = [v \in Writers |-> Rest[v]] /\ Rest' = [v \in Writers |-> Rest'[v]]
    BY DEF Rest
  <2> QED BY <2>3, <2>4, <2>5
<1>3. UNCHANGED <<Chan, got, OpenEnds>>
  BY DEF WriteBroken, ring, Chan, Bytes, OpenEnds
<1> QED BY <1>1, <1>2, <1>3 DEF Channel!CutShort, Chan, Rest, OpenEnds

\* pipe_write puts in what fits; a write of nothing changes nothing.
LEMMA WriteRefines ==
  ASSUME IInv, NEW w \in Writers, WriteTransfer(w)
  PROVE  Channel!Put(w) \/ UNCHANGED Channel!vars
<1> DEFINE n == Fits(Len(buf[w]) - written[w])
<1>0. TypeOK
  BY DEF IInv
<1>1. /\ n \in 0 .. Len(Rest[w]) /\ Len(Chan) + n <= PIPE_SIZE
      /\ n = 0 => Rest[w] = <<>>
      /\ Chan' = Chan \o SubSeq(Rest[w], 1, n)
      /\ Rest' = [Rest EXCEPT ![w] = SubSeq(Rest[w], n + 1, Len(Rest[w]))]
      /\ UNCHANGED <<got, OpenEnds>>
  BY WriteMoves
<1>2. Rest[w] \in Seq(Nat) /\ Chan \in Seq(Nat)
  BY <1>0, RestSeq, ChanSlots
<1> HIDE DEF n
<1>3. CASE n = 0
  <2>1. Rest[w] = <<>> /\ Len(Rest[w]) = 0
    BY <1>1, <1>3, EmptySeq
  <2>2. SubSeq(Rest[w], 1, 0) = <<>>
    BY SubSeqEmpty
  <2>3. Chan' = Chan
    BY <1>1, <1>2, <1>3, <2>2, ConcatEmptySeq
  <2>4. Rest' = [Rest EXCEPT ![w] = Rest[w]]
    <3>1. SubSeq(Rest[w], n + 1, Len(Rest[w])) = <<>>
      BY <1>3, <2>1, SubSeqEmpty
    <3> QED BY <1>1, <2>1, <3>1
  <2>5. Rest' = Rest
    BY <2>4 DEF Rest
  <2> QED BY <1>1, <2>3, <2>5 DEF Channel!vars, Chan, Rest, OpenEnds
<1>4. CASE n # 0
  <2>1. n \in 1 .. Len(Rest[w])
    BY <1>1, <1>2, <1>4
  <2>2. Channel!Put(w)
    BY <1>1, <2>1 DEF Channel!Put, Chan, Rest, OpenEnds
  <2> QED BY <2>2
<1> QED BY <1>3, <1>4

\* The pipe, with any number of readers and writers on it, implements a FIFO
\* channel: across the wrap of the ring no byte is lost, repeated or moved past
\* another, a write is cut short only when the reading end is gone, and a read
\* comes back empty only when the channel is empty and the writing end is gone.
THEOREM PipeRefinesChannel == Spec => ImplementsChannel
<1>1. Init => Channel!Init
  <2> SUFFICES ASSUME Init PROVE Channel!Init
    OBVIOUS
  <2>0. TypeOK
    BY InitIInv DEF IInv
  <2>1. Chan = <<>>
    BY <2>0, ChanSlots DEF Init
  <2>2. ASSUME NEW w \in Writers PROVE Rest[w] = <<>>
    <3>1. written[w] = Len(buf[w])
      BY EmptySeq DEF Init
    <3> QED BY <2>0, <3>1, RestSeq
  <2>3. Rest = [w \in Writers |-> <<>>]
    BY <2>2 DEF Rest
  <2>4. OpenEnds = {}
    BY DEF Init, OpenEnds
  <2>5. got = [r \in Readers |-> <<>>]
    BY DEF Init
  <2> QED BY <2>1, <2>3, <2>4, <2>5 DEF Channel!Init, Chan, Rest, OpenEnds
<1>2. IInv /\ [Next]_vars => [Channel!Next]_(Channel!vars)
  <2> SUFFICES ASSUME IInv, [Next]_vars PROVE Channel!Next \/ UNCHANGED Channel!vars
    OBVIOUS
  <2>0. TypeOK
    BY DEF IInv
  <2>1. CASE UNCHANGED vars
    BY <2>1 DEF vars, ring, Channel!vars, Bytes
  <2>2. CASE DoPipe
    <3>1. /\ count' = 0 /\ \A e \in Ends : users'[e] = 1 /\ file[e] = "closed"
          /\ mem = {} /\ UNCHANGED <<buf, written, got>>
      BY <2>2 DEF DoPipe
    <3>2. \A e \in Ends : users[e] = 0
      BY <3>1, <2>0 DEF IInv, Lifecycle, TypeOK
    <3>3. OpenEnds = {} /\ OpenEnds' = {"r", "w"}
      BY <3>1, <3>2 DEF OpenEnds, Ends
    <3>4. Chan' = <<>>
      <4>1. TypeOK'
        BY <2>2, TypeStep DEF Step
      <4> QED BY <3>1, <4>1, EmptySeq DEF Chan, Bytes
    <3>5. UNCHANGED <<Rest, got>>
      BY <3>1 DEF Rest
    <3>6. Channel!Open
      BY <3>3, <3>4, <3>5 DEF Channel!Open, Chan, Rest, OpenEnds
    <3> QED BY <3>6 DEF Channel!Next
  <2>3. ASSUME NEW r \in Readers, ReadTransfer(r) PROVE Channel!Next
    BY <2>3, ReadRefines DEF Channel!Next
  <2>4. ASSUME NEW w \in Writers, WriteTransfer(w)
        PROVE  Channel!Next \/ UNCHANGED Channel!vars
    BY <2>4, WriteRefines DEF Channel!Next
  <2>5. ASSUME NEW w \in Writers, WriteBroken(w) PROVE Channel!Next
    BY <2>5, WriteBreaks DEF Channel!Next
  <2>6. ASSUME NEW w \in Writers, NEW m \in Messages, WriteCall(w, m) PROVE Channel!Next
    BY <2>6, WriteStarts DEF Channel!Next
  <2>7. ASSUME NEW e \in Ends, CloseRelease(e)
        PROVE  Channel!Next \/ UNCHANGED Channel!vars
    <3>1. UNCHANGED <<ring, buf, written, got>>
      BY <2>7 DEF CloseRelease
    <3>2. UNCHANGED <<Chan, Rest, got>>
      BY <3>1 DEF ring, Chan, Bytes, Rest
    <3>3. CASE dentry
      <4>1. users' = [users EXCEPT ![e] = @ - 1] /\ users[e] = 1
        BY <2>7, <3>3 DEF CloseRelease, IInv, Lifecycle
      <4>2. OpenEnds' = OpenEnds \ {e}
        BY <2>0, <4>1 DEF OpenEnds, TypeOK
      <4>3. Channel!Close(e)
        BY <3>2, <4>2 DEF Channel!Close, Chan, Rest, OpenEnds
      <4> QED BY <4>3 DEF Channel!Next, Ends
    <3>4. CASE ~ dentry
      <4>1. users' = users
        BY <2>7, <3>4 DEF CloseRelease
      <4> QED BY <3>2, <4>1 DEF Channel!vars, Chan, Rest, OpenEnds
    <3> QED BY <3>3, <3>4
  <2>8. ASSUME NEW e \in Ends, CloseFree(e) \/ ClosePut(e)
        PROVE  UNCHANGED Channel!vars
    BY <2>8 DEF CloseFree, ClosePut, ring, Channel!vars, Bytes
  <2>9. ASSUME NEW r \in Readers, NEW n \in 1 .. MaxRead, ReadCall(r, n)
        PROVE  UNCHANGED Channel!vars
    BY <2>9 DEF ReadCall, ring, Channel!vars, Bytes
  <2> QED
    BY <2>1, <2>2, <2>3, <2>4, <2>5, <2>6, <2>7, <2>8, <2>9 DEF Next
<1> QED BY <1>1, <1>2, Invariance, PTL DEF Spec, ImplementsChannel, Channel!Spec
=============================================================================
