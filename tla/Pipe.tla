-------------------------------- MODULE Pipe --------------------------------
(***************************************************************************)
(* The pipe of kernel/ipc/pipe.c with vfs_close: a ring buffer under a     *)
(* spinlock, readers that busy-wait for bytes, writers that put what fits  *)
(* and busy-wait for room, and two files whose release counts the ends     *)
(* down and frees the pipe with the last.                                  *)
(*                                                                         *)
(* pipe_lock is held from the test of a wait loop to the transfer that     *)
(* follows it, so a transfer is one step; an iteration that finds nothing  *)
(* to do unlocks and changes nothing, which is a stuttering step.          *)
(***************************************************************************)
EXTENDS Naturals, Sequences

CONSTANTS
  Readers, Writers,   \* threads that share the read and the write file
  PIPE_SIZE,
  MaxRead,            \* largest count of a read
  Messages            \* the byte strings that are written

ASSUME PipeAssumption ==
  /\ PIPE_SIZE \in Nat \ {0}
  /\ MaxRead \in Nat
  /\ Readers \cap Writers = {}
  /\ Messages \subseteq Seq(Nat)

VARIABLES
  buffer, read_pos, write_pos, count,   \* the ring
  users,       \* users["r"] is readers, users["w"] is writers
  dentry,      \* the files have an f_dentry
  mem,         \* which of the four allocations of do_pipe exist
  file,        \* each end's file: open, in release, last, put or closed
  pc,          \* idle, read or write
  want,        \* the count of a reader's call
  got,         \* what a reader's last call gave it
  buf, written \* a writer's argument and its progress

ring == <<buffer, read_pos, write_pos, count>>
vars == <<ring, users, dentry, mem, file, pc, want, got, buf, written>>

Threads == Readers \cup Writers
Ends == {"r", "w"}
Side(e) == IF e = "r" THEN Readers ELSE Writers
Index == 0 .. PIPE_SIZE - 1

Init ==
  /\ buffer = [i \in Index |-> 0]
  /\ read_pos = 0 /\ write_pos = 0 /\ count = 0
  /\ users = [e \in Ends |-> 0]
  /\ dentry = FALSE
  /\ mem = {}
  /\ file = [e \in Ends |-> "closed"]
  /\ pc = [t \in Threads |-> "idle"]
  /\ want = [r \in Readers |-> 0]
  /\ got = [r \in Readers |-> <<>>]
  /\ buf = [w \in Writers |-> <<>>]
  /\ written = [w \in Writers |-> 0]

\* do_pipe.  When one of the allocations fails it frees the others and
\* changes nothing.  The buffer is not cleared.  do_pipe leaves f_dentry NULL;
\* its caller gives the files a dentry before they are used, or does not.
DoPipe ==
  /\ file = [e \in Ends |-> "closed"] /\ mem = {}
  /\ mem' = {"pipe", "buffer", "r", "w"}
  /\ dentry' \in BOOLEAN
  /\ read_pos' = 0 /\ write_pos' = 0 /\ count' = 0
  /\ users' = [e \in Ends |-> 1]
  /\ file' = [e \in Ends |-> "open"]
  /\ UNCHANGED <<buffer, pc, want, got, buf, written>>

-----------------------------------------------------------------------------
(* pipe_read *)

ReadCall(r, n) ==
  /\ pc[r] = "idle" /\ file["r"] = "open"
  /\ pc' = [pc EXCEPT ![r] = "read"]
  /\ want' = [want EXCEPT ![r] = n]
  /\ UNCHANGED <<dentry, ring, users, mem, file, got, buf, written>>

\* The k bytes from position p on.
Bytes(p, k) == [i \in 1 .. k |-> buffer[(p + i - 1) % PIPE_SIZE]]

Smaller(a, b) == IF a < b THEN a ELSE b

\* The condition of the reader's wait loop.
WaitsForBytes == count = 0 /\ users["w"] > 0

\* Mutant: read_pos moves by the bytes asked for.
ReadPosAsked(r) == (read_pos + want[r]) % PIPE_SIZE

\* read_pos after the copy loop.
ReadPosAfter(r) == (read_pos + Smaller(want[r], count)) % PIPE_SIZE

\* There are bytes, or no writer is left: take what is there, at most want.
\* No byte at all is the end of file.
ReadTransfer(r) ==
  LET to_read == Smaller(want[r], count) IN
  /\ pc[r] = "read"
  /\ ~ WaitsForBytes
  /\ got' = [got EXCEPT ![r] = Bytes(read_pos, to_read)]
  /\ read_pos' = ReadPosAfter(r)
  /\ count' = count - to_read
  /\ pc' = [pc EXCEPT ![r] = "idle"]
  /\ want' = [want EXCEPT ![r] = 0]
  /\ UNCHANGED <<dentry, buffer, write_pos, users, mem, file, buf, written>>

-----------------------------------------------------------------------------
(* pipe_write *)

WriteCall(w, s) ==
  /\ pc[w] = "idle" /\ file["w"] = "open"
  /\ pc' = [pc EXCEPT ![w] = "write"]
  /\ buf' = [buf EXCEPT ![w] = s]
  /\ written' = [written EXCEPT ![w] = 0]
  /\ UNCHANGED <<dentry, ring, users, mem, file, want, got>>

\* The call of w returns.
WriteReturn(w) ==
  /\ pc' = [pc EXCEPT ![w] = "idle"]
  /\ buf' = [buf EXCEPT ![w] = <<>>]
  /\ written' = [written EXCEPT ![w] = 0]

\* to_write: what fits.
Fits(todo) == Smaller(todo, PIPE_SIZE - count)

\* Mutant: every chunk is copied from the start of buf.
StoredFromStart(w, n) ==
  [i \in Index |->
     LET d == (i + PIPE_SIZE - write_pos) % PIPE_SIZE
     IN  IF d < n THEN buf[w][d + 1] ELSE buffer[i]]

\* The buffer after the copy loop: slot i is the d-th after write_pos.
Stored(w, n) ==
  [i \in Index |->
     LET d == (i + PIPE_SIZE - write_pos) % PIPE_SIZE
     IN  IF d < n THEN buf[w][written[w] + d + 1] ELSE buffer[i]]

\* There is room: put in what fits, and return once everything is in.
WriteTransfer(w) ==
  LET todo == Len(buf[w]) - written[w]
      n == Fits(todo)
  IN
  /\ pc[w] = "write" /\ users["r"] > 0
  /\ count < PIPE_SIZE
  /\ buffer' = Stored(w, n)
  /\ write_pos' = (write_pos + n) % PIPE_SIZE
  /\ count' = count + n
  /\ IF n = todo THEN WriteReturn(w)
     ELSE /\ written' = [written EXCEPT ![w] = @ + n]
          /\ UNCHANGED <<pc, buf>>
  /\ UNCHANGED <<dentry, read_pos, users, mem, file, want, got>>

\* Mutant: only a write that has just begun looks for readers.
NoReaderAtEntry(w) == users["r"] = 0 /\ written[w] = 0

NoReader(w) == users["r"] = 0

\* No reader is left: return what was written, or -EPIPE.
WriteBroken(w) ==
  /\ pc[w] = "write" /\ NoReader(w)
  /\ WriteReturn(w)
  /\ UNCHANGED <<dentry, ring, users, mem, file, want, got>>

-----------------------------------------------------------------------------
(* vfs_close with pipe_release_read and pipe_release_write *)

\* Mutant: the pipe is freed with the end that is closed.
LastUserOwn(e) == users'[e] = 0

\* Neither readers nor writers are left after the decrement.
LastUser(e) == \A d \in Ends : users'[d] = 0

\* The locked part of release, which vfs_close calls only for a file with a
\* dentry.  A file is closed once, by a thread of its side, with no call on it
\* under way.
CloseRelease(e) ==
  /\ file[e] = "open"
  /\ \A t \in Side(e) : pc[t] = "idle"
  /\ users' = IF dentry THEN [users EXCEPT ![e] = @ - 1] ELSE users
  /\ file' = [file EXCEPT ![e] =
       IF dentry /\ LastUser(e) THEN "last" ELSE "put"]
  /\ UNCHANGED <<dentry, ring, mem, pc, want, got, buf, written>>

\* The last user frees the pipe, after pipe_unlock.
CloseFree(e) ==
  /\ file[e] = "last"
  /\ mem' = mem \ {"pipe", "buffer"}
  /\ file' = [file EXCEPT ![e] = "put"]
  /\ UNCHANGED <<dentry, ring, users, pc, want, got, buf, written>>

\* vfs_close drops the only reference to the file.
ClosePut(e) ==
  /\ file[e] = "put"
  /\ mem' = mem \ {e}
  /\ file' = [file EXCEPT ![e] = "closed"]
  /\ UNCHANGED <<dentry, ring, users, pc, want, got, buf, written>>

-----------------------------------------------------------------------------

Next ==
  \/ DoPipe
  \/ \E r \in Readers :
       \/ \E n \in 1 .. MaxRead : ReadCall(r, n)
       \/ ReadTransfer(r)
  \/ \E w \in Writers :
       \/ \E s \in Messages : WriteCall(w, s)
       \/ WriteTransfer(w)
       \/ WriteBroken(w)
  \/ \E e \in Ends : CloseRelease(e) \/ CloseFree(e) \/ ClosePut(e)

Spec == Init /\ [][Next]_vars

\* A thread that is in a call keeps running; nobody has to make another call.
Fairness ==
  /\ \A r \in Readers : WF_vars(ReadTransfer(r))
  /\ \A w \in Writers : WF_vars(WriteTransfer(w) \/ WriteBroken(w))
  /\ \A e \in Ends : WF_vars(CloseFree(e) \/ ClosePut(e))

FairSpec == Spec /\ Fairness

-----------------------------------------------------------------------------
(* Properties. *)

\* Every variable keeps its type.
TypeOK ==
  /\ buffer \in [Index -> Nat]
  /\ read_pos \in Index /\ write_pos \in Index /\ count \in 0 .. PIPE_SIZE
  /\ users \in [Ends -> 0 .. 1]
  /\ dentry \in BOOLEAN
  /\ mem \subseteq {"pipe", "buffer", "r", "w"}
  /\ file \in [Ends -> {"open", "last", "put", "closed"}]
  /\ pc \in [Threads -> {"idle", "read", "write"}]
  /\ want \in [Readers -> 0 .. MaxRead]
  /\ got \in [Readers -> Seq(Nat)]
  /\ buf \in [Writers -> Seq(Nat)]
  /\ written \in [Writers -> Nat]
  /\ \A w \in Writers : written[w] <= Len(buf[w])

\* The three numbers of the ring agree: count bytes lie between read_pos and
\* write_pos, also when the buffer is full and the two are equal.
RingConsistent == (read_pos + count) % PIPE_SIZE = write_pos

\* Every call leaves positions and count in range and in agreement.
RingExact == TypeOK /\ RingConsistent

\* The channel a pipe implements.
Channel == INSTANCE ByteChannel
  WITH Capacity <- PIPE_SIZE,
       chan <- Bytes(read_pos, count),
       rest <- [w \in Writers |-> SubSeq(buf[w], written[w] + 1, Len(buf[w]))],
       ends <- {e \in Ends : users[e] > 0}

\* Reads and writes across the wrap of the ring implement a FIFO channel.
ImplementsChannel == Channel!Spec

\* A call, or a release that has not yet freed the pipe, only touches memory
\* that exists.
NoUseAfterFree ==
  /\ \A t \in Threads : pc[t] # "idle" => {"pipe", "buffer"} \subseteq mem
  /\ \A e \in Ends : /\ file[e] = "open" => {"pipe", "buffer", e} \subseteq mem
                     /\ file[e] = "last" => {"pipe", "buffer"} \subseteq mem

\* Once both files, which have a dentry, are closed, nothing that do_pipe
\* allocated is left.
Reclaimed == dentry /\ (\A e \in Ends : file[e] = "closed") => mem = {}

\* In whichever order the two ends are closed, exactly one release frees the
\* pipe: not before the other end and the calls under way are done with it, and
\* not never.
FreedOnce == NoUseAfterFree /\ Reclaimed

\* A reader that waits in pipe_read is released, by the end of file, when the
\* write file, which has a dentry, is closed.
ReadersReleased ==
  \A r \in Readers : dentry /\ pc[r] = "read" /\ file["w"] # "open" ~> pc[r] = "idle"

\* A writer that waits in pipe_write is released when the read file, which has
\* a dentry, is closed.
WritersReleased ==
  \A w \in Writers : dentry /\ pc[w] = "write" /\ file["r"] # "open" ~> pc[w] = "idle"

\* No call waits for an end that is gone.
WaitersReleased == ReadersReleased /\ WritersReleased
=============================================================================
