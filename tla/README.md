# Dunit OS: TLA+ models, model checks and proofs

Dunit OS is a hobby operating system in C and assembly (x86_64 by default, also
arm64 and x86). This directory holds TLA+ modules translated from its source,
TLC configurations that check them on small instances, and TLAPS proofs.

## 1. The system

Everything runs in one kernel address space on one CPU. The kernel thread boots
(`kernel/core/main.c`), initialises the subsystems and runs the GUI loop; programs
are ELF images loaded into kernel memory that call the kernel through a function
table (`kernel/apps/launcher.c`). The timer interrupt preempts only on arm64.

| Component | State | Operations | Interacts with | What makes it correct |
|---|---|---|---|---|
| Process table (`core/process.c`) | `proc_table[]`, `current_pid`, `next_pid`, `next_load_addr`, `kernel_context` | create, exec, yield, schedule, IRQ schedule, exit, kill | heap (stacks), VFS, ELF loader, timer IRQ | one running process; a slot belongs to one creator; stacks freed once; images apart; children die with parents; exec returns |
| Heap (`mm/kmalloc.c`) | block headers tiling the heap, free list, `heap_used` | kmalloc, kfree, krealloc | everybody; `heap_lock` | blocks tile the heap, free list = free blocks, accounting exact, no overlap |
| Pipes (`ipc/pipe.c`) | ring buffer, `readers`, `writers` | read, write, release | VFS files | bytes arrive once and in order; EOF and EPIPE are reached |
| Old task scheduler (`sched/sched.c`, `signal.c`, `fork.c`) | run queue (doubly linked), task states, pending signals | schedule, wake, exit, kill, stop, fork, wait | signals, mm | the queue is a list of exactly the tasks that have not exited; nobody overtakes; SIGKILL acts |
| Spinlocks (`sync/spinlock.c`) | lock word, IRQ mask of each context | lock, trylock, irqsave | IRQ handlers, heap, process table | the handler never spins on the thread it interrupted; masked IRQs are unmasked; holders can release |
| Physical and virtual memory (`mm/pmm.c`, `vmm.c`) | page bitmap, page tables, VMAs | alloc/free pages, map/unmap ranges | fork, syscalls | a page has one purpose; failed maps leave nothing behind; address spaces are isolated |
| VFS and ramfs (`fs/vfs.c`, `ramfs.c`, `vfs_compat.c`) | inode tree, open files, mounts | lookup, create, unlink, rename, read, write | syscalls, loader, GUI | what is reachable is a tree; calls change only what they name; open files do not dangle |
| ext4, APFS (`fs/ext4.c`, `apfs.c`) | mounted volume metadata | mount, lookup, read | VFS | reads return what is on disk |
| TCP/IP, sockets, DNS (`net/*.c`) | connections, ARP and DNS caches, socket table | connect, send, receive, close | virtio-net | a connection takes over only its own segments; the stream is whole; handshakes end or their answer is under way. Sockets and DNS are stubs |
| System calls (`syscall/syscall.c`) | descriptor table, brk and mmap areas | open, read, close, mmap | VFS, process | descriptors name one open file; areas stay apart |
| Sandbox (`sandbox/sandbox.c`) | active sandbox stack, recovery state | init, run, destroy | media decoders | (no caller in the tree) |
| ELF loader (`loader/elf.c`), ASLR (`mm/aslr.c`) | image being loaded, random state | validate, size, load | process | segments inside the image |
| Keyboard input (`input/virtio_input.c`, `apps/launcher.c`, `core/main.c`) | virtqueue rings, modifiers, key ring | device event, poll, getc, has_key | device, event loop, programs | a buffer belongs to device or driver; events once and in order; keys keep order and modifiers |
| Other drivers (virtio net/gpu, xHCI, HDA, PCI, ...) | virtqueue rings | poll, transmit | net, GUI | descriptors in flight are not reused |
| GUI (`gui/*.c`) | windows, terminals, desktop | events, drawing | input, launcher | focus and z-order consistent |
| libc, userspace, vendored code (Doom, picojpeg, minimp3) | - | - | - | not part of the kernel's own logic |

Hard behaviours: the timer IRQ between any two instructions of `process_create`,
`process_kill` or `kmalloc` (arm64); slot, pid and stack reuse; calls that fail half
way; busy waiting with locks dropped; network segments lost, duplicated and
reordered; rings and tables at their limit.

## 2. Modules

| Module | Stands for | Used by |
|---|---|---|
| `Process` | `core/process.c`, `arch/arm64/boot.S` (IRQ entry), `switch.S` | `MCProcess`, `ProcessProofs` |
| `Heap` | `mm/kmalloc.c` | `MCHeap`, `HeapProofs` |
| `DisjointRegions` | what an allocator promises | `Heap` refines it |
| `Pipe` | `ipc/pipe.c`, `vfs_close` for a pipe's files | `MCPipe`, `PipeProofs` |
| `ByteChannel` | what a pipe promises | `Pipe` refines it |
| `RunQueue` | `sched/sched.c`, `sched/signal.c` | `MCRunQueue`, `RunQueueProofs` |
| `RamFs` | `fs/ramfs.c`, path and file operations of `fs/vfs.c`, descriptors of `syscall/syscall.c` | `MCRamFs`, `RamFsProofs` |
| `Tcp` | TCP in `net/tcp_ip.c`, with a peer and a network | checked directly, `TcpProofs` |
| `Vm` | `mm/pmm.c`, `mm/vmm.c`, `copy_mm` and `do_execve` of `sched/fork.c` | `MCVm`, `KernelProofs` |
| `Locks` | `sync/spinlock.c` with its users: `heap_lock`, `proc_table_lock`, the IRQ masks of `process.c` | `MCLocks`, `KernelProofs` |
| `Input` | keyboard of `drivers/input/virtio_input.c`, key ring of `apps/launcher.c`, PS/2 keyboard, event loop of `core/main.c`, Doom's `poll_keys` | `MCInput`, `InputProofs` |

Definitions marked "Mutant" are wrong versions of the definition that follows them;
each property is shown to fail for one of them, so that it says something about the
code. `PROJECT.json` maps every definition to its source lines. The invariants are
conjunctions of named parts; a run checks the conjunction (`LayoutExact` is
`TypeOK`, `BlocksTile` and `UsedIsHeld`).

`Locks` composes what `Process` and `Heap` leave to each other: `Process` takes each
call's effect on the table and hides `heap_lock`, `Heap` takes the lock and assumes
that its holder runs on, and `Locks` has both locks, the mask and the switches and
shows when that assumption holds.

## 3. Process table and scheduler (`Process`)

**State.** The columns of `proc_table` (`state`, `pid`, `parent_pid`, `stack_base`,
`load_base`, `exit_status`), `current_pid` (`Kernel` = -1 when no process runs),
`next_pid`, `next_load_addr`, the set `stacks` of stacks the heap has handed out, and
per thread its place in the code (`pc`), its IRQ mask and the locals of the call it is
in, `kill` being those of `kill_children` (its work stack, the parent and the index it
is at). A thread that does not own the CPU is its saved `cpu_context_t`. `vaddr` is where
the program of a slot is linked. `spawner` is a history variable, the pid of the creator,
which the code does not keep.

**Actions.** `process_create` is one action per point at which an interrupt can make
a difference: `CreateReserve` (find a slot and reserve it, IRQs off), `CreateLoad`
(read `next_load_addr`, load the ELF), `CreatePublish` (write it back), `CreateNumber`
(pid, parent, name), `CreateStack`, `CreateContext`, with `CreateFail` and
`CreateStackFail` for the error returns. `process_exec_args` adds `ExecFind`,
`ExecLost`, `ExecReturn`; `process_yield` is `Yield`; `process_schedule` is
`ScheduleSwitch` or `ScheduleStay`, and `Resume` is the return into a thread that was
switched out; `Preempt` is the IRQ entry with `process_schedule_from_irq`. `process_kill`
runs with IRQs on and is one action per access to the table: `KillFind` finds the slot,
`KillScan` is one index of the loop of `kill_children`, and for each victim, the process
itself last, `FreeStack`, `ClearStack`, `MarkFree` and `ClearPid`. `Exit` is one step with
its `kill_children` in it, as `process_exit` masks IRQs first. On the build without preemption
(`PREEMPTIVE = FALSE`, x86_64) the same actions run without `Preempt`.

**Assumptions.** A kernel thread that the arm64 IRQ entry preempted resumes at the link
register instead of the interrupted pc (`boot.S:393` stores `x3`); the model sends it
"astray" and does not follow it further. The calls come from any thread in any
order: today `process_create`, `process_start` and `process_schedule` are called
from `gui/window.c:4105-4122` and `process_exit` from the entry wrapper; the other
entry points are exported. A thread that runs on a stack which another has freed or
been given goes on in the model as if nothing had happened: what it would execute is
undefined, and `StacksOwnedOnce` is the property that fails first.

**Checked.** `process_coop` (three slots, four pids, without preemption): a runnable
process is complete and a reserved slot stays reserved (`CreationSafe`), no stack has
two owners, and none is freed twice or used after it is freed (`StacksOwnedOnce`), and an
exec of the kernel returns (`ExecReturns`). `process_preempt` (three slots, three pids,
two stacks, with preemption in the middle of creations and kills): `TableConsistent`
(`TypeOK` and `OneRunning`) and `KernelContextSaved`. With preemption `StacksOwnedOnce` and
`CreationSafe` are false (section 12), so that only the first run has them. Three slots
let a creator, a killer and a victim meet; the fourth pid lets a slot be reused while a
stale pid or slot index is still held. CHECK_DEADLOCK is off where the kernel thread can
be astray. In both runs programs are position-independent (`LinkAddresses` is {0}); no
property they check reads where an image is. Those about images, `ImagesDisjoint` and
`ImagesAfterHeap`, are false of the code (section 12) and in no run.

**Fairness** (`ExecReturns` only): programs exit (strong fairness on `Exit`, because
another process may hold the CPU for a while) and the thread that owns the CPU goes
on with the call it is in. Without the first the kernel thread never gets the CPU
back on x86_64, as nothing preempts.

Several comments of `process.c` say more than the code does; see section 12. That a new
arm64 process starts with IRQs masked is the subject of `Locks`.

**Proved** (`ProcessProofs`), for every number of slots, pids, stacks, ASLR offsets and
link addresses. On both builds `IInv` = `TypeOK`, `OneRunning`, `NeverOwnTarget` and
`KernelContextSaved` is inductive. `NeverOwnTarget`, that no call's local `slot` and no
victim is the caller's own slot, is the strengthening: without it a creator could fail and
free, or `process_kill` could kill, the slot it runs in, and `OneRunning` would be lost.
Without preemption `CoopInv` is inductive on top of it: `Suspended` (only the running
thread is in the middle of a creation or a kill), `ReservationHeld`, `PidsDistinct`,
`StacksOwnedOnce`, `StageFacts` (what each stage of `process_create` and of a kill has
already stored) and `Complete`; it gives `StacksOwnedOnce`, and `ReservationHeld` and
`RunnableIsComplete`, together `CreationSafe`.

## 4. Heap (`Heap`, `DisjointRegions`)

**State.** Units of 32 bytes, the size of a header and of `MIN_ALLOC`. `size`,
`magic`, `next`, `prev` are the header fields at each address; `free_list`,
`heap_used`; `heap_lock` with its holder's scan (`block`, `prev_free`); per caller
its `pc`, request and pointer; `held`, the blocks callers own.

**Actions.** A call up to the lock (`KmallocCall`, `KfreeCall`, `KreallocCall`), the
lock (`KmallocLock`), one step per block of the first-fit scan (`ScanNext`),
`ScanTake` with the split or `ScanFail`; `KfreeLocked` is the locked part of `kfree`
with the push and the merge with the following block; `KreallocFree` frees the old
block after the copy. Callers free only what they own, once, and write only there. In the
code programs are loaded inside the heap's range (`process.c:24`) and `pmm` gives out its
pages (section 9), without asking the heap: `Process.ImagesAfterHeap` and `Vm.HeapApart`
say so, and what kmalloc's structures are worth afterwards is outside of this model.

**Checked** (run `heap`: two callers, nine units, requests up to four): blocks tile
the heap and the USED ones are exactly those somebody holds (`LayoutExact`), the free
list is a doubly linked list of exactly the FREE blocks and the scan is on it
(`FreeListExact`), `heap_used` is exact, no step writes a header into live data, the
whole refines `DisjointRegions`, and `LockReleased`. Nine units allow three live blocks
with splits, merges with a free neighbour and a free list of three. The run's VIEW `LiveFields` leaves out fields no
code reads again (a header that was merged away, the links of a USED block), so two
states it identifies have the same continuations and every property agrees on them.
Fairness: the caller that holds the lock keeps running; the spinlock itself does not
disable interrupts, so this excludes a holder that is preempted for ever or killed
(`Locks`, section 10, says when that can happen).

**Proved** (`HeapProofs`), for every heap size, `MAX_ALLOC` and set of callers: the
conjunction `IInv` of `TypeOK`, `Requests`, `BlocksTile`, `UsedIsHeld`, `FreeLinks`,
`FreeReachable` and `ScanOnList` is inductive. The parts need one another: a merge
keeps the tiling only if what follows a block is a header with the right size; an
unlink keeps the list only if `prev` is right, which splits rewrite; the split of the
scan keeps reachability only if the scan is on the list. Lists are treated by lemmas
on pushing, removing and replacing a node over arbitrary `next` and `prev` functions;
reachability is "every set closed under next that contains the head contains the
block", which needs no recursion. From `IInv` follow the invariants, the action
property `NoHeaderInLiveData` and the refinement `ImplementsRegions`.
`HeapUsedExact` follows from `IInv` and a theory of sums over finite sets in the same
module: the library's fold is the value of the one function that adds up one element at
a time (it exists and is unique, by induction on the subsets of the set), so a sum does
not depend on the order, and functions that agree on a set have the same sum over it.
kmalloc then adds one block to the sum and kfree takes one away, at the size it had
before the merge. `LockReleased` (liveness) is only checked.

## 5. Pipes (`Pipe`, `ByteChannel`)

**State.** The ring (`buffer`, `read_pos`, `write_pos`, `count`), `users` for the
counts `readers` and `writers`, which of do_pipe's four allocations exist, each
end's file, and per thread the call it is in.

**Actions.** `DoPipe`; `ReadCall`, `ReadTransfer`; `WriteCall`, `WriteTransfer` for a
chunk, `WriteBroken` for a missing reader; `CloseRelease` (the locked part of the
release), `CloseFree` (freeing after the unlock), `ClosePut` (the file itself).
`pipe_lock` is held from the test of the wait loop to the end of the transfer, so a
transfer is one step; an iteration of a busy wait changes nothing.

**Checked** (run `pipe`: two writers, one reader, a ring of two bytes, writes of one
and three bytes over two values, reads of up to three): ring arithmetic (`RingExact`),
`FreedOnce` (no use after free, and everything reclaimed), `ImplementsChannel`,
`WaitersReleased`. A write of three bytes has to wait in the middle, wraps the ring,
and other writers' bytes come in between. Fairness: a thread inside a call keeps
running; nobody has to make another call.

`dentry` tells whether the files have an `f_dentry`; `DoPipe` chooses it. `vfs_close`
calls `release` only for a file with one (`vfs.c:394`), and `do_pipe` sets none
(`pipe.c:227`), so as the code stands a reader waits for ever after the writer has
closed. `FreedOnce` and `WaitersReleased` are about files that have one: they say
what the pipe code does once that is repaired. Ring and channel hold either way.
`do_pipe` has no caller yet and nothing raises `f_count` above 1. The run has
CHECK_DEADLOCK off, as a pipe whose two ends are closed is done.

**Proved** (`PipeProofs`), for every ring size, number of readers and writers and set of
messages over the naturals: `RingExact`, `FreedOnce` and the refinement
`ImplementsChannel`. `IInv` adds to `RingExact` what the code leaves to its callers and
to the order of its tests: a thread inside a call has its end open and a length left
(`Calls`), and counts, files and allocations agree (`Lifecycle`). `FreedOnce` alone is not
inductive: which release frees depends on the counts of both ends, and these are right
only as long as no file is closed under a call. The ring is wrapped by one remainder
per transfer; lemmas on remainders (`Wrap`, `Advance`, `WrapTwice`, `Distance`) show that
a transfer of `k` bytes appends to or takes from the front of `Bytes(read_pos, count)`,
which is the channel. Each transfer is a step of `ByteChannel`; every other step leaves
the channel as it is or is one of its closings.

## 6. Task scheduler and signals (`RunQueue`)

**State.** `rq` is `struct rq` with the tasks' `next` and `prev`; `state`,
`pool_index`, `exiting` (PF_EXITING and bit 9 of `pending_signals`), the signal
structures, and what a `do_signal` under way has still to handle.

**Actions.** `Schedule` (sys_sched_yield), `CreateTask`, `CreateTaskFail`,
`CreateThreadFail` (which leaves a RUNNING task outside of the queue), `Exit`,
`KillTask`, `SignalInit`, `Kill`, `SigProcMask`, `SigAction`, `DoSignal`,
`HandleSignal`, `DoWaitpid`; each is one call of the current task, except that
do_signal is one step per signal because its loop can switch tasks. Signals with a
user handler behave like ignored ones (the handler is outside the kernel). The idle
task does not exit. `MaxRunning` bounds `nr_running`, which counts a task that is
queued twice twice. Only `schedule` and `exit_task` have callers today.

**Checked** (run `run_queue`, two workloads, the constant `Workloads`: three tasks with
SIGKILL and SIGTERM, and two with SIGKILL, SIGSTOP, SIGCONT and waitpid). Until a task has
been woken, the queue holds exactly the tasks that were created in full and have not
exited (`Queued`), and the task on the CPU is one of them (`QueueConsistent`); and no call
lets a task of the queue overtake one before it (`NotOvertaken`). Both include tasks that
wait or are stopped, which `do_waitpid` and `sig_default_stop` leave in the queue, and
exclude what a failed `create_thread` leaves. A wake-up queues such a task a second time
and ends what the queue can be trusted for: the history variable `woken` marks it, and
`RunnableCounted` (section 12) is refuted. `KillNotMaskable` has no such premise. That
every runnable task gets the CPU is false whatever fairness is assumed (`RoundRobin`,
section 12), and nothing but `sys_sched_yield` calls `schedule`, so no liveness is
claimed. Nothing reads the bits `sched_kill_task` sets.

**Proved** (`RunQueueProofs`), for every number of tasks and every workload:
`QueueConsistent`, `NotOvertaken` and `KillNotMaskable`. `QueueExact` says, with `Holds`,
that the queue's links lead both ways, that head and tail are its ends, that every task of
it is reached from the head and that it has the tasks of `Queued` and no others; reached
is "every set closed under next that contains the head contains the task", as in `Heap`.
That is inductive together with the types of the links (into the part of the pool that
has been used: a new task is on no list) and `CurrentQueued`. Lemmas say what
`enqueue_task` and `dequeue_task` make of each field and, from these, that a list of `S`
becomes one of `S` with or without the task; `exit_task` needs the second for the running
task. `NotOvertaken` follows from the same lemmas: what is reached from a task is, but for
the one task taken out or appended, what was reached before. `KillNotMaskable` is
inductive by itself: `sigprocmask` masks it out and `sigaction_syscall` refuses it.

## 7. File system (`RamFs`)

**State.** One ramfs mounted on `/`. Per inode address its kind, name, parent, the list of
its children, buffer and size; `next_ino`, `inode_count`; `fd_table`, which all
processes share. Addresses are reused, lowest first. Data are bytes of a small set,
and `JUNK` is what fresh memory holds. `stale` and `call` are history variables.

**Actions.** `vfs_create`, `vfs_mkdir` (one action with the kind), `vfs_unlink`,
`vfs_rmdir`, `vfs_rename`, `sys_openat` with and without O_CREAT, `sys_open_root`,
`sys_close`, `sys_read`, `sys_write`, `sys_lseek`, the boot-time `ramfs_create_dir` and
`ramfs_create_file`, and `Booted`. Each is a whole call. Any one allocation of a call
may fail (`fail`), with what the code then leaves: a creation whose VFS inode cannot be
allocated has already linked the child.

**Checked** (run `ramfs`: paths of up to two of two components, three inodes, one
descriptor, blocks of two bytes). `TreeConsistent`: what is reachable from the root is a
tree and a descriptor's inode is live unless its own file was removed.
`ResolutionStable`: a call changes what a path leads to only if the path is one of its
arguments or lies below one. `ErrorIsNoOp`: a call that returns an error has changed
nothing, but for the allocation failure above. `ContentKept`: bytes change only where a
write says. `OpenRenameKeepNamesUnique`. Three inodes are the root and two others: enough
for a rename over, into and below another and for reuse of an address. `Small` leaves
out states with three inodes and more than one buffer or descriptor.

What the code does and the properties are worded around: `unlink` and `rmdir` free the
inode of open descriptors (`ramfs.c:413`), which the model marks `stale` and does not
follow through freed memory; `create` and `mkdir` do not look for the name, so that a
directory can hold two children of one name, of which the younger is found; `rename`
into its own subtree, or to a path below a file, succeeds and detaches what it moves
from the root.

**Proved** (`RamFsProofs`), for every number of inodes and descriptors, every block size
and paths of every length: all five properties above. `TreeConsistent` speaks of what the
root reaches and is not inductive, because `rename` can detach a subtree in which later
calls through open descriptors or reused addresses still act. The invariant, `IInv`, is
of all the lists: what is in a list is allocated, is in it once, is not the root, and has
the inode whose list it is as its parent; with it the types, the count, buffers without
gaps that hold the file's size, and `HeldLive`. Along it:
- `lookup_parent` and `resolve` walk the tree (`WalkExists`): the recursive function they
  are is unfolded by an induction written out over sets of numbers (`AllNumbers`), which
  the installed provers can do;
- two paths that meet at an inode are the same path (`WalkUnique`), since an inode has one
  parent and one name;
- each operation changes the lookups of one or two names, in the lists its own paths lead
  to (`AllocLookups`, `UnlinkLookups`, `RelinkLookups`). The helpers of `kernel_main` may
  take for a parent a node that is named by several components, which no path leads to
  (`BootParentPath`). With the two facts before, that is `ResolutionStable`;
- a new or moved inode comes under a name that was looked up in the same list, and what is
  reachable grows by it alone: `OpenRenameKeepNamesUnique`;
- `Grown` has the bytes below the file's size, and room for what is written (`RoundUp`):
  `ContentKept`.

The model takes no step through a stale descriptor whose inode's memory is free, so the
theorems say nothing about what follows such an access.

## 8. TCP (`Tcp`)

**State.** `tcp_connections`, the ephemeral port, each program's connection, the
segments under way in both directions, and the peer's end of each port. A byte carries
the connection and position it was sent with.

**Actions.** `tcp_connect`, `tcp_send`, `tcp_recv`, `tcp_close`; `Receive` is
`tcp_handle_segment` with one operator per state of the connection. Wherever
`tcp_send_packet` is called, kmalloc may have no room for the packet (`SentOrNot`), which
only `tcp_connect` and `tcp_send` notice. (That `tcp_alloc_connection` gets no buffers is
not modelled.) External: the
peer, a standard TCP (`PeerReceive`, `PeerSend`, `PeerFin`), and the network (`Lose`,
`Repeat`, `Overtake`, at most `MaxFaults` times); the peer may send its last byte in the
segment of its FIN.

**As wired today nothing is sent**: `interfaces[0]` is the loopback interface, whose `send`
is NULL, and `ip_send` uses it. The model assumes an interface that transmits, which is
what the code is written for.

**Checked** (run `tcp`: one table entry, two programs, two connections after each other, one
fault, a buffer of one byte). `ConnectionsSeparate`: until the ephemeral ports wrap, no
segment acts on a connection it was not sent in, however late it comes.
`InOrderStream`: with a network that keeps order and a buffer that had room, the bytes
received are the bytes sent, in order and without a gap, and the number acknowledged is
right; when the peer has closed, exactly the data of its FIN segment is missing
(`tcp_ip.c:792`), and acknowledged (`StreamWhole` in section 12). The code compares no
sequence numbers (`tcp_ip.c:798`), so this is as much as can hold. `HandleKept`: unless
a connection was refused, nothing frees the table entry under the program (a RST in
SYN_SENT does, `tcp_ip.c:786`). `AnswerUnderWay`: a connection in SYN_SENT, FIN_WAIT_1,
CLOSING or LAST_ACK has what it asked, or the answer, under way, unless a segment was lost
or its FIN could not be built (`FinSent` in section 12); nothing is ever sent again. This is a
safety property: that what is under way arrives cannot be assumed, as nothing calls
`virtio_net_poll`, and no liveness is claimed.
One entry for two connections is what makes reuse and late segments meet.

**Proved** (`TcpProofs`), for every size of the table, the buffers and the range of
ports, any number of programs and every bound on losses, repetitions and reorderings:
`ConnectionsSeparate`, `InOrderStream` and `HandleKept` (`AnswerUnderWay` is only
checked). None is inductive by itself. What
is, `IInv`, has besides the types:
- `Ids` and `Handles`: connections have different numbers, and a program's entry is in a
  state that only its own `tcp_close` or a refusal ends;
- while the ports have not wrapped, `Separate`: a port stands for one connection in the
  table, in every segment under way and at the peer (`PortsOwned`); no segment is ahead of
  what the peer has sent, and a FIN of a port means that the peer has closed
  (`PeerAhead`); a SYN under way is the first the peer hears of its port (`SynFirst`);
  a connection in SYN_SENT has sent nothing else and the peer has not gone on
  (`Unanswered`). This is why a late segment cannot be taken for one of another
  connection although only ports are compared;
- while the network keeps order and the buffer refused nothing, `InOrder` and `UnderWay`:
  the segments of a port are in the order of their bytes, and every byte sent and not
  taken over is in one of them or, after the FIN, was its data. Thus the segment at the head has the next byte, which is
  what a comparison of sequence numbers would have found.

`IInv` was checked by TLC on the run's instance and on one whose ports wrap before it
was proved. The theorem for `tcp_connect` needs the least free entry (`MinFacts`, from
the well-foundedness of the naturals).

## 9. Physical and virtual memory (`Vm`)

**State.** The bitmap with its count, the early tables' index, and the contents of every
page table, addressed by the page it lies in; address spaces with their VMAs; blocks
drivers and tasks hold; the tables the CPU uses. `pmm` stays in bitmap mode: nothing
clears `early_mode` and the buddy lists stay empty. Attribute bits and the TLB are left
out. `Init` is what `vmm_init` does on arm64: on x86_64, the default build, it returns
before it builds any table (`vmm.c:163-172`), so this section is about arm64 (`pmm` is the
same on both).

**The kernel heap is not one of pmm's users.** kmalloc's heap has a fixed place
(0x42000000 to 0x4A000000, `kmalloc.c:16-24`) inside the memory `pmm` manages (0x40000000 to
0x50000000), and `pmm_init` reserves the kernel image only. So `pmm` gives out pages that
kmalloc uses too: `HeapPages` are these pages, and `HeapApart` (section 12) is refuted in one
step. What follows is about the pages `pmm` gave out and those it gave them to; it is what
would hold of a kernel that reserved the heap as it does the image.

**Actions.** `HoldPages` and `ReleasePages` (`pmm_alloc_pages`, `pmm_free_pages`),
`MapDevice`, `UnmapDevice` (`vmm_map_range`, `vmm_unmap_range`), `copy_mm`,
`vmm_map_user_range`, `vmm_destroy_address_space`, `vmm_switch_address_space`, and
`do_execve`. Each is one call; within it, the walk that allocates tables is followed
entry by entry, so that it can run out of pages at any point. `vmm_map_user_range`,
`vmm_destroy_address_space` and `vmm_unmap_range` have no callers and are modelled as the
interface they are.

**Checked** (run `vm`: eight pages, tables of four entries, two address spaces).
`MemoryConsistent`: the count is the number of clear bits, a page has one purpose among
`pmm`'s users, every mapped user page is in a VMA. `MapRangeAtomic`: `vmm_map_range` maps all or changes no
translation. `SpacesIsolated`: a call on one address space changes no other.
`LostOnlyByOverlap`: pages are lost only by destroying an address space, by mapping a
user range over a mapped one, and by an exec whose mapping failed. Eight pages are
exhausted at every point of a walk; ranges cross a table, leave user space, and reach
into a block mapping. `Small` keeps one held block and one lost page.

**Proved** (`KernelProofs`), for every size of memory, of tables and of the pools, every
kernel image, and ranges of any length: `MemoryConsistent`, `MapRangeAtomic`,
`SpacesIsolated` and `LostOnlyByOverlap`. `MemoryConsistent` is not
inductive: it does not say which kinds of entry a table has at each depth, without which a
walk could take a mapped page for a table, nor that early tables past the index are not
in use, without which one could be handed out twice. `IInv` does:
- `Ok(mem, Roots, Taken)`: there are levels `lv` for all tables with which the memory is
  `Good`. The roots (`kernel_pgd` and the top tables of the address spaces) have level
  0, and a table entry leads one level down; every table of a level above 0 is referred
  to by one above it; no two entries refer to the same page or table; mapped pages and
  live tables are in use and are not `Taken`, that is the kernel image's or a held
  block's; the count is that of the bitmap. What the roots lead to is thus a forest, of
  which each operation changes one tree;
- `BlocksInv`, `SpacesInv`: held blocks are disjoint, and each address space has a top
  table of its own; `MappedInVma`.

The proof goes up in layers: numbers and their digits in base `VMM_ENTRIES` (an address is
its four indices); a store, the taking and the giving back of memory; one level of a walk
and the walk; a page, a range, an address space; exec. Loops over a range are folds,
and the library's induction theorems take an operator: instead a least step at which the
claim fails is taken (naturals are well-founded) and shown not to exist. A step of
the specification then keeps `IInv` and satisfies the three action properties
(`StepOk`).

*Assumptions.* `VmAssumption`: kernel code, devices and the user stack lie in the lower half
of the address space: the stack's top is 0x7FFFFFFFE000, below 2^47 (`fork.c:169`), and
device registers are physical addresses. User ranges may be anywhere in the four levels.
Tables have an even number of entries, at least one early table exists, a kernel stack
has at least one page (`sched.c`, the only multi-page blocks), and the kernel's pages are
pages. `ProgramsInLowerHalf` is a hypothesis of each theorem: the code does not see to it, as
`load_elf_binary` maps `p_vaddr` unchecked (`fork.c:138`). Under it the upper half of
`kernel_pgd` is empty in every state, so that the copy of it in
`vmm_create_address_space` copies nothing (`Vm.KernelMapped` in section 12). Without it
`OnePurpose` is false: after an exec of a program of the upper half, the next address
space shares a table with the kernel (section 12).

## 10. Locks and interrupts (`Locks`), keyboard input (`Input`)

**`Locks`.** The two locks, each context's IRQ mask, place and saved flags, and which
process runs; `LocksInit` chooses the build. `Timer` is the arm64 IRQ with its switch, the
other actions are the steps of an allocation, of a table call under
`spin_lock_irqsave`, of yield, schedule, exit and kill between which an interrupt or a
lock can tell. *Fairness* is strong: the timer keeps ticking, so it fires if again and
again it is not masked, and a thread that is again and again on the CPU goes on.

Run `locks` (two programs, a child of the second, and the kernel, both builds): the handler never
finds `proc_table_lock` taken and on x86_64 nobody finds `heap_lock` taken
(`LockFreeWhenNeeded`); a thread that was switched out comes back unmasked
(`InterruptsComeBack`); `heap_lock` is always released again, or on arm64 its holder
was killed, is the kernel gone astray, or a thread with IRQs masked keeps the CPU
(`HeapReleased`). These exceptions are real: a new process, or `process_exit` that
frees a child's stack, spins on `heap_lock` with IRQs masked while the preempted holder
waits for the CPU (`kmalloc.c:55`). With three processes one can kill another while
a child of the victim exits by itself. Run `locks_preemption` shows that `EveryReadyRuns`, what the header of
`process.c` promises, fails: a new process starts with IRQs masked and nothing unmasks
them before it first yields. `kill_children` takes the processes below the one that dies
in an order that has parents before children (`KillOrders`); `Below` is the least set
closed under the links to children, which is what its work stack collects.

Proved (`KernelProofs`, which extends `Locks` beside `Vm`), on both builds, for every
number of processes and every tree of parents: `LockFreeWhenNeeded` and
`InterruptsComeBack`. `LocksIInv` says who may be where:
between taking and restoring the mask a thread has the CPU and interrupts are masked, and
the lock word names the thread between lock and unlock (`TableSection`); without
preemption a thread that is not on the CPU is outside of both sections
(`NoPreemption`); and `MaskCarried` follows the mask through the places where it is only
in `flags` or in a saved context, from which `InterruptsComeBack` alone could not be
concluded after a switch.

**`Input`.** The event queue of the virtio keyboard: both rings with their wrapping
indices, the buffers, the device's and the driver's positions; modifiers; the key ring;
the serial line; the PS/2 keyboard of the x86 builds (`ps2_poll`, whose modifiers are its
own); and the loop that has the CPU. The two Shift keys share one flag, as do the two Ctrl
keys (`KeysOf`); keys mapped by hand carry no modifier and Ctrl with a key that is no letter
is dropped (`Key`). The device writes at any time
(`KeyboardEvent`), between any two steps of `keyboard_poll` (`Cpu`). A program is
started by a click in the event loop and runs until it ends, so one loop runs at a time.
Run `input` (two descriptors, indices modulo four, a ring of three, four events and two
characters): a buffer is the device's or the driver's and never both's
(`QueueConsistent`), events are handled once, in order (`HandledInOrder`) and in the
end (`EventsHandled`), keys leave the ring as they entered it (`KeysKept`) with the
modifiers that the last event of either key had set when they were pressed
(`ModifiersRight`); this is not the modifiers that are held, `ShiftWhileHeld` in section 12.
`MCInput` chooses the events so that each way to treat a key is met and the two keys of a
modifier differ: a letter and a symbol going down, left Ctrl down, right Ctrl up, and the
scan codes of a prefix, an arrow, a character and Shift. Four events wrap both queue
indices and the key ring. Not in the model: the repeat value 2 of an event, which counts
as pressed, and the device seeing the new `avail` index before the ring entry, as no
barrier stands between `virtio_input.c:884` and `885`; they are one step. *Fairness*: the loop that has the CPU goes on. Run
`input_has_key` shows that a key in the ring may never reach the program: `has_key`
looks at the serial line only, and drops what it reads there.

Proved (`InputProofs`), for every size of the queue and of the key ring, every modulus of
the indices that is a larger multiple of the queue's size, and every set of kinds of events
and scan codes: `QueueConsistent`, `HandledInOrder`, `KeysKept` and `ModifiersRight`. The code has only
indices that wrap. `Indices` ties each to a count of events that does not, with what
`keyboard_poll` has returned and advanced in the middle of an event; `Contents` says that
event `k` is in slot and buffer `k % QUEUE_SIZE` from when the device writes it to when
the driver returns it; `RingExact` does the same for the key ring, and `HeldRight`
relates the modifiers to the events handled. Without the counts, that a descriptor is
owned once cannot be carried across a wrap. Lemmas on remainders of integers do the
arithmetic.

## 11. Plan

1. The transmit queue of `virtio_net.c` with a device that falls behind.
2. Window stacking and focus of `gui/window.c`.

## 12. Claims of comments that the code does not meet

Each is stated as a property in its module; TLC refutes it in a few steps when it is
added to the module's configuration. Two more have runs (`locks_preemption`,
`input_has_key`).

| Property | Comment | What the code does |
|---|---|---|
| `Process.StackReclaimed` | `process.c:385` "The stack will be freed when the slot is reused" | `process_exit` leaves the pointer, `process_create` overwrites it: the stack is lost |
| `Process.ChildrenDieWithParent` | `process.c:378` "Kill all children of this process before exiting" | `parent_pid` is taken from `current_pid`, a slot index, and matched with a pid (`process.c:254`) |
| `Process.ExecWatchesItsChild` | `process.c:527` exec "waits for it to finish" | it watches a slot, which another process can have taken (`process.c:554`) |
| `Process.StacksOwnedOnce` with preemption | `process.c:694` "Free the process memory" | the victim can run, be given another's stack or be freed twice between `free` and the store of `PROC_STATE_FREE`, as IRQs are on (`process.c:696-701`, `648-651`) |
| `Process.ImagesAfterHeap` | `process.c:82` "Programs load right after the heap", `process.c:23` "after heap area at 0x42800000" | 0x44000000 lies inside the heap (`kmalloc.c:16-24`), and an ET_EXEC is loaded where it is linked (`elf.c:208`) |
| `Process.ImagesDisjoint` with `LinkAddresses` = {2}, or with preemption and four slots | `process.c:82` as above | `elf_load_at` ignores `load_base` for an ET_EXEC, so two of one program overlap; two preempted creators read the same `next_load_addr` (`process.c:245`) |
| `Process.ReservationHeld` with preemption | `process.c:173` "do not let the scheduler run it until ..." | a kill frees a reserved slot under its creator (`process.c:670`) |
| `Pipe.ReadersReleased` without dentry | `pipe.c:53` "No writers and empty buffer = EOF" | `release` is never called, see section 5 |
| `RunQueue.RoundRobin` with WF of `Schedule` | `sched.c:113` "Simple round-robin" | the running task stays at the head and `schedule` returns to it (`sched.c:153`) |
| `RunQueue.RunnableCounted` | `sched.h:156` "Number of runnable tasks" | a failed `create_thread` leaves a RUNNING task that is not queued (`sched.c:318`), tasks that wait or stop stay counted, and one that is woken is counted twice |
| `Tcp.FinSent` | `tcp_ip.c:708` "Sent FIN, entering FIN_WAIT_1" | the result of `tcp_send_packet` is ignored: without memory no FIN is sent, and none is sent later |
| `Tcp.StreamWhole` | `tcp_ip.c:791` "Handle incoming data" | the data of a segment with FIN is acknowledged (`tcp_ip.c:794`) and not copied |
| `Tcp.SendBufferDrained` | `tcp_ip.c:810` "remove acknowledged data from send buffer" | nothing shrinks the buffer: after `send_capacity` bytes every send fails |
| `Vm.KernelMapped` | `vmm.c:410` copies the kernel's mappings | only the upper half is copied, and the kernel runs in the lower |
| `Vm.HeapApart` | `kmalloc.c:22` "Fixed heap location" | `pmm_init` (`pmm.c:184`) reserves the image only, so `pmm` gives out pages of the heap |
| `Vm.OnePurpose` with a program of the upper half | `vmm.c:410` copies the kernel's mappings | the program's table in `kernel_pgd` is copied into later address spaces, which then map pages into one table (`fork.c:138`, `vmm.c:411`) |
| `Input.ShiftWhileHeld` | `virtio_input.c:808` "Track shift key state", 810 "1 = pressed, 0 = released" | releasing one Shift key clears the flag while the other is held |

## 13. What the proofs do not cover

Liveness and ENABLED (`ExecReturns`, `LockReleased`, `WaitersReleased`,
`HeapReleased`, `EventsHandled`) stay with TLC, and so does `AnswerUnderWay`. The
library's induction theorems take an operator as a parameter, which the provers used here
cannot instantiate. Where an induction is needed the modules state it over sets: list facts
with sets closed under `next` (`Heap`, `RunQueue`), walks by a set of lengths that has every
successor (`RamFs`), sums by a family of subsets without a smallest exception (`Heap`), loops over a range by a
least step that fails (`Vm`).

The theorems hold under the assumptions each module names (`PipeAssumption`,
`TcpAssumption` and so on), which say of which kind the constants are and, where the code
fixes it, how they relate (a modulus that is a multiple of the queue's size, a first port
below the last). The bounds on faults, segments in flight and connections ever opened
are constants like the others: a theorem holds for every value of them.

## 14. Not modelled

"components" in `PROJECT.json` has every part with its reason. Most of the repository's
282,655 lines are not the kernel's logic: image data and the Doom binary as C arrays
(`apps/doom_binary.h`, `media/hd_wallpaper_*.c`, `gui/dock_icons.h`,
`media/bootstrap_test_png.c`), the Doom port, vendored decoders (picojpeg, tpng,
minimp3) and drawing. Of the rest: sockets and the DNS resolver are stubs, the sandbox
has no caller, ext4 and APFS read a format and share no state between calls, drivers
other than the keyboard's program device registers, the ELF loader and start-up code are
straight-line, and libc is wrappers and string routines.
