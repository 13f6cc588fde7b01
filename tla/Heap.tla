-------------------------------- MODULE Heap --------------------------------
(***************************************************************************)
(* The kernel heap of kernel/mm/kmalloc.c: blocks with in-band headers and *)
(* a doubly linked free list, first fit, split on allocation, coalescing   *)
(* with the next physical block on free, under one spinlock that several   *)
(* callers contend for.                                                    *)
(*                                                                         *)
(* Memory is counted in units of 32 bytes: MIN_ALLOC and                   *)
(* sizeof(struct block_header) are one unit each, and align_up rounds to   *)
(* whole units.  The functions size, magic, next and prev are the header   *)
(* fields of the unit at an address; a unit that holds no header has magic *)
(* "NONE".  flags repeats magic and is left out, and so are the contents   *)
(* of the data units.                                                      *)
(***************************************************************************)
EXTENDS Integers, FiniteSetsExt

CONSTANTS
  Callers,     \* threads of control that call the allocator
  HEAP_SIZE,   \* in units
  MAX_ALLOC,   \* largest request, in units
  NULL

ASSUME HeapAssumption ==
  /\ HEAP_SIZE \in Nat /\ HEAP_SIZE >= 2
  /\ MAX_ALLOC \in Nat
  /\ NULL \notin Int /\ NULL \notin Callers

Addrs == 0 .. HEAP_SIZE - 1

VARIABLES
  size, magic, next, prev,  \* the block headers
  free_list,
  heap_used,
  heap_lock,                \* the caller that holds it, or NULL
  block, prev_free,         \* where the holder's scan of the free list is
  pc,                       \* where each caller is
  total_size,               \* what its kmalloc looks for
  ptr,                      \* the block its kfree or krealloc was given
  held                      \* blocks that callers own

headers == <<size, magic, next, prev>>
list == <<headers, free_list, heap_used>>
scan == <<heap_lock, block, prev_free>>
call == <<pc, total_size, ptr>>
vars == <<list, scan, call, held>>

\* kmalloc_init: one free block covers the heap.
Init ==
  /\ size = [a \in Addrs |-> IF a = 0 THEN HEAP_SIZE ELSE 0]
  /\ magic = [a \in Addrs |-> IF a = 0 THEN "FREE" ELSE "NONE"]
  /\ next = [a \in Addrs |-> NULL]
  /\ prev = [a \in Addrs |-> NULL]
  /\ free_list = 0
  /\ heap_used = 0
  /\ heap_lock = NULL
  /\ block = NULL /\ prev_free = NULL
  /\ pc = [c \in Callers |-> "idle"]
  /\ total_size = [c \in Callers |-> 0]
  /\ ptr = [c \in Callers |-> NULL]
  /\ held = {}

-----------------------------------------------------------------------------
(* Allocation. *)

\* The call of c returns; its local variables are gone.
Return(c) ==
  /\ pc' = [pc EXCEPT ![c] = "idle"]
  /\ total_size' = [total_size EXCEPT ![c] = 0]
  /\ ptr' = [ptr EXCEPT ![c] = NULL]

\* _kmalloc of n units, up to lock_heap.  A request that is empty or exceeds
\* MAX_ALLOC returns NULL and changes nothing.
KmallocCall(c, n) ==
  /\ pc[c] = "idle"
  /\ n # 0 /\ n <= MAX_ALLOC
  /\ pc' = [pc EXCEPT ![c] = "alloc"]
  /\ total_size' = [total_size EXCEPT ![c] = n + 1]
  /\ UNCHANGED <<list, scan, ptr, held>>

\* The caller of kfree or krealloc has given its block up to that call: no
\* other call is made with it.
Available(b) == \A c \in Callers : ptr[c] # b

\* krealloc of block b to n units that do not fit in it, up to lock_heap of
\* its kmalloc.  With NULL it is kmalloc, with size 0 it is kfree, and when
\* the new size fits it returns b.
KreallocCall(c, b, n) ==
  /\ pc[c] = "idle"
  /\ b \in held /\ Available(b)
  /\ n > size[b] - 1 /\ n <= MAX_ALLOC
  /\ pc' = [pc EXCEPT ![c] = "alloc"]
  /\ total_size' = [total_size EXCEPT ![c] = n + 1]
  /\ ptr' = [ptr EXCEPT ![c] = b]
  /\ UNCHANGED <<list, scan, held>>

\* lock_heap succeeds and the scan starts at the head of the list.
KmallocLock(c) ==
  /\ pc[c] = "alloc"
  /\ heap_lock = NULL
  /\ heap_lock' = c
  /\ block' = free_list
  /\ prev_free' = NULL
  /\ pc' = [pc EXCEPT ![c] = "scan"]
  /\ UNCHANGED <<list, total_size, ptr, held>>

\* One iteration of the first-fit loop: this block is too small.
ScanNext(c) ==
  /\ pc[c] = "scan"
  /\ block # NULL
  /\ magic[block] = "FREE" /\ size[block] < total_size[c]
  /\ prev_free' = block
  /\ block' = next[block]
  /\ UNCHANGED <<list, heap_lock, call, held>>

\* Mutant: the error path returns without unlock_heap.
ScanFailLocked(c) ==
  /\ pc[c] = "scan"
  /\ block # NULL => magic[block] # "FREE"
  /\ Return(c)
  /\ UNCHANGED <<list, scan, held>>

\* The end of the list, or a header that is not FREE: unlock, return NULL.  A
\* krealloc leaves its old block to the caller.
ScanFail(c) ==
  /\ pc[c] = "scan"
  /\ block # NULL => magic[block] # "FREE"
  /\ heap_lock' = NULL
  /\ block' = NULL /\ prev_free' = NULL
  /\ Return(c)
  /\ UNCHANGED <<list, held>>

\* Mutant: a remainder that can only hold a header is split off.
SplitsHeaderOnly(b, total) == size[b] >= total + 1

\* The rest of block b can hold a header and MIN_ALLOC.
Splits(b, total) == size[b] >= total + 2

\* block->next once the remainder, if any, is linked in behind b.
Succ(b, total) == IF Splits(b, total) THEN b + total ELSE next[b]

\* next after b is removed from the list between pf and its successor.
TakeNext(b, pf, total) ==
  [a \in Addrs |-> IF a = b THEN NULL
                   ELSE IF Splits(b, total) /\ a = b + total THEN next[b]
                   ELSE IF a = pf THEN Succ(b, total)
                   ELSE next[a]]

\* Mutant: the block after the remainder still points back to b.
TakePrevStale(b, pf, total) ==
  [a \in Addrs |-> IF a = Succ(b, total) THEN pf ELSE prev[a]]

\* prev after b is removed; b's own is left as it was.
TakePrev(b, pf, total) ==
  [a \in Addrs |-> IF Splits(b, total) /\ a = next[b] THEN b + total
                   ELSE IF a = Succ(b, total) THEN pf
                   ELSE prev[a]]

TakeSize(b, total) ==
  IF Splits(b, total)
  THEN [size EXCEPT ![b] = total, ![b + total] = size[b] - total]
  ELSE size

TakeMagic(b, total) ==
  IF Splits(b, total)
  THEN [magic EXCEPT ![b] = "USED", ![b + total] = "FREE"]
  ELSE [magic EXCEPT ![b] = "USED"]

\* Mutant: the request is charged, not the block.
ChargedRequest(b, total) == total

\* What heap_used grows by: block->size after the split.
Charged(b, total) == TakeSize(b, total)[b]

\* The scan has found a block: split it, take it off the list, account for it
\* and unlock.  A krealloc goes on to copy its data.
ScanTake(c) ==
  LET total == total_size[c] IN
  /\ pc[c] = "scan"
  /\ block # NULL
  /\ magic[block] = "FREE" /\ size[block] >= total
  /\ size' = TakeSize(block, total)
  /\ magic' = TakeMagic(block, total)
  /\ next' = TakeNext(block, prev_free, total)
  /\ prev' = TakePrev(block, prev_free, total)
  /\ free_list' = IF prev_free = NULL THEN Succ(block, total) ELSE free_list
  /\ heap_used' = heap_used + Charged(block, total)
  /\ heap_lock' = NULL
  /\ block' = NULL /\ prev_free' = NULL
  /\ held' = held \cup {block}
  /\ IF ptr[c] = NULL THEN Return(c)
     ELSE /\ pc' = [pc EXCEPT ![c] = "copy"]
          /\ UNCHANGED <<total_size, ptr>>

-----------------------------------------------------------------------------
(* Deallocation. *)

\* kfree of a block the caller owns, up to lock_heap: the magic is read before
\* the lock is taken, and a block that is not USED is rejected.
KfreeCall(c, b) ==
  /\ pc[c] = "idle"
  /\ b \in held /\ Available(b)
  /\ magic[b] = "USED"
  /\ held' = held \ {b}
  /\ ptr' = [ptr EXCEPT ![c] = b]
  /\ pc' = [pc EXCEPT ![c] = "free"]
  /\ UNCHANGED <<list, scan, total_size>>

\* krealloc has copied the data and calls kfree for the old block.
KreallocFree(c) ==
  /\ pc[c] = "copy"
  /\ magic[ptr[c]] = "USED"
  /\ held' = held \ {ptr[c]}
  /\ pc' = [pc EXCEPT ![c] = "free"]
  /\ UNCHANGED <<list, scan, total_size, ptr>>

\* The links after b is pushed on the front of the free list.
Push(b) ==
  [next |-> [next EXCEPT ![b] = free_list],
   prev |-> [a \in Addrs |-> IF a = b THEN NULL
                             ELSE IF a = free_list THEN b
                             ELSE prev[a]]]

\* The links after np is taken out of the list.
Unlink(links, np) ==
  LET pp == links.prev[np]
      nn == links.next[np]
  IN
  [next |-> [a \in Addrs |-> IF a = pp THEN nn ELSE links.next[a]],
   prev |-> [a \in Addrs |-> IF a = nn THEN pp ELSE links.prev[a]]]

\* Mutant: the next physical block is merged whether it is free or not.
MergesUsed(b) == b + size[b] < HEAP_SIZE

\* The next physical block is there and free.
Merges(b) == b + size[b] < HEAP_SIZE /\ magic[b + size[b]] = "FREE"

ReleaseMagic(b) ==
  IF Merges(b) THEN [magic EXCEPT ![b] = "FREE", ![b + size[b]] = "NONE"]
  ELSE [magic EXCEPT ![b] = "FREE"]

\* The locked part of kfree; nobody sees the heap between lock and unlock.
KfreeLocked(c) ==
  LET b == ptr[c]
      np == b + size[b]
      links == IF Merges(b) THEN Unlink(Push(b), np) ELSE Push(b)
  IN
  /\ pc[c] = "free"
  /\ heap_lock = NULL
  /\ heap_used' = heap_used - size[b]
  /\ free_list' = b
  /\ next' = links.next
  /\ prev' = links.prev
  /\ size' = IF Merges(b) THEN [size EXCEPT ![b] = @ + size[np]] ELSE size
  /\ magic' = ReleaseMagic(b)
  /\ Return(c)
  /\ UNCHANGED <<scan, held>>

-----------------------------------------------------------------------------

Next ==
  \E c \in Callers :
    \/ \E n \in 0 .. MAX_ALLOC : KmallocCall(c, n)
    \/ \E b \in Addrs, n \in 0 .. MAX_ALLOC : KreallocCall(c, b, n)
    \/ \E b \in Addrs : KfreeCall(c, b)
    \/ KmallocLock(c) \/ ScanNext(c) \/ ScanFail(c) \/ ScanTake(c)
    \/ KreallocFree(c) \/ KfreeLocked(c)

Spec == Init /\ [][Next]_vars

\* A caller inside the critical section runs on to its unlock.
Fairness ==
  \A c \in Callers : WF_vars(ScanNext(c) \/ ScanFail(c) \/ ScanTake(c))

FairSpec == Spec /\ Fairness

-----------------------------------------------------------------------------
(* Properties. *)

Maybe(S) == S \cup {NULL}

\* Every variable keeps its type.
TypeOK ==
  /\ size \in [Addrs -> 0 .. HEAP_SIZE]
  /\ magic \in [Addrs -> {"FREE", "USED", "NONE"}]
  /\ next \in [Addrs -> Maybe(Addrs)]
  /\ prev \in [Addrs -> Maybe(Addrs)]
  /\ free_list \in Maybe(Addrs)
  /\ heap_used \in Int
  /\ heap_lock \in Maybe(Callers)
  /\ block \in Maybe(Addrs) /\ prev_free \in Maybe(Addrs)
  /\ pc \in [Callers -> {"idle", "alloc", "scan", "copy", "free"}]
  /\ total_size \in [Callers -> 0 .. MAX_ALLOC + 1]
  /\ ptr \in [Callers -> Maybe(Addrs)]
  /\ held \subseteq Addrs

Starts == {a \in Addrs : magic[a] # "NONE"}
FreeBlocks == {a \in Addrs : magic[a] = "FREE"}
UsedBlocks == {a \in Addrs : magic[a] = "USED"}

\* The headers tile the heap: block after block without gap or overlap, from
\* the first unit to heap_end.  kfree finds the neighbour it merges this way.
BlocksTile ==
  /\ 0 \in Starts
  /\ \A a \in Starts :
       /\ size[a] >= 2
       /\ a + size[a] = HEAP_SIZE \/ a + size[a] \in Starts
       /\ \A c \in Starts : ~(a < c /\ c < a + size[a])

\* Blocks that a kfree has been given and not yet put on the list.
Freeing == {ptr[c] : c \in {d \in Callers : pc[d] = "free"}}

\* A block is USED exactly while a caller owns it or a kfree is about to put it
\* on the list; no two calls work on the same block, and a krealloc owns its
\* old block until it frees it.
UsedIsHeld ==
  /\ \A a \in Addrs : magic[a] = "USED" <=> a \in held \cup Freeing
  /\ held \cap Freeing = {}
  /\ \A c \in Callers :
       /\ pc[c] = "idle" => ptr[c] = NULL
       /\ pc[c] \in {"copy", "free"} => ptr[c] # NULL
       /\ pc[c] # "free" /\ ptr[c] # NULL => ptr[c] \in held
       /\ \A d \in Callers : ptr[c] = ptr[d] => c = d \/ ptr[c] = NULL

\* After any sequence of splits and merges the heap is a row of well-formed
\* blocks, and the USED ones among them are those that somebody has.
LayoutExact == TypeOK /\ BlocksTile /\ UsedIsHeld

\* next and prev of the FREE blocks undo each other, free_list is the one that
\* has no prev, and links lead to FREE blocks only.
FreeLinks ==
  /\ free_list # NULL => free_list \in FreeBlocks
  /\ \A a \in FreeBlocks :
       /\ next[a] # NULL => next[a] \in FreeBlocks /\ prev[next[a]] = a
       /\ prev[a] # NULL => prev[a] \in FreeBlocks /\ next[prev[a]] = a
       /\ prev[a] = NULL <=> a = free_list

\* No free block is lost: whatever contains the head of the list and is closed
\* under next contains every FREE block.
FreeReachable ==
  \A S \in SUBSET FreeBlocks :
    /\ free_list # NULL => free_list \in S
    /\ \A a \in S : next[a] # NULL => next[a] \in S
    => S = FreeBlocks

\* The lock holder's scan is on the list, prev_free one block behind block.
ScanOnList ==
  /\ \A c \in Callers : pc[c] = "scan" <=> heap_lock = c
  /\ heap_lock # NULL =>
       \/ prev_free = NULL /\ block = free_list
       \/ prev_free \in FreeBlocks /\ block = next[prev_free]

\* The free list is a doubly linked list of exactly the FREE blocks, whatever
\* kmalloc's split and kfree's merge have relinked, and the call that scans it
\* under heap_lock is on it.
FreeListExact == FreeLinks /\ FreeReachable /\ ScanOnList

\* heap_used, which kmalloc_get_stats reports, is the number of units in USED
\* blocks, headers included, after any sequence of splits and merges.
HeapUsedExact == heap_used = MapThenSumSet(LAMBDA a : size[a], UsedBlocks)

\* The units a caller may write when it owns block b.
Data(b) == b + 1 .. b + size[b] - 1

\* No call writes a header into memory that a caller owns throughout it.
NoHeaderInLiveData ==
  [][\A b \in held \cap held' : \A a \in Data(b) :
       /\ size'[a] = size[a] /\ magic'[a] = magic[a]
       /\ next'[a] = next[a] /\ prev'[a] = prev[a]]_vars

\* The heap is an allocator of disjoint regions; the refinement mapping takes
\* an owned block to its data units.
Regions == INSTANCE DisjointRegions
             WITH Space <- Addrs, owned <- {Data(b) : b \in held}

\* kmalloc, krealloc and kfree implement the abstract allocator.
ImplementsRegions == Regions!Spec

\* The first-fit scan ends and the lock is released: the list has no cycle.
LockReleased == heap_lock # NULL ~> heap_lock = NULL
=============================================================================
