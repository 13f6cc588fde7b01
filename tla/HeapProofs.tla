----------------------------- MODULE HeapProofs -----------------------------
(***************************************************************************)
(* Proofs about Heap for every number of callers and every heap size.  The *)
(* inductive invariant IInv joins the type, the tiling of the heap by      *)
(* headers, ownership, the two facts about the free list and the position  *)
(* of the scan, and adds that a pending request is at least two units.     *)
(* The accounting needs the lemmas below on sums over finite sets.         *)
(***************************************************************************)
EXTENDS Heap, FiniteSetTheorems, WellFoundedInduction, TLAPS

\* A request that is under way asks for a header and at least MIN_ALLOC.
Requests ==
  \A c \in Callers : pc[c] \in {"alloc", "scan"} => total_size[c] >= 2

IInv ==
  /\ TypeOK /\ Requests
  /\ BlocksTile /\ UsedIsHeld
  /\ FreeLinks /\ FreeReachable
  /\ ScanOnList

\* What ScanTake knows about the block it takes: it is the FREE block behind
\* prev_free, and the unit where a remainder would start holds no header.
LEMMA TakenBlock ==
  ASSUME IInv, NEW c \in Callers, ScanTake(c)
  PROVE  /\ block \in FreeBlocks
         /\ total_size[c] \in Nat /\ total_size[c] >= 2
         /\ size[block] \in Nat /\ size[block] >= total_size[c]
         /\ prev[block] = prev_free
         /\ prev_free # NULL => prev_free \in FreeBlocks /\ next[prev_free] = block
         /\ prev_free = NULL => free_list = block
         /\ Splits(block, total_size[c]) =>
              /\ block + total_size[c] \in Addrs
              /\ magic[block + total_size[c]] = "NONE"
              /\ size[block] - total_size[c] \in 2 .. HEAP_SIZE
<1> USE HeapAssumption
<1>1. block \in FreeBlocks
  BY DEF IInv, TypeOK, ScanTake, FreeBlocks, Maybe
<1>2. total_size[c] \in Nat /\ total_size[c] >= 2
  BY DEF IInv, TypeOK, Requests, ScanTake
<1>3. size[block] \in Nat /\ size[block] >= total_size[c]
  BY <1>1 DEF IInv, TypeOK, ScanTake, FreeBlocks
<1>4. heap_lock = c /\ heap_lock # NULL
  BY DEF IInv, ScanOnList, ScanTake
<1>5. /\ prev[block] = prev_free
      /\ prev_free # NULL => prev_free \in FreeBlocks /\ next[prev_free] = block
      /\ prev_free = NULL => free_list = block
  <2>1. CASE prev_free = NULL
    <3>1. block = free_list
      BY <1>4, <2>1 DEF IInv, ScanOnList, FreeBlocks, Addrs
    <3> QED BY <1>1, <2>1, <3>1 DEF IInv, FreeLinks
  <2>2. CASE prev_free # NULL
    <3>1. prev_free \in FreeBlocks /\ block = next[prev_free]
      BY <1>4, <2>2 DEF IInv, ScanOnList
    <3>2. next[prev_free] # NULL
      BY <1>1, <3>1 DEF FreeBlocks, Addrs
    <3> QED BY <2>2, <3>1, <3>2 DEF IInv, FreeLinks
  <2> QED BY <2>1, <2>2
<1>6. ASSUME Splits(block, total_size[c])
      PROVE  /\ block + total_size[c] \in Addrs
             /\ magic[block + total_size[c]] = "NONE"
             /\ size[block] - total_size[c] \in 2 .. HEAP_SIZE
  <2>1. block \in Addrs /\ block \in Starts /\ size[block] \in 0 .. HEAP_SIZE
    BY <1>1 DEF IInv, TypeOK, FreeBlocks, Starts
  <2>2. size[block] >= total_size[c] + 2
    BY <1>6 DEF Splits
  <2>3. block + size[block] <= HEAP_SIZE
    BY <2>1 DEF IInv, BlocksTile, Starts, Addrs
  <2>4. block + total_size[c] \in Addrs
    BY <1>2, <2>1, <2>2, <2>3 DEF Addrs
  <2>5. block + total_size[c] \notin Starts
    BY <1>2, <2>1, <2>2, <2>4 DEF IInv, BlocksTile, Addrs
  <2>6. magic[block + total_size[c]] = "NONE"
    BY <2>4, <2>5 DEF Starts
  <2> QED BY <1>2, <2>1, <2>2, <2>4, <2>6
<1> QED BY <1>1, <1>2, <1>3, <1>5, <1>6

\* What KfreeLocked knows about the block it frees: it is USED, and a block it
\* merges with is a FREE block of the heap.
LEMMA FreedBlock ==
  ASSUME IInv, NEW c \in Callers, pc[c] = "free"
  PROVE  /\ ptr[c] \in Addrs /\ magic[ptr[c]] = "USED"
         /\ size[ptr[c]] \in Nat /\ size[ptr[c]] >= 2
         /\ ptr[c] + size[ptr[c]] <= HEAP_SIZE
         /\ Merges(ptr[c]) =>
              /\ ptr[c] + size[ptr[c]] \in FreeBlocks
              /\ ptr[c] + size[ptr[c]] # ptr[c]
              /\ size[ptr[c] + size[ptr[c]]] \in Nat
              /\ size[ptr[c] + size[ptr[c]]] >= 2
              /\ ptr[c] + size[ptr[c]] + size[ptr[c] + size[ptr[c]]] <= HEAP_SIZE
<1> USE HeapAssumption
<1> DEFINE b == ptr[c]
           np == b + size[b]
<1>1. b \in Addrs
  BY DEF IInv, TypeOK, UsedIsHeld, Maybe
<1>2. magic[b] = "USED"
  BY <1>1 DEF IInv, UsedIsHeld, Freeing
<1>3. b \in Starts /\ size[b] \in 0 .. HEAP_SIZE
  BY <1>1, <1>2 DEF Starts, IInv, TypeOK
<1>4. size[b] >= 2 /\ b + size[b] <= HEAP_SIZE
  BY <1>3 DEF IInv, BlocksTile, Starts, Addrs
<1>5. ASSUME Merges(b)
      PROVE  /\ np \in FreeBlocks /\ np # b
             /\ size[np] \in Nat /\ size[np] >= 2
             /\ np + size[np] <= HEAP_SIZE
  <2>1. np \in Addrs /\ magic[np] = "FREE"
    BY <1>1, <1>3, <1>4, <1>5 DEF Merges, Addrs
  <2>2. np \in Starts /\ np \in FreeBlocks /\ size[np] \in 0 .. HEAP_SIZE
    BY <2>1 DEF Starts, FreeBlocks, IInv, TypeOK
  <2>3. size[np] >= 2 /\ np + size[np] <= HEAP_SIZE
    BY <2>2 DEF IInv, BlocksTile, Starts, Addrs
  <2> QED BY <1>1, <1>3, <1>4, <2>2, <2>3 DEF Addrs
<1> QED BY <1>1, <1>2, <1>3, <1>4, <1>5

-----------------------------------------------------------------------------
(* The two actions that change the headers, one conjunct of IInv at a time. *)

\* ScanTake keeps the types of the headers and of free_list.
LEMMA TakeType ==
  ASSUME IInv, NEW c \in Callers, ScanTake(c)
  PROVE  TypeOK' /\ Requests'
<1> USE HeapAssumption
<1> DEFINE t == total_size[c]
<1>0. /\ TypeOK /\ Requests /\ block \in Addrs
      /\ t \in Nat /\ t >= 2 /\ size[block] \in Nat
      /\ Splits(block, t) =>
           block + t \in Addrs /\ size[block] - t \in 2 .. HEAP_SIZE
      /\ t <= HEAP_SIZE
  BY TakenBlock DEF IInv, FreeBlocks, TypeOK
<1>1. Succ(block, t) \in Maybe(Addrs)
  BY <1>0 DEF Succ, TypeOK, Maybe
<1>2. size' \in [Addrs -> 0 .. HEAP_SIZE]
  BY <1>0 DEF ScanTake, TakeSize, TypeOK
<1>3. magic' \in [Addrs -> {"FREE", "USED", "NONE"}]
  BY <1>0 DEF ScanTake, TakeMagic, TypeOK
<1>4. next' \in [Addrs -> Maybe(Addrs)]
  BY <1>0, <1>1 DEF ScanTake, TakeNext, TypeOK, Maybe
<1>5. prev' \in [Addrs -> Maybe(Addrs)]
  BY <1>0, <1>1 DEF ScanTake, TakePrev, TypeOK, Maybe
<1>6. free_list' \in Maybe(Addrs) /\ held' \subseteq Addrs
  BY <1>0, <1>1 DEF ScanTake, TypeOK, Maybe
<1>7. heap_used' \in Int
  <2>1. Charged(block, t) \in Int
    BY <1>0 DEF Charged, TakeSize, TypeOK
  <2> QED BY <1>0, <2>1 DEF ScanTake, TypeOK
<1>8. heap_lock' \in Maybe(Callers) /\ block' \in Maybe(Addrs)
      /\ prev_free' \in Maybe(Addrs)
  BY DEF ScanTake, Maybe
<1>9. /\ pc' \in [Callers -> {"idle", "alloc", "scan", "copy", "free"}]
      /\ total_size' \in [Callers -> 0 .. MAX_ALLOC + 1]
      /\ ptr' \in [Callers -> Maybe(Addrs)]
      /\ Requests'
  BY <1>0 DEF ScanTake, Return, TypeOK, Requests, Maybe
<1> QED BY <1>2, <1>3, <1>4, <1>5, <1>6, <1>7, <1>8, <1>9 DEF TypeOK

\* KfreeLocked keeps the types of the headers and of free_list.
LEMMA ReleaseType ==
  ASSUME IInv, NEW c \in Callers, KfreeLocked(c)
  PROVE  TypeOK' /\ Requests'
<1> USE HeapAssumption
<1> DEFINE b == ptr[c]
           np == b + size[b]
<1>0. /\ TypeOK /\ Requests /\ b \in Addrs /\ size[b] \in Nat
      /\ Merges(b) => /\ np \in Addrs /\ size[np] \in Nat
                      /\ np + size[np] <= HEAP_SIZE
      /\ pc[c] = "free"
  BY FreedBlock DEF IInv, FreeBlocks, KfreeLocked
<1>1. size' \in [Addrs -> 0 .. HEAP_SIZE]
  <2>1. CASE Merges(b)
    <3>1. size[b] + size[np] \in 0 .. HEAP_SIZE
      BY <1>0, <2>1 DEF Addrs
    <3>2. size' = [size EXCEPT ![b] = size[b] + size[np]]
      BY <1>0, <2>1 DEF KfreeLocked, TypeOK
    <3> QED BY <1>0, <3>1, <3>2 DEF TypeOK
  <2>2. CASE ~ Merges(b)
    BY <1>0, <2>2 DEF KfreeLocked, TypeOK
  <2> QED BY <2>1, <2>2
<1>2. magic' \in [Addrs -> {"FREE", "USED", "NONE"}]
  BY <1>0 DEF KfreeLocked, ReleaseMagic, TypeOK
<1>3. /\ Push(b).next \in [Addrs -> Maybe(Addrs)]
      /\ Push(b).prev \in [Addrs -> Maybe(Addrs)]
  BY <1>0 DEF Push, TypeOK, Maybe
<1>4. next' \in [Addrs -> Maybe(Addrs)] /\ prev' \in [Addrs -> Maybe(Addrs)]
  <2>1. CASE Merges(b)
    <3>1. next' = Unlink(Push(b), np).next /\ prev' = Unlink(Push(b), np).prev
      BY <2>1 DEF KfreeLocked
    <3>2. Push(b).prev[np] \in Maybe(Addrs) /\ Push(b).next[np] \in Maybe(Addrs)
      BY <1>0, <1>3, <2>1
    <3> QED BY <1>3, <3>1, <3>2 DEF Unlink
  <2>2. CASE ~ Merges(b)
    BY <1>3, <2>2 DEF KfreeLocked
  <2> QED BY <2>1, <2>2
<1>5. free_list' \in Maybe(Addrs) /\ heap_used' \in Int
  BY <1>0 DEF KfreeLocked, TypeOK, Maybe
<1>6. /\ pc' \in [Callers -> {"idle", "alloc", "scan", "copy", "free"}]
      /\ total_size' \in [Callers -> 0 .. MAX_ALLOC + 1]
      /\ ptr' \in [Callers -> Maybe(Addrs)]
      /\ Requests'
  BY <1>0 DEF KfreeLocked, Return, TypeOK, Requests, Maybe
<1>7. UNCHANGED <<heap_lock, block, prev_free, held>>
  BY DEF KfreeLocked, scan
<1> QED BY <1>0, <1>1, <1>2, <1>4, <1>5, <1>6, <1>7 DEF TypeOK

\* Splitting a block and marking it USED keeps the tiling.
LEMMA TakeTile ==
  ASSUME IInv, NEW c \in Callers, ScanTake(c)
  PROVE  BlocksTile'
<1> USE HeapAssumption
<1> DEFINE t == total_size[c]
<1>0. /\ TypeOK /\ BlocksTile /\ block \in Addrs /\ block \in Starts
      /\ t \in Nat /\ t >= 2 /\ size[block] \in Nat
      /\ Splits(block, t) => /\ block + t \in Addrs /\ magic[block + t] = "NONE"
                             /\ size[block] - t \in 2 .. HEAP_SIZE
  BY TakenBlock DEF IInv, FreeBlocks, Starts
<1>1. CASE ~ Splits(block, t)
  <2>1. size' = size /\ Starts' = Starts
    BY <1>0, <1>1 DEF ScanTake, TakeSize, TakeMagic, Starts, TypeOK
  <2> QED BY <1>0, <2>1 DEF BlocksTile
<1>2. CASE Splits(block, t)
  <2>1. Starts' = Starts \cup {block + t}
    BY <1>0, <1>2 DEF ScanTake, TakeMagic, Starts, TypeOK
  <2>2. \A a \in Starts' :
          size'[a] = IF a = block THEN t
                     ELSE IF a = block + t THEN size[block] - t ELSE size[a]
    BY <1>0, <1>2, <2>1 DEF ScanTake, TakeSize, Starts, TypeOK
  <2>3. block + t \notin Starts /\ block + t # block
    BY <1>0, <1>2 DEF Starts, Addrs
  <2>4. \A a \in Starts : a \in Int /\ size[a] \in Int
    BY <1>0 DEF Starts, TypeOK, Addrs
  <2>5. ASSUME NEW a \in Starts'
        PROVE  /\ size'[a] >= 2
               /\ a + size'[a] = HEAP_SIZE \/ a + size'[a] \in Starts'
    <3>1. CASE a = block
      BY <1>0, <2>1, <2>2, <3>1
    <3>2. CASE a = block + t
      <4>1. a + size'[a] = block + size[block]
        BY <1>0, <1>2, <2>2, <2>3, <2>4, <3>2
      <4> QED BY <1>0, <1>2, <2>1, <2>2, <2>3, <3>2, <4>1 DEF BlocksTile
    <3>3. CASE a # block /\ a # block + t
      BY <1>0, <2>1, <2>2, <3>3 DEF BlocksTile
    <3> QED BY <3>1, <3>2, <3>3
  <2>6. ASSUME NEW a \in Starts', NEW d \in Starts', a < d, d < a + size'[a]
        PROVE  FALSE
    <3>1. a \in Starts /\ d \in Starts => size'[a] <= size[a]
      BY <1>0, <1>2, <2>2, <2>3, <2>4
    <3>2. CASE a \in Starts /\ d \in Starts
      <4>1. a # block + t
        BY <2>3, <3>2
      <4>2. a \in Int /\ d \in Int /\ size[a] \in Int /\ size'[a] \in Int
        BY <1>0, <2>2, <2>4, <3>2, <4>1
      <4>3. d < a + size[a]
        BY <2>6, <3>1, <3>2, <4>2
      <4> QED BY <1>0, <2>6, <3>2, <4>3 DEF BlocksTile
    <3>3. CASE a = block + t
      <4>1. d \in Starts
        BY <2>1, <2>4, <2>6, <3>3, <1>0
      <4>2. block < d /\ d < block + size[block]
        BY <1>0, <1>2, <2>2, <2>3, <2>4, <2>6, <3>3, <4>1 DEF Addrs
      <4> QED BY <1>0, <4>1, <4>2 DEF BlocksTile
    <3>4. CASE d = block + t /\ a \in Starts
      <4>1. a # block
        BY <1>0, <2>2, <2>6, <3>4 DEF Addrs
      <4>2. size'[a] = size[a] /\ a \in Int /\ size[a] \in Int
        BY <2>2, <2>3, <2>4, <3>4, <4>1
      <4>3. a < block => FALSE
        BY <1>0, <2>6, <3>4, <4>2 DEF BlocksTile, Addrs
      <4>4. block < a => FALSE
        BY <1>0, <1>2, <2>6, <3>4, <4>2 DEF BlocksTile, Addrs, Splits
      <4> QED BY <1>0, <4>1, <4>2, <4>3, <4>4 DEF Addrs
    <3> QED BY <2>1, <3>2, <3>3, <3>4
  <2> QED BY <1>0, <2>1, <2>5, <2>6 DEF BlocksTile
<1> QED BY <1>1, <1>2

\* Merging a block with its neighbour keeps the tiling.
LEMMA ReleaseTile ==
  ASSUME IInv, NEW c \in Callers, KfreeLocked(c)
  PROVE  BlocksTile'
<1> USE HeapAssumption
<1> DEFINE b == ptr[c]
           np == b + size[b]
<1>0. /\ TypeOK /\ BlocksTile /\ b \in Addrs /\ size[b] \in Nat
      /\ b \in Starts /\ size[b] >= 2
      /\ Merges(b) => /\ np \in Starts /\ np # b /\ size[np] \in Nat
                      /\ size[np] >= 2
  BY FreedBlock DEF IInv, FreeBlocks, KfreeLocked, Starts
<1>1. CASE ~ Merges(b)
  <2>1. size' = size /\ Starts' = Starts
    BY <1>0, <1>1 DEF KfreeLocked, ReleaseMagic, Starts, TypeOK
  <2> QED BY <1>0, <2>1 DEF BlocksTile
<1>2. CASE Merges(b)
  <2>1. Starts' = Starts \ {np}
    BY <1>0, <1>2 DEF KfreeLocked, ReleaseMagic, Starts, TypeOK
  <2>2. \A a \in Starts' :
          size'[a] = IF a = b THEN size[b] + size[np] ELSE size[a]
    BY <1>0, <1>2, <2>1 DEF KfreeLocked, Starts, TypeOK
  <2>3. \A a \in Starts : a \in Int /\ size[a] \in Int
    BY <1>0 DEF Starts, TypeOK, Addrs
  <2>4. 0 \in Starts'
    BY <1>0, <1>2, <2>1 DEF BlocksTile, Addrs
  <2>5. \A a \in Starts, d \in Starts :
          /\ size[a] >= 2
          /\ a # d => a + size[a] <= d \/ d + size[d] <= a
    <3> SUFFICES ASSUME NEW a \in Starts, NEW d \in Starts
                 PROVE  /\ size[a] >= 2
                        /\ a # d => a + size[a] <= d \/ d + size[d] <= a
      OBVIOUS
    <3>1. /\ size[a] >= 2
          /\ ~(a < d /\ d < a + size[a]) /\ ~(d < a /\ a < d + size[d])
      BY <1>0 DEF BlocksTile
    <3>2. a \in Int /\ d \in Int /\ size[a] \in Int /\ size[d] \in Int
      BY <2>3
    <3> QED BY <3>1, <3>2
  <2>6. ASSUME NEW a \in Starts'
        PROVE  /\ size'[a] >= 2
               /\ a + size'[a] = HEAP_SIZE \/ a + size'[a] \in Starts'
    <3>1. CASE a = b
      <4>1. a + size'[a] = np + size[np]
        BY <1>0, <1>2, <2>2, <2>3, <3>1
      <4>2. np + size[np] # np
        BY <1>0, <1>2, <2>3
      <4> QED BY <1>0, <1>2, <2>1, <2>2, <3>1, <4>1, <4>2 DEF BlocksTile
    <3>2. CASE a # b
      <4>1. size'[a] = size[a] /\ a \in Starts
        BY <2>1, <2>2, <3>2
      <4>2. a + size[a] # np
        BY <1>0, <2>3, <2>5, <3>2, <4>1 DEF BlocksTile
      <4> QED BY <1>0, <2>1, <4>1, <4>2 DEF BlocksTile
    <3> QED BY <3>1, <3>2
  <2>7. ASSUME NEW a \in Starts', NEW d \in Starts', a < d, d < a + size'[a]
        PROVE  FALSE
    <3>1. a \in Starts /\ d \in Starts /\ d # np
      BY <2>1
    <3>2. CASE a = b
      <4>1. b + size[b] <= d
        BY <1>0, <2>3, <2>5, <2>7, <3>1, <3>2
      <4>2. np + size[np] <= d
        BY <1>0, <1>2, <2>3, <2>5, <3>1, <4>1
      <4> QED BY <1>0, <1>2, <2>2, <2>3, <2>7, <3>1, <3>2, <4>2
    <3>3. CASE a # b
      BY <1>0, <2>2, <2>7, <3>1, <3>3 DEF BlocksTile
    <3> QED BY <3>2, <3>3
  <2> QED BY <2>4, <2>6, <2>7 DEF BlocksTile
<1> QED BY <1>1, <1>2
-----------------------------------------------------------------------------
(* Doubly linked lists over a set F of nodes: the free list is one. *)

Linked(F, nx, pv, hd) ==
  /\ hd # NULL => hd \in F
  /\ \A a \in F :
       /\ nx[a] # NULL => nx[a] \in F /\ pv[nx[a]] = a
       /\ pv[a] # NULL => pv[a] \in F /\ nx[pv[a]] = a
       /\ pv[a] = NULL <=> a = hd

Closed(S, nx, hd) ==
  /\ hd # NULL => hd \in S
  /\ \A a \in S : nx[a] # NULL => nx[a] \in S

Reachable(F, nx, hd) == \A S \in SUBSET F : Closed(S, nx, hd) => S = F

\* The links nx2, pv2, hd2 are those of nx, pv, hd without x.
Removed(F, nx, pv, hd, x, nx2, pv2, hd2) ==
  /\ \A a \in F \ {x} : nx2[a] = IF a = pv[x] THEN nx[x] ELSE nx[a]
  /\ \A a \in F \ {x} : pv2[a] = IF a = nx[x] THEN pv[x] ELSE pv[a]
  /\ hd2 = IF pv[x] = NULL THEN nx[x] ELSE hd

\* The links nx2, pv2, hd2 are those of nx, pv, hd with y in the place of x.
Replaced(F, nx, pv, hd, x, y, nx2, pv2, hd2) ==
  /\ nx2[y] = nx[x] /\ pv2[y] = pv[x]
  /\ \A a \in F \ {x} : nx2[a] = IF a = pv[x] THEN y ELSE nx[a]
  /\ \A a \in F \ {x} : pv2[a] = IF a = nx[x] THEN y ELSE pv[a]
  /\ hd2 = IF pv[x] = NULL THEN y ELSE hd

\* Pushing a new node on the front of a list gives a list.
LEMMA PushFront ==
  ASSUME NEW F, NULL \notin F, NEW nx, NEW pv, NEW hd,
         Linked(F, nx, pv, hd), Reachable(F, nx, hd),
         NEW y, y \notin F, y # NULL,
         NEW nx2, NEW pv2,
         nx2[y] = hd, pv2[y] = NULL,
         \A a \in F : nx2[a] = nx[a],
         \A a \in F : pv2[a] = IF a = hd THEN y ELSE pv[a]
  PROVE  Linked(F \cup {y}, nx2, pv2, y) /\ Reachable(F \cup {y}, nx2, y)
<1>1. Linked(F \cup {y}, nx2, pv2, y)
  BY DEF Linked
<1>2. ASSUME NEW S \in SUBSET (F \cup {y}), Closed(S, nx2, y)
      PROVE  S = F \cup {y}
  <2>1. y \in S
    BY <1>2 DEF Closed
  <2>2. Closed(S \ {y}, nx, hd)
    BY <1>2, <2>1 DEF Closed, Linked
  <2>3. S \ {y} = F
    BY <2>2 DEF Reachable
  <2> QED BY <2>1, <2>3
<1> QED BY <1>1, <1>2 DEF Reachable

\* Taking a node out of a list gives a list.
LEMMA RemoveNode ==
  ASSUME NEW F, NULL \notin F, NEW nx, NEW pv, NEW hd,
         Linked(F, nx, pv, hd), Reachable(F, nx, hd),
         NEW x \in F,
         NEW nx2, NEW pv2, NEW hd2,
         Removed(F, nx, pv, hd, x, nx2, pv2, hd2)
  PROVE  Linked(F \ {x}, nx2, pv2, hd2) /\ Reachable(F \ {x}, nx2, hd2)
<1> USE DEF Removed
<1>0. nx[x] # x /\ pv[x] # x
  <2>1. ASSUME nx[x] = x PROVE FALSE
    <3>1. pv[x] = x /\ x # hd
      BY <2>1 DEF Linked
    <3>2. Closed(F \ {x}, nx, hd)
      BY <2>1, <3>1 DEF Closed, Linked
    <3> QED BY <3>2 DEF Reachable
  <2> QED BY <2>1 DEF Linked
<1>1. Linked(F \ {x}, nx2, pv2, hd2)
  <2>1. hd2 # NULL => hd2 \in F \ {x}
    BY <1>0 DEF Linked
  <2>2. ASSUME NEW a \in F \ {x}
        PROVE  /\ nx2[a] # NULL => nx2[a] \in F \ {x} /\ pv2[nx2[a]] = a
               /\ pv2[a] # NULL => pv2[a] \in F \ {x} /\ nx2[pv2[a]] = a
               /\ pv2[a] = NULL <=> a = hd2
    <3>1. nx2[a] # NULL => nx2[a] \in F \ {x} /\ pv2[nx2[a]] = a
      BY <1>0 DEF Linked
    <3>2. pv2[a] # NULL => pv2[a] \in F \ {x} /\ nx2[pv2[a]] = a
      BY <1>0 DEF Linked
    <3>3. pv2[a] = NULL <=> a = hd2
      BY <1>0 DEF Linked
    <3> QED BY <3>1, <3>2, <3>3
  <2> QED BY <2>1, <2>2 DEF Linked
<1>2. ASSUME NEW S \in SUBSET (F \ {x}), Closed(S, nx2, hd2)
      PROVE  S = F \ {x}
  <2>1. ASSUME pv[x] # NULL PROVE pv[x] \in S
    <3>1. SUFFICES ASSUME pv[x] \notin S PROVE FALSE
      OBVIOUS
    <3>2. Closed(S, nx, hd)
      BY <1>2, <2>1, <3>1 DEF Closed, Linked
    <3>3. S = F
      BY <3>2 DEF Reachable
    <3> QED BY <2>1, <3>1, <3>3 DEF Linked
  <2>2. nx[x] # NULL => nx[x] \in S
    BY <1>0, <1>2, <2>1 DEF Closed, Linked
  <2>3. Closed(S \cup {x}, nx, hd)
    BY <1>2, <2>2 DEF Closed, Linked
  <2>4. S \cup {x} = F
    BY <2>3 DEF Reachable
  <2> QED BY <2>4
<1> QED BY <1>1, <1>2 DEF Reachable

\* Putting a new node in the place of another gives a list.
LEMMA ReplaceNode ==
  ASSUME NEW F, NULL \notin F, NEW nx, NEW pv, NEW hd,
         Linked(F, nx, pv, hd), Reachable(F, nx, hd),
         NEW x \in F, NEW y, y \notin F, y # NULL,
         NEW nx2, NEW pv2, NEW hd2,
         Replaced(F, nx, pv, hd, x, y, nx2, pv2, hd2)
  PROVE  /\ Linked((F \ {x}) \cup {y}, nx2, pv2, hd2)
         /\ Reachable((F \ {x}) \cup {y}, nx2, hd2)
<1> DEFINE G == (F \ {x}) \cup {y}
<1> USE DEF Replaced
<1>0. nx[x] # x /\ pv[x] # x
  <2>1. ASSUME nx[x] = x PROVE FALSE
    <3>1. pv[x] = x /\ x # hd
      BY <2>1 DEF Linked
    <3>2. Closed(F \ {x}, nx, hd)
      BY <2>1, <3>1 DEF Closed, Linked
    <3> QED BY <3>2 DEF Reachable
  <2> QED BY <2>1 DEF Linked
<1>1. Linked(G, nx2, pv2, hd2)
  <2>1. hd2 # NULL => hd2 \in G
    BY <1>0 DEF Linked
  <2>2. ASSUME NEW a \in G
        PROVE  /\ nx2[a] # NULL => nx2[a] \in G /\ pv2[nx2[a]] = a
               /\ pv2[a] # NULL => pv2[a] \in G /\ nx2[pv2[a]] = a
               /\ pv2[a] = NULL <=> a = hd2
    <3>1. nx2[a] # NULL => nx2[a] \in G /\ pv2[nx2[a]] = a
      BY <1>0 DEF Linked
    <3>2. pv2[a] # NULL => pv2[a] \in G /\ nx2[pv2[a]] = a
      BY <1>0 DEF Linked
    <3>3. pv2[a] = NULL <=> a = hd2
      BY <1>0 DEF Linked
    <3> QED BY <3>1, <3>2, <3>3
  <2> QED BY <2>1, <2>2 DEF Linked
<1>2. ASSUME NEW S \in SUBSET G, Closed(S, nx2, hd2)
      PROVE  S = G
  <2>1. ASSUME pv[x] # NULL PROVE pv[x] \in S
    <3>1. SUFFICES ASSUME pv[x] \notin S PROVE FALSE
      OBVIOUS
    <3>2. Closed(S \ {y}, nx, hd)
      BY <1>2, <2>1, <3>1 DEF Closed, Linked
    <3>3. S \ {y} = F
      BY <3>2 DEF Reachable
    <3> QED BY <1>2, <3>3
  <2>2. y \in S
    BY <1>0, <1>2, <2>1 DEF Closed, Linked
  <2>3. nx[x] # NULL => nx[x] \in S
    BY <1>2, <2>2 DEF Closed
  <2>4. Closed((S \ {y}) \cup {x}, nx, hd)
    BY <1>2, <2>2, <2>3 DEF Closed, Linked
  <2>5. (S \ {y}) \cup {x} = F
    BY <2>4 DEF Reachable
  <2> QED BY <1>2, <2>2, <2>5
<1> QED BY <1>1, <1>2 DEF Reachable
\* The free list as a list over the FREE blocks.
LEMMA FreeListIsList ==
  /\ FreeLinks <=> Linked(FreeBlocks, next, prev, free_list)
  /\ FreeReachable <=> Reachable(FreeBlocks, next, free_list)
BY DEF FreeLinks, Linked, FreeReachable, Reachable, Closed

\* ScanTake removes the block from the list, or puts the remainder in its place.
LEMMA TakeList ==
  ASSUME IInv, NEW c \in Callers, ScanTake(c)
  PROVE  FreeLinks' /\ FreeReachable'
<1> USE HeapAssumption
<1> DEFINE t == total_size[c]
           nb == block + t
<1>0. /\ TypeOK /\ block \in FreeBlocks /\ block \in Addrs
      /\ prev[block] = prev_free
      /\ prev_free = NULL => free_list = block
      /\ Splits(block, t) => nb \in Addrs /\ magic[nb] = "NONE" /\ nb # block
  BY TakenBlock DEF IInv, FreeBlocks, Addrs
<1>1. /\ Linked(FreeBlocks, next, prev, free_list)
      /\ Reachable(FreeBlocks, next, free_list)
  BY FreeListIsList DEF IInv
<1>2. NULL \notin FreeBlocks /\ FreeBlocks \subseteq Addrs
  BY DEF FreeBlocks, Addrs
<1>3. free_list' = IF prev[block] = NULL THEN Succ(block, t) ELSE free_list
  BY <1>0 DEF ScanTake
<1>4. CASE ~ Splits(block, t)
  <2>1. FreeBlocks' = FreeBlocks \ {block}
    BY <1>0, <1>4 DEF ScanTake, TakeMagic, FreeBlocks, TypeOK
  <2>2. \A a \in FreeBlocks \ {block} :
          next'[a] = IF a = prev[block] THEN next[block] ELSE next[a]
    BY <1>0, <1>2, <1>4 DEF ScanTake, TakeNext, Succ
  <2>3. \A a \in FreeBlocks \ {block} :
          prev'[a] = IF a = next[block] THEN prev[block] ELSE prev[a]
    BY <1>0, <1>2, <1>4 DEF ScanTake, TakePrev, Succ
  <2>4. free_list' = IF prev[block] = NULL THEN next[block] ELSE free_list
    BY <1>3, <1>4 DEF Succ
  <2>5. /\ Linked(FreeBlocks \ {block}, next', prev', free_list')
        /\ Reachable(FreeBlocks \ {block}, next', free_list')
    <3>1. Removed(FreeBlocks, next, prev, free_list, block, next', prev', free_list')
      BY <2>2, <2>3, <2>4 DEF Removed
    <3> QED BY <1>0, <1>1, <1>2, <3>1, RemoveNode
  <2> QED BY <2>1, <2>5 DEF FreeLinks, Linked, FreeReachable, Reachable, Closed
<1>5. CASE Splits(block, t)
  <2>1. FreeBlocks' = (FreeBlocks \ {block}) \cup {nb}
    BY <1>0, <1>5 DEF ScanTake, TakeMagic, FreeBlocks, TypeOK
  <2>2. nb \notin FreeBlocks /\ nb # NULL
    BY <1>0, <1>5 DEF FreeBlocks, Addrs
  <2>3. next[block] # nb /\ prev[block] # nb
    BY <1>0, <1>1, <2>2 DEF Linked
  <2>4. next'[nb] = next[block] /\ prev'[nb] = prev[block]
    BY <1>0, <1>5, <2>3 DEF ScanTake, TakeNext, TakePrev, Succ
  <2>5. \A a \in FreeBlocks \ {block} :
          next'[a] = IF a = prev[block] THEN nb ELSE next[a]
    BY <1>0, <1>2, <1>5, <2>2 DEF ScanTake, TakeNext, Succ
  <2>6. \A a \in FreeBlocks \ {block} :
          prev'[a] = IF a = next[block] THEN nb ELSE prev[a]
    BY <1>0, <1>2, <1>5, <2>2 DEF ScanTake, TakePrev, Succ
  <2>7. free_list' = IF prev[block] = NULL THEN nb ELSE free_list
    BY <1>3, <1>5 DEF Succ
  <2>8. /\ Linked((FreeBlocks \ {block}) \cup {nb}, next', prev', free_list')
        /\ Reachable((FreeBlocks \ {block}) \cup {nb}, next', free_list')
    <3>1. Replaced(FreeBlocks, next, prev, free_list, block, nb, next', prev', free_list')
      BY <2>4, <2>5, <2>6, <2>7 DEF Replaced
    <3> HIDE DEF nb
    <3> QED BY <1>0, <1>1, <1>2, <2>2, <3>1, ReplaceNode
  <2> QED BY <2>1, <2>8 DEF FreeLinks, Linked, FreeReachable, Reachable, Closed
<1> QED BY <1>4, <1>5

\* KfreeLocked pushes the block and removes the one it merges with.
LEMMA ReleaseList ==
  ASSUME IInv, NEW c \in Callers, KfreeLocked(c)
  PROVE  FreeLinks' /\ FreeReachable'
<1> USE HeapAssumption
<1> DEFINE b == ptr[c]
           np == b + size[b]
           F == FreeBlocks \cup {b}
           nx == Push(b).next
           pv == Push(b).prev
<1>0. /\ TypeOK /\ b \in Addrs /\ magic[b] = "USED"
      /\ Merges(b) => np \in FreeBlocks /\ np # b
  BY FreedBlock DEF IInv, KfreeLocked
<1>1. /\ Linked(FreeBlocks, next, prev, free_list)
      /\ Reachable(FreeBlocks, next, free_list)
  BY FreeListIsList DEF IInv
<1>2. /\ NULL \notin FreeBlocks /\ FreeBlocks \subseteq Addrs
      /\ b \notin FreeBlocks /\ b # NULL /\ NULL \notin F
  BY <1>0 DEF FreeBlocks, Addrs
<1>3. Linked(F, nx, pv, b) /\ Reachable(F, nx, b)
  <2>1. nx[b] = free_list /\ pv[b] = NULL
    BY <1>0 DEF Push, TypeOK
  <2>2. \A a \in FreeBlocks : nx[a] = next[a]
    BY <1>0, <1>2 DEF Push, TypeOK
  <2>3. \A a \in FreeBlocks : pv[a] = IF a = free_list THEN b ELSE prev[a]
    BY <1>0, <1>2 DEF Push, TypeOK
  <2> HIDE DEF nx, pv
  <2> QED BY <1>1, <1>2, <2>1, <2>2, <2>3, PushFront
<1>4. CASE ~ Merges(b)
  <2>1. FreeBlocks' = F
    BY <1>0, <1>4 DEF KfreeLocked, ReleaseMagic, FreeBlocks, TypeOK
  <2>2. next' = nx /\ prev' = pv /\ free_list' = b
    BY <1>4 DEF KfreeLocked
  <2> QED BY <1>3, <2>1, <2>2 DEF FreeLinks, Linked, FreeReachable, Reachable, Closed
<1>5. CASE Merges(b)
  <2>1. FreeBlocks' = F \ {np}
    BY <1>0, <1>5 DEF KfreeLocked, ReleaseMagic, FreeBlocks, TypeOK
  <2>2. /\ next' = [a \in Addrs |-> IF a = pv[np] THEN nx[np] ELSE nx[a]]
        /\ prev' = [a \in Addrs |-> IF a = nx[np] THEN pv[np] ELSE pv[a]]
        /\ free_list' = b
    BY <1>5 DEF KfreeLocked, Unlink
  <2>3. F \subseteq Addrs /\ np \in F
    BY <1>0, <1>2, <1>5
  <2>4. pv[np] # NULL
    BY <1>0, <1>3, <1>5, <2>3 DEF Linked
  <2>5. \A a \in F \ {np} : next'[a] = IF a = pv[np] THEN nx[np] ELSE nx[a]
    <3> HIDE DEF nx, pv, F
    <3> QED BY <2>2, <2>3
  <2>6. \A a \in F \ {np} : prev'[a] = IF a = nx[np] THEN pv[np] ELSE pv[a]
    <3> HIDE DEF nx, pv, F
    <3> QED BY <2>2, <2>3
  <2>7. free_list' = IF pv[np] = NULL THEN nx[np] ELSE b
    BY <2>2, <2>4
  <2>8. /\ Linked(F \ {np}, next', prev', free_list')
        /\ Reachable(F \ {np}, next', free_list')
    <3> HIDE DEF nx, pv, F, np, b
    <3>1. Removed(F, nx, pv, b, np, next', prev', free_list')
      BY <2>5, <2>6, <2>7 DEF Removed
    <3> QED BY <1>2, <1>3, <2>3, <3>1, RemoveNode
  <2> QED BY <2>1, <2>8 DEF FreeLinks, Linked, FreeReachable, Reachable, Closed
<1> QED BY <1>4, <1>5

\* ScanTake makes exactly the block it returns USED.
LEMMA TakeUsed ==
  ASSUME IInv, NEW c \in Callers, ScanTake(c)
  PROVE  UsedIsHeld'
<1> USE HeapAssumption
<1> DEFINE t == total_size[c]
<1>0. /\ TypeOK /\ UsedIsHeld /\ block \in Addrs /\ magic[block] = "FREE"
      /\ Splits(block, t) => block + t \in Addrs /\ magic[block + t] = "NONE"
      /\ pc[c] = "scan"
  BY TakenBlock DEF IInv, FreeBlocks, ScanTake
<1>1. ptr' = ptr
  BY <1>0 DEF ScanTake, Return, TypeOK
<1>2. \A d \in Callers :
        /\ pc'[d] = "free" <=> pc[d] = "free"
        /\ d # c => pc'[d] = pc[d]
  BY <1>0 DEF ScanTake, Return, TypeOK
<1>3. pc'[c] = IF ptr[c] = NULL THEN "idle" ELSE "copy"
  BY <1>0 DEF ScanTake, Return, TypeOK
<1>4. Freeing' = Freeing
  BY <1>1, <1>2 DEF Freeing
<1>5. held' = held \cup {block} /\ block \notin held \cup Freeing
  BY <1>0 DEF ScanTake, UsedIsHeld
<1>6. \A a \in Addrs : magic'[a] = "USED" <=> magic[a] = "USED" \/ a = block
  BY <1>0 DEF ScanTake, TakeMagic, TypeOK
<1>7. \A a \in Addrs : magic'[a] = "USED" <=> a \in held' \cup Freeing'
  BY <1>0, <1>4, <1>5, <1>6 DEF UsedIsHeld
<1>8. held' \cap Freeing' = {}
  BY <1>0, <1>4, <1>5 DEF UsedIsHeld
<1>9. ASSUME NEW d \in Callers
      PROVE  /\ pc'[d] = "idle" => ptr'[d] = NULL
             /\ pc'[d] \in {"copy", "free"} => ptr'[d] # NULL
             /\ pc'[d] # "free" /\ ptr'[d] # NULL => ptr'[d] \in held'
             /\ \A e \in Callers : ptr'[d] = ptr'[e] => d = e \/ ptr'[d] = NULL
  BY <1>0, <1>1, <1>2, <1>3, <1>5 DEF UsedIsHeld
<1> QED BY <1>7, <1>8, <1>9 DEF UsedIsHeld

\* KfreeLocked makes exactly the block it was given not USED.
LEMMA ReleaseUsed ==
  ASSUME IInv, NEW c \in Callers, KfreeLocked(c)
  PROVE  UsedIsHeld'
<1> USE HeapAssumption
<1> DEFINE b == ptr[c]
           np == b + size[b]
<1>0. /\ TypeOK /\ UsedIsHeld /\ b \in Addrs /\ magic[b] = "USED"
      /\ Merges(b) => np \in Addrs /\ magic[np] = "FREE"
      /\ pc[c] = "free" /\ b # NULL
  BY FreedBlock DEF IInv, FreeBlocks, KfreeLocked, Addrs
<1>1. /\ held' = held /\ ptr' = [ptr EXCEPT ![c] = NULL]
      /\ pc' = [pc EXCEPT ![c] = "idle"]
  BY DEF KfreeLocked, Return
<1>2. Freeing' = Freeing \ {b}
  BY <1>0, <1>1 DEF Freeing, UsedIsHeld, TypeOK
<1>3. b \notin held
  BY <1>0 DEF UsedIsHeld, Freeing
<1>4. \A a \in Addrs : magic'[a] = "USED" <=> magic[a] = "USED" /\ a # b
  BY <1>0 DEF KfreeLocked, ReleaseMagic, TypeOK
<1>5. \A a \in Addrs : magic'[a] = "USED" <=> a \in held' \cup Freeing'
  BY <1>0, <1>1, <1>2, <1>3, <1>4 DEF UsedIsHeld
<1>6. held' \cap Freeing' = {}
  BY <1>0, <1>1, <1>2 DEF UsedIsHeld
<1>7. ASSUME NEW d \in Callers
      PROVE  /\ pc'[d] = "idle" => ptr'[d] = NULL
             /\ pc'[d] \in {"copy", "free"} => ptr'[d] # NULL
             /\ pc'[d] # "free" /\ ptr'[d] # NULL => ptr'[d] \in held'
             /\ \A e \in Callers : ptr'[d] = ptr'[e] => d = e \/ ptr'[d] = NULL
  BY <1>0, <1>1 DEF UsedIsHeld, TypeOK
<1> QED BY <1>5, <1>6, <1>7 DEF UsedIsHeld
-----------------------------------------------------------------------------
(* The inductive invariant. *)

\* The four actions that leave headers, list and scan alone.
Bookkeeping(c) ==
  \/ \E n \in 0 .. MAX_ALLOC : KmallocCall(c, n)
  \/ \E b \in Addrs, n \in 0 .. MAX_ALLOC : KreallocCall(c, b, n)
  \/ \E b \in Addrs : KfreeCall(c, b)
  \/ KreallocFree(c)

\* A call that starts, or goes on to kfree, changes only who owns what.
LEMMA BookkeepingStep ==
  ASSUME IInv, NEW c \in Callers, Bookkeeping(c)
  PROVE  IInv'
<1> USE HeapAssumption
<1>0. TypeOK /\ Requests /\ UsedIsHeld
  BY DEF IInv
<1>1. UNCHANGED <<size, magic, next, prev, free_list, heap_used, heap_lock, block, prev_free>>
  BY DEF Bookkeeping, KmallocCall, KreallocCall, KfreeCall, KreallocFree, list, headers, scan
<1>2. BlocksTile' /\ FreeLinks' /\ FreeReachable'
  BY <1>1 DEF IInv, BlocksTile, FreeLinks, FreeReachable, Starts, FreeBlocks
<1>3. ScanOnList'
  <2>1. \A d \in Callers : pc'[d] = "scan" <=> pc[d] = "scan"
    BY <1>0 DEF Bookkeeping, KmallocCall, KreallocCall, KfreeCall, KreallocFree, TypeOK
  <2> QED BY <1>1, <2>1 DEF IInv, ScanOnList, FreeBlocks
<1>4. /\ pc' \in [Callers -> {"idle", "alloc", "scan", "copy", "free"}]
      /\ total_size' \in [Callers -> 0 .. MAX_ALLOC + 1]
      /\ ptr' \in [Callers -> Maybe(Addrs)]
      /\ held' \subseteq Addrs /\ Requests'
  <2>1. CASE \E n \in 0 .. MAX_ALLOC : KmallocCall(c, n)
    BY <1>0, <2>1 DEF KmallocCall, TypeOK, Requests
  <2>2. CASE \E b \in Addrs, n \in 0 .. MAX_ALLOC : KreallocCall(c, b, n)
    <3>1. PICK b \in Addrs, n \in 0 .. MAX_ALLOC : KreallocCall(c, b, n)
      BY <2>2
    <3>2. size[b] \in Nat /\ size[b] >= 2
      BY <1>0, <3>1 DEF KreallocCall, UsedIsHeld, TypeOK, IInv, BlocksTile, Starts
    <3> QED BY <1>0, <3>1, <3>2 DEF KreallocCall, TypeOK, Requests, Maybe
  <2>3. CASE \E b \in Addrs : KfreeCall(c, b)
    BY <1>0, <2>3 DEF KfreeCall, TypeOK, Requests, Maybe
  <2>4. CASE KreallocFree(c)
    BY <1>0, <2>4 DEF KreallocFree, TypeOK, Requests
  <2> QED BY <2>1, <2>2, <2>3, <2>4 DEF Bookkeeping
<1>5. UsedIsHeld'
  <2>1. CASE \E n \in 0 .. MAX_ALLOC : KmallocCall(c, n)
    <3>1. Freeing' = Freeing
      BY <1>0, <2>1 DEF Freeing, KmallocCall, TypeOK
    <3> QED BY <1>0, <1>1, <2>1, <3>1 DEF KmallocCall, UsedIsHeld, TypeOK
  <2>2. CASE \E b \in Addrs, n \in 0 .. MAX_ALLOC : KreallocCall(c, b, n)
    <3>1. Freeing' = Freeing
      BY <1>0, <2>2 DEF Freeing, KreallocCall, TypeOK
    <3> QED BY <1>0, <1>1, <2>2, <3>1 DEF KreallocCall, UsedIsHeld, TypeOK, Available
  <2>3. CASE \E b \in Addrs : KfreeCall(c, b)
    <3>1. PICK b \in Addrs : KfreeCall(c, b)
      BY <2>3
    <3>2. Freeing' = Freeing \cup {b}
      BY <1>0, <3>1 DEF Freeing, KfreeCall, TypeOK
    <3>3. b # NULL
      BY DEF Addrs
    <3> QED BY <1>0, <1>1, <3>1, <3>2, <3>3 DEF KfreeCall, UsedIsHeld, TypeOK, Available
  <2>4. CASE KreallocFree(c)
    <3>1. Freeing' = Freeing \cup {ptr[c]}
      BY <1>0, <2>4 DEF Freeing, KreallocFree, TypeOK
    <3>2. ptr[c] \in held
      BY <1>0, <2>4 DEF KreallocFree, UsedIsHeld
    <3> QED BY <1>0, <1>1, <2>4, <3>1, <3>2 DEF KreallocFree, UsedIsHeld, TypeOK
  <2> QED BY <2>1, <2>2, <2>3, <2>4 DEF Bookkeeping
<1>6. TypeOK'
  BY <1>0, <1>1, <1>4 DEF TypeOK
<1> QED BY <1>2, <1>3, <1>4, <1>5, <1>6 DEF IInv

\* Taking the lock and moving along the list keep the scan on the list.
LEMMA ScanStep ==
  ASSUME IInv, NEW c \in Callers, KmallocLock(c) \/ ScanNext(c) \/ ScanFail(c)
  PROVE  IInv'
<1> USE HeapAssumption
<1>0. TypeOK /\ Requests /\ UsedIsHeld /\ ScanOnList
  BY DEF IInv
<1>1. UNCHANGED <<size, magic, next, prev, free_list, heap_used, held>>
  BY DEF KmallocLock, ScanNext, ScanFail, list, headers
<1>2. BlocksTile' /\ FreeLinks' /\ FreeReachable'
  BY <1>1 DEF IInv, BlocksTile, FreeLinks, FreeReachable, Starts, FreeBlocks
<1>3. /\ pc' \in [Callers -> {"idle", "alloc", "scan", "copy", "free"}]
      /\ total_size' \in [Callers -> 0 .. MAX_ALLOC + 1]
      /\ ptr' \in [Callers -> Maybe(Addrs)]
      /\ heap_lock' \in Maybe(Callers)
      /\ block' \in Maybe(Addrs) /\ prev_free' \in Maybe(Addrs)
      /\ Requests'
  BY <1>0 DEF KmallocLock, ScanNext, ScanFail, Return, call, TypeOK, Requests, Maybe
<1>4. UsedIsHeld'
  <2>1. CASE KmallocLock(c)
    <3>1. Freeing' = Freeing
      BY <1>0, <2>1 DEF Freeing, KmallocLock, TypeOK
    <3> QED BY <1>0, <1>1, <2>1, <3>1 DEF KmallocLock, UsedIsHeld, TypeOK
  <2>2. CASE ScanNext(c)
    BY <1>0, <1>1, <2>2 DEF ScanNext, call, UsedIsHeld, Freeing
  <2>3. CASE ScanFail(c)
    <3>1. Freeing' = Freeing
      BY <1>0, <2>3 DEF Freeing, ScanFail, Return, TypeOK
    <3> QED BY <1>0, <1>1, <2>3, <3>1 DEF ScanFail, Return, UsedIsHeld, TypeOK
  <2> QED BY <2>1, <2>2, <2>3
<1>5. ScanOnList'
  <2>1. CASE KmallocLock(c)
    BY <1>0, <1>1, <2>1 DEF KmallocLock, ScanOnList, TypeOK
  <2>2. CASE ScanNext(c)
    BY <1>0, <1>1, <2>2 DEF ScanNext, call, ScanOnList, FreeBlocks, TypeOK, Maybe
  <2>3. CASE ScanFail(c)
    BY <1>0, <1>1, <2>3 DEF ScanFail, Return, ScanOnList, TypeOK
  <2> QED BY <2>1, <2>2, <2>3
<1>6. TypeOK'
  BY <1>0, <1>1, <1>3 DEF TypeOK
<1> QED BY <1>2, <1>3, <1>4, <1>5, <1>6 DEF IInv

\* The changes of the list happen with nobody else scanning it.
LEMMA ListStep ==
  ASSUME IInv, NEW c \in Callers, ScanTake(c) \/ KfreeLocked(c)
  PROVE  ScanOnList'
<1> USE HeapAssumption
<1>0. TypeOK /\ ScanOnList
  BY DEF IInv
<1>1. CASE ScanTake(c)
  <2>1. \A d \in Callers : pc'[d] # "scan"
    BY <1>0, <1>1 DEF ScanTake, Return, ScanOnList, TypeOK
  <2>2. heap_lock' = NULL
    BY <1>1 DEF ScanTake
  <2> QED BY <2>1, <2>2 DEF ScanOnList
<1>2. CASE KfreeLocked(c)
  <2>1. \A d \in Callers : pc'[d] # "scan"
    BY <1>0, <1>2 DEF KfreeLocked, Return, ScanOnList, TypeOK
  <2>2. heap_lock' = NULL
    BY <1>2 DEF KfreeLocked, scan
  <2> QED BY <2>1, <2>2 DEF ScanOnList
<1> QED BY <1>1, <1>2

\* IInv holds initially.
LEMMA InitIInv == Init => IInv
<1> SUFFICES ASSUME Init PROVE IInv
  OBVIOUS
<1> USE HeapAssumption
<1>1. TypeOK /\ Requests
  BY DEF Init, TypeOK, Requests, Addrs, Maybe
<1>2. Starts = {0} /\ FreeBlocks = {0} /\ 0 \in Addrs
  BY DEF Init, Starts, FreeBlocks, Addrs
<1>3. BlocksTile
  BY <1>2 DEF Init, BlocksTile
<1>4. UsedIsHeld /\ ScanOnList
  BY DEF Init, UsedIsHeld, ScanOnList, Freeing
<1>5. free_list = 0 /\ next[0] = NULL /\ prev[0] = NULL /\ 0 # NULL
  BY <1>2 DEF Init
<1>6. FreeLinks
  BY <1>2, <1>5 DEF FreeLinks
<1>7. FreeReachable
  BY <1>2, <1>5 DEF FreeReachable
<1> QED BY <1>1, <1>3, <1>4, <1>6, <1>7 DEF IInv

\* Every step keeps IInv.
LEMMA NextIInv == IInv /\ [Next]_vars => IInv'
<1> SUFFICES ASSUME IInv, [Next]_vars PROVE IInv'
  OBVIOUS
<1>1. CASE Next
  <2>1. PICK c \in Callers :
          \/ Bookkeeping(c)
          \/ KmallocLock(c) \/ ScanNext(c) \/ ScanFail(c)
          \/ ScanTake(c) \/ KfreeLocked(c)
    BY <1>1 DEF Next, Bookkeeping
  <2>2. CASE Bookkeeping(c)
    BY <2>2, BookkeepingStep
  <2>3. CASE KmallocLock(c) \/ ScanNext(c) \/ ScanFail(c)
    BY <2>3, ScanStep
  <2>4. CASE ScanTake(c)
    BY <2>4, TakeType, TakeTile, TakeList, TakeUsed, ListStep DEF IInv
  <2>5. CASE KfreeLocked(c)
    BY <2>5, ReleaseType, ReleaseTile, ReleaseList, ReleaseUsed, ListStep DEF IInv
  <2> QED BY <2>1, <2>2, <2>3, <2>4, <2>5
<1>2. CASE UNCHANGED vars
  BY <1>2 DEF vars, list, headers, scan, call, IInv, TypeOK, Requests, BlocksTile, UsedIsHeld,
    FreeLinks, FreeReachable, ScanOnList, Starts, FreeBlocks, Freeing
<1> QED BY <1>1, <1>2

\* IInv is an invariant of the heap.
THEOREM Invariance == Spec => []IInv
<1>1. Init => IInv
  BY InitIInv
<1>2. IInv /\ [Next]_vars => IInv'
  BY NextIInv
<1> QED BY <1>1, <1>2, PTL DEF Spec

\* Headers, list pointers and locals of kmalloc, kfree and krealloc keep their types.
THEOREM TypeCorrect == Spec => []TypeOK
BY Invariance, PTL DEF IInv

\* Splits and merges always leave the heap tiled by blocks of at least two units.
THEOREM Tiling == Spec => []BlocksTile
BY Invariance, PTL DEF IInv

\* A block is USED exactly while it is owned or being freed by one call.
THEOREM Ownership == Spec => []UsedIsHeld
BY Invariance, PTL DEF IInv

\* The links kmalloc and kfree rewrite always undo each other over FREE blocks.
THEOREM FreeListLinked == Spec => []FreeLinks
BY Invariance, PTL DEF IInv

\* No FREE block is ever lost from the free list.
THEOREM NoFreeBlockLost == Spec => []FreeReachable
BY Invariance, PTL DEF IInv

\* The scan of the lock holder stays on the list while others wait.
THEOREM ScanSafe == Spec => []ScanOnList
BY Invariance, PTL DEF IInv

\* The heap is always a row of well-formed blocks, each free or somebody's.
THEOREM LayoutSafe == Spec => []LayoutExact
BY TypeCorrect, Tiling, Ownership, PTL DEF LayoutExact

\* The free list is always a doubly linked list of exactly the FREE blocks, and
\* the scan of kmalloc is on it.
THEOREM FreeListSafe == Spec => []FreeListExact
BY FreeListLinked, NoFreeBlockLost, ScanSafe, PTL DEF FreeListExact
-----------------------------------------------------------------------------
(* Sums over finite sets. *)

\* Induction over the subsets of a finite set: a family that contains a set
\* whenever it contains what is left without any one element has them all.
LEMMA SubsetInduction ==
  ASSUME NEW S, IsFiniteSet(S), NEW Good,
         \A T \in SUBSET S : (\A x \in T : T \ {x} \in Good) => T \in Good
  PROVE  \A T \in SUBSET S : T \in Good
<1> DEFINE R == StrictSubsetOrdering(S)
           Bad == {T \in SUBSET S : T \notin Good}
<1>1. IsWellFoundedOn(R, FiniteSubsetsOf(S))
  BY FS_StrictSubsetOrderingWellFounded
<1>2. Bad \subseteq FiniteSubsetsOf(S)
  BY FS_Subset DEF FiniteSubsetsOf
<1>3. SUFFICES ASSUME Bad # {} PROVE FALSE
  OBVIOUS
<1>4. \A T, U \in SUBSET S : (<<U, T>> \in R) <=> (U \subseteq T /\ U # T)
  BY DEF StrictSubsetOrdering
<1>5. Bad \subseteq SUBSET S
  OBVIOUS
<1>6. \E T \in Bad : \A U \in Bad : ~ (<<U, T>> \in R)
  <2> HIDE DEF R, Bad
  <2> QED BY <1>1, <1>2, <1>3, WFMin
<1>7. PICK T \in Bad : \A U \in Bad : ~ (<<U, T>> \in R)
  BY <1>6
<1> HIDE DEF R
<1>8. T \in SUBSET S /\ T \notin Good
  OBVIOUS
<1>9. ASSUME NEW x \in T PROVE T \ {x} \in Good
  <2>1. T \ {x} \in SUBSET S /\ <<T \ {x}, T>> \in R
    BY <1>4, <1>8
  <2> QED BY <1>7, <2>1
<1> QED BY <1>8, <1>9

\* The sum of z[a] over the elements a of S, and the function from the subsets
\* of S that the library defines it by.
TotalOf(z, S) == MapThenSumSet(LAMBDA a : z[a], S)

Chosen(s) == CHOOSE x \in s : TRUE

AddUp(z, g, s) == IF s = {} THEN 0 ELSE z[Chosen(s)] + g[s \ {Chosen(s)}]

IsTotal(z, S, g) == g = [s \in SUBSET S |-> AddUp(z, g, s)]

LEMMA TotalChoice ==
  ASSUME NEW z, NEW S
  PROVE  TotalOf(z, S) = (CHOOSE g : IsTotal(z, S, g))[S]
BY DEF TotalOf, IsTotal, AddUp, Chosen, MapThenSumSet, MapThenFoldSet

LEMMA ChosenIn ==
  ASSUME NEW s, s # {}
  PROVE  Chosen(s) \in s
BY DEF Chosen

\* Two such functions agree where both are defined.
LEMMA TotalUnique ==
  ASSUME NEW z, NEW S, IsFiniteSet(S), NEW A, NEW B, S \subseteq A, S \subseteq B,
         NEW g, IsTotal(z, A, g), NEW h, IsTotal(z, B, h)
  PROVE  g[S] = h[S]
<1> DEFINE Good == {T \in SUBSET S : g[T] = h[T]}
<1>1. ASSUME NEW T \in SUBSET S, \A x \in T : T \ {x} \in Good
      PROVE  T \in Good
  <2>1. g[T] = AddUp(z, g, T) /\ h[T] = AddUp(z, h, T)
    BY DEF IsTotal
  <2>2. CASE T = {}
    BY <2>1, <2>2 DEF AddUp
  <2>3. CASE T # {}
    <3>1. g[T \ {Chosen(T)}] = h[T \ {Chosen(T)}]
      BY <1>1, <2>3, ChosenIn
    <3> QED BY <2>1, <2>3, <3>1 DEF AddUp
  <2> QED BY <2>2, <2>3
<1> HIDE DEF Good
<1>2. \A T \in SUBSET S : T \in Good
  BY <1>1, SubsetInduction
<1> QED BY <1>2 DEF Good

LEMMA TotalRestrict ==
  ASSUME NEW z, NEW A, NEW S \in SUBSET A, NEW g, IsTotal(z, A, g)
  PROVE  \E h : IsTotal(z, S, h)
<1> DEFINE h == [s \in SUBSET S |-> g[s]]
<1>1. ASSUME NEW s \in SUBSET S PROVE h[s] = AddUp(z, h, s)
  <2>1. g[s] = AddUp(z, g, s)
    BY DEF IsTotal
  <2>2. CASE s = {}
    BY <2>1, <2>2 DEF AddUp
  <2>3. CASE s # {}
    <3>1. s \ {Chosen(s)} \in SUBSET S
      OBVIOUS
    <3>2. h[s \ {Chosen(s)}] = g[s \ {Chosen(s)}]
      BY <3>1
    <3> QED BY <2>1, <2>3, <3>2 DEF AddUp
  <2> QED BY <2>2, <2>3
<1>2. IsTotal(z, S, h)
  BY <1>1 DEF IsTotal
<1> QED BY <1>2

\* There is such a function for every finite set.
LEMMA TotalExists ==
  ASSUME NEW z, NEW S, IsFiniteSet(S)
  PROVE  \E g : IsTotal(z, S, g)
<1> DEFINE Good == {T \in SUBSET S : \E g : IsTotal(z, T, g)}
<1>1. ASSUME NEW T \in SUBSET S, \A x \in T : T \ {x} \in Good
      PROVE  T \in Good
  <2> DEFINE G(s) == CHOOSE g : IsTotal(z, s, g)
             h == [s \in SUBSET T |->
                     IF s = T THEN AddUp(z, [u \in SUBSET T |-> G(u)[u]], T)
                     ELSE G(s)[s]]
  <2>1. ASSUME NEW s \in SUBSET T, s # T
        PROVE  IsTotal(z, s, G(s))
    <3>1. PICK x \in T : x \notin s
      BY <2>1
    <3>2. PICK g : IsTotal(z, T \ {x}, g)
      BY <1>1
    <3>3. s \in SUBSET (T \ {x})
      BY <3>1
    <3>4. \E f : IsTotal(z, s, f)
      BY <3>2, <3>3, TotalRestrict
    <3> QED BY <3>4
  <2>2. ASSUME NEW s \in SUBSET T, NEW u \in SUBSET s, s # T, u # T
        PROVE  G(s)[u] = G(u)[u]
    <3>1. IsFiniteSet(u)
      BY FS_Subset
    <3>2. IsTotal(z, s, G(s)) /\ IsTotal(z, u, G(u))
      BY <2>1, <2>2
    <3> HIDE DEF G
    <3>3. PICK a, b : a = G(s) /\ b = G(u)
      OBVIOUS
    <3>4. IsTotal(z, s, a) /\ IsTotal(z, u, b) /\ u \subseteq s /\ u \subseteq u
      BY <3>2, <3>3
    <3>5. a[u] = b[u]
      BY <3>1, <3>4, TotalUnique
    <3> QED BY <3>3, <3>5
  <2>3. ASSUME NEW s \in SUBSET T PROVE h[s] = AddUp(z, h, s)
    <3>1. CASE s = {}
      <4>1. AddUp(z, h, s) = 0
        BY <3>1 DEF AddUp
      <4>2. CASE s = T
        BY <3>1, <4>2 DEF AddUp
      <4>3. CASE s # T
        <5>1. G(s)[s] = AddUp(z, G(s), s)
          BY <2>1, <4>3 DEF IsTotal
        <5> QED BY <3>1, <4>1, <4>3, <5>1 DEF AddUp
      <4> QED BY <4>2, <4>3
    <3>2. CASE s # {}
      <4> DEFINE r == s \ {Chosen(s)}
      <4>1. r \in SUBSET s /\ r \in SUBSET T /\ r # T /\ r # s
        BY <3>2, ChosenIn
      <4>2. h[r] = G(r)[r]
        BY <4>1
      <4>3. CASE s = T
        <5>1. h[s] = z[Chosen(s)] + G(r)[r]
          BY <3>2, <4>1, <4>3 DEF AddUp
        <5> QED BY <3>2, <4>2, <5>1 DEF AddUp
      <4>4. CASE s # T
        <5>1. G(s)[s] = AddUp(z, G(s), s)
          BY <2>1, <4>4 DEF IsTotal
        <5>2. G(s)[r] = G(r)[r]
          BY <2>2, <4>1, <4>4
        <5> HIDE DEF G
        <5>3. AddUp(z, G(s), s) = z[Chosen(s)] + G(s)[r]
          BY <3>2 DEF AddUp
        <5>4. AddUp(z, h, s) = z[Chosen(s)] + h[r]
          BY <3>2 DEF AddUp
        <5>5. h[s] = G(s)[s]
          BY <4>4
        <5> QED BY <4>2, <5>1, <5>2, <5>3, <5>4, <5>5
      <4> QED BY <4>3, <4>4
    <3> QED BY <3>1, <3>2
  <2>4. IsTotal(z, T, h)
    <3>1. h = [s \in SUBSET T |-> h[s]]
      OBVIOUS
    <3> HIDE DEF h
    <3> QED BY <2>3, <3>1 DEF IsTotal
  <2> QED BY <2>4
<1> HIDE DEF Good
<1>2. \A T \in SUBSET S : T \in Good
  BY <1>1, SubsetInduction
<1> QED BY <1>2 DEF Good

\* The sum of z[a] over S, one element at a time.
LEMMA TotalStep ==
  ASSUME NEW z, NEW S, IsFiniteSet(S)
  PROVE  /\ S = {} => TotalOf(z, S) = 0
         /\ S # {} => TotalOf(z, S) = z[Chosen(S)] + TotalOf(z, S \ {Chosen(S)})
<1> DEFINE G(s) == CHOOSE g : IsTotal(z, s, g)
<1>1. IsTotal(z, S, G(S))
  BY TotalExists
<1>2. TotalOf(z, S) = G(S)[S]
  BY TotalChoice
<1>3. G(S)[S] = AddUp(z, G(S), S)
  BY <1>1 DEF IsTotal
<1>4. ASSUME S # {} PROVE TotalOf(z, S) = z[Chosen(S)] + TotalOf(z, S \ {Chosen(S)})
  <2>0. PICK r : r = S \ {Chosen(S)}
    OBVIOUS
  <2>1. IsFiniteSet(r) /\ r \subseteq S /\ r \subseteq r
    BY <2>0, FS_Subset
  <2>2. IsTotal(z, r, G(r))
    BY <2>1, TotalExists
  <2>3. TotalOf(z, r) = G(r)[r]
    BY TotalChoice
  <2> HIDE DEF G
  <2>4. PICK a, b : a = G(S) /\ b = G(r)
    OBVIOUS
  <2>5. IsTotal(z, S, a) /\ IsTotal(z, r, b)
    BY <1>1, <2>2, <2>4
  <2>6. a[r] = b[r]
    BY <2>1, <2>5, TotalUnique
  <2>7. G(S)[r] = TotalOf(z, r)
    BY <2>3, <2>4, <2>6
  <2> QED BY <1>2, <1>3, <1>4, <2>0, <2>7 DEF AddUp
<1>5. S = {} => TotalOf(z, S) = 0
  BY <1>2, <1>3 DEF AddUp
<1> QED BY <1>4, <1>5

\* A sum of integers is an integer.
LEMMA TotalInt ==
  ASSUME NEW z, NEW S, IsFiniteSet(S), \A a \in S : z[a] \in Int
  PROVE  TotalOf(z, S) \in Int
<1> DEFINE Good == {T \in SUBSET S : TotalOf(z, T) \in Int}
<1>1. ASSUME NEW T \in SUBSET S, \A x \in T : T \ {x} \in Good
      PROVE  T \in Good
  <2>1. IsFiniteSet(T)
    BY FS_Subset
  <2>2. T # {} => z[Chosen(T)] \in Int /\ TotalOf(z, T \ {Chosen(T)}) \in Int
    BY <1>1, ChosenIn
  <2>3. /\ T = {} => TotalOf(z, T) = 0
        /\ T # {} => TotalOf(z, T) = z[Chosen(T)] + TotalOf(z, T \ {Chosen(T)})
    BY <2>1, TotalStep
  <2> HIDE DEF TotalOf
  <2>4. TotalOf(z, T) \in Int
    BY <2>2, <2>3
  <2> QED BY <2>4
<1> HIDE DEF Good
<1>2. \A T \in SUBSET S : T \in Good
  BY <1>1, SubsetInduction
<1> QED BY <1>2 DEF Good

\* Functions that agree on a set have the same sum over it.
LEMMA TotalSame ==
  ASSUME NEW z, NEW y, NEW S, IsFiniteSet(S), \A a \in S : z[a] = y[a]
  PROVE  TotalOf(z, S) = TotalOf(y, S)
<1> DEFINE Good == {T \in SUBSET S : TotalOf(z, T) = TotalOf(y, T)}
<1>1. ASSUME NEW T \in SUBSET S, \A x \in T : T \ {x} \in Good
      PROVE  T \in Good
  <2>1. IsFiniteSet(T)
    BY FS_Subset
  <2>2. T # {} => /\ z[Chosen(T)] = y[Chosen(T)]
                  /\ TotalOf(z, T \ {Chosen(T)}) = TotalOf(y, T \ {Chosen(T)})
    BY <1>1, ChosenIn
  <2>3. /\ T = {} => TotalOf(z, T) = 0
        /\ T # {} => TotalOf(z, T) = z[Chosen(T)] + TotalOf(z, T \ {Chosen(T)})
    BY <2>1, TotalStep
  <2>4. /\ T = {} => TotalOf(y, T) = 0
        /\ T # {} => TotalOf(y, T) = y[Chosen(T)] + TotalOf(y, T \ {Chosen(T)})
    BY <2>1, TotalStep
  <2>5. TotalOf(z, T) = TotalOf(y, T)
    BY <2>2, <2>3, <2>4
  <2> QED BY <2>5
<1> HIDE DEF Good
<1>2. \A T \in SUBSET S : T \in Good
  BY <1>1, SubsetInduction
<1> QED BY <1>2 DEF Good

\* Which element is taken out first does not matter.
LEMMA TotalTake ==
  ASSUME NEW z, NEW S, IsFiniteSet(S), \A a \in S : z[a] \in Int, NEW y \in S
  PROVE  TotalOf(z, S) = z[y] + TotalOf(z, S \ {y})
<1> DEFINE Good == {T \in SUBSET S :
                      \A x \in T : TotalOf(z, T) = z[x] + TotalOf(z, T \ {x})}
<1>1. ASSUME NEW T \in SUBSET S, \A x \in T : T \ {x} \in Good
      PROVE  T \in Good
  <2> SUFFICES ASSUME NEW x \in T PROVE TotalOf(z, T) = z[x] + TotalOf(z, T \ {x})
    OBVIOUS
  <2>1. PICK f : f = Chosen(T)
    OBVIOUS
  <2>2. f \in T /\ IsFiniteSet(T)
    BY <2>1, ChosenIn, FS_Subset
  <2>3. TotalOf(z, T) = z[f] + TotalOf(z, T \ {f})
    BY <2>1, <2>2, TotalStep
  <2>4. CASE x = f
    BY <2>3, <2>4
  <2>5. CASE x # f
    <3>1. x \in T \ {f} /\ f \in T \ {x} /\ T \ {f} \in Good /\ T \ {x} \in Good
      BY <1>1, <2>2, <2>5
    <3>2. TotalOf(z, T \ {f}) = z[x] + TotalOf(z, (T \ {f}) \ {x})
      BY <3>1
    <3>3. TotalOf(z, T \ {x}) = z[f] + TotalOf(z, (T \ {x}) \ {f})
      BY <3>1
    <3>4. PICK r : r = (T \ {f}) \ {x} /\ r = (T \ {x}) \ {f}
      OBVIOUS
    <3>5. IsFiniteSet(r) /\ \A a \in r : z[a] \in Int
      BY <3>4, FS_Subset
    <3>6. TotalOf(z, r) \in Int
      BY <3>5, TotalInt
    <3>7. z[f] \in Int /\ z[x] \in Int
      BY <2>2
    <3>8. z[f] + (z[x] + TotalOf(z, r)) = z[x] + (z[f] + TotalOf(z, r))
      <4> HIDE DEF TotalOf
      <4> QED BY <3>6, <3>7
    <3>9. /\ TotalOf(z, T \ {f}) = z[x] + TotalOf(z, r)
          /\ TotalOf(z, T \ {x}) = z[f] + TotalOf(z, r)
      BY <3>2, <3>3, <3>4
    <3> QED BY <2>3, <3>8, <3>9, Zenon
  <2> QED BY <2>4, <2>5
<1> HIDE DEF Good
<1>2. \A T \in SUBSET S : T \in Good
  BY <1>1, SubsetInduction
<1>3. S \in Good
  BY <1>2
<1> QED BY <1>3 DEF Good

-----------------------------------------------------------------------------
(* The accounting of kmalloc and kfree. *)

LEMMA UsedSum == HeapUsedExact <=> heap_used = TotalOf(size, UsedBlocks)
BY DEF HeapUsedExact, TotalOf

LEMMA UsedSumNext == HeapUsedExact' <=> heap_used' = TotalOf(size', UsedBlocks')
BY DEF HeapUsedExact, TotalOf, MapThenSumSet, MapThenFoldSet

\* The USED blocks are finitely many and have sizes.
LEMMA UsedFinite ==
  TypeOK => IsFiniteSet(UsedBlocks) /\ \A a \in UsedBlocks : size[a] \in Int
<1> SUFFICES ASSUME TypeOK
             PROVE  IsFiniteSet(UsedBlocks) /\ \A a \in UsedBlocks : size[a] \in Int
  OBVIOUS
<1>1. 0 \in Int /\ HEAP_SIZE - 1 \in Int
  BY HeapAssumption
<1>2. IsFiniteSet(Addrs)
  BY <1>1, FS_Interval DEF Addrs
<1>3. IsFiniteSet(UsedBlocks)
  <2>1. UsedBlocks \in SUBSET Addrs
    BY DEF UsedBlocks
  <2> QED BY <1>2, <2>1, FS_Subset
<1> QED BY <1>3, HeapAssumption DEF TypeOK, UsedBlocks

\* Steps that leave sizes, magics and heap_used alone leave the sum alone.
LEMMA SumKept ==
  ASSUME HeapUsedExact, UNCHANGED <<size, magic, heap_used>>
  PROVE  HeapUsedExact'
<1>1. UsedBlocks' = UsedBlocks
  BY DEF UsedBlocks
<1>2. TotalOf(size', UsedBlocks') = TotalOf(size, UsedBlocks)
  BY <1>1
<1> QED BY <1>2, UsedSum, UsedSumNext

\* A successful kmalloc adds the block it takes, at its size after the split.
LEMMA TakeSum ==
  ASSUME IInv, HeapUsedExact, NEW c \in Callers, ScanTake(c)
  PROVE  HeapUsedExact'
<1> USE HeapAssumption
<1>0. PICK b, t : b = block /\ t = total_size[c]
  OBVIOUS
<1>1. /\ b \in Addrs /\ magic[b] = "FREE" /\ t \in Nat /\ t >= 2
      /\ Splits(b, t) => b + t \in Addrs /\ magic[b + t] = "NONE"
  BY <1>0, TakenBlock DEF FreeBlocks
<1>2. /\ size' = TakeSize(b, t) /\ magic' = TakeMagic(b, t)
      /\ heap_used' = heap_used + size'[b]
  BY <1>0 DEF ScanTake, Charged
<1>3. UsedBlocks' = UsedBlocks \cup {b} /\ b \notin UsedBlocks
  BY <1>1, <1>2 DEF TakeMagic, UsedBlocks, IInv, TypeOK
<1>4. \A a \in UsedBlocks : size[a] = size'[a]
  BY <1>1, <1>2 DEF TakeSize, UsedBlocks, IInv, TypeOK
<1>5. IsFiniteSet(UsedBlocks) /\ \A a \in UsedBlocks : size[a] \in Int
  BY UsedFinite DEF IInv
<1>6. TypeOK'
  BY TakeType
<1>7. IsFiniteSet(UsedBlocks') /\ \A a \in UsedBlocks' : size'[a] \in Int
  <2>1. (TypeOK => IsFiniteSet(UsedBlocks) /\ \A a \in UsedBlocks : size[a] \in Int)'
    BY UsedFinite, PTL
  <2> QED BY <1>6, <2>1
<1>8. PICK z, y, U, V : z = size /\ y = size' /\ U = UsedBlocks /\ V = UsedBlocks'
  OBVIOUS
<1>9. TotalOf(z, U) = TotalOf(y, U)
  BY <1>4, <1>5, <1>8, TotalSame
<1>10. TotalOf(y, V) = y[b] + TotalOf(y, V \ {b})
  BY <1>3, <1>7, <1>8, TotalTake
<1>11. V \ {b} = U
  BY <1>3, <1>8
<1>12. heap_used = TotalOf(z, U) /\ heap_used' = heap_used + y[b]
  BY <1>2, <1>8, UsedSum
<1>13. heap_used \in Int /\ y[b] \in Int
  BY <1>3, <1>7, <1>8 DEF IInv, TypeOK
<1>14. heap_used + y[b] = y[b] + heap_used
  BY <1>13
<1>15. heap_used' = TotalOf(y, V)
  BY <1>9, <1>10, <1>11, <1>12, <1>14, Zenon
<1> QED BY <1>8, <1>15, UsedSumNext

\* A kfree takes off the size its block had, whatever it merges it with.
LEMMA ReleaseSum ==
  ASSUME IInv, HeapUsedExact, NEW c \in Callers, KfreeLocked(c)
  PROVE  HeapUsedExact'
<1> USE HeapAssumption
<1>0. PICK b : b = ptr[c]
  OBVIOUS
<1>1. /\ b \in Addrs /\ magic[b] = "USED"
      /\ Merges(b) => /\ b + size[b] \in Addrs /\ b + size[b] # b
                      /\ magic[b + size[b]] = "FREE"
  BY <1>0, FreedBlock DEF FreeBlocks, KfreeLocked
<1>2. /\ heap_used' = heap_used - size[b]
      /\ magic' = ReleaseMagic(b)
      /\ size' = IF Merges(b) THEN [size EXCEPT ![b] = @ + size[b + size[b]]] ELSE size
  BY <1>0 DEF KfreeLocked
<1>3. UsedBlocks' = UsedBlocks \ {b} /\ b \in UsedBlocks
  BY <1>1, <1>2 DEF ReleaseMagic, UsedBlocks, IInv, TypeOK
<1>4. \A a \in UsedBlocks \ {b} : size[a] = size'[a]
  BY <1>1, <1>2 DEF UsedBlocks, IInv, TypeOK
<1>5. IsFiniteSet(UsedBlocks) /\ \A a \in UsedBlocks : size[a] \in Int
  BY UsedFinite DEF IInv
<1>6. PICK z, y, U, W : /\ z = size /\ y = size'
                        /\ U = UsedBlocks /\ W = UsedBlocks \ {b}
  OBVIOUS
<1>7. IsFiniteSet(W) /\ \A a \in W : z[a] \in Int
  BY <1>5, <1>6, FS_Subset
<1>8. TotalOf(z, U) = z[b] + TotalOf(z, W)
  BY <1>3, <1>5, <1>6, TotalTake
<1>9. TotalOf(z, W) = TotalOf(y, W)
  BY <1>4, <1>6, <1>7, TotalSame
<1>10. TotalOf(z, W) \in Int /\ z[b] \in Int
  BY <1>3, <1>5, <1>6, <1>7, TotalInt
<1>11. heap_used = TotalOf(z, U) /\ heap_used' = heap_used - z[b]
  BY <1>2, <1>6, UsedSum
<1>12. (z[b] + TotalOf(z, W)) - z[b] = TotalOf(z, W)
  <2> HIDE DEF TotalOf
  <2> QED BY <1>10
<1>13. heap_used' = TotalOf(y, W)
  BY <1>8, <1>9, <1>11, <1>12, Zenon
<1> QED BY <1>3, <1>6, <1>13, UsedSumNext

\* The heap starts with one FREE block and nothing in use.
LEMMA InitSum == Init => HeapUsedExact
<1> SUFFICES ASSUME Init PROVE HeapUsedExact
  OBVIOUS
<1>1. UsedBlocks = {} /\ heap_used = 0
  BY DEF Init, UsedBlocks
<1>2. IsFiniteSet({})
  BY FS_EmptySet
<1>3. TotalOf(size, {}) = 0
  BY <1>2, TotalStep
<1> QED BY <1>1, <1>3, UsedSum

\* heap_used is always the sum of the sizes of the USED blocks.
THEOREM HeapUsedSafe == Spec => []HeapUsedExact
<1>1. IInv /\ HeapUsedExact /\ [Next]_vars => HeapUsedExact'
  <2> SUFFICES ASSUME IInv, HeapUsedExact, [Next]_vars PROVE HeapUsedExact'
    OBVIOUS
  <2>1. CASE UNCHANGED vars
    BY <2>1, SumKept DEF vars, list, headers
  <2>2. CASE Next
    <3>1. PICK c \in Callers :
            \/ Bookkeeping(c)
            \/ KmallocLock(c) \/ ScanNext(c) \/ ScanFail(c)
            \/ ScanTake(c) \/ KfreeLocked(c)
      BY <2>2 DEF Next, Bookkeeping
    <3>2. CASE Bookkeeping(c) \/ KmallocLock(c) \/ ScanNext(c) \/ ScanFail(c)
      <4>1. UNCHANGED <<size, magic, heap_used>>
        BY <3>2 DEF Bookkeeping, KmallocCall, KreallocCall, KfreeCall, KreallocFree,
          KmallocLock, ScanNext, ScanFail, list, headers
      <4> QED BY <4>1, SumKept
    <3> QED BY <3>1, <3>2, TakeSum, ReleaseSum
  <2> QED BY <2>1, <2>2
<1> QED BY <1>1, InitSum, Invariance, PTL DEF Spec
-----------------------------------------------------------------------------
(* Memory that callers own. *)

\* The data of an owned block lies in the heap and holds no header, and the
\* data of another block is elsewhere.
LEMMA DataOfBlock ==
  ASSUME TypeOK, BlocksTile, NEW b \in Starts
  PROVE  /\ size[b] \in Nat /\ size[b] >= 2 /\ b \in Nat
         /\ b + 1 \in Addrs /\ b + size[b] - 1 \in Addrs
         /\ b + 1 \in Data(b)
         /\ Data(b) \subseteq Addrs
         /\ Data(b) \cap Starts = {}
         /\ \A d \in Starts : d # b => /\ Data(b) \cap Data(d) = {}
                                       /\ b + size[b] <= d \/ d + size[d] <= b
<1> USE HeapAssumption
<1>1. b \in Addrs /\ size[b] \in Nat /\ size[b] >= 2 /\ b + size[b] <= HEAP_SIZE
  BY DEF TypeOK, BlocksTile, Starts, Addrs
<1>2. b + 1 \in Addrs /\ b + size[b] - 1 \in Addrs /\ b + 1 \in Data(b)
  BY <1>1 DEF Addrs, Data
<1>3. Data(b) \subseteq Addrs
  BY <1>1 DEF Addrs, Data
<1>4. Data(b) \cap Starts = {}
  BY <1>1 DEF Data, BlocksTile, Addrs
<1>5. ASSUME NEW d \in Starts, d # b
      PROVE  /\ Data(b) \cap Data(d) = {}
             /\ b + size[b] <= d \/ d + size[d] <= b
  <2>1. d \in Addrs /\ size[d] \in Nat
    BY DEF TypeOK, Starts
  <2>2. b + size[b] <= d \/ d + size[d] <= b
    BY <1>1, <1>5, <2>1 DEF BlocksTile, Addrs
  <2> QED BY <1>1, <2>1, <2>2 DEF Data, Addrs
<1> QED BY <1>1, <1>2, <1>3, <1>4, <1>5 DEF Addrs

\* Owned blocks are blocks.
LEMMA HeldAreStarts ==
  ASSUME IInv
  PROVE  held \subseteq Starts
BY DEF IInv, TypeOK, UsedIsHeld, Starts

\* ScanTake writes headers outside the data of owned blocks.
LEMMA TakeWrites ==
  ASSUME IInv, NEW c \in Callers, ScanTake(c),
         NEW b \in held, NEW a \in Data(b)
  PROVE  /\ size'[a] = size[a] /\ magic'[a] = magic[a]
         /\ next'[a] = next[a] /\ prev'[a] = prev[a]
<1> USE HeapAssumption
<1> DEFINE t == total_size[c]
           nb == block + t
<1>0. /\ TypeOK /\ BlocksTile /\ UsedIsHeld /\ FreeLinks
      /\ block \in FreeBlocks /\ block \in Starts /\ block \in Addrs
      /\ t \in Nat /\ t >= 2
      /\ prev_free # NULL => prev_free \in Starts
      /\ Splits(block, t) => nb \in Addrs
  BY TakenBlock DEF IInv, FreeBlocks, Starts
<1>1. b \in Starts /\ b # block
  BY <1>0, HeldAreStarts DEF UsedIsHeld, TypeOK, FreeBlocks
<1>2. a \in Addrs /\ a \notin Starts
  BY <1>0, <1>1, DataOfBlock
<1>3. a # NULL
  BY <1>2 DEF Addrs
<1>4. a # block /\ a # prev_free
  BY <1>0, <1>2, <1>3
<1>5. a # next[block]
  BY <1>0, <1>2, <1>3 DEF FreeLinks, FreeBlocks, Starts
<1>6. Splits(block, t) => a # nb
  <2>1. Splits(block, t) => nb \in Data(block)
    BY <1>0, DataOfBlock DEF Splits, Data
  <2>2. Data(b) \cap Data(block) = {}
    BY <1>0, <1>1, DataOfBlock
  <2> QED BY <2>1, <2>2
<1>7. size'[a] = size[a] /\ magic'[a] = magic[a]
  BY <1>0, <1>2, <1>4, <1>6 DEF ScanTake, TakeSize, TakeMagic, TypeOK
<1>8. next'[a] = next[a] /\ prev'[a] = prev[a]
  BY <1>2, <1>4, <1>5, <1>6 DEF ScanTake, TakeNext, TakePrev, Succ
<1> QED BY <1>7, <1>8

\* KfreeLocked writes headers outside the data of owned blocks.
LEMMA ReleaseWrites ==
  ASSUME IInv, NEW c \in Callers, KfreeLocked(c),
         NEW b \in held, NEW a \in Data(b)
  PROVE  /\ size'[a] = size[a] /\ magic'[a] = magic[a]
         /\ next'[a] = next[a] /\ prev'[a] = prev[a]
<1> USE HeapAssumption
<1> DEFINE p == ptr[c]
           np == p + size[p]
<1>0. /\ TypeOK /\ BlocksTile /\ FreeLinks
      /\ p \in Addrs /\ p \in Starts
      /\ Merges(p) => np \in FreeBlocks /\ np \in Addrs /\ np # p
  BY FreedBlock DEF IInv, FreeBlocks, Starts, KfreeLocked
<1>1. b \in Starts
  BY HeldAreStarts
<1>2. a \in Addrs /\ a \notin Starts
  BY <1>0, <1>1, DataOfBlock
<1>3. a # NULL /\ \A f \in FreeBlocks : a # f
  BY <1>2 DEF Addrs, FreeBlocks, Starts
<1>4. a # p /\ a # free_list
  BY <1>0, <1>2, <1>3 DEF FreeLinks
<1>5. Push(p).next[a] = next[a] /\ Push(p).prev[a] = prev[a]
  BY <1>0, <1>2, <1>4 DEF Push, TypeOK
<1>6. CASE ~ Merges(p)
  BY <1>0, <1>2, <1>4, <1>5, <1>6 DEF KfreeLocked, ReleaseMagic, TypeOK
<1>7. CASE Merges(p)
  <2>1. /\ Push(p).prev[np] = IF np = free_list THEN p ELSE prev[np]
        /\ Push(p).next[np] = next[np]
    BY <1>0, <1>7 DEF Push, TypeOK
  <2>2. a # Push(p).prev[np] /\ a # Push(p).next[np]
    BY <1>0, <1>3, <1>4, <1>7, <2>1 DEF FreeLinks
  <2>3. next'[a] = next[a] /\ prev'[a] = prev[a]
    BY <1>2, <1>5, <1>7, <2>2 DEF KfreeLocked, Unlink
  <2>4. a # np
    BY <1>0, <1>3, <1>7
  <2>5. size'[a] = size[a] /\ magic'[a] = magic[a]
    BY <1>0, <1>2, <1>4, <1>7, <2>4 DEF KfreeLocked, ReleaseMagic, TypeOK
  <2> QED BY <2>3, <2>5
<1> QED BY <1>6, <1>7

\* No call of the allocator writes a header into memory a caller owns.
THEOREM LiveDataUntouched == Spec => NoHeaderInLiveData
<1> DEFINE Untouched ==
      \A b \in held \cap held' : \A a \in Data(b) :
        /\ size'[a] = size[a] /\ magic'[a] = magic[a]
        /\ next'[a] = next[a] /\ prev'[a] = prev[a]
<1>1. IInv /\ [Next]_vars => [Untouched]_vars
  <2> SUFFICES ASSUME IInv, Next PROVE Untouched
    BY DEF vars
  <2>1. PICK c \in Callers :
          \/ Bookkeeping(c)
          \/ KmallocLock(c) \/ ScanNext(c) \/ ScanFail(c)
          \/ ScanTake(c) \/ KfreeLocked(c)
    BY DEF Next, Bookkeeping
  <2>2. CASE ScanTake(c)
    BY <2>2, TakeWrites
  <2>3. CASE KfreeLocked(c)
    BY <2>3, ReleaseWrites
  <2>4. CASE Bookkeeping(c) \/ KmallocLock(c) \/ ScanNext(c) \/ ScanFail(c)
    BY <2>4 DEF Bookkeeping, KmallocCall, KreallocCall, KfreeCall, KreallocFree,
      KmallocLock, ScanNext, ScanFail, list, headers
  <2> QED BY <2>1, <2>2, <2>3, <2>4
<1> QED BY <1>1, Invariance, PTL DEF Spec, NoHeaderInLiveData
-----------------------------------------------------------------------------
(* Refinement of DisjointRegions. *)

\* The regions in use, under the refinement mapping.
Owned == {Data(b) : b \in held}

\* Blocks that tile the heap have disjoint nonempty data.
LEMMA TileIntervals ==
  ASSUME NEW St \in SUBSET Addrs, NEW sz \in [Addrs -> 0 .. HEAP_SIZE],
         \A a \in St : /\ sz[a] >= 2
                       /\ a + sz[a] = HEAP_SIZE \/ a + sz[a] \in St
                       /\ \A d \in St : ~(a < d /\ d < a + sz[a]),
         NEW b \in St
  PROVE  /\ b + 1 \in Addrs /\ b + sz[b] - 1 \in Addrs
         /\ b + 1 <= b + sz[b] - 1
         /\ \A d \in St : d # b =>
              (d + 1 .. d + sz[d] - 1) \cap (b + 1 .. b + sz[b] - 1) = {}
<1> USE HeapAssumption
<1>1. b \in Addrs /\ sz[b] \in Nat /\ sz[b] >= 2 /\ b + sz[b] <= HEAP_SIZE
  BY DEF Addrs
<1>2. ASSUME NEW d \in St, d # b
      PROVE  (d + 1 .. d + sz[d] - 1) \cap (b + 1 .. b + sz[b] - 1) = {}
  <2>1. d \in Addrs /\ sz[d] \in Nat
    OBVIOUS
  <2>2. b + sz[b] <= d \/ d + sz[d] <= b
    <3>1. ~(b < d /\ d < b + sz[b]) /\ ~(d < b /\ b < d + sz[d])
      OBVIOUS
    <3> QED BY <1>1, <1>2, <2>1, <3>1 DEF Addrs
  <2>3. b \in Int /\ d \in Int /\ sz[b] \in Int /\ sz[d] \in Int
    BY <1>1, <2>1 DEF Addrs
  <2>4. ASSUME NEW u \in d + 1 .. d + sz[d] - 1, u \in b + 1 .. b + sz[b] - 1
        PROVE  FALSE
    BY <2>2, <2>3, <2>4
  <2> QED BY <2>4
<1>3. b + 1 \in Addrs /\ b + sz[b] - 1 \in Addrs /\ b + 1 <= b + sz[b] - 1
  BY ONLY HeapAssumption, <1>1 DEF Addrs
<1> QED BY <1>2, <1>3

\* A successful kmalloc is an allocation of a fresh interval.
LEMMA TakeAllocates ==
  ASSUME IInv, NEW c \in Callers, ScanTake(c)
  PROVE  Regions!Alloc
<1> USE HeapAssumption
<1>0. IInv'
  <2>1. Next
    BY DEF Next
  <2> QED BY <2>1, NextIInv
<1>x. PICK x \in Addrs : x = block
  BY TakenBlock DEF FreeBlocks
<1> DEFINE lo == x + 1
           hi == x + size'[x] - 1
<1>1. held' = held \cup {x} /\ x \notin held
  BY <1>x, TakenBlock DEF ScanTake, IInv, UsedIsHeld, TypeOK, FreeBlocks
<1>2. \A b \in held : size'[b] = size[b]
  <2> SUFFICES ASSUME NEW b \in held PROVE size'[b] = size[b]
    OBVIOUS
  <2>1. b # block /\ b \in Addrs /\ magic[b] = "USED"
    BY <1>1, <1>x DEF IInv, TypeOK, UsedIsHeld
  <2> QED BY <2>1, TakenBlock DEF ScanTake, TakeSize, IInv, TypeOK, FreeBlocks
<1>3. held' \subseteq Starts' /\ x \in Starts'
  BY <1>0, <1>1 DEF IInv, TypeOK, UsedIsHeld, Starts
<1>4. /\ lo \in Addrs /\ hi \in Addrs /\ lo <= hi
      /\ \A d \in Starts' : d # x => (d + 1 .. d + size'[d] - 1) \cap (lo .. hi) = {}
  <2>1. Starts' \in SUBSET Addrs /\ size' \in [Addrs -> 0 .. HEAP_SIZE]
    BY <1>0 DEF IInv, TypeOK, Starts
  <2>2. \A a \in Starts' :
          /\ size'[a] >= 2
          /\ a + size'[a] = HEAP_SIZE \/ a + size'[a] \in Starts'
          /\ \A d \in Starts' : ~(a < d /\ d < a + size'[a])
    BY <1>0 DEF IInv, BlocksTile
  <2> HIDE DEF Starts
  <2> QED BY <1>3, <2>1, <2>2, TileIntervals
<1>5. \A b \in held : b # x /\ Data(b) = b + 1 .. b + size'[b] - 1 /\ b \in Starts'
  BY <1>1, <1>2, <1>3 DEF Data
<1>6. \A q \in Owned : q \cap (lo .. hi) = {}
  BY <1>4, <1>5 DEF Owned
<1>7. Owned' = Owned \cup {lo .. hi}
  BY <1>1, <1>5 DEF Owned, Data
<1> QED BY <1>4, <1>6, <1>7 DEF Regions!Alloc, Owned

\* A kfree gives up a region, whoever calls it.
LEMMA GiveUpFrees ==
  ASSUME IInv, NEW b \in held, size' = size, held' = held \ {b}
  PROVE  Regions!Free
<1>1. \A d \in held : d # b => Data(d) # Data(b)
  <2> SUFFICES ASSUME NEW d \in held, d # b PROVE Data(d) # Data(b)
    OBVIOUS
  <2>1. b \in Starts /\ d \in Starts
    BY HeldAreStarts
  <2>2. b + 1 \in Data(b) /\ Data(b) \cap Data(d) = {}
    BY <2>1, DataOfBlock DEF IInv
  <2> QED BY <2>2
<1>2. Owned' = {Data(d) : d \in held \ {b}}
  BY DEF Owned, Data
<1>3. Owned' = Owned \ {Data(b)} /\ Data(b) \in Owned
  BY <1>1, <1>2 DEF Owned
<1> QED BY <1>3 DEF Regions!Free, Owned

\* The other steps leave the regions alone.
LEMMA OtherKeeps ==
  ASSUME IInv, held' = held, \A b \in held : size'[b] = size[b]
  PROVE  UNCHANGED Owned
BY DEF Owned, Data

\* kmalloc, krealloc and kfree under contention implement the abstract
\* allocator: what callers own is disjoint, and only a kfree takes it away.
THEOREM HeapRefinesRegions == Spec => ImplementsRegions
<1>1. Init => Regions!Init
  BY DEF Init, Regions!Init
<1>2. IInv /\ [Next]_vars => [Regions!Next]_Owned
  <2> SUFFICES ASSUME IInv, [Next]_vars PROVE [Regions!Next]_Owned
    OBVIOUS
  <2>1. CASE UNCHANGED vars
    BY <2>1 DEF vars, list, headers, Owned, Data
  <2>2. CASE Next
    <3>1. PICK c \in Callers :
            \/ Bookkeeping(c)
            \/ KmallocLock(c) \/ ScanNext(c) \/ ScanFail(c)
            \/ ScanTake(c) \/ KfreeLocked(c)
      BY <2>2 DEF Next, Bookkeeping
    <3>2. CASE ScanTake(c)
      BY <3>2, TakeAllocates DEF Regions!Next
    <3>3. CASE KfreeLocked(c)
      <4>1. held' = held /\ ptr[c] \notin held /\ ptr[c] \in Addrs
        BY <3>3 DEF KfreeLocked, IInv, UsedIsHeld, Freeing, TypeOK, Maybe
      <4>2. \A b \in held : size'[b] = size[b]
        BY <3>3, <4>1 DEF KfreeLocked, IInv, TypeOK
      <4> QED BY <4>1, <4>2, OtherKeeps
    <3>4. CASE KmallocLock(c) \/ ScanNext(c) \/ ScanFail(c)
      BY <3>4, OtherKeeps DEF KmallocLock, ScanNext, ScanFail, list, headers
    <3>5. CASE Bookkeeping(c)
      <4>1. size' = size
        BY <3>5 DEF Bookkeeping, KmallocCall, KreallocCall, KfreeCall, KreallocFree,
          list, headers
      <4>2. held' = held \/ \E b \in held : held' = held \ {b}
        <5>1. CASE KreallocFree(c)
          BY <5>1 DEF KreallocFree, IInv, UsedIsHeld
        <5>2. CASE ~ KreallocFree(c)
          BY <3>5, <5>2 DEF Bookkeeping, KmallocCall, KreallocCall, KfreeCall
        <5> QED BY <5>1, <5>2
      <4> QED BY <4>1, <4>2, OtherKeeps, GiveUpFrees DEF Regions!Next
    <3> QED BY <3>1, <3>2, <3>3, <3>4, <3>5
  <2> QED BY <2>1, <2>2
<1> QED BY <1>1, <1>2, Invariance, PTL DEF Spec, ImplementsRegions, Regions!Spec, Owned
=============================================================================
