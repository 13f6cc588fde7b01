--------------------------- MODULE DisjointRegions ---------------------------
(***************************************************************************)
(* What an allocator promises its callers: each allocation is a nonempty   *)
(* interval of the space it manages, no two allocations in use at the same *)
(* time overlap, and only a free takes an allocation away.                 *)
(***************************************************************************)
EXTENDS Integers

CONSTANT Space        \* the units of memory the allocator manages

VARIABLE owned        \* the regions in use, each a set of units

Init == owned = {}

Alloc ==
  \E lo, hi \in Space :
    /\ lo <= hi
    /\ \A q \in owned : q \cap (lo .. hi) = {}
    /\ owned' = owned \cup {lo .. hi}

Free == \E r \in owned : owned' = owned \ {r}

Next == Alloc \/ Free

Spec == Init /\ [][Next]_owned
=============================================================================
