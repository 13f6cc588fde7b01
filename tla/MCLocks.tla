------------------------------- MODULE MCLocks -------------------------------
(* Locks with two programs, the second of which has started a child.        *)
EXTENDS Locks

MCParent == [p \in Slots |-> IF p = 3 THEN 2 ELSE Kernel]
=============================================================================
