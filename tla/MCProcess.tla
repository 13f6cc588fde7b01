------------------------------ MODULE MCProcess ------------------------------
(* Instances of Process for TLC.  Stacks are told apart only by equality,   *)
(* so the heap may be explored up to a permutation of them.                 *)
EXTENDS Process, TLC

StackSymmetry == Permutations(Stacks)
=============================================================================
