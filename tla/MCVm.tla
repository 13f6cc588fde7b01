-------------------------------- MODULE MCVm --------------------------------
(***************************************************************************)
(* Vm with tables of four entries.  Addresses are written with one digit   *)
(* for each level.                                                         *)
(***************************************************************************)
EXTENDS Vm

Address(l0, l1, l2, l3) == ((l0 * 4 + l1) * 4 + l2) * 4 + l3
At(v, n) == [start |-> v, n |-> n]

MCText == Address(0, 1, 0, 0)

\* A program of two pages in two level-3 tables, and its stack behind it.
MCRanges == {At(Address(0, 2, 0, 3), 2)}
MCStack == At(Address(0, 2, 1, 1), 1)

\* The last two pages of user space, and a range that leaves it.
MCUserRanges == {At(Address(1, 3, 3, 2), 2), At(Address(1, 3, 3, 3), 2)}

\* Registers in front of the program that reach into it, and some in a block.
MCDevices == {At(Address(0, 2, 0, 2), 2), At(Address(0, 1, 3, 3), 2)}

\* One block is held at a time; the history is not part of the state.
Small == Cardinality(held) <= 1 /\ Cardinality(Lost) <= 1
State == <<mem, mms, vma_index, held, ttbr0>>
=============================================================================
