------------------------------ MODULE MCRamFs ------------------------------
(***************************************************************************)
(* RamFs for TLC.  The view leaves out the last call, which no action      *)
(* reads; TLC evaluates the action properties on every step all the same.  *)
(***************************************************************************)
EXTENDS RamFs

State == <<tree, data, size, fd_table, stale, booting>>
MCOffsets == {-1, 1}

\* The bound of the search: contents and descriptors while there are few
\* inodes.
Small ==
  LET used == Cardinality({i \in Inodes : data[i] # NoData})
              + Cardinality({fd \in Fds : fd_table[fd] # NULL})
  IN  /\ Cardinality(Live) = 3 => used <= 1
      /\ Cardinality(Live) > 3 => used = 0
=============================================================================
