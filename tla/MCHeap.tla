------------------------------- MODULE MCHeap -------------------------------
(* Heap for TLC, with a view that leaves out what no step reads. *)
EXTENDS Heap

\* What the code can still read: the fields of headers, and the links of those
\* on the free list.  States that agree on it behave alike.
LiveFields ==
  <<[a \in Addrs |-> CASE magic[a] = "NONE" -> <<>>
                      [] magic[a] = "USED" -> <<size[a]>>
                      [] OTHER -> <<size[a], next[a], prev[a]>>],
    free_list, heap_used, scan, call, held>>
=============================================================================
