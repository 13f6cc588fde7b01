------------------------------- MODULE MCPipe -------------------------------
(* Pipe for TLC. *)
EXTENDS Pipe

\* Byte strings of one and three bytes over two values: with a ring of two, the
\* longer ones have to wait for room.  Those that differ by exchanging the two
\* values, or end in two equal bytes after a third, need not all be there.
ShortMessages == [1 .. 1 -> {0, 1}] \cup {<<0, 1, 0>>, <<0, 1, 1>>, <<1, 0, 0>>, <<1, 1, 0>>}
=============================================================================
