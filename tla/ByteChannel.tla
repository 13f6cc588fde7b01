----------------------------- MODULE ByteChannel -----------------------------
(***************************************************************************)
(* What a pipe promises: bytes leave in the order they entered, none lost  *)
(* and none twice; the bytes of one writer enter in its order; a write is  *)
(* cut short only when the reading end is gone, and a read comes back      *)
(* empty only when the channel is empty and the writing end is gone.       *)
(***************************************************************************)
EXTENDS Naturals, Sequences

CONSTANTS Readers, Writers, Messages, Capacity

VARIABLES
  chan,     \* the bytes in the channel, oldest first
  rest,     \* what each writer has still to put in
  got,      \* what each reader's last read gave it
  ends      \* the open ends, a subset of {"r", "w"}

vars == <<chan, rest, got, ends>>

Init ==
  /\ chan = <<>>
  /\ rest = [w \in Writers |-> <<>>]
  /\ got = [r \in Readers |-> <<>>]
  /\ ends = {}

\* A channel is made when no end of the last one is left; its bytes are gone.
Open == ends = {} /\ ends' = {"r", "w"} /\ chan' = <<>> /\ UNCHANGED <<rest, got>>

Start(w) ==
  /\ rest[w] = <<>>
  /\ \E s \in Messages : rest' = [rest EXCEPT ![w] = s]
  /\ UNCHANGED <<chan, got, ends>>

Put(w) ==
  \E k \in 1 .. Len(rest[w]) :
    /\ Len(chan) + k <= Capacity
    /\ chan' = chan \o SubSeq(rest[w], 1, k)
    /\ rest' = [rest EXCEPT ![w] = SubSeq(@, k + 1, Len(@))]
    /\ UNCHANGED <<got, ends>>

CutShort(w) ==
  /\ "r" \notin ends
  /\ rest' = [rest EXCEPT ![w] = <<>>]
  /\ UNCHANGED <<chan, got, ends>>

Get(r) ==
  \E k \in 1 .. Len(chan) :
    /\ got' = [got EXCEPT ![r] = SubSeq(chan, 1, k)]
    /\ chan' = SubSeq(chan, k + 1, Len(chan))
    /\ UNCHANGED <<rest, ends>>

Eof(r) ==
  /\ chan = <<>> /\ "w" \notin ends
  /\ got' = [got EXCEPT ![r] = <<>>]
  /\ UNCHANGED <<chan, rest, ends>>

Close(e) == ends' = ends \ {e} /\ UNCHANGED <<chan, rest, got>>

Next ==
  \/ Open \/ Close("r") \/ Close("w")
  \/ \E w \in Writers : Start(w) \/ Put(w) \/ CutShort(w)
  \/ \E r \in Readers : Get(r) \/ Eof(r)

Spec == Init /\ [][Next]_vars
=============================================================================
