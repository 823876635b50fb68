----------------------------- MODULE AtomicReader -----------------------------
(***************************************************************************)
(* What a BufferReader promises its owner (spec.md 3 and 4.1-4.2): over a  *)
(* fixed buffer, the position only moves forward, and every move hands the *)
(* owner exactly the bytes it passes over, in order.  A speculative read   *)
(* through a child that is dropped is no move at all; a committed child is *)
(* one move by everything it read.                                         *)
(***************************************************************************)
EXTENDS Naturals, Sequences

CONSTANT Buffers  \* the slices a reader may be created over

VARIABLES
  buf,       \* the slice
  pos,       \* the reader's offset
  consumed   \* the bytes the owner has been given, in order

vars == <<buf, pos, consumed>>

Init ==
  /\ buf \in Buffers
  /\ pos = 0
  /\ consumed = <<>>

Advance ==
  /\ \E k \in 1 .. (Len(buf) - pos) :
       /\ pos' = pos + k
       /\ consumed' = consumed \o SubSeq(buf, pos + 1, pos + k)
  /\ UNCHANGED buf

Spec == Init /\ [][Advance]_vars

=============================================================================
