-------------------------------- MODULE Fifo --------------------------------
(***************************************************************************)
(* What a bounded FIFO promises: elements leave in the order they entered, *)
(* and at most Capacity are held.  The contents are a sequence.            *)
(***************************************************************************)
EXTENDS Naturals, Sequences

CONSTANTS Values, Capacity

VARIABLE contents

FifoInit == contents = <<>>

FifoPush(v) ==
  /\ Len(contents) < Capacity
  /\ contents' = Append(contents, v)

FifoPop ==
  /\ contents # <<>>
  /\ contents' = Tail(contents)

FifoClear == contents' = <<>>

FifoNext == FifoClear \/ FifoPop \/ \E v \in Values : FifoPush(v)

FifoSpec == FifoInit /\ [][FifoNext]_contents
=============================================================================
