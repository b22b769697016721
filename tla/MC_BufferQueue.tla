--------------------------- MODULE MC_BufferQueue ---------------------------
(* Instantiation of BufferQueue for TLC; constants are given in the cfgs. *)
EXTENDS BufferQueue, TLC

\* Buffers are interchangeable: permuting them maps behaviours to behaviours.
BufferSymmetry == Permutations(Buffers)
=============================================================================
