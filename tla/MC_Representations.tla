------------------------- MODULE MC_Representations -------------------------
(***************************************************************************)
(* The library's two hand-written data representations, each checked      *)
(* against the abstract structure it stands for: tCircularFifo against a  *)
(* bounded FIFO, and tAccessManager's pooled tRequest objects against a    *)
(* stack of nested accesses per thread.  The two share no state, so they  *)
(* are checked side by side: every step is a step of one of them.         *)
(***************************************************************************)
EXTENDS TLC

CONSTANTS Values, Capacity, Nil,
          Threads, Requests, Preallocated, NestingBits, MaxDepth,
          GarbageCounts, NoRequest

VARIABLES buffer, head, size,
          request, emptyList, allocated, ours, removed

Fifo == INSTANCE CircularFifo
Req == INSTANCE AccessRequest

fvars == <<buffer, head, size>>
rvars == <<request, emptyList, allocated, ours, removed>>

Init == Fifo!Init /\ Req!Init

Next ==
  \/ Fifo!Next /\ UNCHANGED rvars
  \/ Req!Next /\ UNCHANGED fvars

Spec == Init /\ [][Next]_<<fvars, rvars>>

\* tCircularFifo's slots, indices and size stay in range.
FifoTypeOK == Fifo!TypeOK

\* Every push, pop and clear of tCircularFifo is a step of a bounded FIFO on
\* the contents read from _head (see CircularFifo).
FifoRefinement == Fifo!FifoRefinement

\* The request objects' fields, the pool list and the owners are in range.
RequestTypeOK == Req!RequestTypeOK

\* operator new / operator delete never hand one request object to two
\* threads, nor lose or duplicate one on emptyRequests (see AccessRequest).
RequestPoolPartition == Req!RequestPoolPartition

\* tRequest's shared and exclusive counters agree with the nesting word
\* RemoveLast decodes (see AccessRequest).
CountsMatchNesting == Req!CountsMatchNesting

\* tRequest's counters and uninitialised nesting word implement a stack of
\* nested accesses, with SuspendAccess's Add/RemoveLast a no-op (see
\* AccessRequest).
RequestRefinement == Req!RequestRefinement
=============================================================================
