---------------------------- MODULE CircularFifo ----------------------------
(***************************************************************************)
(* tCircularFifo<T> (src/core/common/tCircularFifo.h): a vector of         *)
(* `capacity` slots, a read index `_head` and a count `_size`; push writes *)
(* at (_head + _size) % capacity, pop advances _head modulo capacity.  The *)
(* asserts of push and pop are preconditions the callers must meet (they   *)
(* compile to nothing in a release build); RdmaBufferQueue meets them      *)
(* because every FIFO has N slots and holds at most the N buffers          *)
(* (BufferQueue's BufferPartition).                                        *)
(***************************************************************************)
EXTENDS Naturals, Sequences

CONSTANTS
  Values,    \* the element type T
  Capacity,  \* _buffer.size() after reallocate(numBuffers)
  Nil        \* a value-initialised element (nullptr for RdmaBuffer*)

ASSUME Capacity \in Nat \ {0} /\ Nil \notin Values

VARIABLES buffer, head, size

cvars == <<buffer, head, size>>

Slots == 0..(Capacity - 1)

\* getReadIndex / getWriteIndex.
ReadIndex(offset) == (head + offset) % Capacity
WriteIndex(offset) == (head + size + offset) % Capacity

\* reallocate(n) on a fresh vector: clear(), then resize fills with T().
Init ==
  /\ buffer = [i \in Slots |-> Nil]
  /\ head = 0
  /\ size = 0

\* Mutant of Push: the capacity assert is dropped (as in a release build).
PushUnchecked(v) ==
  /\ buffer' = [buffer EXCEPT ![WriteIndex(0)] = v]
  /\ size' = size + 1
  /\ UNCHANGED head

\* push(elem): assert(_size + 1 <= capacity()).
Push(v) ==
  /\ size + 1 <= Capacity
  /\ buffer' = [buffer EXCEPT ![WriteIndex(0)] = v]
  /\ size' = size + 1
  /\ UNCHANGED head

\* Mutant of Pop: _head advances without wrapping at the capacity.
PopNoWrap ==
  /\ size >= 1
  /\ head' = IF head + 1 < Capacity THEN head + 1 ELSE head
  /\ size' = size - 1
  /\ UNCHANGED buffer

\* pop(): assert(size() >= 1).
Pop ==
  /\ size >= 1
  /\ head' = (head + 1) % Capacity
  /\ size' = size - 1
  /\ UNCHANGED buffer

\* clear(): resets the counters, leaves the slots.
Clear ==
  /\ head' = 0 /\ size' = 0
  /\ UNCHANGED buffer

Next == Clear \/ Pop \/ \E v \in Values : Push(v)

Spec == Init /\ [][Next]_cvars

\* front(): the element at the read index.
Front == buffer[ReadIndex(0)]

\* The sequence the ring holds, oldest first.
Contents == [i \in 1..size |-> buffer[ReadIndex(i - 1)]]

TypeOK ==
  /\ buffer \in [Slots -> Values \cup {Nil}]
  /\ head \in Slots
  /\ size \in 0..Capacity

\* The ring buffer implements a bounded FIFO: every push, pop and clear of
\* tCircularFifo is a step of Fifo on the contents read from _head, so
\* front() and pop() always return the oldest element pushed.
Abstract == INSTANCE Fifo WITH contents <- Contents

FifoRefinement == Abstract!FifoSpec
=============================================================================
