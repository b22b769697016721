\* Circular FIFO: three slots, so _head wraps around several times; two
\* distinct values so that a reordering is visible.
\* Requests: two threads and two objects, one preallocated, so both operator
\* new paths (reuse from emptyRequests, MakeNewRequest) and reuse of a word
\* another thread left behind happen.  A 3-bit nesting word with nesting
\* depth 2 leaves the spare bit SuspendAccess's Add needs, as a 32-bit word
\* does for depth 31; raw counters 1 (a reset that is missing shows) and every 3-bit word.
CONSTANTS
  Values = {v1, v2}
  Capacity = 3
  Nil = Nil
  Threads = {t1, t2}
  Requests = {r1, r2}
  Preallocated = {r1}
  NestingBits = 3
  MaxDepth = 2
  GarbageCounts = {1}
  NoRequest = NoRequest
SPECIFICATION Spec
INVARIANT FifoTypeOK
INVARIANT RequestTypeOK
INVARIANT RequestPoolPartition
INVARIANT CountsMatchNesting
PROPERTY FifoRefinement
PROPERTY RequestRefinement
