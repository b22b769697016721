\* A receiver in AcquireReceivedRegion and a deferred CloseSession on one
\* session.
CONSTANTS
  Threads = {t1, t2}
  Sessions = {s1}
  NumBuffers = 2
  NoThread = NoThread
SPECIFICATION Spec
INVARIANT DeferredCloseKeepsUserBuffers
