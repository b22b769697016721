\* Three threads (a receiver, a releaser, a closer, in any roles) on one
\* session with two receive buffers.
CONSTANTS
  Threads = {t1, t2, t3}
  Sessions = {s1}
  NumBuffers = 2
  NoThread = NoThread
SPECIFICATION Spec
INVARIANTS TypeOK NoUseAfterDestroy OneBufferWait
PROPERTIES DeferredEventuallyDestroyed
