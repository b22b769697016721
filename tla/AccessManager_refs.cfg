\* DestroySession against two API callers, exclusive access only, as the
\* easyrdma_* calls take it.
CONSTANTS
  Threads = {t1, t2, t3}
  AcquireModes = {"E"}
  MaxDepth = 1
  NoThread = NoThread
  StackThreads = {}
SPECIFICATION Spec
INVARIANT DestroyWaitsForAllRefs
