\* Three threads, shared and exclusive, nested twice, with suspend/resume
\* and a DestroySession: the request lists keep exclusive access exclusive,
\* every blocked thread is granted access and DestroySession returns.
\* A stuck state is a violation of the two liveness properties (a thread
\* blocked, or DestroySession waiting, for ever), so deadlock is left to them.
CONSTANTS
  Threads = {t1, t2, t3}
  AcquireModes = {"S", "E"}
  MaxDepth = 2
  NoThread = NoThread
  StackThreads = {t1}
SPECIFICATION Spec
INVARIANTS TypeOK ExclusiveIsExclusive ReleaseAllRoundTrip ListCountersExact
PROPERTIES StarvationFree DestroyCompletes
CHECK_DEADLOCK FALSE
