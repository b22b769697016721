# TLA+ models of easyrdma

This directory holds TLA+ models of the easyrdma streaming library (`src/core`).
Each model is written from the C++ source and checked with TLC. A module models
one component. An `MC_*` module instantiates it for TLC, and every `.cfg` is one
run listed in `PROJECT.json`. That file also records, for every definition, the
source lines it translates (`map`), the mutants that show each checked property
can fail, the findings, and the hazards of the code.

## 1. Inventory of the system

| Part | Source | State | Operations |
|---|---|---|---|
| Buffer queue | `common/RdmaBufferQueue.cpp`, `RdmaBuffer.cpp` | idle, queued, completed and waiting-for-credit FIFOs; the intrusive `userBuffers` list; `availableCredits`; sticky `queueStatus`; `aborted`; two condition variables | WaitForIdleBuffer, WaitForCompletedBuffer, QueueBuffer, AddCredit, ReleaseBuffer, HandleCompletion, Abort |
| Circular FIFO | `common/tCircularFifo.h` | `_buffer`, `_head`, `_size`, capacity | push, pop, front, reallocate |
| Credit protocol | `common/RdmaConnectedSessionBase.cpp` | aux credit queue (100 × 800 B, opposite direction), `preConfigureCredits` | PostConfigure auto-post, SendCreditUpdate, AckHandlerThread, AddCredit, ProcessPreConfigureCredits |
| Completion dispatch (Linux) | `linux/RdmaConnectedSession.cpp` | QP work queues (1024 deep), CQs, handler threads | QueueToQp, SendReceiveHandlerThread, PollForReceive, PollCompletionQueue |
| Session lifecycle | `RdmaConnectedSessionBase.cpp`, `linux/RdmaConnectedSession.cpp`, `linux/RdmaConnector.cpp`, `linux/RdmaListener.cpp`, `linux/EventManager.h` | `connected`, `_closing`, `bufferWaitInProgress`, transfer queue, threads | Connect/Accept, ConfigureBuffers/ConfigureExternalBuffer, HandleDisconnect, Cancel, Destroy |
| Access manager | `api/tAccessManager.h`, `tAccessSuspender.h`, `tAccessManagedRef.h` | active/pending/suspended request lists, per-thread request (counters and a nesting bit-word) from a pool of request objects, refcount | Acquire, Release, SuspendAccess, ResumeAccess, SatisfyRequest, IncRef/DecRef, ReleaseAll/AcquireAll, HasExclusiveAccess/HasSharedAccess |
| Session registry and C API | `api/rdma_api_common.h`, `api/rdma_api_c.cpp` | sessionMap, deferredCloseSessionMap, nextSession | RegisterSession, GetSession, DestroySession, CheckDeferredSessionDestructionReady, the `easyrdma_*` calls |
| Connection data | `common/RdmaConnectionData.cpp` | protocol versions | Validate |
| Error model | `common/RdmaError.h`, `api/errorhandling.cpp` | error code, first-error-wins Assign | Assign, last-error strings |
| Enumeration, addresses, threads, Windows provider | `linux/RdmaEnumeration.cpp`, `RdmaAddress.h`, `ThreadUtility.cpp`, `windows/*` | — | OS calls and formatting |

**How the parts interact.** An application thread calls an `easyrdma_*`
function. The function looks the session up in the registry and takes the
session's access manager exclusively. Blocking waits (AcquireSendRegion,
AcquireReceivedRegion, QueueExternalBufferRegion) suspend that access.
`bufferWaitInProgress` allows one such waiter per session. The session drives
its transfer buffer queue.

On the send side, QueueBuffer consumes a credit and hands the buffer to the
provider (QueueToQp). Without a credit it parks the buffer. The ack-handler
thread receives credit messages on the aux queue and calls AddCredit, which
releases parked buffers.

On the receive side, every posted receive buffer is announced to the peer by
SendCreditUpdate. The completion-handler thread takes work completions in
order and calls HandleCompletion. Disconnect and Cancel call Abort on both
queues.

**Hard behaviours.**
- Three threads touch one queue: the application (two threads when one is
  suspended in a wait), the ack handler and the completion handler.
- QueueBuffer and AddCredit call QueueToQp after dropping the lock.
- AddCredit's catch writes the status without the lock.
- The provider's work queue is bounded.
- Completions must come back in queue order (an assertion).
- Abort hands buffers the NIC still owns back to idle.
- The waits have no predicate loop, and ReleaseBuffer does not notify.
- Session teardown races user-held buffers and suspended waiters.

**Properties each part needs.**
- Buffer queue:
  - every buffer is in exactly one container;
  - a provider-owned buffer is never handed to the application;
  - completions match the queue head;
  - sends reach the provider in accepted order;
  - the credit/parking pairing holds;
  - waiters return.
- Credits: no send larger than the receive buffer it lands in; credits are
  neither lost nor duplicated; parked sends eventually go.
- Access manager: exclusive means exclusive, recursion unwinds, no deadlock,
  and it refines an abstract readers-writer lock.
- Registry: a deferred session is destroyed exactly when its last user buffer
  comes back.

## 2. Plan

The modules are listed in build order, most important behaviour first.

1. **BufferQueue**, the core (built). One RdmaBufferQueue with its application
   threads, the ack handler's AddCredit, the completion handler and the
   provider work queue.
2. **Representations** (built). `tCircularFifo` (`_head`, `_size`, modulo
   indices) shown to implement an abstract FIFO sequence, and tAccessManager's
   pooled `tRequest` (counters and nesting bit-word) shown to implement a
   stack of modes, both by `INSTANCE ... WITH`. BufferQueue and
   AccessManager use the abstract sequences.
3. **CreditFlow** (built). Composes a send BufferQueue, a receive BufferQueue and the
   aux credit queue in both directions. Credits come from the receiver posting
   buffers, not from the environment. Built with counted queues: credits
   match posted receives, credit updates complete, parked sends go. It also
   has both sides' AbortSession/CloseSession teardown, which shows a close
   that hangs. Still to come: several buffer sizes (over-size sends) and
   in-order delivery.
4. **AccessManager** (built). The recursive gate with pending list,
   suspend/resume and refcount, with GetSession/DestroySession's mapLock,
   and ReleaseAll/AcquireAll. Still to come: an abstract readers-writer lock shown to be implemented.
5. **SessionRegistry** (built). Close (with and without deferral),
   release-to-idle on a deferred session, and concurrent receive-side API
   calls, with the access manager abstracted. Still to come: the send side
   and the Create/Connect/Configure calls.
6. **Connection establishment** (built, as CreditFlow's first phase, since
   the project keeps at most twelve runs and all twelve are in use).
   `RdmaConnector::Connect`, `RdmaListener::Accept` with the accepting
   constructor, and the EventManager's queues with their sticky
   `waitAborted`. TLC reaches a connect timeout racing the REP (a half-open
   pair), an abort or close during a suspended connect, and a rejected
   connect. `bufferWaitInProgress`, with the access suspension around
   buffer waits, is in SessionRegistry (`OneBufferWait`).
7. **Pure operators**. ConnectionData encoding and validation (built, in
   `ConnectionData.tla`). Still to come: the big-endian u64 credit encoding
   and decoding as RECURSIVE operators checked against a reference.

## 3. Modules and how they correspond to the code

### BufferQueue (`BufferQueue.tla`, `MC_BufferQueue.tla`)

State:
- `idle`, `waiting`, `queued`, `completed` are the FIFOs: sequences of buffer
  model values.
- `user` is `userBuffers`. `credits` is `availableCredits`.
- `status` is `queueStatus`. It is assigned only while it is `"None"`, as
  `RdmaError::Assign` does.
- `used` is each buffer's `usedBytes`.
- `posted` is the provider's work queue, in completion order.
- `pc`, `timeout`, `signalled` and `postBuf` hold each application thread's
  control point, the timeout it passed, whether a `notify_all` reached it, and
  the buffer it is about to post.
- `ack`, `ackBuf` and `ackErr` are the ack handler's control point.
- `handler` is the completion thread, which exits silently on an exception.
- `pipeline` is a history variable: the accepted transfers in accept order.
- `external` is whether ConfigureExternalBuffer made the queue (an
  `RdmaBufferQueueSingleBuffer`: External ownership, Single type). Init
  chooses it from `ExternalModes`, never together with polling, which
  ConfigureExternalBuffer rejects. `PutBackToIdle` is
  `putBackToIdleOnCompletion`: the `RdmaBufferQueue` constructor sets it for
  Send (`QueuePutsBackToIdle`), the single-buffer constructor always.
- `usePolling` is the queue's `usePolling` (the UseRxPolling property). Init
  chooses it, `FALSE` for a Send queue, since the constructor and SetProperty
  reject polling for Send. With polling, no receive handler thread is started
  (`handler = "None"`).

Polling (Linux `PollForReceive`): a polling `WaitForCompletedBuffer` unlocks
`queueLock` and spins in `PollCompletionQueue` (pc `"Poll"`). Each step of
the spin either takes the oldest completion (`PollForReceive`, the same
`CompleteHead` as the handler thread) or, finding the queue empty, throws the
sticky status (`CheckQueueStatus`) or Timeout (`PollCompletionQueueThrows`).
After a completion the thread relocks and runs the rest of the wait
(`PollRelock`, pc `"Relock"`). A failed `ASSERT_ALWAYS` throws out of the
wait instead of ending a handler thread.

Each section under `queueLock` is one action. QueueToQp after the lock is its
own step (`QueueToQp`, `AckQueueToQp`). So is AddCredit's unlocked catch
(`AckAssignError`).

Application calls other than waits require that no thread holds the session's
exclusive access, i.e. no thread is between QueueBuffer and QueueToQp.
`QueueBufferRegion` is `easyrdma_QueueBufferRegion`: `SetUsed`, then the
session's `QueueBufferRegion` (`SetCompletionCallback`, then the locked
`QueueBuffer`). `SetUsed` happens before QueueBuffer's user-list check, as in
the code. `Requeue` is `RdmaBuffer::Requeue` (a received region released back
to the NIC): the length is kept. Completion callbacks are not modelled: they
change no queue state, and every property about them is violated by the
code (see the callback hazard in section 4), so they would need a violation
run of their own.

`WaitForIdleBuffer` is entered through `AcquireSendRegion`, whose checks are
`AcquireSendRegionAllowed`: it throws InvalidOperation on a receive queue
(ConfigureBuffers always sets `autoQueueRx`) and on an external queue.

External queue: `QueueExternalBufferRegion` is the call's first part,
under its `BufferWaitAccessSuspender`: `WaitForIdleBuffer`, blocking in
pc `"ExtWaitIdle"`, which moves the oldest idle buffer to `userBuffers`.
`QueueExternalRegion` is the rest: on a queue that is not external it
throws InvalidOperation and the buffer stays on `userBuffers`, though the
application never received it (a hazard); on an external queue it runs
`SetBufferRegion` (usedBytes = size), `SetCompletionCallback` (not
modelled) and Requeue,
i.e. `LockedQueueBuffer` and QueueToQp (pc `"ExtPost"`), all while the
session's access is suspended, so other calls are not held off. Only the
threads in `ExtUsers` make this call. On an external queue,
AcquireSendRegion, QueueBufferRegion and the release calls are rejected or
have no region to name, so they are disabled.
Credits arrive nondeterministically, at most `MaxCredits` of them, with
sizes in `CreditSizes`.

Runs (bounds: 3 buffers, 2 application threads, sizes {1,2}):

| Run | cfg | Expect | Checks |
|---|---|---|---|
| bq_send | `BufferQueue_send.cfg` | pass | TypeOK, BufferPartition, NicOwnedNotUser, ParkedOnlyWithoutCredit on a send queue with work-queue depth 2 < 3 buffers, 3 credits |
| bq_receive | `BufferQueue_receive.cfg` | pass | PostedPrefixOfQueued, BufferPartition, WaitCompletedReturns on a receive queue with depth 3, internal (with and without polling) or external, both threads calling QueueExternalBufferRegion |
| bq_overcommit | `BufferQueue_overcommit.cfg` | violation | PostedPrefixOfQueued with depth 2 < 3 buffers and 4 credits |
| bq_order | `BufferQueue_order.cfg` | violation | SendOrderPreserved |
| bq_wakeup | `BufferQueue_wakeup.cfg` | violation | WaitIdleServed |

What the runs show:
- **Overcommit.** The code allows more buffers than `max_send_wr`/`max_recv_wr`
  (1024). A failed post leaves an unposted buffer in `queuedBuffers`. The next
  completion then fails `ASSERT_ALWAYS(&buffer == queuedBuffers.front())`, which
  in release builds throws, and the completion thread exits silently.
- **Order.** AddCredit stamps TooLarge outside the lock. In that window
  QueueBuffer consumes the too-small credit and posts a later send, while
  the parked send stays parked and is never sent.
- **Credits.** After AddCredit rejects a credit, the credit and the parked
  buffer both stay, contrary to spec §3. `ParkedOnlyWithoutCredit` checks
  that this pairing is broken only once the queue has failed: a parked send
  beside an available credit implies a sticky status, or the ack handler
  about to assign it. The mutant in which the ack handler's catch exits
  without assigning the status breaks it (the queue then looks healthy
  with a credit and a parked send that will never go).
- **Parked (a hazard, no run).** `easyrdma_QueueBufferRegion` calls `SetUsed`
  before QueueBuffer's InvalidOperation check. A rejected re-queue of a region
  that is parked for a credit therefore changes the length that the accepted
  send is later checked and posted with. `QueueBuffer` models this order, but
  it takes an application that re-queues a region it has already queued, so it
  is recorded as a hazard and has no run.
- **External buffers.** On a receive queue made either way, buffers stay in
  exactly one container through QueueExternalBufferRegion's wait, its check after the wait, and
  completions that go straight back to idle. The mutant of QueueBuffer
  that does not unlink the accepted buffer breaks BufferPartition. On an
  internal queue the call leaves the buffer it took on `userBuffers`: the
  pool shrinks by one for good, and a deferred CloseSession then waits for
  a region the application cannot return. This is recorded as a hazard;
  stating it as a property needs a violation run of its own.
- **Wakeup.** ReleaseBuffer does not notify `idleAvailableCond`, so an infinite
  WaitForIdleBuffer can stay blocked with an idle buffer present.

Why these bounds are enough:
- Three buffers with two threads let one thread block in a wait while the other
  queues, releases or double-queues.
- Two credit sizes and two send sizes make both the fitting and the too-large
  case happen.
- A depth one smaller than the pool makes post failure reachable.
- The receive run uses a depth equal to the pool, which is the configuration
  the library needs to be correct.
- QueueExternalBufferRegion is called only in the receive run
  (`ExtUsers`): on the send queue its leaked buffers multiply the state
  space about threefold and the run asks nothing of them that the receive
  run does not.

Fairness (`Fairness`): weak fairness on
- the completion handler (the NIC completes posted work);
- a QueueExternalBufferRegion whose wait has returned;
- the ack handler's post and error steps;
- a woken waiter;
- a polling waiter's completion poll, its relock, and its CheckQueueStatus
  once the queue has an error (the spin runs while the thread is scheduled;
  a finite timeout is not forced, as for blocking waits);
- a thread between QueueBuffer and QueueToQp.

These are threads that, once runnable, are scheduled by the OS. No fairness is
assumed for application calls, credits, timeouts or aborts. Weak fairness on
completions also means that every posted receive eventually completes (a
peer send or a flush). Under that assumption the polling wait never depends
on `CheckQueueStatus` to return. The spin of a polling wait after a Cancel
with no completion to come is therefore recorded as a hazard without a
property.

Symmetry over buffers is used only in the safety runs.

### Representations (`CircularFifo.tla`, `Fifo.tla`, `AccessRequest.tla`, `AccessStack.tla`, `MC_Representations.tla`)

Two data representations of the library, each checked against the abstract
structure the other models use. `MC_Representations` instantiates both
(`Fifo == INSTANCE CircularFifo`, `Req == INSTANCE AccessRequest`). They
share no state, so a step of the run is a step of one of them.

**Circular FIFO.** `Fifo` is the abstract bounded queue: a sequence
`contents` with push (when not full), pop (when not empty) and clear.
`CircularFifo` is `tCircularFifo`: `buffer` is `_buffer`, `head` is `_head`,
`size` is `_size`, and the read and write indices are the code's modulo
arithmetic. `Contents` reads the ring from `head`;
`Abstract == INSTANCE Fifo WITH contents <- Contents` is the refinement
mapping, and `FifoRefinement` is `Abstract!FifoSpec`. With 2 values and
capacity 3 the indices wrap twice. BufferQueue therefore uses plain
sequences for its FIFOs.

**Request objects.** `AccessRequest` is `tAccessManager::tRequest` and its
pool:
- `request[r]` holds an object's `shared`, `exclusive` and `nesting`
  fields. `nesting` has `NestingBits` bits, one per level, newest in bit 0
  (1 = shared).
- `emptyList` is `emptyRequests` and `allocated` the objects made so far.
- `ours[t]` is the object thread t's accesses live in, and `removed[t]`
  what its last RemoveLast returned.

The actions:
- `NewRequest` is `operator new` plus the constructor. It takes the head of
  `emptyRequests`, or MakeNewRequest's raw memory when the list is empty.
  The constructor zeroes the counters but never `nesting`, so the word
  starts with the previous user's bits or with any value (`Raw`).
- `AddAccess` is a nested Get*Access: `tRequest::Add`, shifting the bit into
  the word modulo 2^NestingBits.
- `ReleaseRequest` is Release's `RemoveLast`, followed by `operator delete`
  (back at the head of the list) when no access is left.
- `SuspendPurge` is SuspendAccess's `Add(kExclusive); RemoveLast()` pair.

Which requests are active, pending or suspended, and who is granted what,
is AccessManager's business and is not repeated here.
`Stack == INSTANCE AccessStack WITH modes <- ...` maps each thread to the
stack `NestingStack` decodes from the low `Count()` bits.
`RequestRefinement` checks `Stack!StackSpec`: every Add pushes, every
RemoveLast pops the newest level and returns its mode, and the suspend
pair changes nothing. `CountsMatchNesting` checks that the counters that
GetExclusiveAccess, SuspendAccess and SatisfyRequest decide on agree with
the word. `RequestPoolPartition` checks that an object is on the free list
once or in use by one thread, never both.

Bounds: 2 threads and 2 objects, one preallocated, so both `operator new`
paths happen and a thread reuses a word the other left behind. The word
has 3 bits and the depth bound is 2, leaving the spare bit the suspend
pair needs, as a 32-bit word leaves it up to depth 31. Every 3-bit value
is a possible raw word; raw counters are 1, so a missing reset would show.
At depth 3 in a 3-bit word, TLC finds the suspend pair shifting out the
oldest shared level: the release-build behaviour at depth 32, where the
depth assert is compiled away. The library's call paths nest only a few
levels, so this is recorded as a hazard, not a run.

| Run | cfg | Expect | Checks |
|---|---|---|---|
| representations | `Representations.cfg` | pass | FifoTypeOK, RequestTypeOK, RequestPoolPartition, CountsMatchNesting, FifoRefinement, RequestRefinement |

### AccessManager (`AccessManager.tla`, `MC_AccessManager.tla`)

State:
- `req[t]` is thread t's `tRequest`: its nesting stack, newest last ("S" or
  "E"); the `shared` and `exclusive` counts are the numbers of each. The
  code's representation of this stack (counters, a uint32 bit-word, pooled
  objects) is `AccessRequest`, checked to refine it in the
  `representations` run.
- `active`, `pending` (head first) and `suspended` are the three request
  lists. Only `pendingRequests` is kept in order: the code only looks the
  other two up by thread id or sums their counts.
- `signalled` are the request signal events that are set (auto-reset: a
  signal given before the wait is not lost).
- `refcount` and `allReleased` are the counter and the manual-reset
  `allRefsReleased` event, initially set.
- `mapHolder`, `inMap` and `closer` are SessionManager's `mapLock` owner,
  whether the handle is still in `sessionMap`, and the thread in
  `DestroySession`.
- `cnt` is the cached `shared`/`exclusive` counters of `activeRequests` and
  `pendingRequests` (`tRequestList::CountShared`, `CountExclusive`). Every
  `RemoveHead`, `Remove`, `AddAtHead` and `AddAtTail` updates them with the
  moved request's counts, and `CanSatisfy`, `HasExclusiveAccess` and
  `HasSharedAccess` read them, not the lists. The suspended and empty lists'
  counters are never read and are not kept.
- `pc`, `want` and `waited` are each thread's control point, the mode its
  current Acquire asks for, and whether its current API call has made its
  one buffer wait.

Actions: every block under `criticalSection` is one step (GetAccess inside
`GetSession`/`NestedAcquire`/`AcqReset`, `Wake`, `Release`, `SuspendAccess`,
`ResumeAccess`). `SatisfyRequest` is the operators `CanSatisfy`, `GrantHead`
(the high-priority, different-thread call on the pending head) and
`SatisfyOwn` (the caller's low-priority call, which may block). IncRef and
DecRef are not under the lock: `++refcount == 1` and the `reset()` are two
steps (`GetSession` → `AcqReset`), and so are `--refcount == 0` and the
`release()` (`Release` → `SignalAllReleased`). The decrement itself is
taken in the same step as Release's locked section, although the code runs
it after the lock is dropped; what races is the decrement against the
event, and that split is kept. A top-level Acquire is made by
`GetSession` under `mapLock`, as `SessionManager::GetSession` and
`DestroySession` construct their `RdmaSessionRef` there; `MapUnlock` ends the
block, and for `DestroySession` erases the handle. The closer then Releases
and waits (`WaitAllDone`).

`ReleaseAll` and `AcquireAll` are public but used only by the unit tests
(`AccessMgrTests.cpp`). The threads in the constant `StackThreads` may call
them, so the run checks them against concurrent threads. The unit tests only
check them on one thread.
- `call[t]` is the thread's place in them. "Holding" means that ReleaseAll
  has returned its stack.
- `stack[t]` is the `tAccessStack`: `val[0..size-1]`, true for exclusive.
- `saved[t]` is a history variable: the request that ReleaseAll started from.

One turn of ReleaseAll's loop (`ReleaseAll`) tests
`HasExclusiveAccess() || HasSharedAccess()` and then Releases. These two
functions use the counts of the whole `activeRequests` list, not the caller's
own, as the code does (`HasExclusiveAccess`, `HasSharedAccess`).
`ReleaseAllReturn` is the loop exit. `AcquireAll`, `AcquireAllNext` and
`AcquireAllReturn` replay the stack from `val[size-1]` down (`AcquireNext`).
A call makes at most one such round and then unwinds, as it makes at most
one buffer wait.

The private `YieldExclusive` and `ReleaseAndReacquireAtEnd` are never called
and are not modelled.

| Run | cfg | Expect | Checks |
|---|---|---|---|
| am_live | `AccessManager_live.cfg` | pass | TypeOK, ExclusiveIsExclusive, ReleaseAllRoundTrip, ListCountersExact, StarvationFree, DestroyCompletes: 3 threads (one also using ReleaseAll/AcquireAll), shared and exclusive, nested 2 deep, suspend/resume, destroy |
| am_refs | `AccessManager_refs.cfg` | violation | DestroyWaitsForAllRefs, exclusive only as the API uses it |

What the runs show:
- **Exclusion.** Exclusive access stays exclusive through the hand-offs of
  Release and SuspendAccess, the cascade after a wait, and the non-atomic
  shared-to-exclusive upgrade (the upgrading thread leaves `active` and
  queues; another thread can take exclusive first, which is allowed).
- **Round trip.** `ReleaseAllRoundTrip`: when ReleaseAll returns, the thread
  holds nothing. Throughout both loops, the accesses it still holds followed
  by its stack (newest entry first) equal the request it started from. So
  AcquireAll gives back the same accesses in the same nesting order, even
  while other threads take, queue for and hand on the access between two
  turns. Replaying the stack from `val[0]` upwards breaks it.
- **Counters.** `ListCountersExact`: the cached counters of the active and
  pending lists equal the requests on them. GetAccess's re-entry removes
  the thread's old request from `active` before adding the grown one; the
  mutant that grows it in place, as the request object is shared, leaves
  the counter one short and breaks it.
- **Liveness.** Newcomers queue behind a non-empty pending list, and every
  Release, SuspendAccess and woken waiter tries the pending head, so a
  blocked thread is always granted access, and DestroySession's wait ends.
- **Refs.** The 14-step trace: t1's last Release takes the count to 0; t2's
  GetSession takes it to 1 and resets the event; t1's `release()` then sets
  it. t2 suspends in a buffer wait, t1 destroys the session, and
  `WaitForAllReferencesToBeReleased` returns at once with t2's reference
  still held.

Bounds: three threads are the fewest for the race (one releasing, one
acquiring, one destroying) and for a pending list of two behind a holder.
Depth 2 covers re-entry in both modes. Within one call, a thread that has
started dropping its nested references does not acquire new ones (`waited`).
An API call is a finite stack of references, and without this rule an endless
acquire/release loop of one holder would count as starvation.

Fairness: weak fairness on every step of a thread that is inside a call
(`AcqReset`, `Wake`, `MapUnlock`, `SignalAllReleased`, `WaitAllDone`), and on
`Release` and `ResumeAccess`: each `RdmaSessionRef` lives for one API call,
and a buffer wait ends by completion, timeout or the Cancel that
DestroySession issues. No fairness on starting calls. The run does
not check deadlock. A stuck state is a violation of its two liveness
properties, which TLC reports. The state after DestroySession
(`Terminated`) is the allowed end.

### SessionRegistry (`SessionRegistry.tla`, `MC_SessionRegistry.tla`)

State:
- `table[s]` is where handle s is: in `sessionMap` ("open"), in
  `deferredCloseSessionMap` ("deferred"), or in neither ("erased").
  `destroyed[s]` means the session's last `shared_ptr` is gone.
- `mapHolder` is the owner of `mapLock`. The session's tAccessManager is
  reduced to `holder[s]` (exclusive access, the only kind the API asks for)
  and `refs[s]` (live `RdmaSessionRef`s). AccessManager models it in full.
- `posted`, `ready` and `userBufs` count the receive queue's buffers that
  are at the NIC, completed, and held by the application. `aborted` is the
  queue's Abort, and `waitFlag` is `bufferWaitInProgress`.
- Each thread has `pc`, `sess`, `op` (the easyrdma call it is in) and `pend`
  (its ref's `destructionPending`).

Actions:
- `Call` is `GetSession` or the first part of `DestroySession`, under
  `mapLock`. `Grant` is the access being granted, which then frees `mapLock`.
- `StartWait`, `WaitTake`, `WaitFails`, `ClearWaitFlag` and `Resume` are
  `AcquireReceivedRegion`. The wait runs with access suspended, under
  `BufferWaitAccessSuspender`. Its destructor clears `bufferWaitInProgress`
  (`ClearWaitFlag`) before the base `tAccessSuspender` resumes the access
  (`Resume`), so the flag is cleared without the access held.
- `Requeue` is `ReleaseReceivedBufferRegion`. `ReleaseToIdle` and
  `EraseDeferred` are `ReleaseUserBufferRegionToIdle` with
  `CheckDeferredSessionDestructionReady`.
- `AbortSession` is `easyrdma_AbortSession`.
- `DestroySession`, `CancelSession` and `Drain` are `CloseSession`.
  `CancelSession` runs `RdmaBufferQueue::Abort` (`CancelQueue`): posted
  buffers go back to idle and `completedBuffers` is left as it is, so
  `WaitTake` still hands a completed buffer to a waiter after the abort,
  as `WaitForCompletedBuffer` does. `Drain` is
  `ReleaseAndWaitForAllReferencesGone`: the closer keeps its `shared_ptr`
  until it returns, so the session is destroyed only by the last of
  several closers still draining it (`OtherDrainer`). `DestroySession`'s
  two acquires of the session (the lookup and the access request) are one
  step under `mapLock`, since nothing can intervene between them.
- `Completion` is the NIC completing a posted receive.

| Run | cfg | Expect | Checks |
|---|---|---|---|
| sr_close | `SessionRegistry_close.cfg` | pass | TypeOK, NoUseAfterDestroy, OneBufferWait, DeferredEventuallyDestroyed: 3 threads, 1 session, 2 buffers |
| sr_stale | `SessionRegistry_stale.cfg` | violation | DeferredCloseKeepsUserBuffers |

What the runs show:
- **No use after destroy.** With every interleaving of a receiver, a
  releaser and a closer, no call works on a destroyed session. The
  non-deferred close waits for all references. A deferred close leaves the
  session to the last `ReleaseUserBufferRegionToIdle`, and that call
  destroys it.
- **One buffer wait.** `OneBufferWait` (spec.md: the second concurrent
  buffer wait fails with BufferWaitInProgress) holds although the flag is
  cleared outside the access. A second AcquireReceivedRegion that sees the
  flag already cleared finds the first wait over, because the first thread
  cleared it only after leaving the wait. Dropping the flag check breaks it.
- **Stale deferral check** (10 steps):
  1. t1 is suspended in `AcquireReceivedRegion`.
  2. t2 closes with `DeferWhileUserBuffersOutstanding`, and
     `CheckDeferredDestructionConditionsMet` sees no user buffers, so the
     session is not deferred.
  3. Before t2's `Cancel`, a receive completes and t1 takes it.
  4. `Cancel` and the reference wait then destroy the session, and its
     registered memory, while the application holds the region.
- **Unlocked erase** (a hazard, no run): `CheckDeferredSessionDestructionReady`
  erases from `deferredCloseSessionMap` without `mapLock`. With a second
  session, that step (`EraseDeferred`) can run while another thread is
  inside `GetSession`, which is a data race on the `std::map`.
- **Two closers** (a hazard, covered by NoUseAfterDestroy): after a
  deferred close's `Cancel`, a waiter still takes a completed buffer. A
  `ReleaseUserBufferRegionToIdle` that found the handle in
  `deferredCloseSessionMap` before another release erased it then releases
  that buffer. It runs `CheckDeferredSessionDestructionReady` for a handle
  already erased: the assert at `rdma_api_common.h:76` fails in a debug
  build. In a release build both threads drain, and the session is
  destroyed only when the second one returns, so no call uses it after.

Bounds: one session and two buffers give a held buffer next to a completed
one. Three threads let a waiter, a releaser and a closer all be present.

Fairness:
- Weak fairness applies to every step of a call that has started.
  `WaitFails` is fair only once the queue is aborted, which models
  `Cancel`.
- A buffer wait with an infinite timeout on a live queue need not end.
- Starting calls are not fair.

### ConnectionData (`ConnectionData.tla`)

`common/RdmaConnectionData.{h,cpp}` as operators over the byte string a
session sends with its CM message. `CreateDefaultConnectionData` writes the
packed record (big-endian `protocolId`, `protocolVersion`,
`oldestCompatibleVersion`, `direction`). `ValidateConnectionData` reads a
buffer in place and returns the error it would throw, or "OK". `SpecAccepts`
is spec.md's acceptance rule for a received ConnectionData (§ConnectionData),
written independently as a reference. CreditFlow uses the operators in the
accepting constructor and checks the two against each other
(`AcceptFollowsSpec`).

### CreditFlow (`CreditFlow.tla`, `MC_CreditFlow.tla`)

One Send session (an RdmaConnector) and one Receive session (the one an
RdmaListener's Accept creates), from before the handshake on. They are
joined by a data link and by a credit ("aux") queue of `AuxDepth` messages
in each direction. Queues are counted: BufferQueue has the per-buffer FIFO
order and the locking.

The CM (librdmacm and the peer's CM) is not in this repository. It is
reduced to the events it queues on each side's `ConnectionQueue`:
CONNECT_REQUEST at the listener when the connector calls `rdma_connect`;
ESTABLISHED at the connector when its CM takes the REP; ESTABLISHED at the
listener when the RTU arrives; REJECTED for a rejected or abandoned
handshake; DISCONNECTED at both sides when an established side calls
`rdma_disconnect` or the link fails. Two assumptions are made about it:
- A listener that gives up before the connector has taken the REP causes a
  reject.
- A listener that gives up after the RTU was sent causes a disconnect.

State:
- Sender: `sIdle`, `sUser`, `sWait` (parked for credit), `sQueued` (posted)
  are its buffers. `sCredits` is `availableCredits`, `sPre` is
  `preConfigureCredits`, `sCfg` means `transferBuffers` exists.
- Sender's ack handler: `sAuxPosted` and `sAuxDone` (one count of credits per
  completed message) are its aux receives; `ack` and `ackLeft` are where
  `AckHandlerThread` is and how many u64s of the current message it has left.
- Wire: `auxWire` holds credit messages in flight, as counts.
- Receiver: `rIdle`, `rPosted`, `rDone`, `rUser` are its buffers.
  `rLeft` is what `PostConfigure` still has to announce. `rAuxIdle` counts
  its idle credit messages. `rPc` = "Credit" is a release between its post
  and its `SendCreditUpdate`.
- `wireUp` means both queue pairs exist and are connected. `sConn` and
  `rConn` are each side's `connected`.
- Handshake: `cPc` is the connector's `Connect` (not called, waiting for
  ESTABLISHED, in its catch joining the ack handler, done, failed).
  `cAbortWaits` is its connection queue's sticky `waitAborted`. `cData` is
  the ConnectionData it sends. `lDir` is the direction the listening
  application accepts with. `lPc` is `Accept` with the accepting constructor
  (waiting for CONNECT_REQUEST, waiting for ESTABLISHED, done, rejected,
  failed). `cm` is how far the CM handshake has got. `cmDisc` means
  DISCONNECTED has been queued at both sides.
- `rAuxErr` means the receiver's credit queue holds a completion error.
- `sApp` is the sending application: running, inside `AbortSession`, aborted,
  inside `CloseSession`, closed. `rClose` is the receiver's `CloseSession`:
  not called, waiting for the session's exclusive access, returned.

Actions:
- `SConnect` is `Connect` up to `rdma_connect`, including `PreConnect`
  (`PreConnectSend`: credit receives posted, ack handler started). A failed
  resolution, or waits already aborted, goes straight to the catch.
- `ConnectOutcome` is what Connect's `WaitForEvent(timeoutMs)` and the check
  of the listener's data come to. Waits already aborted give
  OperationCancelled. A queued REJECTED gives UnableToConnect. With nothing
  queued, the timeout fires. Otherwise the result is the ConnectionData check.
- `SEstablished` is the success path, with `PostConnect`. `SConnectFails` and
  `SConnectReturns` are the catch: `Cancel` aborts the connection queue and
  the credit queue, the ack handler is joined, then `DestroyQP`. No
  `rdma_disconnect` happens here.
- `LAccept` is `Accept` taking CONNECT_REQUEST (`ConnectRequestTaken`) and
  the accepting constructor up to `rdma_accept`. If the connector's data
  fails the check, `rdma_reject` is called and the session is destroyed.
- `CMReply` and `CMReadyToUse` are the CM queueing ESTABLISHED at the
  connector and then at the listener. The connector's queue pair is readied
  only if Connect's catch has not destroyed it. A connector id that has been
  destroyed answers with a reject.
- `LEstablished` is the constructor's `WaitForEvent(1000)` returning
  ESTABLISHED, then `PostConnect`. `LEstFails` is its timeout or a REJECTED,
  whose catch calls `Destroy`.
- `RAuxSendFails` is a credit message sent to a queue pair that is gone. It
  completes with an error, which `HandleCompletion` makes the queue's sticky
  status.
- `SConfigureBuffers` is the sender's `ConfigureBuffers` with
  `ProcessPreConfigureCredits`. `SAcquireSendRegion` and `SQueueBufferRegion`
  are the send calls; a send with no credit is parked.
- `DeliverData` is a send completing into a posted receive.
- `AckWait`, `AckAddCredit` and `AckRequeue` are the three parts of
  `AckHandlerThread`'s loop: wait for a completed aux buffer, `AddCredit` each
  u64 under `configureLock` (staged if not configured), re-post.
- `DeliverAux` is a credit message landing in a posted aux receive. With none
  posted the NIC waits (RNR retry). It is enabled only once the connection
  handler is done, a stricter order than the code's, where a credit can
  land while Connect is still returning; no property depends on it
  arriving earlier.
- `RConfigureBuffers` and `RSendCreditChunk` are `PostConfigure`: post every
  receive, then announce them in chunks of at most `MaxCreditsPerBuffer`.
- `RAcquireReceivedRegion`, `RReleaseReceivedRegion` and `RReleaseCredit` are
  the receive calls. Release posts the buffer, then sends one credit.
- `LinkDown`, `SHandleDisconnect` and `RHandleDisconnect` are the
  disconnect event and each side's `HandleDisconnect` (Abort of both queues).
- `SCancel` is `RdmaConnector::Cancel`. `AbortWaits` ends the connection
  handler for good; Abort(OperationCancelled) then hits both queues. Parked
  sends go idle. Posted sends and credit receives stay at the NIC, and their
  completions are swallowed (`DeliverAux`'s second disjunct). The sends
  stay counted in `sQueued`, which no property reads after a cancel.
  `SAbortSession` and `SCloseSession` are the two API calls that run it.
  `SAbortReturns` is Cancel's join of the ack handler. `SDestroySession` is
  the destructor's `Destroy`: disconnect, join the handlers, `HandleDisconnect`.
  An aborted sender still makes calls (`SenderCalls`): `ConfigureBuffers` only
  checks `connected`, which nothing clears any more.
- `RCloseSession` and `RDestroySession` are the receiver's `CloseSession`.
  `DestroySession` waits for exclusive access, which a release or configure
  holds through its credit update. It then cancels, disconnects and destroys.

| Run | cfg | Expect | Checks |
|---|---|---|---|
| cf_flow | `CreditFlow_flow.cfg` | pass | TypeOK, CreditsMatchPostedReceives, AcceptFollowsSpec, CreditUpdateCompletes, ParkedSendsGo, CloseCompletes, ConnectReturns, HalfOpenEnds: 2 send buffers, 3 receive buffers, 1 aux message each way, chunks of 2, six connector ConnectionData, accepting as Receive or Send (72,618 states) |
| cf_closehang | `CreditFlow_closehang.cfg` | violation | CloseCompletes, when an aborted sender may stay open |

What the run shows:
- **The listener admits what the spec admits.** The accepting constructor
  rejects a connector exactly when spec.md's rule refuses its ConnectionData.
  The inputs cover the default data, a newer but compatible version, an
  incompatible version, the id in little-endian order, a truncated record
  and a record with no direction, accepted as Receive and as Send. The code
  holds the peer's `oldestCompatibleVersion` against its own
  `oldestCompatibleVersion`, where the spec names `protocolVersion`. Both
  are 1, so the two agree today.
- **Connect returns.** A Connect that has sent its REQ always returns. Its
  wait ends by ESTABLISHED, REJECTED, the timeout or an abort. The catch's
  join of the ack handler ends only because `Cancel` aborts the credit queue
  that handler waits on.
- **Half-open ends.** Connect can time out, or be aborted, after the
  listener accepted. The REP is then still answered and the listener's
  `Accept` returns a connected session. But the connector destroyed its
  queue pair and sent no DREQ. The listener's credit sends fail
  (`RAuxSendFails`), and nothing tells it the peer is gone until the
  connecting application closes its failed session. `Destroy`'s
  `rdma_disconnect` then queues DISCONNECTED. The property holds under the
  assumption that an application closes a session whose Connect failed.
- **Credits match receives.** While the link is up, the posted receives are
  exactly the sends in flight plus every credit not yet spent. This holds
  until the sender aborts; after that it drops the credits that arrive. The credits
  counted are those still to be announced, those in an unfinished release,
  on the wire, in completed aux buffers, being decoded, staged before
  configure, and available. So a send never finds no receive posted.
- **Credit updates complete.** A release's `SendCreditUpdate` waits (-1) for
  an idle aux message. It always gets one, because the sender's ack handler
  re-posts and the receiver's aux completion recycles.
- **Parked sends go.** With sends parked and none in flight, one is posted
  or the link goes down.
- **Close completes (cf_flow).** A receiver's `CloseSession` returns,
  provided a sender that aborted later closes.
- **Close hangs (cf_closehang, a finding).** The sender calls `AbortSession`
  and keeps its session open. Its ack handler has exited. The credit message
  its still-posted receive takes is swallowed, though its send completes. The
  receiver's next credit message finds no receive posted, fails, and never
  comes back to idle. A release then blocks in `SendCreditUpdate`'s
  `WaitForIdleBuffer(-1)` while it holds exclusive access. The receiver's
  `CloseSession` waits for that access inside `DestroySession`, and it holds
  `mapLock` while it waits, so every other API call stalls too. The trace has
  25 steps. spec.md says blocking waits suspend the access so that a close can
  begin teardown (line 138). It also says close delivers cancellation to every
  in-flight blocking call (line 167).
- **Disconnect during release** (a hazard, no run): if the link goes down
  between `QueueRecvBuffer`'s post and its credit update, the update throws
  Disconnected. The C API's catch then calls `Release()` on a buffer Abort has
  already made idle, and returns InvalidOperation. TLC reaches this in 15
  steps.

Bounds: six connector ConnectionData (two accepted, four refused, one per
check of `ValidateConnectionData`), and the two accept directions. 3 receive buffers with chunks of 2 make `PostConfigure` send two
chunks. One aux message each way forces every credit to wait for a re-post.
Two send buffers let one be parked while another is in flight.

Fairness: weak fairness on the handler threads (deliveries, the ack handler,
`HandleDisconnect`) and on the receiving application. The application
configures its session and keeps reading and releasing; without that, no
credit is ever sent. The steps inside a teardown call (`SAbortReturns`,
`SDestroySession`, `RDestroySession`) are weakly fair. The applications'
choices to abort or close are not fair, and neither are the sending
application's calls. `Spec` adds one assumption: a sender that aborted
eventually closes (`SCloseAborted`). `SpecAbortedStaysOpen` drops it, and
that is the run that shows the hang. The connect phase adds weak fairness on
the CM, on the connector's catch, and on the timeouts, which are finite. With
`timeoutMs = -1` the connector's wait still ends, through the CM's own
timeout (REJECTED or UNREACHABLE). The listening application calls `Accept`
until a session comes. Connect itself is an unfair application call. Both
specifications also assume that an application whose Connect failed closes
that session (`SCloseFailed`).

## 4. Not modelled, and why

- Enumeration, address parsing, last-error strings and errno translation are
  I/O and formatting.
- The Windows provider (`src/core/windows/`) is left out. Its connect,
  accept and disconnect paths are driven by NetworkDirect overlapped
  operations: `Connect`, `CompleteConnect`, `Accept`,
  `GetConnectionRequest` and `NotifyDisconnect`. How these complete, and how
  they interact with `CancelOverlappedRequests`, is defined by the
  NetworkDirect provider, which neither the repository nor spec.md
  describes. A model of them would be a guess at the provider, not a
  translation of this code. The code the Windows sessions share with Linux
  is modelled by BufferQueue, CreditFlow, AccessManager and
  SessionRegistry: the credit protocol, the buffer queues and the access
  manager. Two points are noted for a later model:
  - `HandleHROverlappedWithTimeout` (`windows/RdmaCommon.h:56-58`) throws
    Timeout without cancelling the overlapped operation, and the
    `OverlappedWrapper` it waited on is a local of the enclosing block.
    In `RdmaConnector::Connect` (`windows/RdmaConnector.cpp:52-64`) the
    wrapper is destroyed while the stack unwinds. `CancelOverlappedRequests`
    runs only afterwards, from the catch's `Cancel`. So a `Connect` that
    completes in that window writes to freed stack memory. The accepting
    constructor (`windows/RdmaConnectedSession.cpp:30-41`) has the same
    shape: its catch calls `Destroy`, which disconnects without cancelling
    the pending `Accept`.
  - `_closing` (`windows/RdmaConnectedSession.h:61`) is a plain `bool`.
    `Destroy` writes it while the `EventHandlerThread` reads it, and it
    also resets `cq` while that thread tests `cq.get()`. Both are data
    races. `acceptInProgress` in `windows/RdmaListener.cpp` is likewise
    cleared with the session's access suspended.
  - The Windows `EventHandlerThread` stops polling once `_closing` is set,
    so completions flushed by `Destroy` are never delivered.
- Memory registration, thread creation and the fd poller are OS wrappers.
- Spurious wakeups and GetProperty are not in BufferQueue. GetProperty
  only reads; a spurious wakeup of an infinite wait would return Timeout
  (no predicate loop), which needs a violation run of its own and is
  listed as a hazard. Completion callbacks are not modelled: they change
  no queue state, and `QueueBuffer`'s rejected re-queue overwrites an
  in-flight transfer's callback (a hazard), so any property about them is
  violated and needs a violation run of its own. The polling receive path
  is modelled, except the blocking poll's fd-poller cancellation.
- The request lists of tAccessManager (`tRequestList`: singly linked, walked
  by thread id) are sequences and sets in AccessManager and AccessRequest.
  Their pointer manipulation is a plain list and is not checked separately;
  their cached counters are modelled (`cnt`).
- A request allocation that fails (MakeNewRequest returning NULL) is not
  modelled. It is listed as a hazard.
- The CM protocol itself (librdmacm, the kernel CM and the peer's CM) is not
  part of this repository. It is reduced to the events it queues; section 3
  states the two assumptions made about it.
- Some connect and accept paths change nothing the properties see, so they
  are left out:
  - a second `Connect` after a failed one (it fails again: the id is already
    resolved, or `waitAborted` is sticky);
  - `Accept`'s own timeout before any request (it is simply called again);
  - the listener's `Cancel`;
  - the address and route resolution events (merged into `SConnect`).
- The connector's check of the listener's data always passes: the listener
  sends its default data, which passes whenever the listener's own check
  passed.
- Spurious wakeups of the connection queue's wait (`EventManager.h:37`) are
  not modelled, so the connection handler never dies of one. This is listed
  as a hazard.
