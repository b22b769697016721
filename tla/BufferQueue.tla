---------------------------- MODULE BufferQueue ----------------------------
(***************************************************************************)
(* One RdmaBufferQueue (src/core/common/RdmaBufferQueue.cpp) together with *)
(* the threads that drive it:                                              *)
(*  - application threads (Users) calling WaitForIdleBuffer,               *)
(*    WaitForCompletedBuffer, QueueBuffer and ReleaseBuffer through the    *)
(*    easyrdma_* API; non-waiting calls hold the session's exclusive       *)
(*    access, blocking waits suspend it (BufferWaitAccessSuspender);       *)
(*  - the ack handler thread, which calls AddCredit for every credit the   *)
(*    peer announces (Send direction only);                                *)
(*  - the completion handler thread (SendReceiveHandlerThread), which      *)
(*    takes the oldest posted work request and calls HandleCompletion;     *)
(*  - disconnect / cancel, which call Abort.                               *)
(* With UseRxPolling (Linux, Receive only) no receive handler thread is    *)
(* started: WaitForCompletedBuffer drops queueLock and polls the           *)
(* completion queue itself (PollForReceive), then relocks.                 *)
(* The five containers of the queue are idle, user, waiting (credits),     *)
(* queued and completed.  `posted` is the provider's work queue: the       *)
(* buffers handed to QueueToQp, in the order the NIC completes them.       *)
(* Each section under queueLock is one atomic step; QueueToQp, which the   *)
(* code calls after dropping the lock, is a separate step.                 *)
(* A queue made by ConfigureExternalBuffer (RdmaBufferQueueSingleBuffer)   *)
(* leases sub-ranges of one application buffer: its regions are only       *)
(* queued by QueueExternalBufferRegion and go back to idle on completion.  *)
(***************************************************************************)
EXTENDS Naturals, Sequences, SequencesExt, FiniteSets

CONSTANTS
  Buffers,        \* the queue's buffers (model values); N = |Buffers|
  Direction,      \* "Send" or "Receive"
  ExternalModes,  \* subset of BOOLEAN: made by ConfigureExternalBuffer or not
  Users,          \* application threads
  ExtUsers,       \* those of them that call QueueExternalBufferRegion
  UsedSizes,      \* byte counts an application may set with SetUsed
  CreditSizes,    \* receive capacities a credit may announce
  MaxCredits,     \* bound: credits the peer announces in one behaviour
  MaxWr,          \* provider work-queue depth (max_send_wr / max_recv_wr)
  NoBuffer        \* model value: no buffer

ASSUME Direction \in {"Send", "Receive"}
ASSUME ExternalModes \subseteq BOOLEAN /\ ExternalModes # {}
ASSUME ExtUsers \subseteq Users
ASSUME UsedSizes \subseteq Nat /\ CreditSizes \subseteq Nat
ASSUME MaxCredits \in Nat /\ MaxWr \in Nat \ {0}
ASSUME NoBuffer \notin Buffers

VARIABLES
  idle, waiting, queued, completed,  \* the FIFO containers (tCircularFifo)
  user,           \* userBuffers: the intrusive list of buffers the app holds
  credits,        \* availableCredits
  status,         \* queueStatus: "None" or the first error stamped
  aborted,
  used,           \* RdmaBuffer::usedBytes of every buffer
  posted,         \* work requests handed to the provider, oldest first
  pc,             \* per application thread
  timeout,        \* the timeout a waiting application thread passed
  signalled,      \* waiting threads a notify_all has woken
  postBuf,        \* the buffer a thread will pass to QueueToQp
  ack, ackBuf, ackErr,  \* ack handler thread: control point, buffer, error
  handler,        \* completion handler thread: "Run" or "Exited"
  creditsGiven,   \* credits announced so far (bounded by MaxCredits)
  pipeline,       \* history: accepted transfers [buf, used] in accept order
  usePolling,     \* the queue's usePolling, fixed when it is constructed
  external        \* bufferOwnership External / bufferType Single, fixed too

vars == <<idle, waiting, queued, completed, user, credits, status, aborted,
          used, posted, pc, timeout, signalled, postBuf, ack, ackBuf, ackErr,
          handler, creditsGiven, pipeline, usePolling, external>>

Errors == {"TooLarge", "CompletionError", "Aborted", "PostError"}
Timeouts == {"Infinite", "Finite"}
\* "ExtWaitIdle" is the WaitForIdleBuffer of QueueExternalBufferRegion.
Waiting == {"WaitIdle", "WaitCompleted", "ExtWaitIdle"}
\* QueueExternalBufferRegion after its wait: about to check the queue type
\* and queue the region ("ExtQueue"), or between QueueBuffer and QueueToQp
\* ("ExtPost"), all under its BufferWaitAccessSuspender.
ExtCall == {"ExtQueue", "ExtPost"}
\* A polling WaitForCompletedBuffer: in PollForReceive without queueLock,
\* then relocking to take the completed buffer.
Polling == {"Poll", "Relock"}

\* The session's exclusive access is held by a thread between the locked
\* part of QueueBuffer and its QueueToQp call.
AccessFree == \A u \in Users : pc[u] # "Post"
\* bufferWaitInProgress: at most one thread blocks on a buffer wait.
NoWaitInProgress == \A u \in Users : pc[u] \notin Waiting \cup Polling \cup ExtCall

WaitersOn(w) == {u \in Users : pc[u] = w}
IdleWaiters == WaitersOn("WaitIdle") \cup WaitersOn("ExtWaitIdle")

\* The RdmaBufferQueue constructor sets putBackToIdleOnCompletion for Send.
QueuePutsBackToIdle == Direction = "Send"

\* putBackToIdleOnCompletion: RdmaBufferQueueSingleBuffer's constructor
\* sets it whatever the direction.
PutBackToIdle == QueuePutsBackToIdle \/ external

-----------------------------------------------------------------------------
\* SetProperty(UseRxPolling), before ConfigureBuffers creates the queue:
\* TRUE is rejected (OperationNotSupported) unless the session receives.
PollingModes == IF Direction = "Receive" THEN BOOLEAN ELSE {FALSE}

\* ConfigureExternalBuffer throws OperationNotSupported when usePolling is
\* set, so an external queue is never constructed with polling.
ConfigureExternalBuffer(ext, polling) == ext => ~polling

Init ==
  /\ idle = SetToSeq(Buffers)   \* constructor: every buffer pushed to idle
  /\ waiting = <<>> /\ queued = <<>> /\ completed = <<>>
  /\ user = {}
  /\ credits = <<>>
  /\ status = "None"
  /\ aborted = FALSE
  /\ used = [b \in Buffers |-> 0]
  /\ posted = <<>>
  /\ pc = [u \in Users |-> "Ready"]
  /\ timeout = [u \in Users |-> "Infinite"]
  /\ signalled = {}
  /\ postBuf = [u \in Users |-> NoBuffer]
  /\ ack = IF Direction = "Send" THEN "Run" ELSE "Exited"
  /\ ackBuf = NoBuffer /\ ackErr = "None"
  /\ creditsGiven = 0
  /\ pipeline = <<>>
  \* The Linux PostConfigure starts no receive handler thread when polling.
  /\ usePolling \in PollingModes /\ external \in ExternalModes
  /\ ConfigureExternalBuffer(external, usePolling)
  /\ handler = IF usePolling THEN "None" ELSE "Run"

\* Mutant of TakeIdle: the queueStatus check is missing.
TakeIdleIgnoringStatus ==
  IF idle # <<>> THEN idle' = Tail(idle) /\ user' = user \cup {Head(idle)}
                 ELSE UNCHANGED <<idle, user>>

\* The part of WaitForIdleBuffer after the (optional) wait: the sticky error
\* is thrown, an empty idle FIFO is a Timeout, else the oldest idle buffer
\* moves to the user list.
IdleTaken == status = "None" /\ idle # <<>>

TakeIdle ==
  IF IdleTaken
    THEN /\ idle' = Tail(idle)
         /\ user' = user \cup {Head(idle)}
    ELSE UNCHANGED <<idle, user>>

\* The part of WaitForCompletedBuffer after the wait: a completed buffer is
\* returned even when the queue has an error.
TakeCompleted ==
  IF completed # <<>>
    THEN /\ completed' = Tail(completed)
         /\ user' = user \cup {Head(completed)}
    ELSE UNCHANGED <<completed, user>>

\* AcquireSendRegion's checks: InvalidOperation on a receive queue made by
\* ConfigureBuffers (autoQueueRx) and on an external queue.
AcquireSendRegionAllowed == Direction = "Send" /\ ~external

\* WaitForIdleBuffer(timeoutMs), entered through AcquireSendRegion under
\* BufferWaitAccessSuspender once its checks pass.
WaitForIdleBuffer(t, to) ==
  /\ AcquireSendRegionAllowed
  /\ pc[t] = "Ready" /\ AccessFree /\ NoWaitInProgress
  /\ IF idle = <<>> /\ status = "None"
       THEN /\ pc' = [pc EXCEPT ![t] = "WaitIdle"]
            /\ timeout' = [timeout EXCEPT ![t] = to]
            /\ signalled' = signalled \ {t}
            /\ UNCHANGED <<idle, user>>
       ELSE /\ TakeIdle
            /\ UNCHANGED <<pc, timeout, signalled>>
  /\ UNCHANGED <<waiting, queued, completed, credits, status, aborted, used,
                 posted, postBuf, ack, ackBuf, ackErr, handler, creditsGiven,
                 pipeline, usePolling, external>>

\* WaitForCompletedBuffer(timeoutMs), entered through AcquireReceivedRegion.
\* InvalidOperation when completions go back to idle; NoBuffersQueued when
\* nothing could ever complete.  With usePolling the thread unlocks and
\* polls instead of waiting on completedAvailableCond.
WaitForCompletedBuffer(t, to) ==
  /\ ~PutBackToIdle
  /\ pc[t] = "Ready" /\ AccessFree /\ NoWaitInProgress
  /\ IF completed = <<>> /\ status = "None"
       THEN /\ (queued # <<>> \/ waiting # <<>>)
            /\ pc' = [pc EXCEPT ![t] = IF usePolling THEN "Poll"
                                                   ELSE "WaitCompleted"]
            /\ timeout' = [timeout EXCEPT ![t] = to]
            /\ signalled' = signalled \ {t}
            /\ UNCHANGED <<completed, user>>
       ELSE /\ TakeCompleted
            /\ UNCHANGED <<pc, timeout, signalled>>
  /\ UNCHANGED <<idle, waiting, queued, credits, status, aborted, used,
                 posted, postBuf, ack, ackBuf, ackErr, handler, creditsGiven,
                 pipeline, usePolling, external>>

\* A blocked waiter wakes after a notify_all and runs the rest of the wait
\* under the lock.
\* QueueExternalBufferRegion goes on with the buffer it was given.
WaitWoken(t) ==
  /\ pc[t] \in Waiting /\ t \in signalled
  /\ IF pc[t] = "WaitCompleted"
       THEN TakeCompleted /\ UNCHANGED idle
       ELSE TakeIdle /\ UNCHANGED completed
  /\ IF pc[t] = "ExtWaitIdle" /\ IdleTaken
       THEN /\ pc' = [pc EXCEPT ![t] = "ExtQueue"]
            /\ postBuf' = [postBuf EXCEPT ![t] = Head(idle)]
       ELSE /\ pc' = [pc EXCEPT ![t] = "Ready"]
            /\ UNCHANGED postBuf
  /\ signalled' = signalled \ {t}
  /\ UNCHANGED <<waiting, queued, credits, status, aborted, used, posted,
                 timeout, ack, ackBuf, ackErr, handler, creditsGiven,
                 pipeline, usePolling, external>>

\* wait_for returns cv_status::timeout: the call throws Timeout.
WaitTimedOut(t) ==
  /\ pc[t] \in Waiting /\ timeout[t] = "Finite" /\ t \notin signalled
  /\ pc' = [pc EXCEPT ![t] = "Ready"]
  /\ UNCHANGED <<idle, waiting, queued, completed, user, credits, status,
                 aborted, used, posted, timeout, signalled, postBuf, ack,
                 ackBuf, ackErr, handler, creditsGiven, pipeline, usePolling, external>>

\* Mutant of LockedQueueBuffer: the accepted buffer is not unlinked from
\* userBuffers.
LockedQueueBufferKeepsLink(t, b, u, postPc) ==
  LET toQp == Direction = "Receive" \/ credits # <<>>
      accept == status = "None" /\ b \in user
                /\ ~(Direction = "Send" /\ credits # <<>> /\ u > Head(credits))
  IN
  /\ accept /\ toQp
  /\ queued' = Append(queued, b)
  /\ credits' = IF Direction = "Send" THEN Tail(credits) ELSE credits
  /\ pipeline' = Append(pipeline, [buf |-> b, used |-> u])
  /\ pc' = [pc EXCEPT ![t] = postPc]
  /\ postBuf' = [postBuf EXCEPT ![t] = b]
  /\ UNCHANGED <<user, waiting, status, idle, completed, aborted, posted,
                 timeout, signalled, ack, ackBuf, ackErr, handler,
                 creditsGiven, usePolling, external>>

\* The locked part of RdmaBufferQueue::QueueBuffer(b), with the region's
\* usedBytes u: the sticky error, then InvalidOperation unless b is on the
\* user list.  A Send buffer with a credit at hand is checked against the
\* oldest credit; without one it is parked waiting.  The caller goes on to
\* QueueToQp (pc postPc) only with a buffer moved to queuedBuffers.
LockedQueueBuffer(t, b, u, postPc) ==
  LET toQp == Direction = "Receive" \/ credits # <<>>
      accept == status = "None" /\ b \in user
                /\ ~(Direction = "Send" /\ credits # <<>> /\ u > Head(credits))
      post == accept /\ toQp
  IN
  /\ IF accept
       THEN /\ user' = user \ {b}
            /\ pipeline' = Append(pipeline, [buf |-> b, used |-> u])
            /\ IF toQp
                 THEN /\ queued' = Append(queued, b)
                      /\ credits' = IF Direction = "Send" THEN Tail(credits)
                                                          ELSE credits
                      /\ UNCHANGED waiting
                 ELSE /\ waiting' = Append(waiting, b)
                      /\ UNCHANGED <<queued, credits>>
            /\ UNCHANGED status
       ELSE /\ status' = IF status = "None" /\ b \in user THEN "TooLarge"
                                                       ELSE status
            /\ UNCHANGED <<user, pipeline, queued, credits, waiting>>
  /\ pc' = [pc EXCEPT ![t] = IF post THEN postPc ELSE "Ready"]
  /\ postBuf' = [postBuf EXCEPT ![t] = IF post THEN b ELSE NoBuffer]
  /\ UNCHANGED <<idle, completed, aborted, posted, timeout, signalled, ack,
                 ackBuf, ackErr, handler, creditsGiven, usePolling, external>>

\* QueueBuffer called by the application while it holds the session's
\* exclusive access, which it keeps until QueueToQp ("Post").
QueueBuffer(t, b, u) ==
  /\ pc[t] = "Ready" /\ AccessFree
  /\ LockedQueueBuffer(t, b, u, "Post")

\* RdmaBuffer::SetUsed (sizes in UsedSizes fit the buffer: no InvalidSize).
SetUsed(b, u) == used' = [used EXCEPT ![b] = u]

\* RdmaConnectedSessionBase::QueueBufferRegion: InvalidOperation on an
\* external queue (whose regions the application never holds), else
\* SetCompletionCallback (not modelled: the callback changes no queue
\* state), then Requeue -> QueueBuffer, whose checks come after the setter.
SessionQueueBufferRegion(t, b, u) ==
  /\ ~external
  /\ QueueBuffer(t, b, u)

\* easyrdma_QueueBufferRegion: SetUsed(usedSize) on the region, then the
\* session's QueueBufferRegion.  Both setters run before anything is
\* checked, so a rejected call still overwrites the region's usedBytes
\* and callback.
QueueBufferRegion(t, b, u) ==
  /\ SetUsed(b, u)
  /\ SessionQueueBufferRegion(t, b, u)

\* easyrdma_ReleaseReceivedBufferRegion -> RdmaBuffer::Requeue: QueueBuffer
\* with the region's usedBytes as it is.
Requeue(t, b) ==
  /\ Direction = "Receive" /\ ~external
  /\ QueueBuffer(t, b, used[b])
  /\ UNCHANGED used

\* RdmaBufferExternal::SetBufferRegion(ptr, size): the region's length,
\* and usedBytes with it, is the size the caller passes.
SetBufferRegion(b, u) == used' = [used EXCEPT ![b] = u]

\* easyrdma_QueueExternalBufferRegion -> the session's
\* QueueExternalBufferRegion: BufferWaitAccessSuspender (BufferWaitInProgress
\* if a wait is on, else the access is suspended for the rest of the call),
\* then WaitForIdleBuffer(timeoutMs), which moves the oldest idle buffer
\* to userBuffers before anything checks the queue's type.
QueueExternalBufferRegion(t, to) ==
  /\ pc[t] = "Ready" /\ AccessFree /\ NoWaitInProgress
  /\ IF idle = <<>> /\ status = "None"
       THEN /\ pc' = [pc EXCEPT ![t] = "ExtWaitIdle"]
            /\ timeout' = [timeout EXCEPT ![t] = to]
            /\ signalled' = signalled \ {t}
            /\ UNCHANGED <<idle, user, postBuf>>
       ELSE /\ TakeIdle
            /\ pc' = [pc EXCEPT ![t] = IF IdleTaken THEN "ExtQueue" ELSE "Ready"]
            /\ postBuf' = IF IdleTaken THEN [postBuf EXCEPT ![t] = Head(idle)]
                                       ELSE postBuf
            /\ UNCHANGED <<timeout, signalled>>
  /\ UNCHANGED <<waiting, queued, completed, credits, status, aborted, used,
                 posted, ack, ackBuf, ackErr, handler, creditsGiven, pipeline,
                 usePolling, external>>

\* The rest of QueueExternalBufferRegion, with the buffer the wait returned,
\* still suspended: a queue that is not single-buffer external throws
\* InvalidOperation, the buffer left on userBuffers though the application
\* never received it; otherwise SetBufferRegion, SetCompletionCallback and
\* Requeue -> QueueBuffer, and QueueToQp without the session's access.
QueueExternalRegion(t, u) ==
  LET b == postBuf[t] IN
  /\ pc[t] = "ExtQueue"
  /\ IF external
       THEN /\ SetBufferRegion(b, u)
            /\ LockedQueueBuffer(t, b, u, "ExtPost")
       ELSE /\ pc' = [pc EXCEPT ![t] = "Ready"]
            /\ postBuf' = [postBuf EXCEPT ![t] = NoBuffer]
            /\ UNCHANGED <<idle, waiting, queued, completed, user, credits,
                           status, aborted, used, posted, timeout, signalled,
                           ack, ackBuf, ackErr, handler, creditsGiven,
                           pipeline, usePolling, external>>

\* Mutant of PostToQp: one work request more than the queue depth.
PostToQpOffByOne(b) ==
  IF Len(posted) <= MaxWr THEN posted' = Append(posted, b)
                          ELSE UNCHANGED posted

\* RdmaConnectedSession::QueueToQp: rdma_post_send / rdma_post_recv fail
\* once the work queue holds MaxWr requests; HandleError throws to the
\* caller and the buffer stays in queued without being posted.
PostToQp(b) ==
  IF Len(posted) < MaxWr THEN posted' = Append(posted, b)
                         ELSE UNCHANGED posted

QueueToQp(t) ==
  /\ pc[t] \in {"Post", "ExtPost"}
  /\ PostToQp(postBuf[t])
  /\ pc' = [pc EXCEPT ![t] = "Ready"]
  /\ postBuf' = [postBuf EXCEPT ![t] = NoBuffer]
  /\ UNCHANGED <<idle, waiting, queued, completed, user, credits, status,
                 aborted, used, timeout, signalled, ack, ackBuf, ackErr,
                 handler, creditsGiven, pipeline, usePolling, external>>

\* Mutant of ReleaseBuffer: the user-list hook is not unlinked.
ReleaseBufferKeepsLink(t, b) ==
  /\ pc[t] = "Ready" /\ AccessFree
  /\ b \in user
  /\ idle' = Append(idle, b)
  /\ UNCHANGED <<user, waiting, queued, completed, credits, status, aborted,
                 used, posted, pc, timeout, signalled, postBuf, ack, ackBuf,
                 ackErr, handler, creditsGiven, pipeline, usePolling, external>>

\* ReleaseBuffer (easyrdma_ReleaseUserBufferRegionToIdle): InvalidOperation
\* unless the buffer is on the user list; nothing is notified.  The
\* application holds no region of an external queue to release.
ReleaseBuffer(t, b) ==
  /\ pc[t] = "Ready" /\ AccessFree /\ ~external
  /\ b \in user
  /\ user' = user \ {b}
  /\ idle' = Append(idle, b)
  /\ UNCHANGED <<waiting, queued, completed, credits, status, aborted, used,
                 posted, pc, timeout, signalled, postBuf, ack, ackBuf, ackErr,
                 handler, creditsGiven, pipeline, usePolling, external>>

\* AckHandlerThread -> RdmaBufferQueue::AddCredit(c), its locked part: the
\* credit is pushed; the oldest parked buffer is checked against the OLDEST
\* credit.  A too-large buffer throws inside the lock, leaving both the
\* credit and the buffer where they are.
AddCredit(c) ==
  LET credits1 == Append(credits, c)
      w == Head(waiting)
  IN
  /\ ack = "Run" /\ creditsGiven < MaxCredits
  /\ creditsGiven' = creditsGiven + 1
  /\ IF waiting = <<>>
       THEN /\ credits' = credits1
            /\ UNCHANGED <<waiting, queued, ack, ackBuf, ackErr>>
       ELSE IF used[w] > Head(credits1)
       THEN /\ credits' = credits1
            /\ ack' = "Assign" /\ ackErr' = "TooLarge"
            /\ UNCHANGED <<waiting, queued, ackBuf>>
       ELSE /\ waiting' = Tail(waiting)
            /\ queued' = Append(queued, w)
            /\ credits' = Tail(credits1)
            /\ ack' = "Post" /\ ackBuf' = w
            /\ UNCHANGED ackErr
  /\ UNCHANGED <<idle, completed, user, status, aborted, used, posted, pc,
                 timeout, signalled, postBuf, handler, pipeline, usePolling, external>>

\* AddCredit, after the lock: QueueToQp of the buffer the credit released.
\* A failed post is caught by AddCredit's own handler.
AckQueueToQp ==
  /\ ack = "Post"
  /\ PostToQp(ackBuf)
  /\ ack' = IF Len(posted) < MaxWr THEN "Run" ELSE "Assign"
  /\ ackErr' = IF Len(posted) < MaxWr THEN ackErr ELSE "PostError"
  /\ ackBuf' = NoBuffer
  /\ UNCHANGED <<idle, waiting, queued, completed, user, credits, status,
                 aborted, used, pc, timeout, signalled, postBuf, handler,
                 creditsGiven, pipeline, usePolling, external>>

\* Mutant of AckAssignError: the catch rethrows without assigning the status.
AckAssignErrorSilent ==
  /\ ack = "Assign"
  /\ ack' = "Exited"
  /\ UNCHANGED <<idle, waiting, queued, completed, user, credits, status,
                 aborted, used, posted, pc, timeout, signalled, postBuf,
                 ackBuf, ackErr, handler, creditsGiven, pipeline, usePolling, external>>

\* AddCredit's catch: queueStatus.Assign(e) WITHOUT queueLock, then the
\* rethrow ends AckHandlerThread (its catch-all silently exits).
AckAssignError ==
  /\ ack = "Assign"
  /\ status' = IF status = "None" THEN ackErr ELSE status
  /\ ack' = "Exited"
  /\ UNCHANGED <<idle, waiting, queued, completed, user, credits, aborted,
                 used, posted, pc, timeout, signalled, postBuf, ackBuf, ackErr,
                 handler, creditsGiven, pipeline, usePolling, external>>

\* Mutant of ReturnCompleted: the notify_all calls are missing.
ReturnCompletedNoNotify(b) ==
  /\ IF PutBackToIdle THEN idle' = Append(idle, b) /\ UNCHANGED completed
                      ELSE completed' = Append(completed, b) /\ UNCHANGED idle
  /\ UNCHANGED signalled

\* HandleCompletion: the completed buffer goes to completedBuffers, or back
\* to idleBuffers when putBackToIdleOnCompletion, with a notify_all on the
\* matching condition variable.
ReturnCompleted(b) ==
  IF PutBackToIdle
    THEN /\ idle' = Append(idle, b)
         /\ signalled' = signalled \cup IdleWaiters
         /\ UNCHANGED completed
    ELSE /\ completed' = Append(completed, b)
         /\ signalled' = signalled \cup WaitersOn("WaitCompleted")
         /\ UNCHANGED idle

\* The oldest work request is complete on the provider's side.
CompletionInOrder == queued # <<>> /\ Head(queued) = Head(posted)

\* RdmaBuffer::HandleCompletion -> RdmaBufferQueue::HandleCompletion for
\* the oldest work completion (ok or in error).  Unless aborted, the buffer
\* must be the head of queuedBuffers (ASSERT_ALWAYS, which in a release
\* build throws InternalError before anything moves); it goes to
\* completed or idle with a notify_all, and an error completion stamps
\* the status.
CompleteHead(ok) ==
  LET b == Head(posted) IN
  /\ posted' = Tail(posted)
  /\ IF aborted \/ ~CompletionInOrder
       THEN UNCHANGED <<idle, queued, completed, status, signalled, pipeline>>
       ELSE /\ queued' = Tail(queued)
            /\ pipeline' = SelectSeq(pipeline, LAMBDA r : r.buf # b)
            /\ ReturnCompleted(b)
            /\ status' = IF ~ok /\ status = "None" THEN "CompletionError"
                                                   ELSE status
  \* RdmaBuffer::HandleCompletion first sets usedBytes to the bytes sent,
  \* 0 for a failed send.
  /\ used' = IF Direction = "Send" /\ ~ok THEN [used EXCEPT ![b] = 0] ELSE used
  /\ UNCHANGED <<waiting, user, credits, aborted, timeout, postBuf, ack,
                 ackBuf, ackErr, creditsGiven, usePolling, external>>

\* SendReceiveHandlerThread: PollCompletionQueue (blocking) returns the
\* oldest work completion, then HandleCompletion; the InternalError of a
\* failed ASSERT_ALWAYS ends the thread (its catch-all exits silently).
HandleCompletion(ok) ==
  /\ handler = "Run" /\ posted # <<>>
  /\ CompleteHead(ok)
  /\ handler' = IF aborted \/ CompletionInOrder THEN "Run" ELSE "Exited"
  /\ UNCHANGED pc

\* PollForReceive, in a polling WaitForCompletedBuffer without queueLock:
\* ibv_poll_cq returns the oldest completion, which goes through the same
\* HandleCompletion (taking queueLock itself).  A failed ASSERT_ALWAYS
\* throws InternalError out of the wait to the application.
PollForReceive(t, ok) ==
  /\ pc[t] = "Poll" /\ posted # <<>>
  /\ CompleteHead(ok)
  /\ pc' = [pc EXCEPT ![t] = IF aborted \/ CompletionInOrder THEN "Relock"
                                                            ELSE "Ready"]
  /\ UNCHANGED handler

\* PollCompletionQueue, non-blocking: while ibv_poll_cq finds nothing,
\* CheckQueueStatus throws the queue's sticky error, and a finite timeout
\* that has elapsed throws Timeout.  With timeout -1 and no error it spins.
PollCompletionQueueThrows(t) ==
  /\ pc[t] = "Poll"
  /\ status # "None" \/ timeout[t] = "Finite"
  /\ pc' = [pc EXCEPT ![t] = "Ready"]
  /\ UNCHANGED <<idle, waiting, queued, completed, user, credits, status,
                 aborted, used, posted, timeout, signalled, postBuf, ack,
                 ackBuf, ackErr, handler, creditsGiven, pipeline, usePolling, external>>

\* queueLock.lock() after PollForReceive, then the rest of the wait.
PollRelock(t) ==
  /\ pc[t] = "Relock"
  /\ TakeCompleted
  /\ pc' = [pc EXCEPT ![t] = "Ready"]
  /\ UNCHANGED <<idle, waiting, queued, credits, status, aborted, used,
                 posted, timeout, signalled, postBuf, ack, ackBuf, ackErr,
                 handler, creditsGiven, pipeline, usePolling, external>>

\* Mutant of Abort: the aborted flag is not set.
AbortKeepsFlag ==
  /\ ~aborted
  /\ status' = IF status = "None" THEN "Aborted" ELSE status
  /\ idle' = idle \o queued \o waiting
  /\ queued' = <<>> /\ waiting' = <<>>
  /\ signalled' = signalled \cup IdleWaiters
                            \cup WaitersOn("WaitCompleted")
  /\ pipeline' = <<>>
  /\ UNCHANGED <<aborted, completed, user, credits, used, posted, pc, timeout,
                 postBuf, ack, ackBuf, ackErr, handler, creditsGiven, usePolling, external>>

\* Abort (HandleDisconnect, Cancel, destructor): once only; stamps the
\* status, drains queued then waiting into idle (firing each one's
\* completion callback, not modelled) and wakes every waiter.  The provider may still
\* complete (flush) the posted requests.
Abort ==
  /\ ~aborted
  /\ aborted' = TRUE
  /\ status' = IF status = "None" THEN "Aborted" ELSE status
  /\ idle' = idle \o queued \o waiting
  /\ queued' = <<>> /\ waiting' = <<>>
  /\ signalled' = signalled \cup IdleWaiters
                            \cup WaitersOn("WaitCompleted")
  /\ pipeline' = <<>>
  /\ UNCHANGED <<completed, user, credits, used, posted, pc, timeout, postBuf,
                 ack, ackBuf, ackErr, handler, creditsGiven, usePolling, external>>

-----------------------------------------------------------------------------
Next ==
  \/ \E t \in Users, to \in Timeouts :
        WaitForIdleBuffer(t, to) \/ WaitForCompletedBuffer(t, to)
  \/ \E t \in Users : WaitWoken(t) \/ WaitTimedOut(t) \/ QueueToQp(t)
  \/ \E t \in Users : PollCompletionQueueThrows(t) \/ PollRelock(t)
  \/ \E t \in Users, ok \in BOOLEAN : PollForReceive(t, ok)
  \/ \E t \in Users, b \in Buffers :
        \/ ReleaseBuffer(t, b) \/ Requeue(t, b)
        \/ \E u \in UsedSizes : QueueBufferRegion(t, b, u)
  \/ \E t \in ExtUsers, to \in Timeouts : QueueExternalBufferRegion(t, to)
  \/ \E t \in Users, u \in UsedSizes : QueueExternalRegion(t, u)
  \/ \E c \in CreditSizes : AddCredit(c)
  \/ AckQueueToQp \/ AckAssignError
  \/ \E ok \in BOOLEAN : HandleCompletion(ok)
  \/ Abort

\* Threads that have been scheduled keep running: the completion handler,
\* the ack handler's post and error path, a woken waiter, a polling
\* waiter (which spins on the completion queue and the queue status),
\* a thread between QueueBuffer and QueueToQp, and a QueueExternalBufferRegion
\* whose wait has returned.  Nothing forces an application call,
\* a credit, a timeout or an abort.
Fairness ==
  /\ WF_vars(\E ok \in BOOLEAN : HandleCompletion(ok))
  /\ WF_vars(AckQueueToQp) /\ WF_vars(AckAssignError)
  /\ \A t \in Users : WF_vars(WaitWoken(t)) /\ WF_vars(QueueToQp(t))
  /\ \A t \in Users :
       WF_vars(\E u \in UsedSizes : QueueExternalRegion(t, u))
  /\ \A t \in Users : /\ WF_vars(\E ok \in BOOLEAN : PollForReceive(t, ok))
                      /\ WF_vars(status # "None" /\ PollCompletionQueueThrows(t))
                      /\ WF_vars(PollRelock(t))

Spec == Init /\ [][Next]_vars /\ Fairness

-----------------------------------------------------------------------------
TypeOK ==
  /\ \A s \in {idle, waiting, queued, completed, posted} : s \in Seq(Buffers)
  /\ user \subseteq Buffers
  /\ credits \in Seq(CreditSizes)
  /\ status \in {"None"} \cup Errors
  /\ aborted \in BOOLEAN
  /\ used \in [Buffers -> {0} \cup UsedSizes]
  /\ Len(posted) <= MaxWr
  /\ pc \in [Users -> {"Ready", "Post"} \cup Waiting \cup Polling \cup ExtCall]
  /\ external \in BOOLEAN
  /\ timeout \in [Users -> Timeouts]
  /\ signalled \subseteq Users
  /\ postBuf \in [Users -> Buffers \cup {NoBuffer}]
  /\ ack \in {"Run", "Post", "Assign", "Exited"}
  /\ handler \in {"Run", "Exited", "None"}
  /\ usePolling \in BOOLEAN
  /\ creditsGiven \in 0..MaxCredits

\* Every buffer of the queue is in exactly one of idle, user, waiting,
\* queued and completed (the five containers QueueBuffer, HandleCompletion,
\* Abort and ReleaseBuffer move buffers between, each FIFO sized N).
BufferPartition ==
  /\ ToSet(idle) \cup user \cup ToSet(waiting) \cup ToSet(queued)
       \cup ToSet(completed) = Buffers
  /\ Len(idle) + Cardinality(user) + Len(waiting) + Len(queued)
       + Len(completed) = Cardinality(Buffers)

\* A buffer the provider still owns (posted, not yet completed) is never
\* on the user list or in completed, and before an abort it is still in
\* queuedBuffers.  After Abort has moved it to idle, only the sticky error
\* that WaitForIdleBuffer checks keeps it from being handed out again.
NicOwnedNotUser ==
  \A b \in ToSet(posted) :
     /\ b \notin user \cup ToSet(completed)
     /\ ~aborted => b \in ToSet(queued)

\* The ASSERT_ALWAYS of HandleCompletion: until an abort, the provider's
\* work queue is a prefix of queuedBuffers, so every completion is for the
\* head of queuedBuffers.
PostedPrefixOfQueued ==
  ~aborted => IsPrefix(posted, queued)

\* A thread blocked in WaitForCompletedBuffer (which it only enters with a
\* transfer queued) eventually returns: a completion or Abort notifies it,
\* and a polling wait returns once it polls a completion or CheckQueueStatus
\* sees the error Abort stamped.
WaitCompletedReturns ==
  \A t \in Users : pc[t] \in {"WaitCompleted"} \cup Polling ~> pc[t] = "Ready"

\* A thread blocked in WaitForIdleBuffer while an idle buffer is available
\* eventually stops waiting (the buffer may come back by HandleCompletion,
\* Abort or ReleaseBuffer).
WaitIdleServed ==
  \A t \in Users : (pc[t] = "WaitIdle" /\ idle # <<>>) ~> pc[t] # "WaitIdle"

\* QueueBuffer parks a send only when no credit is at hand, and AddCredit
\* pairs a new credit with the oldest parked send: normally a credit and a
\* parked send never wait side by side.  A rejected credit (TooLarge) or a
\* failed post leaves both in place and ends the AckHandlerThread, so no
\* credit is ever applied again; the parked send then never goes, and only
\* the status the catch assigns tells the application.  So: a credit and a
\* parked send coexist only while the ack handler is in its catch or once
\* the queue has failed.
ParkedOnlyWithoutCredit ==
  (waiting # <<>> /\ credits # <<>>) => (ack = "Assign" \/ status # "None")

\* Sends reach the provider in the order QueueBuffer accepted them: until
\* an abort, queued followed by waiting is exactly the accepted order.
SendOrderPreserved ==
  ~aborted => [i \in 1..Len(pipeline) |-> pipeline[i].buf] = queued \o waiting

=============================================================================
