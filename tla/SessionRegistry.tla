-------------------------- MODULE SessionRegistry ---------------------------
(***************************************************************************)
(* SessionManager (src/core/api/rdma_api_common.h) with the easyrdma_*     *)
(* calls of rdma_api_c.cpp that look sessions up, on receive sessions.     *)
(*                                                                         *)
(* A session's tAccessManager is abstracted to one exclusive holder and    *)
(* the count of RdmaSessionRefs (AccessManager models it in full); its     *)
(* transfer queue to the number of buffers posted to the NIC, completed,   *)
(* and in the application's hands (userBuffers).  sessionMap and           *)
(* deferredCloseSessionMap are `table`; mapLock is `mapHolder`.            *)
(***************************************************************************)
EXTENDS Naturals, FiniteSets

CONSTANTS
  Threads,     \* application threads
  Sessions,    \* session handles, all registered (connected, configured)
  NumBuffers,  \* receive buffers per session, all posted at configure time
  NoThread     \* model value: no thread

ASSUME NoThread \notin Threads /\ NumBuffers \in Nat \ {0}

VARIABLES
  table,       \* [Sessions -> {"open", "deferred", "erased"}]
  destroyed,   \* the session's last shared_ptr has been dropped
  mapHolder,   \* mapLock owner
  holder,      \* [Sessions -> Threads \cup {NoThread}]: exclusive access
  refs,        \* [Sessions -> Nat]: the access manager's refcount
  posted,      \* buffers queued to the NIC
  ready,       \* completedBuffers
  userBufs,    \* userBuffers: regions the application holds
  aborted,     \* the transfer queue has been aborted (Cancel)
  waitFlag,    \* bufferWaitInProgress
  pc, sess, op, pend, \* each thread's call: control point, session,
                      \* operation and the ref's destructionPending
  deferReq     \* [Sessions -> BOOLEAN]: closed with DeferWhileUserBuffers-
               \* Outstanding (history, for the properties)

vars == <<table, destroyed, mapHolder, holder, refs, posted, ready, userBufs,
          aborted, waitFlag, pc, sess, op, pend, deferReq>>

\* The easyrdma_* calls modelled: AcquireReceivedRegion,
\* ReleaseReceivedBufferRegion, ReleaseUserBufferRegionToIdle, AbortSession,
\* CloseSession without and with the deferral flag.
Ops == {"AcquireRecv", "Requeue", "ReleaseToIdle", "Abort", "Close",
        "CloseDefer"}

\* "Lookup": inside GetSession / DestroySession under mapLock, acquiring;
\* "Waiting": suspended in WaitForCompletedBuffer; "Resume": the wait has
\* returned or thrown; "Resuming": bufferWaitInProgress cleared, access
\* still to be resumed; "Cancel": DestroySession after the map
\* block; "Erase": CheckDeferredSessionDestructionReady about to erase;
\* "Drain": in WaitForAllReferencesToBeReleased.
PcValues == {"Idle", "Lookup", "Waiting", "Resume", "Resuming", "Cancel",
             "Erase", "Drain"}

-----------------------------------------------------------------------------
Init ==
  /\ table = [s \in Sessions |-> "open"]
  /\ destroyed = [s \in Sessions |-> FALSE]
  /\ mapHolder = NoThread
  /\ holder = [s \in Sessions |-> NoThread]
  /\ refs = [s \in Sessions |-> 0]
  /\ posted = [s \in Sessions |-> NumBuffers]
  /\ ready = [s \in Sessions |-> 0]
  /\ userBufs = [s \in Sessions |-> 0]
  /\ aborted = [s \in Sessions |-> FALSE]
  /\ waitFlag = [s \in Sessions |-> FALSE]
  /\ pc = [t \in Threads |-> "Idle"]
  /\ sess = [t \in Threads |-> CHOOSE s \in Sessions : TRUE]
  /\ op = [t \in Threads |-> "Abort"]
  /\ pend = [t \in Threads |-> FALSE]
  /\ deferReq = [s \in Sessions |-> FALSE]

\* A call takes mapLock and finds the handle: GetSession looks in
\* sessionMap, and for ReleaseUserBufferRegionToIdle also in
\* deferredCloseSessionMap (the ref is then destructionPending);
\* DestroySession looks in sessionMap.  Constructing the RdmaSessionRef
\* IncRefs before the access is granted.  A handle not found throws
\* InvalidSession and changes nothing.
Call(t, s, o) ==
  /\ pc[t] = "Idle" /\ mapHolder = NoThread
  /\ table[s] = "open" \/ (o = "ReleaseToIdle" /\ table[s] = "deferred")
  /\ mapHolder' = t
  /\ refs' = [refs EXCEPT ![s] = @ + 1]
  /\ pc' = [pc EXCEPT ![t] = "Lookup"]
  /\ sess' = [sess EXCEPT ![t] = s]
  /\ op' = [op EXCEPT ![t] = o]
  /\ pend' = [pend EXCEPT ![t] = (table[s] = "deferred")]
  /\ deferReq' = IF o = "CloseDefer"
                   THEN [deferReq EXCEPT ![s] = TRUE] ELSE deferReq
  /\ UNCHANGED <<table, destroyed, holder, posted, ready, userBufs, aborted,
                 waitFlag>>

\* RdmaConnectedSessionBase::Cancel -> RdmaBufferQueue::Abort: queued
\* buffers go back to idle and waiters are woken; completedBuffers is left
\* as it is, for a waiter to take.
CancelQueue(s) ==
  /\ aborted' = [aborted EXCEPT ![s] = TRUE]
  /\ posted' = [posted EXCEPT ![s] = 0]

\* The call ends: ~tAccessManagedRef Releases the access and the ref.
Leave(t) ==
  /\ holder' = [holder EXCEPT ![sess[t]] = NoThread]
  /\ refs' = [refs EXCEPT ![sess[t]] = @ - 1]
  /\ pc' = [pc EXCEPT ![t] = "Idle"]

\* The access is granted once free: GetSession returns and releases
\* mapLock, or DestroySession goes on under it.  `o` is the call.
Grant(t, o) ==
  /\ pc[t] = "Lookup" /\ op[t] = o /\ holder[sess[t]] = NoThread
  /\ mapHolder' = NoThread

\* Mutant of StartWait: bufferWaitInProgress is not checked.
StartWaitUnchecked(t) ==
  LET s == sess[t] IN
  /\ Grant(t, "AcquireRecv")
  /\ waitFlag' = [waitFlag EXCEPT ![s] = TRUE]
  /\ pc' = [pc EXCEPT ![t] = "Waiting"]
  /\ UNCHANGED <<holder, refs>>
  /\ UNCHANGED <<table, destroyed, posted, ready, userBufs, aborted, sess,
                 op, pend, deferReq>>

\* AcquireReceivedRegion: BufferWaitAccessSuspender throws
\* BufferWaitInProgress if a wait is on, else sets the flag and suspends.
StartWait(t) ==
  LET s == sess[t] IN
  /\ Grant(t, "AcquireRecv")
  /\ IF waitFlag[s]
       THEN Leave(t) /\ UNCHANGED waitFlag
       ELSE /\ waitFlag' = [waitFlag EXCEPT ![s] = TRUE]
            /\ pc' = [pc EXCEPT ![t] = "Waiting"]
            /\ UNCHANGED <<holder, refs>>
  /\ UNCHANGED <<table, destroyed, posted, ready, userBufs, aborted, sess,
                 op, pend, deferReq>>

\* Mutant of Requeue: QueueBuffer does not check the region is the user's.
RequeueUnchecked(t) ==
  LET s == sess[t] IN
  /\ Grant(t, "Requeue")
  /\ IF ~aborted[s]
       THEN /\ userBufs' = [userBufs EXCEPT ![s] = @ - 1]
            /\ posted' = [posted EXCEPT ![s] = @ + 1]
       ELSE UNCHANGED <<userBufs, posted>>
  /\ Leave(t)
  /\ UNCHANGED <<table, destroyed, ready, aborted, waitFlag, sess, op, pend,
                 deferReq>>

\* ReleaseReceivedBufferRegion: Requeue -> QueueBuffer, which throws on a
\* cancelled queue (OperationCancelled is rethrown; the region stays the
\* application's) or on a region that is not the application's.
Requeue(t) ==
  LET s == sess[t] IN
  /\ Grant(t, "Requeue")
  /\ IF userBufs[s] > 0 /\ ~aborted[s]
       THEN /\ userBufs' = [userBufs EXCEPT ![s] = @ - 1]
            /\ posted' = [posted EXCEPT ![s] = @ + 1]
       ELSE UNCHANGED <<userBufs, posted>>
  /\ Leave(t)
  /\ UNCHANGED <<table, destroyed, ready, aborted, waitFlag, sess, op, pend,
                 deferReq>>

\* Mutant of ReleaseToIdle: the deferred condition is checked before the
\* region is released.
ReleaseToIdleCheckFirst(t) ==
  LET s == sess[t] IN
  /\ Grant(t, "ReleaseToIdle")
  /\ IF userBufs[s] > 0
       THEN userBufs' = [userBufs EXCEPT ![s] = @ - 1]
       ELSE UNCHANGED userBufs
  /\ IF userBufs[s] = 0 /\ pend[t]
       THEN /\ holder' = [holder EXCEPT ![s] = t]
            /\ pc' = [pc EXCEPT ![t] = "Erase"]
            /\ UNCHANGED refs
       ELSE Leave(t)
  /\ UNCHANGED <<table, destroyed, posted, ready, aborted, waitFlag, sess,
                 op, pend, deferReq>>

\* ReleaseUserBufferRegionToIdle: RdmaBuffer::Release (InvalidOperation
\* if the region is not the application's), then, for a ref found in
\* deferredCloseSessionMap, CheckDeferredSessionDestructionReady: when no
\* user buffer is left the handle is to be erased, the access still held.
ReleaseToIdle(t) ==
  LET s == sess[t] IN
  /\ Grant(t, "ReleaseToIdle")
  /\ IF userBufs[s] > 0
       THEN userBufs' = [userBufs EXCEPT ![s] = @ - 1]
       ELSE UNCHANGED userBufs
  /\ IF userBufs[s] = 1 /\ pend[t]
       THEN /\ holder' = [holder EXCEPT ![s] = t]
            /\ pc' = [pc EXCEPT ![t] = "Erase"]
            /\ UNCHANGED refs
       ELSE Leave(t)
  /\ UNCHANGED <<table, destroyed, posted, ready, aborted, waitFlag, sess,
                 op, pend, deferReq>>

\* AbortSession: Cancel under the access.
AbortSession(t) ==
  /\ Grant(t, "Abort")
  /\ CancelQueue(sess[t])
  /\ Leave(t)
  /\ UNCHANGED <<table, destroyed, ready, userBufs, waitFlag, sess, op, pend,
                 deferReq>>

\* DestroySession's block under mapLock: erase from sessionMap and, if
\* deferral is asked for and CheckDeferredDestructionConditionsMet finds
\* user buffers, keep the session in deferredCloseSessionMap.
DestroySession(t) ==
  LET s == sess[t] IN
  /\ Grant(t, op[t]) /\ op[t] \in {"Close", "CloseDefer"}
  /\ table' = [table EXCEPT ![s] =
                 IF op[t] = "CloseDefer" /\ userBufs[s] > 0
                   THEN "deferred" ELSE "erased"]
  /\ holder' = [holder EXCEPT ![s] = t]
  /\ pc' = [pc EXCEPT ![t] = "Cancel"]
  /\ UNCHANGED <<destroyed, refs, posted, ready, userBufs, aborted, waitFlag,
                 sess, op, pend, deferReq>>

\* DestroySession after mapLock: Cancel, then, unless deferred,
\* ReleaseAndWaitForAllReferencesGone; a deferred session's erasedSession
\* just goes out of scope, releasing the access.
CancelSession(t) ==
  LET s == sess[t] IN
  /\ pc[t] = "Cancel"
  /\ CancelQueue(s)
  /\ holder' = [holder EXCEPT ![s] = NoThread]
  /\ refs' = [refs EXCEPT ![s] = @ - 1]
  /\ pc' = [pc EXCEPT ![t] = IF table[s] = "deferred" THEN "Idle" ELSE "Drain"]
  /\ UNCHANGED <<table, destroyed, mapHolder, ready, userBufs, waitFlag, sess,
                 op, pend, deferReq>>

\* CheckDeferredSessionDestructionReady erases the handle from
\* deferredCloseSessionMap (without mapLock), then
\* ReleaseAndWaitForAllReferencesGone releases the access.
EraseDeferred(t) ==
  LET s == sess[t] IN
  /\ pc[t] = "Erase"
  /\ table' = [table EXCEPT ![s] = "erased"]
  /\ holder' = [holder EXCEPT ![s] = NoThread]
  /\ refs' = [refs EXCEPT ![s] = @ - 1]
  /\ pc' = [pc EXCEPT ![t] = "Drain"]
  /\ UNCHANGED <<destroyed, mapHolder, posted, ready, userBufs, aborted,
                 waitFlag, sess, op, pend, deferReq>>

\* Mutant of Drain: the wait counts the closer's own reference as gone.
DrainEarly(t) ==
  LET s == sess[t] IN
  /\ pc[t] = "Drain" /\ refs[s] <= 1
  /\ destroyed' = [destroyed EXCEPT ![s] = TRUE]
  /\ pc' = [pc EXCEPT ![t] = "Idle"]
  /\ UNCHANGED <<table, mapHolder, holder, refs, posted, ready, userBufs,
                 aborted, waitFlag, sess, op, pend, deferReq>>

\* Another closer still inside ReleaseAndWaitForAllReferencesGone on the
\* same session (a second CheckDeferredSessionDestructionReady) holds its
\* own shared_ptr until it returns.
OtherDrainer(t) ==
  \E u \in Threads \ {t} : pc[u] = "Drain" /\ sess[u] = sess[t]

\* WaitForAllReferencesToBeReleased returns when the refcount is 0; the
\* ref's reset then drops its shared_ptr, and the session is destroyed
\* once no other closer holds one.
Drain(t) ==
  LET s == sess[t] IN
  /\ pc[t] = "Drain" /\ refs[s] = 0
  /\ destroyed' = [destroyed EXCEPT ![s] = ~OtherDrainer(t)]
  /\ pc' = [pc EXCEPT ![t] = "Idle"]
  /\ UNCHANGED <<table, mapHolder, holder, refs, posted, ready, userBufs,
                 aborted, waitFlag, sess, op, pend, deferReq>>

\* The NIC completes a posted receive: HandleCompletion moves it to
\* completedBuffers (an aborted queue has none posted).
Completion(s) ==
  /\ posted[s] > 0
  /\ posted' = [posted EXCEPT ![s] = @ - 1]
  /\ ready' = [ready EXCEPT ![s] = @ + 1]
  /\ UNCHANGED <<table, destroyed, mapHolder, holder, refs, userBufs,
                 aborted, waitFlag, pc, sess, op, pend, deferReq>>

\* WaitForCompletedBuffer, under queueLock only: a completed buffer moves
\* to userBuffers and the wait ends, also on an aborted queue (a completed
\* buffer is returned before the error status is thrown).
WaitTake(t) ==
  LET s == sess[t] IN
  /\ pc[t] = "Waiting" /\ ready[s] > 0
  /\ ready' = [ready EXCEPT ![s] = @ - 1]
  /\ userBufs' = [userBufs EXCEPT ![s] = @ + 1]
  /\ pc' = [pc EXCEPT ![t] = "Resume"]
  /\ UNCHANGED <<table, destroyed, mapHolder, holder, refs, posted, aborted,
                 waitFlag, sess, op, pend, deferReq>>

\* The wait throws: the queue status is set (Abort's notify_all), or the
\* caller's timeout expires.
WaitFails(t) ==
  /\ pc[t] = "Waiting"
  /\ pc' = [pc EXCEPT ![t] = "Resume"]
  /\ UNCHANGED <<table, destroyed, mapHolder, holder, refs, posted, ready,
                 userBufs, aborted, waitFlag, sess, op, pend, deferReq>>

\* ~BufferWaitAccessSuspender runs before the destructor of its base
\* tAccessSuspender: bufferWaitInProgress is cleared while the thread is
\* still suspended, that is without the session's access.
ClearWaitFlag(t) ==
  /\ pc[t] = "Resume"
  /\ waitFlag' = [waitFlag EXCEPT ![sess[t]] = FALSE]
  /\ pc' = [pc EXCEPT ![t] = "Resuming"]
  /\ UNCHANGED <<table, destroyed, mapHolder, holder, refs, posted, ready,
                 userBufs, aborted, sess, op, pend, deferReq>>

\* ~tAccessSuspender: ResumeAccess waits for the access, and the call
\* returns, releasing it.
Resume(t) ==
  /\ pc[t] = "Resuming" /\ holder[sess[t]] = NoThread
  /\ Leave(t)
  /\ UNCHANGED <<table, destroyed, mapHolder, posted, ready, userBufs,
                 aborted, waitFlag, sess, op, pend, deferReq>>

\* Every session is gone and no call is in progress.
Quiescent ==
  \A t \in Threads, s \in Sessions : pc[t] = "Idle" /\ table[s] = "erased"

Next ==
  \/ \E t \in Threads :
       \/ \E s \in Sessions, o \in Ops : Call(t, s, o)
       \/ StartWait(t) \/ Requeue(t) \/ ReleaseToIdle(t) \/ AbortSession(t)
       \/ DestroySession(t) \/ CancelSession(t) \/ EraseDeferred(t)
       \/ Drain(t) \/ WaitTake(t) \/ WaitFails(t)
       \/ ClearWaitFlag(t) \/ Resume(t)
  \/ \E s \in Sessions : Completion(s)
  \/ Quiescent /\ UNCHANGED vars

\* Steps of a call in progress are scheduled; a wait on an aborted queue
\* is woken by Abort's notify_all.  Calls, completions and timeouts are
\* not forced.
Fairness ==
  \A t \in Threads :
    /\ WF_vars(StartWait(t)) /\ WF_vars(Requeue(t))
    /\ WF_vars(ReleaseToIdle(t)) /\ WF_vars(AbortSession(t))
    /\ WF_vars(DestroySession(t))
    /\ WF_vars(CancelSession(t)) /\ WF_vars(EraseDeferred(t))
    /\ WF_vars(Drain(t)) /\ WF_vars(ClearWaitFlag(t)) /\ WF_vars(Resume(t))
    /\ WF_vars(aborted[sess[t]] /\ WaitFails(t))

Spec == Init /\ [][Next]_vars /\ Fairness

-----------------------------------------------------------------------------
TypeOK ==
  /\ table \in [Sessions -> {"open", "deferred", "erased"}]
  /\ destroyed \in [Sessions -> BOOLEAN]
  /\ mapHolder \in Threads \cup {NoThread}
  /\ holder \in [Sessions -> Threads \cup {NoThread}]
  /\ refs \in [Sessions -> 0..Cardinality(Threads)]
  /\ \A s \in Sessions :
       /\ {posted[s], ready[s], userBufs[s]} \subseteq 0..NumBuffers
       /\ posted[s] + ready[s] + userBufs[s] <= NumBuffers
  /\ aborted \in [Sessions -> BOOLEAN] /\ waitFlag \in [Sessions -> BOOLEAN]
  /\ pc \in [Threads -> PcValues] /\ sess \in [Threads -> Sessions]
  /\ op \in [Threads -> Ops] /\ pend \in [Threads -> BOOLEAN]
  /\ deferReq \in [Sessions -> BOOLEAN]

\* No call is still working on a session that has been destroyed: the
\* drain in ReleaseAndWaitForAllReferencesGone outlasts every
\* RdmaSessionRef taken before the handle was erased, on both the close
\* and the deferred-close path.
NoUseAfterDestroy ==
  \A t \in Threads : pc[t] # "Idle" => ~destroyed[sess[t]]

\* spec.md: a per-session flag keeps two threads from performing a
\* blocking buffer wait at the same time; the second fails with
\* BufferWaitInProgress.  The flag is tested and set under the session's
\* access but cleared outside it (ClearWaitFlag), so a second
\* AcquireReceivedRegion may start while the first has not resumed: it
\* must still find the first thread's wait over.
OneBufferWait ==
  \A s \in Sessions :
    \A t, u \in Threads :
      (t # u /\ sess[t] = s /\ sess[u] = s) => ~(pc[t] = "Waiting" /\ pc[u] = "Waiting")

\* A deferred-closed session whose last user region has been released to
\* idle is eventually destroyed (NumPendingDestructionSessions drops).
DeferredEventuallyDestroyed ==
  \A s \in Sessions : (table[s] = "deferred" /\ userBufs[s] = 0) ~> destroyed[s]

\* A session closed with DeferWhileUserBuffersOutstanding is not
\* destroyed while the application still holds one of its regions
\* (spec: a deferred close does not drop the session until all
\* application-held regions are returned).
DeferredCloseKeepsUserBuffers ==
  \A s \in Sessions : destroyed[s] /\ deferReq[s] => userBufs[s] = 0
=============================================================================
