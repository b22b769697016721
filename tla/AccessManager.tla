--------------------------- MODULE AccessManager ----------------------------
(***************************************************************************)
(* tAccessManager (src/core/api/tAccessManager.h): the recursive           *)
(* shared/exclusive gate every session carries, as the API uses it through *)
(* tAccessManagedRef (Acquire / Release / ReleaseAndWaitForAllReferences-   *)
(* Gone) and tAccessSuspender (SuspendAccess / ResumeAccess).              *)
(*                                                                         *)
(* A thread's tRequest is its nesting stack `req[t]` (the `nesting` bits,  *)
(* newest last; `shared`/`exclusive` are the counts of "S"/"E" in it).     *)
(* The request sits on one of the lists activeRequests (a set: only its    *)
(* counts and lookup by tid matter), pendingRequests (FIFO) or             *)
(* suspendedRequests.  Every section under criticalSection is one step.    *)
(* IncRef / DecRef run outside criticalSection: the atomic counter update  *)
(* and the following reset / release of the allRefsReleased event are      *)
(* separate steps.                                                         *)
(***************************************************************************)
EXTENDS Naturals, SequencesExt, FiniteSets


CONSTANTS
  Threads,      \* application threads using one session
  AcquireModes, \* subset of {"S","E"}: kAccess_Shared / kAccess_Exclusive
  MaxDepth,     \* bound on nested Acquires per thread (the code asserts < 32)
  NoThread,     \* model value: no thread
  StackThreads  \* threads that also use ReleaseAll / AcquireAll

ASSUME NoThread \notin Threads /\ StackThreads \subseteq Threads
       /\ AcquireModes \subseteq {"S", "E"} /\ MaxDepth \in Nat \ {0}

VARIABLES
  req,          \* [Threads -> Seq({"S","E"})]: the thread's tRequest nesting
  active,       \* activeRequests
  pending,      \* pendingRequests, head first
  suspended,    \* suspendedRequests
  signalled,    \* threads whose tRequest signal event is set
  pc,           \* per thread, see PcValues
  refcount,
  allReleased,  \* the allRefsReleased event (manual reset, initially set)
  mapHolder,    \* SessionManager::mapLock owner
  inMap,        \* the session is still in sessionMap
  closer,       \* the thread in DestroySession, if any
  want,         \* the access each thread's current Acquire asks for
  waited,       \* threads whose current API call has done its buffer wait
                \* or begun dropping its nested references
  call,         \* per thread: "None", or where it is in ReleaseAll /
                \* AcquireAll ("Holding": ReleaseAll has returned its stack)
  stack,        \* per thread: the tAccessStack, val[0..size-1] as a sequence
  saved,        \* history: the thread's request when its ReleaseAll began
  cnt           \* the shared / exclusive counters tRequestList caches for
                \* activeRequests and pendingRequests

vars == <<req, active, pending, suspended, signalled, pc, refcount,
          allReleased, mapHolder, inMap, closer, want,
          waited, call, stack, saved, cnt>>

\* "Reset": IncRef made the count 1, allRefsReleased.reset() still to run;
\* "Blocked": in SatisfyRequest's WaitForSignal; "Locked": the Acquire of
\* GetSession / DestroySession is done, mapLock still held; "Signal":
\* DecRef made the count 0, allRefsReleased.release() still to run;
\* "WaitAll": in WaitForAllReferencesToBeReleased; "Done": DestroySession
\* has returned.
PcValues == {"Run", "Reset", "Blocked", "Locked", "Signal", "WaitAll", "Done"}

\* tRequest::CountExclusive() # 0
HasExclusive(rq) == \E i \in DOMAIN rq : rq[i] = "E"

\* tRequest::CountShared / CountExclusive, tabulated one level past MaxDepth
\* so that a request grown past the bound is still counted (TypeOK reports it).
CountsOf == [rq \in BoundedSeq({"S", "E"}, MaxDepth + 1) |->
               LET s == Len(SelectSeq(rq, LAMBDA x : x = "S"))
               IN [shared |-> s, exclusive |-> Len(rq) - s]]
Counts(rq) == CountsOf[rq]

\* tRequestList::AddAtHead / AddAtTail add the request's counts to the
\* list's; RemoveHead / Remove(tid) subtract them.  Count() is their sum.
Plus(c, rq) == [shared |-> c.shared + Counts(rq).shared,
                exclusive |-> c.exclusive + Counts(rq).exclusive]
Minus(c, rq) == [shared |-> c.shared - Counts(rq).shared,
                 exclusive |-> c.exclusive - Counts(rq).exclusive]
ListCount(c) == c.shared + c.exclusive

\* SatisfyRequest's criteria for request rq, on the cached counters c of
\* the lists: (1) a low-priority request finds pendingRequests.Count() 0;
\* (2) activeRequests.CountExclusive() is 0; (3) an exclusive request
\* finds activeRequests.Count() 0.
CanSatisfy(rq, c, highPriority) ==
  /\ highPriority \/ ListCount(c.pending) = 0
  /\ c.active.exclusive = 0
  /\ ~(Counts(rq).exclusive # 0 /\ ListCount(c.active) # 0)

\* Mutant of GrantHead: the head is granted without checking the criteria.
GrantHeadUnchecked(r, act, pend, c) ==
  IF pend = <<>> THEN [active |-> act, pending |-> pend, woken |-> {}, cnt |-> c]
  ELSE [active |-> act \cup {Head(pend)}, pending |-> Tail(pend),
        woken |-> {Head(pend)},
        cnt |-> [active |-> Plus(c.active, r[Head(pend)]),
                 pending |-> Minus(c.pending, r[Head(pend)])]]

\* SatisfyRequest(pendingRequests.RemoveHead(), kHighPriority |
\* kDifferentThread): the head is made active (AddAtHead) and signalled,
\* or goes back to the head of pendingRequests.
GrantHead(r, act, pend, c) ==
  IF pend = <<>> THEN [active |-> act, pending |-> pend, woken |-> {}, cnt |-> c]
  ELSE LET h == Head(pend)
           c1 == [c EXCEPT !.pending = Minus(@, r[h])]
       IN IF CanSatisfy(r[h], c1, TRUE)
            THEN [active |-> act \cup {h}, pending |-> Tail(pend),
                  woken |-> {h}, cnt |-> [c1 EXCEPT !.active = Plus(@, r[h])]]
            ELSE [active |-> act, pending |-> pend, woken |-> {},
                  cnt |-> [c1 EXCEPT !.pending = Plus(@, r[h])]]

\* SatisfyRequest(ourRequest) for the calling thread at low priority.  If
\* it cannot be satisfied, the pending head is tried first, then the
\* request goes to the tail (AddAtTail) and the thread blocks on its signal.
SatisfyOwn(r, t, act, pend, c) ==
  IF CanSatisfy(r[t], c, FALSE)
    THEN [active |-> act \cup {t}, pending |-> pend, woken |-> {},
          blocked |-> FALSE, cnt |-> [c EXCEPT !.active = Plus(@, r[t])]]
    ELSE LET g == GrantHead(r, act, pend, c)
         IN [active |-> g.active, pending |-> Append(g.pending, t),
             woken |-> g.woken, blocked |-> TRUE,
             cnt |-> [g.cnt EXCEPT !.pending = Plus(@, r[t])]]

\* Where a thread goes once its Acquire is satisfied: back to its caller,
\* or, inside GetSession / DestroySession, to the release of mapLock.
Acquired(locked) == IF locked THEN "Locked" ELSE "Run"

\* Installs the outcome of a satisfy: lists, signals and the thread's pc.
Apply(t, s, nextPc) ==
  /\ active' = s.active
  /\ pending' = s.pending
  /\ signalled' = signalled \cup s.woken
  /\ pc' = [pc EXCEPT ![t] = nextPc]
  /\ cnt' = s.cnt

-----------------------------------------------------------------------------
Init ==
  /\ req = [t \in Threads |-> <<>>]
  /\ active = {} /\ pending = <<>> /\ suspended = {}
  /\ signalled = {}
  /\ pc = [t \in Threads |-> "Run"]
  /\ refcount = 0
  /\ allReleased = TRUE
  /\ mapHolder = NoThread
  /\ inMap = TRUE
  /\ closer = NoThread
  /\ want = [t \in Threads |-> "E"]
  /\ waited = {}
  /\ call = [t \in Threads |-> "None"]
  /\ stack = [t \in Threads |-> <<>>]
  /\ saved = [t \in Threads |-> <<>>]
  /\ cnt = [l \in {"active", "pending"} |-> [shared |-> 0, exclusive |-> 0]]

\* Mutant of GetAccess: a nested access is added to the request while it
\* is still on activeRequests, so the list's counters miss it.
GetAccessAddInPlace(t, m, locked) ==
  LET r == [req EXCEPT ![t] = Append(req[t], m)]
  IN
  /\ req' = r
  /\ IF t \in active /\ (m = "S" \/ HasExclusive(req[t]))
       THEN /\ UNCHANGED <<active, pending, signalled, cnt>>
            /\ pc' = [pc EXCEPT ![t] = Acquired(locked)]
       ELSE LET s == SatisfyOwn(r, t, active \ {t}, pending,
                                IF t \in active
                                  THEN [cnt EXCEPT !.active = Minus(@, req[t])]
                                  ELSE cnt)
            IN Apply(t, s, IF s.blocked THEN "Blocked" ELSE Acquired(locked))

\* The locked body of GetSharedAccess / GetExclusiveAccess.  An active
\* thread asking for shared, or already holding exclusive, just adds to its
\* request; otherwise the grown request is satisfied anew, the thread
\* having left activeRequests.  `locked`: the caller holds mapLock.
\* activeRequests.Remove(ourTid) takes the request's counts off the list
\* before Add changes them, and AddAtHead puts the new ones back.
GetAccess(t, m, locked) ==
  LET r == [req EXCEPT ![t] = Append(req[t], m)]
      c0 == IF t \in active THEN [cnt EXCEPT !.active = Minus(@, req[t])]
                            ELSE cnt
  IN
  /\ req' = r
  /\ IF t \in active /\ (m = "S" \/ HasExclusive(req[t]))
       THEN /\ UNCHANGED <<active, pending, signalled>>
            /\ cnt' = [c0 EXCEPT !.active = Plus(@, r[t])]
            /\ pc' = [pc EXCEPT ![t] = Acquired(locked)]
       ELSE LET s == SatisfyOwn(r, t, active \ {t}, pending, c0)
            IN Apply(t, s, IF s.blocked THEN "Blocked" ELSE Acquired(locked))

\* Acquire(exclusive) = IncRef(); Get*Access().  `++refcount == 1` leaves
\* the reset of allRefsReleased to a step of its own.
AcquireBody(t, m, locked) ==
  /\ refcount' = refcount + 1
  /\ want' = [want EXCEPT ![t] = m]
  /\ IF refcount = 0
       THEN /\ pc' = [pc EXCEPT ![t] = "Reset"]
            /\ UNCHANGED <<req, active, pending, signalled, cnt>>
       ELSE GetAccess(t, m, locked)

\* SessionManager::GetSession (destroy = FALSE) and the first block of
\* DestroySession (destroy = TRUE): under mapLock, find the handle in
\* sessionMap and construct an RdmaSessionRef, which Acquires.
GetSession(t, m, destroy) ==
  /\ call[t] = "None"
  /\ pc[t] = "Run" /\ req[t] = <<>> /\ t \notin suspended /\ t # closer
  /\ mapHolder = NoThread /\ inMap
  /\ destroy => closer = NoThread
  /\ mapHolder' = t
  /\ closer' = IF destroy THEN t ELSE closer
  /\ AcquireBody(t, m, TRUE)
  /\ UNCHANGED <<suspended, allReleased, inMap, waited, call, stack, saved>>

\* Mutant of NestedAcquire: the depth check admits one access too many.
NestedAcquireOffByOne(t, m) ==
  /\ call[t] = "None"
  /\ pc[t] = "Run" /\ t \in active /\ t # closer /\ t \notin waited
  /\ Len(req[t]) <= MaxDepth
  /\ AcquireBody(t, m, FALSE)
  /\ UNCHANGED <<suspended, allReleased, mapHolder, inMap, closer, waited,
                 call, stack, saved>>

\* Copying an RdmaSessionRef the thread holds: a nested Acquire.
NestedAcquire(t, m) ==
  /\ call[t] = "None"
  /\ pc[t] = "Run" /\ t \in active /\ t # closer /\ t \notin waited
  /\ Len(req[t]) < MaxDepth
  /\ AcquireBody(t, m, FALSE)
  /\ UNCHANGED <<suspended, allReleased, mapHolder, inMap, closer, waited,
                 call, stack, saved>>

\* IncRef's allRefsReleased.reset(), then Get*Access.
AcqReset(t) ==
  /\ pc[t] = "Reset"
  /\ allReleased' = FALSE
  /\ GetAccess(t, want[t], mapHolder = t)
  /\ UNCHANGED <<suspended, refcount, mapHolder, inMap, closer, want, waited>>
  /\ UNCHANGED <<call, stack, saved>>

\* SatisfyRequest after WaitForSignal returns: relock and try the pending
\* head for its own thread.
Wake(t) ==
  /\ pc[t] = "Blocked" /\ t \in signalled
  /\ LET g == GrantHead(req, active, pending, cnt)
     IN /\ active' = g.active
        /\ pending' = g.pending
        /\ signalled' = (signalled \ {t}) \cup g.woken
        /\ cnt' = g.cnt
  /\ pc' = [pc EXCEPT ![t] = Acquired(mapHolder = t)]
  /\ UNCHANGED <<req, suspended, refcount, allReleased, mapHolder, inMap,
                 closer, want, waited>>
  /\ UNCHANGED <<call, stack, saved>>

\* The end of GetSession / DestroySession's locked block: DestroySession
\* has erased the handle from sessionMap before mapLock is released.
MapUnlock(t) ==
  /\ pc[t] = "Locked"
  /\ mapHolder' = NoThread
  /\ inMap' = (inMap /\ closer # t)
  /\ pc' = [pc EXCEPT ![t] = "Run"]
  /\ UNCHANGED <<req, active, pending, suspended, signalled, refcount,
                 allReleased, closer, want, waited, cnt>>
  /\ UNCHANGED <<call, stack, saved>>

\* Mutant of AfterDecRef: `refcount-- == 0` tests the old value.
AfterDecRefPostDecrement(t) ==
  IF refcount = 0 THEN "Signal" ELSE IF t = closer THEN "WaitAll" ELSE "Run"

\* Where DecRef leaves the releasing thread: `--refcount == 0` still has
\* to release allRefsReleased; otherwise Release returns, into the wait
\* of ReleaseAndWaitForAllReferencesGone for the closer.
AfterDecRef(t) ==
  IF refcount = 1 THEN "Signal" ELSE IF t = closer THEN "WaitAll" ELSE "Run"

\* Mutant of ReleaseBody: the pending head is not tried after the release.
ReleaseBodyNoHandoff(t) ==
  /\ LET r == [req EXCEPT ![t] = SubSeq(req[t], 1, Len(req[t]) - 1)]
         c0 == [cnt EXCEPT !.active = Minus(@, req[t])]
     IN /\ req' = r
        /\ active' = IF r[t] = <<>> THEN active \ {t} ELSE active
        /\ cnt' = IF r[t] = <<>> THEN c0
                  ELSE [c0 EXCEPT !.active = Plus(@, r[t])]
  /\ refcount' = refcount - 1
  /\ pc' = [pc EXCEPT ![t] = AfterDecRef(t)]
  /\ waited' = IF req'[t] = <<>> THEN waited \ {t} ELSE waited \cup {t}
  /\ UNCHANGED <<pending, signalled, suspended, allReleased, mapHolder,
                 inMap, closer, want>>

\* The body of tAccessManager::Release: drop the last access of the
\* thread's request (RemoveLast), go back on activeRequests only while
\* some is left, satisfy the pending head, and then, outside
\* criticalSection, DecRef.  In DestroySession (via
\* ReleaseAndWaitForAllReferencesGone) the thread then waits for all
\* references to go.
ReleaseBody(t) ==
  /\ LET r == [req EXCEPT ![t] = SubSeq(req[t], 1, Len(req[t]) - 1)]
         c0 == [cnt EXCEPT !.active = Minus(@, req[t])]
         c1 == IF r[t] = <<>> THEN c0
               ELSE [c0 EXCEPT !.active = Plus(@, r[t])]
         g == GrantHead(r, IF r[t] = <<>> THEN active \ {t} ELSE active,
                        pending, c1)
     IN /\ req' = r
        /\ active' = g.active
        /\ pending' = g.pending
        /\ signalled' = signalled \cup g.woken
        /\ cnt' = g.cnt
  /\ refcount' = refcount - 1
  /\ pc' = [pc EXCEPT ![t] = AfterDecRef(t)]
  /\ waited' = IF req'[t] = <<>> THEN waited \ {t} ELSE waited \cup {t}
  /\ UNCHANGED <<suspended, allReleased, mapHolder, inMap, closer, want>>

\* Release called by the thread (an RdmaSessionRef going out of scope).
Release(t) ==
  /\ call[t] = "None" /\ pc[t] = "Run" /\ t \in active
  /\ ReleaseBody(t)
  /\ UNCHANGED <<call, stack, saved>>

\* HasExclusiveAccess / HasSharedAccess: the thread must be on
\* activeRequests (Remove then AddAtHead, which leaves the counters as
\* they were), but the counts are those of the whole list.
HasExclusiveAccess(t) ==
  t \in active /\ cnt.active.exclusive > 0
HasSharedAccess(t) ==
  t \in active /\ cnt.active.exclusive = 0 /\ cnt.active.shared > 0

\* One turn of ReleaseAll's loop: while the thread has access, Release
\* and push what it returned (was the access exclusive) onto the stack.
ReleaseAll(t) ==
  /\ call[t] \in {"None", "ReleaseAll"} /\ pc[t] = "Run" /\ t # closer
  /\ call[t] = "None" => t \in StackThreads /\ t \notin waited
  /\ HasExclusiveAccess(t) \/ HasSharedAccess(t)
  /\ ReleaseBody(t)
  /\ call' = [call EXCEPT ![t] = "ReleaseAll"]
  /\ stack' = [stack EXCEPT ![t] = Append(@, Last(req[t]) = "E")]
  /\ saved' = IF call[t] = "None" THEN [saved EXCEPT ![t] = req[t]] ELSE saved

\* ReleaseAll's loop test fails: it returns the stack.
ReleaseAllReturn(t) ==
  /\ call[t] = "ReleaseAll" /\ pc[t] = "Run"
  /\ ~(HasExclusiveAccess(t) \/ HasSharedAccess(t))
  /\ call' = [call EXCEPT ![t] = "Holding"]
  /\ UNCHANGED <<req, active, pending, suspended, signalled, pc, refcount,
                 allReleased, mapHolder, inMap, closer, want, waited, stack,
                 saved, cnt>>

\* Mode of an access pushed by ReleaseAll: Acquire(val[i]) is exclusive
\* when val[i] is true.
ModeOf(b) == IF b THEN "E" ELSE "S"

\* Mutant of AcquireNext: the stack is replayed from val[0] upwards.
AcquireNextLowestFirst(t) ==
  /\ AcquireBody(t, ModeOf(Head(stack[t])), FALSE)
  /\ stack' = [stack EXCEPT ![t] = Tail(@)]
  /\ UNCHANGED <<suspended, allReleased, mapHolder, inMap, closer, waited,
                 saved>>

\* One turn of AcquireAll's loop: Acquire(val[size-1]) and pop it.
AcquireNext(t) ==
  /\ AcquireBody(t, ModeOf(Last(stack[t])), FALSE)
  /\ stack' = [stack EXCEPT ![t] = SubSeq(@, 1, Len(@) - 1)]
  /\ UNCHANGED <<suspended, allReleased, mapHolder, inMap, closer, waited,
                 saved>>

\* AcquireAll(stack) called with ReleaseAll's stack (it asserts size > 0).
AcquireAll(t) ==
  /\ call[t] = "Holding" /\ pc[t] = "Run" /\ stack[t] # <<>>
  /\ AcquireNext(t)
  /\ call' = [call EXCEPT ![t] = "AcquireAll"]

\* The following turns of AcquireAll's loop, once the previous Acquire
\* has returned, and the return when the stack is empty.  As with a
\* buffer wait, a call makes one such round and then unwinds (`waited`).
AcquireAllNext(t) ==
  /\ call[t] = "AcquireAll" /\ pc[t] = "Run" /\ stack[t] # <<>>
  /\ AcquireNext(t)
  /\ UNCHANGED call
AcquireAllReturn(t) ==
  /\ call[t] = "AcquireAll" /\ pc[t] = "Run" /\ stack[t] = <<>>
  /\ call' = [call EXCEPT ![t] = "None"]
  /\ waited' = waited \cup {t}
  /\ saved' = [saved EXCEPT ![t] = <<>>]
  /\ UNCHANGED <<req, active, pending, suspended, signalled, pc, refcount,
                 allReleased, mapHolder, inMap, closer, want, stack, cnt>>

\* DecRef's allRefsReleased.release() after `--refcount == 0`.
SignalAllReleased(t) ==
  /\ pc[t] = "Signal"
  /\ allReleased' = TRUE
  /\ pc' = [pc EXCEPT ![t] = IF t = closer THEN "WaitAll" ELSE "Run"]
  /\ UNCHANGED <<req, active, pending, suspended, signalled, refcount,
                 mapHolder, inMap, closer, want, waited, cnt>>
  /\ UNCHANGED <<call, stack, saved>>

\* WaitForAllReferencesToBeReleased: tEvent::acquireWithTimeout(-1)
\* returns once the event is set (manual reset: it stays set).
WaitAllDone(t) ==
  /\ pc[t] = "WaitAll" /\ allReleased
  /\ pc' = [pc EXCEPT ![t] = "Done"]
  /\ UNCHANGED <<req, active, pending, suspended, signalled, refcount,
                 allReleased, mapHolder, inMap, closer, want,
                 waited, cnt>>
  /\ UNCHANGED <<call, stack, saved>>

\* tAccessSuspender's SuspendAccess, around the one blocking buffer wait
\* an API call makes (AcquireSendRegion, AcquireReceivedRegion, ...): the
\* request moves to suspendedRequests (the yield purge adds and removes an
\* exclusive, leaving it as it was) and the pending head is tried.
SuspendAccess(t) ==
  /\ call[t] = "None"
  /\ pc[t] = "Run" /\ t \in active /\ t # closer /\ t \notin waited
  /\ suspended' = suspended \cup {t}
  /\ waited' = waited \cup {t}
  /\ LET g == GrantHead(req, active \ {t}, pending,
                        [cnt EXCEPT !.active = Minus(@, req[t])])
     IN /\ active' = g.active
        /\ pending' = g.pending
        /\ signalled' = signalled \cup g.woken
        /\ cnt' = g.cnt
  /\ UNCHANGED <<req, pc, refcount, allReleased, mapHolder, inMap, closer,
                 want>>
  /\ UNCHANGED <<call, stack, saved>>

\* ResumeAccess: the suspended request is satisfied at low priority, as a
\* new one would be, and the thread may block.
ResumeAccess(t) ==
  /\ call[t] = "None"
  /\ pc[t] = "Run" /\ t \in suspended
  /\ suspended' = suspended \ {t}
  /\ LET s == SatisfyOwn(req, t, active, pending, cnt)
     IN Apply(t, s, IF s.blocked THEN "Blocked" ELSE "Run")
  /\ UNCHANGED <<req, refcount, allReleased, mapHolder, inMap, closer, want,
                 waited>>
  /\ UNCHANGED <<call, stack, saved>>

\* The session is destroyed and no thread holds or wants it any more.
Terminated ==
  /\ closer # NoThread /\ pc[closer] = "Done"
  /\ \A t \in Threads : req[t] = <<>> /\ pc[t] \in {"Run", "Done"}

Next ==
  \/ \E t \in Threads :
       \/ \E m \in AcquireModes : GetSession(t, m, FALSE) \/ NestedAcquire(t, m)
       \/ GetSession(t, "E", TRUE)
       \/ AcqReset(t) \/ Wake(t) \/ MapUnlock(t)
       \/ Release(t) \/ SignalAllReleased(t) \/ WaitAllDone(t)
       \/ SuspendAccess(t) \/ ResumeAccess(t)
       \/ ReleaseAll(t) \/ ReleaseAllReturn(t)
       \/ AcquireAll(t) \/ AcquireAllNext(t) \/ AcquireAllReturn(t)
  \/ Terminated /\ UNCHANGED vars

\* Every step of a thread that has started a call is taken by the OS
\* scheduler (the loops of ReleaseAll and AcquireAll included); every
\* RdmaSessionRef is released when its API call returns, and every
\* suspended buffer wait ends (timeout or Cancel).  Nothing forces a
\* thread to call ReleaseAll, or AcquireAll with the stack it holds.
Fairness ==
  \A t \in Threads :
    /\ WF_vars(AcqReset(t)) /\ WF_vars(Wake(t)) /\ WF_vars(MapUnlock(t))
    /\ WF_vars(Release(t)) /\ WF_vars(SignalAllReleased(t))
    /\ WF_vars(WaitAllDone(t)) /\ WF_vars(ResumeAccess(t))
    /\ WF_vars(call[t] = "ReleaseAll" /\ ReleaseAll(t))
    /\ WF_vars(ReleaseAllReturn(t)) /\ WF_vars(AcquireAllNext(t))
    /\ WF_vars(AcquireAllReturn(t))

Spec == Init /\ [][Next]_vars /\ Fairness

-----------------------------------------------------------------------------
TypeOK ==
  /\ req \in [Threads -> Seq({"S", "E"})]
  /\ \A t \in Threads : Len(req[t]) <= MaxDepth
  /\ active \subseteq Threads /\ suspended \subseteq Threads
  /\ pending \in Seq(Threads) /\ signalled \subseteq Threads
  /\ pc \in [Threads -> PcValues]
  /\ refcount \in 0..(Cardinality(Threads) * MaxDepth)
  /\ allReleased \in BOOLEAN /\ inMap \in BOOLEAN
  /\ mapHolder \in Threads \cup {NoThread}
  /\ closer \in Threads \cup {NoThread}
  /\ want \in [Threads -> {"S", "E"}]
  /\ waited \subseteq Threads
  /\ call \in [Threads -> {"None", "ReleaseAll", "Holding", "AcquireAll"}]
  /\ stack \in [Threads -> Seq(BOOLEAN)]
  /\ saved \in [Threads -> Seq({"S", "E"})]
  /\ cnt \in [{"active", "pending"} -> [shared : Nat, exclusive : Nat]]

\* The accesses of the requests on a list, of one kind.
Tally(us, k) ==
  Cardinality(UNION {{<<u, i>> : i \in {j \in DOMAIN req[u] : req[u][j] = k}}
                     : u \in us})

\* SatisfyRequest, HasExclusiveAccess and HasSharedAccess decide on the
\* counters tRequestList caches, not on the requests: every path that
\* changes a request (Get*Access, Release, SuspendAccess's purge) must take
\* it off its list first and put it back after, or the counters of
\* activeRequests and pendingRequests drift from the requests they hold.
ListCountersExact ==
  /\ cnt.active = [shared |-> Tally(active, "S"),
                   exclusive |-> Tally(active, "E")]
  /\ cnt.pending = [shared |-> Tally(ToSet(pending), "S"),
                    exclusive |-> Tally(ToSet(pending), "E")]

\* Exclusive access excludes every other thread: a request holding an
\* exclusive is the only active one (SatisfyRequest's criteria 2 and 3,
\* also applied when Release / SuspendAccess hand access to a pending one).
ExclusiveIsExclusive ==
  \A t \in active : HasExclusive(req[t]) => active = {t}

\* ReleaseAll followed by AcquireAll gives the thread back the accesses
\* it held, in the same nesting order, however other threads interleave
\* (the unit tests ReleaseAcquireAll and AccessReleaseAll check this for
\* one thread): when ReleaseAll returns the thread holds nothing, and at
\* every point of the two loops the accesses still held followed by the
\* stack, newest entry first, are the request ReleaseAll started from.
ReleaseAllRoundTrip ==
  \A t \in Threads :
    /\ call[t] = "Holding" => req[t] = <<>>
    /\ (call[t] # "None" /\ pc[t] # "Reset")
         => req[t] \o Reverse([i \in DOMAIN stack[t] |-> ModeOf(stack[t][i])])
              = saved[t]

\* A thread blocked in SatisfyRequest's WaitForSignal is eventually granted
\* access: every Release and SuspendAccess hands access on to the pending
\* head, and a newcomer queues behind a non-empty pending list.
StarvationFree ==
  \A t \in Threads : pc[t] = "Blocked" ~> pc[t] \in {"Run", "Locked"}

\* DestroySession returns: ReleaseAndWaitForAllReferencesGone's wait on
\* allRefsReleased ends once the other threads' RdmaSessionRefs are gone.
DestroyCompletes ==
  \A t \in Threads : t = closer ~> pc[t] = "Done"

\* When DestroySession returns no RdmaSessionRef of the session is left:
\* the comment on WaitForAllReferencesToBeReleased and the erase in
\* DestroySession rely on it, but IncRef's reset and DecRef's release of
\* allRefsReleased run outside any lock.
DestroyWaitsForAllRefs ==
  \A t \in Threads : pc[t] = "Done" => refcount = 0
=============================================================================
