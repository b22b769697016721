---------------------------- MODULE AccessRequest ----------------------------
(***************************************************************************)
(* The request objects of tAccessManager (src/core/api/tAccessManager.h):  *)
(* a tRequest keeps a thread's nested accesses as two counters (shared,    *)
(* exclusive) and a uint32 `nesting` word, one bit per level, newest in    *)
(* bit 0 (1 = shared, 0 = exclusive).  Requests come from a pool: the      *)
(* constructor preallocates raw objects with MakeNewRequest onto           *)
(* emptyRequests, operator new takes the head of that list (or makes a new *)
(* object when it is empty) and operator delete puts it back at the head.  *)
(* Neither MakeNewRequest nor the tRequest constructor initialises         *)
(* `nesting`, so a request starts with whatever the word held: the         *)
(* previous user's bits, or indeterminate memory for a fresh object.       *)
(* Only the request fields are modelled here; the lists a request sits on  *)
(* (active, pending, suspended) and who is granted what are AccessManager. *)
(***************************************************************************)
EXTENDS Naturals, Sequences, SequencesExt, Bitwise

CONSTANTS
  Threads,
  Requests,       \* request objects the process may ever allocate
  Preallocated,   \* kInitialNumberOfRequestsInAccessManager objects
  NestingBits,    \* width of `nesting` (32 in the code)
  MaxDepth,       \* bound: nested accesses a thread takes
  GarbageCounts,  \* counter values raw memory may hold
  NoRequest

ASSUME /\ Preallocated \subseteq Requests /\ NoRequest \notin Requests
       /\ NestingBits \in Nat \ {0} /\ MaxDepth \in Nat \ {0}
       /\ GarbageCounts \subseteq Nat

VARIABLES
  request,    \* each object's fields [shared, exclusive, nesting]
  emptyList,  \* emptyRequests, head first
  allocated,  \* objects made by MakeNewRequest so far
  ours,       \* the request object a thread's accesses live in
  removed     \* what the thread's last Release (RemoveLast) returned

rvars == <<request, emptyList, allocated, ours, removed>>

Word == 2^NestingBits

\* Memory as MakeNewRequest's new uint8_t[] leaves it: nothing initialised.
Raw == [shared : GarbageCounts, exclusive : GarbageCounts,
        nesting : 0..(Word - 1)]

Count(q) == q.shared + q.exclusive

\* Mutant of Add: the shifted word is not truncated to its width.
AddNoTruncate(q, m) ==
  IF m = "S"
    THEN [q EXCEPT !.shared = @ + 1, !.nesting = (@ * 2) | 1]
    ELSE [q EXCEPT !.exclusive = @ + 1, !.nesting = @ * 2]

\* tRequest::Add(kShared / kExclusive): count it and shift the level's bit
\* into the uint32 nesting word.
Add(q, m) ==
  IF m = "S"
    THEN [q EXCEPT !.shared = @ + 1, !.nesting = ((@ * 2) | 1) % Word]
    ELSE [q EXCEPT !.exclusive = @ + 1, !.nesting = (@ * 2) % Word]

\* tRequest::RemoveLast: bit 0 says which counter to decrement; the word
\* shifts right.  It returns whether the level was exclusive.
WasExclusive(q) == (q.nesting & 1) = 0

\* Mutant of RemoveLast: the word is not shifted.
RemoveLastNoShift(q) ==
  IF WasExclusive(q) THEN [q EXCEPT !.exclusive = @ - 1]
                     ELSE [q EXCEPT !.shared = @ - 1]

RemoveLast(q) ==
  IF WasExclusive(q)
    THEN [q EXCEPT !.exclusive = @ - 1, !.nesting = shiftR(@, 1)]
    ELSE [q EXCEPT !.shared = @ - 1, !.nesting = shiftR(@, 1)]

\* Mutant of Construct: the counters keep what the memory held.
ConstructNoReset(t, r, mem, m) ==
  /\ request' = [request EXCEPT ![r] = Add(mem, m)]
  /\ ours' = [ours EXCEPT ![t] = r]

\* The tRequest constructor on the memory operator new returned: tid,
\* counters, yieldedTo and next are set, then Add(type).  `nesting` keeps
\* the memory's bits.
Construct(t, r, mem, m) ==
  /\ request' = [request EXCEPT ![r] = Add([mem EXCEPT !.shared = 0,
                                                      !.exclusive = 0], m)]
  /\ ours' = [ours EXCEPT ![t] = r]

\* tAccessManager(): MakeNewRequest for every preallocated object, each
\* added at the head of emptyRequests.
Init ==
  /\ allocated = Preallocated
  /\ emptyList = SetToSeq(Preallocated)
  /\ request \in {f \in [Requests -> Raw] :
                    \A r \in Requests \ Preallocated : f[r] = CHOOSE x \in Raw : TRUE}
  /\ ours = [t \in Threads |-> NoRequest]
  /\ removed = [t \in Threads |-> FALSE]

\* new (this) tRequest(ourTid, type) in GetSharedAccess / GetExclusiveAccess
\* for a thread with no request: operator new takes the head of
\* emptyRequests, or, when the list is empty, MakeNewRequest's raw memory.
NewRequest(t, m) ==
  /\ ours[t] = NoRequest
  /\ \/ /\ emptyList # <<>>
        /\ Construct(t, Head(emptyList), request[Head(emptyList)], m)
        /\ emptyList' = Tail(emptyList)
        /\ UNCHANGED allocated
     \/ /\ emptyList = <<>>
        /\ \E r \in Requests \ allocated, mem \in Raw :
              /\ Construct(t, r, mem, m)
              /\ allocated' = allocated \cup {r}
        /\ UNCHANGED emptyList
  /\ UNCHANGED removed

\* A nested GetSharedAccess / GetExclusiveAccess on the thread's existing
\* request: ourRequest->Add(type).
AddAccess(t, m) ==
  /\ ours[t] # NoRequest
  /\ Count(request[ours[t]]) < MaxDepth
  /\ request' = [request EXCEPT ![ours[t]] = Add(request[ours[t]], m)]
  /\ UNCHANGED <<emptyList, allocated, ours, removed>>

\* Mutant of ReleaseRequest: the request goes back to the pool while it
\* still holds accesses.
ReleaseRequestAlwaysDelete(t) ==
  LET r == ours[t]
      q == RemoveLast(request[r])
  IN
  /\ r # NoRequest
  /\ removed' = [removed EXCEPT ![t] = WasExclusive(request[r])]
  /\ request' = [request EXCEPT ![r] = q]
  /\ emptyList' = <<r>> \o emptyList
  /\ ours' = [ours EXCEPT ![t] = IF Count(q) = 0 THEN NoRequest ELSE r]
  /\ UNCHANGED allocated

\* Release: exclusive = ourRequest->RemoveLast(); a request with accesses
\* left goes back on the active list, an empty one to operator delete,
\* which adds it at the head of emptyRequests.
ReleaseRequest(t) ==
  LET r == ours[t]
      q == RemoveLast(request[r])
  IN
  /\ r # NoRequest
  /\ removed' = [removed EXCEPT ![t] = WasExclusive(request[r])]
  /\ request' = [request EXCEPT ![r] = q]
  /\ IF Count(q) = 0
       THEN /\ emptyList' = <<r>> \o emptyList
            /\ ours' = [ours EXCEPT ![t] = NoRequest]
       ELSE UNCHANGED <<emptyList, ours>>
  /\ UNCHANGED allocated

\* SuspendAccess with an exclusive access: Add(kExclusive) then
\* RemoveLast(), to purge a yielded-to exclusive.  Without yieldedTo the
\* pair is meant to change nothing.
SuspendPurge(t) ==
  /\ ours[t] # NoRequest
  /\ request[ours[t]].exclusive # 0
  /\ request' = [request EXCEPT ![ours[t]] = RemoveLast(Add(request[ours[t]], "E"))]
  /\ UNCHANGED <<emptyList, allocated, ours, removed>>

Next ==
  \E t \in Threads :
     \/ ReleaseRequest(t) \/ SuspendPurge(t)
     \/ \E m \in {"S", "E"} : NewRequest(t, m) \/ AddAccess(t, m)

Spec == Init /\ [][Next]_rvars

-----------------------------------------------------------------------------
RequestTypeOK ==
  /\ request \in [Requests -> [shared : Nat, exclusive : Nat,
                               nesting : 0..(Word - 1)]]
  /\ emptyList \in Seq(Requests)
  /\ allocated \subseteq Requests
  /\ ours \in [Threads -> Requests \cup {NoRequest}]
  /\ removed \in [Threads -> BOOLEAN]

\* The modes a request's nesting word holds, oldest first: level i of
\* Count(q) is bit Count(q) - i.
NestingStack(q) ==
  [i \in 1..Count(q) |-> IF (q.nesting \div 2^(Count(q) - i)) % 2 = 1
                           THEN "S" ELSE "E"]

\* The pool of request objects: operator new and operator delete keep every
\* object made by MakeNewRequest either on emptyRequests, once, or in use by
\* exactly one thread.  An object returned twice, or returned while a
\* thread still uses it, would be handed to two threads.
RequestPoolPartition ==
  /\ IsInjective(emptyList)
  /\ \A t, u \in Threads : t # u /\ ours[t] # NoRequest => ours[t] # ours[u]
  /\ ToSet(emptyList) \cap {ours[t] : t \in Threads} = {}
  /\ ToSet(emptyList) \cup ({ours[t] : t \in Threads} \ {NoRequest})
       = allocated

\* CountShared and CountExclusive, which GetExclusiveAccess, SuspendAccess
\* and SatisfyRequest decide on, agree with the nesting word RemoveLast
\* decodes, whatever the word held when the object was reused.
CountsMatchNesting ==
  \A t \in Threads : ours[t] # NoRequest =>
     LET q == request[ours[t]] IN
     q.shared = Cardinality({i \in 1..Count(q) : NestingStack(q)[i] = "S"})

\* The counters and the uninitialised, reused nesting word implement a
\* stack of nested accesses: every Add pushes, every RemoveLast pops the
\* newest level and returns whether it was exclusive, and SuspendAccess's
\* Add/RemoveLast pair changes nothing.
Stack == INSTANCE AccessStack
           WITH modes <- [t \in Threads |-> IF ours[t] = NoRequest THEN <<>>
                                            ELSE NestingStack(request[ours[t]])]

RequestRefinement == Stack!StackSpec
=============================================================================
