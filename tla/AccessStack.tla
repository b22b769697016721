----------------------------- MODULE AccessStack -----------------------------
(***************************************************************************)
(* What a thread's tAccessManager request promises it: the thread's nested *)
(* accesses form a stack, each entry shared ("S") or exclusive ("E");      *)
(* every Acquire pushes one, every Release pops the newest and reports     *)
(* whether it was exclusive (the value ReleaseAll stacks and AcquireAll    *)
(* replays).  A thread without accesses has no request.                    *)
(***************************************************************************)
EXTENDS Naturals, Sequences

CONSTANTS Threads, MaxDepth

VARIABLES modes, removed

Modes == {"S", "E"}

StackInit ==
  /\ modes = [t \in Threads |-> <<>>]
  /\ removed = [t \in Threads |-> FALSE]

StackPush(t, m) ==
  /\ Len(modes[t]) < MaxDepth
  /\ modes' = [modes EXCEPT ![t] = Append(@, m)]
  /\ UNCHANGED removed

StackPop(t) ==
  /\ modes[t] # <<>>
  /\ removed' = [removed EXCEPT ![t] = modes[t][Len(modes[t])] = "E"]
  /\ modes' = [modes EXCEPT ![t] = SubSeq(@, 1, Len(@) - 1)]

StackNext == \E t \in Threads : StackPop(t) \/ \E m \in Modes : StackPush(t, m)

StackSpec == StackInit /\ [][StackNext]_<<modes, removed>>
=============================================================================
