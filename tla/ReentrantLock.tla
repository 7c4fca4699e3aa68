---------------------------- MODULE ReentrantLock ----------------------------
(***************************************************************************)
(* What lock_t promises its callers (mutex.h, mutex.c): one task at a time *)
(* is inside, and it may enter again before it has left as often.          *)
(***************************************************************************)
EXTENDS Naturals

CONSTANT Task

VARIABLE depth   \* how many lock_acquire of a task have not been released

Init == depth = [t \in Task |-> 0]

Acquire(t) ==
  /\ \A u \in Task \ {t} : depth[u] = 0
  /\ depth' = [depth EXCEPT ![t] = depth[t] + 1]

Release(t) ==
  /\ depth[t] > 0
  /\ depth' = [depth EXCEPT ![t] = depth[t] - 1]

Next == \E t \in Task : Acquire(t) \/ Release(t)

Spec == Init /\ [][Next]_depth
=============================================================================
