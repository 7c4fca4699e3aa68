---------------------------- MODULE PrivateMemory ----------------------------
(***************************************************************************)
(* What fork, exit, brk and page faults promise user tasks (memory.c,      *)
(* task.c): each has a memory of its own.  A page is there once it has     *)
(* been touched; a fork copies the memory; nothing but a task's own stores *)
(* changes what is in its pages.                                           *)
(***************************************************************************)
CONSTANTS Task, Page, Value, Junk, Unmapped

VARIABLE space

Init == space = [t \in Task |-> [p \in Page |-> Unmapped]]

Store(t, p, v) ==
  /\ space[t][p] # Unmapped
  /\ space' = [space EXCEPT ![t][p] = v]

Touch(t, p) ==
  /\ space[t][p] = Unmapped
  /\ space' = [space EXCEPT ![t][p] = Junk]

GiveBack(t, p) == space' = [space EXCEPT ![t][p] = Unmapped]

Fork(parent, child) ==
  /\ \A p \in Page : space[child][p] = Unmapped
  /\ space' = [space EXCEPT ![child] = space[parent]]

Exit(t) == space' = [space EXCEPT ![t] = [p \in Page |-> Unmapped]]

Next ==
  \E t \in Task :
    \/ \E p \in Page : Touch(t, p) \/ GiveBack(t, p) \/ \E v \in Value : Store(t, p, v)
    \/ \E child \in Task : Fork(t, child)
    \/ Exit(t)

Spec == Init /\ [][Next]_space
=============================================================================
