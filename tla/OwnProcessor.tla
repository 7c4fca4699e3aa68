---------------------------- MODULE OwnProcessor ----------------------------
(***************************************************************************)
(* What the entry code, task_switch and fork promise together: each task   *)
(* has a processor of its own, with its own registers and interrupt flag.  *)
(* Only the task that runs changes them; interrupts and switches do not.   *)
(***************************************************************************)
EXTENDS Integers

CONSTANTS
  Task,
  Result,    \* what a system call may leave in eax
  Nobody,    \* who runs before the first switch
  Start,     \* the registers of each task at its start
  NoRegs     \* those of a task that is not there yet

VARIABLES
  regs,       \* the registers of each task
  running,
  accepting   \* the tasks that mean to have interrupts on

vars == <<regs, running, accepting>>

Init ==
  /\ regs = Start
  /\ running = Nobody /\ accepting = {}

\* interrupts, with or without a switch
Interrupted == UNCHANGED <<regs, accepting>>

Compute(t) ==
  /\ regs' = [regs EXCEPT ![t].rest = t]
  /\ UNCHANGED accepting

\* a system call gives its result in eax
SystemCall(t) ==
  /\ \E result \in Result : regs' = [regs EXCEPT ![t].eax = result]
  /\ UNCHANGED accepting

\* both tasks come back from the fork, with the same registers but for the result
Fork(t, child) ==
  /\ regs[child] = NoRegs
  /\ regs' = [regs EXCEPT ![t].eax = child, ![child] = [regs[t] EXCEPT !.eax = 0]]
  /\ accepting' = accepting \cup {child}

\* also the way to user mode, on which the task leaves its registers behind
EnableInterrupts(t) ==
  /\ ~ regs[t].flag
  /\ \E result \in Result, ring \in {0, 3} :
       regs' = [regs EXCEPT ![t] = [eax |-> result, rest |-> t, ring |-> ring, flag |-> TRUE]]
  /\ accepting' = accepting \cup {t}

Next ==
  /\ running' \in Task
  /\ \/ Interrupted
     \/ \E t \in Task :
          /\ running = t
          /\ \/ Compute(t) \/ SystemCall(t) \/ EnableInterrupts(t)
             \/ \E child \in Task : Fork(t, child)

Spec == Init /\ [][Next]_vars
=============================================================================
