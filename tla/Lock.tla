--------------------------------- MODULE Lock ---------------------------------
(***************************************************************************)
(* mutex_t and the recursive lock_t (mutex.c), used by tasks that may be   *)
(* preempted between any two accesses while their interrupts are on.       *)
(* mutex_lock and mutex_unlock turn interrupts off, so they are atomic up  *)
(* to the schedule() inside; lock_acquire and lock_release are not.        *)
(***************************************************************************)
EXTENDS Integers, SequencesExt

CONSTANTS
  Task,         \* the tasks that use the lock
  Preemptible,  \* those that call it with interrupts on
  Idle,         \* the idle task
  NoTask,       \* the NULL of lock->holder
  MaxDepth      \* bound: how often one task enters without leaving

ASSUME LockAssumption ==
  /\ Preemptible \subseteq Task
  /\ Idle \notin Task /\ NoTask \notin Task
  /\ MaxDepth \in Nat \ {0}

VARIABLES
  value,    \* mutex->value
  waiters,  \* mutex->waiters, from head to tail
  holder,   \* lock->holder
  repeat,   \* lock->repeat
  state,    \* "RUNNING", "READY" or "BLOCKED"
  current,  \* the task on the CPU
  pc,       \* where a task is in lock_acquire or lock_release
  depth     \* a caller's own count of the acquires it has not released

lockVars == <<value, waiters, holder, repeat>>
vars == <<value, waiters, holder, repeat, state, current, pc, depth>>

Context == Task \cup {Idle}

\* "run": outside the lock's code.  lock_acquire: "lock" before mutex_lock,
\* "wait" in its loop, "own" before holder is set, "count" before repeat is,
\* "nest" before repeat++.  lock_release: "unnest" before repeat--, "clear"
\* and "zero" before the two resets, "unlock" before mutex_unlock, "resume"
\* after the yield in it.
ControlPoint == {"run", "lock", "wait", "own", "count", "nest",
                 "unnest", "clear", "zero", "unlock", "resume"}

TypeOK ==
  /\ value \in BOOLEAN
  /\ waiters \in Seq(Task)
  /\ holder \in Task \cup {NoTask}
  /\ repeat \in Nat
  /\ state \in [Context -> {"RUNNING", "READY", "BLOCKED"}]
  /\ current \in Context
  /\ pc \in [Task -> ControlPoint]
  /\ depth \in [Task -> 0 .. MaxDepth]

Init ==
  /\ value = FALSE /\ waiters = << >>
  /\ holder = NoTask /\ repeat = 0
  /\ state = [t \in Context |-> IF t = Idle THEN "RUNNING" ELSE "READY"]
  /\ current = Idle
  /\ pc = [t \in Task |-> "run"]
  /\ depth = [t \in Task |-> 0]

-----------------------------------------------------------------------------
(* schedule(), for any order task_search may pick the READY tasks in.       *)

Schedule(st) ==
  \E next \in {t \in Context \ {current} : st[t] = "READY"} \cup {Idle} :
    /\ state' = [t \in Context |->
                   IF t = next THEN "RUNNING"
                   ELSE IF t = current /\ st[t] = "RUNNING" THEN "READY" ELSE st[t]]
    /\ current' = next

\* the clock interrupts code that runs with interrupts on and uses up its slice
Preempt ==
  /\ current \in Preemptible => pc[current] \notin {"wait", "resume"}
  /\ current \in Preemptible \cup {Idle}
  /\ Schedule(state)
  /\ UNCHANGED <<lockVars, pc, depth>>

\* a caller outside the lock, with interrupts off, gives up the CPU
Yield(t) ==
  /\ current = t /\ pc[t] = "run"
  /\ Schedule(state)
  /\ UNCHANGED <<lockVars, pc, depth>>

-----------------------------------------------------------------------------
(* lock_acquire.                                                            *)

At(t, from) == current = t /\ pc[t] = from
Goto(t, to) == pc' = [pc EXCEPT ![t] = to]

\* if (lock->holder != current): read without turning interrupts off
AcquireTest(t) ==
  /\ At(t, "run") /\ depth[t] < MaxDepth
  /\ Goto(t, IF holder # t THEN "lock" ELSE "nest")
  /\ UNCHANGED <<lockVars, state, current, depth>>

Nest(t) ==
  /\ At(t, "nest") /\ Goto(t, "run")
  /\ repeat' = repeat + 1
  /\ depth' = [depth EXCEPT ![t] = depth[t] + 1]
  /\ UNCHANGED <<value, waiters, holder, state, current>>

\* while (mutex->value == true) task_block(...): pushed at the head
MutexWait(t) ==
  /\ At(t, "lock") \/ At(t, "wait")
  /\ value
  /\ waiters' = InsertAt(waiters, 1, t)
  /\ Goto(t, "wait")
  /\ Schedule([state EXCEPT ![t] = "BLOCKED"])
  /\ UNCHANGED <<value, holder, repeat, depth>>

\* mutant: if instead of while, a woken waiter does not look again
MutexTake_NoRetry(t) ==
  /\ At(t, "lock") \/ At(t, "wait")
  /\ ~ value \/ pc[t] = "wait"
  /\ value' = TRUE
  /\ Goto(t, "own")
  /\ UNCHANGED <<waiters, holder, repeat, state, current, depth>>

MutexTake(t) ==
  /\ At(t, "lock") \/ At(t, "wait")
  /\ ~ value
  /\ value' = TRUE
  /\ Goto(t, "own")
  /\ UNCHANGED <<waiters, holder, repeat, state, current, depth>>

SetHolder(t) ==
  /\ At(t, "own") /\ Goto(t, "count")
  /\ holder' = t
  /\ UNCHANGED <<value, waiters, repeat, state, current, depth>>

SetRepeat(t) ==
  /\ At(t, "count") /\ Goto(t, "run")
  /\ repeat' = 1
  /\ depth' = [depth EXCEPT ![t] = 1]
  /\ UNCHANGED <<value, waiters, holder, state, current>>

-----------------------------------------------------------------------------
(* lock_release.                                                            *)

\* mutant: the first nested release already gives the lock up
ReleaseTest_OffByOne(t) ==
  /\ At(t, "run") /\ depth[t] > 0
  /\ Goto(t, IF repeat > 2 THEN "unnest" ELSE "clear")
  /\ UNCHANGED <<lockVars, state, current, depth>>

ReleaseTest(t) ==
  /\ At(t, "run") /\ depth[t] > 0
  /\ Goto(t, IF repeat > 1 THEN "unnest" ELSE "clear")
  /\ UNCHANGED <<lockVars, state, current, depth>>

Unnest(t) ==
  /\ At(t, "unnest") /\ Goto(t, "run")
  /\ repeat' = repeat - 1
  /\ depth' = [depth EXCEPT ![t] = depth[t] - 1]
  /\ UNCHANGED <<value, waiters, holder, state, current>>

ClearHolder(t) ==
  /\ At(t, "clear") /\ Goto(t, "zero")
  /\ holder' = NoTask
  /\ UNCHANGED <<value, waiters, repeat, state, current, depth>>

\* mutant: repeat is not reset
ClearRepeat_Forgotten(t) ==
  /\ At(t, "zero") /\ Goto(t, "unlock")
  /\ UNCHANGED <<lockVars, state, current, depth>>

ClearRepeat(t) ==
  /\ At(t, "zero") /\ Goto(t, "unlock")
  /\ repeat' = 0
  /\ UNCHANGED <<value, waiters, holder, state, current, depth>>

\* mutex_unlock with nobody waiting
MutexFree(t) ==
  /\ At(t, "unlock") /\ Goto(t, "run")
  /\ waiters = << >>
  /\ value' = FALSE
  /\ depth' = [depth EXCEPT ![t] = 0]
  /\ UNCHANGED <<waiters, holder, repeat, state, current>>

\* mutant: the mutex is freed and nobody is woken
MutexHandOver_NoWake(t) ==
  /\ At(t, "unlock") /\ Goto(t, "resume")
  /\ waiters # << >>
  /\ value' = FALSE
  /\ depth' = [depth EXCEPT ![t] = 0]
  /\ Schedule(state)
  /\ UNCHANGED <<waiters, holder, repeat>>

\* mutex_unlock unblocks the waiter at the tail, the oldest, and yields
MutexHandOver(t) ==
  /\ At(t, "unlock") /\ Goto(t, "resume")
  /\ waiters # << >>
  /\ value' = FALSE
  /\ waiters' = SubSeq(waiters, 1, Len(waiters) - 1)
  /\ depth' = [depth EXCEPT ![t] = 0]
  /\ Schedule([state EXCEPT ![waiters[Len(waiters)]] = "READY"])
  /\ UNCHANGED <<holder, repeat>>

\* back from the yield: interrupts are restored
Resume(t) ==
  /\ At(t, "resume") /\ Goto(t, "run")
  /\ UNCHANGED <<lockVars, state, current, depth>>

Step(t) ==
  \/ AcquireTest(t) \/ Nest(t) \/ MutexWait(t) \/ MutexTake(t)
  \/ SetHolder(t) \/ SetRepeat(t)
  \/ ReleaseTest(t) \/ Unnest(t) \/ ClearHolder(t) \/ ClearRepeat(t)
  \/ MutexFree(t) \/ MutexHandOver(t) \/ Resume(t) \/ Yield(t)

Next == Preempt \/ \E t \in Task : Step(t)

Spec == Init /\ [][Next]_vars

-----------------------------------------------------------------------------
(* Safety.                                                                  *)

\* Between lock_acquire and lock_release there is one task only, though a woken
\* waiter may find the mutex taken again and holder is read unprotected.
MutualExclusion ==
  \A s, t \in Task : depth[s] > 0 /\ depth[t] > 0 => s = t

\* A free mutex with waiters has a woken task that is about to try again: no
\* unlock leaves everybody asleep, also when a third task takes the mutex first.
NoLostWakeup ==
  ~ value /\ waiters # << >> =>
    \E t \in Task : pc[t] = "wait" /\ state[t] # "BLOCKED"

\* The wait list holds the blocked tasks, each once, and they are all in the
\* loop of mutex_lock.
WaitersAreBlocked ==
  /\ IsInjective(waiters)
  /\ ToSet(waiters) = {t \in Task : state[t] = "BLOCKED"}
  /\ \A t \in Task : state[t] = "BLOCKED" => pc[t] = "wait"

\* lock->repeat is the number of acquires its holder has to release.
RepeatIsDepth ==
  /\ \A t \in Task : depth[t] > 0 /\ pc[t] = "run" => holder = t /\ repeat = depth[t]
  /\ ~ value => holder = NoTask /\ repeat = 0

\* The assertions of mutex_unlock, lock_acquire and lock_release hold when they
\* are reached.
AssertionsHold ==
  \A t \in Task :
    /\ pc[t] = "count" => repeat = 0
    /\ pc[t] = "clear" => holder = t /\ repeat = 1
    /\ pc[t] = "unlock" => value

\* The lock implements a reentrant lock.
Abstract == INSTANCE ReentrantLock
IsReentrantLock == Abstract!Spec
=============================================================================
