-------------------------------- MODULE Sched --------------------------------
(***************************************************************************)
(* The task scheduler of the kernel: the task table, schedule() and the    *)
(* order task_search() picks in, the clock interrupt, the sleep list, the  *)
(* block list, fork and exit (task.c, clock.c, thread.c).                  *)
(*                                                                         *)
(* There is one CPU.  Interrupts, exceptions and system calls all enter    *)
(* through interrupt gates, so a handler runs with interrupts off up to    *)
(* the schedule() that may end it: one handler is one action.  Between two *)
(* actions runs the code of the current task; what it may do next, and     *)
(* whether an interrupt is accepted meanwhile, is its pc.                  *)
(***************************************************************************)
EXTENDS Integers, SequencesExt

CONSTANTS
  NR_TASKS,      \* slots of task_table
  WORD,          \* 2^32: the jiffies and ticks fields count modulo WORD
  JIFFY,         \* milliseconds between two clock interrupts
  UserPriority,  \* the priority init and test are created with
  SleepMs,       \* the arguments sleep() is called with
  MaxJiffies     \* bound: no clock interrupt after this many (none if >= WORD)

ASSUME SchedAssumption ==
  /\ NR_TASKS \in Nat /\ NR_TASKS >= 3
  /\ UserPriority \in Nat \ {0} /\ JIFFY \in Nat \ {0}
  /\ WORD \in Nat /\ WORD > UserPriority
  /\ SleepMs \subseteq Nat
  /\ MaxJiffies \in Nat

VARIABLES
  state,       \* state of every task, NULL where the table has no task
  ticks,       \* the rest of a task's slice, or its deadline while it sleeps
  stamp,       \* the jiffies field of a task: when the clock last saw it run
  ppid,        \* parent
  current,     \* whose stack the CPU is on
  sleep_list,  \* the sleeping tasks, as linked by their node fields
  block_list,  \* the tasks in block_list or in the waiters of a mutex
  jiffies,     \* the global clock
  pc,          \* what the code of a task does when it runs next
  panicked     \* panic() was called: the machine has stopped

vars == <<state, ticks, stamp, ppid, current, sleep_list, block_list, jiffies,
          pc, panicked>>

Pid == 0 .. NR_TASKS - 1
idle_task == 0
init_task == 1
test_task == 2

\* The stack kernel_init runs on: a context that is in no table.  The first
\* clock interrupt leaves it (its ticks are 1) and nothing comes back to it.
Boot == NR_TASKS

NULL == "NULL"
TaskState == {NULL, "RUNNING", "READY", "BLOCKED", "SLEEPING", "WAITING", "DIED"}

\* "off": its code runs with interrupts off; "on": with interrupts on;
\* "hlt": idle_thread is in hlt; "woken": it is past hlt, before yield()
ControlPoint == {"off", "on", "hlt", "woken"}

Priority(t) == IF t = idle_task THEN 1 ELSE UserPriority
IsUser(t) == t \notin {idle_task, test_task, Boot}

Tasks == {t \in Pid : state[t] # NULL}

TypeOK ==
  /\ state \in [Pid -> TaskState]
  /\ ticks \in [Pid -> 0 .. WORD - 1]
  /\ stamp \in [Pid -> 0 .. WORD - 1]
  /\ ppid \in [Pid -> Pid]
  /\ current \in Pid \cup {Boot}
  /\ sleep_list \in Seq(Pid)
  /\ block_list \subseteq Pid
  /\ jiffies \in 0 .. WORD - 1
  /\ pc \in [Pid -> ControlPoint]
  /\ panicked \in BOOLEAN

Init ==
  /\ state = [t \in Pid |-> IF t <= test_task THEN "READY" ELSE NULL]
  /\ ticks = [t \in Pid |-> IF t <= test_task THEN Priority(t) ELSE 0]
  /\ stamp = [t \in Pid |-> 0]
  /\ ppid = [t \in Pid |-> 0]
  /\ current = Boot
  /\ sleep_list = << >>
  /\ block_list = {}
  /\ jiffies = 0
  /\ pc = [t \in Pid |-> "off"]
  /\ panicked = FALSE

-----------------------------------------------------------------------------
(* task_search and schedule.  A handler that calls schedule() has changed   *)
(* states (st), ticks (tk) and stamps (sp) before; they are its parameters. *)

Candidates(st) == {t \in Pid \ {current} : st[t] = "READY"}

\* mutant: the older stamp does not count
Beats_TicksOnly(t, best, tk, sp) == tk[best] < tk[t]

\* the comparison of task_search: whether t replaces the best task so far
Beats(t, best, tk, sp) == tk[best] < tk[t] \/ sp[t] < sp[best]

\* the loop over the table: the best candidate below pid i, Boot if none yet
Scan(st, tk, sp) ==
  LET best[i \in 0 .. NR_TASKS] ==
        IF i = 0 THEN Boot
        ELSE IF i - 1 \notin Candidates(st) THEN best[i - 1]
        ELSE IF best[i - 1] = Boot THEN i - 1
        ELSE IF Beats(i - 1, best[i - 1], tk, sp) THEN i - 1 ELSE best[i - 1]
  IN best[NR_TASKS]

TaskSearch(st, tk, sp) ==
  LET best == Scan(st, tk, sp)
  IN IF best \in Candidates(st) THEN best ELSE idle_task

\* mutant: the slice is never renewed
Refill_Never(tk) == tk

\* the slice of the task that leaves the CPU is renewed once it is used up
Refill(tk) ==
  [t \in Pid |-> IF t = current /\ tk[t] = 0 THEN Priority(t) ELSE tk[t]]

\* mutant: the task that loses the CPU stays RUNNING
Preempted_StaysRunning(st) == st

\* current loses the CPU if its handler left it RUNNING
Preempted(st) ==
  [t \in Pid |-> IF t = current /\ st[t] = "RUNNING" THEN "READY" ELSE st[t]]

Schedule(st, tk, sp) ==
  LET next == TaskSearch(st, tk, sp)
  IN /\ state' = [Preempted(st) EXCEPT ![next] = "RUNNING"]
     /\ ticks' = Refill(tk)
     /\ current' = next

-----------------------------------------------------------------------------
(* The clock interrupt.                                                     *)

InterruptsOn == current # Boot => pc[current] # "off"

\* an accepted interrupt ends the hlt of idle_thread
Wake(p) == [t \in Pid |-> IF t = current /\ p[t] = "hlt" THEN "woken" ELSE p[t]]

\* mutant: a sleeper is due at its deadline only, not after it
Due_OnlyThen(t) == jiffies = ticks[t]

\* task_wakeup stops at the first sleeper whose deadline is not reached
Due(t) == jiffies >= ticks[t]
DuePrefix(n) ==
  /\ \A i \in 1 .. n : Due(sleep_list[i])
  /\ n < Len(sleep_list) => ~ Due(sleep_list[n + 1])

Decrement(n) == (n - 1) % WORD
NextJiffy == (jiffies + 1) % WORD

clock_handler ==
  /\ ~ panicked /\ InterruptsOn
  /\ jiffies < MaxJiffies
  /\ jiffies' = NextJiffy
  /\ pc' = Wake(pc)
  /\ \E n \in 0 .. Len(sleep_list) :
       LET woken == {sleep_list[i] : i \in 1 .. n}
           st == [t \in Pid |-> IF t \in woken THEN "READY" ELSE state[t]]
           tk == [t \in Pid |-> IF t \in woken THEN 0
                                ELSE IF t = current THEN Decrement(ticks[t])
                                ELSE ticks[t]]
           sp == [t \in Pid |-> IF t = current THEN NextJiffy ELSE stamp[t]]
       IN /\ DuePrefix(n)
          /\ sleep_list' = SubSeq(sleep_list, n + 1, Len(sleep_list))
          /\ stamp' = sp
          /\ IF current = Boot \/ tk[current] = 0
             THEN Schedule(st, tk, sp)
             ELSE state' = st /\ ticks' = tk /\ UNCHANGED current
  /\ UNCHANGED <<ppid, block_list, panicked>>

-----------------------------------------------------------------------------
(* System calls and kernel services of the task that runs.                  *)

\* The current task is at a point where it may call the kernel: user code, or
\* the kernel thread test, which runs with interrupts off all the time.
Calls(t) ==
  /\ ~ panicked /\ t = current
  /\ t = test_task \/ (IsUser(t) /\ pc[t] = "on")

task_yield ==
  /\ \E t \in Pid : Calls(t)
  /\ Schedule(state, ticks, stamp)
  /\ UNCHANGED <<stamp, ppid, sleep_list, block_list, jiffies, pc, panicked>>

SleepTicks(ms) == IF ms \div JIFFY > 0 THEN ms \div JIFFY ELSE 1
Deadline(ms) == (jiffies + SleepTicks(ms)) % WORD

\* mutant: the sleeper is always put at the tail
Anchor_Tail(i, deadline) == i = Len(sleep_list) + 1

\* the node task_sleep inserts before: the first with a later deadline, or tail
Anchor(i, deadline) ==
  /\ \A j \in 1 .. i - 1 : ~ deadline < ticks[sleep_list[j]]
  /\ i <= Len(sleep_list) => deadline < ticks[sleep_list[i]]

task_sleep(ms) ==
  /\ \E t \in Pid : Calls(t)
  /\ \E i \in 1 .. Len(sleep_list) + 1 :
       /\ Anchor(i, Deadline(ms))
       /\ sleep_list' = InsertAt(sleep_list, i, current)
  /\ Schedule([state EXCEPT ![current] = "SLEEPING"],
              [ticks EXCEPT ![current] = Deadline(ms)], stamp)
  /\ UNCHANGED <<stamp, ppid, block_list, jiffies, pc, panicked>>

\* mutex_lock blocks its caller, keyboard_read makes its caller wait
task_block(st) ==
  /\ \E t \in Pid : Calls(t)
  /\ block_list' = block_list \cup {current}
  /\ Schedule([state EXCEPT ![current] = st], ticks, stamp)
  /\ UNCHANGED <<stamp, ppid, sleep_list, jiffies, pc, panicked>>

\* mutant: the unblocked task is not removed from the list
Release_KeepsNode(t) ==
  /\ \E c \in Pid : Calls(c)
  /\ t \in block_list /\ state[t] = "BLOCKED"
  /\ Schedule([state EXCEPT ![t] = "READY"], ticks, stamp)
  /\ UNCHANGED <<stamp, ppid, sleep_list, block_list, jiffies, pc, panicked>>

\* task_unblock and task_yield, as mutex_unlock calls them
Release(t) ==
  /\ \E c \in Pid : Calls(c)
  /\ t \in block_list /\ state[t] = "BLOCKED"
  /\ block_list' = block_list \ {t}
  /\ Schedule([state EXCEPT ![t] = "READY"], ticks, stamp)
  /\ UNCHANGED <<stamp, ppid, sleep_list, jiffies, pc, panicked>>

\* a keyboard interrupt, with the reader it unblocks if there is one
KeyboardInterrupt ==
  /\ ~ panicked /\ InterruptsOn
  /\ pc' = Wake(pc)
  /\ \E woken \in SUBSET {t \in block_list : state[t] = "WAITING"} :
       /\ woken = {} \/ \E t \in woken : woken = {t}
       /\ block_list' = block_list \ woken
       /\ state' = [t \in Pid |-> IF t \in woken THEN "READY" ELSE state[t]]
  /\ UNCHANGED <<ticks, stamp, ppid, current, sleep_list, jiffies, panicked>>

\* mutant: the slot of a task that has exited counts as free
IsFreeSlot_DeadToo(t) ==
  /\ state[t] \in {NULL, "DIED"}
  /\ \A s \in Pid : s < t => state[s] \notin {NULL, "DIED"}

IsFreeSlot(t) == state[t] = NULL /\ \A s \in Pid : s < t => state[s] # NULL

task_fork ==
  /\ \E t \in Pid : Calls(t) /\ IsUser(t)
  /\ \E child \in Pid :
       /\ IsFreeSlot(child)
       /\ state' = [state EXCEPT ![child] = "READY"]
       /\ ticks' = [ticks EXCEPT ![child] = Priority(child)]
       /\ stamp' = [stamp EXCEPT ![child] = stamp[current]]
       /\ ppid' = [ppid EXCEPT ![child] = current]
       /\ pc' = [pc EXCEPT ![child] = "on"]
  /\ UNCHANGED <<current, sleep_list, block_list, jiffies, panicked>>

\* get_free_task panics when the table is full: no slot is ever given back
ForkPanic ==
  /\ \E t \in Pid : Calls(t) /\ IsUser(t)
  /\ Tasks = Pid
  /\ panicked' = TRUE
  /\ UNCHANGED <<state, ticks, stamp, ppid, current, sleep_list, block_list,
                 jiffies, pc>>

\* mutant: children that have exited already are not handed over
ParentAfterExit_AliveOnly(t) ==
  IF state[t] \notin {NULL, "DIED"} /\ ppid[t] = current THEN ppid[current] ELSE ppid[t]

\* the children of the task that exits become its parent's
ParentAfterExit(t) ==
  IF state[t] # NULL /\ ppid[t] = current THEN ppid[current] ELSE ppid[t]

task_exit ==
  /\ \E t \in Pid : Calls(t) /\ IsUser(t)
  /\ ppid' = [t \in Pid |-> ParentAfterExit(t)]
  /\ Schedule([state EXCEPT ![current] = "DIED"], ticks, stamp)
  /\ UNCHANGED <<stamp, sleep_list, block_list, jiffies, pc, panicked>>

-----------------------------------------------------------------------------
(* The code of idle_thread and init_thread between two kernel calls.        *)

\* init goes to user mode, idle enables interrupts; both start with them off
EnableInterrupts(t) ==
  /\ ~ panicked /\ current = t /\ pc[t] = "off" /\ t # test_task
  /\ pc' = [pc EXCEPT ![t] = "on"]
  /\ UNCHANGED <<state, ticks, stamp, ppid, current, sleep_list, block_list,
                 jiffies, panicked>>

IdleHalt ==
  /\ ~ panicked /\ current = idle_task /\ pc[idle_task] = "on"
  /\ pc' = [pc EXCEPT ![idle_task] = "hlt"]
  /\ UNCHANGED <<state, ticks, stamp, ppid, current, sleep_list, block_list,
                 jiffies, panicked>>

IdleYield ==
  /\ ~ panicked /\ current = idle_task /\ pc[idle_task] = "woken"
  /\ pc' = [pc EXCEPT ![idle_task] = "on"]
  /\ Schedule(state, ticks, stamp)
  /\ UNCHANGED <<stamp, ppid, sleep_list, block_list, jiffies, panicked>>

Halted == panicked /\ UNCHANGED vars

Next ==
  \/ clock_handler
  \/ KeyboardInterrupt
  \/ task_yield
  \/ \E ms \in SleepMs : task_sleep(ms)
  \/ \E st \in {"BLOCKED", "WAITING"} : task_block(st)
  \/ \E t \in Pid : Release(t)
  \/ task_fork
  \/ ForkPanic
  \/ task_exit
  \/ \E t \in Pid : EnableInterrupts(t)
  \/ IdleHalt
  \/ IdleYield
  \/ Halted

Spec == Init /\ [][Next]_vars

\* The clock keeps interrupting: an interrupt that is pending is accepted as
\* soon as interrupts are on, however shortly.  Code that runs with interrupts
\* off goes on: the starts of idle and init, and the loop of test_thread, which
\* reaches sleep().
Fairness ==
  /\ SF_vars(clock_handler)
  /\ \A t \in Pid : WF_vars(EnableInterrupts(t))
  /\ WF_vars(current = test_task /\ \E ms \in SleepMs : task_sleep(ms))

FairSpec == Spec /\ Fairness

-----------------------------------------------------------------------------
(* Safety.                                                                  *)

\* Whatever handler switched tasks last, exactly the task the CPU is on is
\* RUNNING, and idle, the fallback of task_search, can always be picked.
OneRunning ==
  /\ \A t \in Pid : state[t] = "RUNNING" <=> t = current
  /\ state[idle_task] \in {"READY", "RUNNING"}

\* A task's node is in the sleep list exactly while it is SLEEPING, once, and
\* in a block list exactly while it is BLOCKED or WAITING: the assertions that
\* node.next and node.prev are NULL (task_block, task_sleep, fork, exit) hold.
QueuesMatchStates ==
  /\ IsInjective(sleep_list)
  /\ ToSet(sleep_list) = {t \in Pid : state[t] = "SLEEPING"}
  /\ block_list = {t \in Pid : state[t] \in {"BLOCKED", "WAITING"}}

\* Before the clock wraps, no sleeper is overlooked: it is woken by the clock interrupt
\* at its deadline, and its deadline is at most the longest sleep away - though
\* task_wakeup stops at the first sleeper that is not due, and schedule() may renew
\* the very field the deadline is kept in.
NoOversleep ==
  \A t \in Pid : state[t] = "SLEEPING" =>
    /\ jiffies <= ticks[t]
    /\ \E ms \in SleepMs : ticks[t] <= jiffies + SleepTicks(ms)

\* No task, dead or alive, has a dead parent: exit hands the children over.
ParentAlive == \A t \in Tasks : state[ppid[t]] \notin {NULL, "DIED"}

\* A task that has exited is never scheduled, woken or overwritten again.
DeadStayDead ==
  [][\A t \in Pid : state[t] = "DIED" => state'[t] = "DIED"]_vars

\* task_search: no READY task further down the table has more ticks left, or has
\* been seen by the clock longer ago, than the task that gets the CPU.
LaterTasksDoNotBeat ==
  [][current' # current /\ current' # idle_task =>
       \A t \in Pid : (t > current' /\ t # current /\ state'[t] = "READY"
                         /\ state[t] # NULL) =>
         /\ ticks'[t] <= ticks'[current']
         /\ stamp'[t] >= stamp'[current']]_vars

\* A clock interrupt never leaves the CPU with idle while another task is READY.
IdleGivesWay ==
  [][(jiffies' # jiffies /\ current = idle_task
        /\ \E t \in Pid \ {idle_task} : state[t] = "READY") => current' # idle_task]_vars

-----------------------------------------------------------------------------
(* Liveness.                                                                *)

\* Every sleeper is woken, also when jiffies and the deadlines wrap around.
SleepersWake ==
  \A t \in Pid : state[t] = "SLEEPING" ~> (state[t] # "SLEEPING" \/ panicked)

-----------------------------------------------------------------------------
(* What the comments of task_t say of its fields, and the code does not do. *)

\* task.h: ticks is the rest of the time slice, so it never exceeds a slice.
TicksAreTheRestOfTheSlice ==
  current \in Pid => ticks[current] <= Priority(current)
=============================================================================
