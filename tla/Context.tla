------------------------------- MODULE Context -------------------------------
(***************************************************************************)
(* The one processor under the tasks of Sched: the frames that interrupts  *)
(* and system calls push (handler.asm), task_switch (schedule.asm), the    *)
(* stacks that task_create, task_to_user_mode and fork lay out (task.c).   *)
(* A task whose code runs has nothing on its kernel stack that is needed:  *)
(* what lies there is what a handler has pushed.                           *)
(***************************************************************************)
EXTENDS Sched

VARIABLES
  cpu,     \* the registers: eax, the rest, the ring, the interrupt flag
  page,    \* the frames on the kernel stack of each task, down to its saved esp
  esp0     \* tss.esp0: the page whose stack an entry from ring 3 takes

contextVars == <<cpu, page, esp0>>

Void == -1     \* what is in eax when nobody uses it
NoRegs == [eax |-> Void, rest |-> Boot, ring |-> 0, flag |-> FALSE]

\* call: the frame of a system call, whose result goes to eax
intr_frame_t(regs, call) == [regs |-> regs, call |-> call]
\* saved: the registers task_switch keeps
task_frame_t(eip, saved) == [eip |-> eip, saved |-> saved]

\* task_create: the thread starts when task_switch returns to it
NewStack(t) == <<task_frame_t("target", t)>>

\* task_init; tss_init leaves esp0 at 0
ContextInit ==
  /\ Init
  /\ cpu = [NoRegs EXCEPT !.flag = TRUE]
  /\ page = [t \in Pid \cup {Boot} |-> IF t \in Tasks THEN NewStack(t) ELSE << >>]
  /\ esp0 = Boot

-----------------------------------------------------------------------------
(* The ways into the kernel and out of it.                                  *)

\* the page an entry pushes its frame to
KernelStack == IF cpu.ring = 3 THEN esp0 ELSE current
Entered(call) == [page EXCEPT ![KernelStack] = <<intr_frame_t(cpu, call)>>]

\* interrupt_exit: the frame is popped and so is all that was below it
Returns(eax) ==
  /\ cpu' = [cpu EXCEPT !.eax = eax]
  /\ page' = [page EXCEPT ![KernelStack] = << >>]
  /\ UNCHANGED esp0

InterruptReturns == Returns(cpu.eax)

\* the registers with which the code of a task goes on once task_switch has taken its
\* stack.  schedule() returns through the handler that called it, or to a kernel
\* thread, as a start does: then interrupts are off, as they are in the handler left.
Resumed(stack) ==
  IF stack = << >> THEN NoRegs
  ELSE IF Len(stack) = 1
  THEN [eax |-> Void, rest |-> stack[1].saved, ring |-> 0, flag |-> FALSE]
  ELSE IF stack[2].eip = "schedule" /\ stack[1].call
  THEN [stack[1].regs EXCEPT !.eax = Void]
  ELSE stack[1].regs

\* mutant: the stack of the task that leaves is set
Activated_Leaving == IF IsUser(current) THEN current ELSE esp0

\* task_activate
Activated == IF IsUser(current') THEN current' ELSE esp0

\* task_switch from the stacks as the code of the current task has left them
task_switch(stacks) ==
  /\ cpu' = Resumed(stacks[current'])
  /\ page' = [stacks EXCEPT ![current'] = << >>]
  /\ esp0' = Activated

Pushed(stacks, p, saved) == [stacks EXCEPT ![p] = Append(@, task_frame_t("schedule", saved))]

\* schedule() at the end of a handler
Leaves(call) ==
  IF current' = current THEN Returns(IF call THEN Void ELSE cpu.eax)
  ELSE task_switch(Pushed(Entered(call), KernelStack, Boot))

\* schedule() called by a kernel thread itself
Calls_schedule ==
  IF current' = current THEN cpu' = [cpu EXCEPT !.eax = Void] /\ UNCHANGED <<page, esp0>>
  ELSE task_switch(Pushed(page, current, cpu.rest))

-----------------------------------------------------------------------------
(* The actions of Sched on this processor.                                  *)

Interrupt == cpu.flag /\ (clock_handler \/ KeyboardInterrupt) /\ Leaves(FALSE)

SystemCall ==
  /\ task_yield \/ task_exit \/ IdleYield \/ \E ms \in SleepMs : task_sleep(ms)
  /\ Leaves(TRUE)

\* mutex_lock, mutex_unlock, keyboard_read: in a system call, or in the thread test
Block ==
  /\ \/ \E st \in {"BLOCKED", "WAITING"} : task_block(st)
     \/ \E t \in Pid : Release(t)
  /\ IF cpu.ring = 3 THEN Leaves(TRUE) ELSE Calls_schedule

\* sys_getpid; a call that reads other fields is no different.  Bound: a child asks, as
\* long as it has the result of its fork
GetPid ==
  /\ \E t \in Pid : Calls(t) /\ IsUser(t)
  /\ cpu.eax = 0
  /\ Returns(current)
  /\ UNCHANGED vars

\* task_build_statck: the child leaves the system call by itself, with the result 0
task_build_statck(stack) ==
  <<[stack[1] EXCEPT !.regs.eax = 0], task_frame_t("interrupt_exit", Boot)>>

\* the page is copied with the frame of the system call in it
Fork ==
  /\ task_fork
  /\ \E child \in Pid :
       /\ state[child] # state'[child]
       /\ cpu' = [cpu EXCEPT !.eax = child]
       /\ page' = [page EXCEPT ![KernelStack] = << >>,
                               ![child] = task_build_statck(Entered(TRUE)[current])]
  /\ UNCHANGED esp0

\* the frame that task_to_user_mode builds and leaves through
UserFrame == intr_frame_t([eax |-> Void, rest |-> init_task, ring |-> 3, flag |-> TRUE], FALSE)

task_to_user_mode ==
  /\ EnableInterrupts(init_task)
  /\ cpu' = UserFrame.regs
  /\ UNCHANGED <<page, esp0>>

\* set_interrupt_state(true)
IdleEnables ==
  /\ EnableInterrupts(idle_task)
  /\ cpu' = [cpu EXCEPT !.flag = TRUE]
  /\ UNCHANGED <<page, esp0>>

\* the code of a task uses its registers
Compute ==
  /\ current # Boot /\ ~ panicked
  /\ cpu.rest # current
  /\ cpu' = [cpu EXCEPT !.rest = current]
  /\ UNCHANGED <<vars, page, esp0>>

ContextNext ==
  \/ Interrupt \/ SystemCall \/ Block \/ GetPid \/ Fork
  \/ task_to_user_mode \/ IdleEnables \/ Compute
  \/ (IdleHalt \/ ForkPanic \/ Halted) /\ UNCHANGED contextVars

ContextSpec == ContextInit /\ [][ContextNext]_<<vars, contextVars>>

-----------------------------------------------------------------------------
(* Property.                                                                *)

\* Each task has a processor of its own: whatever interrupts and switches happen in
\* between, it goes on with the registers it had, a system call changes eax alone, a
\* child starts as its parent but for the result 0 - and interrupts are on exactly when
\* the code of the task that runs means them to be.
Processors == INSTANCE OwnProcessor WITH
  Task <- Pid, Nobody <- Boot, Result <- Pid \cup {Void},
  Start <- [t \in Pid |-> IF t <= test_task THEN [NoRegs EXCEPT !.rest = t] ELSE NoRegs],
  regs <- [t \in Pid |-> IF t = current THEN cpu ELSE Resumed(page[t])],
  running <- current,
  accepting <- {t \in Pid : pc[t] # "off"}
HasOwnProcessor == Processors!Spec
=============================================================================
