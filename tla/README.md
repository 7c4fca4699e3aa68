# A verification development for the onix kernel

onix is a small 32-bit teaching kernel: one CPU, one address space per user
task, a table of 64 tasks, a keyboard, a text console, a clock and a CMOS clock.
This directory models the parts of it that keep state and can go wrong, checks
the models with TLC on small instances, and proves the results that matter most
for every instance with TLAPS. All sources named here are under `src/src/`.

## 1. Inventory

| part | source | state it keeps | operations |
|---|---|---|---|
| task scheduler | `kernel/task.c`, `clock.c`, `thread.c`, `schedule.asm` | `task_table`, per task `state`, `ticks`, `jiffies`, `ppid` and a kernel stack; `sleep_list`, `block_list`; global `jiffies`; `tss.esp0` | `schedule`, `task_switch`, `task_to_user_mode`, `task_yield`, `task_sleep`, `task_wakeup`, `task_block`, `task_unblock`, `task_fork`, `task_exit`, `clock_handler`, the loops of `idle_thread`, `init_thread`, `test_thread` |
| mutex and recursive lock | `kernel/mutex.c` | `value`, `waiters`; `holder`, `repeat` | `mutex_lock`, `mutex_unlock`, `lock_acquire`, `lock_release` |
| keyboard | `kernel/keyboard.c`, `lib/fifo.c` | `keymap` press bits, lock keys, `extcode_state`; the byte ring; `waiter`; a `lock_t` | `keyboard_handler`, `keyboard_read`, `fifo_put`, `fifo_get` |
| paging | `kernel/memory.c` | `memory_map` (a reference count per frame), `free_pages`, page directories and tables, the TLB, `brk` | `get_page`, `put_page`, `link_page`, `unlink_page`, `copy_pde`, `free_pde`, `sys_brk`, `page_fault` |
| kernel memory | `kernel/arena.c`, `lib/bitmap.c`, `memory.c` (`memory_init` to `mapping_init`, `alloc_kpage`) | seven descriptors with free lists, a header per page, `kernel_map`; `total_pages`, `start_page` | `memory_init`, `memory_map_init`, `mapping_init`, `kmalloc`, `kfree`, `scan_page`, `reset_page`, `bitmap_scan` |
| lists | `lib/list.c` | `next` and `prev` of every node | push, pop, insert, remove, search, size |
| console | `kernel/console.c` | `screen`, `pos`, `x`, `y`, video memory | `console_write` and its control characters, `scroll_up` |
| time of day, alarm | `kernel/time.c`, `kernel/rtc.c` | `startup_time`, CMOS registers | `time_read_bcd`, `mktime`, `get_yday`, `set_alarm`, `rtc_handler` |
| formatted output | `lib/vsprintf.c`, `lib/printf.c`, `kernel/printk.c` | static output buffers | `vsprintf`, `number`, `printf`, `printk`, `sys_write` |
| interrupt and call entry | `kernel/interrupt.c`, `handler.asm`, `gate.c`, `lib/syscall.c` | the handler table, masks and lines in service of two controllers, the interrupt flag | entry and return, `send_eoi`, `set_interrupt_handler`, `set_interrupt_mask` |
| boot and descriptors | `boot/*.asm`, `kernel/start.asm`, `global.c` | constant tables | run once |

How they interact. The clock and the keyboard interrupt whatever runs with
interrupts on, and both may make other tasks READY; the clock also calls
`schedule`. `mutex_lock`, `keyboard_read`, `task_sleep`, `task_yield` and
`task_exit` call `schedule` from the task's side. The keyboard takes a lock and
blocks through the scheduler. `fork` and `exit` copy and free an address space,
whose tables live in pages of the kernel page bitmap, which the kernel heap
shares; frames for user pages come from the same memory by another allocator. The
kernel's pages are mapped into every task, so a `static` of the library, as the buffer
of `printf`, is shared by all tasks. Interrupts, exceptions and system calls all enter through interrupt
gates, so the CPU runs a handler with interrupts off, as it does the kernel
threads until they turn them on: what looks like a sequential kernel is
interleaved exactly at `schedule()` and wherever code runs with interrupts on.

What is hard. Order: every switch is taken from inside a handler that has
changed some of the state and will change the rest when it is scheduled again.
Reuse: one `node` field links a task in the sleep list, a block list or a lock's
wait list; one `ticks` field is a slice or a deadline. Limits: task slots, frames,
kernel pages, ring entries and arena blocks all run out, and 32-bit clocks wrap.
Stale state: `waiter`, a video address, a TLB entry, a reference count, `tss.esp0`.
Devices that go on by themselves: the CMOS clock ticks while it is read.

What makes each part correct:

* tasks: each goes on with the registers it had, whoever ran in between, and with
  interrupts as its code means them to be.
* scheduler: one task RUNNING; a node linked exactly when its state says so; no
  sleeper overlooked; no task without a parent; the choice of `task_search`.
* lock: mutual exclusion, no lost wake-up, a reentrant lock to its callers.
* keyboard: bytes in order, each to one reader, no reader asleep on a full ring.
* paging: a frame's count is the number of entries that map it; no frame written
  by one task and seen by another; a brk or an exit that gives back what it took.
* kernel memory: no block handed out twice, a page given back only when nothing in it
  is used; no page with two owners among kernel, map and frames.
* time: a time that is read is one the clock has shown; an alarm comes when it is due.
* output: the text says what its format says, whoever prints in between.
* console: the cursor inside the screen, the screen inside video memory.

## 2. Modules

One module per component, an abstract specification beside it where the
component promises something to its callers, an `MC*` module with the constants
of its run, and a `*Proofs` module with its theorems.

| component | module | promises (refinement) | run | theorems |
|---|---|---|---|---|
| scheduler | `Sched` | | `sched_wrap`, `sched_slice`; inside `sched` | `SchedProofs` |
| scheduler on the one CPU | `Context`, which extends `Sched` | `OwnProcessor` | `sched` | `SchedProofs` |
| mutex, recursive lock | `Lock` | `ReentrantLock` | `lock` | `LockProofs` |
| byte ring | `FifoRing` (operators), `Fifo` (a machine of its own) | `ByteQueue` | inside `keyboard` | `KeyboardProofs` |
| keyboard | `Keyboard`, which instantiates `Lock` and extends `FifoRing` | `BlockingReader` | `keyboard` | `KeyboardProofs` |
| paging | `Paging` | `PrivateMemory` | `paging`, `paging_window` | `PagingProofs` |
| kernel page bitmap | `Bitmap` | `PageAllocator` | inside `memory` | `HeapProofs` |
| kernel heap | `Arena`, which extends `Bitmap` | `Malloc` | inside `memory` | `HeapProofs` |
| physical memory | `Memory`, which extends `Arena` | | `memory` | `HeapProofs` |
| lists | `LinkedList` | `Queues` | `lists` | `LinkedListProofs` |
| console | `Console` | `Terminal` | `output` | `OutputProofs` |
| time of day, alarm | `Rtc`, on the controllers of `Interrupts` | | `rtc` | `RtcProofs` |
| formatted output | `Printf` | | `output`, `printf_sign` | `OutputProofs` |

The modules that use a component use what it promises: `Keyboard` runs the
statements of `Lock` themselves (with callers whose interrupts are off); `Arena`
runs on the loops of `Bitmap`, and `Memory` on both; `Context` makes the steps of
`Sched` on registers and stacks; `Sched`, `Lock` and `Keyboard` keep their lists as
sequences or sets, which `LinkedList` implements.

### How state and actions correspond to the code

**One handler is one action.** Interrupts, exceptions and system calls enter
through interrupt gates, so a handler is not interrupted until the `schedule()`
that may end it. Code that runs with interrupts on is split at every access to
shared state (`Lock`), and loops whose intermediate states matter are split turn by
turn (`Bitmap`, the pages of `sys_brk` in `Paging`, the characters of
`console_write` in `Console`).

**`Sched`** (`task.c`, `clock.c`, `thread.c`). `state`, `ticks`, `stamp` (the
field `jiffies`) and `ppid` are the fields of `task_t`; `current` is the task whose
stack is in use, or `Boot`, the context `kernel_init` runs on, which is in no table;
`sleep_list` is a sequence, and `block_list` the set of tasks in the block list or in
a lock's waiters (only membership matters here, `Lock` has the order). `pc` says
whether the code of a task has interrupts on and where `idle_thread` is around its
`hlt`. `Scan` is the loop of `task_search`, comparison for comparison; `Schedule`
takes the fields as the handler has already changed them. Words wrap modulo `WORD`.
`clock_handler`, `task_sleep`, `task_block`, `Release` (`task_unblock` and the yield
of `mutex_unlock`), `task_fork`, `task_exit` and the panic of a full table are each
one action.

**`Context`** (`handler.asm`, `schedule.asm`, and the stacks `task.c` lays out). `cpu`
has the registers in two groups, `eax`, which returns results, and the rest, with the
ring and the interrupt flag. `page` is what lies on the kernel stack of each task: the
frame of an interrupt or a system call, and above it the frame of `task_switch`.
`esp0` is `tss.esp0`. An entry from ring 3 pushes to the stack `esp0` names, another to
the current one; every handler of `Sched` ends in `Leaves`, which returns by the frame or
switches to the stack of another task; a fork lays the frames of the child over the copy
of its parent's page. `OwnProcessor` knows no stacks: registers per task, and who runs.

**`Lock`** (`mutex.c`). A task has a `pc` for every statement of `lock_acquire`,
`mutex_lock`, `lock_release` and `mutex_unlock` between two of which an interrupt
may come; tasks in `Preemptible` call with interrupts on, the others with interrupts
off. `schedule()` picks any READY task: the lock must be right for every scheduler.
`depth` is a history variable: how many acquires a task has to release.

**`Keyboard`** (`keyboard.c`, `fifo.c`). `keyboard_handler` is one action on the
first byte of `line`, with every early return; `down` are the press bits in the
two spare columns of the keymap, which the handler sets and clears; the byte it
puts into the ring comes from an arbitrary `keymap`. `keyboard_read` is one action
from one block to the next. `set_leds` reads the keyboard port: it may take scan
codes for answers, and then it has `swallowed` them.

**`Paging`** (`memory.c`, and what `task.c` does with it). A frame holds `Junk`, a
value of user code, or a page table. `pde` are the directories, `vmap` the bitmap
of each task, `memory_map` and `free_pages` the counts of frames. `tlb` are the user
translations the CPU may have cached (loads and stores may fill them, `set_cr3` and
`flush_tlb` empty them), `window` the one of page 0 that `copy_page` uses.
`page_fault` has its three outcomes (copy on write, the stack and heap page that is
missing, panic), `sys_brk` unlinks page by page, and `fork` and `exit` are whole.

**`Bitmap`** (`bitmap.c`, `scan_page`, `reset_page`). Bytes and bits, and the
local variables of the loops. **`Arena`** (`arena.c`). Addresses are numbers; a header
lies at the start of its page; free lists are sequences of block addresses in the
order of the code. A call that needs pages starts the loops of `Bitmap` and goes on when
they end. **`Memory`** (`memory.c`). `memory_init` reads the table of zones the firmware
has left; `memory_map_init` and `mapping_init` run once, in order; then `get_page`,
`put_page`, `kmalloc`, `kfree` and `alloc_kpage` in any order. Each call is whole but for
the loops of the bitmap. **`LinkedList`** (`list.c`). `next` and `prev` of nodes, and of a
head and a tail per list. A node is linked only while it is in no list: `list_push` asserts
that it is not in the same one, the rest is the callers' duty, which `QueuesMatchStates` and
`FreeListsAreExact` say they do. No operation reads the pointers of a node it links, so
`NULL` stands for whatever a fresh node or the memory of a block has there. **`Console`** (`console.c`). Cells of two bytes from
`MEM_BASE`; `ptr` and `left` are the locals of `console_write`; a space and the
zeroes that the 32-bit stores of `scroll_up` leave are both `Blank`.

**`Interrupts`** (`interrupt.c` and the two 8259). `requested`, `serving` and `unmasked`
are the registers of both controllers by line: a controller gives an interrupt to the CPU
only when it serves no line before it, and the second one speaks through line 2 of the
first. **`Rtc`** (`time.c`, `rtc.c`). Every access to a CMOS register is a step, and the
chip may tick before each; `now` is the date it shows. `since` and `late` are history.
While nothing is called the chip may run at once to the second before the next event.
A tick changes all registers at once. `tm_yday` is left out, which nothing reads.

**`Printf`** (`vsprintf.c`, `printf.c`, `printk.c`). A format is a sequence of items, a
character or a conversion with its argument. `number` is written out in the order of the
code's fields; a task stores character by character and may be switched between any two,
unless it has interrupts off as `test_thread` has. `ip` has for every `%n` its place in the
format and the count it stored. `FormatsAssumption` says what is printed: items with
arguments of their types, and texts that fit the buffer, which the code does not check.
`starred` marks a precision that is a `*`.
`ShowsTheFormat` does not repeat the conversion: it reads the text back, with the sign, the
prefix, the width and the absolute value that the flags and the argument ask for by
themselves. It asks nothing of negative `%d` and `%i` and of `*` precisions, where the code
does otherwise than its comments say. `NegativesHaveASign` is the same property with the
negative numbers, and is violated; the `*` is under the observations.

## 3. What the runs show

| run | instance | shows |
|---|---|---|
| `sched` | idle, init, test and one fork, words of 16, sleeps of 5 and 25 ms at 10 ms a tick, 5 clock interrupts, on the registers and stacks of the CPU | one task RUNNING; lists match states; nobody oversleeps although `ticks` is shared and `task_wakeup` stops at the first sleeper not due; parents are alive; the dead stay dead; `task_search`; idle gives way; each task has a processor of its own |
| `sched_wrap` | `Sched` alone, four slots, words of 3, slices of 1, the same sleeps, no bound on the clock | every sleeper is woken, though jiffies and deadlines wrap |
| `sched_slice` | `Sched` alone, four slots | **violated**: `ticks` is not the rest of a slice (finding 1) |
| `lock` | four tasks, two preemptible, depth 2 | mutual exclusion, no lost wake-up, the assertions, a reentrant lock |
| `keyboard` | three tasks that read 0 and 2 bytes of a ring of 3 while two letters come in; or no reader, and also an extended key, capslock and a key without an entry; 3 bytes on the line | when the line is empty the press bits are the keys held, unless `set_leds` swallowed bytes; no reader sleeps over a byte; reads are exclusive and in order; the ring drops its oldest byte |
| `paging` | three tasks, a heap page and a stack page in tables of their own, six frames | counts, read-only sharing, cached translations, bitmaps, `free_pages`; a private memory for each task |
| `paging_window` | two tasks, two page tables, the CPU keeps its translation of page 0 | **violated**: a fork loses a page (finding 2) |
| `memory` | three tables of zones; pages of 8 bytes, 32 that can be addressed; the kernel has six, in three bytes of two bits; blocks of 3 and 6, a header of 2, requests of 3, 5, 7 and 17 bytes | first fit, nothing lost or lent twice, a panic only when nothing fits; disjoint blocks, exact free lists, a page given back with its last block; no page with two owners, `free_pages` |
| `lists` | two lists, four nodes | pointers are two-way and implement sequences, end by end |
| `output` | the console with two rows of two over eleven cells and writes of up to four characters; or `printf` with every set of flags, four widths and three precisions, three numbers, in every conversion; negative numbers and `*` precisions; three tasks and a `printk` in the middle of each other | cursor and window in step, the CRT shows a scrolling terminal; a text is what the format says unless another came between, negative numbers and `*` precisions apart; its length and `%n` are always its own |
| `rtc` | nine dates two seconds before the ends of days, months, years and the century, in leap years and others, and in the middle of a day; alarms in 1, 3599 and 86400 s; three calls; two ticks in a call, one after the alarm | no torn time, seconds since 1970, the alarm when it is due, unless that is before `set_alarm` ends, and through both controllers |
| `printf_sign` | the negative numbers of `output`, one task | **violated**: no minus sign (finding 3) |

*Why the bounds are enough.* `sched` has a task of every kind, and five interrupts
are two slices and more than the longest sleep; `MaxJiffies` is the only bound, and
`sched_wrap` lifts it: in words of 3
the clock wraps every third interrupt, with three tasks asleep in any order. Two tasks show every race of the lock, a third takes the mutex
between a wake-up and its retry, and the fourth makes both kinds of caller
contend with one of their own. Three readers are one that reads, one that waits for
the lock and one that comes late; a ring of three holds two bytes, and a third drops
one. Three paging tasks are a chain of forks, in which a frame is shared
three times; six frames run out. Six kernel pages hold a run across a byte
boundary, at the end, and two runs with a gap; one page or two of them hold the map, and
in the others requests of two and three pages fit or do not; a page has two small
blocks or one larger. The tables have a larger zone that is no memory, one whose size
is cut to 32 bits, and two zones of which the second cannot be addressed. In `rtc` a
pass over the registers meets none, one or two ticks, and the bound of 59 on `MaxBusy` says
that a pass takes less than a minute (the seconds alone tell it that time has passed).
Three calls are an alarm, its interrupt and the alarm that one sets, or an alarm
that replaces another. In `output` 16 characters hold every text, `WORD` is 2^16;
the console and `printf` share no state and run one without the other, so each execution is of
one of them. In
`sched` a task asks for its number only while it still has the result of its fork in
`eax`: other calls return in the same way. Two rows and eleven cells let the window slide
twice, and the memory is no whole number of rows, as 16384 bytes is none; four characters
let one write meet a character that went astray before the window slid back.

*Fairness* is assumed by `sched_wrap` only. `SF(clock_handler)`: the timer keeps
interrupting, and a pending interrupt is taken as soon as interrupts are on, even for
one instruction; strong, because they are off and on again and again.
`WF(EnableInterrupts)`: straight-line code at the start of a thread goes on.
`WF` on the sleep of `test_thread`: its loop, which has interrupts off, reaches
`sleep()`. No task is assumed to call the kernel or to give up the CPU otherwise.

*Assumptions of runs.* `paging` has `WindowStays = FALSE`: between two copies the
CPU drops its translation of page 0, which the code leaves to luck (finding 2).
`get_page` may give any free frame, where the code takes the lowest: what holds for any
holds for the lowest. `rtc` bounds the seconds of an alarm by a day, `AlarmInTime`
supposes that they have not passed when `set_alarm` ends (see the observations), and a tick
changes all registers of the chip at once, where a real one takes a while to. In `keyboard` a read starts only while no lock
key is set, no extended code is pending and nothing was swallowed (`OnlyLetters`): a bound
that keeps the keys and the readers apart; `keyboard_read` looks at none of these.
`sched` supposes that the registers live in C code between entry and call as unoptimised
code keeps them (see the observations).

## 4. Findings

1. `sched_slice`: `task_wakeup` leaves a task READY with `ticks = 0`, and `schedule`
   renews only the slice of the task that leaves. The woken task runs with 0 ticks;
   the next clock interrupt decrements them to 2^32 - 1, and it keeps the CPU until
   it gives it up. The program hides this because its sleepers sleep again soon.
2. `paging_window`: `copy_page` maps a frame at page 0 and removes the entry
   without `flush_tlb`. Two copies in one fork may both go to the first frame.
3. `printf_sign`: `number` tests an unsigned number for `< 0` (`vsprintf.c:60`), so `%d`
   never shows the minus sign of the comment before it: -1 is 4294967295.

Observed while modelling, and not the subject of a run:

* `task_search` lets a task with an older stamp beat one with more ticks and the
  reverse, so the choice depends on the order of the table; two tasks that yield to
  each other can keep a third one waiting for ever. The stamp of a task that yields
  before a clock interrupt is old (`clock.c:31`; `task.h:31` calls it the last time
  the task ran).
* `mutex_lock` is not fair: a woken waiter goes to the back when it finds the mutex
  taken.
* Capslock shifts every key with a second column, digits too; the test for
  `KEY_PRINT_SCREEN` after the extended codes cannot succeed.
* The asserts at `memory.c:517` and `:567` compare in a chain (`a <= b < c`), which
  is always true: a brk up to the stack is accepted.
* `kmalloc` of nearly 2^32 bytes wraps in `div_round_up`; nobody asks for so much.
* `console_write` reads `ptr` from `pos` once. After a line feed, return or
  backspace inside a write the text goes where the cursor was (`assert.c:33`,
  `interrupt.c:150` print such texts); the same after a wrapped line that makes the
  window return to the start of the memory. `Terminal` says so with `astray`.
* `scroll_up` clears two rows, the second up to 96 bytes behind `MEM_END`.
  `console_write` returns `count + 1`.
* `printf` has one static buffer for all
  tasks: what a task shows may be what another has stored meanwhile. `ShowsTheFormat`
  leaves such texts out.
* A `*` in the place of a precision takes its argument but is not passed over
  (`vsprintf.c:245`): it becomes the conversion, and `%.*u` is shown as `%*u`, where the comment
  at `:244` makes the argument the precision. `ShowsTheFormat` leaves these items out.
* An alarm that becomes due between `time_read` and the end of `set_alarm` matches before it is
  enabled or is acknowledged by the last read of register C (`rtc.c:94`). It comes a day late.
  One second is all `rtc_handler` asks for, so a tick after its read is enough, and the chain
  of alarms stops. `AlarmInTime` leaves these calls out.
* `time_read_bcd` does not look at the update flag of the chip. When both its reads of the
  seconds fall into one update they agree although other registers still show the old date, and
  the error is not "within 1 second" (`time.c:112`). The model has no such updates.
* `get_yday` counts from 1 and `time_read` stores what it returns (`time.c:136`), 366 on the last
  day of a leap year; `time.h:15` says 0 to 365. Nothing reads the field.
* `set_leds` drops the scan codes it takes for answers (`keyboard.c:258`), and a key
  whose release is dropped stays down. `KeymapIsWhatIsPressed` leaves these histories out.
* More than a day of seconds wraps (`rtc.c:84`). `main.c` starts neither `time_init` nor `rtc_init`.
* When the largest zone begins at 4 GB or has sizes that do not fit 32 bits, `memory_init` stops at an
  assertion or uses less than there is; it does not look for the zone at 1 MB.
* `free_pages` stays ahead of the free frames by what `mapping_init` takes.
* `syscall_handler` calls `syscall_check` before it saves the registers: `ecx` and `edx`,
  which carry arguments, survive it only because the compiler does not use them there.
* `list.h` swaps the comments of `next` and `prev`; `time.c` counts `tm_mon` from 1,
  `time.h:12` from 0.

## 5. What is proved

Each theorem holds for every value of the constants that the `ASSUME` of its module
allows. Those assumptions are sizes: at least the three tasks the kernel makes, words
larger than a priority, blocks that fit a page, a memory that holds two screens and
a row (so that the copy of `scroll_up` does not overlap), constants that are not
members of the sets they stand beside, seconds that make up at most a day, formats whose
arguments have their types and whose texts fit the buffer.

* `SchedProofs`. `TypeCorrect`: every field keeps its type. `TasksStayConsistent`:
  `OneRunning` and `QueuesMatchStates` are inductive together, with the types - a
  task is put in a list only when the list it was in says it is not there. Its key
  lemma is `ScheduleEffect`: whatever a handler has changed, `schedule()` makes exactly
  one task RUNNING. `ParentsStayAlive` needs that slots are filled from below and that
  a parent has a smaller pid than its children; `TheDeadStayDead` that only a fork
  fills a slot, and only one that never had a task. `ContextRunsOnSched`: with registers
  and stacks the scheduler makes only steps of `Sched`, since every action of `Context`
  is one of its actions or leaves its variables alone; so `ContextKeepsTasks`.
  `NobodyOversleeps` supposes that no deadline wraps (`MaxJiffies` and the longest sleep
  fit a word), and needs that the sleep list is sorted by deadlines, which the insertion
  of `task_sleep` keeps. `SearchIsDecided` and `IdleIsFallback` follow the loop of
  `task_search` by induction on its turns; the second needs that idle always has one tick,
  so that every clock interrupt uses its slice up. `TasksOwnTheirProcessors` is the
  refinement of `OwnProcessor`: the registers of a task are the processor's while it runs,
  and else what its stack resumes with. Its invariant says that a handler's frame lies on
  the stack of the task it interrupted, because `esp0` names that stack whenever ring 3
  can be left; that the task that runs has an empty stack, and a free slot, too; and that
  ring and interrupt flag of every task are what its `pc` means them to be.
* `LockProofs`. `LockInv` adds to the properties what each `pc` knows: who owns the
  mutex, what `holder` and `repeat` are between the statements that set them, and
  that a test of `holder` without protection can only be wrong about other tasks.
  From it mutual exclusion, no lost wake-up, the assertions and the refinement.
* `PagingProofs`. For any number of tasks, frames, tables and pages, and any contents of
  a user page. It supposes `WindowStays = FALSE`: with the other value the refinement is
  false, as run `paging_window` shows. The inductive invariant
  `PagingInv` counts: `memory_map[f]` is the number of places that name frame `f` -
  entries of directories, of tables, and the hands of a brk that is under way - no
  directory's table is a frame of user data, an entry of a shared frame is read-only, a
  cached translation is no more than its entry allows. It is proved in two layers:
  first what changing one entry, cloning a table, or dropping a task does to the
  references of every frame, as lemmas about functions; then each handler, by its
  outcomes, from those. `MemoryIsPrivate` is the refinement: what a task sees through its
  directory changes only by its own stores, and a fork gives the child the same view.
* `KeyboardProofs`. The ring implements a queue of `length - 1` bytes that drops the
  oldest; the mapping reads the ring from `tail` on, and the lemmas are about the
  distance from tail to head modulo `length`. The driver is proved on top of it and of
  the lock: `ReadersExclude` takes the theorems of `LockProofs` for the lock that
  `keyboard_read` uses, a reader that waits for a byte being one that the scheduler has
  passed over. `BytesAreNoticed` needs that a reader that is blocked is the one in `waiter`
  and that it blocks only on an empty ring; `KeymapKeepsUp` that the driver's flags are
  what one gets by replaying the bytes that were sent. The names of the model must not
  be the code of a key: `0xe0` is none.
* `HeapProofs`. `IInv` says for each loop what it has seen: while it looks, the
  last `counter` bits are clear and no earlier run fits; while it sets or clears,
  the bits up to `next_bit` are done. From it `BitsMatchRuns`, the disjointness of the
  runs, the assertion of `reset_page`, the panic, and the refinement of first fit.
  `HeapRunsOnBitmap`: kmalloc and kfree use the bitmap only as it allows, so all of it
  holds under the heap, and, by `MemoryKeepsPages`, from the start of the kernel on beside
  `get_page`. `FramesStayApart`: no frame is a page of the kernel; its invariant is that
  the counts of all kernel pages are positive once `mapping_init` has run, and that only
  frames are put.
  `HeapInv` says who has what above the pages: every block is whole pages, a large block
  behind a header that has the length of its run, or one of those its page was cut into;
  every run held is that of a block, and of two blocks only if its page was cut; a free
  list is what is left of the pages of its size. The lemmas say what a block, a page
  and a list are before and after each call, for any headers and blocks; then come the
  calls. From it `FreeListsStayExact`, `PagesStayHeld` and the refinement
  `HeapIsMalloc`. The loops of `arena_init`, `kfree` and `memory_init` are recursive
  functions; what they compute follows from `Induction`, which says that a set with 0 and
  with the successors of its members has all numbers. `MapInv` follows `kernel_init` and
  counts free frames: `FreePagesStayAhead` supposes that the machine has the 8 MB that are
  mapped, `MemoryStaysDivided` that it has room for the map and that no zone above 4 GB has
  a base whose lower 32 bits are 1 MB, as `memory_init` would take it for the one there.
* `LinkedListProofs`. `LinksAreTwoWay` with the types is inductive. For the refinement of
  `Queues` the invariant is that there are sequences whose neighbours the links join, that
  no node is in two places and that every linked node is in one: an insertion or a removal at
  two pointers is one in the middle of a sequence. The loop of `list_size` then visits
  that sequence, by induction on its turns, and ends because there are no more nodes than
  cells - of which there are finitely many, as `ListAssumption` says.
* `OutputProofs`, the console. `CursorIsOnScreen`, `WindowInMemory` and the types, with a bound
  on `ptr`, are inductive; the cursor and the window need each other.
  `ConsoleIsTerminal` is the refinement: a cell of the window is a place of the terminal,
  scrolling moves every row up because the row behind the window was erased just before,
  and between two writes the CRT has the cursor. The proof found `Terminal` too strong:
  a character that `console_write` puts behind the end of the window stays in memory, and
  when the window goes back to the start it is copied along, so that the cursor can meet it
  a second time. The run had too short a write to show it; it now has one of four
  characters.
* `OutputProofs`, `printf`. Four layers. Digits: `InBase` of a number reads back as that
  number, its last digit being the remainder and the others the quotient; zeros before it
  change nothing. A field: `number` is blanks, sign, prefix, zeros and digits one after the
  other, as wide as asked (`ConvertIs` for every conversion). What is asked is stated without
  the code's `SignOf`, `PrefixOf` and reading modulo `WORD`; they agree with it for every
  number that is not negative (`NotNegative`). A format: the text of all items
  is those of the items joined, so the end of every item is an end that `Reads` finds
  (`VsprintfReads`). The tasks: `PrintfIInv` says for everyone in a `printf` that there is a
  number of items that are converted, that `str` characters of their text are stored and
  `out` is the rest, and that `ip` has the counts of the `%n` among them; that the
  buffer holds the text of whoever is still alone in it; and that a task with interrupts off
  is. Numbers, fields and formats have any length: the recursions of the model are functions,
  and a lemma that a set with 0 and with the successors of its members has all
  numbers does the inductions. `FormatsAssumption` is used for the size of the buffer.
* `RtcProofs`. First the calendar: `SecondsSince1970` of the chip's next date is one
  second more, over all its carries, and `mktime` with its table of months, its rule of
  leap years and its two-digit years counts the same seconds until the end of 2069. From
  2070 on two digits stand for 1970 and later, as `time_read` takes them, so
  `StartupIsRight` has the hypothesis `now.year <= LastYear`; `ReadsAreWhole` and
  `AlarmsAreInTime` need none. The invariant: the registers read so far agree
  with the chip, or its seconds have gone on by less than a minute, which the second
  look at `sec` then finds; a time that was read is `since` seconds old; the alarm registers
  hold the time of day at which the request falls due; and the flag of the chip is set once
  that second has come. `BoundsAssumption` says that a pass over the registers takes less than
  a minute - after exactly one the seconds would agree again - and `StartsAssumption` that
  the dates at the start exist.

So every invariant, action property and refinement that a passing run checks is a
theorem. Only model-checked: `SleepersWake`, since liveness under fairness is out of the
prover's reach. The modules of two components that share a proof module keep their own
assumptions; neither uses the other's.

## 6. What is not modelled, and the plan

Not modelled: boot and descriptors (they run once and are mode switches and constant
tables); exceptions other than the page fault, which stop the machine, and spurious
interrupts; strings, assertions and debug output (no state of their own); in the console
the attributes of cells and `console_clear` after the start; what overflows the buffer
of `printf`; the length modifiers of formats, which change nothing (after a `*` precision
they would become text, too); the update time of the CMOS chip; `get_yday` and `tm_yday`.

The order of work, the most important first: scheduler, lock, paging, keyboard, kernel
memory, lists, console, time, output, registers and stacks - all written. What is left:

1. Compose `Context` with `Lock`, to ask which waiters a real `task_search` serves, and
   with `Paging`, so that a fork is one action on both.
2. Proofs about that composition, from the invariants of its parts.
