------------------------------- MODULE Keyboard -------------------------------
(***************************************************************************)
(* The keyboard driver (keyboard.c): the interrupt handler, which decodes  *)
(* scan codes into a byte ring, and keyboard_read, whose callers take a    *)
(* lock and wait for bytes.  The lock is that of Lock.tla, the ring that   *)
(* of FifoRing.tla; the keyboard and its user are the environment.         *)
(*                                                                         *)
(* task_block asserts that interrupts are off, so keyboard_read runs with  *)
(* interrupts off: another task or the handler runs when it has blocked.   *)
(***************************************************************************)
EXTENDS FifoRing, SequencesExt

CONSTANTS
  Task, Idle, NoTask,   \* the tasks that read, the idle task, NULL
  Key,                  \* the keys with an entry in the keymap
  Physical,             \* the real keys: <<key, 2>>, or <<key, 3>> if extended
  keymap,               \* for every key the bytes of its two columns
  INV,                  \* a keymap entry without a byte
  Bad,                  \* a make code above KEY_PRINT_SCREEN
  Counts,               \* the counts keyboard_read is called with
  Letters,              \* bound: the only keys that are pressed while a task reads
  MaxLine               \* bound: scan code bytes on their way to the handler

ASSUME KeyboardAssumption ==
  /\ Idle \notin Task /\ NoTask \notin Task \cup {Idle}
  /\ Physical \subseteq (Key \cup {Bad}) \X {2, 3} /\ Bad \notin Key
  /\ "0xe0" \notin Key \cup {Bad}
  /\ keymap \in [Key -> [{"plain", "shifted"} -> Byte \cup {INV}]]
  /\ Byte # {} /\ INV \notin Byte
  /\ Letters \subseteq Physical
  /\ Counts \subseteq Nat /\ MaxLine \in Nat

VARIABLES
  value, waiters, holder, repeat, depth, pc,  \* the lock of keyboard_read
  state, current,                             \* the scheduler, as in Lock
  call,           \* the read a task is in: its count, and the bytes it has
  fifo,           \* the byte ring
  waiter,         \* the task the handler has to unblock
  down,           \* the press bits of the keymap: its columns 2 and 3
  locked,         \* which of capslock_state, numlock_state, scrlock_state is set
  extcode_state,  \* the last byte was 0xe0
  held,           \* environment: the keys that are pressed
  line,           \* environment: the bytes the keyboard has sent
  swallowed       \* environment: a set_leds has read scan codes as answers

lockVars == <<value, waiters, holder, repeat, depth, pc>>
schedVars == <<state, current>>
handlerVars == <<down, locked, extcode_state>>
deviceVars == <<held, line, swallowed>>
vars == <<lockVars, schedVars, call, fifo, waiter, handlerVars, deviceVars>>

L == INSTANCE Lock WITH Preemptible <- {}, MaxDepth <- 1

NoCall == [count |-> 0, got |-> << >>, on |-> FALSE]
Prefix == [key |-> "0xe0", up |-> FALSE]
MakeCode == [key : Key \cup {Bad}, up : BOOLEAN]
LockKey == {"capslock", "numlock", "scrlock"}

TypeOK ==
  /\ fifo \in Ring
  /\ waiter \in Task \cup {NoTask} /\ holder \in Task \cup {NoTask}
  /\ state \in [L!Context -> {"RUNNING", "READY", "BLOCKED", "WAITING"}]
  /\ \A t \in Task : call[t].got \in Seq(Byte) /\ Len(call[t].got) <= call[t].count
  /\ down \subseteq Key \X {2, 3}
  /\ locked \subseteq LockKey
  /\ extcode_state \in BOOLEAN
  /\ line \in Seq(MakeCode \cup {Prefix}) /\ Len(line) <= MaxLine

\* columns 2 and 3 of the table of keys as it is compiled in
NoKeyDown == {}

Init ==
  /\ L!Init
  /\ call = [t \in Task |-> NoCall]
  /\ fifo = [buf |-> [i \in Slot |-> CHOOSE b \in Byte : TRUE], head |-> 0, tail |-> 0]
  /\ waiter = NoTask
  /\ down = NoKeyDown /\ locked = {} /\ extcode_state = FALSE
  /\ held = {} /\ line = << >> /\ swallowed = FALSE

-----------------------------------------------------------------------------
(* The environment: the keyboard sends one or two bytes for each press,     *)
(* repeated press and release.                                              *)

\* bound: other keys than letters are pressed only before the first byte is typed and
\* the first read starts, and wait for the handler together with earlier ones
AllKeys ==  (\A t \in Task : ~ call[t].on) /\ fifo.head = 0 /\ fifo.tail = 0

\* bound: after that, only letters, and reads start, once the effects of the others
\* are over
OnlyLetters ==
  /\ held \cup down \subseteq Letters /\ locked = {}
  /\ ~ extcode_state /\ ~ swallowed /\ Len(line) <= 1

Sends(key, ext, up) ==
  /\ line' = line \o (IF ext = 3 THEN <<Prefix>> ELSE << >>) \o <<[key |-> key, up |-> up]>>
  /\ line = << >> \/ (AllKeys /\ <<key, ext>> \notin Letters)
  /\ Len(line') <= MaxLine
  /\ UNCHANGED <<lockVars, schedVars, call, fifo, waiter, handlerVars, swallowed>>

Press(k) ==
  /\ AllKeys \/ (OnlyLetters /\ k \in Letters)
  /\ held' = held \cup {k} /\ Sends(k[1], k[2], FALSE)
LetGo(k) == k \in held /\ held' = held \ {k} /\ Sends(k[1], k[2], TRUE)

-----------------------------------------------------------------------------
(* The interrupt handler.                                                   *)

\* interrupts are on in the idle task and in tasks that are not in the kernel
InterruptsOn == current \in Task => ~ call[current].on

Column == IF extcode_state THEN 3 ELSE 2

\* set_leds reads the data port until it finds the answer to its commands: the
\* bytes the keyboard has sent meanwhile are read as answers and dropped
SetLeds(rest) ==
  \E n \in 0 .. Len(rest) :
    /\ line' = SubSeq(rest, n + 1, Len(rest))
    /\ swallowed' = (swallowed \/ n > 0)

\* numlock, capslock or scrlock changes its state each time it is pressed
Toggled(key) ==
  IF key \in locked THEN locked \ {key} ELSE locked \cup ({key} \cap LockKey)

ShiftState(d) == \E k \in {"lshift", "rshift"} : <<k, 2>> \in d

\* capslock shifts every key: 'a' <= c <= 'z' is true of any c
Shift(d, lk) == ("capslock" \in lk) # ShiftState(d)

\* [/] has the same byte extended or not
Char(key, d, lk) ==
  IF Column = 3 /\ key # "slash" THEN keymap[key].shifted
  ELSE keymap[key][IF Shift(d, lk) THEN "shifted" ELSE "plain"]

\* mutant: the reader is made READY and stays the one to be woken
WakeReader_StaysWaiter ==
  /\ state' = [t \in L!Context |-> IF t = waiter THEN "READY" ELSE state[t]]
  /\ UNCHANGED waiter

WakeReader ==
  /\ state' = [t \in L!Context |-> IF t = waiter THEN "READY" ELSE state[t]]
  /\ waiter' = NoTask

Deliver(ch) ==
  IF ch = INV THEN UNCHANGED <<fifo, waiter, state>>
  ELSE fifo' = fifo_put(fifo, ch) /\ WakeReader

Interrupt ==
  /\ InterruptsOn /\ line # << >>
  /\ UNCHANGED <<lockVars, current, call, held>>

\* the bytes that end the handler early: the prefix, an illegal code, a break
PrefixByte ==
  /\ Interrupt /\ Head(line) = Prefix
  /\ extcode_state' = TRUE
  /\ line' = Tail(line)
  /\ UNCHANGED <<schedVars, fifo, waiter, down, locked, swallowed>>

\* mutant: an illegal code does not use the prefix up
IllegalByte_KeepsPrefix ==
  /\ Interrupt /\ Head(line) # Prefix /\ Head(line).key = Bad
  /\ line' = Tail(line)
  /\ UNCHANGED <<schedVars, fifo, waiter, down, locked, swallowed, extcode_state>>

IllegalByte ==
  /\ Interrupt /\ Head(line) # Prefix /\ Head(line).key = Bad
  /\ extcode_state' = FALSE
  /\ line' = Tail(line)
  /\ UNCHANGED <<schedVars, fifo, waiter, down, locked, swallowed>>

BreakByte ==
  /\ Interrupt /\ Head(line) # Prefix
  /\ Head(line).key # Bad /\ Head(line).up
  /\ down' = down \ {<<Head(line).key, Column>>}
  /\ extcode_state' = FALSE
  /\ line' = Tail(line)
  /\ UNCHANGED <<schedVars, fifo, waiter, locked, swallowed>>

MakeByte ==
  /\ Interrupt /\ Head(line) # Prefix
  /\ Head(line).key # Bad /\ ~ Head(line).up
  /\ down' = down \cup {<<Head(line).key, Column>>}
  /\ locked' = Toggled(Head(line).key)
  /\ extcode_state' = FALSE
  /\ IF Head(line).key \in LockKey THEN SetLeds(Tail(line))
     ELSE line' = Tail(line) /\ UNCHANGED swallowed
  /\ Deliver(Char(Head(line).key, down', locked'))

keyboard_handler == PrefixByte \/ IllegalByte \/ BreakByte \/ MakeByte

-----------------------------------------------------------------------------
(* keyboard_read.  The statements of lock_acquire and lock_release are      *)
(* those of Lock.tla; a read is past lock_acquire when its depth is 1.      *)

kbdVars == <<fifo, waiter, handlerVars, deviceVars>>
Reads(t) == current = t /\ call[t].on /\ pc[t] = "run"
Inside(t) == Reads(t) /\ depth[t] = 1
Left(t) == call[t].count - Len(call[t].got)

\* mutant: a read does not take the lock
keyboard_read_NoLock(t, n) ==
  /\ current = t /\ ~ call[t].on /\ OnlyLetters
  /\ depth' = [depth EXCEPT ![t] = 1]
  /\ call' = [call EXCEPT ![t] = [count |-> n, got |-> << >>, on |-> TRUE]]
  /\ UNCHANGED <<value, waiters, holder, repeat, pc, schedVars, kbdVars>>

keyboard_read(t, n) ==
  /\ current = t /\ ~ call[t].on /\ OnlyLetters
  /\ L!AcquireTest(t)
  /\ call' = [call EXCEPT ![t] = [count |-> n, got |-> << >>, on |-> TRUE]]
  /\ UNCHANGED kbdVars

WaitForByte(t) ==
  /\ Inside(t) /\ Left(t) > 0 /\ fifo_empty(fifo)
  /\ waiter' = t
  /\ L!Schedule([state EXCEPT ![t] = "WAITING"])
  /\ UNCHANGED <<lockVars, call, fifo, handlerVars, deviceVars>>

TakeByte(t) ==
  /\ Inside(t) /\ Left(t) > 0 /\ ~ fifo_empty(fifo)
  /\ call' = [call EXCEPT ![t].got = Append(@, Oldest(fifo))]
  /\ fifo' = fifo_get(fifo)
  /\ UNCHANGED <<lockVars, schedVars, waiter, handlerVars, deviceVars>>

Finish(t) ==
  /\ Inside(t) /\ Left(t) = 0
  /\ L!ReleaseTest(t)
  /\ UNCHANGED <<call, kbdVars>>

LockStep(t) ==
  /\ \/ L!MutexWait(t) \/ L!MutexTake(t) \/ L!SetHolder(t) \/ L!SetRepeat(t)
     \/ L!ClearHolder(t) \/ L!ClearRepeat(t)
     \/ L!MutexFree(t) \/ L!MutexHandOver(t) \/ L!Resume(t)
  /\ UNCHANGED <<call, kbdVars>>

Return(t) ==
  /\ Reads(t) /\ depth[t] = 0 /\ Left(t) = 0
  /\ call' = [call EXCEPT ![t] = NoCall]
  /\ UNCHANGED <<lockVars, schedVars, kbdVars>>

\* idle, or a task that is not in the kernel, loses the CPU
Switch ==
  /\ InterruptsOn
  /\ L!Schedule(state)
  /\ UNCHANGED <<lockVars, call, kbdVars>>

Next ==
  \/ \E k \in Physical : Press(k) \/ LetGo(k)
  \/ keyboard_handler
  \/ \E t \in Task :
       \/ \E n \in Counts : keyboard_read(t, n)
       \/ WaitForByte(t) \/ TakeByte(t) \/ Finish(t) \/ LockStep(t) \/ Return(t)
  \/ Switch

Spec == Init /\ [][Next]_vars

-----------------------------------------------------------------------------
(* Properties.                                                              *)

\* No byte goes unnoticed: a task that waits for one is the holder of the lock and
\* the task the handler will wake, and the ring is empty then; nobody else is woken.
NoByteUnnoticed ==
  /\ \A t \in Task : state[t] = "WAITING" <=> waiter = t
  /\ waiter # NoTask => fifo_empty(fifo) /\ holder = waiter

\* Unless set_leds has read scan codes as answers, the press bits are the keys that
\* are pressed as soon as the handler has seen all bytes: no prefix is lost on the
\* way, kept too long, or applied to the wrong byte.
KeymapIsWhatIsPressed ==
  line = << >> /\ ~ swallowed =>
    down = {k \in held : k[1] # Bad} /\ ~ extcode_state

\* Reads are exclusive, take exactly the bytes asked for, and take them in the
\* order they were typed.
Reader == IF \E t \in Task : depth[t] > 0 THEN CHOOSE t \in Task : depth[t] > 0 ELSE NoTask
Stream == INSTANCE BlockingReader WITH
            Capacity <- length - 1,
            queue <- Contents(fifo),
            reader <- Reader,
            count <- IF Reader = NoTask THEN 0 ELSE call[Reader].count,
            got <- IF Reader = NoTask THEN << >> ELSE call[Reader].got
IsBlockingReader == Stream!Spec
=============================================================================
