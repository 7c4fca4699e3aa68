------------------------------- MODULE Console -------------------------------
(***************************************************************************)
(* The console of kernel/console.c: a window of HEIGHT rows that slides    *)
(* over the video memory and is copied back to its start at the end.       *)
(* Addresses count cells of two bytes from MEM_BASE.  console_write runs   *)
(* with interrupts off; one step is one character of its buffer.           *)
(***************************************************************************)
EXTENDS Integers

CONSTANTS
  WIDTH, HEIGHT,
  MEM_SIZE,   \* the cells of the video memory
  Text,       \* the characters that are shown
  Blank,      \* an erased cell: a space, or the zeroes the 32-bit stores leave
  MaxCount    \* bound: the longest write

ROW_SIZE == WIDTH
SCR_SIZE == WIDTH * HEIGHT
MEM_END == MEM_SIZE

\* The copy of scroll_up does not overlap.
ASSUME ConsoleAssumption ==
  /\ WIDTH \in Nat \ {0} /\ HEIGHT \in Nat \ {0}
  /\ MEM_SIZE \in Nat /\ MaxCount \in Nat
  /\ 2 * SCR_SIZE + ROW_SIZE <= MEM_SIZE
  /\ Blank \notin Text

VARIABLES
  screen,                 \* the start of the window
  pos, x, y,              \* the cursor
  memory,
  start_reg, cursor_reg,  \* what set_screen and set_cursor wrote to the CRT
  writing, ptr, left      \* a write: where its text goes, characters to come

crt == <<start_reg, cursor_reg>>
vars == <<screen, pos, x, y, memory, crt, writing, ptr, left>>

\* the video memory and what lies behind it as far as stores reach
Cell == 0 .. MEM_SIZE + ROW_SIZE + MaxCount

\* console_init
Init ==
  /\ screen = 0 /\ pos = 0 /\ x = 0 /\ y = 0
  /\ memory = [c \in Cell |-> Blank]
  /\ start_reg = 0 /\ cursor_reg = 0
  /\ writing = FALSE /\ ptr = 0 /\ left = 0

-----------------------------------------------------------------------------
(* scroll_up and command_lf.                                                *)

\* mutant: the row that comes into view is not counted
AtEnd_OffByOne == screen + SCR_SIZE >= MEM_END

\* the next row would reach the end of the memory
AtEnd == screen + SCR_SIZE + ROW_SIZE >= MEM_END

\* mutant: the window is not copied
Copied_Not == memory

\* the rows of the window copied to the start of the memory
Copied == [c \in Cell |-> IF c < SCR_SIZE THEN memory[screen + c] ELSE memory[c]]

\* the rows behind the window that starts at s: WIDTH stores of 32 bits clear two
Erased(mem, s) ==
  [c \in Cell |-> IF c \in s + SCR_SIZE .. s + SCR_SIZE + 2 * ROW_SIZE - 1 THEN Blank
                  ELSE mem[c]]

\* the memory and the start of the window after scroll_up
ScrolledMemory == IF AtEnd THEN Erased(Copied, 0) ELSE Erased(memory, screen)
ScrolledStart == (IF AtEnd THEN 0 ELSE screen) + ROW_SIZE

\* mutant: the cursor stays behind when the window is copied
LineBelow_Behind == pos + ROW_SIZE

\* the place below the cursor once command_lf has been done
LineBelow ==
  IF y + 1 < HEIGHT \/ ~ AtEnd THEN pos + ROW_SIZE ELSE pos - screen + ROW_SIZE

\* command_lf moves the window when the cursor is in its last row
command_lf ==
  IF y + 1 < HEIGHT
  THEN y' = y + 1 /\ UNCHANGED <<screen, start_reg>>
  ELSE screen' = ScrolledStart /\ start_reg' = ScrolledStart /\ UNCHANGED y

AfterLf == IF y + 1 < HEIGHT THEN memory ELSE ScrolledMemory

-----------------------------------------------------------------------------
(* console_write.                                                           *)

Begin(count) ==
  /\ ~ writing
  /\ writing' = TRUE /\ ptr' = pos /\ left' = count
  /\ UNCHANGED <<screen, pos, x, y, memory, crt>>

\* set_cursor
End ==
  /\ writing /\ left = 0
  /\ writing' = FALSE /\ cursor_reg' = pos
  /\ UNCHANGED <<screen, pos, x, y, memory, start_reg, ptr, left>>

\* the loop takes a character
Take == writing /\ left > 0 /\ left' = left - 1 /\ UNCHANGED <<writing, cursor_reg>>

\* NUL, BEL, HT, VT
Ignored == Take /\ UNCHANGED <<screen, pos, x, y, memory, start_reg, ptr>>

Cr ==
  /\ Take
  /\ pos' = pos - x /\ x' = 0
  /\ UNCHANGED <<screen, y, memory, start_reg, ptr>>

\* command_lf, then command_cr
Lf ==
  /\ Take /\ command_lf
  /\ memory' = AfterLf
  /\ pos' = LineBelow - x /\ x' = 0
  /\ UNCHANGED ptr

Ff ==
  /\ Take /\ command_lf
  /\ memory' = AfterLf
  /\ pos' = LineBelow
  /\ UNCHANGED <<x, ptr>>

Bs ==
  /\ Take /\ x > 0
  /\ x' = x - 1 /\ pos' = pos - 1
  /\ memory' = [memory EXCEPT ![pos - 1] = Blank]
  /\ UNCHANGED <<screen, y, start_reg, ptr>>

BsAtMargin == x = 0 /\ Ignored

Del ==
  /\ Take
  /\ memory' = [memory EXCEPT ![pos] = Blank]
  /\ UNCHANGED <<screen, pos, x, y, start_reg, ptr>>

Put(c) ==
  /\ Take /\ x < WIDTH
  /\ memory' = [memory EXCEPT ![ptr] = c]
  /\ ptr' = ptr + 1 /\ pos' = pos + 1 /\ x' = x + 1
  /\ UNCHANGED <<screen, y, start_reg>>

\* past the right margin: one row back, command_lf, then the character where ptr is
Wrap(c) ==
  /\ Take /\ x >= WIDTH /\ command_lf
  /\ memory' = [AfterLf EXCEPT ![ptr] = c]
  /\ ptr' = ptr + 1
  /\ pos' = LineBelow - ROW_SIZE + 1
  /\ x' = x - WIDTH + 1

Next ==
  \/ \E count \in 0 .. MaxCount : Begin(count)
  \/ End
  \/ Ignored \/ Cr \/ Lf \/ Ff \/ Bs \/ BsAtMargin \/ Del
  \/ \E c \in Text : Put(c) \/ Wrap(c)

Spec == Init /\ [][Next]_vars

-----------------------------------------------------------------------------
(* Properties.                                                              *)

TypeOK ==
  /\ {screen, pos, x, y, start_reg, cursor_reg, ptr, left} \subseteq Nat
  /\ memory \in [Cell -> Text \cup {Blank}]
  /\ writing \in BOOLEAN
  /\ ptr + left <= MEM_SIZE + MaxCount

\* The cursor is where its row and column say, also when the window has moved, been
\* copied back, or a line been wrapped: every command keeps pos, x, y and screen in step.
CursorIsOnScreen ==
  /\ pos = screen + y * ROW_SIZE + x
  /\ x <= WIDTH /\ y < HEIGHT

\* The window never leaves the video memory, and the CRT shows it.
WindowInMemory == screen + SCR_SIZE <= MEM_END /\ start_reg = screen

\* What the CRT shows is the terminal that writers count on.
Shown == INSTANCE Terminal WITH
  grid <- [p \in 0 .. SCR_SIZE - 1 |-> memory[start_reg + p]],
  shown <- IF writing THEN -1 ELSE cursor_reg - start_reg,
  astray <- writing /\ ptr # pos
IsTerminal == Shown!Spec
=============================================================================
