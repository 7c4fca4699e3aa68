---------------------------- MODULE OutputProofs ----------------------------
(***************************************************************************)
(* Output.  Of the console: the cursor, the window and what it shows, for  *)
(* every size of screen and of video memory and writes of any length.  Of  *)
(* printf: what is shown for every format, by induction over the format,   *)
(* and over the digits of a number.                                        *)
(***************************************************************************)
EXTENDS
  Console, Printf, SequenceTheorems, NaturalsInduction, WellFoundedInduction, TLAPS

ScreenInv == TypeOK /\ CursorIsOnScreen /\ WindowInMemory

LEMMA Sizes == ROW_SIZE \in Nat \ {0} /\ SCR_SIZE \in Nat
  BY ConsoleAssumption DEF ROW_SIZE, SCR_SIZE

\* The next row begins ROW_SIZE cells on.
LEMMA NextRow == ASSUME NEW n \in Nat PROVE (n + 1) * ROW_SIZE = n * ROW_SIZE + ROW_SIZE
  BY Sizes

LEMMA RowsFit ==
  ASSUME NEW n \in Nat, n < HEIGHT
  PROVE  n * ROW_SIZE \in Nat /\ n * ROW_SIZE + ROW_SIZE <= SCR_SIZE
  <1>1. HEIGHT \in Nat /\ WIDTH \in Nat
    BY ConsoleAssumption
  <1>2. PICK k \in Nat : HEIGHT = n + 1 + k
    <2>1. HEIGHT - (n + 1) \in Nat /\ HEIGHT = n + 1 + (HEIGHT - (n + 1))
      BY <1>1
    <2> QED BY <2>1
  <1>3. (n + 1 + k) * WIDTH = (n * WIDTH + WIDTH) + k * WIDTH
    BY <1>1, <1>2
  <1>4. n * WIDTH \in Nat /\ k * WIDTH \in Nat
    BY <1>1, <1>2
  <1>5. SCR_SIZE = (n + 1 + k) * WIDTH
    BY <1>1, <1>2 DEF SCR_SIZE
  <1> HIDE DEF SCR_SIZE
  <1> QED BY <1>1, <1>3, <1>4, <1>5, Sizes DEF ROW_SIZE

\* No store of a text character or an erased cell leaves Cell.
LEMMA CursorInCell ==
  ASSUME ScreenInv
  PROVE  pos \in Nat /\ pos <= screen + SCR_SIZE /\ pos <= MEM_SIZE
  <1>1. y * ROW_SIZE \in Nat /\ y * ROW_SIZE + ROW_SIZE <= SCR_SIZE
    BY RowsFit DEF ScreenInv, TypeOK, CursorIsOnScreen
  <1> QED BY <1>1, Sizes, ConsoleAssumption
          DEF ScreenInv, TypeOK, CursorIsOnScreen, WindowInMemory, MEM_END, ROW_SIZE

LEMMA InitHolds == Init => ScreenInv
  <1> SUFFICES ASSUME Init PROVE ScreenInv
    OBVIOUS
  <1>1. TypeOK
    <2>1. memory \in [Cell -> Text \cup {Blank}]
      BY DEF Init
    <2>2. ptr + left <= MEM_SIZE + MaxCount
      BY ConsoleAssumption DEF Init
    <2>3. {screen, pos, x, y, start_reg, cursor_reg, ptr, left} \subseteq Nat /\ writing \in BOOLEAN
      <3>1. 0 \in Nat
        OBVIOUS
      <3> QED BY <3>1, Zenon DEF Init
    <2> QED BY <2>1, <2>2, <2>3 DEF TypeOK
  <1>2. 0 * ROW_SIZE = 0
    BY Sizes
  <1>3. CursorIsOnScreen
    BY <1>2, ConsoleAssumption DEF Init, CursorIsOnScreen
  <1>4. WindowInMemory
    BY Sizes, ConsoleAssumption DEF Init, WindowInMemory, MEM_END
  <1> QED BY <1>1, <1>3, <1>4 DEF ScreenInv

-----------------------------------------------------------------------------
(* command_lf.                                                              *)

LEMMA ScrollTypes ==
  ASSUME TypeOK, WindowInMemory PROVE AfterLf \in [Cell -> Text \cup {Blank}]
  <1>1. ASSUME NEW c \in Cell, c < SCR_SIZE PROVE memory[screen + c] \in Text \cup {Blank}
    <2>1. screen + c \in Cell
      BY <1>1, Sizes, ConsoleAssumption DEF TypeOK, WindowInMemory, MEM_END, Cell
    <2> QED BY <2>1 DEF TypeOK
  <1>2. Copied \in [Cell -> Text \cup {Blank}]
    BY <1>1 DEF Copied, TypeOK
  <1>3. \A m, s : m \in [Cell -> Text \cup {Blank}] => Erased(m, s) \in [Cell -> Text \cup {Blank}]
    BY DEF Erased
  <1>4. memory \in [Cell -> Text \cup {Blank}]
    BY DEF TypeOK
  <1> QED BY <1>2, <1>3, <1>4 DEF AfterLf, ScrolledMemory

\* A line feed moves the cursor one row down, in the memory or in the window.
LEMMA LineFeedKeeps ==
  ASSUME ScreenInv, command_lf
  PROVE  /\ screen' \in Nat /\ start_reg' = screen' /\ screen' + SCR_SIZE <= MEM_END
         /\ y' \in Nat /\ y' < HEIGHT
         /\ LineBelow = screen' + y' * ROW_SIZE + x
  <1>1. pos = screen + y * ROW_SIZE + x /\ x <= WIDTH /\ y < HEIGHT
    BY DEF ScreenInv, CursorIsOnScreen
  <1>2. screen + SCR_SIZE <= MEM_SIZE /\ start_reg = screen
    BY DEF ScreenInv, WindowInMemory, MEM_END
  <1>3. screen \in Nat /\ x \in Nat /\ y \in Nat /\ pos \in Nat
    BY DEF ScreenInv, TypeOK
  <1>4. y * ROW_SIZE \in Nat /\ (y + 1) * ROW_SIZE = y * ROW_SIZE + ROW_SIZE
    BY <1>1, <1>3, NextRow, RowsFit
  <1>5. HEIGHT \in Nat /\ MEM_SIZE \in Nat /\ 2 * SCR_SIZE + ROW_SIZE <= MEM_SIZE
    BY ConsoleAssumption
  <1>6. CASE y + 1 < HEIGHT
    <2>1. y' = y + 1 /\ screen' = screen /\ start_reg' = start_reg
      BY <1>6 DEF command_lf
    <2>2. LineBelow = pos + ROW_SIZE
      BY <1>6 DEF LineBelow
    <2>3. y' * ROW_SIZE = y * ROW_SIZE + ROW_SIZE
      BY <1>4, <2>1
    <2> QED BY <1>1, <1>2, <1>3, <1>4, <1>5, <1>6, <2>1, <2>2, <2>3, Sizes DEF MEM_END
  <1>7. CASE ~ (y + 1 < HEIGHT)
    <2>1. y' = y /\ screen' = ScrolledStart /\ start_reg' = screen'
      BY <1>7 DEF command_lf
    <2>2. y' * ROW_SIZE = y * ROW_SIZE
      BY <2>1
    <2>3. CASE AtEnd
      <3>1. screen' = ROW_SIZE
        BY <2>1, <2>3, Sizes DEF ScrolledStart
      <3>2. LineBelow = pos - screen + ROW_SIZE
        BY <1>7, <2>3 DEF LineBelow
      <3> QED BY <1>1, <1>2, <1>3, <1>4, <1>5, <2>1, <2>2, <3>1, <3>2, Sizes DEF MEM_END
    <2>4. CASE ~ AtEnd
      <3>1. screen' = screen + ROW_SIZE
        BY <2>1, <2>4 DEF ScrolledStart
      <3>2. LineBelow = pos + ROW_SIZE
        BY <2>4 DEF LineBelow
      <3>3. screen + SCR_SIZE + ROW_SIZE < MEM_END
        BY <1>3, <1>5, <2>4, Sizes DEF AtEnd, MEM_END
      <3> QED BY <1>1, <1>2, <1>3, <1>4, <1>5, <2>1, <2>2, <3>1, <3>2, <3>3, Sizes DEF MEM_END
    <2> QED BY <2>3, <2>4
  <1> QED BY <1>6, <1>7

-----------------------------------------------------------------------------
(* The steps of console_write.                                              *)

\* what a step leaves alone when it neither moves the window nor the row
LEMMA SameRow ==
  ASSUME ScreenInv, UNCHANGED <<screen, y, start_reg>>,
         x' \in Nat, x' <= WIDTH, pos' = pos + x' - x
  PROVE  CursorIsOnScreen' /\ WindowInMemory' /\ pos' \in Nat
  <1>1. y' * ROW_SIZE = y * ROW_SIZE
    OBVIOUS
  <1>2. y * ROW_SIZE \in Nat
    BY RowsFit DEF ScreenInv, TypeOK, CursorIsOnScreen
  <1> HIDE DEF ROW_SIZE, SCR_SIZE
  <1> QED BY <1>1, <1>2, Sizes
          DEF ScreenInv, TypeOK, CursorIsOnScreen, WindowInMemory, MEM_END

LEMMA ControlKeeps ==
  ASSUME ScreenInv, Ignored \/ Cr \/ Bs \/ BsAtMargin \/ Del
  PROVE  ScreenInv'
  <1>1. x \in Nat /\ x <= WIDTH /\ WIDTH \in Nat /\ pos \in Nat
    BY ConsoleAssumption DEF ScreenInv, TypeOK, CursorIsOnScreen
  <1>2. /\ UNCHANGED <<screen, y, start_reg, ptr, cursor_reg, writing>>
        /\ left \in Nat /\ left > 0 /\ left' = left - 1
    BY DEF Ignored, Cr, Bs, BsAtMargin, Del, Take, ScreenInv, TypeOK
  <1>3. x' \in Nat /\ x' <= WIDTH /\ pos' = pos + x' - x
    BY <1>1 DEF Ignored, Cr, Bs, BsAtMargin, Del
  <1>4. memory' \in [Cell -> Text \cup {Blank}]
    BY DEF Ignored, Cr, Bs, BsAtMargin, Del, ScreenInv, TypeOK
  <1>5. CursorIsOnScreen' /\ WindowInMemory' /\ pos' \in Nat
    BY <1>2, <1>3, SameRow
  <1>6. TypeOK'
    BY <1>2, <1>3, <1>4, <1>5, ConsoleAssumption DEF ScreenInv, TypeOK
  <1> QED BY <1>5, <1>6 DEF ScreenInv

LEMMA PutKeeps == ASSUME ScreenInv, NEW c \in Text, Put(c) PROVE ScreenInv'
  <1>1. x \in Nat /\ x < WIDTH /\ WIDTH \in Nat /\ pos \in Nat
    BY ConsoleAssumption DEF ScreenInv, TypeOK, Put
  <1>2. /\ UNCHANGED <<screen, y, start_reg, cursor_reg, writing>>
        /\ left \in Nat /\ left > 0 /\ left' = left - 1 /\ ptr' = ptr + 1
    BY DEF Put, Take, ScreenInv, TypeOK
  <1>3. x' \in Nat /\ x' <= WIDTH /\ pos' = pos + x' - x
    BY <1>1 DEF Put
  <1>4. memory' \in [Cell -> Text \cup {Blank}]
    BY DEF Put, ScreenInv, TypeOK
  <1>5. CursorIsOnScreen' /\ WindowInMemory' /\ pos' \in Nat
    BY <1>2, <1>3, SameRow
  <1>6. TypeOK'
    BY <1>2, <1>3, <1>4, <1>5, ConsoleAssumption DEF ScreenInv, TypeOK
  <1> QED BY <1>5, <1>6 DEF ScreenInv

LEMMA FeedKeeps == ASSUME ScreenInv, Lf \/ Ff PROVE ScreenInv'
  <1>1. command_lf /\ memory' = AfterLf
    BY DEF Lf, Ff
  <1>2. /\ screen' \in Nat /\ start_reg' = screen' /\ screen' + SCR_SIZE <= MEM_END
        /\ y' \in Nat /\ y' < HEIGHT
        /\ LineBelow = screen' + y' * ROW_SIZE + x
    BY <1>1, LineFeedKeeps
  <1>3. memory' \in [Cell -> Text \cup {Blank}]
    BY <1>1, ScrollTypes DEF ScreenInv
  <1>4. /\ UNCHANGED <<ptr, cursor_reg, writing>>
        /\ left \in Nat /\ left > 0 /\ left' = left - 1
    BY DEF Lf, Ff, Take, ScreenInv, TypeOK
  <1>5. x \in Nat /\ x <= WIDTH /\ WIDTH \in Nat
    BY ConsoleAssumption DEF ScreenInv, TypeOK, CursorIsOnScreen
  <1>6. y' * ROW_SIZE \in Nat
    BY <1>2, RowsFit
  <1>7. x' \in Nat /\ x' <= WIDTH /\ pos' = screen' + y' * ROW_SIZE + x'
    BY <1>2, <1>5, <1>6, Sizes DEF Lf, Ff
  <1>8. TypeOK'
    BY <1>2, <1>3, <1>4, <1>6, <1>7, ConsoleAssumption DEF ScreenInv, TypeOK
  <1> QED BY <1>2, <1>7, <1>8 DEF ScreenInv, CursorIsOnScreen, WindowInMemory, MEM_END

LEMMA WrapKeeps == ASSUME ScreenInv, NEW c \in Text, Wrap(c) PROVE ScreenInv'
  <1>1. command_lf /\ memory' = [AfterLf EXCEPT ![ptr] = c]
    BY DEF Wrap
  <1>2. /\ screen' \in Nat /\ start_reg' = screen' /\ screen' + SCR_SIZE <= MEM_END
        /\ y' \in Nat /\ y' < HEIGHT
        /\ LineBelow = screen' + y' * ROW_SIZE + x
    BY <1>1, LineFeedKeeps
  <1>3. memory' \in [Cell -> Text \cup {Blank}]
    BY <1>1, ScrollTypes DEF ScreenInv
  <1>4. /\ UNCHANGED <<cursor_reg, writing>>
        /\ left \in Nat /\ left > 0 /\ left' = left - 1 /\ ptr' = ptr + 1
    BY DEF Wrap, Take, ScreenInv, TypeOK
  <1>5. x = WIDTH /\ WIDTH \in Nat \ {0} /\ ROW_SIZE = WIDTH
    BY ConsoleAssumption DEF ScreenInv, TypeOK, CursorIsOnScreen, Wrap, ROW_SIZE
  <1>6. y' * ROW_SIZE \in Nat
    BY <1>2, RowsFit
  <1>7. x' = 1
    BY <1>5 DEF Wrap
  <1>8. pos' = screen' + y' * ROW_SIZE + x'
    BY <1>2, <1>5, <1>6, <1>7, Sizes DEF Wrap
  <1>9. x' \in Nat /\ x' <= WIDTH /\ pos' \in Nat
    <2>1. screen' + y' * ROW_SIZE + 1 \in Nat
      BY <1>2, <1>6
    <2> QED BY <1>5, <1>7, <1>8, <2>1
  <1>10. TypeOK'
    BY <1>2, <1>3, <1>4, <1>9, ConsoleAssumption DEF ScreenInv, TypeOK
  <1> QED BY <1>2, <1>8, <1>9, <1>10 DEF ScreenInv, CursorIsOnScreen, WindowInMemory, MEM_END

LEMMA WriteKeeps ==
  ASSUME ScreenInv, NEW count \in 0 .. MaxCount, Begin(count) \/ End PROVE ScreenInv'
  <1>1. UNCHANGED <<screen, pos, x, y, memory, start_reg>>
    BY DEF Begin, End, crt
  <1>2. CursorIsOnScreen' /\ WindowInMemory'
    BY <1>1 DEF ScreenInv, CursorIsOnScreen, WindowInMemory, MEM_END
  <1>3. pos \in Nat /\ pos <= MEM_SIZE
    BY CursorInCell
  <1>4. memory' \in [Cell -> Text \cup {Blank}]
    BY <1>1 DEF ScreenInv, TypeOK
  <1>5. ASSUME Begin(count) PROVE TypeOK'
    <2>1. left' \in Nat /\ ptr' \in Nat /\ ptr' + left' <= MEM_SIZE + MaxCount
      BY <1>3, <1>5, ConsoleAssumption DEF Begin
    <2>2. writing' \in BOOLEAN /\ cursor_reg' = cursor_reg
      BY <1>5 DEF Begin, crt
    <2> QED BY <1>1, <1>4, <2>1, <2>2 DEF ScreenInv, TypeOK
  <1>6. ASSUME End PROVE TypeOK'
    <2>1. writing' \in BOOLEAN /\ cursor_reg' \in Nat /\ UNCHANGED <<ptr, left>>
      BY <1>3, <1>6 DEF End
    <2> QED BY <1>1, <1>4, <2>1 DEF ScreenInv, TypeOK
  <1>7. TypeOK'
    BY <1>5, <1>6
  <1> QED BY <1>2, <1>7 DEF ScreenInv

LEMMA NextKeeps == ScreenInv /\ [Next]_vars => ScreenInv'
  <1> SUFFICES ASSUME ScreenInv, [Next]_vars PROVE ScreenInv'
    OBVIOUS
  <1>1. ASSUME NEW count \in 0 .. MaxCount, Begin(count) PROVE ScreenInv'
    BY <1>1, WriteKeeps
  <1>2. CASE End
    <2>1. 0 \in 0 .. MaxCount
      BY ConsoleAssumption
    <2> QED BY <1>2, <2>1, WriteKeeps
  <1>3. CASE Ignored \/ Cr \/ Bs \/ BsAtMargin \/ Del
    BY <1>3, ControlKeeps
  <1>4. CASE Lf \/ Ff
    BY <1>4, FeedKeeps
  <1>5. ASSUME NEW c \in Text, Put(c) \/ Wrap(c) PROVE ScreenInv'
    BY <1>5, PutKeeps, WrapKeeps
  <1>6. CASE UNCHANGED vars
    BY <1>6 DEF vars, crt, ScreenInv, TypeOK, CursorIsOnScreen, WindowInMemory, MEM_END
  <1> QED BY <1>1, <1>2, <1>3, <1>4, <1>5, <1>6 DEF Next

-----------------------------------------------------------------------------

\* console_write keeps the cursor at its row and column, whatever it writes.
THEOREM CursorStaysOnScreen == Spec => []CursorIsOnScreen
  <1>1. ScreenInv => CursorIsOnScreen
    BY DEF ScreenInv
  <1> QED BY <1>1, InitHolds, NextKeeps, PTL DEF Spec

\* scroll_up keeps the window inside the video memory and the CRT at its start.
THEOREM WindowStaysInMemory == Spec => []WindowInMemory
  <1>1. ScreenInv => WindowInMemory
    BY DEF ScreenInv
  <1> QED BY <1>1, InitHolds, NextKeeps, PTL DEF Spec

-----------------------------------------------------------------------------
(* The window on the memory is the terminal.                                 *)

Grid(mem, start) == [p \in 0 .. SCR_SIZE - 1 |-> mem[start + p]]

Stored(mem, a, char) == [mem EXCEPT ![a] = char]

\* between two writes the CRT has the cursor
CursorIsShown == ~ writing => cursor_reg = pos

LEMMA Layout ==
  ASSUME ScreenInv
  PROVE  /\ screen \in Nat /\ x \in Nat /\ y \in Nat /\ pos \in Nat /\ ptr \in Nat
         /\ start_reg = screen /\ x <= WIDTH /\ y < HEIGHT /\ y + 1 <= HEIGHT
         /\ screen + SCR_SIZE <= MEM_SIZE /\ MEM_SIZE \in Nat /\ HEIGHT \in Nat
         /\ WIDTH \in Nat /\ WIDTH > 0 /\ SCR_SIZE \in Nat
         /\ y * WIDTH \in Nat /\ y * WIDTH + WIDTH <= SCR_SIZE
         /\ pos = screen + y * WIDTH + x
         /\ 2 * SCR_SIZE + WIDTH <= MEM_SIZE
         /\ y + 1 = HEIGHT => y * WIDTH + WIDTH = SCR_SIZE
         /\ memory \in [Cell -> Text \cup {Blank}]
<1>1. /\ screen \in Nat /\ x \in Nat /\ y \in Nat /\ pos \in Nat /\ ptr \in Nat
      /\ memory \in [Cell -> Text \cup {Blank}]
  BY DEF ScreenInv, TypeOK
<1>2. /\ HEIGHT \in Nat /\ MEM_SIZE \in Nat /\ WIDTH \in Nat /\ WIDTH > 0
      /\ 2 * SCR_SIZE + WIDTH <= MEM_SIZE
  BY ConsoleAssumption DEF ROW_SIZE
<1>3. /\ start_reg = screen /\ x <= WIDTH /\ y < HEIGHT
      /\ screen + SCR_SIZE <= MEM_SIZE /\ pos = screen + y * WIDTH + x
  BY DEF ScreenInv, CursorIsOnScreen, WindowInMemory, ROW_SIZE, MEM_END
<1>4. y * WIDTH \in Nat /\ y * WIDTH + WIDTH <= SCR_SIZE /\ SCR_SIZE \in Nat
  BY <1>1, <1>3, RowsFit, Sizes DEF ROW_SIZE
<1>5. (y + 1) * WIDTH = y * WIDTH + WIDTH
  BY <1>1, NextRow DEF ROW_SIZE
<1>6. y + 1 = HEIGHT => y * WIDTH + WIDTH = SCR_SIZE
  <2>1. SCR_SIZE = HEIGHT * WIDTH
    BY <1>2 DEF SCR_SIZE
  <2>2. QED
    BY <1>5, <2>1
<1>7. y + 1 <= HEIGHT
  BY <1>1, <1>2, <1>3
<1>8. QED
  BY <1>1, <1>2, <1>3, <1>4, <1>6, <1>7

\* a store changes one place of the window, or none
LEMMA StoreShows ==
  ASSUME NEW mem \in [Cell -> Text \cup {Blank}], NEW after, NEW start \in Nat, NEW place \in Int,
         NEW char, after = Stored(mem, start + place, char), start + SCR_SIZE <= MEM_SIZE
  PROVE  /\ place \in 0 .. SCR_SIZE - 1 =>
              Grid(after, start) = Stored(Grid(mem, start), place, char)
         /\ place \notin 0 .. SCR_SIZE - 1 => Grid(after, start) = Grid(mem, start)
<1>1. ASSUME NEW p \in 0 .. SCR_SIZE - 1
      PROVE  after[start + p] = IF p = place THEN char ELSE mem[start + p]
  <2>1. start + p \in Cell /\ (start + p = start + place <=> p = place)
    BY ConsoleAssumption, Sizes DEF Cell
  <2>2. QED
    BY <2>1 DEF Stored
<1>2. place \in 0 .. SCR_SIZE - 1 => Grid(after, start) = Stored(Grid(mem, start), place, char)
  BY <1>1 DEF Grid, Stored
<1>3. place \notin 0 .. SCR_SIZE - 1 => Grid(after, start) = Grid(mem, start)
  BY <1>1 DEF Grid
<1>4. QED
  BY <1>2, <1>3

\* a line feed shows the rows one up, and an erased one below them
LEMMA FeedShows ==
  ASSUME ScreenInv, command_lf
  PROVE  /\ y' = IF y + 1 = HEIGHT THEN y ELSE y + 1
         /\ AfterLf \in [Cell -> Text \cup {Blank}]
         /\ \A p \in 0 .. SCR_SIZE - 1 :
              AfterLf[start_reg' + p] =
                IF y + 1 # HEIGHT THEN memory[start_reg + p]
                ELSE IF p + WIDTH \in 0 .. SCR_SIZE - 1 THEN memory[start_reg + (p + WIDTH)]
                ELSE Blank
<1>1. /\ screen \in Nat /\ y \in Nat /\ HEIGHT \in Nat /\ y + 1 <= HEIGHT
      /\ start_reg = screen /\ screen + SCR_SIZE <= MEM_SIZE /\ SCR_SIZE \in Nat
      /\ WIDTH \in Nat /\ WIDTH > 0 /\ MEM_SIZE \in Nat /\ 2 * SCR_SIZE + WIDTH <= MEM_SIZE
      /\ y * WIDTH \in Nat /\ y * WIDTH + WIDTH <= SCR_SIZE
      /\ memory \in [Cell -> Text \cup {Blank}]
  BY Layout
<1>2. (y + 1 < HEIGHT) <=> (y + 1 # HEIGHT)
  BY <1>1
<1>3. AfterLf \in [Cell -> Text \cup {Blank}]
  BY ScrollTypes DEF ScreenInv
<1>4. CASE y + 1 # HEIGHT
  <2>1. AfterLf = memory /\ start_reg' = start_reg /\ y' = y + 1
    BY <1>2, <1>4 DEF AfterLf, command_lf
  <2>2. QED
    BY <1>3, <1>4, <2>1
<1>5. CASE y + 1 = HEIGHT
  <2>1. AfterLf = ScrolledMemory /\ start_reg' = ScrolledStart /\ y' = y
    BY <1>2, <1>5 DEF AfterLf, command_lf
  <2>2. ASSUME NEW p \in 0 .. SCR_SIZE - 1
        PROVE  AfterLf[start_reg' + p] = IF p + WIDTH \in 0 .. SCR_SIZE - 1
                                         THEN memory[screen + (p + WIDTH)] ELSE Blank
    <3>1. CASE AtEnd
      <4>1. start_reg' = WIDTH
        BY <1>1, <2>1, <3>1 DEF ScrolledStart, ROW_SIZE
      <4>2. AfterLf = Erased(Copied, 0)
        BY <2>1, <3>1 DEF ScrolledMemory
      <4>3. WIDTH + p \in Cell
        BY <1>1, ConsoleAssumption DEF Cell, ROW_SIZE
      <4>4. AfterLf[WIDTH + p] = IF WIDTH + p \in SCR_SIZE .. SCR_SIZE + 2 * WIDTH - 1 THEN Blank
                                 ELSE Copied[WIDTH + p]
        <5>1. 0 + SCR_SIZE = SCR_SIZE
          BY <1>1
        <5>2. QED
          BY <4>2, <4>3, <5>1 DEF Erased, ROW_SIZE
      <4>5. Copied[WIDTH + p] = IF WIDTH + p < SCR_SIZE THEN memory[screen + (WIDTH + p)]
                                ELSE memory[WIDTH + p]
        BY <4>3 DEF Copied
      <4>6. WIDTH + p = p + WIDTH
        BY <1>1
      <4>7. CASE p + WIDTH \in 0 .. SCR_SIZE - 1
        <5>1. WIDTH + p < SCR_SIZE /\ WIDTH + p \notin SCR_SIZE .. SCR_SIZE + 2 * WIDTH - 1
          BY <1>1, <4>7
        <5>2. QED
          BY <4>1, <4>4, <4>5, <4>6, <4>7, <5>1
      <4>8. CASE p + WIDTH \notin 0 .. SCR_SIZE - 1
        <5>1. WIDTH + p \in SCR_SIZE .. SCR_SIZE + 2 * WIDTH - 1
          BY <1>1, <4>8
        <5>2. QED
          BY <4>1, <4>4, <4>8, <5>1
      <4>9. QED
        BY <4>7, <4>8
    <3>2. CASE ~ AtEnd
      <4>1. start_reg' = screen + WIDTH
        BY <2>1, <3>2 DEF ScrolledStart, ROW_SIZE
      <4>2. AfterLf = Erased(memory, screen)
        BY <2>1, <3>2 DEF ScrolledMemory
      <4> DEFINE c == screen + WIDTH + p
      <4>3. c \in Cell
        BY <1>1, ConsoleAssumption DEF Cell, ROW_SIZE
      <4>4. AfterLf[c] = IF c \in screen + SCR_SIZE .. screen + SCR_SIZE + 2 * WIDTH - 1 THEN Blank
                         ELSE memory[c]
        BY <4>2, <4>3 DEF Erased, ROW_SIZE
      <4>5. c = screen + (p + WIDTH)
        BY <1>1
      <4>6. p + WIDTH \in 0 .. SCR_SIZE - 1
              <=> c \notin screen + SCR_SIZE .. screen + SCR_SIZE + 2 * WIDTH - 1
        BY <1>1
      <4>7. QED
        BY <4>1, <4>4, <4>5, <4>6
    <3>3. QED
      BY <3>1, <3>2
  <2>3. QED
    BY <1>1, <1>3, <1>5, <2>1, <2>2
<1>6. QED
  BY <1>4, <1>5

-----------------------------------------------------------------------------
(* The steps of console_write are those of the terminal.                     *)

LEMMA BeginShows ==
  ASSUME ScreenInv, CursorIsShown, NEW count \in 0 .. MaxCount, Begin(count)
  PROVE  Shown!Begin
<1>1. /\ ~ writing /\ writing' = TRUE /\ ptr' = pos' /\ UNCHANGED <<memory, x, y, start_reg>>
  BY DEF Begin, crt
<1>2. cursor_reg - start_reg # -1
  <2>1. cursor_reg = screen + y * WIDTH + x /\ start_reg = screen
    BY <1>1, Layout DEF CursorIsShown
  <2>2. screen \in Nat /\ x \in Nat /\ y * WIDTH \in Nat
    BY Layout
  <2>3. QED
    BY <2>1, <2>2
<1>3. QED
  BY <1>1, <1>2 DEF Shown!Begin, Shown!NoCursor

LEMMA EndShows ==
  ASSUME ScreenInv, End
  PROVE  Shown!End
<1>1. /\ writing /\ writing' = FALSE /\ cursor_reg' = pos
      /\ UNCHANGED <<memory, x, y, start_reg>>
  BY DEF End
<1>2. cursor_reg' - start_reg' = y * WIDTH + x
  <2>1. pos = screen + y * WIDTH + x /\ start_reg = screen
        /\ screen \in Nat /\ x \in Nat /\ y * WIDTH \in Nat
    BY Layout
  <2>2. QED
    BY <1>1, <2>1
<1>3. QED
  BY <1>1, <1>2 DEF Shown!End, Shown!NoCursor, Shown!Here

LEMMA IgnoredShows ==
  ASSUME Ignored \/ BsAtMargin
  PROVE  UNCHANGED Shown!vars
BY DEF Ignored, BsAtMargin, Take, Shown!vars

LEMMA CrShows ==
  ASSUME Cr
  PROVE  Shown!Return
BY DEF Cr, Take, Shown!Return, Shown!Control, Shown!NoCursor

LEMMA FeedIsLineFeed ==
  ASSUME ScreenInv, Lf \/ Ff
  PROVE  Shown!LineFeed
<1>1. /\ command_lf /\ memory' = AfterLf /\ x' \in {0, x} /\ writing /\ writing'
  BY DEF Lf, Ff, Take
<1>2. /\ y' = IF y + 1 = HEIGHT THEN y ELSE y + 1
      /\ \A p \in 0 .. SCR_SIZE - 1 :
              AfterLf[start_reg' + p] =
                IF y + 1 # HEIGHT THEN memory[start_reg + p]
                ELSE IF p + WIDTH \in 0 .. SCR_SIZE - 1 THEN memory[start_reg + (p + WIDTH)]
                ELSE Blank
  BY <1>1, FeedShows
<1> DEFINE grid == [p \in 0 .. SCR_SIZE - 1 |-> memory[start_reg + p]]
           page == IF y + 1 = HEIGHT
                   THEN [p \in 0 .. SCR_SIZE - 1 |->
                           IF p + WIDTH \in 0 .. SCR_SIZE - 1 THEN grid[p + WIDTH] ELSE Blank]
                   ELSE grid
<1>3. grid' = page
  BY <1>1, <1>2
<1>4. Shown!Page = page
  BY DEF Shown!Page, Shown!Last, Shown!Scrolled, Shown!Place, SCR_SIZE
<1>5. grid' = Shown!Page
  BY <1>3, <1>4
<1>6. Shown!Control
  BY <1>1 DEF Shown!Control, Shown!NoCursor
<1>7. Shown!Down
  BY <1>2 DEF Shown!Down, Shown!Last
<1>8. QED
  BY <1>1, <1>5, <1>6, <1>7 DEF Shown!LineFeed

LEMMA BsShows ==
  ASSUME ScreenInv, Bs
  PROVE  Shown!BackSpace
<1>1. /\ x > 0 /\ x' = x - 1 /\ memory' = [memory EXCEPT ![pos - 1] = Blank]
      /\ UNCHANGED <<y, start_reg>> /\ writing /\ writing'
  BY DEF Bs, Take
<1> DEFINE place == y * WIDTH + (x - 1)
<1>2. /\ pos - 1 \in Nat /\ place = (pos - 1) - start_reg /\ place \in 0 .. SCR_SIZE - 1
      /\ start_reg \in Nat /\ start_reg + SCR_SIZE <= MEM_SIZE
      /\ memory \in [Cell -> Text \cup {Blank}]
  <2>1. /\ screen \in Nat /\ x \in Nat /\ x <= WIDTH /\ start_reg = screen /\ WIDTH \in Nat
        /\ y * WIDTH \in Nat /\ y * WIDTH + WIDTH <= SCR_SIZE /\ SCR_SIZE \in Nat
        /\ pos = screen + y * WIDTH + x /\ screen + SCR_SIZE <= MEM_SIZE
        /\ memory \in [Cell -> Text \cup {Blank}]
    BY Layout
  <2>2. (pos - 1) - start_reg = place /\ place \in 0 .. SCR_SIZE - 1 /\ pos - 1 \in Nat
    BY <1>1, <2>1
  <2>3. QED
    BY <2>1, <2>2
<1>3. Grid(memory', start_reg) = Stored(Grid(memory, start_reg), place, Blank)
  <2>1. memory' = Stored(memory, start_reg + place, Blank) /\ place \in Int
    <3>1. pos - 1 = start_reg + place /\ place \in Int
      BY <1>2
    <3> HIDE DEF place
    <3>2. QED
      BY <1>1, <3>1 DEF Stored
  <2> HIDE DEF place
  <2>2. QED
    BY <1>2, <2>1, StoreShows
<1>4. Shown!Control
  BY <1>1 DEF Shown!Control, Shown!NoCursor
<1>5. QED
  BY <1>1, <1>3, <1>4 DEF Shown!BackSpace, Shown!Here, Grid, Stored

LEMMA DelShows ==
  ASSUME ScreenInv, Del
  PROVE  Shown!Delete
<1>1. /\ memory' = [memory EXCEPT ![pos] = Blank]
      /\ UNCHANGED <<x, y, start_reg>> /\ writing /\ writing'
  BY DEF Del, Take
<1> DEFINE place == y * WIDTH + x
           grid == [p \in 0 .. SCR_SIZE - 1 |-> memory[start_reg + p]]
<1>2. /\ pos \in Nat /\ place = pos - start_reg
      /\ start_reg \in Nat /\ start_reg + SCR_SIZE <= MEM_SIZE
      /\ memory \in [Cell -> Text \cup {Blank}]
  BY Layout
<1>3. Grid(memory', start_reg) = [p \in 0 .. SCR_SIZE - 1 |->
                                     IF p = place THEN Blank ELSE Grid(memory, start_reg)[p]]
  <2>0. memory' = Stored(memory, start_reg + place, Blank) /\ place \in Int
    <3>1. pos = start_reg + place /\ place \in Int
      BY <1>2
    <3> HIDE DEF place
    <3>2. QED
      BY <1>1, <3>1 DEF Stored
  <2> HIDE DEF place, grid
  <2>1. CASE place \in 0 .. SCR_SIZE - 1
    <3>1. Grid(memory', start_reg) = Stored(Grid(memory, start_reg), place, Blank)
      BY <1>2, <2>0, <2>1, StoreShows
    <3>2. QED
      BY <3>1 DEF Grid, Stored
  <2>2. CASE place \notin 0 .. SCR_SIZE - 1
    <3>1. Grid(memory', start_reg) = Grid(memory, start_reg)
      BY <1>2, <2>0, <2>2, StoreShows
    <3>2. QED
      BY <2>2, <3>1 DEF Grid
  <2>3. QED
    BY <2>1, <2>2
<1>4. grid' = [p \in 0 .. SCR_SIZE - 1 |-> IF p = place THEN Blank ELSE grid[p]]
  BY <1>1, <1>3 DEF Grid
<1>5. Shown!Control
  BY <1>1 DEF Shown!Control, Shown!NoCursor
<1>6. QED
  BY <1>1, <1>4, <1>5 DEF Shown!Delete, Shown!Here, Shown!Place, SCR_SIZE

\* what a store of a character shows, of a write that has gone astray or not
StoreSeen(page, place, char) ==
  IF writing /\ ptr # pos
  THEN \/ Grid(memory', start_reg') = page
       \/ \E p \in 0 .. SCR_SIZE - 1 : Grid(memory', start_reg') = Stored(page, p, char)
  ELSE Grid(memory', start_reg') = Stored(page, place, char)

LEMMA PutShows ==
  ASSUME ScreenInv, NEW c \in Text, Put(c)
  PROVE  Shown!Put(c)
<1>1. /\ x < WIDTH /\ x' = x + 1 /\ memory' = [memory EXCEPT ![ptr] = c]
      /\ UNCHANGED <<y, start_reg>> /\ writing /\ writing'
      /\ ptr' = ptr + 1 /\ pos' = pos + 1
  BY DEF Put, Take
<1> DEFINE place == ptr - start_reg
<1>2. /\ ptr \in Nat /\ pos \in Nat /\ start_reg \in Nat /\ start_reg + SCR_SIZE <= MEM_SIZE
      /\ memory \in [Cell -> Text \cup {Blank}]
      /\ ptr = pos => place = y * WIDTH + x /\ place \in 0 .. SCR_SIZE - 1
  <2>1. /\ screen \in Nat /\ x \in Nat /\ start_reg = screen /\ WIDTH \in Nat
        /\ y * WIDTH \in Nat /\ y * WIDTH + WIDTH <= SCR_SIZE /\ SCR_SIZE \in Nat
        /\ pos = screen + y * WIDTH + x /\ screen + SCR_SIZE <= MEM_SIZE
        /\ ptr \in Nat /\ pos \in Nat /\ memory \in [Cell -> Text \cup {Blank}]
    BY Layout
  <2>2. ptr = pos => place = y * WIDTH + x /\ place \in 0 .. SCR_SIZE - 1
    BY <1>1, <2>1
  <2>3. QED
    BY <2>1, <2>2
<1>3. StoreSeen(Grid(memory, start_reg), y * WIDTH + x, c)
  <2>1. /\ place \in 0 .. SCR_SIZE - 1 =>
             Grid(memory', start_reg) = Stored(Grid(memory, start_reg), place, c)
        /\ place \notin 0 .. SCR_SIZE - 1 => Grid(memory', start_reg) = Grid(memory, start_reg)
    <3>1. memory' = Stored(memory, start_reg + place, c) /\ place \in Int
      <4>1. ptr = start_reg + place /\ place \in Int
        BY <1>2
      <4> HIDE DEF place
      <4>2. QED
        BY <1>1, <4>1 DEF Stored
    <3> HIDE DEF place
    <3>2. QED
      BY <1>2, <3>1, StoreShows
  <2> HIDE DEF place
  <2>2. QED
    BY <1>1, <1>2, <2>1 DEF StoreSeen
<1>4. (writing /\ ptr # pos)' = (writing /\ ptr # pos)
  BY <1>1, <1>2
<1>5. QED
  BY <1>1, <1>3, <1>4 DEF StoreSeen, Grid, Stored, Shown!Put, Shown!Shows, Shown!Here, Shown!NoCursor,
     Shown!Place, SCR_SIZE

LEMMA WrapShows ==
  ASSUME ScreenInv, NEW c \in Text, Wrap(c)
  PROVE  Shown!Wrap(c)
<1>1. /\ x >= WIDTH /\ command_lf /\ memory' = Stored(AfterLf, ptr, c) /\ writing /\ writing'
      /\ ptr' = ptr + 1 /\ pos' = LineBelow - WIDTH + 1 /\ x' = x - WIDTH + 1
  BY DEF Wrap, Take, ROW_SIZE, Stored
<1>2. /\ screen \in Nat /\ x \in Nat /\ y \in Nat /\ pos \in Nat /\ ptr \in Nat /\ start_reg = screen
      /\ x <= WIDTH /\ y + 1 <= HEIGHT /\ HEIGHT \in Nat
      /\ screen + SCR_SIZE <= MEM_SIZE /\ MEM_SIZE \in Nat
      /\ WIDTH \in Nat /\ WIDTH > 0 /\ SCR_SIZE \in Nat
      /\ y * WIDTH \in Nat /\ y * WIDTH + WIDTH <= SCR_SIZE
      /\ pos = screen + y * WIDTH + x /\ 2 * SCR_SIZE + WIDTH <= MEM_SIZE
      /\ y + 1 = HEIGHT => y * WIDTH + WIDTH = SCR_SIZE
  BY Layout
<1>3. x = WIDTH /\ x' = 1
  BY <1>1, <1>2
<1>4. /\ y' = IF y + 1 = HEIGHT THEN y ELSE y + 1
      /\ AfterLf \in [Cell -> Text \cup {Blank}]
      /\ \A p \in 0 .. SCR_SIZE - 1 :
              AfterLf[start_reg' + p] =
                IF y + 1 # HEIGHT THEN memory[start_reg + p]
                ELSE IF p + WIDTH \in 0 .. SCR_SIZE - 1 THEN memory[start_reg + (p + WIDTH)]
                ELSE Blank
  BY <1>1, FeedShows
<1>5. start_reg' \in Nat /\ start_reg' + SCR_SIZE <= MEM_SIZE
  BY <1>1, LineFeedKeeps DEF MEM_END
<1> DEFINE page == Grid(AfterLf, start_reg')
           place == ptr - start_reg'
<1>6. page = Shown!Page
  BY <1>4 DEF Grid, Shown!Page, Shown!Last, Shown!Scrolled, Shown!Place, SCR_SIZE
<1>7. /\ place \in 0 .. SCR_SIZE - 1 => Grid(memory', start_reg') = Stored(page, place, c)
      /\ place \notin 0 .. SCR_SIZE - 1 => Grid(memory', start_reg') = page
  <2>1. memory' = Stored(AfterLf, start_reg' + place, c) /\ place \in Int
    <3>1. ptr \in Nat /\ start_reg' \in Nat
      BY <1>2, <1>5
    <3>2. \A n, m \in Nat : n = m + (n - m) /\ n - m \in Int
      OBVIOUS
    <3>3. ptr = start_reg' + place /\ place \in Int
      BY <3>1, <3>2
    <3> HIDE DEF place
    <3>4. QED
      BY <1>1, <3>3
  <2> HIDE DEF place
  <2>2. AfterLf \in [Cell -> Text \cup {Blank}]
    BY <1>4
  <2>3. QED
    BY <1>5, <2>1, <2>2, StoreShows
<1> HIDE DEF page
<1>8. /\ y + 1 # HEIGHT \/ ~ AtEnd => pos' = pos + 1
      /\ y + 1 = HEIGHT /\ AtEnd => pos' = pos - screen + 1 /\ start_reg' = WIDTH /\ screen >= SCR_SIZE
      /\ y + 1 = HEIGHT /\ ~ AtEnd => start_reg' = screen + WIDTH
      /\ y + 1 # HEIGHT => start_reg' = screen
  <2>1. (y + 1 < HEIGHT) <=> (y + 1 # HEIGHT)
    BY <1>2
  <2>2. LineBelow = IF y + 1 # HEIGHT \/ ~ AtEnd THEN pos + WIDTH ELSE pos - screen + WIDTH
    BY <2>1 DEF LineBelow, ROW_SIZE
  <2>3. start_reg' = IF y + 1 # HEIGHT THEN screen ELSE (IF AtEnd THEN 0 ELSE screen) + WIDTH
    BY <1>1, <1>2, <2>1 DEF command_lf, ScrolledStart, ROW_SIZE
  <2>4. AtEnd => screen >= SCR_SIZE
    BY <1>2 DEF AtEnd, MEM_END, ROW_SIZE
  <2> HIDE DEF place
  <2>5. QED
    BY <1>1, <1>2, <2>2, <2>3, <2>4
<1>9. y' * WIDTH = IF y + 1 = HEIGHT THEN y * WIDTH ELSE y * WIDTH + WIDTH
  <2>1. (y + 1) * WIDTH = y * WIDTH + WIDTH
    BY <1>2, NextRow DEF ROW_SIZE
  <2>2. QED
    BY <1>4, <2>1
<1>10. y + 1 # HEIGHT => y * WIDTH + WIDTH + WIDTH <= SCR_SIZE
  <2>1. ASSUME y + 1 # HEIGHT PROVE y * WIDTH + WIDTH + WIDTH <= SCR_SIZE
    <3>1. y + 1 \in Nat /\ y + 1 < HEIGHT
      BY <1>2, <2>1
    <3>2. (y + 1) * WIDTH + WIDTH <= SCR_SIZE /\ (y + 1) * WIDTH = y * WIDTH + WIDTH
      BY <1>2, <3>1, RowsFit, NextRow DEF ROW_SIZE
    <3>3. QED
      BY <3>2
  <2>2. QED
    BY <2>1
<1> DEFINE astray == writing /\ ptr # pos
           grid == Grid(memory, start_reg)
\* where the character comes to lie
<1>11. CASE ptr = pos /\ y + 1 = HEIGHT /\ AtEnd
  <2>1. place \notin 0 .. SCR_SIZE - 1 /\ ptr' # pos'
    BY <1>1, <1>2, <1>3, <1>8, <1>11
  <2>2. Grid(memory', start_reg') = page /\ astray' = TRUE
    BY <1>1, <1>7, <2>1
  <2>3. QED
    BY <1>1, <1>3, <1>4, <1>6, <1>11, <2>2 DEF Grid, Shown!Wrap, Shown!NoCursor, Shown!Down, Shown!Last
<1>12. CASE ptr = pos /\ ~ (y + 1 = HEIGHT /\ AtEnd)
  <2>1. place = y' * WIDTH /\ place \in 0 .. SCR_SIZE - 1 /\ ptr' = pos'
    BY <1>1, <1>2, <1>3, <1>8, <1>9, <1>10, <1>12
  <2>2. Grid(memory', start_reg') = Stored(page, y' * WIDTH, c) /\ astray = FALSE /\ astray' = FALSE
    BY <1>7, <1>12, <2>1
  <2>3. y' * WIDTH + 0 = y' * WIDTH
    BY <1>2, <1>9
  <2>4. Shown!Shows(Shown!Page, y', 0, c)
    BY <1>6, <1>12, <2>2, <2>3 DEF Grid, Stored, Shown!Shows, Shown!Here
  <2>5. QED
    BY <1>1, <1>3, <1>4, <2>2, <2>4 DEF Shown!Wrap, Shown!NoCursor, Shown!Down, Shown!Last
<1>13. CASE ptr # pos
  <2>1. y + 1 # HEIGHT => ptr' # pos'
    BY <1>1, <1>2, <1>8, <1>13
  <2>2. astray' \in {astray, astray /\ y + 1 # HEIGHT}
    BY <1>1, <1>13, <2>1
  <2>3. \/ Grid(memory', start_reg') = page
        \/ \E p \in 0 .. SCR_SIZE - 1 : Grid(memory', start_reg') = Stored(page, p, c)
    BY <1>7
  <2>4. Shown!Shows(Shown!Page, y', 0, c)
    BY <1>1, <1>6, <1>13, <2>3 DEF Grid, Stored, Shown!Shows, Shown!Place, SCR_SIZE
  <2>5. QED
    BY <1>1, <1>3, <1>4, <2>2, <2>4 DEF Shown!Wrap, Shown!NoCursor, Shown!Down, Shown!Last
<1>14. QED
  BY <1>11, <1>12, <1>13

LEMMA InitShows == Init => Shown!Init
<1> SUFFICES ASSUME Init PROVE Shown!Init
  OBVIOUS
<1>1. \A p \in 0 .. SCR_SIZE - 1 : start_reg + p \in Cell
  BY Sizes, ConsoleAssumption DEF Init, Cell
<1>2. [p \in 0 .. SCR_SIZE - 1 |-> memory[start_reg + p]] = [p \in Shown!Place |-> Blank]
  BY <1>1 DEF Init, Shown!Place, SCR_SIZE
<1>3. QED
  BY <1>2 DEF Init, Shown!Init

LEMMA StepShows ==
  ASSUME ScreenInv, CursorIsShown, [Next]_vars
  PROVE  CursorIsShown' /\ [Shown!Next]_(Shown!vars)
<1>1. ASSUME NEW count \in 0 .. MaxCount, Begin(count) PROVE CursorIsShown' /\ Shown!Begin
  BY <1>1, BeginShows DEF CursorIsShown, Begin
<1>2. CASE End
  BY <1>2, EndShows DEF CursorIsShown, End, Shown!Next
<1>3. ASSUME writing, writing' PROVE CursorIsShown'
  BY <1>3 DEF CursorIsShown
<1>4. CASE Ignored \/ BsAtMargin
  BY <1>3, <1>4, IgnoredShows DEF Ignored, BsAtMargin, Take
<1>5. CASE Cr
  BY <1>3, <1>5, CrShows DEF Cr, Take, Shown!Next
<1>6. CASE Lf \/ Ff
  BY <1>3, <1>6, FeedIsLineFeed DEF Lf, Ff, Take, Shown!Next
<1>7. CASE Bs
  BY <1>3, <1>7, BsShows DEF Bs, Take, Shown!Next
<1>8. CASE Del
  BY <1>3, <1>8, DelShows DEF Del, Take, Shown!Next
<1>9. ASSUME NEW c \in Text, Put(c) \/ Wrap(c) PROVE CursorIsShown' /\ Shown!Next
  BY <1>3, <1>9, PutShows, WrapShows DEF Put, Wrap, Take, Shown!Next
<1>10. CASE UNCHANGED vars
  BY <1>10 DEF vars, crt, CursorIsShown, Shown!vars
<1>11. ASSUME Shown!Begin PROVE Shown!Next
  BY <1>11 DEF Shown!Next
<1>12. QED
  BY <1>1, <1>2, <1>4, <1>5, <1>6, <1>7, <1>8, <1>9, <1>10, <1>11 DEF Next

\* What console_write leaves in the video memory and the CRT is the screen its writers count on.
THEOREM ConsoleIsTerminal == Spec => IsTerminal
<1>1. Init => CursorIsShown
  BY DEF Init, CursorIsShown
<1>2. QED
  BY <1>1, InitHolds, NextKeeps, InitShows, StepShows, PTL DEF Spec, IsTerminal, Shown!Spec

-----------------------------------------------------------------------------
(* The text of a format.                                                     *)

\* a set with 0 in it and with the successors of its members has all natural numbers
LEMMA Induction ==
  ASSUME NEW S, 0 \in S, \A n \in Nat : n \in S => n + 1 \in S
  PROVE  \A n \in Nat : n \in S
<1> DEFINE less == {ss \in Nat \X Nat : ss[1] < ss[2]}
<1>1. IsWellFoundedOn(less, Nat)
  BY NatLessThanWellFounded DEF OpToRel
<1>2. \A m, n \in Nat : m < n => <<m, n>> \in less
  OBVIOUS
<1> HIDE DEF less
<1>3. ASSUME Nat \ S # {} PROVE FALSE
  <2>1. PICK n \in Nat \ S : \A m \in Nat \ S : <<m, n>> \notin less
    BY <1>1, <1>3, WFMin
  <2>2. n # 0 /\ n \in Nat
    BY <2>1
  <2>3. n - 1 \in Nat /\ n - 1 < n /\ (n - 1) + 1 = n
    BY <2>2
  <2>4. n - 1 \in S
    BY <1>2, <2>1, <2>2, <2>3
  <2>5. QED
    BY <2>1, <2>3, <2>4
<1>4. QED
  BY <1>3

\* Recursion: a step, given as a function, has a function that is made by it.
IsMade(f, n, v0, step) == f[0] = v0 /\ \A i \in 1 .. n : f[i] = step[<<i, f[i - 1]>>]

LEMMA Recursion ==
  ASSUME NEW N \in Nat, NEW V, NEW v0 \in V, NEW step \in [Nat \X V -> V]
  PROVE  \E f \in [0 .. N -> V] : IsMade(f, N, v0, step)
<1> DEFINE S == {n \in Nat : \E f \in [0 .. n -> V] : IsMade(f, n, v0, step)}
<1>1. 0 \in S
  <2> DEFINE f == [i \in 0 .. 0 |-> v0]
  <2>1. f \in [0 .. 0 -> V] /\ f[0] = v0
    OBVIOUS
  <2> HIDE DEF f
  <2>2. IsMade(f, 0, v0, step)
    BY <2>1 DEF IsMade
  <2>3. QED
    BY <2>1, <2>2
<1>2. ASSUME NEW n \in Nat, n \in S PROVE n + 1 \in S
  <2>1. PICK f \in [0 .. n -> V] : IsMade(f, n, v0, step)
    BY <1>2
  <2> DEFINE v == step[<<n + 1, f[n]>>]
             g == [i \in 0 .. n + 1 |-> IF i = n + 1 THEN v ELSE f[i]]
  <2>2. v \in V
    <3>1. <<n + 1, f[n]>> \in Nat \X V
      OBVIOUS
    <3>2. QED
      BY <3>1
  <2>3. g \in [0 .. n + 1 -> V] /\ g[n + 1] = v /\ \A i \in 0 .. n : g[i] = f[i]
    BY <2>2
  <2> HIDE DEF g
  <2>4. ASSUME NEW i \in 1 .. n + 1 PROVE g[i] = step[<<i, g[i - 1]>>]
    <3>1. i - 1 \in 0 .. n /\ g[i - 1] = f[i - 1]
      BY <2>3
    <3>2. CASE i = n + 1
      <4>1. i - 1 = n
        BY <3>2
      <4>2. QED
        BY <2>3, <3>1, <3>2, <4>1
    <3>3. CASE i # n + 1
      <4>1. i \in 1 .. n /\ i \in 0 .. n
        BY <3>3
      <4>2. f[i] = step[<<i, f[i - 1]>>]
        BY <2>1, <4>1 DEF IsMade
      <4>3. QED
        BY <2>3, <3>1, <4>1, <4>2
    <3>4. QED
      BY <3>2, <3>3
  <2>5. g[0] = v0
    BY <2>1, <2>3 DEF IsMade
  <2>6. n + 1 \in Nat /\ IsMade(g, n + 1, v0, step)
    BY <2>4, <2>5 DEF IsMade
  <2>7. QED
    BY <2>3, <2>6
<1>3. \A n \in Nat : n \in S
  <2> HIDE DEF S
  <2>1. QED
    BY <1>1, <1>2, Induction
<1>4. QED
  BY <1>3

\* What is flattened: the sequences up to the last one in a row.
LEMMA FlattenIs ==
  ASSUME NEW S, NEW s \in Seq(Seq(S)), s # << >>
  PROVE  \E f : /\ DOMAIN f = 1 .. Len(s)
                /\ \A i \in 1 .. Len(s) : f[i] = IF i = 1 THEN s[i] ELSE f[i - 1] \o s[i]
                /\ FlattenSeq(s) = f[Len(s)]
<1> DEFINE N == Len(s)
           step == [p \in Nat \X Seq(S) |->
                      IF p[1] \in 1 .. N THEN IF p[1] = 1 THEN s[1] ELSE p[2] \o s[p[1]]
                      ELSE << >>]
           Turn(g, i) == IF i = 1 THEN s[i] ELSE g[i - 1] \o s[i]
           flatten == CHOOSE g : g = [i \in 1 .. N |-> Turn(g, i)]
<1>1. N \in Nat /\ N # 0 /\ \A i \in 1 .. N : s[i] \in Seq(S)
  BY EmptySeq, ElementOfSeq
<1>2. step \in [Nat \X Seq(S) -> Seq(S)]
  <2>1. ASSUME NEW p \in Nat \X Seq(S) PROVE step[p] \in Seq(S)
    <3>1. p[1] \in 1 .. N => p[2] \o s[p[1]] \in Seq(S) /\ s[1] \in Seq(S)
      BY <1>1, ConcatProperties
    <3>2. << >> \in Seq(S)
      BY EmptySeq
    <3>3. QED
      BY <3>1, <3>2
  <2>2. QED
    BY <2>1
<1>3. PICK f \in [0 .. N -> Seq(S)] : \A i \in 1 .. N : f[i] = step[<<i, f[i - 1]>>]
  <2>1. << >> \in Seq(S)
    BY EmptySeq
  <2> HIDE DEF step, N
  <2>2. PICK f \in [0 .. N -> Seq(S)] : IsMade(f, N, << >>, step)
    BY <1>1, <1>2, <2>1, Recursion
  <2>3. QED
    BY <2>2, Zenon DEF IsMade
<1> DEFINE g == [i \in 1 .. N |-> f[i]]
<1>4. ASSUME NEW i \in 1 .. N PROVE f[i] = Turn(f, i)
  <2>1. i \in Nat /\ i - 1 \in 0 .. N /\ f[i - 1] \in Seq(S)
    <3> HIDE DEF N
    <3>1. QED
      BY <1>1
  <2>2. step[<<i, f[i - 1]>>] = Turn(f, i)
    BY <2>1
  <2>3. QED
    BY <1>3, <2>2
<1>5. g = [i \in 1 .. N |-> Turn(g, i)]
  <2>1. ASSUME NEW i \in 1 .. N PROVE Turn(g, i) = Turn(f, i)
    BY <1>1
  <2>2. QED
    BY <1>4, <2>1
<1>6. flatten = [i \in 1 .. N |-> Turn(flatten, i)]
  <2> HIDE DEF g, Turn
  <2>1. QED
    BY <1>5
<1>7. FlattenSeq(s) = flatten[N]
  BY <1>1, Zenon DEF FlattenSeq
<1>8. DOMAIN flatten = 1 .. N /\ \A i \in 1 .. N : flatten[i] = Turn(flatten, i)
  <2> HIDE DEF flatten, Turn
  <2>1. QED
    BY <1>6
<1> HIDE DEF flatten
<1>9. QED
  BY <1>7, <1>8

-----------------------------------------------------------------------------
(* Digits.                                                                   *)

\* a function on 1 .. n is a sequence
LEMMA FunctionIsSeq ==
  ASSUME NEW S, NEW n \in Nat, NEW t \in [1 .. n -> S]
  PROVE  t \in Seq(S) /\ Len(t) = n
<1>1. t \in Seq(S)
  BY SeqDef
<1>2. QED
  BY <1>1, LenProperties

LEMMA Characters ==
  /\ "0" \in Char /\ "1" \in Char /\ "2" \in Char /\ "3" \in Char /\ "4" \in Char
  /\ "5" \in Char /\ "6" \in Char /\ "7" \in Char /\ "8" \in Char /\ "9" \in Char
  /\ "a" \in Char /\ "b" \in Char /\ "c" \in Char /\ "d" \in Char /\ "e" \in Char /\ "f" \in Char
  /\ "A" \in Char /\ "B" \in Char /\ "C" \in Char /\ "D" \in Char /\ "E" \in Char /\ "F" \in Char
  /\ "NUL" \in Char /\ " " \in Char /\ "+" \in Char /\ "%" \in Char /\ "?" \in Char /\ "*" \in Char
  /\ "x" \in Char /\ "X" \in Char /\ "s" \in Char /\ "o" \in Char
  /\ "p" \in Char /\ "i" \in Char /\ "u" \in Char
  BY PrintfAssumption, Zenon

\* the digits from ten on
Letters(flags) ==
  IF "SMALL" \in flags THEN <<"a", "b", "c", "d", "e", "f">> ELSE <<"A", "B", "C", "D", "E", "F">>

LEMMA NumeralIs ==
  /\ Numerals[1] = "0" /\ Numerals[2] = "1" /\ Numerals[3] = "2" /\ Numerals[4] = "3"
  /\ Numerals[5] = "4" /\ Numerals[6] = "5" /\ Numerals[7] = "6" /\ Numerals[8] = "7"
  /\ Numerals[9] = "8" /\ Numerals[10] = "9"
  BY DEF Numerals

LEMMA LetterIs ==
  ASSUME NEW flags, NEW t, t = Letters(flags)
  PROVE  /\ t[1] \in {"a", "A"} /\ t[2] \in {"b", "B"} /\ t[3] \in {"c", "C"}
         /\ t[4] \in {"d", "D"} /\ t[5] \in {"e", "E"} /\ t[6] \in {"f", "F"}
<1>1. CASE "SMALL" \in flags
  BY <1>1 DEF Letters
<1>2. CASE "SMALL" \notin flags
  BY <1>2 DEF Letters
<1>3. QED
  BY <1>1, <1>2

LEMMA DigitIs ==
  ASSUME NEW flags
  PROVE  /\ digits(flags) \in Seq(Char) /\ Len(digits(flags)) = 16
         /\ \A v \in 0 .. 9 : digits(flags)[v + 1] = Numerals[v + 1]
         /\ \A v \in 10 .. 15 : digits(flags)[v + 1] = Letters(flags)[v - 9]
<1>1. Numerals \in Seq(Char) /\ Len(Numerals) = 10
  <2>1. Numerals = [i \in 1 .. 10 |-> Numerals[i]]
    BY DEF Numerals
  <2>2. \A i \in 1 .. 10 : Numerals[i] \in Char
    <3>1. ASSUME NEW i \in 1 .. 10
          PROVE  \/ i = 1 \/ i = 2 \/ i = 3 \/ i = 4 \/ i = 5
                 \/ i = 6 \/ i = 7 \/ i = 8 \/ i = 9 \/ i = 10
      OBVIOUS
    <3>2. QED
      BY <3>1, NumeralIs, Characters, Zenon
  <2>3. Numerals \in [1 .. 10 -> Char]
    BY <2>1, <2>2, Zenon
  <2>4. QED
    BY <2>3, FunctionIsSeq
<1>2. Letters(flags) \in Seq(Char) /\ Len(Letters(flags)) = 6
  <2> DEFINE t == Letters(flags)
  <2>1. t = [i \in 1 .. 6 |-> t[i]]
    BY DEF Letters
  <2> HIDE DEF t
  <2>2. \A i \in 1 .. 6 : t[i] \in Char
    <3>1. ASSUME NEW i \in 1 .. 6
          PROVE  i = 1 \/ i = 2 \/ i = 3 \/ i = 4 \/ i = 5 \/ i = 6
      OBVIOUS
    <3>2. /\ t[1] \in {"a", "A"} /\ t[2] \in {"b", "B"} /\ t[3] \in {"c", "C"}
          /\ t[4] \in {"d", "D"} /\ t[5] \in {"e", "E"} /\ t[6] \in {"f", "F"}
      BY LetterIs, Zenon DEF t
    <3>3. QED
      BY <3>1, <3>2, Characters, Zenon
  <2>3. t \in [1 .. 6 -> Char]
    BY <2>1, <2>2, Zenon
  <2>4. t \in Seq(Char) /\ Len(t) = 6
    BY <2>3, FunctionIsSeq
  <2>5. QED
    BY <2>4 DEF t
<1>3. digits(flags) = Numerals \o Letters(flags)
  BY Zenon DEF digits, Letters
<1>4. /\ digits(flags) \in Seq(Char) /\ Len(digits(flags)) = 16
      /\ \A i \in 1 .. 16 :
           digits(flags)[i] = IF i <= 10 THEN Numerals[i] ELSE Letters(flags)[i - 10]
  <2> DEFINE t == Letters(flags)
  <2>1. PICK n \in Int : n = 10 + 6 /\ n = 16
    OBVIOUS
  <2>2. /\ Numerals \o t \in Seq(Char) /\ Len(Numerals \o t) = Len(Numerals) + Len(t)
        /\ \A i \in 1 .. Len(Numerals) + Len(t) :
             (Numerals \o t)[i] = IF i <= Len(Numerals) THEN Numerals[i] ELSE t[i - Len(Numerals)]
    <3> HIDE DEF t
    <3>1. Numerals \in Seq(Char) /\ t \in Seq(Char)
      BY <1>1, <1>2, Zenon DEF t
    <3>2. QED
      BY <3>1, ConcatProperties, Zenon
  <2>3. Len(Numerals) + Len(t) = 16
    BY <1>1, <1>2
  <2>4. QED
    BY <1>1, <1>3, <2>2, <2>3, Zenon
<1>5. ASSUME NEW v \in 0 .. 9 PROVE digits(flags)[v + 1] = Numerals[v + 1]
  <2>1. v + 1 \in 1 .. 16 /\ v + 1 <= 10
    OBVIOUS
  <2>2. QED
    BY <1>4, <2>1, Zenon
<1>6. ASSUME NEW v \in 10 .. 15 PROVE digits(flags)[v + 1] = Letters(flags)[v - 9]
  <2>1. v + 1 \in 1 .. 16 /\ ~ (v + 1 <= 10) /\ (v + 1) - 10 = v - 9
    OBVIOUS
  <2>2. QED
    BY <1>4, <2>1, Zenon
<1>7. QED
  BY <1>4, <1>5, <1>6, Zenon

\* a digit has the value it stands for
LEMMA DigitReads ==
  ASSUME NEW flags, NEW v \in 0 .. 15
  PROVE  Value(digits(flags)[v + 1]) = v
<1> DEFINE ch == digits(flags)[v + 1]
           Fits(w) == IF w < 10 THEN ch = Numerals[w + 1]
                      ELSE ch \in {digits({})[w + 1], digits({"SMALL"})[w + 1]}
<1>1. Fits(v)
  <2>1. CASE v < 10
    <3>1. v \in 0 .. 9
      BY <2>1
    <3>2. ch = Numerals[v + 1]
      BY <3>1, DigitIs, Zenon
    <3>3. QED
      BY <2>1, <3>2
  <2>2. CASE v >= 10
    <3>1. v \in 10 .. 15
      BY <2>2
    <3>2. Letters(flags) = Letters({}) \/ Letters(flags) = Letters({"SMALL"})
      BY DEF Letters
    <3>3. digits(flags)[v + 1] = Letters(flags)[v - 9] /\ digits({})[v + 1] = Letters({})[v - 9]
          /\ digits({"SMALL"})[v + 1] = Letters({"SMALL"})[v - 9]
      BY <3>1, DigitIs
    <3>4. QED
      BY <2>2, <3>2, <3>3
  <2>3. QED
    BY <2>1, <2>2
<1>2. ASSUME NEW w \in 0 .. 15, Fits(w) PROVE w = v
  <2> DEFINE Sort(c, u) ==
        /\ u = 0 => c = "0" 
        /\ u = 1 => c = "1"
        /\ u = 2 => c = "2"
        /\ u = 3 => c = "3"
        /\ u = 4 => c = "4"
        /\ u = 5 => c = "5"
        /\ u = 6 => c = "6"
        /\ u = 7 => c = "7"
        /\ u = 8 => c = "8"
        /\ u = 9 => c = "9"
        /\ u = 10 => c \in {"a", "A"}
        /\ u = 11 => c \in {"b", "B"}
        /\ u = 12 => c \in {"c", "C"}
        /\ u = 13 => c \in {"d", "D"}
        /\ u = 14 => c \in {"e", "E"}
        /\ u = 15 => c \in {"f", "F"}
  <2>1. ASSUME NEW g, NEW u \in 0 .. 15 PROVE Sort(digits(g)[u + 1], u)
    <3>1. CASE u < 10
      <4>0. u \in 0 .. 9
        BY <3>1
      <4>1. digits(g)[u + 1] = Numerals[u + 1]
        BY <4>0, DigitIs, Zenon
      <4>2. QED
        BY <3>1, <4>1, NumeralIs
    <3>2. CASE u >= 10
      <4>0. u \in 10 .. 15
        BY <3>2
      <4>1. digits(g)[u + 1] = Letters(g)[u - 9]
        BY <4>0, DigitIs, Zenon
      <4>2. QED
        BY <3>2, <4>1, LetterIs
    <3>3. QED
      BY <3>1, <3>2
  <2>2. \E g : ch = digits(g)[w + 1]
    <3>1. CASE w < 10
      <4>1. w \in 0 .. 9 /\ ch = Numerals[w + 1]
        BY <1>2, <3>1
      <4>2. QED
        BY <4>1, DigitIs, Zenon
    <3>2. CASE w >= 10
      BY <1>2, <3>2
    <3>3. QED
      BY <3>1, <3>2
  <2>3. Sort(ch, v) /\ Sort(ch, w)
    <3> HIDE DEF Sort
    <3>1. QED
      BY <2>1, <2>2
  <2>4. QED
    BY <2>3
<1>3. Value(ch) = CHOOSE w \in 0 .. 15 : Fits(w)
  BY Zenon DEF Value
<1> HIDE DEF Fits, ch
<1>4. Value(ch) = v
  BY <1>1, <1>2, <1>3
<1>5. QED
  BY <1>4 DEF ch

\* texts of digits
IsDigits(t, flags) == t \in Seq(Char) /\ \A i \in 1 .. Len(t) : \E v \in 0 .. 15 : t[i] = digits(flags)[v + 1]

LEMMA DigitTexts ==
  ASSUME NEW flags, NEW t, IsDigits(t, flags), NEW i \in 1 .. Len(t)
  PROVE  t[i] \in ToSet(digits(flags)) /\ Value(t[i]) \in 0 .. 15
<1>1. PICK v \in 0 .. 15 : t[i] = digits(flags)[v + 1]
  BY DEF IsDigits
<1>2. v + 1 \in DOMAIN digits(flags)
  <2>1. Len(digits(flags)) = 16 /\ digits(flags) \in Seq(Char)
    BY DigitIs, Zenon
  <2>2. DOMAIN digits(flags) = 1 .. 16
    BY <2>1, LenProperties
  <2>3. v + 1 \in 1 .. 16
    OBVIOUS
  <2>4. QED
    BY <2>2, <2>3, Zenon
<1>3. digits(flags)[v + 1] \in ToSet(digits(flags))
  BY <1>2, Zenon DEF ToSet
<1>4. QED
  BY <1>1, <1>3, DigitReads, Zenon

\* f has the values of the first digits of t
Evaluates(f, t, base) ==
  /\ DOMAIN f = 0 .. Len(t) /\ f[0] = 0
  /\ \A i \in 1 .. Len(t) : f[i] = f[i - 1] * base + Value(t[i])

LEMMA NumeralMade ==
  ASSUME NEW flags, NEW t, IsDigits(t, flags), NEW base \in Nat
  PROVE  \E f \in [0 .. Len(t) -> Nat] : Evaluates(f, t, base)
<1> DEFINE N == Len(t)
           step == [p \in Nat \X Nat |-> IF p[1] \in 1 .. N THEN p[2] * base + Value(t[p[1]]) ELSE 0]
<1>1. N \in Nat
  BY LenProperties DEF IsDigits
<1>2. step \in [Nat \X Nat -> Nat]
  <2>1. ASSUME NEW p \in Nat \X Nat PROVE step[p] \in Nat
    <3>1. CASE p[1] \in 1 .. N
      <4>1. Value(t[p[1]]) \in Nat
        BY <3>1, DigitTexts
      <4>2. PICK a \in Nat : a = p[2]
        OBVIOUS
      <4>3. a * base \in Nat
        OBVIOUS
      <4>4. a * base + Value(t[p[1]]) \in Nat
        BY <4>1, <4>3
      <4>5. QED
        BY <3>1, <4>2, <4>4, Zenon
    <3>2. CASE p[1] \notin 1 .. N
      BY <3>2
    <3>3. QED
      BY <3>1, <3>2
  <2> HIDE DEF N
  <2>2. QED
    BY <2>1
<1>3. PICK f \in [0 .. N -> Nat] : IsMade(f, N, 0, step)
  <2> HIDE DEF N, step
  <2>1. QED
    BY <1>1, <1>2, Recursion
<1>4. ASSUME NEW i \in 1 .. N PROVE f[i] = f[i - 1] * base + Value(t[i])
  <2>1. i \in Nat /\ i - 1 \in 0 .. N
    <3> HIDE DEF N
    <3>1. QED
      BY <1>1
  <2>2. f[i - 1] \in Nat
    BY <1>3, <2>1, Zenon
  <2>3. f[i] = step[<<i, f[i - 1]>>]
    <3> HIDE DEF step
    <3>1. QED
      BY <1>3, Zenon DEF IsMade
  <2>4. <<i, f[i - 1]>> \in Nat \X Nat
    BY <2>1, <2>2, Zenon
  <2>5. QED
    BY <2>3, <2>4, Zenon
<1>5. DOMAIN f = 0 .. N /\ f[0] = 0
  BY <1>3 DEF IsMade
<1>6. QED
  BY <1>3, <1>4, <1>5, Zenon DEF Evaluates

LEMMA Determined ==
  ASSUME NEW t, Len(t) \in Nat, NEW base, NEW f, NEW g, Evaluates(f, t, base), Evaluates(g, t, base)
  PROVE  f[Len(t)] = g[Len(t)]
<1> DEFINE S == {n \in Nat : n <= Len(t) => f[n] = g[n]}
<1>1. 0 \in S
  BY DEF Evaluates
<1>2. ASSUME NEW n \in Nat, n \in S PROVE n + 1 \in S
  <2> SUFFICES ASSUME n + 1 <= Len(t) PROVE f[n + 1] = g[n + 1]
    OBVIOUS
  <2>1. f[n] = g[n]
    BY <1>2
  <2>2. n + 1 \in 1 .. Len(t) /\ (n + 1) - 1 = n
    OBVIOUS
  <2>3. f[n + 1] = f[n] * base + Value(t[n + 1]) /\ g[n + 1] = g[n] * base + Value(t[n + 1])
    BY <2>2, Zenon DEF Evaluates
  <2>4. QED
    BY <2>1, <2>3, Zenon
<1>3. \A n \in Nat : n \in S
  <2> HIDE DEF S
  <2>1. QED
    BY <1>1, <1>2, Induction
<1>4. QED
  BY <1>3

\* Numeral is what its recursion says
LEMMA NumeralOf ==
  ASSUME NEW t, Len(t) \in Nat, NEW base, NEW f, Evaluates(f, t, base)
  PROVE  Numeral(t, base) = f[Len(t)]
<1> DEFINE Turn(g, i) == IF i = 0 THEN 0 ELSE g[i - 1] * base + Value(t[i])
           value == CHOOSE g : g = [i \in 0 .. Len(t) |-> Turn(g, i)]
           e == [i \in 0 .. Len(t) |-> f[i]]
<1>1. ASSUME NEW i \in 0 .. Len(t) PROVE f[i] = Turn(f, i) /\ Turn(e, i) = Turn(f, i)
  <2>1. CASE i = 0
    BY <2>1 DEF Evaluates
  <2>2. CASE i # 0
    <3>1. i \in 1 .. Len(t) /\ i - 1 \in 0 .. Len(t)
      BY <2>2
    <3>2. e[i - 1] = f[i - 1]
      BY <3>1
    <3>3. f[i] = f[i - 1] * base + Value(t[i])
      BY <3>1, Zenon DEF Evaluates
    <3> HIDE DEF e
    <3>4. QED
      BY <2>2, <3>2, <3>3, Zenon
  <2>3. QED
    BY <2>1, <2>2
<1>2. e = [i \in 0 .. Len(t) |-> Turn(e, i)]
  <2> HIDE DEF Turn
  <2>1. QED
    BY <1>1
<1>3. value = [i \in 0 .. Len(t) |-> Turn(value, i)]
  <2> HIDE DEF e, Turn
  <2>1. QED
    BY <1>2, Zenon
<1>4. Numeral(t, base) = value[Len(t)]
  BY Zenon DEF Numeral
<1>5. Evaluates(value, t, base)
  <2>1. DOMAIN value = 0 .. Len(t) /\ \A i \in 0 .. Len(t) : value[i] = Turn(value, i)
    <3> HIDE DEF value, Turn
    <3>1. QED
      BY <1>3
  <2> HIDE DEF value
  <2>2. value[0] = 0
    BY <2>1
  <2>3. \A i \in 1 .. Len(t) : value[i] = value[i - 1] * base + Value(t[i])
    <3>1. \A i \in 1 .. Len(t) : i \in 0 .. Len(t) /\ i # 0
      OBVIOUS
    <3>2. QED
      BY <2>1, <3>1, Zenon
  <2>4. QED
    BY <2>1, <2>2, <2>3, Zenon DEF Evaluates
<1> HIDE DEF value
<1>6. QED
  BY <1>4, <1>5, Determined, Zenon

\* u is t with one more digit
Extends(u, t, v, flags) == u = Append(t, digits(flags)[v + 1])

LEMMA NumeralOfAppend ==
  ASSUME NEW flags, NEW t, IsDigits(t, flags), NEW v \in 0 .. 15, NEW base \in Nat,
         NEW u, Extends(u, t, v, flags)
  PROVE  /\ IsDigits(u, flags)
         /\ Numeral(t, base) \in Nat
         /\ Numeral(u, base) = Numeral(t, base) * base + v
<1> DEFINE n == Len(t)
<1>0. PICK ch : ch = digits(flags)[v + 1] /\ u = Append(t, ch)
  BY Zenon DEF Extends
<1>1. ch \in Char /\ n \in Nat /\ t \in Seq(Char)
  <2>1. v + 1 \in 1 .. 16
    OBVIOUS
  <2>2. QED
    BY <1>0, <2>1, DigitIs, ElementOfSeq, LenProperties DEF IsDigits
<1>2. u \in Seq(Char) /\ Len(u) = n + 1 /\ u[n + 1] = ch /\ \A i \in 1 .. n : u[i] = t[i]
  BY <1>0, <1>1, AppendProperties
<1>3. IsDigits(u, flags)
  <2>1. ASSUME NEW i \in 1 .. n + 1 PROVE \E w \in 0 .. 15 : u[i] = digits(flags)[w + 1]
    <3>1. CASE i = n + 1
      BY <1>0, <1>2, <3>1, Zenon
    <3>2. CASE i # n + 1
      <4> HIDE DEF n
      <4>1. i \in 1 .. n
        BY <1>1, <3>2
      <4>2. QED
        BY <1>2, <4>1, Zenon DEF IsDigits, n
    <3>3. QED
      BY <3>1, <3>2, Zenon
  <2>2. QED
    BY <1>2, <2>1, Zenon DEF IsDigits
<1>4. PICK g \in [0 .. Len(u) -> Nat] : Evaluates(g, u, base)
  BY <1>3, NumeralMade, Zenon
<1> DEFINE f == [i \in 0 .. n |-> g[i]]
<1>5. Evaluates(f, t, base)
  <2> HIDE DEF n
  <2>1. f[0] = 0
    BY <1>1, <1>4 DEF Evaluates
  <2>2. ASSUME NEW i \in 1 .. n PROVE f[i] = f[i - 1] * base + Value(t[i])
    <3>1. i \in 1 .. n + 1 /\ i \in 0 .. n /\ i - 1 \in 0 .. n
      BY <1>1
    <3>2. g[i] = g[i - 1] * base + Value(u[i])
      BY <1>2, <1>4, <3>1, Zenon DEF Evaluates
    <3>3. QED
      BY <1>2, <3>1, <3>2, Zenon
  <2>3. QED
    BY <2>1, <2>2, Zenon DEF Evaluates, n
<1>6. Numeral(t, base) = g[n]
  <2>1. Numeral(t, base) = f[n]
    <3> HIDE DEF f
    <3>1. QED
      BY <1>1, <1>5, NumeralOf, Zenon
  <2>2. n \in 0 .. n
    BY <1>1
  <2>3. QED
    BY <2>1, <2>2, Zenon
<1>7. Numeral(u, base) = g[n + 1]
  <2> HIDE DEF n
  <2>1. n + 1 \in Nat
    BY <1>1
  <2>2. QED
    BY <1>2, <1>4, <2>1, NumeralOf, Zenon
<1>8. g[n + 1] = g[n] * base + Value(ch)
  <2> HIDE DEF n
  <2>1. n + 1 \in 1 .. n + 1 /\ (n + 1) - 1 = n
    BY <1>1
  <2>2. QED
    BY <1>2, <1>4, <2>1, Zenon DEF Evaluates
<1>9. g[n] \in Nat
  BY <1>1, <1>2, <1>4
<1>10. Value(ch) = v
  BY <1>0, DigitReads, Zenon
<1>11. QED
  BY <1>3, <1>6, <1>7, <1>8, <1>9, <1>10, Zenon

\* zeros before a number do not change it
LEMMA NumeralOfZeros ==
  ASSUME NEW flags, NEW t, IsDigits(t, flags), NEW base \in Nat,
         NEW z \in Seq(Char), \A i \in 1 .. Len(z) : z[i] = "0"
  PROVE  IsDigits(z \o t, flags) /\ Numeral(z \o t, base) = Numeral(t, base)
<1> DEFINE u == z \o t
<1>1. PICK m \in Nat : m = Len(z)
  BY LenProperties
<1>2. PICK n \in Nat : n = Len(t)
  BY LenProperties DEF IsDigits
<1>3. t \in Seq(Char)
  BY DEF IsDigits
<1>4. /\ u \in Seq(Char) /\ Len(u) = m + n
      /\ \A i \in 1 .. m + n : u[i] = IF i <= m THEN z[i] ELSE t[i - m]
  BY <1>1, <1>2, <1>3, ConcatProperties, Zenon
<1>5. digits(flags)[0 + 1] = "0" /\ Value("0") = 0
  <2>1. 0 \in 0 .. 15 /\ 0 \in 0 .. 9 /\ 0 + 1 = 1
    OBVIOUS
  <2>2. digits(flags)[0 + 1] = Numerals[0 + 1] /\ Numerals[0 + 1] = "0"
    BY <2>1, DigitIs, NumeralIs, Zenon
  <2>3. Value(digits(flags)[0 + 1]) = 0
    BY <2>1, DigitReads, Zenon
  <2>4. QED
    BY <2>2, <2>3, Zenon
<1> HIDE DEF u
<1>6. \A i \in 1 .. m : u[i] = "0"
  <2>1. \A i \in 1 .. m : i \in 1 .. m + n /\ i <= m
    OBVIOUS
  <2>2. QED
    BY <1>1, <1>4, <2>1, Zenon
<1>7. \A i \in 1 .. n : u[m + i] = t[i]
  <2>1. \A i \in 1 .. n : m + i \in 1 .. m + n /\ ~ (m + i <= m) /\ (m + i) - m = i
    OBVIOUS
  <2>2. QED
    BY <1>4, <2>1, Zenon
<1>8. IsDigits(u, flags)
  <2>1. ASSUME NEW i \in 1 .. m + n PROVE \E v \in 0 .. 15 : u[i] = digits(flags)[v + 1]
    <3>1. CASE i <= m
      <4>1. i \in 1 .. m /\ 0 \in 0 .. 15
        BY <3>1
      <4>2. QED
        BY <1>5, <1>6, <4>1, Zenon
    <3>2. CASE ~ (i <= m)
      <4>1. i - m \in 1 .. n /\ m + (i - m) = i
        BY <3>2
      <4>2. QED
        BY <1>2, <1>7, <4>1, Zenon DEF IsDigits
    <3>3. QED
      BY <3>1, <3>2, Zenon
  <2>2. QED
    BY <1>4, <2>1, Zenon DEF IsDigits
<1>9. PICK f \in [0 .. n -> Nat] : Evaluates(f, t, base)
  BY <1>2, NumeralMade, Zenon
<1> DEFINE g == [i \in 0 .. m + n |-> IF i <= m THEN 0 ELSE f[i - m]]
<1>10. Evaluates(g, u, base)
  <2>1. g[0] = 0
    OBVIOUS
  <2>2. ASSUME NEW i \in 1 .. m + n PROVE g[i] = g[i - 1] * base + Value(u[i])
    <3>1. i \in 0 .. m + n /\ i - 1 \in 0 .. m + n
      OBVIOUS
    <3>2. CASE i <= m
      <4>1. g[i] = 0 /\ g[i - 1] = 0 /\ i \in 1 .. m
        BY <3>1, <3>2
      <4>2. 0 * base + 0 = 0
        OBVIOUS
      <4> HIDE DEF g
      <4>3. QED
        BY <1>5, <1>6, <4>1, <4>2, Zenon
    <3>3. CASE ~ (i <= m)
      <4>1. PICK j \in 1 .. n : j = i - m
        BY <3>3
      <4>2. g[i] = f[j]
        BY <3>1, <3>3, <4>1, Zenon
      <4>3. g[i - 1] = f[j - 1]
        <5>1. CASE j = 1
          <6>1. i - 1 <= m /\ j - 1 = 0
            BY <4>1, <5>1
          <6>2. QED
            BY <1>9, <3>1, <6>1, Zenon DEF Evaluates
        <5>2. CASE j # 1
          <6>1. ~ (i - 1 <= m) /\ (i - 1) - m = j - 1
            BY <4>1, <5>2
          <6>2. QED
            BY <3>1, <6>1, Zenon
        <5>3. QED
          BY <5>1, <5>2, Zenon
      <4>4. u[i] = t[j]
        <5>1. m + j = i
          BY <4>1
        <5>2. QED
          BY <1>7, <5>1, Zenon
      <4>5. f[j] = f[j - 1] * base + Value(t[j])
        BY <1>2, <1>9, Zenon DEF Evaluates
      <4> HIDE DEF g
      <4>6. QED
        BY <4>2, <4>3, <4>4, <4>5, Zenon
    <3>4. QED
      BY <3>2, <3>3, Zenon
  <2>3. DOMAIN g = 0 .. Len(u)
    BY <1>4
  <2> HIDE DEF g
  <2>4. QED
    BY <1>4, <2>1, <2>2, <2>3, Zenon DEF Evaluates
<1>11. g[m + n] = f[n]
  <2>1. CASE n = 0
    <3>1. m + n \in 0 .. m + n /\ m + n <= m
      BY <2>1
    <3>2. QED
      BY <1>9, <2>1, <3>1, Zenon DEF Evaluates
  <2>2. CASE n # 0
    <3>1. m + n \in 0 .. m + n /\ ~ (m + n <= m) /\ (m + n) - m = n
      BY <2>2
    <3>2. QED
      BY <3>1, Zenon
  <2>3. QED
    BY <2>1, <2>2, Zenon
<1> HIDE DEF g
<1>12. Numeral(u, base) = g[m + n] /\ Numeral(t, base) = f[n]
  <2>1. m + n \in Nat
    OBVIOUS
  <2>2. QED
    BY <1>2, <1>4, <1>9, <1>10, <2>1, NumeralOf, Zenon
<1>13. QED
  BY <1>8, <1>11, <1>12, Zenon DEF u

\* the digits of a number are its own, without zeros in front
Represents(t, n, base, flags) ==
  /\ IsDigits(t, flags) /\ Len(t) >= 1 /\ Numeral(t, base) = n
  /\ IF n = 0 THEN Len(t) = 1 ELSE t[1] # "0"

LEMMA DigitNotZero ==
  ASSUME NEW flags, NEW v \in 0 .. 15, v # 0
  PROVE  digits(flags)[v + 1] # "0"
<1>1. 0 \in 0 .. 15 /\ 0 \in 0 .. 9 /\ 0 + 1 = 1
  OBVIOUS
<1>2. digits(flags)[0 + 1] = Numerals[0 + 1] /\ Numerals[0 + 1] = "0"
  BY <1>1, DigitIs, NumeralIs, Zenon
<1>3. Value("0") = 0
  BY <1>1, <1>2, DigitReads, Zenon
<1>4. QED
  BY <1>3, DigitReads, Zenon

LEMMA OneDigit ==
  ASSUME NEW flags, NEW n \in 0 .. 15, NEW base \in Nat
  PROVE  Represents(<<digits(flags)[n + 1]>>, n, base, flags)
<1> DEFINE ch == digits(flags)[n + 1]
           e == << >>
<1>1. ch \in Char
  <2>1. n + 1 \in 1 .. 16
    OBVIOUS
  <2>2. QED
    BY <2>1, DigitIs, ElementOfSeq
<1>2. IsDigits(e, flags) /\ Len(e) = 0
  <2>1. e \in Seq(Char) /\ Len(e) = 0
    BY EmptySeq
  <2>2. 1 .. 0 = {}
    OBVIOUS
  <2> HIDE DEF e
  <2>3. QED
    BY <2>1, <2>2, Zenon DEF IsDigits
<1>3. Numeral(e, base) = 0
  <2>1. PICK f : Evaluates(f, e, base)
    BY <1>2, NumeralMade, Zenon
  <2>2. 0 \in Nat
    OBVIOUS
  <2> HIDE DEF e
  <2>3. QED
    BY <1>2, <2>1, <2>2, NumeralOf, Zenon DEF Evaluates
<1>4. <<ch>> = Append(e, ch)
  <2> HIDE DEF ch
  <2>1. QED
    OBVIOUS
<1>5. IsDigits(<<ch>>, flags) /\ Numeral(<<ch>>, base) = 0 * base + n
  <2>1. PICK u : u = <<ch>>
    OBVIOUS
  <2> HIDE DEF e
  <2>2. Extends(u, e, n, flags)
    BY <1>4, <2>1, Zenon DEF Extends
  <2>3. IsDigits(u, flags) /\ Numeral(u, base) = Numeral(e, base) * base + n
    BY <1>2, <2>2, NumeralOfAppend
  <2>4. QED
    BY <1>3, <2>1, <2>3, Zenon
<1>6. 0 * base + n = n
  OBVIOUS
<1>7. Len(<<ch>>) = 1 /\ <<ch>>[1] = ch /\ 1 >= 1
  <2> HIDE DEF ch
  <2>1. QED
    OBVIOUS
<1>8. n # 0 => ch # "0"
  BY DigitNotZero, Zenon
<1> HIDE DEF ch
<1>9. Represents(<<ch>>, n, base, flags)
  BY <1>5, <1>6, <1>7, <1>8, Zenon DEF Represents
<1>10. QED
  BY <1>9, Zenon DEF ch

LEMMA MoreDigits ==
  ASSUME NEW flags, NEW base \in {8, 10, 16}, NEW n \in Nat, n >= base,
         NEW t, Represents(t, n \div base, base, flags)
  PROVE  Represents(Append(t, digits(flags)[(n % base) + 1]), n, base, flags)
<1>1. PICK v \in 0 .. 15 : v = n % base
  BY SMT
<1>2. PICK q \in Nat : q = n \div base /\ q # 0
  BY SMT
<1>3. q * base + v = n /\ base \in Nat
  <2>1. CASE base = 8
    BY <1>1, <1>2, <2>1, SMT
  <2>2. CASE base = 10
    BY <1>1, <1>2, <2>2, SMT
  <2>3. CASE base = 16
    BY <1>1, <1>2, <2>3, SMT
  <2>4. QED
    BY <2>1, <2>2, <2>3
<1>10. PICK ch, u : ch = digits(flags)[v + 1] /\ u = Append(t, ch)
  OBVIOUS
<1>4. IsDigits(t, flags) /\ Numeral(t, base) = q /\ t[1] # "0" /\ Len(t) >= 1
  BY <1>2, Zenon DEF Represents
<1>5. IsDigits(u, flags) /\ Numeral(u, base) = n
  <2>1. IsDigits(u, flags) /\ Numeral(u, base) = Numeral(t, base) * base + v
    <3>1. Extends(u, t, v, flags)
      BY <1>10, Zenon DEF Extends
    <3>2. base \in Nat
      OBVIOUS
    <3>3. IsDigits(t, flags)
      BY <1>4
    <3>4. QED
      BY <3>1, <3>2, <3>3, NumeralOfAppend
  <2>2. QED
    BY <1>3, <1>4, <2>1, Zenon
<1>6. Len(u) >= 1 /\ u[1] = t[1]
  <2>1. t \in Seq(Char) /\ Len(t) \in Nat
    BY <1>4, LenProperties DEF IsDigits
  <2>2. ch \in Char
    <3>1. v + 1 \in 1 .. 16
      OBVIOUS
    <3>2. QED
      BY <1>10, <3>1, DigitIs, ElementOfSeq
  <2>3. Len(u) = Len(t) + 1 /\ \A i \in 1 .. Len(t) : u[i] = t[i]
    BY <1>10, <2>1, <2>2, AppendProperties
  <2>4. QED
    BY <1>4, <2>1, <2>3
<1>7. n # 0
  BY <1>3
<1>8. Represents(u, n, base, flags)
  BY <1>4, <1>5, <1>6, <1>7, Zenon DEF Represents
<1>9. QED
  BY <1>1, <1>10, <1>8, Zenon

\* the loop over a number makes its digits
LEMMA InBaseIs ==
  ASSUME NEW num \in Nat, NEW base \in {8, 10, 16}, NEW flags
  PROVE  Represents(InBase(num, base, flags), num, base, flags)
<1> DEFINE Turn(g, n) == IF n < base THEN <<digits(flags)[n + 1]>>
                         ELSE Append(g[n \div base], digits(flags)[(n % base) + 1])
           Made(N, g) == g = [n \in 0 .. N |-> Turn(g, n)]
           S == {N \in Nat : \E g : Made(N, g)}
           text == CHOOSE g : Made(num, g)
<1>1. \A n \in Nat : n >= base => n \div base \in 0 .. n - 1
  BY SMT
<1>2. 0 \in S
  <2> DEFINE g == [n \in 0 .. 0 |-> <<digits(flags)[n + 1]>>]
  <2>1. ASSUME NEW n \in 0 .. 0 PROVE Turn(g, n) = <<digits(flags)[n + 1]>>
    <3>1. n < base
      OBVIOUS
    <3> HIDE DEF g
    <3>2. QED
      BY <3>1, Zenon
  <2>2. Made(0, g)
    <3> HIDE DEF Turn
    <3>1. QED
      BY <2>1, Zenon
  <2>3. QED
    BY <2>2, Zenon
<1>3. ASSUME NEW N \in Nat, N \in S PROVE N + 1 \in S
  <2>1. PICK f : Made(N, f)
    BY <1>3
  <2> DEFINE more == [n \in 0 .. N + 1 |-> IF n = N + 1 THEN Turn(f, N + 1) ELSE f[n]]
  <2>2. ASSUME NEW n \in 0 .. N + 1 PROVE Turn(more, n) = Turn(f, n)
    <3>1. CASE n < base
      <4> HIDE DEF more
      <4>1. QED
        BY <3>1, Zenon
    <3>2. CASE ~ (n < base)
      <4>1. PICK q \in 0 .. N : q = n \div base
        BY <1>1, <3>2
      <4>2. q \in 0 .. N + 1 /\ q # N + 1
        OBVIOUS
      <4>3. more[q] = f[q]
        <5> HIDE DEF Turn
        <5>1. QED
          BY <4>2, Zenon
      <4> HIDE DEF more
      <4>4. QED
        BY <4>1, <4>3, Zenon
    <3>3. QED
      BY <3>1, <3>2, Zenon
  <2> HIDE DEF Turn
  <2>3. \A n \in 0 .. N + 1 : n # N + 1 => n \in 0 .. N
    OBVIOUS
  <2>4. \A n \in 0 .. N + 1 : more[n] = Turn(f, n)
    BY <2>1, <2>3, Zenon
  <2>5. Made(N + 1, more)
    <3>1. more = [n \in 0 .. N + 1 |-> more[n]]
      BY Zenon
    <3> HIDE DEF more
    <3>2. QED
      BY <2>2, <2>4, <3>1, Zenon
  <2>6. QED
    <3> HIDE DEF more, Made
    <3>1. N + 1 \in Nat
      OBVIOUS
    <3>2. QED
      BY <2>5, <3>1, Zenon
<1>4. Made(num, text)
  <2>1. \A N \in Nat : N \in S
    <3> HIDE DEF S
    <3>1. QED
      BY <1>2, <1>3, Induction
  <2> HIDE DEF Made
  <2>2. QED
    BY <2>1, Zenon
<1>5. InBase(num, base, flags) = text[num]
  BY Zenon DEF InBase
<1> DEFINE T == {k \in Nat : \A n \in 0 .. num : n <= k => Represents(text[n], n, base, flags)}
<1>6. ASSUME NEW n \in 0 .. num, \A m \in 0 .. num : m < n => Represents(text[m], m, base, flags)
      PROVE  Represents(text[n], n, base, flags)
  <2>1. text[n] = Turn(text, n)
    <3> HIDE DEF text, Turn
    <3>1. QED
      BY <1>4
  <2> HIDE DEF text
  <2>2. CASE n < base
    <3>1. n \in 0 .. 15 /\ base \in Nat
      BY <2>2
    <3>2. text[n] = <<digits(flags)[n + 1]>>
      BY <2>1, <2>2, Zenon
    <3>3. QED
      BY <3>1, <3>2, OneDigit, Zenon
  <2>3. CASE ~ (n < base)
    <3>1. n \in Nat /\ n >= base
      BY <2>3
    <3>2. PICK q \in 0 .. num : q = n \div base /\ q < n
      BY <1>1, <3>1
    <3>3. Represents(text[n \div base], n \div base, base, flags)
      BY <1>6, <3>2, Zenon
    <3>4. text[n] = Append(text[n \div base], digits(flags)[(n % base) + 1])
      BY <2>1, <2>3, Zenon
    <3>5. QED
      BY <3>1, <3>3, <3>4, MoreDigits, Zenon
  <2>4. QED
    BY <2>2, <2>3, Zenon
<1> HIDE DEF text, Turn, Made
<1>7. 0 \in T
  BY <1>6
<1>8. ASSUME NEW k \in Nat, k \in T PROVE k + 1 \in T
  <2>1. ASSUME NEW n \in 0 .. num, n <= k + 1 PROVE Represents(text[n], n, base, flags)
    <3>1. \A m \in 0 .. num : m < n => m <= k
      BY <2>1
    <3>2. QED
      BY <1>6, <1>8, <3>1, Zenon
  <2>2. QED
    BY <2>1
<1>9. \A k \in Nat : k \in T
  <2> HIDE DEF T
  <2>1. QED
    BY <1>7, <1>8, Induction
<1>10. num \in 0 .. num /\ num <= num
  OBVIOUS
<1>11. QED
  BY <1>5, <1>9, <1>10, Zenon

-----------------------------------------------------------------------------
(* Blanks and zeros around a text.                                           *)

AllAre(t, ch) == t \in Seq(Char) /\ \A i \in 1 .. Len(t) : t[i] = ch

LEMMA RepIs ==
  ASSUME NEW n \in Int, NEW ch \in Char
  PROVE  AllAre(Rep(n, ch), ch) /\ Len(Rep(n, ch)) = Max2(n, 0)
<1>1. PICK m \in Nat : m = Max2(n, 0)
  BY DEF Max2
<1>2. Rep(n, ch) = [i \in 1 .. m |-> ch]
  BY <1>1, Zenon DEF Rep
<1>3. Rep(n, ch) \in Seq(Char) /\ Len(Rep(n, ch)) = m
  BY <1>2, FunctionIsSeq
<1>4. QED
  BY <1>1, <1>2, <1>3, Zenon DEF AllAre

\* the parts of a text
HasParts(t, a, b, c) ==
  /\ Len(t) = (Len(a) + Len(b)) + Len(c)
  /\ SubSeq(t, 1, Len(a)) = a
  /\ SubSeq(t, Len(a) + 1, Len(a) + Len(b)) = b
  /\ SubSeq(t, (Len(a) + Len(b)) + 1, (Len(a) + Len(b)) + Len(c)) = c

LEMMA Middle ==
  ASSUME NEW S, NEW a \in Seq(S), NEW b \in Seq(S), NEW c \in Seq(S)
  PROVE  (a \o b) \o c \in Seq(S) /\ HasParts((a \o b) \o c, a, b, c)
<1>1. PICK k, m, n \in Nat : k = Len(a) /\ m = Len(b) /\ n = Len(c)
  BY LenProperties
<1>2. PICK t : t = (a \o b) \o c
  OBVIOUS
<1>3. PICK u : u = a \o b
  OBVIOUS
<1>4. /\ u \in Seq(S) /\ Len(u) = k + m
      /\ \A i \in 1 .. k + m : u[i] = IF i <= k THEN a[i] ELSE b[i - k]
  BY <1>1, <1>3, ConcatProperties, Zenon
<1>5. /\ t \in Seq(S) /\ Len(t) = (k + m) + n
      /\ \A i \in 1 .. (k + m) + n : t[i] = IF i <= k + m THEN u[i] ELSE c[i - (k + m)]
  <2>1. t = u \o c
    BY <1>2, <1>3, Zenon
  <2>2. /\ t \in Seq(S) /\ Len(t) = Len(u) + Len(c)
        /\ \A i \in 1 .. Len(u) + Len(c) : t[i] = IF i <= Len(u) THEN u[i] ELSE c[i - Len(u)]
    BY <1>4, <2>1, ConcatProperties, Zenon
  <2>3. QED
    BY <1>1, <1>4, <2>2, Zenon
<1>6. \A i \in 1 .. k : t[i] = a[i]
  <2>1. \A i \in 1 .. k : i \in 1 .. (k + m) + n /\ i \in 1 .. k + m /\ i <= k + m /\ i <= k
    OBVIOUS
  <2>2. QED
    BY <1>4, <1>5, <2>1, Zenon
<1>7. \A i \in 1 .. m : t[k + i] = b[i]
  <2>1. \A i \in 1 .. m : /\ k + i \in 1 .. (k + m) + n /\ k + i \in 1 .. k + m /\ k + i <= k + m
                          /\ ~ (k + i <= k) /\ (k + i) - k = i
    OBVIOUS
  <2>2. QED
    BY <1>4, <1>5, <2>1, Zenon
<1>8. \A i \in 1 .. n : t[(k + m) + i] = c[i]
  <2>1. \A i \in 1 .. n : /\ (k + m) + i \in 1 .. (k + m) + n /\ ~ ((k + m) + i <= k + m)
                          /\ ((k + m) + i) - (k + m) = i
    OBVIOUS
  <2>2. QED
    BY <1>5, <2>1, Zenon
<1>9. ASSUME NEW j \in Nat, NEW l \in Nat, j + l <= (k + m) + n, NEW v \in Seq(S), Len(v) = l,
             \A i \in 1 .. l : t[j + i] = v[i]
      PROVE  SubSeq(t, j + 1, j + l) = v
  <2>1. \A i \in j + 1 .. j + l : t[i] \in S
    <3>1. \A i \in j + 1 .. j + l : i \in 1 .. Len(t)
      BY <1>5, <1>9
    <3>2. QED
      BY <1>5, <3>1, ElementOfSeq, Zenon
  <2>2. PICK w : w = SubSeq(t, j + 1, j + l)
    OBVIOUS
  <2>3. PICK p, q \in Int : p = j + 1 /\ q = j + l
    OBVIOUS
  <2>4. /\ w \in Seq(S) /\ Len(w) = (IF p <= q THEN q - p + 1 ELSE 0)
        /\ \A i \in 1 .. q - p + 1 : w[i] = t[p + i - 1]
    <3>1. w = SubSeq(t, p, q) /\ \A i \in p .. q : t[i] \in S
      BY <2>1, <2>2, <2>3, Zenon
    <3>2. QED
      BY <3>1, SubSeqProperties
  <2>5. Len(w) = l /\ \A i \in 1 .. l : w[i] = v[i]
    <3>1. Len(w) = l
      BY <2>3, <2>4
    <3>2. \A i \in 1 .. l : i \in 1 .. q - p + 1 /\ p + i - 1 = j + i
      BY <2>3
    <3>3. QED
      BY <1>9, <2>4, <3>1, <3>2, Zenon
  <2>6. w = v
    BY <1>9, <2>4, <2>5, SeqEqual
  <2>7. QED
    BY <2>2, <2>6
<1>10. SubSeq(t, 1, k) = a
  <2>1. PICK z \in Nat : /\ z = 0 /\ z + k <= (k + m) + n /\ z + 1 = 1 /\ z + k = k
                        /\ \A i \in 1 .. k : z + i = i
    OBVIOUS
  <2>2. SubSeq(t, z + 1, z + k) = a
    <3>1. \A i \in 1 .. k : t[z + i] = a[i]
      BY <1>6, <2>1, Zenon
    <3>2. QED
      BY <1>1, <1>9, <2>1, <3>1
  <2>3. QED
    BY <2>1, <2>2, Zenon
<1>11. SubSeq(t, k + 1, k + m) = b
  <2>1. k + m <= (k + m) + n
    OBVIOUS
  <2>2. QED
    BY <1>1, <1>7, <1>9, <2>1, Zenon
<1>12. SubSeq(t, (k + m) + 1, (k + m) + n) = c
  <2>1. k + m \in Nat /\ (k + m) + n <= (k + m) + n
    OBVIOUS
  <2>2. QED
    BY <1>1, <1>8, <1>9, <2>1, Zenon
<1>13. QED
  BY <1>1, <1>2, <1>5, <1>10, <1>11, <1>12 DEF HasParts

\* (a \o b) \o c and a \o (b \o c) are the same
Joins(a, b, c) == (a \o b) \o c = a \o (b \o c)

LEMMA AllJoin == \A S : \A a, b, c \in Seq(S) : Joins(a, b, c) /\ a \o b \in Seq(S)
  BY ConcatAssociative, ConcatProperties DEF Joins

Regrouped(a, s, p, z1, z2, t) ==
  ((((a \o s) \o p) \o z1) \o z2) \o t = a \o ((s \o p) \o ((z1 \o z2) \o t))

LEMMA Regroup ==
  ASSUME NEW S, NEW a \in Seq(S), NEW s \in Seq(S), NEW p \in Seq(S), NEW z1 \in Seq(S),
         NEW z2 \in Seq(S), NEW t \in Seq(S)
  PROVE  Regrouped(a, s, p, z1, z2, t)
<1>1. PICK h \in Seq(S) : h = s \o p
  BY AllJoin
<1>2. PICK z \in Seq(S) : z = z1 \o z2
  BY AllJoin
<1>3. PICK u \in Seq(S) : u = a \o h
  BY AllJoin
<1>4. PICK w \in Seq(S) : w = z \o t
  BY AllJoin
<1>5. Joins(a, s, p) /\ Joins(u, z1, z2) /\ Joins(u, z, t) /\ Joins(a, h, w)
  BY AllJoin, Zenon
<1>6. (a \o s) \o p = u
  BY <1>1, <1>3, <1>5 DEF Joins
<1>7. (u \o z1) \o z2 = u \o z
  BY <1>2, <1>5 DEF Joins
<1>8. (u \o z) \o t = u \o w
  BY <1>4, <1>5 DEF Joins
<1>9. u \o w = a \o (h \o w)
  BY <1>3, <1>5 DEF Joins
<1>10. QED
  BY <1>1, <1>2, <1>4, <1>6, <1>7, <1>8, <1>9 DEF Regrouped

LEMMA HeadIsText ==
  ASSUME NEW base, NEW flags
  PROVE  /\ SignOf(flags) \in Seq(Char) /\ PrefixOf(base, flags) \in Seq(Char)
         /\ SignOf(flags) \o PrefixOf(base, flags) \in Seq(Char)
         /\ Len(SignOf(flags) \o PrefixOf(base, flags)) = Len(SignOf(flags)) + Len(PrefixOf(base, flags))
<1>1. << >> \in Seq(Char)
  BY EmptySeq
<1>2. "+" \in Char /\ " " \in Char /\ "0" \in Char /\ "x" \in Char /\ "X" \in Char
  BY Characters, Zenon
<1>3. \A ch, d \in Char : <<ch>> \in Seq(Char) /\ <<ch, d>> \in Seq(Char)
  OBVIOUS
<1>4. SignOf(flags) \in Seq(Char)
  BY <1>1, <1>2, <1>3, Zenon DEF SignOf
<1>5. PrefixOf(base, flags) \in Seq(Char)
  <2>1. PICK ch \in Char : ch = IF "SMALL" \in flags THEN "x" ELSE "X"
    BY <1>2, Zenon
  <2>2. <<"0", IF "SMALL" \in flags THEN "x" ELSE "X">> \in Seq(Char)
    BY <1>2, <1>3, <2>1, Zenon
  <2>3. <<"0">> \in Seq(Char)
    BY <1>2, <1>3, Zenon
  <2>4. QED
    BY <1>1, <2>2, <2>3, Zenon DEF PrefixOf
<1>6. QED
  BY <1>4, <1>5, ConcatProperties, Zenon

\* what number stores: blanks, sign and prefix, zeros and digits, blanks
IsLaidOut(text, t, z, a, b, head, width, precision, leftwards, filled) ==
  /\ AllAre(z, "0") /\ AllAre(a, " ") /\ AllAre(b, " ")
  /\ text = (a \o (head \o (z \o t))) \o b
  /\ LET least == Max2(Len(t), precision)
         size == width - Len(head) - least
     IN /\ Len(z) + Len(t) = IF filled THEN least + Max2(size, 0) ELSE least
        /\ Len(a) = IF leftwards \/ filled THEN 0 ELSE Max2(size, 0)
        /\ Len(b) = IF leftwards THEN Max2(size, 0) ELSE 0

\* what the flags ask for
AskFor(flags, base, head, leftwards, filled) ==
  /\ head = SignOf(flags) \o PrefixOf(base, flags)
  /\ leftwards \in BOOLEAN /\ (leftwards <=> "LEFT" \in flags)
  /\ filled \in BOOLEAN /\ (filled <=> "ZEROPAD" \in flags /\ ~ leftwards)

HasLayout(num, base, width, precision, flags, head, leftwards, filled) ==
  \E t, z, a, b :
    /\ Represents(t, num, base, flags)
    /\ IsLaidOut(number(num, base, width, precision, flags), t, z, a, b, head, width, precision,
                 leftwards, filled)

LEMMA NumberIs ==
  ASSUME NEW num \in Nat, NEW base \in {8, 10, 16}, NEW width \in Int, NEW precision \in Int, NEW flags,
         NEW head, head = SignOf(flags) \o PrefixOf(base, flags),
         NEW leftwards \in BOOLEAN, leftwards <=> "LEFT" \in flags,
         NEW filled \in BOOLEAN, filled <=> "ZEROPAD" \in flags /\ ~ leftwards
  PROVE  HasLayout(num, base, width, precision, flags, head, leftwards, filled)
<1>1. PICK t : t = InBase(num, base, flags)
  OBVIOUS
<1>2. Represents(t, num, base, flags)
  BY <1>1, InBaseIs, Zenon
<1>3. t \in Seq(Char) /\ Len(t) \in Nat
  BY <1>2, LenProperties DEF Represents, IsDigits
<1>4. PICK k \in Nat : k = Len(SignOf(flags))
  BY HeadIsText, LenProperties
<1>5. PICK l \in Nat : l = Len(PrefixOf(base, flags))
  BY HeadIsText, LenProperties
<1>6. Len(head) = k + l /\ head \in Seq(Char)
  BY <1>4, <1>5, HeadIsText, Zenon
<1>7. PICK least \in Int : least = Max2(Len(t), precision) /\ least >= Len(t)
  BY <1>3 DEF Max2
<1>8. PICK size \in Int : size = width - k - l - least /\ size = width - Len(head) - least
  BY <1>6
<1>9. PICK na \in Int : na = IF leftwards \/ filled THEN 0 ELSE size
  OBVIOUS
<1>10. PICK nz \in Int : nz = IF filled THEN size ELSE 0
  OBVIOUS
<1>11. PICK ny \in Int : ny = least - Len(t) /\ ny >= 0
  BY <1>3, <1>7
<1>12. PICK nb \in Int : nb = IF leftwards THEN size ELSE 0
  OBVIOUS
<1>13. number(num, base, width, precision, flags)
         = (((((Rep(na, " ") \o SignOf(flags)) \o PrefixOf(base, flags)) \o Rep(nz, "0")) \o Rep(ny, "0")) \o t)
             \o Rep(nb, " ")
  BY <1>1, <1>4, <1>5, <1>7, <1>8, <1>9, <1>10, <1>11, <1>12, Zenon DEF number
<1>14. PICK a, z1, z2, b : a = Rep(na, " ") /\ z1 = Rep(nz, "0") /\ z2 = Rep(ny, "0") /\ b = Rep(nb, " ")
  BY Zenon
<1>15. /\ AllAre(a, " ") /\ Len(a) = Max2(na, 0) /\ AllAre(b, " ") /\ Len(b) = Max2(nb, 0)
       /\ AllAre(z1, "0") /\ Len(z1) = Max2(nz, 0) /\ AllAre(z2, "0") /\ Len(z2) = Max2(ny, 0)
  <2>1. " " \in Char /\ "0" \in Char
    BY Characters, Zenon
  <2>2. QED
    BY <1>14, <2>1, RepIs, Zenon
<1>16. a \in Seq(Char) /\ z1 \in Seq(Char) /\ z2 \in Seq(Char) /\ b \in Seq(Char)
  BY <1>15, Zenon DEF AllAre
<1>17. PICK z \in Seq(Char) : z = z1 \o z2
  BY <1>16, ConcatProperties
<1>18. number(num, base, width, precision, flags) = (a \o (head \o (z \o t))) \o b
  <2>1. PICK s, p \in Seq(Char) : s = SignOf(flags) /\ p = PrefixOf(base, flags)
    BY HeadIsText
  <2>2. Regrouped(a, s, p, z1, z2, t)
    BY <1>3, <1>16, Regroup, Zenon
  <2>3. QED
    BY <1>13, <1>14, <1>17, <2>1, <2>2 DEF Regrouped
<1>19. PICK m, n \in Nat : m = Len(z1) /\ n = Len(z2)
  BY <1>16, LenProperties
<1>20. Len(z) = m + n /\ \A i \in 1 .. m + n : z[i] = IF i <= m THEN z1[i] ELSE z2[i - m]
  BY <1>16, <1>17, <1>19, ConcatProperties, Zenon
<1>21. AllAre(z, "0")
  <2>1. \A i \in 1 .. m + n : i \in 1 .. m \/ (~ (i <= m) /\ i - m \in 1 .. n)
    OBVIOUS
  <2>2. \A i \in 1 .. m : i <= m
    OBVIOUS
  <2>3. ASSUME NEW i \in 1 .. m + n PROVE z[i] = "0"
    BY <1>15, <1>19, <1>20, <2>1, <2>2, Zenon DEF AllAre
  <2>4. QED
    BY <1>17, <1>20, <2>3, Zenon DEF AllAre
<1>22. Len(z) + Len(t) = IF filled THEN least + Max2(size, 0) ELSE least
  <2>1. PICK c \in Nat : c = Len(t)
    BY <1>3
  <2>2. Max2(ny, 0) = least - c
    BY <1>11, <2>1 DEF Max2
  <2>3. Len(z) = Max2(nz, 0) + (least - c)
    BY <1>15, <1>19, <1>20, <2>2
  <2>4. CASE filled
    BY <1>10, <2>1, <2>3, <2>4 DEF Max2
  <2>5. CASE ~ filled
    BY <1>10, <2>1, <2>3, <2>5 DEF Max2
  <2>6. QED
    BY <2>4, <2>5
<1>23. Len(a) = IF leftwards \/ filled THEN 0 ELSE Max2(size, 0)
  BY <1>9, <1>15 DEF Max2
<1>24. Len(b) = IF leftwards THEN Max2(size, 0) ELSE 0
  BY <1>12, <1>15 DEF Max2
<1>25. IsLaidOut(number(num, base, width, precision, flags), t, z, a, b, head, width, precision, leftwards, filled)
  BY <1>7, <1>8, <1>15, <1>18, <1>21, <1>22, <1>23, <1>24, Zenon DEF IsLaidOut
<1>26. QED
  BY <1>2, <1>25, Zenon DEF HasLayout

LEMMA NumberIsLaidOut ==
  ASSUME NEW num \in Nat, NEW base \in {8, 10, 16}, NEW width \in Int, NEW precision \in Int, NEW flags,
         NEW head, NEW leftwards, NEW filled, AskFor(flags, base, head, leftwards, filled)
  PROVE  HasLayout(num, base, width, precision, flags, head, leftwards, filled)
<1>1. /\ head = SignOf(flags) \o PrefixOf(base, flags)
      /\ leftwards \in BOOLEAN /\ (leftwards <=> "LEFT" \in flags)
      /\ filled \in BOOLEAN /\ (filled <=> "ZEROPAD" \in flags /\ ~ leftwards)
  BY Zenon DEF AskFor
<1>2. QED
  BY <1>1, NumberIs, Zenon

LEMMA SameDigits ==
  ASSUME NEW flags, NEW g, "SMALL" \in flags <=> "SMALL" \in g,
         NEW t, NEW n, NEW base, Represents(t, n, base, flags)
  PROVE  Represents(t, n, base, g)
<1>1. digits(flags) = digits(g)
  BY Zenon DEF digits
<1>2. QED
  BY <1>1, Zenon DEF Represents, IsDigits

\* what is laid out like that reads as a number
LEMMA LaidOutReads ==
  ASSUME NEW item, NEW text, NEW t, NEW z, NEW a, NEW b, NEW head \in Seq(Char), NEW width \in Int,
         Base(item) \in Nat, precision_of(item) \in Int,
         head = Sign(item) \o Prefix(item),
         NEW leftwards \in BOOLEAN, leftwards <=> LeftAligned(item),
         NEW filled \in BOOLEAN,
         filled <=> ("ZEROPAD" \in item.flags \/ Pointer(item)) /\ ~ leftwards,
         Max2(width, 0) = IF Pointer(item) THEN 8 ELSE Width(item),
         Represents(t, Magnitude(item), Base(item), {Case(item)}),
         IsLaidOut(text, t, z, a, b, head, width, precision_of(item), leftwards, filled)
  PROVE  IsNumber(item, text)
<1>1. t \in Seq(Char) /\ z \in Seq(Char) /\ a \in Seq(Char) /\ b \in Seq(Char)
  BY Zenon DEF Represents, IsDigits, IsLaidOut, AllAre
<1>2. PICK d \in Seq(Char) : d = z \o t
  BY <1>1, AllJoin
<1>3. PICK inner \in Seq(Char) : inner = head \o d
  BY AllJoin
<1>4. PICK h, l, k, m, p, q \in Nat :
        h = Len(head) /\ l = Len(d) /\ k = Len(inner) /\ m = Len(t) /\ p = Len(a) /\ q = Len(b)
  BY <1>1, LenProperties
<1>5. PICK n \in Nat : n = Len(z)
  BY <1>1, LenProperties
<1>6. k = h + l
  <2>1. Len(head \o d) = Len(head) + Len(d)
    BY ConcatProperties
  <2>2. QED
    BY <1>3, <1>4, <2>1, Zenon
<1>7. l = n + m /\ \A i \in 1 .. n + m : d[i] = IF i <= n THEN z[i] ELSE t[i - n]
  <2>1. /\ Len(z \o t) = Len(z) + Len(t)
        /\ \A i \in 1 .. Len(z) + Len(t) : (z \o t)[i] = IF i <= Len(z) THEN z[i] ELSE t[i - Len(z)]
    BY <1>1, ConcatProperties
  <2>2. QED
    BY <1>2, <1>4, <1>5, <2>1, Zenon
<1>8. /\ SubSeq(inner, 1, h) = head /\ SubSeq(inner, h + 1, k) = d
  <2>1. PICK e \in Seq(Char) : e = << >> /\ Len(e) = 0
    BY EmptySeq
  <2>2. HasParts((head \o d) \o e, head, d, e)
    BY <2>1, Middle, Zenon
  <2>3. inner \o e = inner
    BY <2>1, ConcatEmptySeq
  <2>4. (head \o d) \o e = inner
    BY <1>3, <2>3
  <2>5. HasParts(inner, head, d, e)
    BY <2>2, <2>4
  <2>6. QED
    BY <1>4, <1>6, <2>5, Zenon DEF HasParts
<1>9. /\ text \in Seq(Char) /\ Len(text) = (p + k) + q
      /\ SubSeq(text, 1, p) = a
      /\ SubSeq(text, p + 1, p + k) = inner
      /\ SubSeq(text, (p + k) + 1, (p + k) + q) = b
  <2>1. text = (a \o inner) \o b
    BY <1>2, <1>3 DEF IsLaidOut
  <2>2. (a \o inner) \o b \in Seq(Char) /\ HasParts((a \o inner) \o b, a, inner, b)
    BY <1>1, Middle
  <2>3. text \in Seq(Char) /\ HasParts(text, a, inner, b)
    BY <2>1, <2>2
  <2>4. QED
    BY <1>4, <2>3, Zenon DEF HasParts
<1>10. PICK least \in Int : least = Max2(m, precision_of(item)) /\ least >= m
  <2>1. PICK r \in Int : r = precision_of(item)
    OBVIOUS
  <2>2. Max2(m, r) \in Int /\ Max2(m, r) >= m
    BY DEF Max2
  <2>3. QED
    BY <2>1, <2>2
<1>11. PICK size \in Int : size = width - h - least
  OBVIOUS
<1>12. /\ n + m = IF filled THEN least + Max2(size, 0) ELSE least
       /\ p = IF leftwards \/ filled THEN 0 ELSE Max2(size, 0)
       /\ q = IF leftwards THEN Max2(size, 0) ELSE 0
  BY <1>4, <1>5, <1>10, <1>11, Zenon DEF IsLaidOut
<1>13. PICK W \in Int : W = (IF Pointer(item) THEN 8 ELSE Width(item)) /\ W = Max2(width, 0)
  BY DEF Max2
<1>14. m >= 1
  BY <1>4 DEF Represents
<1>25. PICK room \in Nat : room = Max2(size, 0)
  BY DEF Max2
<1>26. size < 0 => room = 0
  BY <1>25 DEF Max2
<1>27. size >= 0 => room = size
  BY <1>25 DEF Max2
<1>28. /\ n + m = IF filled THEN least + room ELSE least
       /\ p = IF leftwards \/ filled THEN 0 ELSE room
       /\ q = IF leftwards THEN room ELSE 0
  BY <1>12, <1>25, Zenon
<1>29. ~ (leftwards /\ filled)
  OBVIOUS
<1>30. W = IF width > 0 THEN width ELSE 0
  BY <1>13 DEF Max2
<1>31. least >= 1 /\ h >= 0
  BY <1>10, <1>14
<1>15. (p + k) + q = Max2(W, k)
  <2>1. p + q + n + m = least + room
    BY <1>28, <1>29
  <2>2. p + k + q = h + least + room
    BY <2>1, <1>6, <1>7
  <2>3. CASE size < 0
    <3>1. room = 0 /\ W <= h + least
      BY <2>3, <1>11, <1>26, <1>30, <1>31
    <3>2. filled => k = h + least
      BY <3>1, <1>28, <1>6, <1>7
    <3>3. ~ filled => k = h + least
      BY <1>28, <1>6, <1>7
    <3>4. QED
      BY <2>2, <3>1, <3>2, <3>3 DEF Max2
  <2>4. CASE size >= 0
    <3>1. room = size /\ W = h + least + size
      BY <2>4, <1>11, <1>27, <1>30, <1>31
    <3>2. k <= W
      BY <3>1, <1>28, <1>6, <1>7, <2>4
    <3>4. QED
      BY <2>2, <3>1, <3>2 DEF Max2
  <2>5. QED
    BY <2>3, <2>4
<1>16. l = IF filled THEN Max2(least, W - h) ELSE least
  <2>1. CASE filled
    <3>1. l = least + room
      BY <1>7, <1>28, <2>1
    <3>2. Max2(least, W - h) = least + room
      <4>1. CASE size < 0
        BY <4>1, <1>11, <1>26, <1>30, <1>31 DEF Max2
      <4>2. CASE size >= 0
        BY <4>2, <1>11, <1>27, <1>30, <1>31 DEF Max2
      <4>3. QED
        BY <4>1, <4>2
    <3>3. QED
      BY <2>1, <3>1, <3>2
  <2>2. CASE ~ filled
    BY <1>7, <1>28, <2>2
  <2>3. QED
    BY <2>1, <2>2
<1>17. IsDigits(d, {Case(item)}) /\ Numeral(d, Base(item)) = Magnitude(item)
  <2>1. IsDigits(t, {Case(item)}) /\ Numeral(t, Base(item)) = Magnitude(item)
    BY Zenon DEF Represents
  <2>2. \A i \in 1 .. Len(z) : z[i] = "0"
    BY Zenon DEF IsLaidOut, AllAre
  <2>3. IsDigits(z \o t, {Case(item)}) /\ Numeral(z \o t, Base(item)) = Numeral(t, Base(item))
    BY <1>1, <2>1, <2>2, NumeralOfZeros
  <2>4. QED
    BY <1>2, <2>1, <2>3
<1>18. \A i \in DOMAIN d : d[i] \in ToSet(digits({Case(item)}))
  <2>1. DOMAIN d = 1 .. Len(d)
    BY LenProperties
  <2>2. QED
    BY <1>17, <2>1, DigitTexts, Zenon
<1>19. \A i \in 1 .. n : d[i] = "0"
  <2>1. \A i \in 1 .. n : i \in 1 .. n + m /\ i <= n
    OBVIOUS
  <2>2. \A i \in 1 .. n : z[i] = "0"
    BY <1>5, Zenon DEF IsLaidOut, AllAre
  <2>3. QED
    BY <1>7, <2>1, <2>2, Zenon
<1>20. d[n + 1] # "0" \/ n = l - 1
  <2>1. n + 1 \in 1 .. n + m /\ ~ (n + 1 <= n) /\ (n + 1) - n = 1
    BY <1>14
  <2>2. d[n + 1] = t[1]
    BY <1>7, <2>1, Zenon
  <2>3. t[1] # "0" \/ m = 1
    BY <1>4, Zenon DEF Represents
  <2>4. QED
    BY <1>7, <2>2, <2>3
<1>21. AllBlank(a) /\ AllBlank(b)
  <2>1. DOMAIN a = 1 .. Len(a) /\ DOMAIN b = 1 .. Len(b)
    BY <1>1, LenProperties
  <2>2. QED
    BY <2>1, Zenon DEF AllBlank, IsLaidOut, AllAre
<1>22. /\ p \in 0 .. Len(text) /\ q \in 0 .. Len(text) /\ p + q <= Len(text)
       /\ Len(text) - q = p + k /\ Len(text) - q + 1 = (p + k) + 1 /\ h <= k
       /\ n \in 0 .. l - 1 /\ l - n = m
  BY <1>6, <1>7, <1>9, <1>14
<1>23. IF leftwards THEN p = 0 ELSE q = 0
  BY <1>12
<1>24. QED
  <2> DEFINE inner_ == SubSeq(text, p + 1, Len(text) - q)
             head_ == Sign(item) \o Prefix(item)
             number_ == SubSeq(inner_, Len(head_) + 1, Len(inner_))
             width_ == IF Pointer(item) THEN 8 ELSE Width(item)
             filled_ == ("ZEROPAD" \in item.flags \/ Pointer(item)) /\ ~ LeftAligned(item)
  <2>1. inner_ = inner /\ head_ = head /\ width_ = W /\ (filled_ <=> filled)
    BY <1>9, <1>13, <1>22
  <2>2. number_ = d
    BY <1>4, <1>8, <2>1, Zenon
  <2>3. /\ p + q <= Len(text) /\ Len(head_) <= Len(inner_)
        /\ SubSeq(inner_, 1, Len(head_)) = head_
    BY <1>4, <1>8, <1>22, <2>1, Zenon
  <2>4. /\ \A i \in DOMAIN number_ : number_[i] \in ToSet(digits({Case(item)}))
        /\ Numeral(number_, Base(item)) = Magnitude(item)
    BY <1>17, <1>18, <2>2, Zenon
  <2>5. \E zeros \in 0 .. Len(number_) - 1 :
          LET least_ == Max2(Len(number_) - zeros, precision_of(item))
          IN /\ \A i \in 1 .. zeros : number_[i] = "0"
             /\ number_[zeros + 1] # "0" \/ zeros = Len(number_) - 1
             /\ Len(number_) = IF filled_ THEN Max2(least_, width_ - Len(head_)) ELSE least_
    BY <1>4, <1>10, <1>16, <1>19, <1>20, <1>22, <2>1, <2>2, Zenon
  <2>6. /\ AllBlank(SubSeq(text, 1, p)) /\ AllBlank(SubSeq(text, Len(text) - q + 1, Len(text)))
        /\ Len(text) = Max2(width_, Len(inner_))
        /\ IF LeftAligned(item) THEN p = 0 ELSE q = 0
    BY <1>4, <1>9, <1>15, <1>21, <1>22, <1>23, <2>1, Zenon
  <2> HIDE DEF inner_, head_, number_, width_, filled_
  <2>7. QED
    BY <1>22, <2>3, <2>4, <2>5, <2>6, Zenon DEF IsNumber, inner_, head_, number_, width_, filled_

\* what the item asks for
ItemAsksFor(item, head, width, leftwards, filled) ==
  /\ head \in Seq(Char) /\ width \in Int /\ Base(item) \in Nat /\ precision_of(item) \in Int
  /\ head = Sign(item) \o Prefix(item)
  /\ leftwards \in BOOLEAN /\ (leftwards <=> LeftAligned(item))
  /\ filled \in BOOLEAN /\ (filled <=> ("ZEROPAD" \in item.flags \/ Pointer(item)) /\ ~ leftwards)
  /\ Max2(width, 0) = IF Pointer(item) THEN 8 ELSE Width(item)

LEMMA ItemReads ==
  ASSUME NEW item, NEW text, NEW t, NEW z, NEW a, NEW b, NEW head, NEW width, NEW leftwards, NEW filled,
         ItemAsksFor(item, head, width, leftwards, filled),
         Represents(t, Magnitude(item), Base(item), {Case(item)}),
         IsLaidOut(text, t, z, a, b, head, width, precision_of(item), leftwards, filled)
  PROVE  IsNumber(item, text)
<1>1. /\ head \in Seq(Char) /\ width \in Int /\ Base(item) \in Nat /\ precision_of(item) \in Int
      /\ head = Sign(item) \o Prefix(item)
      /\ leftwards \in BOOLEAN /\ (leftwards <=> LeftAligned(item))
      /\ filled \in BOOLEAN /\ (filled <=> ("ZEROPAD" \in item.flags \/ Pointer(item)) /\ ~ leftwards)
      /\ Max2(width, 0) = IF Pointer(item) THEN 8 ELSE Width(item)
  BY Zenon DEF ItemAsksFor
<1>2. QED
  BY <1>1, LaidOutReads, Zenon

-----------------------------------------------------------------------------
(* The conversions, one by one.                                              *)

\* the width and the precision are numbers, and a case is no flag of the format
LEMMA FormatOfItem ==
  ASSUME NEW item, ItemIsTyped(item)
  PROVE  /\ field_width(item) \in Int /\ precision_of(item) \in Int
         /\ "SMALL" \notin Flags(item)
         /\ Width(item) \in Nat /\ Max2(field_width(item), 0) = Width(item)
         /\ LeftAligned(item) <=> "LEFT" \in Flags(item)
         /\ "ZEROPAD" \in Flags(item) <=> "ZEROPAD" \in item.flags
         /\ "PLUS" \in Flags(item) <=> "PLUS" \in item.flags
         /\ "SPACE" \in Flags(item) <=> "SPACE" \in item.flags
         /\ "SPECIAL" \in Flags(item) <=> "SPECIAL" \in item.flags
         /\ item.precision # << >> => precision_of(item) >= 0
         /\ item.precision = << >> => precision_of(item) = -1
         /\ field_width(item) = -1 <=> item.width = << >>
<1>1. item.width \in Seq(Int) /\ Len(item.width) <= 1 /\ item.precision \in Seq(Nat) /\ Len(item.precision) <= 1
      /\ item.flags \subseteq {"LEFT", "PLUS", "SPACE", "SPECIAL", "ZEROPAD"}
  BY DEF ItemIsTyped
<1>2. item.width # << >> => item.width[1] \in Int
  <2>1. ASSUME item.width # << >> PROVE 1 \in 1 .. Len(item.width)
    BY <1>1, <2>1, EmptySeq, LenProperties
  <2>2. QED
    BY <1>1, <2>1, ElementOfSeq
<1>3. item.precision # << >> => item.precision[1] \in Nat
  <2>1. ASSUME item.precision # << >> PROVE 1 \in 1 .. Len(item.precision)
    BY <1>1, <2>1, EmptySeq, LenProperties
  <2>2. QED
    BY <1>1, <2>1, ElementOfSeq
<1>4. field_width(item) \in Int /\ (field_width(item) = -1 <=> item.width = << >>)
  BY <1>2 DEF field_width
<1>5. /\ precision_of(item) \in Int
      /\ item.precision # << >> => precision_of(item) >= 0
      /\ item.precision = << >> => precision_of(item) = -1
  BY <1>3 DEF precision_of
<1>6. "SMALL" \notin Flags(item)
  BY <1>1 DEF Flags
<1>7. Width(item) \in Nat /\ Max2(field_width(item), 0) = Width(item)
  BY <1>2 DEF Width, field_width, Max2
<1>8. LeftAligned(item) <=> "LEFT" \in Flags(item)
  BY DEF LeftAligned, Flags
<1>9. \A f \in {"ZEROPAD", "PLUS", "SPACE", "SPECIAL"} : f \in Flags(item) <=> f \in item.flags
  BY DEF Flags
<1>10. QED
  BY <1>4, <1>5, <1>6, <1>7, <1>8, <1>9

\* flags that say the same lead to the same sign and prefix
SameFlags(flags, g) ==
  \A f \in {"LEFT", "PLUS", "SPACE", "SPECIAL"} : f \in flags <=> f \in g

CaseIs(flags, case) ==
  case \in {"SMALL", "CAPITAL"} /\ ("SMALL" \in flags <=> case = "SMALL")

LEMMA SameHead ==
  ASSUME NEW flags, NEW g, SameFlags(flags, g), NEW case, CaseIs(flags, case), "SMALL" \notin g, NEW base
  PROVE  SignOf(flags) = SignOf(g) /\ PrefixOf(base, flags) = PrefixOf(base, g \cup {case})
<1>1. /\ "PLUS" \in flags <=> "PLUS" \in g
      /\ "SPACE" \in flags <=> "SPACE" \in g
      /\ "SPECIAL" \in flags <=> "SPECIAL" \in g
  BY DEF SameFlags
<1>2. SignOf(flags) = SignOf(g)
  BY <1>1, Zenon DEF SignOf
<1>3. /\ "SPECIAL" \in g \cup {case} <=> "SPECIAL" \in flags
      /\ "SMALL" \in g \cup {case} <=> "SMALL" \in flags
  BY <1>1 DEF CaseIs
<1>4. PrefixOf(base, flags) = PrefixOf(base, g \cup {case})
  BY <1>3, Zenon DEF PrefixOf
<1>5. QED
  BY <1>2, <1>4

\* flags and a width that say what the item says
Say(flags, width, item) ==
  /\ item.arg \in Int /\ width \in Int
  /\ SameFlags(flags, Flags(item))
  /\ "SMALL" \in flags <=> Case(item) = "SMALL"
  /\ "ZEROPAD" \in flags <=> ("ZEROPAD" \in item.flags \/ Pointer(item))
  /\ Max2(width, 0) = IF Pointer(item) THEN 8 ELSE Width(item)

IsNumberText(item, text) == text \in Seq(Char) /\ (Negative(item) \/ IsNumber(item, text))

\* the sign and the absolute value of a number that is not negative
LEMMA NotNegative ==
  ASSUME NEW item, ItemIsTyped(item), item.arg \in Int, ~ Negative(item),
         item.conv \in {"o", "p", "x", "X", "d", "i", "u"}
  PROVE  /\ Sign(item) = SignOf(Flags(item))
         /\ Prefix(item) = PrefixOf(Base(item), Flags(item) \cup {Case(item)})
         /\ Magnitude(item) = item.arg % WORD
<1>1. /\ "SMALL" \notin Flags(item)
      /\ "PLUS" \in Flags(item) <=> "PLUS" \in item.flags
      /\ "SPACE" \in Flags(item) <=> "SPACE" \in item.flags
      /\ "SPECIAL" \in Flags(item) <=> "SPECIAL" \in item.flags
  BY FormatOfItem
<1>2. Sign(item) = SignOf(Flags(item))
  BY <1>1, Zenon DEF Sign, SignOf
<1>3. /\ "SPECIAL" \in Flags(item) \cup {Case(item)} <=> "SPECIAL" \in item.flags
      /\ "SMALL" \in Flags(item) \cup {Case(item)} <=> item.conv = "x"
  BY <1>1 DEF Case
<1>4. Prefix(item) = PrefixOf(Base(item), Flags(item) \cup {Case(item)})
  <2>1. CASE "SPECIAL" \notin item.flags
    BY <1>3, <2>1 DEF Prefix, PrefixOf
  <2>2. CASE "SPECIAL" \in item.flags /\ item.conv = "o"
    BY <1>3, <2>2 DEF Prefix, PrefixOf, Base
  <2>3. CASE "SPECIAL" \in item.flags /\ item.conv = "x"
    BY <1>3, <2>3 DEF Prefix, PrefixOf, Base
  <2>4. CASE "SPECIAL" \in item.flags /\ item.conv \in {"X", "p"}
    BY <1>3, <2>4 DEF Prefix, PrefixOf, Base
  <2>5. CASE "SPECIAL" \in item.flags /\ item.conv \in {"d", "i", "u"}
    BY <1>3, <2>5 DEF Prefix, PrefixOf, Base
  <2>6. QED
    BY <2>1, <2>2, <2>3, <2>4, <2>5
<1>5. Magnitude(item) = item.arg % WORD
  <2>1. CASE item.conv \in {"d", "i"}
    <3>1. WORD \in Nat \ {0} /\ 2 * item.arg < WORD
      BY <2>1, PrintfAssumption DEF ItemIsTyped
    <3>2. item.arg \in 0 .. WORD - 1
      BY <2>1, <3>1 DEF Negative
    <3>3. item.arg % WORD = item.arg
      BY <3>1, <3>2
    <3>4. QED
      BY <2>1, <3>2, <3>3 DEF Magnitude
  <2>2. CASE item.conv \notin {"d", "i"}
    BY <2>2, Zenon DEF Magnitude
  <2>3. QED
    BY <2>1, <2>2
<1>6. QED
  BY <1>2, <1>4, <1>5

LEMMA NumberReads ==
  ASSUME NEW item, ItemIsTyped(item), NEW flags, NEW width, Say(flags, width, item),
         item.conv \in {"o", "p", "x", "X", "d", "i", "u"}
  PROVE  IsNumberText(item, number(item.arg % WORD, Base(item), width, precision_of(item), flags))
<1>0. /\ item.arg \in Int /\ width \in Int
      /\ SameFlags(flags, Flags(item))
      /\ "SMALL" \in flags <=> Case(item) = "SMALL"
      /\ "ZEROPAD" \in flags <=> ("ZEROPAD" \in item.flags \/ Pointer(item))
      /\ Max2(width, 0) = IF Pointer(item) THEN 8 ELSE Width(item)
  BY Zenon DEF Say
<1> DEFINE text == number(item.arg % WORD, Base(item), width, precision_of(item), flags)
           head == SignOf(flags) \o PrefixOf(Base(item), flags)
<1>1. item.arg % WORD \in Nat
  <2>1. PICK i \in Int : i = item.arg
    BY <1>0
  <2>2. WORD \in Nat \ {0}
    BY PrintfAssumption, Zenon
  <2>3. i % WORD \in Nat
    BY <2>2
  <2>4. QED
    BY <2>1, <2>3
<1>2. Base(item) \in {8, 10, 16} /\ Base(item) \in Nat /\ Case(item) \in {"SMALL", "CAPITAL"}
  BY DEF Base, Case
<1>3. precision_of(item) \in Int /\ "SMALL" \notin Flags(item)
  BY FormatOfItem, Zenon
<1>4. head \in Seq(Char)
  BY HeadIsText, Zenon
<1>5. head = SignOf(Flags(item)) \o PrefixOf(Base(item), Flags(item) \cup {Case(item)})
  <2>1. /\ SignOf(flags) = SignOf(Flags(item))
        /\ PrefixOf(Base(item), flags) = PrefixOf(Base(item), Flags(item) \cup {Case(item)})
    <3>1. CaseIs(flags, Case(item))
      BY <1>0, <1>2, Zenon DEF CaseIs
    <3>2. QED
      BY <1>0, <1>3, <3>1, SameHead
  <2>2. QED
    BY <2>1
<1>6. PICK leftwards \in BOOLEAN : leftwards <=> "LEFT" \in flags
  OBVIOUS
<1>7. leftwards <=> LeftAligned(item)
  BY <1>0, <1>6, FormatOfItem DEF SameFlags
<1>8. PICK filled \in BOOLEAN : filled <=> "ZEROPAD" \in flags /\ ~ leftwards
  OBVIOUS
<1>9. filled <=> ("ZEROPAD" \in item.flags \/ Pointer(item)) /\ ~ leftwards
  BY <1>0, <1>8, Zenon
<1>10. PICK t, z, a, b :
         /\ Represents(t, item.arg % WORD, Base(item), flags)
         /\ IsLaidOut(text, t, z, a, b, head, width, precision_of(item), leftwards, filled)
  <2>1. AskFor(flags, Base(item), head, leftwards, filled)
    BY <1>6, <1>8, Zenon DEF AskFor
  <2>2. QED
    BY <1>0, <1>1, <1>2, <1>3, <2>1, NumberIsLaidOut, Zenon DEF HasLayout
<1>11. Represents(t, item.arg % WORD, Base(item), {Case(item)})
  <2>1. "SMALL" \in flags <=> "SMALL" \in {Case(item)}
    BY <1>0, <1>2
  <2>2. QED
    BY <1>10, <2>1, SameDigits, Zenon
<1> HIDE DEF text, head
<1>12. ASSUME ~ Negative(item) PROVE IsNumber(item, text)
  <2>1. /\ Sign(item) = SignOf(Flags(item))
        /\ Prefix(item) = PrefixOf(Base(item), Flags(item) \cup {Case(item)})
        /\ Magnitude(item) = item.arg % WORD
    BY <1>0, <1>12, NotNegative, Zenon
  <2>2. head = Sign(item) \o Prefix(item) /\ Represents(t, Magnitude(item), Base(item), {Case(item)})
    BY <1>5, <1>11, <2>1, Zenon
  <2>3. ItemAsksFor(item, head, width, leftwards, filled)
    BY <1>0, <1>2, <1>3, <1>4, <1>7, <1>9, <2>2, Zenon DEF ItemAsksFor
  <2>4. QED
    BY <1>10, <2>2, <2>3, ItemReads, Zenon
<1>13. text \in Seq(Char)
  <2>1. t \in Seq(Char) /\ z \in Seq(Char) /\ a \in Seq(Char) /\ b \in Seq(Char)
    BY <1>10, Zenon DEF Represents, IsDigits, IsLaidOut, AllAre
  <2>2. (a \o (head \o (z \o t))) \o b \in Seq(Char)
    BY <1>4, <2>1, AllJoin, Zenon
  <2>3. QED
    BY <1>10, <2>2 DEF IsLaidOut
<1>14. QED
  BY <1>12, <1>13 DEF text, IsNumberText


\* blanks before or after a text
LEMMA JustifiedIs ==
  ASSUME NEW item, ItemIsTyped(item), NEW inner \in Seq(Char)
  PROVE  LET text == Justify(inner, field_width(item), Flags(item))
         IN text \in Seq(Char) /\ Aligned(item, text, inner)
<1> DEFINE text == Justify(inner, field_width(item), Flags(item))
<1>1. PICK width \in Int : width = field_width(item)
  BY FormatOfItem, Zenon
<1>2. PICK l \in Nat : l = Len(inner)
  BY LenProperties
<1>3. PICK size \in Int : size = width - l
  OBVIOUS
<1>4. PICK b : b = Rep(size, " ")
  OBVIOUS
<1>5. " " \in Char
  BY Characters, Zenon
<1>6. AllAre(b, " ") /\ Len(b) = Max2(size, 0)
  BY <1>4, <1>5, RepIs, Zenon
<1>7. PICK q \in Nat : q = Len(b) /\ q = Max2(size, 0)
  BY <1>6, LenProperties, Zenon DEF AllAre
<1>8. b \in Seq(Char) /\ \A i \in 1 .. q : b[i] = " "
  BY <1>6, <1>7, Zenon DEF AllAre
<1>9. AllBlank(b)
  <2>1. DOMAIN b = 1 .. q
    BY <1>7, <1>8, LenProperties, Zenon
  <2>2. QED
    BY <1>8, <2>1, Zenon DEF AllBlank
<1>10. l + q = Max2(Width(item), l)
  <2>1. PICK w \in Int : w = Width(item)
    BY FormatOfItem
  <2>2. w = IF width > 0 THEN width ELSE 0
    BY <1>1, <2>1, FormatOfItem DEF Max2
  <2>3. q = IF size > 0 THEN size ELSE 0
    BY <1>7 DEF Max2
  <2>4. l + q = IF w > l THEN w ELSE l
    BY <1>3, <2>2, <2>3
  <2>5. QED
    BY <2>1, <2>4, Zenon DEF Max2
<1>11. PICK e \in Seq(Char) : e = << >> /\ Len(e) = 0
  BY EmptySeq
<1>12. CASE LeftAligned(item)
  <2>1. text = inner \o b
    BY <1>1, <1>2, <1>3, <1>4, <1>12, FormatOfItem, Zenon DEF Justify
  <2> HIDE DEF text
  <2>2. HasParts((inner \o b) \o e, inner, b, e) /\ inner \o b \in Seq(Char)
    BY <1>8, Middle, AllJoin, Zenon
  <2>3. (inner \o b) \o e = inner \o b
    BY <1>11, <2>2, ConcatEmptySeq
  <2>4. text \in Seq(Char) /\ HasParts(text, inner, b, e)
    BY <2>1, <2>2, <2>3
  <2>5. Len(text) = (l + q) + 0 /\ SubSeq(text, l + 1, l + q) = b
    BY <1>2, <1>7, <1>11, <2>4, Zenon DEF HasParts
  <2>6. Len(text) = l + q
    BY <2>5
  <2>7. text = inner \o SubSeq(text, Len(inner) + 1, Len(text)) /\ SubSeq(text, Len(inner) + 1, Len(text)) = b
    BY <1>2, <2>1, <2>5, <2>6
  <2>8. AllBlank(SubSeq(text, Len(inner) + 1, Len(text)))
    BY <1>9, <2>7
  <2>9. Len(text) = Max2(Width(item), Len(inner))
    BY <1>2, <1>10, <2>6, Zenon
  <2>10. Aligned(item, text, inner)
    BY <1>12, <2>7, <2>8, <2>9, Zenon DEF Aligned
  <2>11. QED
    BY <2>4, <2>10, Zenon DEF text
<1>13. CASE ~ LeftAligned(item)
  <2>1. text = b \o inner
    BY <1>1, <1>2, <1>3, <1>4, <1>13, FormatOfItem, Zenon DEF Justify
  <2> HIDE DEF text
  <2>2. HasParts((b \o inner) \o e, b, inner, e) /\ b \o inner \in Seq(Char)
    BY <1>8, Middle, AllJoin, Zenon
  <2>3. (b \o inner) \o e = b \o inner
    BY <1>11, <2>2, ConcatEmptySeq
  <2>4. text \in Seq(Char) /\ HasParts(text, b, inner, e)
    BY <2>1, <2>2, <2>3
  <2>5. /\ Len(text) = (q + l) + 0 /\ SubSeq(text, 1, q) = b
        /\ SubSeq(text, q + 1, q + l) = inner
    BY <1>2, <1>7, <1>11, <2>4, Zenon DEF HasParts
  <2>6. Len(text) = l + q /\ q + l = Len(text) /\ Len(text) - Len(inner) = q
    BY <1>2, <2>5
  <2>7. SubSeq(text, Len(text) - Len(inner) + 1, Len(text)) = inner
    BY <2>5, <2>6, Zenon
  <2>8. AllBlank(SubSeq(text, 1, Len(text) - Len(inner)))
    BY <1>9, <2>5, <2>6, Zenon
  <2>9. Len(text) = Max2(Width(item), Len(inner))
    BY <1>2, <1>10, <2>6, Zenon
  <2>10. Aligned(item, text, inner)
    BY <1>13, <2>7, <2>8, <2>9, Zenon DEF Aligned
  <2>11. QED
    BY <2>4, <2>10, Zenon DEF text
<1>14. QED
  BY <1>12, <1>13, Zenon

\* what is stored for an item is the text of the item, or nothing is asked of it
IsItsText(item, text) ==
  text \in Seq(Char) /\ (IsText(item, text) \/ Exempt(item, {"sign", "star"}))

LEMMA PlainIs ==
  ASSUME NEW item, ItemIsTyped(item), ~ item.starred
  PROVE  IsItsText(item, Convert(item))
<1> DEFINE flags == Flags(item)
           num == item.arg % WORD
           width == field_width(item)
           precision == precision_of(item)
<1>1. /\ item.conv \in {"char", "c", "s", "o", "p", "x", "X", "d", "i", "u", "n", "%", "end", "?"}
      /\ item.conv \in {"char", "c"} => item.arg \in Char
      /\ item.conv = "s" => item.arg \in Seq(Char)
      /\ item.conv \in {"o", "p", "x", "X", "d", "i", "u"} => item.arg \in Int
  BY Zenon DEF ItemIsTyped
<1>2. /\ width \in Int /\ precision \in Int /\ "SMALL" \notin flags
      /\ item.precision # << >> => precision >= 0
      /\ item.precision = << >> => precision = -1
      /\ width = -1 <=> item.width = << >>
  BY FormatOfItem
<1>3. Max2(width, 0) = Width(item) /\ ("ZEROPAD" \in flags <=> "ZEROPAD" \in item.flags)
  BY FormatOfItem
<1>4. SameFlags(flags, flags) /\ SameFlags(flags \cup {"SIGN"}, flags) /\ SameFlags(flags \cup {"SMALL"}, flags)
        /\ SameFlags(flags \cup {"ZEROPAD"}, flags)
  BY DEF SameFlags
<1> HIDE DEF flags, num, width, precision
<1>5. ASSUME NEW f, NEW w, Say(f, w, item),
             item.conv \in {"o", "p", "x", "X", "d", "i", "u"},
             Convert(item) = number(num, Base(item), w, precision, f)
      PROVE  IsItsText(item, Convert(item))
  <2>1. IsNumberText(item, Convert(item))
    BY <1>5, NumberReads, Zenon DEF num, precision
  <2>2. IsText(item, Convert(item)) \/ Negative(item)
    BY <1>5, <2>1, Zenon DEF IsNumberText, IsText
  <2>3. QED
    BY <2>1, <2>2 DEF IsItsText, IsNumberText, Exempt
<1>6. CASE item.conv = "char"
  <2>1. Convert(item) = <<item.arg>> /\ item.arg \in Char
    BY <1>1, <1>6, Zenon DEF Convert
  <2>2. Convert(item) \in Seq(Char)
    BY <2>1
  <2>3. QED
    BY <1>6, <2>1, <2>2, Zenon DEF IsText, IsItsText
<1>7. CASE item.conv = "c"
  <2>1. Convert(item) = Justify(<<item.arg>>, width, flags) /\ item.arg \in Char
    BY <1>1, <1>7, Zenon DEF Convert, width, flags
  <2>2. PICK inner \in Seq(Char) : inner = <<item.arg>>
    <3>1. PICK ch \in Char : ch = item.arg
      BY <2>1
    <3>2. <<ch>> \in Seq(Char)
      OBVIOUS
    <3>3. QED
      BY <3>1, <3>2, Zenon
  <2>3. Convert(item) \in Seq(Char) /\ Aligned(item, Convert(item), inner)
    BY <2>1, <2>2, JustifiedIs, Zenon DEF width, flags
  <2>4. QED
    BY <1>7, <2>2, <2>3, Zenon DEF IsText, IsItsText
<1>8. CASE item.conv = "s"
  <2>1. Convert(item) = Justify(Shortened(item.arg, precision), width, flags) /\ item.arg \in Seq(Char)
    BY <1>1, <1>8, Zenon DEF Convert, width, flags, precision
  <2>2. PICK l \in Nat : l = Len(item.arg)
    BY <2>1, LenProperties
  <2>3. PICK n \in 0 .. l : /\ Shortened(item.arg, precision) = SubSeq(item.arg, 1, n)
                            /\ n = l \/ n = precision
                            /\ item.precision # << >> => n <= precision
    <3>1. CASE precision < 0 \/ l <= precision
      <4>1. Shortened(item.arg, precision) = item.arg /\ SubSeq(item.arg, 1, l) = item.arg
        BY <2>1, <2>2, <3>1, SubSeqFull DEF Shortened
      <4>2. l \in 0 .. l /\ (item.precision # << >> => l <= precision)
        BY <1>2, <3>1
      <4>3. QED
        BY <4>1, <4>2
    <3>2. CASE ~ (precision < 0 \/ l <= precision)
      <4>1. Shortened(item.arg, precision) = SubSeq(item.arg, 1, precision)
        BY <2>2, <3>2, Zenon DEF Shortened
      <4>2. precision \in 0 .. l /\ precision <= precision
        BY <1>2, <3>2
      <4>3. QED
        BY <4>1, <4>2
    <3>3. QED
      BY <3>1, <3>2
  <2>4. PICK inner \in Seq(Char) : inner = SubSeq(item.arg, 1, n)
    <3>1. PICK s \in Seq(Char) : s = item.arg
      BY <2>1
    <3>2. SubSeq(s, 1, n) \in Seq(Char)
      BY <2>2, <3>1, SubSeqProperties
    <3>3. QED
      BY <3>1, <3>2, Zenon
  <2>5. Convert(item) \in Seq(Char) /\ Aligned(item, Convert(item), inner)
    BY <2>1, <2>3, <2>4, JustifiedIs, Zenon DEF width, flags
  <2>6. n \in 0 .. Len(item.arg) /\ (n = Len(item.arg) \/ n = precision_of(item))
          /\ (item.precision # << >> => n <= precision_of(item))
    BY <2>2, <2>3, Zenon DEF precision
  <2>7. QED
    BY <1>8, <2>4, <2>5, <2>6, Zenon DEF IsText, IsItsText
<1>9. CASE item.conv \in {"o", "X", "u"}
  <2>1. item.arg \in Int
    BY <1>1, <1>9
  <2>2. Case(item) = "CAPITAL" /\ ~ Pointer(item)
    BY <1>9 DEF Case, Pointer
  <2>3. Say(flags, width, item)
    BY <1>2, <1>3, <1>4, <2>1, <2>2 DEF Say, flags
  <2>4. Convert(item) = number(num, Base(item), width, precision, flags)
    BY <1>9, Zenon DEF Convert, Base, flags, num, width, precision
  <2>5. QED
    BY <1>5, <1>9, <2>3, <2>4, Zenon
<1>10. CASE item.conv \in {"d", "i"}
  <2>1. item.arg \in Int
    BY <1>1, <1>10
  <2>2. Case(item) = "CAPITAL" /\ ~ Pointer(item)
    BY <1>10 DEF Case, Pointer
  <2>3. Say(flags \cup {"SIGN"}, width, item)
    BY <1>2, <1>3, <1>4, <2>1, <2>2 DEF Say, flags
  <2>4. Convert(item) = number(num, Base(item), width, precision, flags \cup {"SIGN"})
    BY <1>10, Zenon DEF Convert, Base, flags, num, width, precision
  <2>5. QED
    BY <1>5, <1>10, <2>3, <2>4, Zenon
<1>11. CASE item.conv = "x"
  <2>1. item.arg \in Int
    BY <1>1, <1>11
  <2>2. Case(item) = "SMALL" /\ ~ Pointer(item)
    BY <1>11 DEF Case, Pointer
  <2>3. Say(flags \cup {"SMALL"}, width, item)
    BY <1>2, <1>3, <1>4, <2>1, <2>2 DEF Say, flags
  <2>4. Convert(item) = number(num, Base(item), width, precision, flags \cup {"SMALL"})
    BY <1>11, Zenon DEF Convert, Base, flags, num, width, precision
  <2>5. QED
    BY <1>5, <1>11, <2>3, <2>4, Zenon
<1>12. CASE item.conv = "p"
  <2>1. item.arg \in Int
    BY <1>1, <1>12
  <2>2. Case(item) = "CAPITAL" /\ (Pointer(item) <=> width = -1)
    BY <1>2, <1>12 DEF Case, Pointer
  <2>3. CASE width = -1
    <3>1. Max2(8, 0) = 8
      BY DEF Max2
    <3>2. Say(flags \cup {"ZEROPAD"}, 8, item)
      BY <1>2, <1>4, <2>1, <2>2, <2>3, <3>1 DEF Say, flags
    <3>3. Convert(item) = number(num, Base(item), 8, precision, flags \cup {"ZEROPAD"})
      BY <1>12, <2>3, Zenon DEF Convert, Base, flags, num, width, precision
    <3>4. QED
      BY <1>5, <1>12, <3>2, <3>3, Zenon
  <2>4. CASE width # -1
    <3>1. Say(flags, width, item)
      BY <1>2, <1>3, <1>4, <2>1, <2>2, <2>4 DEF Say, flags
    <3>2. Convert(item) = number(num, Base(item), width, precision, flags)
      BY <1>12, <2>4, Zenon DEF Convert, Base, flags, num, width, precision
    <3>3. QED
      BY <1>5, <1>12, <3>1, <3>2, Zenon
  <2>5. QED
    BY <2>3, <2>4
<1>13. CASE item.conv = "n"
  <2>1. Convert(item) = << >>
    BY <1>13, Zenon DEF Convert
  <2>2. Convert(item) \in Seq(Char)
    BY <2>1, EmptySeq
  <2>3. QED
    BY <1>13, <2>1, <2>2, Zenon DEF IsText, IsItsText
<1>14. CASE item.conv \in {"%", "end"}
  <2>1. Convert(item) = <<"%">>
    BY <1>14, Zenon DEF Convert
  <2>2. PICK ch \in Char : ch = "%"
    BY Characters, Zenon
  <2>3. <<ch>> \in Seq(Char)
    OBVIOUS
  <2>4. Convert(item) \in Seq(Char)
    BY <2>1, <2>2, <2>3, Zenon
  <2>5. QED
    BY <1>14, <2>1, <2>4, Zenon DEF IsText, IsItsText
<1>15. CASE item.conv = "?"
  <2>1. Convert(item) = <<"%", item.conv>>
    BY <1>15, Zenon DEF Convert
  <2>2. PICK ch, d \in Char : ch = "%" /\ d = item.conv
    BY <1>15, Characters, Zenon
  <2>3. <<ch, d>> \in Seq(Char)
    OBVIOUS
  <2>4. Convert(item) \in Seq(Char)
    BY <2>1, <2>2, <2>3, Zenon
  <2>5. QED
    BY <1>15, <2>1, <2>4, Zenon DEF IsText, IsItsText
<1>16. QED
  BY <1>1, <1>6, <1>7, <1>8, <1>9, <1>10, <1>11, <1>12, <1>13, <1>14, <1>15, Zenon


LEMMA ConvertIs ==
  ASSUME NEW item, ItemIsTyped(item)
  PROVE  Convert(item) \in Seq(Char) /\ (IsText(item, Convert(item)) \/ Exempt(item, {"sign", "star"}))
<1>1. CASE item.starred
  <2>1. item.conv \in {"c", "s", "o", "p", "x", "X", "d", "i", "u", "?"}
    BY <1>1 DEF ItemIsTyped
  <2>2. Convert(item) = <<"%", "*", item.conv>>
    BY <1>1, Zenon DEF Convert
  <2>3. PICK ch, d, e \in Char : ch = "%" /\ d = "*" /\ e = item.conv
    <3>1. item.conv \in Char /\ "%" \in Char /\ "*" \in Char
      BY <2>1, Characters
    <3>2. QED
      BY <3>1, Zenon
  <2>4. <<ch, d, e>> \in Seq(Char)
    OBVIOUS
  <2>5. Convert(item) \in Seq(Char)
    BY <2>2, <2>3, <2>4, Zenon
  <2>6. Exempt(item, {"sign", "star"})
    BY <1>1 DEF Exempt
  <2>7. QED
    BY <2>5, <2>6
<1>2. CASE ~ item.starred
  BY <1>2, PlainIs, Zenon DEF IsItsText
<1>3. QED
  BY <1>1, <1>2


-----------------------------------------------------------------------------
(* The text of a format, item by item.                                       *)

\* the texts of the beginnings of what is flattened
AreTexts(T, c, N) ==
  T[0] = << >> /\ \A i \in 1 .. N : T[i] = T[i - 1] \o c[i]
FlattenTo(T, c, N) ==
  \A i \in 0 .. N : FlattenSeq([j \in 1 .. i |-> c[j]]) = T[i]

LEMMA FlattenTexts ==
  ASSUME NEW S, NEW N \in Nat, NEW c \in [1 .. N -> Seq(S)]
  PROVE  \E T \in [0 .. N -> Seq(S)] : AreTexts(T, c, N) /\ FlattenTo(T, c, N)
<1> DEFINE step == [p \in Nat \X Seq(S) |-> IF p[1] \in 1 .. N THEN p[2] \o c[p[1]] ELSE << >>]
<1>1. << >> \in Seq(S)
  BY EmptySeq
<1>2. step \in [Nat \X Seq(S) -> Seq(S)]
  <2>1. ASSUME NEW p \in Nat \X Seq(S) PROVE step[p] \in Seq(S)
    <3>1. p[1] \in 1 .. N => p[2] \o c[p[1]] \in Seq(S)
      BY ConcatProperties
    <3>2. QED
      BY <1>1, <3>1
  <2>2. QED
    BY <2>1
<1>3. PICK T \in [0 .. N -> Seq(S)] : IsMade(T, N, << >>, step)
  <2> HIDE DEF step
  <2>1. QED
    BY <1>1, <1>2, Recursion, Zenon
<1>4. T[0] = << >> /\ \A i \in 1 .. N : T[i] = step[<<i, T[i - 1]>>]
  BY <1>3, Zenon DEF IsMade
<1>5. ASSUME NEW i \in 1 .. N PROVE T[i] = T[i - 1] \o c[i]
  <2>1. i \in Nat /\ i - 1 \in 0 .. N /\ T[i - 1] \in Seq(S)
    OBVIOUS
  <2>2. step[<<i, T[i - 1]>>] = T[i - 1] \o c[i]
    BY <2>1
  <2>3. QED
    BY <1>4, <2>2
<1> HIDE DEF step
<1>6. ASSUME NEW i \in 0 .. N PROVE FlattenSeq([j \in 1 .. i |-> c[j]]) = T[i]
  <2>1. PICK s \in Seq(Seq(S)) : s = [j \in 1 .. i |-> c[j]] /\ Len(s) = i /\ \A j \in 1 .. i : s[j] = c[j]
    <3>1. [j \in 1 .. i |-> c[j]] \in [1 .. i -> Seq(S)]
      OBVIOUS
    <3>2. \A j \in 1 .. i : [h \in 1 .. i |-> c[h]][j] = c[j]
      OBVIOUS
    <3>3. i \in Nat
      OBVIOUS
    <3>4. [j \in 1 .. i |-> c[j]] \in Seq(Seq(S)) /\ Len([j \in 1 .. i |-> c[j]]) = i
      BY <3>1, <3>3, FunctionIsSeq, Zenon
    <3>5. QED
      BY <3>2, <3>4, Zenon
  <2>2. CASE i = 0
    <3>1. s = << >>
      BY <2>1, <2>2, EmptySeq
    <3>2. FlattenSeq(s) = << >>
      BY <2>1, <2>2, <3>1 DEF FlattenSeq
    <3>3. QED
      BY <1>4, <2>1, <2>2, <3>2
  <2>3. CASE i # 0
    <3>1. s # << >>
      BY <2>1, <2>3, EmptySeq
    <3>2. PICK f : /\ DOMAIN f = 1 .. i
                   /\ \A j \in 1 .. i : f[j] = IF j = 1 THEN s[j] ELSE f[j - 1] \o s[j]
                   /\ FlattenSeq(s) = f[i]
      BY <2>1, <3>1, FlattenIs, Zenon
    <3> DEFINE R == {j \in Nat : j \in 1 .. i => f[j] = T[j]}
    <3>3. 0 \in R
      OBVIOUS
    <3>4. ASSUME NEW j \in Nat, j \in R PROVE j + 1 \in R
      <4>1. SUFFICES ASSUME j + 1 \in 1 .. i PROVE f[j + 1] = T[j + 1]
        OBVIOUS
      <4>2. j + 1 \in 1 .. N /\ (j + 1) - 1 = j /\ j \in 0 .. N
        BY <4>1
      <4>3. T[j + 1] = T[j] \o c[j + 1] /\ s[j + 1] = c[j + 1]
        BY <1>5, <2>1, <4>1, <4>2
      <4>4. CASE j = 0
        <5>1. j + 1 = 1 /\ T[j] = << >>
          BY <1>4, <4>4
        <5>2. f[j + 1] = s[j + 1]
          BY <3>2, <4>1, <5>1
        <5>3. << >> \o c[j + 1] = c[j + 1]
          BY <4>2, ConcatEmptySeq
        <5>4. QED
          BY <4>3, <5>1, <5>2, <5>3
      <4>5. CASE j # 0
        <5>1. j + 1 # 1 /\ j \in 1 .. i
          BY <4>1, <4>5
        <5>2. f[j] = T[j]
          BY <3>4, <5>1
        <5>3. f[j + 1] = f[j] \o s[j + 1]
          BY <3>2, <4>1, <4>2, <5>1
        <5>4. QED
          BY <4>3, <5>2, <5>3
      <4>6. QED
        BY <4>4, <4>5
    <3>5. \A j \in Nat : j \in R
      <4> HIDE DEF R
      <4>1. QED
        BY <3>3, <3>4, Induction
    <3>6. i \in Nat /\ i \in 1 .. i
      BY <2>3
    <3>7. f[i] = T[i]
      BY <3>5, <3>6
    <3>8. QED
      BY <2>1, <3>2, <3>7
  <2>4. QED
    BY <2>2, <2>3
<1>7. AreTexts(T, c, N)
  BY <1>4, <1>5, Zenon DEF AreTexts
<1>8. FlattenTo(T, c, N)
  BY <1>6, Zenon DEF FlattenTo
<1>9. QED
  BY <1>7, <1>8, Zenon


\* the text of the first i items
Begun(fmt, i) == vsprintf(SubSeq(fmt, 1, i))

LEMMA FormatIs ==
  ASSUME NEW fmt, IsFormat(fmt)
  PROVE  /\ Len(fmt) \in Nat /\ fmt \in Seq(ToSet(fmt)) /\ DOMAIN fmt = 1 .. Len(fmt)
         /\ \A i \in 1 .. Len(fmt) : ItemIsTyped(fmt[i])
<1>1. fmt \in Seq(ToSet(fmt)) /\ \A item \in ToSet(fmt) : ItemIsTyped(item)
  BY Zenon DEF IsFormat
<1>2. Len(fmt) \in Nat /\ DOMAIN fmt = 1 .. Len(fmt)
  BY <1>1, LenProperties
<1>3. \A i \in 1 .. Len(fmt) : fmt[i] \in ToSet(fmt)
  BY <1>1, ElementOfSeq, Zenon
<1>4. QED
  BY <1>1, <1>2, <1>3, Zenon

LEMMA BegunIs ==
  ASSUME NEW fmt, IsFormat(fmt)
  PROVE  /\ Begun(fmt, 0) = << >> /\ Begun(fmt, Len(fmt)) = vsprintf(fmt)
         /\ \A i \in 0 .. Len(fmt) : Begun(fmt, i) \in Seq(Char)
         /\ \A i \in 1 .. Len(fmt) : Begun(fmt, i) = Begun(fmt, i - 1) \o Convert(fmt[i])
<1>1. PICK N \in Nat : N = Len(fmt)
  BY FormatIs, Zenon
<1>2. PICK S : S = ToSet(fmt) /\ fmt \in Seq(S)
  BY FormatIs, Zenon
<1>3. PICK c \in [1 .. N -> Seq(Char)] : \A i \in 1 .. N : c[i] = Convert(fmt[i])
  <2>1. \A i \in 1 .. N : Convert(fmt[i]) \in Seq(Char)
    BY <1>1, FormatIs, ConvertIs, Zenon
  <2> DEFINE c == [i \in 1 .. N |-> Convert(fmt[i])]
  <2>2. c \in [1 .. N -> Seq(Char)] /\ \A i \in 1 .. N : c[i] = Convert(fmt[i])
    BY <2>1
  <2> HIDE DEF c
  <2>3. QED
    BY <2>2, Zenon
<1>4. PICK T \in [0 .. N -> Seq(Char)] :
        AreTexts(T, c, N) /\ FlattenTo(T, c, N)
  BY FlattenTexts, Zenon
<1>5. ASSUME NEW i \in 0 .. N PROVE Begun(fmt, i) = T[i]
  <2>1. PICK g : g = SubSeq(fmt, 1, i)
    OBVIOUS
  <2>2. Len(g) = i /\ \A j \in 1 .. i : g[j] = fmt[j]
    <3>1. SubSeq(fmt, 1, i) \in Seq(S)
      BY <1>1, <1>2, SubSeqProperties
    <3>2. Len(SubSeq(fmt, 1, i)) = i /\ \A j \in 1 .. i : SubSeq(fmt, 1, i)[j] = fmt[j]
      BY <1>1, <1>2, SubSeqProperties
    <3>3. QED
      BY <2>1, <3>2, Zenon
  <2>3. \A j \in 1 .. i : j \in 1 .. N
    OBVIOUS
  <2>4. \A j \in 1 .. i : Convert(g[j]) = c[j]
    BY <1>3, <2>2, <2>3, Zenon
  <2>5. [j \in 1 .. Len(g) |-> Convert(g[j])] = [j \in 1 .. i |-> c[j]]
    BY <2>2, <2>4, Zenon
  <2>6. vsprintf(g) = FlattenSeq([j \in 1 .. i |-> c[j]])
    BY <2>5, Zenon DEF vsprintf
  <2>7. QED
    BY <1>4, <2>1, <2>6, Zenon DEF Begun, FlattenTo
<1>6. SubSeq(fmt, 1, N) = fmt
  BY <1>1, <1>2, SubSeqFull
<1>7. 0 \in 0 .. N /\ \A i \in 1 .. N : i \in 0 .. N /\ i - 1 \in 0 .. N
  OBVIOUS
<1>8. Begun(fmt, 0) = << >>
  BY <1>4, <1>5, <1>7, Zenon DEF AreTexts
<1>9. \A i \in 0 .. N : Begun(fmt, i) \in Seq(Char)
  BY <1>5
<1>10. \A i \in 1 .. N : Begun(fmt, i) = Begun(fmt, i - 1) \o Convert(fmt[i])
  BY <1>3, <1>4, <1>5, <1>7 DEF AreTexts
<1>11. QED
  BY <1>1, <1>6, <1>8, <1>9, <1>10, Zenon DEF Begun

\* a text begins with another
Starts(u, t) == Len(t) <= Len(u) /\ \A j \in 1 .. Len(t) : u[j] = t[j]

LEMMA BegunStarts ==
  ASSUME NEW fmt, IsFormat(fmt), NEW i \in 0 .. Len(fmt)
  PROVE  Starts(vsprintf(fmt), Begun(fmt, i))
<1>1. PICK N \in Nat : N = Len(fmt)
  BY FormatIs, Zenon
<1> DEFINE R == {k \in Nat : k \in i .. N => Starts(Begun(fmt, k), Begun(fmt, i))}
<1>2. ASSUME NEW k \in 0 .. N PROVE Begun(fmt, k) \in Seq(Char) /\ Len(Begun(fmt, k)) \in Nat
  BY <1>1, BegunIs, LenProperties
<1>3. Starts(Begun(fmt, i), Begun(fmt, i))
  BY <1>1, <1>2 DEF Starts
<1>4. 0 \in R
  <2>1. 0 \in i .. N => i = 0
    BY <1>1
  <2>2. QED
    BY <1>3, <2>1
<1>5. ASSUME NEW k \in Nat, k \in R PROVE k + 1 \in R
  <2>1. SUFFICES ASSUME k + 1 \in i .. N PROVE Starts(Begun(fmt, k + 1), Begun(fmt, i))
    OBVIOUS
  <2>2. CASE k + 1 = i
    BY <1>3, <2>2
  <2>3. CASE k + 1 # i
    <3>1. k \in i .. N /\ k \in 0 .. N /\ k + 1 \in 1 .. N /\ (k + 1) - 1 = k /\ i \in 0 .. N
      BY <1>1, <2>1, <2>3
    <3>2. Starts(Begun(fmt, k), Begun(fmt, i))
      BY <1>5, <3>1
    <3>3. PICK t, u \in Seq(Char) : t = Begun(fmt, i) /\ u = Begun(fmt, k)
      BY <1>2, <3>1, Zenon
    <3>4. PICK c \in Seq(Char) : c = Convert(fmt[k + 1])
      BY <1>1, <3>1, FormatIs, ConvertIs, Zenon
    <3>5. Begun(fmt, k + 1) = u \o c
      BY <1>1, <3>1, <3>3, <3>4, BegunIs
    <3>6. PICK m, n, l \in Nat : m = Len(t) /\ n = Len(u) /\ l = Len(c)
      BY LenProperties
    <3>7. Len(u \o c) = n + l /\ \A j \in 1 .. n + l : (u \o c)[j] = IF j <= n THEN u[j] ELSE c[j - n]
      BY <3>6, ConcatProperties
    <3>8. m <= n /\ \A j \in 1 .. m : u[j] = t[j]
      BY <3>2, <3>3, <3>6, Zenon DEF Starts
    <3>9. m <= n + l /\ \A j \in 1 .. m : j \in 1 .. n + l /\ j <= n
      BY <3>8
    <3>10. \A j \in 1 .. m : (u \o c)[j] = t[j]
      BY <3>7, <3>8, <3>9, Zenon
    <3>11. Starts(u \o c, t)
      BY <3>6, <3>7, <3>9, <3>10, Zenon DEF Starts
    <3>12. QED
      BY <3>3, <3>5, <3>11
  <2>4. QED
    BY <2>2, <2>3
<1>6. \A k \in Nat : k \in R
  <2> HIDE DEF R
  <2>1. QED
    BY <1>4, <1>5, Induction
<1>7. N \in i .. N
  BY <1>1
<1>8. Starts(Begun(fmt, N), Begun(fmt, i))
  BY <1>6, <1>7
<1>9. QED
  BY <1>1, <1>8, BegunIs, Zenon


\* the text of an item is where the texts of those before it end
LEMMA PartIs ==
  ASSUME NEW fmt, IsFormat(fmt), NEW i \in 1 .. Len(fmt), NEW m, NEW n,
         m = Len(Begun(fmt, i - 1)), n = Len(Begun(fmt, i))
  PROVE  /\ m \in Nat /\ n \in Nat /\ m <= n /\ n <= Len(vsprintf(fmt))
         /\ SubSeq(vsprintf(fmt), m + 1, n) = Convert(fmt[i])
<1>1. PICK N \in Nat : N = Len(fmt)
  BY FormatIs, Zenon
<1>2. i \in 0 .. Len(fmt) /\ i - 1 \in 0 .. Len(fmt) /\ N \in 0 .. Len(fmt)
  BY <1>1
<1>3. PICK text \in Seq(Char) : text = vsprintf(fmt)
  BY <1>1, <1>2, BegunIs, Zenon
<1>4. PICK a, b, c \in Seq(Char) : a = Begun(fmt, i - 1) /\ b = Begun(fmt, i) /\ c = Convert(fmt[i])
  BY <1>2, BegunIs, FormatIs, ConvertIs, Zenon
<1>5. b = a \o c
  BY <1>4, BegunIs
<1>6. PICK l, k \in Nat : l = Len(c) /\ k = Len(text)
  BY LenProperties
<1>7. m \in Nat /\ n \in Nat
  BY <1>4, LenProperties
<1>8. n = m + l /\ \A j \in 1 .. m + l : b[j] = IF j <= m THEN a[j] ELSE c[j - m]
  <2>1. Len(a \o c) = Len(a) + Len(c)
        /\ \A j \in 1 .. Len(a) + Len(c) : (a \o c)[j] = IF j <= Len(a) THEN a[j] ELSE c[j - Len(a)]
    BY ConcatProperties
  <2>2. QED
    BY <1>4, <1>5, <1>6, <2>1, Zenon
<1>9. n <= k /\ \A j \in 1 .. n : text[j] = b[j]
  <2>1. Starts(text, b)
    BY <1>2, <1>3, <1>4, BegunStarts, Zenon
  <2>2. QED
    BY <1>4, <1>6, <2>1, Zenon DEF Starts
<1>10. SubSeq(text, m + 1, n) = c
  <2>1. PICK w : w = SubSeq(text, m + 1, n)
    OBVIOUS
  <2>2. w \in Seq(Char) /\ Len(w) = l /\ \A j \in 1 .. l : w[j] = text[m + j]
    <3>1. m + 1 \in 1 .. k + 1 /\ n \in m .. k /\ n - (m + 1) + 1 = l
      BY <1>7, <1>8, <1>9
    <3>2. SubSeq(text, m + 1, n) \in Seq(Char)
      BY <1>6, <3>1, SubSeqProperties
    <3>3. PICK p \in Nat : p = m + 1
      BY <1>7
    <3>4. /\ Len(SubSeq(text, p, n)) = n - p + 1
          /\ \A j \in 1 .. n - p + 1 : SubSeq(text, p, n)[j] = text[p + j - 1]
      <4>1. p \in 1 .. Len(text) + 1 /\ n \in p - 1 .. Len(text)
        BY <1>6, <3>1, <3>3
      <4>2. QED
        BY <4>1, SubSeqProperties
    <3>5. n - p + 1 = l /\ \A j \in 1 .. l : p + j - 1 = m + j
      BY <1>7, <1>8, <3>3
    <3>6. QED
      BY <2>1, <3>2, <3>3, <3>4, <3>5, Zenon
  <2>3. \A j \in 1 .. l : m + j \in 1 .. n /\ m + j \in 1 .. m + l /\ ~ (m + j <= m) /\ (m + j) - m = j
    BY <1>7, <1>8
  <2>4. \A j \in 1 .. l : w[j] = c[j]
    BY <1>8, <1>9, <2>2, <2>3, Zenon
  <2>5. w = c
    BY <1>6, <2>2, <2>4, SeqEqual
  <2>6. QED
    BY <2>1, <2>5
<1>11. m <= n
  BY <1>7, <1>8
<1>12. QED
  BY <1>3, <1>4, <1>6, <1>7, <1>9, <1>10, <1>11, Zenon

\* the text of a format reads as the format
LEMMA VsprintfReads ==
  ASSUME NEW fmt, IsFormat(fmt)
  PROVE  Reads(fmt, vsprintf(fmt), {"sign", "star"})
<1> DEFINE N == Len(fmt)
           text == vsprintf(fmt)
           L == Len(text)
<1>1. N \in Nat
  BY FormatIs, Zenon
<1>2. text \in Seq(Char)
  <2>1. N \in 0 .. Len(fmt)
    BY <1>1
  <2>2. QED
    BY <2>1, BegunIs, Zenon
<1>3. L \in Nat
  BY <1>2, LenProperties
<1> HIDE DEF N, text, L
<1> DEFINE Asks(i, w) == IsText(fmt[i], w) \/ Exempt(fmt[i], {"sign", "star"})
           Here(i, m) == {n \in m .. L : Asks(i, SubSeq(text, m + 1, n))}
           Turn(e, i) == IF i = 0 THEN {0} ELSE UNION {Here(i, m) : m \in e[i - 1]}
           ends == CHOOSE e : e = [i \in 0 .. N |-> Turn(e, i)]
           step == [p \in Nat \X SUBSET Nat |-> UNION {Here(p[1], m) : m \in p[2]}]
<1>4. {0} \in SUBSET Nat
  OBVIOUS
<1>5. step \in [Nat \X SUBSET Nat -> SUBSET Nat]
  <2>1. \A i \in Nat, m \in Nat : Here(i, m) \in SUBSET Nat
    BY <1>3
  <2> HIDE DEF Here
  <2>2. QED
    BY <2>1
<1>6. PICK f \in [0 .. N -> SUBSET Nat] : IsMade(f, N, {0}, step)
  <2> HIDE DEF step
  <2>1. QED
    BY <1>1, <1>4, <1>5, Recursion, Zenon
<1>7. f[0] = {0} /\ \A i \in 1 .. N : f[i] = step[<<i, f[i - 1]>>]
  BY <1>6, Zenon DEF IsMade
<1> HIDE DEF Here
<1>8. ASSUME NEW i \in 0 .. N PROVE f[i] = Turn(f, i)
  <2>1. CASE i = 0
    BY <1>7, <2>1
  <2>2. CASE i # 0
    <3>1. i \in 1 .. N /\ i \in Nat /\ i - 1 \in 0 .. N
      BY <1>1, <2>2
    <3>2. <<i, f[i - 1]>> \in Nat \X SUBSET Nat
      BY <3>1
    <3>3. step[<<i, f[i - 1]>>] = UNION {Here(i, m) : m \in f[i - 1]}
      BY <3>2
    <3>4. QED
      BY <1>7, <2>2, <3>1, <3>3
  <2>3. QED
    BY <2>1, <2>2
<1> HIDE DEF step
<1>9. f = [i \in 0 .. N |-> Turn(f, i)]
  <2> HIDE DEF Turn
  <2>1. QED
    BY <1>8
<1>10. ends = [i \in 0 .. N |-> Turn(ends, i)]
  <2> HIDE DEF Turn
  <2>1. QED
    BY <1>9
<1>11. \A i \in 0 .. N : ends[i] = Turn(ends, i)
  <2> HIDE DEF ends, Turn
  <2>1. QED
    BY <1>10
<1>12. Reads(fmt, text, {"sign", "star"}) <=> Len(text) \in ends[N]
  BY Zenon DEF Reads, Here, N, L
<1> HIDE DEF ends
<1> DEFINE R == {i \in Nat : i \in 0 .. N => Len(Begun(fmt, i)) \in ends[i]}
<1>13. 0 \in R
  <2>1. Begun(fmt, 0) = << >> /\ Len(<< >>) = 0
    BY BegunIs
  <2>2. ends[0] = {0}
    <3>1. 0 \in 0 .. N
      BY <1>1
    <3>2. QED
      BY <1>11, <3>1, Zenon
  <2>3. QED
    BY <2>1, <2>2
<1>14. ASSUME NEW i \in Nat, i \in R PROVE i + 1 \in R
  <2>1. SUFFICES ASSUME i + 1 \in 0 .. N PROVE Len(Begun(fmt, i + 1)) \in ends[i + 1]
    OBVIOUS
  <2>2. i + 1 \in 1 .. Len(fmt) /\ (i + 1) - 1 = i /\ i + 1 # 0 /\ i \in 0 .. N
    BY <1>1, <2>1 DEF N
  <2>3. PICK m, n : m = Len(Begun(fmt, i)) /\ n = Len(Begun(fmt, i + 1))
    OBVIOUS
  <2>4. m \in ends[i]
    BY <1>14, <2>2, <2>3
  <2>5. ends[i + 1] = UNION {Here(i + 1, p) : p \in ends[i]}
    BY <1>11, <2>1, <2>2, Zenon
  <2>6. /\ m \in Nat /\ n \in Nat /\ m <= n /\ n <= L
        /\ SubSeq(text, m + 1, n) = Convert(fmt[i + 1])
    BY <2>2, <2>3, PartIs, Zenon DEF text, L
  <2>7. Asks(i + 1, SubSeq(text, m + 1, n))
    BY <2>2, <2>6, FormatIs, ConvertIs, Zenon
  <2>8. n \in m .. L
    BY <2>6
  <2>9. n \in Here(i + 1, m)
    BY <2>7, <2>8, Zenon DEF Here
  <2>10. QED
    BY <2>3, <2>4, <2>5, <2>9
<1>15. \A i \in Nat : i \in R
  <2> HIDE DEF R
  <2>1. QED
    BY <1>13, <1>14, Induction
<1>16. Len(text) \in ends[N]
  <2>1. N \in 0 .. N
    BY <1>1
  <2>2. Len(Begun(fmt, N)) \in ends[N]
    BY <1>15, <2>1
  <2>3. Begun(fmt, N) = text
    BY BegunIs, Zenon DEF N, text
  <2>4. QED
    BY <2>2, <2>3
<1>17. QED
  BY <1>12, <1>16, Zenon DEF text


-----------------------------------------------------------------------------
(* The invariant of printf.                                                  *)

Formats == UNION {p[t] : p \in Programs, t \in Task \cup {Kernel}}
Items == UNION {ToSet(fmt) : fmt \in Formats}

Calls ==
  [on : BOOLEAN, ended : BOOLEAN, fmt : Seq(Items), rest : Seq(Items), out : Seq(Char), str : Nat,
   ip : SUBSET (Nat \X Nat)]

PrintfTypes ==
  /\ program \in Programs /\ current \in Task
  /\ buf \in [1 .. BufSize -> Char] /\ kbuf \in [1 .. BufSize -> Char]
  /\ call \in [Task -> Calls]
  /\ clean \in [Task -> BOOLEAN]

\* what the first k items store by %n
Counts(fmt, k) == {<<i, Len(Begun(fmt, i - 1))>> : i \in {j \in 1 .. k : fmt[j].conv = "n"}}

\* k items are converted, and out is what of their text is not stored yet
IsAt(c, k) ==
  /\ k \in 0 .. Len(c.fmt)
  /\ Len(c.rest) = Len(c.fmt) - k /\ \A i \in 1 .. Len(c.rest) : c.rest[i] = c.fmt[k + i]
  /\ c.str + Len(c.out) = Len(Begun(c.fmt, k))
  /\ \A i \in 1 .. Len(c.out) : c.out[i] = Begun(c.fmt, k)[c.str + i]
  /\ c.ip = Counts(c.fmt, k)

CallsAreUnderWay ==
  \A t \in Task : call[t].on =>
    /\ call[t].fmt \in program[t]
    /\ \E k \in Nat : IsAt(call[t], k)
    /\ call[t].ended => call[t].rest = << >> /\ call[t].out = << >>

\* whoever has the buffer for itself has its own text in it
CleanIsOwn ==
  \A t \in Task : call[t].on /\ clean[t] =>
    \A i \in 1 .. call[t].str : buf[i] = vsprintf(call[t].fmt)[i]

MaskedIsAlone ==
  \A t \in Masked : call[t].on => current = t /\ clean[t]

ShownIsText ==
  /\ IsFormat(shown.fmt)
  /\ Len(shown.text) = Len(vsprintf(shown.fmt))
  /\ shown.who # Kernel => shown.ip = Counts(shown.fmt, Len(shown.fmt))
  /\ shown.clean \/ shown.who \in Masked => shown.text = vsprintf(shown.fmt)

PrintfIInv ==
  /\ PrintfTypes /\ CallsAreUnderWay /\ CleanIsOwn /\ MaskedIsAlone /\ ShownIsText

LEMMA FormatsAre ==
  ASSUME PrintfTypes, NEW t \in Task \cup {Kernel}, NEW fmt \in program[t]
  PROVE  IsFormat(fmt) /\ Len(vsprintf(fmt)) < BufSize /\ fmt \in Seq(Items)
<1>1. program \in Programs
  BY Zenon DEF PrintfTypes
<1>2. IsFormat(fmt) /\ Len(vsprintf(fmt)) < BufSize
  BY <1>1, FormatsAssumption, Zenon
<1>3. fmt \in Formats
  BY <1>1 DEF Formats
<1>4. ToSet(fmt) \subseteq Items
  BY <1>3 DEF Items
<1>5. PICK S : S = ToSet(fmt) /\ fmt \in Seq(S)
  BY <1>2, FormatIs, Zenon
<1>6. fmt \in Seq(Items)
  <2>1. PICK n \in Nat : n = Len(fmt)
    BY <1>2, FormatIs, Zenon
  <2>2. fmt \in [1 .. n -> S]
    BY <1>5, <2>1, LenProperties
  <2>3. S \subseteq Items
    BY <1>4, <1>5
  <2>4. fmt \in [1 .. n -> Items]
    BY <2>2, <2>3
  <2>5. QED
    BY <2>1, <2>4, FunctionIsSeq, Zenon
<1>7. QED
  BY <1>2, <1>6, Zenon

\* what vsprintf stores is characters
LEMMA VsprintfIs ==
  ASSUME NEW fmt, IsFormat(fmt)
  PROVE  /\ vsprintf(fmt) \in Seq(Char) /\ Len(vsprintf(fmt)) \in Nat
         /\ \A k \in 0 .. Len(fmt) :
              /\ Len(Begun(fmt, k)) \in Nat /\ Len(Begun(fmt, k)) <= Len(vsprintf(fmt))
              /\ \A i \in 1 .. Len(Begun(fmt, k)) : vsprintf(fmt)[i] = Begun(fmt, k)[i]
<1>1. Len(fmt) \in Nat
  BY FormatIs, Zenon
<1>2. Len(fmt) \in 0 .. Len(fmt)
  BY <1>1
<1>3. vsprintf(fmt) \in Seq(Char)
  BY <1>2, BegunIs, Zenon
<1>4. Len(vsprintf(fmt)) \in Nat
  BY <1>3, LenProperties
<1>5. ASSUME NEW k \in 0 .. Len(fmt)
      PROVE  /\ Len(Begun(fmt, k)) \in Nat /\ Len(Begun(fmt, k)) <= Len(vsprintf(fmt))
             /\ \A i \in 1 .. Len(Begun(fmt, k)) : vsprintf(fmt)[i] = Begun(fmt, k)[i]
  <2>1. Begun(fmt, k) \in Seq(Char)
    BY BegunIs, Zenon
  <2>2. Len(Begun(fmt, k)) \in Nat
    BY <2>1, LenProperties
  <2>3. Starts(vsprintf(fmt), Begun(fmt, k))
    BY BegunStarts, Zenon
  <2>4. QED
    BY <2>2, <2>3, Zenon DEF Starts
<1>6. QED
  BY <1>3, <1>4, <1>5, Zenon

\* the numbers of %n, item by item
LEMMA CountsIs ==
  ASSUME NEW fmt, IsFormat(fmt)
  PROVE  /\ Counts(fmt, 0) = {}
         /\ \A k \in 0 .. Len(fmt) : Counts(fmt, k) \in SUBSET (Nat \X Nat)
         /\ \A k \in Nat : k + 1 \in 1 .. Len(fmt) =>
              Counts(fmt, k + 1) =
                IF fmt[k + 1].conv = "n" THEN Counts(fmt, k) \cup {<<k + 1, Len(Begun(fmt, k))>>}
                ELSE Counts(fmt, k)
<1>1. Len(fmt) \in Nat
  BY FormatIs, Zenon
<1>2. Counts(fmt, 0) = {}
  BY DEF Counts
<1>3. ASSUME NEW k \in 0 .. Len(fmt) PROVE Counts(fmt, k) \in SUBSET (Nat \X Nat)
  <2>1. \A i \in 1 .. k : i \in Nat /\ i - 1 \in 0 .. Len(fmt)
    BY <1>1
  <2>2. \A i \in 1 .. k : Len(Begun(fmt, i - 1)) \in Nat
    BY <2>1, VsprintfIs, Zenon
  <2>3. QED
    BY <2>1, <2>2 DEF Counts
<1>4. ASSUME NEW k \in Nat, k + 1 \in 1 .. Len(fmt)
      PROVE  Counts(fmt, k + 1) =
                IF fmt[k + 1].conv = "n" THEN Counts(fmt, k) \cup {<<k + 1, Len(Begun(fmt, k))>>}
                ELSE Counts(fmt, k)
  <2>1. 1 .. k + 1 = (1 .. k) \cup {k + 1} /\ (k + 1) - 1 = k
    OBVIOUS
  <2>2. {j \in 1 .. k + 1 : fmt[j].conv = "n"} =
          IF fmt[k + 1].conv = "n" THEN {j \in 1 .. k : fmt[j].conv = "n"} \cup {k + 1}
          ELSE {j \in 1 .. k : fmt[j].conv = "n"}
    BY <2>1
  <2>3. QED
    BY <2>1, <2>2 DEF Counts
<1>5. QED
  BY <1>2, <1>3, <1>4, Zenon

\* where a call is
LEMMA AtIs ==
  ASSUME NEW c \in Calls, IsFormat(c.fmt), NEW k \in Nat, IsAt(c, k)
  PROVE  /\ c.str \in Nat /\ Len(c.out) \in Nat /\ c.str + Len(c.out) = Len(Begun(c.fmt, k))
         /\ c.str + Len(c.out) <= Len(vsprintf(c.fmt))
         /\ \A i \in 1 .. Len(c.out) : c.out[i] = vsprintf(c.fmt)[c.str + i]
         /\ c.rest = << >> /\ c.out = << >> =>
              c.str = Len(vsprintf(c.fmt)) /\ c.ip = Counts(c.fmt, Len(c.fmt))
<1>1. /\ k \in 0 .. Len(c.fmt)
      /\ Len(c.rest) = Len(c.fmt) - k
      /\ c.str + Len(c.out) = Len(Begun(c.fmt, k))
      /\ \A i \in 1 .. Len(c.out) : c.out[i] = Begun(c.fmt, k)[c.str + i]
      /\ c.ip = Counts(c.fmt, k)
  BY Zenon DEF IsAt
<1>2. PICK s, l \in Nat : s = c.str /\ l = Len(c.out)
  <2>1. c.str \in Nat /\ c.out \in Seq(Char)
    BY DEF Calls
  <2>2. Len(c.out) \in Nat
    BY <2>1, LenProperties
  <2>3. QED
    BY <2>1, <2>2
<1>3. /\ Len(Begun(c.fmt, k)) <= Len(vsprintf(c.fmt))
      /\ \A i \in 1 .. Len(Begun(c.fmt, k)) : vsprintf(c.fmt)[i] = Begun(c.fmt, k)[i]
  BY <1>1, VsprintfIs, Zenon
<1>4. \A i \in 1 .. l : s + i \in 1 .. s + l
  OBVIOUS
<1>5. \A i \in 1 .. Len(c.out) : c.out[i] = vsprintf(c.fmt)[c.str + i]
  BY <1>1, <1>2, <1>3, <1>4, Zenon
<1>6. ASSUME c.rest = << >>, c.out = << >>
      PROVE  c.str = Len(vsprintf(c.fmt)) /\ c.ip = Counts(c.fmt, Len(c.fmt))
  <2>1. Len(c.fmt) \in Nat
    BY FormatIs, Zenon
  <2>2. k = Len(c.fmt) /\ s + 0 = s
    BY <1>1, <1>6, <2>1
  <2>3. s = Len(Begun(c.fmt, k))
    BY <1>1, <1>2, <1>6, <2>2
  <2>4. QED
    BY <1>1, <1>2, <2>2, <2>3, BegunIs, Zenon
<1>7. QED
  BY <1>1, <1>2, <1>3, <1>5, <1>6, Zenon


\* what the invariant says of a call
LEMMA RunningCall ==
  ASSUME PrintfIInv, NEW t \in Task, call[t].on
  PROVE  /\ call[t] \in Calls /\ IsFormat(call[t].fmt) /\ call[t].fmt \in program[t]
         /\ Len(vsprintf(call[t].fmt)) < BufSize
         /\ \E k \in Nat : IsAt(call[t], k)
         /\ call[t].ended => call[t].rest = << >> /\ call[t].out = << >>
<1>1. PrintfTypes /\ CallsAreUnderWay
  BY Zenon DEF PrintfIInv
<1>2. call[t] \in Calls
  BY <1>1 DEF PrintfTypes
<1>3. /\ call[t].fmt \in program[t]
      /\ \E k \in Nat : IsAt(call[t], k)
      /\ call[t].ended => call[t].rest = << >> /\ call[t].out = << >>
  BY <1>1, Zenon DEF CallsAreUnderWay
<1>4. t \in Task \cup {Kernel}
  OBVIOUS
<1>5. QED
  BY <1>1, <1>2, <1>3, <1>4, FormatsAre, Zenon

LEMMA NoCallIs == NoCall \in Calls
<1>1. << >> \in Seq(Char) /\ << >> \in Seq(Items) /\ {} \in SUBSET (Nat \X Nat)
  BY EmptySeq
<1>2. QED
  BY <1>1 DEF Calls, NoCall

\* a new call
LEMMA PrintfBegins ==
  ASSUME PrintfIInv, NEW t \in Task, NEW fmt \in program[t], printf(t, fmt)
  PROVE  PrintfIInv'
<1>1. PrintfTypes /\ CallsAreUnderWay /\ CleanIsOwn /\ MaskedIsAlone /\ ShownIsText
  BY Zenon DEF PrintfIInv
<1>2. /\ current = t /\ ~ call[t].on
      /\ call' = [call EXCEPT ![t] = [NoCall EXCEPT !.on = TRUE, !.fmt = fmt, !.rest = fmt]]
      /\ clean' = [clean EXCEPT ![t] = TRUE]
      /\ program' = program /\ current' = current /\ buf' = buf /\ kbuf' = kbuf /\ shown' = shown
  BY DEF printf
<1>3. call \in [Task -> Calls] /\ clean \in [Task -> BOOLEAN]
  BY <1>1, Zenon DEF PrintfTypes
<1>4. IsFormat(fmt) /\ fmt \in Seq(Items)
  <2>1. t \in Task \cup {Kernel}
    OBVIOUS
  <2>2. QED
    BY <1>1, <2>1, FormatsAre, Zenon
<1> DEFINE c == [NoCall EXCEPT !.on = TRUE, !.fmt = fmt, !.rest = fmt]
<1>5. c \in Calls
  BY <1>4, NoCallIs DEF Calls
<1>6. c.on /\ ~ c.ended /\ c.fmt = fmt /\ c.rest = fmt /\ c.out = << >> /\ c.str = 0 /\ c.ip = {}
  BY NoCallIs DEF Calls, NoCall
<1> HIDE DEF c
<1>7. IsAt(c, 0)
  <2>1. PICK n \in Nat : n = Len(fmt)
    BY <1>4, FormatIs, Zenon
  <2>2. 0 \in 0 .. n /\ n = n - 0 /\ \A i \in 1 .. n : fmt[i] = fmt[0 + i]
    OBVIOUS
  <2>3. Begun(fmt, 0) = << >> /\ Counts(fmt, 0) = {}
    BY <1>4, BegunIs, CountsIs, Zenon
  <2>4. Len(<< >>) = 0 /\ Len(c.out) = 0 /\ c.str + Len(c.out) = 0
    BY <1>6
  <2>5. \A i \in 1 .. Len(c.out) : c.out[i] = Begun(c.fmt, 0)[c.str + i]
    BY <2>4
  <2>6. c.fmt = fmt /\ c.rest = fmt /\ c.ip = {}
    BY <1>6
  <2>7. 0 \in 0 .. Len(c.fmt) /\ Len(c.rest) = Len(c.fmt) - 0 /\ \A i \in 1 .. Len(c.rest) : c.rest[i] = c.fmt[0 + i]
    BY <2>1, <2>2, <2>6
  <2>8. c.str + Len(c.out) = Len(Begun(c.fmt, 0)) /\ c.ip = Counts(c.fmt, 0)
    BY <2>3, <2>4, <2>6
  <2>9. QED
    BY <2>5, <2>7, <2>8, Zenon DEF IsAt
<1>9. /\ call'[t] = c /\ \A u \in Task : u # t => call'[u] = call[u]
      /\ clean'[t] = TRUE /\ \A u \in Task : u # t => clean'[u] = clean[u]
      /\ call' \in [Task -> Calls] /\ clean' \in [Task -> BOOLEAN]
  BY <1>2, <1>3, <1>5 DEF c
<1>10. PrintfTypes'
  BY <1>1, <1>2, <1>9, Zenon DEF PrintfTypes
<1>11. CallsAreUnderWay'
  <2>1. ASSUME NEW u \in Task, call'[u].on
        PROVE  /\ call'[u].fmt \in program'[u]
               /\ \E k \in Nat : IsAt(call'[u], k)
               /\ call'[u].ended => call'[u].rest = << >> /\ call'[u].out = << >>
    <3>1. CASE u = t
      <4>1. 0 \in Nat
        OBVIOUS
      <4>2. QED
        BY <1>2, <1>6, <1>7, <1>9, <3>1, <4>1, Zenon
    <3>2. CASE u # t
      BY <1>1, <1>2, <1>9, <2>1, <3>2, Zenon DEF CallsAreUnderWay
    <3>3. QED
      BY <3>1, <3>2
  <2>2. QED
    BY <2>1, Zenon DEF CallsAreUnderWay
<1>12. CleanIsOwn'
  <2>1. ASSUME NEW u \in Task, call'[u].on, clean'[u], NEW i \in 1 .. call'[u].str
        PROVE  buf'[i] = vsprintf(call'[u].fmt)[i]
    <3>1. CASE u = t
      <4>1. i \in 1 .. 0
        BY <1>6, <1>9, <2>1, <3>1
      <4>2. QED
        BY <4>1
    <3>2. CASE u # t
      BY <1>1, <1>2, <1>9, <2>1, <3>2, Zenon DEF CleanIsOwn
    <3>3. QED
      BY <3>1, <3>2
  <2>2. QED
    BY <2>1, Zenon DEF CleanIsOwn
<1>13. MaskedIsAlone'
  <2>1. ASSUME NEW u \in Masked, call'[u].on PROVE current' = u /\ clean'[u]
    <3>1. u \in Task
      BY PrintfAssumption, Zenon
    <3>2. QED
      BY <1>1, <1>2, <1>9, <2>1, <3>1, Zenon DEF MaskedIsAlone
  <2>2. QED
    BY <2>1, Zenon DEF MaskedIsAlone
<1>14. ShownIsText'
  BY <1>1, <1>2, Zenon DEF ShownIsText
<1>15. QED
  BY <1>10, <1>11, <1>12, <1>13, <1>14, Zenon DEF PrintfIInv

\* the next item
LEMMA ItemIsConverted ==
  ASSUME PrintfIInv, NEW t \in Task, NextItem(t)
  PROVE  PrintfIInv'
<1>1. PrintfTypes /\ CallsAreUnderWay /\ CleanIsOwn /\ MaskedIsAlone /\ ShownIsText
  BY Zenon DEF PrintfIInv
<1> DEFINE c == call[t]
           item == Head(c.rest)
           ip == IF item.conv = "n" THEN c.ip \cup {<<At(t), c.str>>} ELSE c.ip
<1>2. /\ c.on /\ c.out = << >> /\ c.rest # << >>
      /\ call' = [call EXCEPT ![t].rest = Tail(@), ![t].out = Convert(item), ![t].ip = ip]
      /\ clean' = clean
      /\ program' = program /\ current' = current /\ buf' = buf /\ kbuf' = kbuf /\ shown' = shown
  BY DEF NextItem, Running
<1>3. call \in [Task -> Calls]
  BY <1>1, Zenon DEF PrintfTypes
<1>4. c \in Calls /\ IsFormat(c.fmt) /\ c.fmt \in program[t]
  BY <1>2, RunningCall, Zenon
<1>5. PICK k \in Nat : IsAt(c, k)
  BY <1>2, RunningCall, Zenon
<1>6. /\ k \in 0 .. Len(c.fmt)
      /\ Len(c.rest) = Len(c.fmt) - k /\ \A i \in 1 .. Len(c.rest) : c.rest[i] = c.fmt[k + i]
      /\ c.str + Len(c.out) = Len(Begun(c.fmt, k))
      /\ c.ip = Counts(c.fmt, k)
  BY <1>5, Zenon DEF IsAt
<1>7. PICK n \in Nat : n = Len(c.fmt)
  BY <1>4, FormatIs, Zenon
<1>8. PICK s \in Nat : s = c.str
  BY <1>4 DEF Calls
<1>9. PICK rest \in Seq(Items) : rest = c.rest
  BY <1>4 DEF Calls
<1>10. rest # << >> /\ Len(rest) = n - k /\ Len(rest) >= 1
  BY <1>2, <1>6, <1>7, <1>9, EmptySeq, LenProperties
<1>11. k + 1 \in 1 .. n /\ k + 1 \in 0 .. n
  BY <1>6, <1>7, <1>10
<1>12. /\ Tail(rest) \in Seq(Items) /\ Len(Tail(rest)) = n - (k + 1)
       /\ \A i \in 1 .. n - (k + 1) : Tail(rest)[i] = rest[i + 1]
       /\ Head(rest) = rest[1]
  BY <1>10, <1>11, HeadTailProperties
<1>13. item = c.fmt[k + 1]
  <2>1. 1 \in 1 .. Len(rest)
    BY <1>10
  <2>2. QED
    BY <1>6, <1>9, <1>12, <2>1, Zenon
<1>14. Convert(item) \in Seq(Char)
  BY <1>4, <1>7, <1>11, <1>13, FormatIs, ConvertIs, Zenon
<1>15. s = Len(Begun(c.fmt, k))
  <2>1. Len(c.out) = 0
    BY <1>2
  <2>2. QED
    BY <1>6, <1>8, <2>1
<1>16. At(t) = k + 1
  BY <1>6, <1>7 DEF At
<1>17. ip = Counts(c.fmt, k + 1)
  <2>1. Counts(c.fmt, k + 1) =
          IF c.fmt[k + 1].conv = "n" THEN Counts(c.fmt, k) \cup {<<k + 1, Len(Begun(c.fmt, k))>>}
          ELSE Counts(c.fmt, k)
    BY <1>4, <1>7, <1>11, CountsIs
  <2>2. QED
    BY <1>6, <1>8, <1>13, <1>15, <1>16, <2>1
<1>18. ip \in SUBSET (Nat \X Nat)
  BY <1>4, <1>7, <1>11, <1>17, CountsIs
<1> DEFINE d == [c EXCEPT !.rest = Tail(c.rest), !.out = Convert(item), !.ip = ip]
<1> HIDE DEF item, ip
<1>19. d \in Calls
  BY <1>4, <1>9, <1>12, <1>14, <1>18 DEF Calls
<1>20. /\ call'[t] = d /\ \A u \in Task : u # t => call'[u] = call[u]
       /\ call' \in [Task -> Calls]
  <2>1. d = [call[t] EXCEPT !.rest = Tail(@), !.out = Convert(item), !.ip = ip]
    OBVIOUS
  <2> HIDE DEF d
  <2>2. QED
    BY <1>2, <1>3, <1>19, <2>1
<1>21. /\ d.on = c.on /\ d.ended = c.ended /\ d.fmt = c.fmt /\ d.str = c.str
       /\ d.rest = Tail(c.rest) /\ d.out = Convert(item) /\ d.ip = ip
  BY <1>4 DEF Calls
<1> HIDE DEF d, c
<1>22. IsAt(d, k + 1)
  <2>1. k + 1 \in 0 .. Len(d.fmt) /\ Len(d.rest) = Len(d.fmt) - (k + 1)
    BY <1>7, <1>9, <1>11, <1>12, <1>21
  <2>2. \A i \in 1 .. Len(d.rest) : d.rest[i] = d.fmt[(k + 1) + i]
    <3>1. ASSUME NEW i \in 1 .. n - (k + 1) PROVE Tail(rest)[i] = c.fmt[(k + 1) + i]
      <4>1. i + 1 \in 1 .. Len(rest) /\ k + (i + 1) = (k + 1) + i
        BY <1>10
      <4>2. rest[i + 1] = c.fmt[k + (i + 1)]
        BY <1>6, <1>9, <4>1, Zenon
      <4>3. QED
        BY <1>12, <4>1, <4>2
    <3>2. QED
      BY <1>7, <1>9, <1>21, <2>1, <3>1
  <2>3. PICK z1, z2 \in Seq(Char) : z1 = Begun(c.fmt, k) /\ z2 = Convert(item)
    BY <1>4, <1>6, <1>14, BegunIs, Zenon
  <2>4. Begun(c.fmt, k + 1) = z1 \o z2
    <3>1. (k + 1) - 1 = k
      OBVIOUS
    <3>2. QED
      BY <1>4, <1>7, <1>11, <1>13, <2>3, <3>1, BegunIs
  <2>5. PICK l \in Nat : l = Len(z2)
    BY LenProperties
  <2>6. Len(z1 \o z2) = s + l /\ \A i \in 1 .. s + l : (z1 \o z2)[i] = IF i <= s THEN z1[i] ELSE z2[i - s]
    BY <1>15, <2>3, <2>5, ConcatProperties
  <2>7. d.str + Len(d.out) = Len(Begun(d.fmt, k + 1))
    BY <1>8, <1>21, <2>3, <2>4, <2>5, <2>6
  <2>8. \A i \in 1 .. l : s + i \in 1 .. s + l /\ ~ (s + i <= s) /\ (s + i) - s = i
    OBVIOUS
  <2>9. \A i \in 1 .. l : (z1 \o z2)[s + i] = z2[i]
    BY <2>6, <2>8, Zenon
  <2>10. \A i \in 1 .. Len(d.out) : d.out[i] = Begun(d.fmt, k + 1)[d.str + i]
    BY <1>8, <1>21, <2>3, <2>4, <2>5, <2>9
  <2>11. d.ip = Counts(d.fmt, k + 1)
    BY <1>17, <1>21, Zenon
  <2>12. QED
    BY <2>1, <2>2, <2>7, <2>10, <2>11, Zenon DEF IsAt
<1>23. PrintfTypes'
  BY <1>1, <1>2, <1>20, Zenon DEF PrintfTypes
<1>24. ~ c.ended
  BY <1>2, RunningCall, Zenon DEF c
<1>25. CallsAreUnderWay'
  <2>1. ASSUME NEW u \in Task, call'[u].on
        PROVE  /\ call'[u].fmt \in program'[u]
               /\ \E j \in Nat : IsAt(call'[u], j)
               /\ call'[u].ended => call'[u].rest = << >> /\ call'[u].out = << >>
    <3>1. CASE u = t
      <4>1. k + 1 \in Nat
        OBVIOUS
      <4>2. QED
        BY <1>2, <1>4, <1>20, <1>21, <1>22, <1>24, <3>1, <4>1, Zenon
    <3>2. CASE u # t
      BY <1>1, <1>2, <1>20, <2>1, <3>2, Zenon DEF CallsAreUnderWay
    <3>3. QED
      BY <3>1, <3>2
  <2>2. QED
    BY <2>1, Zenon DEF CallsAreUnderWay
<1>26. \A u \in Task : /\ call'[u].on <=> call[u].on
                       /\ call'[u].fmt = call[u].fmt /\ call'[u].str = call[u].str
  BY <1>20, <1>21, Zenon DEF c
<1>27. CleanIsOwn'
  <2>1. ASSUME NEW u \in Task, call'[u].on, clean'[u], NEW i \in 1 .. call'[u].str
        PROVE  buf'[i] = vsprintf(call'[u].fmt)[i]
    <3>1. call[u].on /\ clean[u] /\ i \in 1 .. call[u].str
      BY <1>2, <1>26, <2>1
    <3>2. buf[i] = vsprintf(call[u].fmt)[i]
      BY <1>1, <3>1, Zenon DEF CleanIsOwn
    <3>3. QED
      BY <1>2, <1>26, <3>2, Zenon
  <2>2. QED
    BY <2>1, Zenon DEF CleanIsOwn
<1>28. MaskedIsAlone'
  <2>1. ASSUME NEW u \in Masked, call'[u].on PROVE current' = u /\ clean'[u]
    <3>1. u \in Task
      BY PrintfAssumption, Zenon
    <3>2. QED
      BY <1>1, <1>2, <1>26, <2>1, <3>1, Zenon DEF MaskedIsAlone
  <2>2. QED
    BY <2>1, Zenon DEF MaskedIsAlone
<1>29. ShownIsText'
  BY <1>1, <1>2, Zenon DEF ShownIsText
<1>30. QED
  BY <1>23, <1>25, <1>27, <1>28, <1>29, Zenon DEF PrintfIInv


\* a character goes into the buffer
LEMMA CharIsStored ==
  ASSUME PrintfTypes, NEW t \in Task, NEW ch \in Char, StoreChar(t, ch), call[t].str + 1 \in 1 .. BufSize
  PROVE  /\ buf' \in [1 .. BufSize -> Char] /\ buf'[call[t].str + 1] = ch
         /\ \A i \in 1 .. BufSize : i # call[t].str + 1 => buf'[i] = buf[i]
         /\ clean' \in [Task -> BOOLEAN]
         /\ clean'[t] <=> clean[t]
         /\ \A u \in Task : u # t => (clean'[u] <=> clean[u] /\ ~ call[u].on)
         /\ program' = program /\ current' = current /\ kbuf' = kbuf
<1>1. buf \in [1 .. BufSize -> Char] /\ clean \in [Task -> BOOLEAN]
  BY Zenon DEF PrintfTypes
<1>2. /\ buf' = [buf EXCEPT ![call[t].str + 1] = ch]
      /\ clean' = [u \in Task |-> clean[u] /\ (u = t \/ ~ call[u].on)]
      /\ program' = program /\ current' = current /\ kbuf' = kbuf
  BY DEF StoreChar
<1>3. /\ buf' \in [1 .. BufSize -> Char] /\ buf'[call[t].str + 1] = ch
      /\ \A i \in 1 .. BufSize : i # call[t].str + 1 => buf'[i] = buf[i]
  BY <1>1, <1>2
<1>4. clean' \in [Task -> BOOLEAN] /\ \A u \in Task : clean'[u] <=> clean[u] /\ (u = t \/ ~ call[u].on)
  BY <1>1, <1>2
<1>5. QED
  BY <1>2, <1>3, <1>4

\* a character of the item
LEMMA ItemIsStored ==
  ASSUME PrintfIInv, NEW t \in Task, Store(t)
  PROVE  PrintfIInv'
<1>1. PrintfTypes /\ CallsAreUnderWay /\ CleanIsOwn /\ MaskedIsAlone /\ ShownIsText
  BY Zenon DEF PrintfIInv
<1> DEFINE c == call[t]
           d == [c EXCEPT !.out = Tail(c.out), !.str = c.str + 1]
<1>2. /\ current = t /\ c.on /\ c.out # << >>
      /\ StoreChar(t, Head(c.out))
      /\ call' = [call EXCEPT ![t].out = Tail(@), ![t].str = @ + 1]
      /\ shown' = shown
  BY DEF Store, Running
<1>3. call \in [Task -> Calls]
  BY <1>1, Zenon DEF PrintfTypes
<1>4. c \in Calls /\ IsFormat(c.fmt) /\ c.fmt \in program[t] /\ Len(vsprintf(c.fmt)) < BufSize
        /\ (c.ended => c.out = << >>)
  BY <1>2, RunningCall, Zenon
<1>5. PICK k \in Nat : IsAt(c, k)
  BY <1>2, RunningCall, Zenon
<1>6. PICK L \in Nat : L = Len(vsprintf(c.fmt))
  BY <1>4, VsprintfIs, Zenon
<1>7. PICK s \in Nat : s = c.str
  BY <1>4 DEF Calls
<1>8. PICK out \in Seq(Char) : out = c.out
  BY <1>4 DEF Calls
<1>9. PICK l \in Nat : l = Len(out) /\ l >= 1
  BY <1>2, <1>8, EmptySeq, LenProperties
<1>10. /\ s + l <= L
       /\ \A i \in 1 .. l : out[i] = vsprintf(c.fmt)[s + i]
  BY <1>4, <1>5, <1>6, <1>7, <1>8, <1>9, AtIs
<1>11. /\ Head(out) \in Char /\ Head(out) = out[1] /\ Tail(out) \in Seq(Char) /\ Len(Tail(out)) = l - 1
       /\ \A i \in 1 .. l - 1 : Tail(out)[i] = out[i + 1]
  <2>1. out # << >>
    BY <1>2, <1>8
  <2>2. QED
    BY <1>9, <2>1, HeadTailProperties
<1>12. Head(out) = vsprintf(c.fmt)[s + 1]
  BY <1>9, <1>10, <1>11
<1>13. BufSize \in Nat
  BY PrintfAssumption, Zenon
<1>14. c.str + 1 \in 1 .. BufSize /\ c.str + 1 = s + 1 /\ s + 1 <= L
  BY <1>4, <1>6, <1>7, <1>9, <1>10, <1>13
<1>15. /\ buf' \in [1 .. BufSize -> Char] /\ buf'[s + 1] = Head(out)
       /\ \A i \in 1 .. BufSize : i # s + 1 => buf'[i] = buf[i]
       /\ clean' \in [Task -> BOOLEAN]
       /\ clean'[t] <=> clean[t]
       /\ \A u \in Task : u # t => (clean'[u] <=> clean[u] /\ ~ call[u].on)
       /\ program' = program /\ current' = current /\ kbuf' = kbuf
  <2>1. StoreChar(t, Head(out))
    BY <1>2, <1>8
  <2>2. QED
    BY <1>1, <1>11, <1>14, <2>1, CharIsStored
<1>16. d \in Calls
  <2>1. Tail(c.out) \in Seq(Char) /\ c.str + 1 \in Nat
    BY <1>7, <1>8, <1>11
  <2>2. QED
    BY <1>4, <2>1 DEF Calls
<1>17. /\ call'[t] = d /\ \A u \in Task : u # t => call'[u] = call[u]
       /\ call' \in [Task -> Calls]
  <2>1. d = [call[t] EXCEPT !.out = Tail(@), !.str = @ + 1]
    OBVIOUS
  <2> HIDE DEF d
  <2>2. QED
    BY <1>2, <1>3, <1>16, <2>1
<1>18. /\ d.on = c.on /\ d.ended = c.ended /\ d.fmt = c.fmt /\ d.rest = c.rest /\ d.ip = c.ip
       /\ d.out = Tail(c.out) /\ d.str = c.str + 1
  BY <1>4 DEF Calls
<1> HIDE DEF c, d
<1>19. IsAt(d, k)
  <2>1. /\ k \in 0 .. Len(c.fmt)
        /\ Len(c.rest) = Len(c.fmt) - k /\ \A i \in 1 .. Len(c.rest) : c.rest[i] = c.fmt[k + i]
        /\ c.str + Len(c.out) = Len(Begun(c.fmt, k))
        /\ \A i \in 1 .. Len(c.out) : c.out[i] = Begun(c.fmt, k)[c.str + i]
        /\ c.ip = Counts(c.fmt, k)
    BY <1>5, Zenon DEF IsAt
  <2>2. d.str + Len(d.out) = Len(Begun(d.fmt, k))
    BY <1>7, <1>8, <1>9, <1>11, <1>18, <2>1
  <2>3. ASSUME NEW i \in 1 .. l - 1 PROVE Tail(out)[i] = Begun(c.fmt, k)[(s + 1) + i]
    <3>1. i + 1 \in 1 .. l /\ s + (i + 1) = (s + 1) + i
      BY <1>9
    <3>2. out[i + 1] = Begun(c.fmt, k)[s + (i + 1)]
      BY <1>7, <1>8, <1>9, <2>1, <3>1
    <3>3. QED
      BY <1>11, <3>1, <3>2
  <2>4. \A i \in 1 .. Len(d.out) : d.out[i] = Begun(d.fmt, k)[d.str + i]
    BY <1>7, <1>8, <1>11, <1>18, <2>3
  <2>5. QED
    BY <1>18, <2>1, <2>2, <2>4, Zenon DEF IsAt
<1>20. PrintfTypes'
  BY <1>1, <1>15, <1>17, Zenon DEF PrintfTypes
<1>21. ~ c.ended
  BY <1>2, <1>4, Zenon DEF c
<1>22. CallsAreUnderWay'
  <2>1. ASSUME NEW u \in Task, call'[u].on
        PROVE  /\ call'[u].fmt \in program'[u]
               /\ \E j \in Nat : IsAt(call'[u], j)
               /\ call'[u].ended => call'[u].rest = << >> /\ call'[u].out = << >>
    <3>1. CASE u = t
      BY <1>4, <1>15, <1>17, <1>18, <1>19, <1>21, <3>1, Zenon
    <3>2. CASE u # t
      BY <1>1, <1>15, <1>17, <2>1, <3>2, Zenon DEF CallsAreUnderWay
    <3>3. QED
      BY <3>1, <3>2
  <2>2. QED
    BY <2>1, Zenon DEF CallsAreUnderWay
<1>23. CleanIsOwn'
  <2>1. ASSUME NEW u \in Task, call'[u].on, clean'[u], NEW i \in 1 .. call'[u].str
        PROVE  buf'[i] = vsprintf(call'[u].fmt)[i]
    <3>1. CASE u = t
      <4>1. i \in 1 .. s + 1
        BY <1>7, <1>17, <1>18, <2>1, <3>1
      <4>2. CASE i = s + 1
        BY <1>12, <1>15, <1>17, <1>18, <3>1, <4>2, Zenon
      <4>3. CASE i # s + 1
        <5>1. i \in 1 .. s /\ i \in 1 .. BufSize
          BY <1>7, <1>13, <1>14, <4>1, <4>3
        <5>2. c.on /\ clean[t]
          BY <1>2, <1>15, <2>1, <3>1, Zenon
        <5>3. buf[i] = vsprintf(c.fmt)[i]
          BY <1>1, <1>7, <5>1, <5>2, Zenon DEF CleanIsOwn, c
        <5>4. QED
          BY <1>15, <1>17, <1>18, <3>1, <4>3, <5>1, <5>3, Zenon
      <4>4. QED
        BY <4>2, <4>3
    <3>2. CASE u # t
      BY <1>15, <1>17, <2>1, <3>2, Zenon
    <3>3. QED
      BY <3>1, <3>2
  <2>2. QED
    BY <2>1, Zenon DEF CleanIsOwn
<1>24. MaskedIsAlone'
  <2>1. ASSUME NEW u \in Masked, call'[u].on PROVE current' = u /\ clean'[u]
    <3>1. u \in Task
      BY PrintfAssumption, Zenon
    <3>2. call[u].on
      BY <1>2, <1>17, <2>1, <3>1, Zenon DEF c
    <3>3. current = u /\ clean[u]
      BY <1>1, <3>2, Zenon DEF MaskedIsAlone
    <3>4. QED
      BY <1>2, <1>15, <3>3, Zenon
  <2>2. QED
    BY <2>1, Zenon DEF MaskedIsAlone
<1>25. ShownIsText'
  BY <1>1, <1>2, Zenon DEF ShownIsText
<1>26. QED
  BY <1>20, <1>22, <1>23, <1>24, <1>25, Zenon DEF PrintfIInv

\* the NUL at the end
LEMMA EndIsStored ==
  ASSUME PrintfIInv, NEW t \in Task, StoreEnd(t)
  PROVE  PrintfIInv'
<1>1. PrintfTypes /\ CallsAreUnderWay /\ CleanIsOwn /\ MaskedIsAlone /\ ShownIsText
  BY Zenon DEF PrintfIInv
<1> DEFINE c == call[t]
           d == [c EXCEPT !.ended = TRUE]
<1>2. /\ current = t /\ c.on /\ c.out = << >> /\ c.rest = << >>
      /\ StoreChar(t, "NUL")
      /\ call' = [call EXCEPT ![t].ended = TRUE]
      /\ shown' = shown
  BY DEF StoreEnd, Running
<1>3. call \in [Task -> Calls]
  BY <1>1, Zenon DEF PrintfTypes
<1>4. c \in Calls /\ IsFormat(c.fmt) /\ c.fmt \in program[t] /\ Len(vsprintf(c.fmt)) < BufSize
  BY <1>2, RunningCall, Zenon
<1>5. PICK k \in Nat : IsAt(c, k)
  BY <1>2, RunningCall, Zenon
<1>6. PICK L \in Nat : L = Len(vsprintf(c.fmt))
  BY <1>4, VsprintfIs, Zenon
<1>7. c.str = L
  BY <1>2, <1>4, <1>5, <1>6, AtIs
<1>8. BufSize \in Nat
  BY PrintfAssumption, Zenon
<1>9. c.str + 1 \in 1 .. BufSize /\ \A i \in 1 .. L : i \in 1 .. BufSize /\ i # c.str + 1
  BY <1>4, <1>6, <1>7, <1>8
<1>10. "NUL" \in Char
  BY Characters, Zenon
<1>11. /\ buf' \in [1 .. BufSize -> Char]
       /\ \A i \in 1 .. BufSize : i # c.str + 1 => buf'[i] = buf[i]
       /\ clean' \in [Task -> BOOLEAN]
       /\ clean'[t] <=> clean[t]
       /\ \A u \in Task : u # t => (clean'[u] <=> clean[u] /\ ~ call[u].on)
       /\ program' = program /\ current' = current /\ kbuf' = kbuf
  BY <1>1, <1>2, <1>9, <1>10, CharIsStored
<1>12. d \in Calls
  BY <1>4 DEF Calls
<1>13. /\ call'[t] = d /\ \A u \in Task : u # t => call'[u] = call[u]
       /\ call' \in [Task -> Calls]
  BY <1>2, <1>3, <1>12
<1>14. /\ d.on = c.on /\ d.fmt = c.fmt /\ d.rest = c.rest /\ d.ip = c.ip
       /\ d.out = c.out /\ d.str = c.str
  BY <1>4 DEF Calls
<1> HIDE DEF c, d
<1>15. IsAt(d, k)
  BY <1>5, <1>14, Zenon DEF IsAt
<1>16. PrintfTypes'
  BY <1>1, <1>11, <1>13, Zenon DEF PrintfTypes
<1>17. CallsAreUnderWay'
  <2>1. ASSUME NEW u \in Task, call'[u].on
        PROVE  /\ call'[u].fmt \in program'[u]
               /\ \E j \in Nat : IsAt(call'[u], j)
               /\ call'[u].ended => call'[u].rest = << >> /\ call'[u].out = << >>
    <3>1. CASE u = t
      BY <1>2, <1>4, <1>11, <1>13, <1>14, <1>15, <3>1, Zenon
    <3>2. CASE u # t
      BY <1>1, <1>11, <1>13, <2>1, <3>2, Zenon DEF CallsAreUnderWay
    <3>3. QED
      BY <3>1, <3>2
  <2>2. QED
    BY <2>1, Zenon DEF CallsAreUnderWay
<1>18. CleanIsOwn'
  <2>1. ASSUME NEW u \in Task, call'[u].on, clean'[u], NEW i \in 1 .. call'[u].str
        PROVE  buf'[i] = vsprintf(call'[u].fmt)[i]
    <3>1. CASE u = t
      <4>1. i \in 1 .. c.str /\ i \in 1 .. L
        BY <1>7, <1>13, <1>14, <2>1, <3>1
      <4>2. c.on /\ clean[t]
        BY <1>2, <1>11, <2>1, <3>1, Zenon
      <4>3. buf[i] = vsprintf(c.fmt)[i]
        BY <1>1, <4>1, <4>2, Zenon DEF CleanIsOwn, c
      <4>4. QED
        BY <1>9, <1>11, <1>13, <1>14, <3>1, <4>1, <4>3, Zenon
    <3>2. CASE u # t
      BY <1>11, <1>13, <2>1, <3>2, Zenon
    <3>3. QED
      BY <3>1, <3>2
  <2>2. QED
    BY <2>1, Zenon DEF CleanIsOwn
<1>19. MaskedIsAlone'
  <2>1. ASSUME NEW u \in Masked, call'[u].on PROVE current' = u /\ clean'[u]
    <3>1. u \in Task
      BY PrintfAssumption, Zenon
    <3>2. call[u].on
      BY <1>2, <1>13, <2>1, <3>1, Zenon DEF c
    <3>3. current = u /\ clean[u]
      BY <1>1, <3>2, Zenon DEF MaskedIsAlone
    <3>4. QED
      BY <1>2, <1>11, <3>3, Zenon
  <2>2. QED
    BY <2>1, Zenon DEF MaskedIsAlone
<1>20. ShownIsText'
  BY <1>1, <1>2, Zenon DEF ShownIsText
<1>21. QED
  BY <1>16, <1>17, <1>18, <1>19, <1>20, Zenon DEF PrintfIInv


\* the beginning of a buffer
LEMMA BufferShows ==
  ASSUME NEW b \in [1 .. BufSize -> Char], NEW L \in Nat, L < BufSize
  PROVE  /\ Len(SubSeq(b, 1, L)) = L
         /\ \A text \in Seq(Char) :
              Len(text) = L /\ (\A i \in 1 .. L : b[i] = text[i]) => SubSeq(b, 1, L) = text
<1>1. BufSize \in Nat
  BY PrintfAssumption, Zenon
<1>2. b \in Seq(Char) /\ Len(b) = BufSize
  BY <1>1, FunctionIsSeq, Zenon
<1>3. /\ SubSeq(b, 1, L) \in Seq(Char) /\ Len(SubSeq(b, 1, L)) = L
      /\ \A i \in 1 .. L : SubSeq(b, 1, L)[i] = b[i]
  <2>1. L \in 0 .. Len(b)
    BY <1>1, <1>2
  <2>2. QED
    BY <1>2, <2>1, SubSeqProperties
<1>4. ASSUME NEW text \in Seq(Char), Len(text) = L, \A i \in 1 .. L : b[i] = text[i]
      PROVE  SubSeq(b, 1, L) = text
  <2>1. \A i \in 1 .. L : SubSeq(b, 1, L)[i] = text[i]
    BY <1>3, <1>4, Zenon
  <2>2. QED
    BY <1>3, <1>4, <2>1, SeqEqual
<1>5. QED
  BY <1>3, <1>4, Zenon

\* what has been formatted is written
LEMMA TextIsWritten ==
  ASSUME PrintfIInv, NEW t \in Task, sys_write(t)
  PROVE  PrintfIInv'
<1>1. PrintfTypes /\ CallsAreUnderWay /\ CleanIsOwn /\ MaskedIsAlone /\ ShownIsText
  BY Zenon DEF PrintfIInv
<1> DEFINE c == call[t]
<1>2. /\ c.on /\ c.ended
      /\ shown' = [who |-> t, fmt |-> c.fmt, text |-> SubSeq(buf, 1, c.str), ip |-> c.ip, clean |-> clean[t]]
      /\ call' = [call EXCEPT ![t] = NoCall]
      /\ program' = program /\ current' = current /\ buf' = buf /\ kbuf' = kbuf /\ clean' = clean
  BY DEF sys_write, Running
<1>3. call \in [Task -> Calls] /\ buf \in [1 .. BufSize -> Char]
  BY <1>1, Zenon DEF PrintfTypes
<1>4. /\ c \in Calls /\ IsFormat(c.fmt) /\ Len(vsprintf(c.fmt)) < BufSize
      /\ c.rest = << >> /\ c.out = << >>
  BY <1>2, RunningCall, Zenon
<1>5. PICK k \in Nat : IsAt(c, k)
  BY <1>2, RunningCall, Zenon
<1>6. PICK L \in Nat : L = Len(vsprintf(c.fmt))
  BY <1>4, VsprintfIs, Zenon
<1>7. c.str = L /\ c.ip = Counts(c.fmt, Len(c.fmt))
  BY <1>4, <1>5, <1>6, AtIs
<1>8. vsprintf(c.fmt) \in Seq(Char)
  BY <1>4, VsprintfIs, Zenon
<1>9. L < BufSize
  BY <1>4, <1>6
<1>10. Len(SubSeq(buf, 1, L)) = L
  BY <1>3, <1>9, BufferShows, Zenon
<1>11. ASSUME clean[t] PROVE SubSeq(buf, 1, L) = vsprintf(c.fmt)
  <2>1. \A i \in 1 .. L : buf[i] = vsprintf(c.fmt)[i]
    BY <1>1, <1>2, <1>7, <1>11, Zenon DEF CleanIsOwn
  <2>2. QED
    BY <1>3, <1>6, <1>8, <1>9, <2>1, BufferShows, Zenon
<1>12. t \in Masked => clean[t]
  BY <1>1, <1>2, Zenon DEF MaskedIsAlone
<1>13. ShownIsText'
  <2>1. /\ shown'.fmt = c.fmt /\ shown'.text = SubSeq(buf, 1, L) /\ shown'.ip = c.ip
        /\ shown'.who = t /\ shown'.clean = clean[t]
    BY <1>2, <1>7
  <2>2. shown'.clean \/ shown'.who \in Masked => shown'.text = vsprintf(shown'.fmt)
    BY <1>11, <1>12, <2>1, Zenon
  <2>3. Len(shown'.text) = Len(vsprintf(shown'.fmt))
    BY <1>6, <1>10, <2>1
  <2>4. IsFormat(shown'.fmt) /\ shown'.ip = Counts(shown'.fmt, Len(shown'.fmt))
    BY <1>4, <1>7, <2>1, Zenon
  <2>5. QED
    BY <2>2, <2>3, <2>4, Zenon DEF ShownIsText
<1>14. ~ NoCall.on
  BY DEF NoCall
<1>15. /\ call'[t] = NoCall /\ \A u \in Task : u # t => call'[u] = call[u]
       /\ call' \in [Task -> Calls]
  BY <1>2, <1>3, NoCallIs
<1>16. PrintfTypes'
  BY <1>1, <1>2, <1>15, Zenon DEF PrintfTypes
<1>17. \A u \in Task : call'[u].on => u # t /\ call'[u] = call[u]
  BY <1>14, <1>15, Zenon
<1>18. CallsAreUnderWay'
  BY <1>1, <1>2, <1>17, Zenon DEF CallsAreUnderWay
<1>19. CleanIsOwn'
  <2>1. ASSUME NEW u \in Task, call'[u].on, clean'[u], NEW i \in 1 .. call'[u].str
        PROVE  buf'[i] = vsprintf(call'[u].fmt)[i]
    <3>1. call'[u] = call[u] /\ clean[u]
      BY <1>2, <1>17, <2>1, Zenon
    <3>2. call[u].on /\ i \in 1 .. call[u].str
      BY <2>1, <3>1
    <3>3. buf[i] = vsprintf(call[u].fmt)[i]
      BY <1>1, <3>1, <3>2, Zenon DEF CleanIsOwn
    <3>4. QED
      BY <1>2, <3>1, <3>3
  <2>2. QED
    BY <2>1, Zenon DEF CleanIsOwn
<1>20. MaskedIsAlone'
  <2>1. ASSUME NEW u \in Masked, call'[u].on PROVE current' = u /\ clean'[u]
    <3>1. u \in Task
      BY PrintfAssumption, Zenon
    <3>2. QED
      BY <1>1, <1>2, <1>17, <2>1, <3>1, Zenon DEF MaskedIsAlone
  <2>2. QED
    BY <2>1, Zenon DEF MaskedIsAlone
<1>21. QED
  BY <1>13, <1>16, <1>18, <1>19, <1>20, Zenon DEF PrintfIInv

\* another task runs, which it does only if the one that ran may be interrupted
LEMMA TasksAreSwitched ==
  ASSUME PrintfIInv, Switch
  PROVE  PrintfIInv'
<1>1. PrintfTypes /\ CallsAreUnderWay /\ CleanIsOwn /\ MaskedIsAlone /\ ShownIsText
  BY Zenon DEF PrintfIInv
<1>2. /\ current \in Masked => ~ call[current].on
      /\ current' \in Task
      /\ program' = program /\ buf' = buf /\ kbuf' = kbuf /\ call' = call /\ clean' = clean /\ shown' = shown
  BY DEF Switch, InterruptsOn
<1>3. PrintfTypes'
  BY <1>1, <1>2, Zenon DEF PrintfTypes
<1>4. CallsAreUnderWay' /\ CleanIsOwn' /\ ShownIsText'
  BY <1>1, <1>2, Zenon DEF CallsAreUnderWay, CleanIsOwn, ShownIsText
<1>5. MaskedIsAlone'
  BY <1>1, <1>2, Zenon DEF MaskedIsAlone
<1>6. QED
  BY <1>3, <1>4, <1>5, Zenon DEF PrintfIInv

\* the kernel prints, out of a buffer of its own
LEMMA KernelPrints ==
  ASSUME PrintfIInv, NEW fmt \in program[Kernel], printk(fmt)
  PROVE  PrintfIInv'
<1>1. PrintfTypes /\ CallsAreUnderWay /\ CleanIsOwn /\ MaskedIsAlone /\ ShownIsText
  BY Zenon DEF PrintfIInv
<1>2. /\ kbuf' = Over(vsprintf(fmt), kbuf)
      /\ shown' = [NoText EXCEPT !.fmt = fmt, !.text = SubSeq(kbuf', 1, Len(vsprintf(fmt)))]
      /\ program' = program /\ current' = current /\ buf' = buf /\ call' = call /\ clean' = clean
  BY DEF printk
<1>3. IsFormat(fmt) /\ Len(vsprintf(fmt)) < BufSize
  <2>1. Kernel \in Task \cup {Kernel}
    OBVIOUS
  <2>2. QED
    BY <1>1, <2>1, FormatsAre, Zenon
<1>4. PICK text \in Seq(Char) : text = vsprintf(fmt)
  BY <1>3, VsprintfIs, Zenon
<1>5. PICK L \in Nat : L = Len(text) /\ L < BufSize
  BY <1>3, <1>4, LenProperties
<1>6. kbuf \in [1 .. BufSize -> Char] /\ BufSize \in Nat /\ "NUL" \in Char
  BY <1>1, PrintfAssumption, Characters, Zenon DEF PrintfTypes
<1>7. kbuf' \in [1 .. BufSize -> Char] /\ \A i \in 1 .. L : kbuf'[i] = text[i]
  <2>1. PICK nul \in Char : nul = "NUL"
    BY <1>6
  <2>2. kbuf' = [i \in 1 .. BufSize |-> IF i <= L THEN text[i] ELSE IF i = L + 1 THEN nul ELSE kbuf[i]]
    BY <1>2, <1>4, <1>5, <2>1, Zenon DEF Over
  <2>3. \A i \in 1 .. L : text[i] \in Char /\ i \in 1 .. BufSize /\ i <= L
    BY <1>5, <1>6, ElementOfSeq
  <2>4. \A i \in 1 .. BufSize : i <= L => i \in 1 .. L
    OBVIOUS
  <2>5. QED
    BY <1>6, <2>2, <2>3, <2>4
<1>8. SubSeq(kbuf', 1, L) = text
  BY <1>5, <1>7, BufferShows, Zenon
<1>9. ShownIsText'
  <2>1. /\ shown'.fmt = fmt /\ shown'.text = SubSeq(kbuf', 1, Len(vsprintf(fmt))) /\ shown'.who = Kernel
    BY <1>2 DEF NoText
  <2>2. shown'.text = vsprintf(shown'.fmt)
    BY <1>4, <1>5, <1>8, <2>1
  <2>3. QED
    BY <1>3, <2>1, <2>2, Zenon DEF ShownIsText
<1>10. PrintfTypes'
  BY <1>1, <1>2, <1>7, Zenon DEF PrintfTypes
<1>11. CallsAreUnderWay' /\ CleanIsOwn' /\ MaskedIsAlone'
  BY <1>1, <1>2, Zenon DEF CallsAreUnderWay, CleanIsOwn, MaskedIsAlone
<1>12. QED
  BY <1>9, <1>10, <1>11, Zenon DEF PrintfIInv

LEMMA PrintfStarts ==
  ASSUME PrintfInit
  PROVE  PrintfIInv
<1>1. /\ program \in Programs /\ current \in Task
      /\ buf = Zeros /\ kbuf = Zeros
      /\ call = [t \in Task |-> NoCall] /\ clean = [t \in Task |-> TRUE] /\ shown = NoText
  BY DEF PrintfInit
<1>2. Zeros \in [1 .. BufSize -> Char]
  <2>1. PICK nul \in Char : nul = "NUL"
    BY Characters, Zenon
  <2>2. QED
    BY <2>1 DEF Zeros
<1>3. call \in [Task -> Calls] /\ \A t \in Task : call[t] = NoCall
  BY <1>1, NoCallIs
<1>4. clean \in [Task -> BOOLEAN]
  BY <1>1
<1>5. PrintfTypes
  BY <1>1, <1>2, <1>3, <1>4 DEF PrintfTypes
<1>6. \A t \in Task : ~ call[t].on
  BY <1>3 DEF NoCall
<1>7. \A t \in Masked : t \in Task
  BY PrintfAssumption, Zenon
<1>8. CallsAreUnderWay /\ CleanIsOwn /\ MaskedIsAlone
  BY <1>6, <1>7, Zenon DEF CallsAreUnderWay, CleanIsOwn, MaskedIsAlone
<1>9. ShownIsText
  <2>1. shown.fmt = << >> /\ shown.text = << >> /\ shown.who = Kernel
    BY <1>1 DEF NoText
  <2>2. IsFormat(<< >>)
    <3>1. ToSet(<< >>) = {}
      BY DEF ToSet
    <3>2. << >> \in Seq(ToSet(<< >>))
      BY EmptySeq
    <3>3. QED
      BY <3>1, <3>2, Zenon DEF IsFormat
  <2>3. vsprintf(<< >>) = << >>
    <3>1. PICK N \in Nat : N = Len(<< >>) /\ N = 0
      OBVIOUS
    <3>2. Begun(<< >>, Len(<< >>)) = vsprintf(<< >>) /\ Begun(<< >>, 0) = << >>
      BY <2>2, BegunIs, Zenon
    <3>3. QED
      BY <3>1, <3>2
  <2>4. QED
    BY <2>1, <2>2, <2>3, Zenon DEF ShownIsText
<1>10. QED
  BY <1>5, <1>8, <1>9, Zenon DEF PrintfIInv

LEMMA PrintfGoesOn ==
  ASSUME PrintfIInv, [PrintfNext]_printf_vars
  PROVE  PrintfIInv'
<1>1. CASE UNCHANGED printf_vars
  <2>1. /\ program' = program /\ current' = current /\ buf' = buf /\ kbuf' = kbuf /\ call' = call
        /\ clean' = clean /\ shown' = shown
    BY <1>1 DEF printf_vars
  <2>2. QED
    BY <2>1, Zenon DEF PrintfIInv, PrintfTypes, CallsAreUnderWay, CleanIsOwn, MaskedIsAlone, ShownIsText
<1>2. CASE \E t \in Task : \E fmt \in program[t] : printf(t, fmt)
  BY <1>2, PrintfBegins, Zenon
<1>3. CASE \E t \in Task : NextItem(t)
  BY <1>3, ItemIsConverted, Zenon
<1>4. CASE \E t \in Task : Store(t)
  BY <1>4, ItemIsStored, Zenon
<1>5. CASE \E t \in Task : StoreEnd(t)
  BY <1>5, EndIsStored, Zenon
<1>6. CASE \E t \in Task : sys_write(t)
  BY <1>6, TextIsWritten, Zenon
<1>7. CASE Switch
  BY <1>7, TasksAreSwitched, Zenon
<1>8. CASE \E fmt \in program[Kernel] : printk(fmt)
  BY <1>8, KernelPrints, Zenon
<1>9. QED
  BY <1>1, <1>2, <1>3, <1>4, <1>5, <1>6, <1>7, <1>8, Zenon DEF PrintfNext

-----------------------------------------------------------------------------
(* What is proved of printf.                                                 *)

\* Every printf stores the text of its own format, item after item; the buffer holds
\* the text of whoever has it for itself, and a task that has interrupts off has it.
THEOREM PrintfInvariant == PrintfSpec => []PrintfIInv
<1>1. PrintfInit => PrintfIInv
  BY PrintfStarts
<1>2. PrintfIInv /\ [PrintfNext]_printf_vars => PrintfIInv'
  BY PrintfGoesOn
<1>3. QED
  BY <1>1, <1>2, PTL DEF PrintfSpec

\* What is shown has the length of its own format, however many tasks store into the
\* buffer, and every %n counts the characters of its own items.
THEOREM CountsStayOwn == PrintfSpec => []CountsAreItsOwn
<1>1. PrintfIInv => CountsAreItsOwn
  BY Zenon DEF PrintfIInv, ShownIsText, CountsAreItsOwn, Counts, Begun
<1>2. QED
  BY <1>1, PrintfInvariant, PTL

\* What is shown reads as the format says, number for number and blank for blank,
\* unless another task has stored into the buffer meanwhile.  Signs and digits are those
\* of the argument, negative numbers and precisions that are a '*' apart.
THEOREM FormatsAreShown == PrintfSpec => []ShowsTheFormat
<1>1. PrintfIInv => ShowsTheFormat
  BY VsprintfReads, Zenon DEF PrintfIInv, ShownIsText, ShowsTheFormat, Undisturbed
<1>2. QED
  BY <1>1, PrintfInvariant, PTL

===============================================================================
