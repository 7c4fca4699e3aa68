------------------------------- MODULE Terminal -------------------------------
(***************************************************************************)
(* What the console promises to its writers: a screen of HEIGHT rows that  *)
(* scrolls, and text that goes to the cursor.  The promise ends where the  *)
(* text of a write has gone astray: after a control character of the same  *)
(* write, or after a line that is wrapped while the screen scrolls.        *)
(***************************************************************************)
EXTENDS Integers

CONSTANTS WIDTH, HEIGHT, Text, Blank

VARIABLES
  grid,    \* what each place of the screen shows, row after row
  x, y,    \* where the next character goes
  shown,   \* the place of the blinking cursor, between two writes
  astray   \* the write may put its text elsewhere

vars == <<grid, x, y, shown, astray>>

Place == 0 .. WIDTH * HEIGHT - 1
NoCursor == -1

Here(row, col) == row * WIDTH + col
Last == y + 1 = HEIGHT
Scrolled == [p \in Place |-> IF p + WIDTH \in Place THEN grid[p + WIDTH] ELSE Blank]

Init ==
  /\ grid = [p \in Place |-> Blank]
  /\ x = 0 /\ y = 0 /\ shown = 0 /\ astray = FALSE

Begin ==
  /\ shown # NoCursor
  /\ shown' = NoCursor /\ astray' = FALSE
  /\ UNCHANGED <<grid, x, y>>

End ==
  /\ shown = NoCursor
  /\ shown' = Here(y, x) /\ astray' = FALSE
  /\ UNCHANGED <<grid, x, y>>

\* one row down: the row and what the screen shows
Down == y' = IF Last THEN y ELSE y + 1
Page == IF Last THEN Scrolled ELSE grid

Control == shown = NoCursor /\ astray' \in BOOLEAN /\ UNCHANGED shown

LineFeed == Control /\ Down /\ grid' = Page /\ x' \in {0, x}
Return == Control /\ x' = 0 /\ UNCHANGED <<grid, y>>
BackSpace ==
  /\ Control /\ x > 0
  /\ x' = x - 1 /\ grid' = [grid EXCEPT ![Here(y, x - 1)] = Blank]
  /\ UNCHANGED y
Delete ==
  /\ Control
  /\ grid' = [p \in Place |-> IF p = Here(y, x) THEN Blank ELSE grid[p]]
  /\ UNCHANGED <<x, y>>

\* A character c where page is shown, at the cursor unless the text has gone astray.
Shows(page, row, col, c) ==
  IF astray THEN grid' = page \/ \E p \in Place : grid' = [page EXCEPT ![p] = c]
  ELSE grid' = [page EXCEPT ![Here(row, col)] = c]

Put(c) ==
  /\ shown = NoCursor /\ x < WIDTH
  /\ Shows(grid, y, x, c)
  /\ x' = x + 1
  /\ UNCHANGED <<y, shown, astray>>

\* a character past the right margin; when the screen scrolls it may be lost, or the
\* cursor meet text that had gone astray
Wrap(c) ==
  /\ shown = NoCursor /\ x = WIDTH
  /\ Down /\ x' = 1
  /\ \/ Shows(Page, y', 0, c) /\ astray' \in {astray, astray /\ ~ Last}
     \/ Last /\ grid' = Page /\ astray' = TRUE
  /\ UNCHANGED shown

Next ==
  \/ Begin \/ End \/ LineFeed \/ Return \/ BackSpace \/ Delete
  \/ \E c \in Text : Put(c) \/ Wrap(c)

Spec == Init /\ [][Next]_vars
=============================================================================
