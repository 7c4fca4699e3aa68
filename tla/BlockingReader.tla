---------------------------- MODULE BlockingReader ----------------------------
(***************************************************************************)
(* What keyboard_read and the keyboard interrupt promise together          *)
(* (keyboard.c): typed bytes queue up, the oldest are dropped when nobody  *)
(* reads, and a read takes the next count bytes with no other read among   *)
(* them.                                                                   *)
(***************************************************************************)
EXTENDS Integers, Sequences

CONSTANTS Capacity, Byte, Task, NoTask, Counts

VARIABLES
  queue,   \* the typed bytes nobody has read
  reader,  \* whose read is in progress
  count,   \* how many bytes it wants
  got      \* those it has

vars == <<queue, reader, count, got>>

Init == queue = << >> /\ reader = NoTask /\ count = 0 /\ got = << >>

Type(byte) ==
  /\ queue' = Append(IF Len(queue) = Capacity THEN Tail(queue) ELSE queue, byte)
  /\ UNCHANGED <<reader, count, got>>

Begin(t) ==
  /\ reader = NoTask
  /\ reader' = t /\ count' \in Counts /\ got' = << >>
  /\ UNCHANGED queue

Take ==
  /\ reader # NoTask /\ Len(got) < count
  /\ queue # << >>
  /\ queue' = Tail(queue) /\ got' = Append(got, Head(queue))
  /\ UNCHANGED <<reader, count>>

End ==
  /\ reader # NoTask /\ Len(got) = count
  /\ reader' = NoTask /\ count' = 0 /\ got' = << >>
  /\ UNCHANGED queue

Next == (\E byte \in Byte : Type(byte)) \/ (\E t \in Task : Begin(t)) \/ Take \/ End

Spec == Init /\ [][Next]_vars
=============================================================================
