-------------------------------- MODULE MCRtc --------------------------------
(* The real-time clock just before the ends of days, months, years and the   *)
(* century, in leap years and others, and in the middle of a day.            *)
EXTENDS Rtc

\* wday is 1 .. 7; the code does not compute with it, so any will do
At(y, mo, d, h, mi, s) ==
  [sec |-> s, min |-> mi, hour |-> h, wday |-> 6, mday |-> d, mon |-> mo, year |-> y]

DayEnds == {At(1999, 12, 31, 23, 59, 58),
            At(1972, 2, 28, 23, 59, 58), At(1971, 2, 28, 23, 59, 58),
            At(2000, 2, 28, 23, 59, 58), At(2000, 2, 29, 23, 59, 58),
            At(2036, 4, 30, 23, 59, 58),
            At(2037, 12, 31, 23, 59, 58)}
MCStarts == DayEnds \cup {At(1985, 7, 4, 9, 59, 58), At(2024, 11, 9, 19, 9, 8)}
=============================================================================
