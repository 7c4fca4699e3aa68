------------------------------- MODULE MCMemory -------------------------------
(* Pages of 8 bytes, 32 of which can be addressed.  The kernel has the pages  *)
(* 2 .. 7, in three bytes of two bits; one or two of them hold the map.  A    *)
(* header of the heap has 2 bytes, so a page has two blocks of 3 or one of 6; *)
(* 7 bytes and a header take two pages, 17 take three.                        *)
EXTENDS Memory

CONSTANTS ram, reserved

MCRequest == {3, 5, 7, 17}

At(base, size, type) == [base |-> base, size |-> size, type |-> type]

\* memory up to page 10 below a larger zone that is none; memory up to page 9 of which
\* 32 bits show no more; and memory twice, the larger part too high to be addressed
MCTables == {
  <<At(0, 8, ram), At(8, 8, reserved), At(16, 64, ram), At(80, 150, reserved)>>,
  <<At(0, 8, ram), At(16, 256 + 56, ram)>>,
  <<At(16, 64, ram), At(256, 320, ram)>>}
=============================================================================
