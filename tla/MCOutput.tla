------------------------------- MODULE MCOutput -------------------------------
(* The console and printf, in one run: a behaviour is one of writes to the     *)
(* console, where nobody formats anything, or one of printfs, whose texts are  *)
(* not written.  The screen has two rows, over a memory that holds two         *)
(* screens, a row and a part of one.                                           *)
EXTENDS Console, MCPrintf

CONSTANT a

MCText == {a}

OutputPrograms == MCPrograms \cup {Nobody}

OutputInit == Init /\ PrintfInit /\ (program = Nobody => current = test)

OutputNext ==
  \/ program = Nobody /\ Next /\ UNCHANGED printf_vars
  \/ program # Nobody /\ PrintfNext /\ UNCHANGED vars

OutputSpec == OutputInit /\ [][OutputNext]_<<vars, printf_vars>>
=============================================================================
