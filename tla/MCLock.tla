-------------------------------- MODULE MCLock --------------------------------
(* Lock with four tasks, two of which call it with interrupts off.           *)
EXTENDS Lock, TLC

CONSTANTS a, b, c, d
MCTask == {a, b, c, d}
MCPreemptible == {a, b}
Symmetry == Permutations(MCPreemptible) \cup Permutations(MCTask \ MCPreemptible)
=============================================================================
