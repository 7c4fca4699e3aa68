------------------------------- MODULE MCPaging -------------------------------
(* A few tasks with a heap and a stack in different page tables.             *)
EXTENDS Paging, TLC

CONSTANTS f1, f2, f3, f4, f5, f6, v1

SixFrames == {f1, f2, f3, f4, f5, f6}
MCValue == {v1}
Symmetry == Permutations(Frame)
=============================================================================
