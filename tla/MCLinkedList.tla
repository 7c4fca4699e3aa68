----------------------------- MODULE MCLinkedList -----------------------------
(* Two lists and four nodes that move between them.                          *)
EXTENDS LinkedList

CONSTANTS l1, l2, n1, n2, n3, n4
MCList == {l1, l2}
MCNode == {n1, n2, n3, n4}
=============================================================================
