------------------------------ MODULE MCContext ------------------------------
(* Context with small constants: idle, init, test and one forked child.       *)
EXTENDS Context
=============================================================================
