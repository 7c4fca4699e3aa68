------------------------------- MODULE MCSched -------------------------------
(* Sched with small constants: idle, init, test and one forked child.       *)
EXTENDS Sched
=============================================================================
