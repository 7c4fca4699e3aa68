------------------------------ MODULE Interrupts ------------------------------
(***************************************************************************)
(* The pair of interrupt controllers and what interrupt.c does with it.    *)
(* Each controller serves its lines in order: while it serves one, those   *)
(* behind it wait until the handler has sent the end of interrupt.  The    *)
(* second controller is line IRQ_CASCADE of the first.                     *)
(***************************************************************************)
EXTENDS Integers, FiniteSetsExt

VARIABLES
  requested,      \* the lines that wait for the CPU
  serving,        \* the lines whose interrupts have not been ended
  unmasked,
  handler_table

interrupts == <<requested, serving, unmasked, handler_table>>

IRQ_CLOCK == 0
IRQ_CASCADE == 2
IRQ_RTC == 8
Irq == 0 .. 15
Master == 0 .. 7
Slave == 8 .. 15

\* the line of the first controller an interrupt comes through
Through(irq) == IF irq \in Slave THEN IRQ_CASCADE ELSE irq

\* idt_init gives all lines the same handler and pic_init masks them; then clock_init
interrupt_init ==
  /\ requested = {} /\ serving = {} /\ unmasked = {IRQ_CLOCK}
  /\ handler_table = [[irq \in Irq |-> "default_handler"] EXCEPT ![IRQ_CLOCK] = "clock_handler"]

set_interrupt_handler(irq, handler) ==
  handler_table' = [handler_table EXCEPT ![irq] = handler]

\* the mask a line and the one it comes through have when both are enabled
set_interrupt_mask(irq) == unmasked' = unmasked \cup {irq, Through(irq)}

-----------------------------------------------------------------------------
(* The controllers.                                                         *)

Ahead(irq) == Through(irq) * 16 + irq

\* nothing but the CPU keeps the interrupt back
Delivers(irq) ==
  /\ irq \in requested /\ {irq, Through(irq)} \subseteq unmasked
  /\ \A s \in serving \cap Master : Through(irq) < s
  /\ irq \in Slave => \A s \in serving \cap Slave : irq < s

\* the CPU takes the first of them and the controllers serve it
Accept(irq) ==
  /\ Delivers(irq) /\ \A other \in Irq : Delivers(other) => Ahead(irq) <= Ahead(other)
  /\ requested' = requested \ {irq}
  /\ serving' = serving \cup {irq, Through(irq)}

\* a controller ends the interrupt it has taken last, the first in order
First(lines) == IF lines = {} THEN {} ELSE {Min(lines)}

\* mutant: a line of the second controller is ended there only
Served_OneController(vector) ==
  IF vector \in 32 .. 39 THEN serving \ First(serving \cap Master)
  ELSE serving \ First(serving \cap Slave)

\* what is served after send_eoi(vector)
Served(vector) ==
  IF vector \in 32 .. 39 THEN serving \ First(serving \cap Master)
  ELSE IF vector \in 40 .. 47
  THEN serving \ (First(serving \cap Master) \cup First(serving \cap Slave))
  ELSE serving
=============================================================================
