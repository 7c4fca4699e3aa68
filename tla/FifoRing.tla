------------------------------- MODULE FifoRing -------------------------------
(***************************************************************************)
(* The byte ring of lib/fifo.c: one slot stays unused, so that a full ring *)
(* differs from an empty one, and a put into a full ring drops the oldest  *)
(* byte.  The keyboard driver runs its operations with interrupts off.     *)
(***************************************************************************)
EXTENDS Integers, Sequences

CONSTANTS
  length,  \* the slots of the buffer, BUFFER_SIZE in keyboard.c
  Byte     \* the bytes put in

ASSUME FifoAssumption == length \in Nat /\ length >= 2

Slot == 0 .. length - 1
Ring == [buf : [Slot -> Byte], head : Slot, tail : Slot]

fifo_next(pos) == (pos + 1) % length

fifo_full(f) == fifo_next(f.head) = f.tail
fifo_empty(f) == f.head = f.tail

\* fifo_get returns the byte at the tail and moves on; it asserts there is one
Oldest(f) == f.buf[f.tail]
fifo_get(f) == [f EXCEPT !.tail = fifo_next(f.tail)]

\* the loop of fifo_put runs at most once: a get makes a full ring not full
MakeRoom(f) == IF fifo_full(f) THEN fifo_get(f) ELSE f

fifo_put(f, byte) ==
  [buf  |-> [MakeRoom(f).buf EXCEPT ![f.head] = byte],
   head |-> fifo_next(f.head),
   tail |-> MakeRoom(f).tail]

\* the bytes from the tail up to the head
Count(f) == (f.head - f.tail) % length
Contents(f) == [i \in 1 .. Count(f) |-> f.buf[(f.tail + i - 1) % length]]
=============================================================================
