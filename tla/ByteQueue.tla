------------------------------ MODULE ByteQueue ------------------------------
(* What the keyboard driver expects of its ring (keyboard.c, fifo.h): the    *)
(* last Capacity bytes put and not yet taken, the oldest first.              *)
EXTENDS Integers, Sequences

CONSTANTS Capacity, Byte

VARIABLE queue

Init == queue = << >>

Put(byte) ==
  queue' = Append(IF Len(queue) = Capacity THEN Tail(queue) ELSE queue, byte)

Get == queue # << >> /\ queue' = Tail(queue)

Next == Get \/ \E byte \in Byte : Put(byte)

Spec == Init /\ [][Next]_queue
=============================================================================
