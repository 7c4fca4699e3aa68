--------------------------------- MODULE Fifo ---------------------------------
(* The ring of lib/fifo.c as a state machine, and the queue it implements.   *)
EXTENDS FifoRing

VARIABLE fifo

TypeOK == fifo \in Ring

\* fifo_init: the buffer is the caller's, whatever is in it
Init == fifo \in Ring /\ fifo.head = 0 /\ fifo.tail = 0

Put(byte) == fifo' = fifo_put(fifo, byte)
Get == ~ fifo_empty(fifo) /\ fifo' = fifo_get(fifo)

Next == Get \/ \E byte \in Byte : Put(byte)

Spec == Init /\ [][Next]_fifo

\* The ring implements a queue of length - 1 bytes, also when head and tail have
\* wrapped any number of times and a put has overwritten what nobody read.
Queue == INSTANCE ByteQueue WITH Capacity <- length - 1, queue <- Contents(fifo)
IsByteQueue == Queue!Spec
=============================================================================
