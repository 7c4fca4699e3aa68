-------------------------------- MODULE Queues --------------------------------
(***************************************************************************)
(* What the lists of lib/list.c promise: sequences of nodes, each node in  *)
(* at most one of them.                                                    *)
(***************************************************************************)
EXTENDS Integers, Sequences, SequencesExt

CONSTANTS List, Node

VARIABLE queue

Listed == UNION {Range(queue[l]) : l \in List}

Init == queue = [l \in List |-> <<>>]

Insert(l, i, n) == n \notin Listed /\ queue' = [queue EXCEPT ![l] = InsertAt(@, i, n)]
Delete(l, i) == queue' = [queue EXCEPT ![l] = RemoveAt(@, i)]

Next ==
  \E l \in List :
    \/ \E n \in Node, i \in 1 .. Len(queue[l]) + 1 : Insert(l, i, n)
    \/ \E i \in DOMAIN queue[l] : Delete(l, i)

Spec == Init /\ [][Next]_queue
=============================================================================
