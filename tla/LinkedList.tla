----------------------------- MODULE LinkedList -----------------------------
(***************************************************************************)
(* The lists of lib/list.c, pointer by pointer.  A node has a next and a   *)
(* prev; a list is a head and a tail that stay.  The sleep and block lists *)
(* of tasks, the waiters of a mutex and the free blocks of the heap are    *)
(* such lists, and one node of a task serves all of its lists in turn.     *)
(***************************************************************************)
EXTENDS Integers, Sequences, FiniteSets

CONSTANTS
  List, Node,
  NULL

head(l) == <<l, "head">>
tail(l) == <<l, "tail">>

Heads == {head(l) : l \in List}
Tails == {tail(l) : l \in List}
Cell == Node \cup Heads \cup Tails

ASSUME ListAssumption ==
  /\ IsFiniteSet(Cell)        \* the memory is
  /\ NULL \notin Cell
  /\ Node \cap (Heads \cup Tails) = {}

VARIABLES next, prev

vars == <<next, prev>>

\* list_init for every list; the nodes are cleared by whoever owns them
Init ==
  /\ next = [c \in Cell |-> IF c \in Heads THEN tail(c[1]) ELSE NULL]
  /\ prev = [c \in Cell |-> IF c \in Tails THEN head(c[1]) ELSE NULL]

Linked(c) == next[c] # NULL \/ prev[c] # NULL

\* mutant: the anchor keeps its old predecessor
list_insert_before_OneWay(anchor, node) ==
  /\ next' = [next EXCEPT ![node] = anchor, ![prev[anchor]] = node]
  /\ prev' = [prev EXCEPT ![node] = prev[anchor]]

list_insert_before(anchor, node) ==
  /\ next' = [next EXCEPT ![node] = anchor, ![prev[anchor]] = node]
  /\ prev' = [prev EXCEPT ![node] = prev[anchor], ![anchor] = node]

list_insert_after(anchor, node) ==
  /\ next' = [next EXCEPT ![node] = next[anchor], ![anchor] = node]
  /\ prev' = [prev EXCEPT ![node] = anchor, ![next[anchor]] = node]

\* mutant: the node before keeps pointing to the node
list_remove_OneWay(node) ==
  /\ next[node] # NULL /\ prev[node] # NULL
  /\ next' = [next EXCEPT ![node] = NULL]
  /\ prev' = [prev EXCEPT ![next[node]] = prev[node], ![node] = NULL]

\* the order of the assignments matters only for the last two
list_remove(node) ==
  /\ next[node] # NULL /\ prev[node] # NULL
  /\ next' = [next EXCEPT ![prev[node]] = next[node], ![node] = NULL]
  /\ prev' = [prev EXCEPT ![next[node]] = prev[node], ![node] = NULL]

list_empty(l) == next[head(l)] = tail(l)

\* The caller's part: a node is linked when it is in no list.  list_push asserts only that
\* it is not in this one; the tasks assert it of theirs as pointers that are NULL.  No
\* operation reads the pointers of a node before it is linked, so NULL also stands for
\* whatever the memory of a free block or of a new node has there.
Unlinked(node) == ~ Linked(node)

list_push(l, node) == Unlinked(node) /\ list_insert_after(head(l), node)

list_pushback(l, node) == Unlinked(node) /\ list_insert_before(tail(l), node)
list_pop(l) == ~ list_empty(l) /\ list_remove(next[head(l)])
list_popback(l) == ~ list_empty(l) /\ list_remove(prev[tail(l)])

\* task_sleep inserts before the first later sleeper, or the tail
InsertBefore(anchor, node) ==
  anchor # node /\ prev[anchor] # NULL /\ Unlinked(node) /\ list_insert_before(anchor, node)
InsertAfter(anchor, node) ==
  anchor # node /\ next[anchor] # NULL /\ Unlinked(node) /\ list_insert_after(anchor, node)

Next ==
  \/ \E l \in List : list_pop(l) \/ list_popback(l)
  \/ \E l \in List, node \in Node : list_push(l, node) \/ list_pushback(l, node)
  \/ \E anchor \in Cell, node \in Node : InsertBefore(anchor, node) \/ InsertAfter(anchor, node)
  \/ \E node \in Node : Linked(node) /\ list_remove(node)

Spec == Init /\ [][Next]_vars

-----------------------------------------------------------------------------
(* Properties.                                                              *)

TypeOK == next \in [Cell -> Cell \cup {NULL}] /\ prev \in [Cell -> Cell \cup {NULL}]

\* next and prev are inverse to each other, the ends of a list stay its ends, and a node
\* has both pointers or none: what task_block and its kin assert of a node tells
\* whether it is in a list.
LinksAreTwoWay ==
  /\ \A c \in Cell : next[c] # NULL => prev[next[c]] = c
  /\ \A c \in Cell : prev[c] # NULL => next[prev[c]] = c
  /\ \A c \in Node : next[c] = NULL <=> prev[c] = NULL
  /\ \A l \in List : /\ next[head(l)] # NULL /\ prev[head(l)] = NULL
                     /\ next[tail(l)] = NULL /\ prev[tail(l)] # NULL

\* the loop of list_search and list_size: the cells it visits from the head on
Visits(l) ==
  LET cell[i \in 0 .. Cardinality(Cell)] ==
        IF i = 0 THEN next[head(l)]
        ELSE IF cell[i - 1] = NULL THEN NULL ELSE next[cell[i - 1]]
  IN cell

\* where the loop meets the tail; one that never does is cut off
list_size(l) ==
  CHOOSE i \in 0 .. Cardinality(Cell) :
    /\ Visits(l)[i] = tail(l) \/ i = Cardinality(Cell)
    /\ \A j \in 0 .. i - 1 : Visits(l)[j] # tail(l)
Contents(l) == [i \in 1 .. list_size(l) |-> Visits(l)[i - 1]]

\* A loop over a list visits the nodes put into it, in order, each once; a node is in one
\* list at most.
Nodes == INSTANCE Queues WITH queue <- [l \in List |-> Contents(l)]
IsQueues == Nodes!Spec
=============================================================================
