---------------------------- MODULE PageAllocator ----------------------------
(***************************************************************************)
(* What alloc_kpage and free_kpage promise: runs of consecutive kernel     *)
(* pages, each lent to one caller until it gives it back, the lowest run   *)
(* that is free and long enough first.                                     *)
(***************************************************************************)
EXTENDS Integers

CONSTANTS
  Page,      \* the page numbers the map of kernel pages covers
  MaxCount   \* bound: the longest run a caller asks for

VARIABLE lent

Pages(index, count) == index .. index + count - 1
Run == [index : Page, count : 1 .. MaxCount]

Used(runs) == UNION {Pages(r.index, r.count) : r \in runs}

\* where a run of count pages fits
Fits(used, count) ==
  {i \in Page : Pages(i, count) \subseteq Page /\ Pages(i, count) \cap used = {}}

IsFirstFit(used, count, index) ==
  /\ index \in Fits(used, count)
  /\ \A j \in Fits(used, count) : index <= j

Init == lent = {}

alloc_kpage(count) ==
  \E index \in Page :
    /\ lent' = lent \cup {[index |-> index, count |-> count]}
    /\ IsFirstFit(Used(lent), count, index)

free_kpage(run) == lent' = lent \ {run}

Next ==
  \/ \E count \in 1 .. MaxCount : alloc_kpage(count)
  \/ \E run \in lent : free_kpage(run)

Spec == Init /\ [][Next]_lent
=============================================================================
