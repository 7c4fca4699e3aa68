-------------------------------- MODULE Malloc --------------------------------
(***************************************************************************)
(* What kmalloc, kfree, alloc_kpage and free_kpage promise together: each  *)
(* caller gets bytes nobody else holds, until it gives them back.          *)
(***************************************************************************)
EXTENDS Integers

CONSTANTS
  Address,  \* the addresses of the kernel pages
  Size      \* the sizes callers ask for

VARIABLE given

Bytes(block) == block.addr .. block.addr + block.size - 1

Init == given = {}

Block == [addr : Address, size : Size]

Allocate(block) ==
  /\ block \in Block /\ Bytes(block) \subseteq Address
  /\ \A other \in given : Bytes(block) \cap Bytes(other) = {}
  /\ given' = given \cup {block}

Release(block) == given' = given \ {block}

Next ==
  \/ \E block \in given' \ given : Allocate(block)
  \/ \E block \in given : Release(block)

Spec == Init /\ [][Next]_given
=============================================================================
