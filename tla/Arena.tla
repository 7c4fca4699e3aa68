-------------------------------- MODULE Arena --------------------------------
(***************************************************************************)
(* The kernel heap of kernel/arena.c on the page allocator of Bitmap:      *)
(* sizes of blocks cut from pages, a header at the start of each page, and *)
(* pages of their own for what is larger.  Other code takes pages too      *)
(* (task structures, page directories, bitmaps).  A call that needs pages  *)
(* goes through the loops of Bitmap; all callers run with interrupts off,  *)
(* so one call ends before the next.                                       *)
(***************************************************************************)
EXTENDS Bitmap, Sequences, SequencesExt, FiniteSets

CONSTANTS
  PAGE_SIZE,
  HEADER,      \* sizeof(arena_t)
  MIN_BLOCK,   \* the size of the smallest block
  DESC_COUNT,  \* how many sizes of blocks there are
  Request      \* the sizes kmalloc is called with

ASSUME ArenaAssumption ==
  /\ {PAGE_SIZE, HEADER, MIN_BLOCK, DESC_COUNT} \subseteq Nat \ {0}
  /\ Request \subseteq Nat \ {0}

VARIABLES
  arena,       \* the header of each page, or what is left of one
  free_list,   \* the free blocks of each size
  given,       \* history: the bytes callers hold
  call         \* the call that waits for alloc_kpage

heapVars == <<arena, free_list, given>>

Desc == 1 .. DESC_COUNT
NoDesc == 0
Address == offset * PAGE_SIZE .. (offset + Size) * PAGE_SIZE - 1

-----------------------------------------------------------------------------

\* arena_init
block_size[d \in Desc] == IF d = 1 THEN MIN_BLOCK ELSE 2 * block_size[d - 1]
total_block(d) == (PAGE_SIZE - HEADER) \div block_size[d]

\* the largest block, 1024 bytes
LIMIT == block_size[DESC_COUNT]

\* a page has room for it
ASSUME LimitFits == HEADER + LIMIT <= PAGE_SIZE

\* the first descriptor whose blocks are large enough
DescFor(size) ==
  CHOOSE d \in Desc : block_size[d] >= size /\ \A e \in 1 .. d - 1 : block_size[e] < size

\* mutant: the header is forgotten
PagesFor_NoHeader(size) == (size + PAGE_SIZE - 1) \div PAGE_SIZE

\* div_round_up
PagesFor(size) == (size + HEADER + PAGE_SIZE - 1) \div PAGE_SIZE

\* no request exceeds the bound on runs
ASSUME RequestsFit == \A size \in Request : PagesFor(size) <= MaxCount

get_arena_block(page, d, idx) == page * PAGE_SIZE + HEADER + idx * block_size[d]
get_block_arena(addr) == addr \div PAGE_SIZE

Blocks(page, d) == {get_arena_block(page, d, i) : i \in 0 .. total_block(d) - 1}

NoHeader == [large |-> FALSE, count |-> 0, desc |-> NoDesc]
NoCall == [size |-> 0, pages |-> 0, kind |-> "none"]

Give(addr, size) == given' = given \cup {[addr |-> addr, size |-> size]}

\* what a caller of alloc_kpage, not of kmalloc, holds: whole pages
IsPage(block) == block.addr % PAGE_SIZE = 0
PageRun(block) ==
  [index |-> get_block_arena(block.addr), count |-> block.size \div PAGE_SIZE]

\* arena_init
HeapInit ==
  /\ Init
  /\ arena = [p \in Page |-> NoHeader]
  /\ free_list = [d \in Desc |-> <<>>]
  /\ given = {}
  /\ call = NoCall

-----------------------------------------------------------------------------
(* A call that needs pages: bitmap_scan looks for them.                     *)

Ask(kind, size, pages) ==
  /\ bitmap_scan(pages)
  /\ call' = [kind |-> kind, size |-> size, pages |-> pages]
  /\ UNCHANGED heapVars

\* for other code
alloc_kpage(pages) == Ask("page", pages * PAGE_SIZE, pages)

\* more than LIMIT bytes: pages of their own
LargeBlock(size) == size > LIMIT /\ Ask("large", size, PagesFor(size))

\* no free block: a new page
NewArena(size) ==
  size <= LIMIT /\ free_list[DescFor(size)] = <<>> /\ Ask("arena", size, 1)

\* a free block: no page is needed
FreeBlock(size) ==
  LET d == DescFor(size)
      block == Head(free_list[d])
  IN /\ pc = "idle" /\ size <= LIMIT
     /\ free_list[d] # <<>>
     /\ free_list' = [free_list EXCEPT ![d] = Tail(@)]
     /\ arena' = [arena EXCEPT ![get_block_arena(block)].count = @ - 1]
     /\ Give(block, size)
     /\ UNCHANGED <<vars, call>>

kmalloc(size) == LargeBlock(size) \/ FreeBlock(size) \/ NewArena(size)

(* The pages have come.                                                     *)

Got(kind) == call.kind = kind /\ Return /\ call' = NoCall

\* the headers when a run of pages has got new contents
NoHeaders(p) ==
  [q \in Page |-> IF q \in Allocator!Pages(p, call.pages) THEN NoHeader ELSE arena[q]]

GotPage ==
  LET p == start + offset
  IN /\ Got("page")
     /\ arena' = NoHeaders(p)
     /\ Give(p * PAGE_SIZE, call.size)
     /\ UNCHANGED free_list

\* memset, then the header on the first page
GotLarge ==
  LET p == start + offset
      header == [large |-> TRUE, count |-> call.pages, desc |-> NoDesc]
  IN /\ Got("large")
     /\ arena' = [NoHeaders(p) EXCEPT ![p] = header]
     /\ Give(p * PAGE_SIZE + HEADER, call.size)
     /\ UNCHANGED free_list

\* the blocks of a new page as the loop pushes them: the last one first
Pushed(p, d) == [i \in 1 .. total_block(d) |-> get_arena_block(p, d, total_block(d) - i)]

\* its header when the first block has been given
NewHeader(d) == [large |-> FALSE, count |-> total_block(d) - 1, desc |-> d]

\* the new page is cut into blocks, and one of them given
GotArena ==
  LET p == start + offset
      d == DescFor(call.size)
  IN /\ Got("arena")
     /\ arena' = [arena EXCEPT ![p] = NewHeader(d)]
     /\ free_list' = [free_list EXCEPT ![d] = Tail(Pushed(p, d))]
     /\ Give(Head(Pushed(p, d)), call.size)

-----------------------------------------------------------------------------
(* Release.                                                                 *)

\* the run a caller names is one it holds: PagesAreHeld says that the header has its length
free_kpage(block) ==
  /\ IsPage(block)
  /\ reset_page(PageRun(block))
  /\ given' = given \ {block}
  /\ UNCHANGED <<arena, free_list, call>>

FreeLarge(block) ==
  LET p == get_block_arena(block.addr)
  IN /\ ~ IsPage(block) /\ arena[p].large
     /\ reset_page([index |-> p, count |-> arena[p].count])
     /\ given' = given \ {block}
     /\ UNCHANGED <<arena, free_list, call>>

\* mutant: the page is given back while one block is still in use
Unused_OneLeft(p) == arena[p].count + 2 = total_block(arena[p].desc)

\* the block that comes back is the last one of its page
Unused(p) == arena[p].count + 1 = total_block(arena[p].desc)

\* mutant: the blocks of a page given back stay in the list
WithBlock_Kept(list, block, p) == <<block>> \o list

\* what list_remove of every one of blocks leaves of a list
Without(list, blocks) ==
  LET left[n \in 0 .. Len(list)] ==
        IF n = 0 THEN <<>>
        ELSE IF list[n] \in blocks THEN left[n - 1] ELSE Append(left[n - 1], list[n])
  IN left[Len(list)]

\* the free list when block has come back; an unused page takes its blocks out
WithBlock(list, block, p) ==
  IF Unused(p) THEN Without(list, Blocks(p, arena[p].desc)) ELSE <<block>> \o list

FreeSmall(block) ==
  LET p == get_block_arena(block.addr)
  IN /\ pc = "idle" /\ ~ IsPage(block) /\ ~ arena[p].large
     /\ free_list' = [free_list EXCEPT ![arena[p].desc] = WithBlock(@, block.addr, p)]
     /\ arena' = [arena EXCEPT ![p].count = @ + 1]
     /\ given' = given \ {block}
     /\ IF Unused(p) THEN reset_page([index |-> p, count |-> 1]) ELSE UNCHANGED vars
     /\ UNCHANGED call

kfree(block) == FreeLarge(block) \/ FreeSmall(block)

\* a turn of the loops of bitmap_scan and reset_page
Loop == (Look \/ Found \/ Panic \/ Mark \/ Clear \/ Cleared) /\ UNCHANGED <<heapVars, call>>

HeapNext ==
  \/ alloc_kpage(1) \/ \E size \in Request : kmalloc(size)
  \/ GotPage \/ GotLarge \/ GotArena
  \/ \E block \in given : free_kpage(block) \/ kfree(block)
  \/ Loop

HeapSpec == HeapInit /\ [][HeapNext]_<<vars, heapVars, call>>

-----------------------------------------------------------------------------
(* Properties.                                                              *)

Heap == INSTANCE Malloc WITH Size <- Request \cup {n * PAGE_SIZE : n \in 1 .. MaxCount}

\* the runs somebody holds: all that are lent but the one that reset_page clears
Held == IF pc = "reset" THEN lent \ {[index |-> start + offset, count |-> count]} ELSE lent

\* the run a block is in, as kfree or free_kpage will name it
RunOf(block) ==
  LET p == get_block_arena(block.addr)
  IN IF IsPage(block) THEN PageRun(block)
     ELSE [index |-> p, count |-> IF arena[p].large THEN arena[p].count ELSE 1]

\* The pages cut into blocks of size d: those no caller of alloc_kpage has.
Cut(d) == {p \in Allocator!Used(Held) :
             /\ arena[p].desc = d
             /\ \A b \in given : IsPage(b) => p \notin Allocator!Used({RunOf(b)})}

\* The free list of a size holds, once each, the blocks of its pages that nobody has,
\* and the header of a page counts them: the assertions of kmalloc and kfree hold.
FreeListsAreExact ==
  \A d \in Desc :
    LET taken == {b.addr : b \in given}
    IN /\ IsInjective(free_list[d])
       /\ Range(free_list[d]) = (UNION {Blocks(p, d) : p \in Cut(d)}) \ taken
       /\ \A p \in Cut(d) : arena[p].count = Cardinality(Blocks(p, d) \ taken)

\* The map of pages holds exactly the runs of the blocks that somebody has, with the
\* lengths kfree will read from the headers: no page is lost, none is given back while
\* a block of it is in use, and what kfree gives back is what kmalloc took.
PagesAreHeld == Held = {RunOf(b) : b \in given}

\* Nobody gets bytes that overlap those of somebody else.
IsHeap == Heap!Spec
=============================================================================
