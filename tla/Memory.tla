-------------------------------- MODULE Memory --------------------------------
(***************************************************************************)
(* The physical memory (memory.c): the memory_init of the firmware's       *)
(* table, the map of page counts, and the two allocators that share what   *)
(* is there.  alloc_kpage gives the pages of the kernel, with the heap on  *)
(* top; get_page gives frames to page tables and user pages.  The map of   *)
(* counts lies in the first pages of the kernel itself.                    *)
(***************************************************************************)
EXTENDS Arena

CONSTANTS
  Tables,      \* the tables of memory zones the firmware may report
  ZONE_VALID,
  WORD,        \* 2^32: addresses and sizes are kept in 32 bits
  Mapped       \* the pages of the tables in KERNEL_PAGE_TABLE: 2048

MEMORY_BASE == offset * PAGE_SIZE

ASSUME MemoryAssumption ==
  /\ WORD \in Nat \ {0} /\ Mapped \in Nat
  /\ offset > 0                 \* MEMORY_BASE is 1 MB
  /\ Mapped = offset + Size     \* KERNEL_MEMORY_SIZE is 8 MB, and so are two tables
  /\ Mapped <= PAGE_SIZE        \* a page of the map has a count for each

\* a table is a sequence of zones
ASSUME TableAssumption ==
  \A zones \in Tables :
    /\ Len(zones) \in Nat /\ DOMAIN zones = 1 .. Len(zones)
    /\ \A i \in DOMAIN zones : {zones[i].base, zones[i].size} \subseteq Nat

VARIABLES
  table,       \* environment: the zones of this machine
  total_pages,
  memory_map,  \* the count of each page
  free_pages,
  stage,       \* how far kernel_init is
  frames       \* history: the frames callers of get_page hold

physical == <<table, total_pages, memory_map, free_pages, stage, frames>>

-----------------------------------------------------------------------------
(* memory_init and what follows from it.                                    *)

\* the larger valid zone; base and size lose what is beyond 32 bits
Larger(best, zone) ==
  IF zone.type = ZONE_VALID /\ zone.size > best.size
  THEN [base |-> zone.base % WORD, size |-> zone.size % WORD]
  ELSE best
Zone(zones) ==
  LET best[n \in 0 .. Len(zones)] ==
        IF n = 0 THEN [base |-> 0, size |-> 0] ELSE Larger(best[n - 1], zones[n])
  IN best[Len(zones)]

IDX(addr) == addr \div PAGE_SIZE

\* the size of the map for so many pages, a byte each
MapPages(pages) == (pages + PAGE_SIZE - 1) \div PAGE_SIZE

\* the map has a page, and fits into the memory of the kernel
ASSUME MapFits ==
  \A zones \in Tables : MapPages(IDX(Zone(zones).size) + offset) \in 1 .. MaxCount

memory_map_pages == MapPages(total_pages)
start_page == offset + memory_map_pages

MapEntries == 0 .. memory_map_pages * PAGE_SIZE - 1

\* the assertions of memory_init stop the machine on other tables
MemoryInit ==
  /\ HeapInit
  /\ table \in Tables
  /\ Zone(table).base = MEMORY_BASE /\ Zone(table).size % PAGE_SIZE = 0
  /\ total_pages = IDX(Zone(table).size) + offset
  /\ free_pages = IDX(Zone(table).size)
  /\ memory_map = << >> /\ frames = {} /\ stage = "memory_map_init"

-----------------------------------------------------------------------------
(* kernel_init.                                                             *)

\* mutant: the pages of the map stay in free_pages
memory_map_init_NotCounted ==
  /\ stage = "memory_map_init" /\ stage' = "bitmap_scan"
  /\ memory_map' = [i \in MapEntries |-> IF i < start_page THEN 1 ELSE 0]
  /\ alloc_kpage(memory_map_pages)
  /\ UNCHANGED <<table, total_pages, free_pages, frames>>

\* the map's own pages are the first that the kernel takes
memory_map_init ==
  /\ stage = "memory_map_init" /\ stage' = "bitmap_scan"
  /\ free_pages' = free_pages - memory_map_pages
  /\ memory_map' = [i \in MapEntries |-> IF i < start_page THEN 1 ELSE 0]
  /\ alloc_kpage(memory_map_pages)
  /\ UNCHANGED <<table, total_pages, frames>>

\* mutant: only the first of the two tables is filled
mapping_init_OneTable ==
  /\ stage = "bitmap_scan" /\ GotPage
  /\ stage' = "run"
  /\ memory_map' = [i \in MapEntries |-> IF i \in 1 .. Mapped \div 2 - 1 THEN 1 ELSE memory_map[i]]
  /\ UNCHANGED <<table, total_pages, free_pages, frames>>

\* bitmap_scan has returned; the pages of the kernel are mapped, but for page 0
mapping_init ==
  /\ stage = "bitmap_scan" /\ GotPage
  /\ stage' = "run"
  /\ memory_map' = [i \in MapEntries |-> IF i \in 1 .. Mapped - 1 THEN 1 ELSE memory_map[i]]
  /\ UNCHANGED <<table, total_pages, free_pages, frames>>

-----------------------------------------------------------------------------
(* The kernel runs: a call of one allocator ends before the next begins.    *)

\* the pages get_page looks at
Frame == start_page .. total_pages - 1

get_page ==
  /\ stage = "run" /\ pc = "idle"
  /\ \E i \in Frame :
       /\ memory_map[i] = 0 /\ \A j \in start_page .. i - 1 : memory_map[j] # 0
       /\ memory_map' = [memory_map EXCEPT ![i] = 1]
       /\ frames' = frames \cup {i}
  /\ free_pages' = free_pages - 1
  /\ UNCHANGED <<vars, heapVars, call, table, total_pages, stage>>

OutOfMemory ==
  /\ stage = "run" /\ pc = "idle"
  /\ \A i \in Frame : memory_map[i] # 0
  /\ stage' = "OOM"
  /\ UNCHANGED <<vars, heapVars, call, table, total_pages, memory_map, free_pages, frames>>

\* the last reference of a frame goes; Paging has the others
put_page(i) ==
  /\ stage = "run" /\ pc = "idle"
  /\ memory_map' = [memory_map EXCEPT ![i] = @ - 1]
  /\ free_pages' = IF memory_map'[i] = 0 THEN free_pages + 1 ELSE free_pages
  /\ frames' = frames \ {i}
  /\ UNCHANGED <<vars, heapVars, call, table, total_pages, stage>>

\* what the map lies in; nobody gives it back
MapBlock == [addr |-> MEMORY_BASE, size |-> memory_map_pages * PAGE_SIZE]

MemoryNext ==
  \/ memory_map_init \/ mapping_init
  \/ stage = "bitmap_scan" /\ Loop /\ UNCHANGED physical
  \/ stage = "run" /\ HeapNext /\ MapBlock \in given' /\ UNCHANGED physical
  \/ get_page \/ OutOfMemory
  \/ \E i \in frames : put_page(i)

MemorySpec == MemoryInit /\ [][MemoryNext]_<<vars, heapVars, call, physical>>

-----------------------------------------------------------------------------
(* Properties.                                                              *)

\* the pages of the machine that are memory
RAM == {p \in 0 .. total_pages - 1 :
          \E i \in DOMAIN table :
            /\ table[i].type = ZONE_VALID
            /\ table[i].base <= p * PAGE_SIZE
            /\ (p + 1) * PAGE_SIZE <= table[i].base + table[i].size}

\* A frame is never a page of the kernel, whether that is lent or not.
FramesAreNotTheKernels == frames \cap Page = {}

\* The map of counts is what the kernel has lent for it, and has a count for every page.
MapIsTheKernels ==
  MapBlock \in given /\ total_pages <= memory_map_pages * PAGE_SIZE

\* Each page of memory has one owner, the kernel, the map or whom get_page gave it to,
\* and none of them has what is no memory, whichever zone memory_init has taken.
MemoryIsDivided ==
  stage = "run" =>
    /\ FramesAreNotTheKernels /\ MapIsTheKernels
    /\ frames \cup offset .. start_page - 1 \subseteq RAM

\* free_pages is the number of free frames and of the kernel's pages behind the map,
\* which mapping_init takes without counting: sys_brk may grant what get_page will not
\* find, by this number and no more.
FreePagesAreAhead ==
  stage = "run" =>
    free_pages = Cardinality({i \in Frame : memory_map[i] = 0})
                   + Cardinality(start_page .. Mapped - 1)
=============================================================================
