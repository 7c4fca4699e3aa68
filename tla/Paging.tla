-------------------------------- MODULE Paging --------------------------------
(***************************************************************************)
(* User address spaces (memory.c, and what task.c does with them): frames  *)
(* and their reference counts, page directories and tables, page faults,   *)
(* copy on write, fork, exit and brk, and the translations the CPU caches. *)
(*                                                                         *)
(* Every handler runs with interrupts off.  The pages of a task are its    *)
(* heap, 0 .. HEAP - 1, and its stack, HEAP .. HEAP + STACK - 1, numbered  *)
(* from KERNEL_MEMORY_SIZE on.  A frame that is in no use holds Junk:      *)
(* nobody depends on what is left in it.                                   *)
(***************************************************************************)
EXTENDS Integers, FiniteSets, FiniteSetsExt, Functions

CONSTANTS
  Task, InitTask,  \* the user tasks, and the first of them
  None,            \* no frame, no entry, no task
  Frame,           \* the frames get_page gives out
  HEAP, STACK,     \* the pages below USER_STACK_BOTTOM, and those of the stack
  TABLE,           \* how many pages a page table maps
  Value, Junk,     \* what user code stores, and whatever a fresh frame holds
  BrkArgs,         \* the arguments brk is called with
  Drift,           \* frames below KERNEL_MEMORY_SIZE still counted in free_pages
  WindowStays      \* whether the CPU keeps its translation of page 0

NR_TASKS == 64

ASSUME PagingAssumption ==
  /\ InitTask \in Task /\ None \notin Task \cup Frame
  /\ IsFiniteSet(Task) /\ Cardinality(Task) <= NR_TASKS
  /\ HEAP \in Nat /\ STACK \in Nat \ {0} /\ TABLE \in Nat \ {0}
  /\ Junk \notin Value /\ None \notin Value \cup {Junk}
  /\ BrkArgs \subseteq Nat /\ Drift \in Nat
  /\ WindowStays \in BOOLEAN
  /\ IsFiniteSet(Frame)

Page == 0 .. HEAP + STACK - 1
TableOf(p) == p \div TABLE
Table == {TableOf(p) : p \in Page}
Slot == 0 .. TABLE - 1
SlotOf(p) == p % TABLE
Entry == [frame : Frame, write : BOOLEAN]
PageTable == [Slot -> Entry \cup {None}]

\* user data, page tables and the absence of an entry are told apart
ASSUME ContentAssumption ==
  /\ None \notin Entry
  /\ \A c \in Value \cup {Junk} : c \notin PageTable

VARIABLES
  life,        \* "unborn", "live" or "dead"
  current,     \* the user task that runs, None while a kernel thread does
  pde,         \* the page tables of each task: the frames they are in
  mem,         \* what each frame holds: a page table, or user data
  memory_map,  \* how often each frame is used
  free_pages,
  vmap,        \* the pages each task has, as its bitmap says
  brk,         \* end of each task's heap
  unlinking,   \* the page sys_brk unlinks next and the brk it was called with
  tlb,         \* cached translations of user pages
  window,      \* the frame the cached translation of page 0 leads to
  panicked

taskVars == <<life, current>>
spaceVars == <<pde, vmap, brk>>
frameVars == <<memory_map, free_pages>>
cacheVars == <<tlb, window>>
vars == <<life, current, pde, mem, memory_map, free_pages, vmap, brk, unlinking,
          tlb, window, panicked>>

EmptyTable == [i \in Slot |-> None]
NoTranslation == [p \in Page |-> None]
IsTable(c) == c \notin Value \cup {Junk}

\* the entry that maps page p of task t
EntryOf(t, p) ==
  LET f == pde[t][TableOf(p)]
  IN IF f = None THEN None ELSE IF IsTable(mem[f]) THEN mem[f][SlotOf(p)] ELSE None

Mapped(t) == {p \in Page : EntryOf(t, p) # None}
FrameOf(t, p) == EntryOf(t, p).frame
PagesOn(t, f) == {p \in Mapped(t) : FrameOf(t, p) = f}
Tables(t) == {d \in Table : pde[t][d] # None}
Free == {f \in Frame : memory_map[f] = 0}

TypeOK ==
  /\ life \in [Task -> {"unborn", "live", "dead"}]
  /\ current \in Task \cup {None}
  /\ pde \in [Task -> [Table -> Frame \cup {None}]]
  /\ \A t \in Task, p \in Page : EntryOf(t, p) \in Entry \cup {None}
  /\ memory_map \in [Frame -> 0 .. 255]
  /\ free_pages \in Nat
  /\ vmap \in [Task -> SUBSET Page]
  /\ tlb \in [Page -> Entry \cup {None}]
  /\ window \in Frame \cup {None}

\* init has just entered user mode: it has a directory and no page yet
Init ==
  /\ life = [t \in Task |-> IF t = InitTask THEN "live" ELSE "unborn"]
  /\ current = InitTask
  /\ pde = [t \in Task |-> [d \in Table |-> None]]
  /\ mem = [f \in Frame |-> Junk]
  /\ memory_map = [f \in Frame |-> 0]
  /\ free_pages = Cardinality(Frame) + Drift
  /\ vmap = [t \in Task |-> {}]
  /\ brk = [t \in Task |-> 0]
  /\ unlinking = None
  /\ tlb = NoTranslation /\ window = None
  /\ panicked = FALSE

-----------------------------------------------------------------------------
(* What user code does, through the cached translation if there is one.     *)

UserRuns == ~ panicked /\ current # None /\ unlinking = None

Translation(p) == IF tlb[p] # None THEN tlb[p] ELSE EntryOf(current, p)

Load(p) ==
  /\ UserRuns /\ Translation(p) # None
  /\ tlb' = [tlb EXCEPT ![p] = Translation(p)]
  /\ UNCHANGED <<taskVars, spaceVars, mem, frameVars, unlinking, window, panicked>>

Store(p, v) ==
  /\ UserRuns /\ Translation(p) # None /\ Translation(p).write
  /\ mem' = [mem EXCEPT ![Translation(p).frame] = v]
  /\ tlb' = [tlb EXCEPT ![p] = Translation(p)]
  /\ UNCHANGED <<taskVars, spaceVars, frameVars, unlinking, window, panicked>>

-----------------------------------------------------------------------------
(* Page faults.  get_page gives a free frame, any here, and panics without. *)

Panic ==
  /\ panicked' = TRUE
  /\ UNCHANGED <<taskVars, spaceVars, mem, frameVars, unlinking, cacheVars>>

\* the counts after get_page has given the frames fs
Taken(fs) == [f \in Frame |-> IF f \in fs THEN 1 ELSE memory_map[f]]

\* get_pte: the frame of the table of p; with create, a missing one gets a frame
TableFrames(p) ==
  IF pde[current][TableOf(p)] = None THEN Free ELSE {pde[current][TableOf(p)]}
TableContent(p, tf) == IF tf \in Free THEN EmptyTable ELSE mem[tf]

\* the missing page is below brk or on the stack: link_page
LinkFault(p) ==
  /\ UserRuns /\ Translation(p) = None
  /\ p < brk[current] \/ p >= HEAP
  /\ \E tf \in TableFrames(p) : \E f \in Free \ {tf} :
       LET taken == {f} \cup ({tf} \cap Free)
       IN /\ pde' = [pde EXCEPT ![current][TableOf(p)] = tf]
          /\ mem' = [mem EXCEPT ![tf] = [TableContent(p, tf) EXCEPT ![SlotOf(p)] =
                                            [frame |-> f, write |-> TRUE]]]
          /\ memory_map' = Taken(taken)
          /\ free_pages' = free_pages - Cardinality(taken)
  /\ vmap' = [vmap EXCEPT ![current] = @ \cup {p}]
  /\ tlb' = [tlb EXCEPT ![p] = None]
  /\ UNCHANGED <<taskVars, brk, unlinking, window, panicked>>

\* no frame left, or the page is above brk and below the stack
LinkPanic(p) ==
  /\ UserRuns /\ Translation(p) = None
  /\ p < brk[current] \/ p >= HEAP =>
       Cardinality(Free) < IF pde[current][TableOf(p)] = None THEN 2 ELSE 1
  /\ Panic

WriteFault(p) ==
  /\ UserRuns
  /\ Translation(p) # None /\ ~ Translation(p).write

\* mutant: a page two tasks share counts as one's own
Alone_OffByOne(p) == memory_map[FrameOf(current, p)] <= 2

Alone(p) == memory_map[FrameOf(current, p)] = 1

\* a write to a page only this task has: the entry becomes writable
WriteAlone(p) ==
  /\ WriteFault(p) /\ Alone(p)
  /\ mem' = [mem EXCEPT ![pde[current][TableOf(p)]][SlotOf(p)].write = TRUE]
  /\ tlb' = [tlb EXCEPT ![p] = None]
  /\ UNCHANGED <<taskVars, spaceVars, frameVars, unlinking, window, panicked>>

\* copy_page maps the new frame at page 0 and copies there; the translation of
\* page 0 is not flushed, so an older one may lead the copy elsewhere
CopyTarget(f) == IF window # None THEN window ELSE f

\* a write to a shared page: the task gets a copy of its own
WriteShared(p) ==
  /\ WriteFault(p) /\ ~ Alone(p)
  /\ \E f \in Free :
       /\ mem' = [[mem EXCEPT ![CopyTarget(f)] = mem[FrameOf(current, p)]]
                    EXCEPT ![pde[current][TableOf(p)]][SlotOf(p)] = [frame |-> f, write |-> TRUE]]
       /\ memory_map' = [Taken({f}) EXCEPT ![FrameOf(current, p)] = @ - 1]
       /\ window' = IF WindowStays THEN CopyTarget(f) ELSE None
  /\ free_pages' = free_pages - 1
  /\ tlb' = [tlb EXCEPT ![p] = None]
  /\ UNCHANGED <<taskVars, spaceVars, unlinking, panicked>>

WritePanic(p) ==
  /\ WriteFault(p) /\ ~ Alone(p) /\ Free = {} /\ Panic

-----------------------------------------------------------------------------
(* brk.                                                                     *)

\* a higher brk reserves nothing; -1 if free_pages is too small
GrowBrk(n) ==
  /\ UserRuns /\ n >= brk[current]
  /\ n - brk[current] <= free_pages
  /\ brk' = [brk EXCEPT ![current] = n]
  /\ UNCHANGED <<taskVars, pde, mem, frameVars, vmap, unlinking, cacheVars, panicked>>

\* a lower brk unlinks the pages from the new one to the old one, one by one
ShrinkBrk(n) ==
  /\ UserRuns /\ n < brk[current]
  /\ unlinking' = [page |-> n, brk |-> n]
  /\ UNCHANGED <<taskVars, spaceVars, mem, frameVars, cacheVars, panicked>>

\* one round of the loop of sys_brk; unlink_page also creates a missing table
Unlinks(p) == ~ panicked /\ unlinking # None /\ unlinking.page = p /\ p < brk[current]
NextUnlink(p) == unlinking' = [unlinking EXCEPT !.page = p + 1]

\* mutant: a frame another task still uses is counted as free
FreedBy_Always(f) == 1

\* put_page: how many frames become free when f is put once
FreedBy(f) == IF memory_map[f] = 1 THEN 1 ELSE 0

UnlinkPage(p) ==
  /\ Unlinks(p) /\ EntryOf(current, p) # None
  /\ LET f == FrameOf(current, p)
     IN /\ mem' = [[mem EXCEPT ![pde[current][TableOf(p)]][SlotOf(p)] = None]
                     EXCEPT ![f] = IF memory_map[f] = 1 THEN Junk ELSE @]
        /\ memory_map' = [memory_map EXCEPT ![f] = @ - 1]
        /\ free_pages' = free_pages + FreedBy(f)
  /\ vmap' = [vmap EXCEPT ![current] = @ \ {p}]
  /\ tlb' = [tlb EXCEPT ![p] = None]
  /\ NextUnlink(p)
  /\ UNCHANGED <<taskVars, pde, brk, window, panicked>>

UnlinkNothing(p) ==
  /\ Unlinks(p) /\ EntryOf(current, p) = None
  /\ \E tf \in TableFrames(p) :
       /\ pde' = [pde EXCEPT ![current][TableOf(p)] = tf]
       /\ mem' = [mem EXCEPT ![tf] = TableContent(p, tf)]
       /\ memory_map' = Taken({tf} \cap Free)
       /\ free_pages' = free_pages - Cardinality({tf} \cap Free)
  /\ NextUnlink(p)
  /\ UNCHANGED <<taskVars, vmap, brk, cacheVars, panicked>>

UnlinkPanic(p) == Unlinks(p) /\ pde[current][TableOf(p)] = None /\ Free = {} /\ Panic

ShrunkBrk ==
  /\ ~ panicked /\ unlinking # None /\ unlinking.page = brk[current]
  /\ brk' = [brk EXCEPT ![current] = unlinking.brk]
  /\ unlinking' = None
  /\ UNCHANGED <<taskVars, pde, mem, frameVars, vmap, cacheVars, panicked>>

-----------------------------------------------------------------------------
(* fork, exit and task switches.                                            *)

\* mutant: the entries stay as they are
ReadOnly_NotSet(d) == mem[pde[current][d]]

\* page table d with all its entries read-only
ReadOnly(d) ==
  LET table == mem[pde[current][d]]
  IN [i \in Slot |-> IF table[i] = None THEN None
                     ELSE [frame |-> table[i].frame, write |-> FALSE]]

\* where copy_pde's copy of table d ends up: all at the first stale translation
TableTarget(d, new) ==
  IF window # None THEN window
  ELSE IF WindowStays THEN new[Min(DOMAIN new)] ELSE new[d]

\* mutant: the pages the child shares are not counted
ForkCount_Missing(f) == memory_map[f]

\* one more for each entry the child shares
ForkCount(f) == memory_map[f] + Cardinality(PagesOn(current, f))

\* mutant: the cached translations of the parent stay
CacheAfterFork_Kept == tlb

\* set_cr3 drops them
CacheAfterFork == NoTranslation

\* mutant: the child starts with an empty bitmap
ChildMap_Empty == {}

ChildMap == vmap[current]

\* copy_pde: the pages become read-only and count once more, the tables are copied,
\* and set_cr3 drops the cached translations of the parent
task_fork(child) ==
  /\ UserRuns /\ life[child] = "unborn"
  /\ \E new \in Injection(Tables(current), Free) :
       LET own == {pde[current][d] : d \in Tables(current)}
           copied(f) == {d \in Tables(current) : TableTarget(d, new) = f}
           table(f) == CHOOSE d \in Tables(current) : pde[current][d] = f
       IN /\ pde' = [pde EXCEPT ![child] =
                       [d \in Table |-> IF d \in Tables(current) THEN new[d] ELSE None]]
          /\ mem' = [f \in Frame |->
                       IF copied(f) # {} THEN ReadOnly(Max(copied(f)))
                       ELSE IF f \in own THEN ReadOnly(table(f)) ELSE mem[f]]
          /\ memory_map' = [f \in Frame |->
                              IF f \in Range(new) THEN 1
                              ELSE ForkCount(f)]
  /\ free_pages' = free_pages - Cardinality(Tables(current))
  /\ life' = [life EXCEPT ![child] = "live"]
  /\ vmap' = [vmap EXCEPT ![child] = ChildMap]
  /\ brk' = [brk EXCEPT ![child] = brk[current]]
  /\ tlb' = CacheAfterFork /\ window' = None
  /\ UNCHANGED <<current, unlinking, panicked>>

ForkPanic ==
  /\ UserRuns
  /\ Cardinality(Free) < Cardinality(Tables(current)) \/ \A t \in Task : life[t] # "unborn"
  /\ Panic

\* how often free_pde puts frame f
Puts(f) == Cardinality(PagesOn(current, f))
             + Cardinality({d \in Tables(current) : pde[current][d] = f})

\* free_pde, and the switch to another address space that ends task_exit
task_exit ==
  /\ UserRuns
  /\ memory_map' = [f \in Frame |-> memory_map[f] - Puts(f)]
  /\ LET freed == {f \in Frame : Puts(f) > 0 /\ memory_map[f] = Puts(f)}
     IN /\ mem' = [f \in Frame |-> IF f \in freed THEN Junk ELSE mem[f]]
        /\ free_pages' = free_pages + Cardinality(freed)
  /\ life' = [life EXCEPT ![current] = "dead"]
  /\ pde' = [pde EXCEPT ![current] = [d \in Table |-> None]]
  /\ vmap' = [vmap EXCEPT ![current] = {}]
  /\ current' = None
  /\ tlb' = NoTranslation /\ window' = None
  /\ UNCHANGED <<brk, unlinking, panicked>>

\* task_activate loads cr3, which drops the cached translations
Switch(t) ==
  /\ ~ panicked /\ unlinking = None /\ t # current
  /\ t # None => life[t] = "live"
  /\ current' = t
  /\ tlb' = NoTranslation /\ window' = None
  /\ UNCHANGED <<life, spaceVars, mem, frameVars, unlinking, panicked>>

Stopped == (panicked \/ \A t \in Task : life[t] # "live") /\ UNCHANGED vars

Next ==
  \/ \E p \in Page :
       \/ Load(p) \/ \E v \in Value : Store(p, v)
       \/ LinkFault(p) \/ LinkPanic(p)
       \/ WriteAlone(p) \/ WriteShared(p) \/ WritePanic(p)
       \/ UnlinkPage(p) \/ UnlinkNothing(p) \/ UnlinkPanic(p)
  \/ \E n \in BrkArgs : GrowBrk(n) \/ ShrinkBrk(n)
  \/ ShrunkBrk
  \/ \E t \in Task : task_fork(t)
  \/ ForkPanic
  \/ task_exit
  \/ \E t \in Task \cup {None} : Switch(t)
  \/ Stopped

Spec == Init /\ [][Next]_vars

-----------------------------------------------------------------------------
(* Properties.                                                              *)

\* the page table entries, and the directory entries, that lead to frame f
PageRefs(f) == {r \in Task \X Page : r[2] \in PagesOn(r[1], f)}
TableRefs(f) == {r \in Task \X Table : pde[r[1]][r[2]] = f}

\* memory_map counts the entries and directories that use a frame, through any
\* order of forks, copies, brks and exits: none is freed too early or never.
CountsAreReferences ==
  \A f \in Frame : memory_map[f] = Cardinality(PageRefs(f)) + Cardinality(TableRefs(f))

\* A page two tasks share is read-only in both, and a page table is nobody's page.
SharedIsReadOnly ==
  \A t \in Task : \A p \in Mapped(t) :
    /\ EntryOf(t, p).write => memory_map[FrameOf(t, p)] = 1
    /\ \A u \in Task, d \in Table : pde[u][d] # FrameOf(t, p)

\* A translation the CPU has cached is that of the page table, or has less rights:
\* whatever changes an entry drops the cached one.
CacheIsCurrent ==
  current # None =>
    \A p \in Page : tlb[p] # None =>
      /\ EntryOf(current, p) # None /\ tlb[p].frame = FrameOf(current, p)
      /\ tlb[p].write => EntryOf(current, p).write

\* The bitmap of a task and its page tables agree: the assertions of link_page and
\* unlink_page hold.
VmapMatchesTables == \A t \in Task : vmap[t] = Mapped(t)

\* free_pages follows the frames taken and given back, ahead by a constant.
FreePagesInStep == free_pages = Cardinality(Free) + Drift

\* Copy on write, page tables and cached translations implement private memories.
Space == [t \in Task |-> [p \in Page |->
            IF EntryOf(t, p) = None THEN None
            ELSE IF mem[FrameOf(t, p)] \in Value THEN mem[FrameOf(t, p)] ELSE Junk]]
Memory == INSTANCE PrivateMemory WITH Unmapped <- None, space <- Space
IsPrivateMemory == Memory!Spec
=============================================================================
