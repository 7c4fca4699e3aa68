----------------------------- MODULE PagingProofs -----------------------------
(***************************************************************************)
(* User address spaces, for any tasks, frames, pages and values: reference *)
(* counts, copy on write and cached translations are right, and together   *)
(* they implement private memories.                                        *)
(*                                                                         *)
(* The first part reasons about functions: the entries e of all page       *)
(* tables, the directories dir and the counts m, and what adding, dropping *)
(* and sharing references does to them.  The second shows that each action *)
(* does that to Entries, pde and memory_map, whatever the frames that hold *)
(* the tables are.                                                         *)
(***************************************************************************)
EXTENDS Paging, FunctionTheorems, FiniteSetTheorems, TLAPS

\* A page has a slot of its own in its table.
LEMMA SlotsApart ==
  ASSUME NEW p \in Page, NEW q \in Page, TableOf(p) = TableOf(q), SlotOf(p) = SlotOf(q)
  PROVE  p = q
<1>1. TABLE \in Nat \ {0} /\ p \in Int /\ q \in Int
  BY PagingAssumption DEF Page
<1>2. p = TABLE * (p \div TABLE) + (p % TABLE)
  BY <1>1
<1>3. q = TABLE * (q \div TABLE) + (q % TABLE)
  BY <1>1
<1>4. QED
  BY <1>2, <1>3 DEF TableOf, SlotOf

LEMMA PlaceOfPage ==
  ASSUME NEW p \in Page
  PROVE  TableOf(p) \in Table /\ SlotOf(p) \in Slot
<1>1. TABLE \in Nat \ {0} /\ p \in Int
  BY PagingAssumption DEF Page
<1>2. (p % TABLE) \in 0 .. TABLE - 1
  BY <1>1
<1>3. QED
  BY <1>2 DEF Table, Slot, SlotOf

LEMMA FinitePages == IsFiniteSet(Page) /\ IsFiniteSet(Table) /\ IsFiniteSet(Task \X Page) /\ IsFiniteSet(Task \X Table)
<1>1. IsFiniteSet(Page)
  BY PagingAssumption, FS_Interval DEF Page
<1>2. IsFiniteSet(Table)
  <2>1. [p \in Page |-> TableOf(p)] \in Surjection(Page, Table)
    BY Fun_IsSurj DEF Table
  <2>2. QED
    BY <2>1, <1>1, FS_Surjection
<1>3. QED
  BY <1>1, <1>2, PagingAssumption, FS_Product

-----------------------------------------------------------------------------
(* References to frames.                                                    *)

EntriesOn(e, f) == {r \in Task \X Page : e[r[1]][r[2]] # None /\ e[r[1]][r[2]].frame = f}
TablesOn(dir, f) == {r \in Task \X Table : dir[r[1]][r[2]] = f}
Unused(m) == {f \in Frame : m[f] = 0}

ReferenceTypes(e, dir, m) ==
  /\ e \in [Task -> [Page -> Entry \cup {None}]]
  /\ dir \in [Task -> [Table -> Frame \cup {None}]]
  /\ m \in [Frame -> Nat]

\* m counts the references
Counted(e, dir, m) ==
  \A f \in Frame : m[f] = Cardinality(EntriesOn(e, f)) + Cardinality(TablesOn(dir, f))

\* a frame with a page table is in one directory and nobody's page
Apart(e, dir) ==
  /\ \A t, u \in Task, d, x \in Table :
       dir[t][d] # None /\ dir[t][d] = dir[u][x] => t = u /\ d = x
  /\ \A t, u \in Task, p \in Page, d \in Table :
       e[t][p] # None => dir[u][d] # e[t][p].frame

\* a page that can be written is used once
WrittenAlone(e, m) ==
  \A t \in Task, p \in Page : e[t][p] # None /\ e[t][p].write => m[e[t][p].frame] = 1

\* tasks share a frame at the same page only
SamePage(e) ==
  \A t, u \in Task, p, q \in Page :
    e[t][p] # None /\ e[u][q] # None /\ e[t][p].frame = e[u][q].frame => p = q

Coherent(e, dir, m) ==
  /\ ReferenceTypes(e, dir, m)
  /\ Counted(e, dir, m)
  /\ Apart(e, dir)
  /\ WrittenAlone(e, m)
  /\ SamePage(e)

LEMMA RefsFinite ==
  ASSUME NEW e, NEW dir, NEW f
  PROVE  /\ IsFiniteSet(EntriesOn(e, f)) /\ Cardinality(EntriesOn(e, f)) \in Nat
         /\ IsFiniteSet(TablesOn(dir, f)) /\ Cardinality(TablesOn(dir, f)) \in Nat
<1>1. EntriesOn(e, f) \subseteq Task \X Page /\ TablesOn(dir, f) \subseteq Task \X Table
  BY DEF EntriesOn, TablesOn
<1>2. QED
  BY <1>1, FinitePages, FS_Subset, FS_CardinalityType

\* A frame is unused exactly when nothing refers to it.
LEMMA UnusedHasNoRefs ==
  ASSUME NEW e, NEW dir, NEW m, Coherent(e, dir, m), NEW f \in Unused(m)
  PROVE  /\ EntriesOn(e, f) = {} /\ TablesOn(dir, f) = {}
         /\ \A t \in Task, p \in Page : e[t][p] # None => e[t][p].frame # f
         /\ \A t \in Task, d \in Table : dir[t][d] # f
<1>1. f \in Frame /\ m[f] = 0
  BY DEF Unused
<1>2. Cardinality(EntriesOn(e, f)) + Cardinality(TablesOn(dir, f)) = 0
  BY <1>1 DEF Coherent, Counted
<1>3. Cardinality(EntriesOn(e, f)) = 0 /\ Cardinality(TablesOn(dir, f)) = 0
  BY <1>2, RefsFinite
<1>4. EntriesOn(e, f) = {} /\ TablesOn(dir, f) = {}
  BY <1>3, RefsFinite, FS_EmptySet
<1>5. ASSUME NEW t \in Task, NEW p \in Page, e[t][p] # None, e[t][p].frame = f
      PROVE  FALSE
  <2>1. <<t, p>> \in EntriesOn(e, f)
    BY <1>5 DEF EntriesOn
  <2>2. QED
    BY <2>1, <1>4
<1>6. ASSUME NEW t \in Task, NEW d \in Table, dir[t][d] = f
      PROVE  FALSE
  <2>1. <<t, d>> \in TablesOn(dir, f)
    BY <1>6 DEF TablesOn
  <2>2. QED
    BY <2>1, <1>4
<1>7. QED
  BY <1>4, <1>5, <1>6

\* A frame with a page is used, by pages only; a frame with a table once.
LEMMA UsedFrames ==
  ASSUME NEW e, NEW dir, NEW m, Coherent(e, dir, m), NEW f \in Frame
  PROVE  /\ m[f] \in Nat
         /\ \A t \in Task, p \in Page :
              e[t][p] # None /\ e[t][p].frame = f =>
                /\ <<t, p>> \in EntriesOn(e, f) /\ TablesOn(dir, f) = {}
                /\ m[f] = Cardinality(EntriesOn(e, f)) /\ m[f] >= 1
         /\ \A t \in Task, d \in Table :
              dir[t][d] = f =>
                EntriesOn(e, f) = {} /\ TablesOn(dir, f) = {<<t, d>>} /\ m[f] = 1
<1>1. m[f] \in Nat /\ m[f] = Cardinality(EntriesOn(e, f)) + Cardinality(TablesOn(dir, f))
  BY DEF Coherent, ReferenceTypes, Counted
<1>2. ASSUME NEW t \in Task, NEW p \in Page, e[t][p] # None, e[t][p].frame = f
      PROVE  /\ <<t, p>> \in EntriesOn(e, f) /\ TablesOn(dir, f) = {}
             /\ m[f] = Cardinality(EntriesOn(e, f)) /\ m[f] >= 1
  <2>1. <<t, p>> \in EntriesOn(e, f)
    BY <1>2 DEF EntriesOn
  <2>2. TablesOn(dir, f) = {}
    BY <1>2 DEF TablesOn, Coherent, Apart
  <2>3. Cardinality(TablesOn(dir, f)) = 0 /\ Cardinality(EntriesOn(e, f)) # 0
    BY <2>1, <2>2, RefsFinite, FS_EmptySet
  <2>4. QED
    BY <1>1, <2>1, <2>2, <2>3, RefsFinite
<1>3. ASSUME NEW t \in Task, NEW d \in Table, dir[t][d] = f
      PROVE  EntriesOn(e, f) = {} /\ TablesOn(dir, f) = {<<t, d>>} /\ m[f] = 1
  <2>0. f # None
    BY PagingAssumption
  <2>1. EntriesOn(e, f) = {}
    BY <1>3 DEF EntriesOn, Coherent, Apart
  <2>2. TablesOn(dir, f) = {<<t, d>>}
    BY <1>3, <2>0 DEF TablesOn, Coherent, Apart
  <2>3. Cardinality(EntriesOn(e, f)) = 0 /\ Cardinality(TablesOn(dir, f)) = 1
    BY <2>1, <2>2, FS_EmptySet, FS_Singleton
  <2>4. QED
    BY <1>1, <2>1, <2>2, <2>3
<1>4. QED
  BY <1>1, <1>2, <1>3

-----------------------------------------------------------------------------
(* What one more or one less reference does.                                *)

\* A frame that counts once has one reference.
LEMMA UsedOnce ==
  ASSUME NEW e, NEW dir, NEW m, Coherent(e, dir, m),
         NEW t \in Task, NEW p \in Page, NEW u \in Task, NEW q \in Page,
         e[t][p] # None, e[u][q] # None, e[t][p].frame = e[u][q].frame, m[e[t][p].frame] = 1
  PROVE  u = t /\ q = p
<1> DEFINE f == e[t][p].frame
<1>0. f \in Frame
  BY DEF Coherent, ReferenceTypes, Entry
<1>1. m[f] = Cardinality(EntriesOn(e, f)) /\ <<t, p>> \in EntriesOn(e, f) /\ <<u, q>> \in EntriesOn(e, f)
  BY <1>0, UsedFrames
<1>2. IsFiniteSet(EntriesOn(e, f))
  BY RefsFinite
<1>3. \E z : EntriesOn(e, f) = {z}
  BY <1>1, <1>2, FS_Singleton
<1>4. <<u, q>> = <<t, p>>
  BY <1>1, <1>3
<1>5. QED
  BY <1>4

\* get_pte: an unused frame becomes a page table.
LEMMA TableAdded ==
  ASSUME NEW e, NEW dir, NEW m, Coherent(e, dir, m),
         NEW t \in Task, NEW d \in Table, dir[t][d] = None, NEW f \in Unused(m),
         NEW dir2 \in [Task -> [Table -> Frame \cup {None}]],
         \A u \in Task, x \in Table :
           dir2[u][x] = IF u = t /\ x = d THEN f ELSE dir[u][x],
         NEW m2 \in [Frame -> Nat],
         \A g \in Frame : m2[g] = IF g = f THEN 1 ELSE m[g]
  PROVE  Coherent(e, dir2, m2) /\ Unused(m2) = Unused(m) \ {f}
<1>0. ReferenceTypes(e, dir, m) /\ f \in Frame /\ f # None
  BY PagingAssumption DEF Coherent, Unused
<1>1. ReferenceTypes(e, dir2, m2)
  BY <1>0 DEF ReferenceTypes
<1>2. \A u \in Task, x \in Table :
        dir2[u][x] = IF u = t /\ x = d THEN f ELSE dir[u][x]
  OBVIOUS
<1>3. \A g \in Frame : m2[g] = IF g = f THEN 1 ELSE m[g]
  OBVIOUS
<1>4. Apart(e, dir2)
  BY <1>0, <1>2, UnusedHasNoRefs DEF Coherent, Apart
<1>5. WrittenAlone(e, m2)
  <2> SUFFICES ASSUME NEW u \in Task, NEW q \in Page, e[u][q] # None, e[u][q].write
               PROVE  m2[e[u][q].frame] = 1
    BY DEF WrittenAlone
  <2>1. e[u][q].frame \in Frame /\ e[u][q].frame # f
    BY <1>0, UnusedHasNoRefs DEF ReferenceTypes, Entry
  <2>2. m[e[u][q].frame] = 1
    BY DEF Coherent, WrittenAlone
  <2>3. QED
    BY <2>1, <2>2, <1>3
<1>6. Counted(e, dir2, m2)
  <2> SUFFICES ASSUME NEW g \in Frame
               PROVE  m2[g] = Cardinality(EntriesOn(e, g)) + Cardinality(TablesOn(dir2, g))
    BY DEF Counted
  <2>1. CASE g = f
    <3>1. EntriesOn(e, f) = {} /\ TablesOn(dir, f) = {}
      BY UnusedHasNoRefs
    <3>2. TablesOn(dir2, f) = {<<t, d>>}
      BY <1>2, <3>1 DEF TablesOn
    <3>3. Cardinality(EntriesOn(e, f)) = 0 /\ Cardinality(TablesOn(dir2, f)) = 1
      BY <3>1, <3>2, FS_EmptySet, FS_Singleton
    <3>4. QED
      BY <2>1, <3>3, <1>0, <1>3
  <2>2. CASE g # f
    <3>1. g # None
      BY PagingAssumption
    <3>2. TablesOn(dir2, g) = TablesOn(dir, g)
      BY <1>2, <2>2, <3>1 DEF TablesOn
    <3>3. QED
      BY <2>2, <3>2, <1>3 DEF Coherent, Counted
  <2>3. QED
    BY <2>1, <2>2
<1>7. Unused(m2) = Unused(m) \ {f}
  BY <1>3 DEF Unused
<1>8. QED
  BY <1>1, <1>4, <1>5, <1>6, <1>7 DEF Coherent

\* e2 is e but for the entry of page p, m2 is m but for frame f
PutEntry(e, t, p, x, e2) ==
  /\ e2 \in [Task -> [Page -> Entry \cup {None}]]
  /\ \A u \in Task, q \in Page : e2[u][q] = IF u = t /\ q = p THEN x ELSE e[u][q]
PutCount(m, f, n, m2) ==
  m2 \in [Frame -> Int] /\ \A g \in Frame : m2[g] = IF g = f THEN n ELSE m[g]

\* link_page and copy on write: an unused frame becomes a page of its own.
LEMMA EntryAdded ==
  ASSUME NEW e, NEW dir, NEW m, Coherent(e, dir, m),
         NEW t \in Task, NEW p \in Page, e[t][p] = None, NEW f \in Unused(m),
         NEW e2, PutEntry(e, t, p, [frame |-> f, write |-> TRUE], e2),
         NEW m2, PutCount(m, f, 1, m2)
  PROVE  Coherent(e2, dir, m2) /\ Unused(m2) = Unused(m) \ {f}
<1> DEFINE new == [frame |-> f, write |-> TRUE]
<1>0. ReferenceTypes(e, dir, m) /\ f \in Frame
  BY DEF Coherent, Unused
<1>a. new \in Entry /\ new.frame = f /\ new # None
  <2>1. new \in Entry /\ new.frame = f
    BY <1>0 DEF Entry
  <2>2. QED
    BY <2>1, ContentAssumption
<1> HIDE DEF new
<1>1. ReferenceTypes(e2, dir, m2)
  <2>1. m2 \in [Frame -> Nat]
    BY <1>0 DEF ReferenceTypes, PutCount
  <2>2. QED
    BY <2>1, <1>0 DEF ReferenceTypes, PutEntry
<1>2. \A u \in Task, q \in Page :
        e2[u][q] = IF u = t /\ q = p THEN new ELSE e[u][q]
  BY DEF new, PutEntry
<1>3. \A g \in Frame : m2[g] = IF g = f THEN 1 ELSE m[g]
  BY DEF PutCount
<1>4. Apart(e2, dir)
  BY <1>0, <1>a, <1>2, UnusedHasNoRefs DEF Coherent, Apart
<1>5. WrittenAlone(e2, m2)
  <2> SUFFICES ASSUME NEW u \in Task, NEW q \in Page, e2[u][q] # None, e2[u][q].write
               PROVE  m2[e2[u][q].frame] = 1
    BY DEF WrittenAlone
  <2>1. CASE u = t /\ q = p
    BY <2>1, <1>0, <1>a, <1>2, <1>3
  <2>2. CASE ~ (u = t /\ q = p)
    <3>1. e[u][q] # None /\ e[u][q].write /\ e2[u][q] = e[u][q] /\ e[u][q] \in Entry
      BY <2>2, <1>0, <1>2 DEF ReferenceTypes
    <3>2. m[e[u][q].frame] = 1 /\ e[u][q].frame # f /\ e[u][q].frame \in Frame
      BY <3>1, UnusedHasNoRefs DEF Coherent, WrittenAlone, Entry
    <3>3. QED
      BY <3>1, <3>2, <1>3
  <2>3. QED
    BY <2>1, <2>2
<1>6. SamePage(e2)
  BY <1>a, <1>2, UnusedHasNoRefs DEF Coherent, SamePage
<1>7. Counted(e2, dir, m2)
  <2> SUFFICES ASSUME NEW g \in Frame
               PROVE  m2[g] = Cardinality(EntriesOn(e2, g)) + Cardinality(TablesOn(dir, g))
    BY DEF Counted
  <2>1. CASE g = f
    <3>1. EntriesOn(e, f) = {} /\ TablesOn(dir, f) = {}
      BY UnusedHasNoRefs
    <3>2. EntriesOn(e2, f) = {<<t, p>>}
      BY <1>a, <1>2, <3>1 DEF EntriesOn
    <3>3. Cardinality(EntriesOn(e2, f)) = 1 /\ Cardinality(TablesOn(dir, f)) = 0
      BY <3>1, <3>2, FS_EmptySet, FS_Singleton
    <3>4. QED
      BY <2>1, <3>3, <1>0, <1>3
  <2>2. CASE g # f
    <3>1. EntriesOn(e2, g) = EntriesOn(e, g)
      BY <1>a, <1>2, <2>2 DEF EntriesOn
    <3>2. QED
      BY <2>2, <3>1, <1>3 DEF Coherent, Counted
  <2>3. QED
    BY <2>1, <2>2
<1>8. Unused(m2) = Unused(m) \ {f}
  BY <1>3 DEF Unused
<1>9. QED
  BY <1>1, <1>4, <1>5, <1>6, <1>7, <1>8 DEF Coherent

\* put_page: an entry goes away, and its frame is unused if it was the last.
LEMMA EntryDropped ==
  ASSUME NEW e, NEW dir, NEW m, Coherent(e, dir, m),
         NEW t \in Task, NEW p \in Page, e[t][p] # None,
         NEW f, f = e[t][p].frame,
         NEW e2, PutEntry(e, t, p, None, e2),
         NEW m2, PutCount(m, f, m[f] - 1, m2)
  PROVE  /\ Coherent(e2, dir, m2)
         /\ m[f] = 1 => Unused(m2) = Unused(m) \cup {f}
         /\ m[f] # 1 => Unused(m2) = Unused(m)
<1>0. ReferenceTypes(e, dir, m) /\ f \in Frame
  BY DEF Coherent, ReferenceTypes, Entry
<1>a. m[f] \in Nat /\ m[f] >= 1 /\ <<t, p>> \in EntriesOn(e, f)
      /\ m[f] = Cardinality(EntriesOn(e, f)) /\ TablesOn(dir, f) = {}
  BY <1>0, UsedFrames
<1>1. ReferenceTypes(e2, dir, m2)
  BY <1>0, <1>a DEF ReferenceTypes, PutCount, PutEntry
<1>2. \A u \in Task, q \in Page :
        e2[u][q] = IF u = t /\ q = p THEN None ELSE e[u][q]
  BY DEF PutEntry
<1>3. \A g \in Frame : m2[g] = IF g = f THEN m[f] - 1 ELSE m[g]
  BY DEF PutCount
<1>4. Apart(e2, dir)
  BY <1>2 DEF Coherent, Apart
<1>5. WrittenAlone(e2, m2)
  <2> SUFFICES ASSUME NEW u \in Task, NEW q \in Page, e2[u][q] # None, e2[u][q].write
               PROVE  m2[e2[u][q].frame] = 1
    BY DEF WrittenAlone
  <2> DEFINE g == e[u][q].frame
  <2>1. e[u][q] # None /\ e[u][q].write /\ e2[u][q] = e[u][q] /\ <<u, q>> # <<t, p>> /\ g \in Frame
    BY <1>0, <1>2 DEF ReferenceTypes, Entry
  <2>2. m[g] = 1
    BY <2>1 DEF Coherent, WrittenAlone
  <2>3. g # f
    <3>1. SUFFICES ASSUME g = f PROVE FALSE
      OBVIOUS
    <3>2. <<u, q>> \in EntriesOn(e, f)
      BY <2>1, <3>1 DEF EntriesOn
    <3>3. IsFiniteSet(EntriesOn(e, f)) /\ Cardinality(EntriesOn(e, f)) = 1
      BY <2>2, <3>1, <1>a, RefsFinite
    <3>4. PICK x : EntriesOn(e, f) = {x}
      BY <3>3, FS_Singleton
    <3>5. QED
      BY <3>2, <3>4, <1>a, <2>1
  <2>4. QED
    BY <2>1, <2>2, <2>3, <1>3
<1>6. SamePage(e2)
  BY <1>2 DEF Coherent, SamePage
<1>7. Counted(e2, dir, m2)
  <2> SUFFICES ASSUME NEW g \in Frame
               PROVE  m2[g] = Cardinality(EntriesOn(e2, g)) + Cardinality(TablesOn(dir, g))
    BY DEF Counted
  <2>1. CASE g = f
    <3>1. EntriesOn(e2, f) = EntriesOn(e, f) \ {<<t, p>>}
      BY <1>2 DEF EntriesOn
    <3>2. Cardinality(EntriesOn(e2, f)) = m[f] - 1
      <4>1. IsFiniteSet(EntriesOn(e, f))
        BY RefsFinite
      <4>2. Cardinality(EntriesOn(e, f) \ {<<t, p>>}) = Cardinality(EntriesOn(e, f)) - 1
        BY <4>1, <1>a, FS_RemoveElement
      <4>3. QED
        BY <3>1, <4>2, <1>a
    <3>3. Cardinality(TablesOn(dir, f)) = 0
      BY <1>a, FS_EmptySet
    <3>4. QED
      BY <2>1, <3>2, <3>3, <1>3, <1>a
  <2>2. CASE g # f
    <3>1. EntriesOn(e2, g) = EntriesOn(e, g)
      BY <1>2, <2>2 DEF EntriesOn
    <3>2. QED
      BY <2>2, <3>1, <1>3 DEF Coherent, Counted
  <2>3. QED
    BY <2>1, <2>2
<1>8. /\ m[f] = 1 => Unused(m2) = Unused(m) \cup {f}
      /\ m[f] # 1 => Unused(m2) = Unused(m)
  <2>1. \A g \in Frame : m2[g] = 0 <=> m[g] = 0 \/ (g = f /\ m[f] = 1)
    BY <1>0, <1>3, <1>a
  <2>2. QED
    BY <2>1, <1>0 DEF Unused
<1>9. QED
  BY <1>1, <1>4, <1>5, <1>6, <1>7, <1>8 DEF Coherent

\* A page only one task has becomes writable.
LEMMA EntryWritable ==
  ASSUME NEW e, NEW dir, NEW m, Coherent(e, dir, m),
         NEW t \in Task, NEW p \in Page, e[t][p] # None, m[e[t][p].frame] = 1,
         NEW e2, PutEntry(e, t, p, [frame |-> e[t][p].frame, write |-> TRUE], e2)
  PROVE  Coherent(e2, dir, m)
<1> DEFINE new == [frame |-> e[t][p].frame, write |-> TRUE]
<1>0. ReferenceTypes(e, dir, m) /\ e[t][p] \in Entry
  BY DEF Coherent, ReferenceTypes
<1>a. new \in Entry /\ new.frame = e[t][p].frame /\ new # None
  <2>1. new \in Entry /\ new.frame = e[t][p].frame
    BY <1>0 DEF Entry
  <2>2. QED
    BY <2>1, ContentAssumption
<1> HIDE DEF new
<1>1. \A u \in Task, q \in Page :
        e2[u][q] = IF u = t /\ q = p THEN new ELSE e[u][q]
  BY DEF new, PutEntry
<1>2. ReferenceTypes(e2, dir, m)
  BY <1>0 DEF PutEntry, ReferenceTypes
<1>3. Apart(e2, dir)
  BY <1>a, <1>1 DEF Coherent, Apart
<1>4. WrittenAlone(e2, m)
  BY <1>a, <1>1 DEF Coherent, WrittenAlone
<1>5. SamePage(e2)
  BY <1>a, <1>1 DEF Coherent, SamePage
<1>6. \A f \in Frame : EntriesOn(e2, f) = EntriesOn(e, f)
  BY <1>a, <1>1 DEF EntriesOn
<1>7. QED
  BY <1>2, <1>3, <1>4, <1>5, <1>6 DEF Coherent, Counted

-----------------------------------------------------------------------------
(* What fork and exit do: all references of one task at once.               *)

PagesOf(e, t, f) == {p \in Page : e[t][p] # None /\ e[t][p].frame = f}
TablesOf(dir, t) == {d \in Table : dir[t][d] # None}
OwnTables(dir, t, f) == {d \in TablesOf(dir, t) : dir[t][d] = f}
PutsOf(e, dir, t, f) == Cardinality(PagesOf(e, t, f)) + Cardinality(OwnTables(dir, t, f))

LEMMA Slice ==
  ASSUME NEW t, NEW S, IsFiniteSet(S)
  PROVE  IsFiniteSet({t} \X S) /\ Cardinality({t} \X S) = Cardinality(S)
<1>1. IsFiniteSet({t}) /\ Cardinality({t}) = 1
  BY FS_Singleton
<1>2. Cardinality(S) \in Nat
  BY FS_CardinalityType
<1>3. Cardinality({t} \X S) = 1 * Cardinality(S) /\ IsFiniteSet({t} \X S)
  BY <1>1, FS_Product
<1>4. QED
  BY <1>2, <1>3

LEMMA OwnRefsFinite ==
  ASSUME NEW e, NEW dir, NEW t, NEW f
  PROVE  /\ IsFiniteSet(PagesOf(e, t, f)) /\ Cardinality(PagesOf(e, t, f)) \in Nat
         /\ IsFiniteSet(TablesOf(dir, t)) /\ Cardinality(TablesOf(dir, t)) \in Nat
         /\ IsFiniteSet(OwnTables(dir, t, f)) /\ Cardinality(OwnTables(dir, t, f)) \in Nat
<1>1. /\ PagesOf(e, t, f) \subseteq Page
      /\ TablesOf(dir, t) \subseteq Table
      /\ OwnTables(dir, t, f) \subseteq Table
  BY DEF PagesOf, TablesOf, OwnTables
<1>2. QED
  BY <1>1, FinitePages, FS_Subset, FS_CardinalityType

\* copy_pde: parent c and child ch share the pages read-only, the child gets tables.
SharedEntries(e, c, ch) ==
  [t \in Task |-> [p \in Page |->
     IF t \in {c, ch} /\ e[c][p] # None
     THEN [frame |-> e[c][p].frame, write |-> FALSE] ELSE e[t][p]]]
Shared(e, dir, m, c, ch, new, e2, dir2, m2) ==
  /\ e2 = SharedEntries(e, c, ch)
  /\ dir2 = [dir EXCEPT ![ch] =
               [d \in Table |-> IF d \in TablesOf(dir, c) THEN new[d] ELSE None]]
  /\ m2 = [f \in Frame |-> IF f \in Range(new) THEN 1
                            ELSE m[f] + Cardinality(PagesOf(e, c, f))]

LEMMA RefsShared ==
  ASSUME NEW e, NEW dir, NEW m, Coherent(e, dir, m),
         NEW c \in Task, NEW ch \in Task,
         \A p \in Page : e[ch][p] = None, \A d \in Table : dir[ch][d] = None, c # ch,
         NEW new \in Injection(TablesOf(dir, c), Unused(m)),
         NEW e2, NEW dir2, NEW m2, Shared(e, dir, m, c, ch, new, e2, dir2, m2)
  PROVE  Coherent(e2, dir2, m2) /\ Unused(m2) = Unused(m) \ Range(new)
<1> USE DEF Shared, SharedEntries
<1> DEFINE shared(p) == [frame |-> e[c][p].frame, write |-> FALSE]
<1>0. ReferenceTypes(e, dir, m)
  BY DEF Coherent
<1>a. /\ new \in [TablesOf(dir, c) -> Unused(m)]
      /\ \A d, x \in TablesOf(dir, c) : new[d] = new[x] => d = x
      /\ \A d \in TablesOf(dir, c) : new[d] \in Range(new)
      /\ \A f \in Range(new) : \E d \in TablesOf(dir, c) : new[d] = f
      /\ Range(new) \subseteq Unused(m)
  BY Fun_InjectionProperties DEF Range
<1>b. Unused(m) \subseteq Frame /\ None \notin Unused(m)
  BY PagingAssumption DEF Unused
<1>c. \A p \in Page : e[c][p] # None =>
        /\ shared(p) \in Entry /\ shared(p) # None /\ ~ shared(p).write
        /\ shared(p).frame = e[c][p].frame /\ e[c][p] \in Entry
  <2>1. \A p \in Page : e[c][p] # None => e[c][p] \in Entry
    BY <1>0 DEF ReferenceTypes
  <2>2. \A p \in Page : e[c][p] # None => shared(p) \in Entry
    BY <2>1 DEF Entry
  <2>3. QED
    BY <2>1, <2>2, ContentAssumption
<1>d. \A f : Cardinality(PagesOf(e, c, f)) \in Nat
  BY OwnRefsFinite
<1>1. ReferenceTypes(e2, dir2, m2)
  <2>1. e2 \in [Task -> [Page -> Entry \cup {None}]]
    BY <1>0, <1>c DEF ReferenceTypes
  <2>2. dir2 \in [Task -> [Table -> Frame \cup {None}]]
    BY <1>0, <1>a, <1>b DEF ReferenceTypes
  <2>3. m2 \in [Frame -> Nat]
    BY <1>0, <1>d DEF ReferenceTypes
  <2>4. QED
    BY <2>1, <2>2, <2>3 DEF ReferenceTypes
<1>2. \A t \in Task, p \in Page :
        e2[t][p] = IF t \in {c, ch} /\ e[c][p] # None THEN shared(p) ELSE e[t][p]
  OBVIOUS
<1>3. \A t \in Task, d \in Table :
        dir2[t][d] = IF t = ch THEN (IF d \in TablesOf(dir, c) THEN new[d] ELSE None)
                     ELSE dir[t][d]
  BY <1>0 DEF ReferenceTypes
<1>4. \A f \in Frame : m2[f] = IF f \in Range(new) THEN 1
                               ELSE m[f] + Cardinality(PagesOf(e, c, f))
  OBVIOUS
<1> HIDE DEF shared
<1>5. \A t \in Task, p \in Page : e2[t][p] # None =>
        \E u \in Task : e[u][p] # None /\ e2[t][p].frame = e[u][p].frame
  BY <1>2, <1>c
<1>6. Apart(e2, dir2)
  <2>1. ASSUME NEW t \in Task, NEW u \in Task, NEW d \in Table, NEW x \in Table,
               dir2[t][d] # None, dir2[t][d] = dir2[u][x]
        PROVE  t = u /\ d = x
    <3>1. CASE t = ch /\ u = ch
      BY <2>1, <3>1, <1>3, <1>a
    <3>2. CASE t = ch /\ u # ch
      BY <2>1, <3>2, <1>3, <1>a, UnusedHasNoRefs
    <3>3. CASE t # ch /\ u = ch
      BY <2>1, <3>3, <1>3, <1>a, UnusedHasNoRefs
    <3>4. CASE t # ch /\ u # ch
      BY <2>1, <3>4, <1>3 DEF Coherent, Apart
    <3>5. QED
      BY <3>1, <3>2, <3>3, <3>4
  <2>2. ASSUME NEW t \in Task, NEW u \in Task, NEW p \in Page, NEW d \in Table,
               e2[t][p] # None
        PROVE  dir2[u][d] # e2[t][p].frame
    <3>1. PICK v \in Task : e[v][p] # None /\ e2[t][p].frame = e[v][p].frame
      BY <2>2, <1>5
    <3>2. e[v][p].frame \in Frame /\ e[v][p].frame # None
      BY <3>1, <1>0, PagingAssumption DEF ReferenceTypes, Entry
    <3>3. CASE u = ch
      BY <3>1, <3>2, <3>3, <1>3, <1>a, UnusedHasNoRefs
    <3>4. CASE u # ch
      BY <3>1, <3>4, <1>3 DEF Coherent, Apart
    <3>5. QED
      BY <3>3, <3>4
  <2>3. QED
    BY <2>1, <2>2 DEF Apart
<1>7. SamePage(e2)
  BY <1>5 DEF Coherent, SamePage
<1>8. WrittenAlone(e2, m2)
  <2> SUFFICES ASSUME NEW t \in Task, NEW p \in Page, e2[t][p] # None, e2[t][p].write
               PROVE  m2[e2[t][p].frame] = 1
    BY DEF WrittenAlone
  <2> DEFINE f == e[t][p].frame
  <2>1. t # c /\ t # ch /\ e2[t][p] = e[t][p] /\ e[t][p] # None /\ e[t][p].write
    BY <1>2, <1>c
  <2>2. f \in Frame /\ f \notin Range(new)
    BY <2>1, <1>0, <1>a, UnusedHasNoRefs DEF ReferenceTypes, Entry
  <2>3. m[f] = 1 /\ <<t, p>> \in EntriesOn(e, f) /\ Cardinality(EntriesOn(e, f)) = 1
    <3>1. m[f] = 1
      BY <2>1 DEF Coherent, WrittenAlone
    <3>2. QED
      BY <2>1, <2>2, <3>1, UsedFrames
  <2> HIDE DEF f
  <2>4. PagesOf(e, c, f) = {}
    <3>1. SUFFICES ASSUME NEW q \in PagesOf(e, c, f) PROVE FALSE
      OBVIOUS
    <3>2. <<c, q>> \in EntriesOn(e, f)
      BY <3>1 DEF EntriesOn, PagesOf
    <3>3. PICK x : EntriesOn(e, f) = {x}
      BY <2>3, RefsFinite, FS_Singleton
    <3>4. <<c, q>> = <<t, p>>
      BY <3>2, <3>3, <2>3
    <3>5. QED
      BY <3>4, <2>1
  <2>5. Cardinality(PagesOf(e, c, f)) = 0
    BY <2>4, FS_EmptySet
  <2>6. QED
    BY <2>1, <2>2, <2>3, <2>5, <1>4 DEF f
<1>9. Counted(e2, dir2, m2)
  <2> SUFFICES ASSUME NEW f \in Frame
               PROVE  m2[f] = Cardinality(EntriesOn(e2, f)) + Cardinality(TablesOn(dir2, f))
    BY DEF Counted
  <2>1. EntriesOn(e2, f) = EntriesOn(e, f) \cup ({ch} \X PagesOf(e, c, f))
    <3>1. ASSUME NEW t \in Task, NEW p \in Page
          PROVE  (e2[t][p] # None /\ e2[t][p].frame = f) <=>
                   \/ e[t][p] # None /\ e[t][p].frame = f
                   \/ t = ch /\ p \in PagesOf(e, c, f)
      BY <1>2, <1>c DEF PagesOf
    <3>2. PagesOf(e, c, f) \subseteq Page
      BY DEF PagesOf
    <3>3. QED
      BY <3>1, <3>2 DEF EntriesOn
  <2>2. EntriesOn(e, f) \cap ({ch} \X PagesOf(e, c, f)) = {}
    BY DEF EntriesOn, PagesOf
  <2>3. Cardinality(EntriesOn(e2, f)) = Cardinality(EntriesOn(e, f)) + Cardinality(PagesOf(e, c, f))
    <3>1. /\ IsFiniteSet({ch} \X PagesOf(e, c, f))
          /\ Cardinality({ch} \X PagesOf(e, c, f)) = Cardinality(PagesOf(e, c, f))
      BY OwnRefsFinite, Slice
    <3>2. Cardinality(EntriesOn(e, f) \cap ({ch} \X PagesOf(e, c, f))) = 0
      BY <2>2, FS_EmptySet
    <3>3. /\ IsFiniteSet(EntriesOn(e, f)) /\ Cardinality(EntriesOn(e, f)) \in Nat
          /\ Cardinality(PagesOf(e, c, f)) \in Nat
      BY RefsFinite, OwnRefsFinite
    <3>4. Cardinality(EntriesOn(e2, f)) =
            Cardinality(EntriesOn(e, f)) + Cardinality({ch} \X PagesOf(e, c, f))
              - Cardinality(EntriesOn(e, f) \cap ({ch} \X PagesOf(e, c, f)))
      BY <2>1, <3>1, <3>3, FS_Union
    <3>5. QED
      BY <3>1, <3>2, <3>3, <3>4
  <2>4. CASE f \in Range(new)
    <3>1. EntriesOn(e, f) = {} /\ TablesOn(dir, f) = {} /\ PagesOf(e, c, f) = {}
      BY <2>4, <1>a, UnusedHasNoRefs DEF PagesOf
    <3>2. PICK d \in TablesOf(dir, c) : new[d] = f
      BY <2>4, <1>a
    <3>3. TablesOn(dir2, f) = {<<ch, d>>}
      <4>1. ASSUME NEW t \in Task, NEW x \in Table
            PROVE  dir2[t][x] = f <=> t = ch /\ x = d
        <5>1. dir[t][x] # f
          BY <2>4, <1>a, UnusedHasNoRefs
        <5>2. f # None
          BY PagingAssumption
        <5>3. QED
          BY <5>1, <5>2, <1>3, <1>a, <3>2
      <4>2. d \in Table
        BY <3>2 DEF TablesOf
      <4>3. QED
        BY <4>1, <4>2 DEF TablesOn
    <3>4. /\ Cardinality(EntriesOn(e, f)) = 0 /\ Cardinality(PagesOf(e, c, f)) = 0
          /\ Cardinality(TablesOn(dir2, f)) = 1
      BY <3>1, <3>3, FS_EmptySet, FS_Singleton
    <3>5. QED
      BY <2>3, <2>4, <3>4, <1>4
  <2>5. CASE f \notin Range(new)
    <3>1. TablesOn(dir2, f) = TablesOn(dir, f)
      <4>1. ASSUME NEW t \in Task, NEW x \in Table
            PROVE  dir2[t][x] = f <=> dir[t][x] = f
        <5>1. f # None
          BY PagingAssumption
        <5>2. QED
          BY <5>1, <2>5, <1>3, <1>a
      <4>2. QED
        BY <4>1 DEF TablesOn
    <3>2. m[f] = Cardinality(EntriesOn(e, f)) + Cardinality(TablesOn(dir, f))
      BY DEF Coherent, Counted
    <3>3. QED
      <4>1. m2[f] = m[f] + Cardinality(PagesOf(e, c, f))
        BY <2>5, <1>4
      <4>2. Cardinality(EntriesOn(e, f)) \in Nat /\ Cardinality(TablesOn(dir, f)) \in Nat
        BY RefsFinite
      <4>3. QED
        BY <4>1, <4>2, <2>3, <3>1, <3>2, <1>d
  <2>6. QED
    BY <2>4, <2>5
<1>10. Unused(m2) = Unused(m) \ Range(new)
  <2>1. ASSUME NEW f \in Frame
        PROVE  m2[f] = 0 <=> m[f] = 0 /\ f \notin Range(new)
    <3>1. CASE f \in Range(new)
      BY <3>1, <1>4
    <3>2. CASE f \notin Range(new) /\ m[f] = 0
      <4>1. PagesOf(e, c, f) = {}
        BY <3>2, UnusedHasNoRefs DEF PagesOf, Unused
      <4>2. Cardinality(PagesOf(e, c, f)) = 0
        BY <4>1, FS_EmptySet
      <4>3. QED
        BY <3>2, <4>2, <1>4
    <3>3. CASE f \notin Range(new) /\ m[f] # 0
      <4>1. m[f] \in Nat
        BY <1>0 DEF ReferenceTypes
      <4>2. QED
        BY <3>3, <4>1, <1>4, <1>d
    <3>4. QED
      BY <3>1, <3>2, <3>3
  <2>2. QED
    BY <2>1 DEF Unused
<1>11. QED
  BY <1>1, <1>6, <1>7, <1>8, <1>9, <1>10 DEF Coherent

\* free_pde: all references of task t go away.
WithoutPages(e, t) == [e EXCEPT ![t] = [p \in Page |-> None]]
Released(e, dir, m, t, e2, dir2, m2, freed) ==
  /\ e2 = WithoutPages(e, t)
  /\ dir2 = [dir EXCEPT ![t] = [d \in Table |-> None]]
  /\ m2 = [f \in Frame |-> m[f] - PutsOf(e, dir, t, f)]
  /\ freed = {f \in Frame : PutsOf(e, dir, t, f) > 0 /\ m[f] = PutsOf(e, dir, t, f)}

LEMMA RefsReleased ==
  ASSUME NEW e, NEW dir, NEW m, Coherent(e, dir, m), NEW t \in Task,
         NEW e2, NEW dir2, NEW m2, NEW freed, Released(e, dir, m, t, e2, dir2, m2, freed)
  PROVE  /\ Coherent(e2, dir2, m2)
         /\ Unused(m2) = Unused(m) \cup freed /\ Unused(m) \cap freed = {}
<1> USE DEF Released, WithoutPages
<1>0. ReferenceTypes(e, dir, m)
  BY DEF Coherent
<1>1. \A u \in Task, p \in Page : e2[u][p] = IF u = t THEN None ELSE e[u][p]
  BY <1>0 DEF ReferenceTypes
<1>2. \A u \in Task, d \in Table : dir2[u][d] = IF u = t THEN None ELSE dir[u][d]
  BY <1>0 DEF ReferenceTypes
<1>3. \A f \in Frame :
        m2[f] = m[f] - (Cardinality(PagesOf(e, t, f)) + Cardinality(OwnTables(dir, t, f)))
  BY DEF PutsOf
<1>4. /\ e2 \in [Task -> [Page -> Entry \cup {None}]]
      /\ dir2 \in [Task -> [Table -> Frame \cup {None}]]
  BY <1>0 DEF ReferenceTypes
<1>5. \A f : Cardinality(PagesOf(e, t, f)) \in Nat /\ Cardinality(OwnTables(dir, t, f)) \in Nat
  BY OwnRefsFinite
<1>6. m2 = [f \in Frame |-> m2[f]]
  OBVIOUS
<1>7. ASSUME NEW f \in Frame
      PROVE  /\ m2[f] = Cardinality(EntriesOn(e2, f)) + Cardinality(TablesOn(dir2, f))
             /\ m2[f] \in Nat
  <2>1. Cardinality(EntriesOn(e2, f)) = Cardinality(EntriesOn(e, f)) - Cardinality(PagesOf(e, t, f))
    <3>1. {t} \X PagesOf(e, t, f) \subseteq EntriesOn(e, f)
      BY DEF PagesOf, EntriesOn
    <3>2. EntriesOn(e2, f) = EntriesOn(e, f) \ ({t} \X PagesOf(e, t, f))
      BY <1>1 DEF PagesOf, EntriesOn
    <3>3. EntriesOn(e, f) \cap ({t} \X PagesOf(e, t, f)) = {t} \X PagesOf(e, t, f)
      BY <3>1
    <3>4. Cardinality({t} \X PagesOf(e, t, f)) = Cardinality(PagesOf(e, t, f))
      BY OwnRefsFinite, Slice
    <3>5. IsFiniteSet(EntriesOn(e, f))
      BY RefsFinite
    <3>6. Cardinality(EntriesOn(e, f) \ ({t} \X PagesOf(e, t, f))) =
            Cardinality(EntriesOn(e, f))
              - Cardinality(EntriesOn(e, f) \cap ({t} \X PagesOf(e, t, f)))
      BY <3>5, FS_Difference
    <3>7. QED
      BY <3>2, <3>3, <3>4, <3>6
  <2>2. Cardinality(TablesOn(dir2, f)) = Cardinality(TablesOn(dir, f)) - Cardinality(OwnTables(dir, t, f))
    <3>0. f # None
      BY PagingAssumption
    <3>1. {t} \X OwnTables(dir, t, f) \subseteq TablesOn(dir, f)
      BY DEF TablesOf, TablesOn, OwnTables
    <3>2. TablesOn(dir2, f) = TablesOn(dir, f) \ ({t} \X OwnTables(dir, t, f))
      BY <1>2, <3>0 DEF TablesOf, TablesOn, OwnTables
    <3>3. TablesOn(dir, f) \cap ({t} \X OwnTables(dir, t, f)) = {t} \X OwnTables(dir, t, f)
      BY <3>1
    <3>4. Cardinality({t} \X OwnTables(dir, t, f)) = Cardinality(OwnTables(dir, t, f))
      BY OwnRefsFinite, Slice
    <3>5. IsFiniteSet(TablesOn(dir, f))
      BY RefsFinite
    <3>6. Cardinality(TablesOn(dir, f) \ ({t} \X OwnTables(dir, t, f))) =
            Cardinality(TablesOn(dir, f))
              - Cardinality(TablesOn(dir, f) \cap ({t} \X OwnTables(dir, t, f)))
      BY <3>5, FS_Difference
    <3>7. QED
      BY <3>2, <3>3, <3>4, <3>6
  <2>3. m[f] = Cardinality(EntriesOn(e, f)) + Cardinality(TablesOn(dir, f))
    BY DEF Coherent, Counted
  <2>4. /\ Cardinality(EntriesOn(e, f)) \in Nat /\ Cardinality(TablesOn(dir, f)) \in Nat
        /\ Cardinality(EntriesOn(e2, f)) \in Nat /\ Cardinality(TablesOn(dir2, f)) \in Nat
    BY RefsFinite
  <2>5. Cardinality(PagesOf(e, t, f)) \in Nat /\ Cardinality(OwnTables(dir, t, f)) \in Nat
    BY <1>5
  <2>6. QED
    BY <2>1, <2>2, <2>3, <2>4, <2>5, <1>3
<1>8. ReferenceTypes(e2, dir2, m2)
  BY <1>4, <1>6, <1>7 DEF ReferenceTypes
<1>9. Apart(e2, dir2)
  BY <1>0, <1>1, <1>2, PagingAssumption DEF Coherent, Apart, ReferenceTypes, Entry
<1>10. WrittenAlone(e2, m2)
  <2> SUFFICES ASSUME NEW u \in Task, NEW p \in Page, e2[u][p] # None, e2[u][p].write
               PROVE  m2[e2[u][p].frame] = 1
    BY DEF WrittenAlone
  <2> DEFINE f == e[u][p].frame
  <2>1. u # t /\ e2[u][p] = e[u][p] /\ e[u][p] # None /\ e[u][p].write
    BY <1>1
  <2>2. f \in Frame
    BY <2>1, <1>0 DEF ReferenceTypes, Entry
  <2>3. m[f] = 1
    BY <2>1 DEF Coherent, WrittenAlone
  <2>4. /\ <<u, p>> \in EntriesOn(e, f) /\ Cardinality(EntriesOn(e, f)) = 1
        /\ TablesOn(dir, f) = {}
    BY <2>1, <2>2, <2>3, UsedFrames
  <2> HIDE DEF f
  <2>5. PagesOf(e, t, f) = {}
    <3>1. SUFFICES ASSUME NEW q \in PagesOf(e, t, f) PROVE FALSE
      OBVIOUS
    <3>2. <<t, q>> \in EntriesOn(e, f)
      BY <3>1 DEF EntriesOn, PagesOf
    <3>3. PICK x : EntriesOn(e, f) = {x}
      BY <2>4, RefsFinite, FS_Singleton
    <3>4. <<t, q>> = <<u, p>>
      BY <3>2, <3>3, <2>4
    <3>5. QED
      BY <3>4, <2>1
  <2>6. OwnTables(dir, t, f) = {}
    <3>1. SUFFICES ASSUME NEW d \in OwnTables(dir, t, f) PROVE FALSE
      OBVIOUS
    <3>2. <<t, d>> \in TablesOn(dir, f)
      BY <3>1 DEF TablesOf, TablesOn, OwnTables
    <3>3. QED
      BY <3>2, <2>4
  <2>7. Cardinality(PagesOf(e, t, f)) = 0 /\ Cardinality(OwnTables(dir, t, f)) = 0
    BY <2>5, <2>6, FS_EmptySet
  <2>8. QED
    BY <2>1, <2>2, <2>3, <2>7, <1>3 DEF f
<1>11. SamePage(e2)
  BY <1>1 DEF Coherent, SamePage
<1>12. Counted(e2, dir2, m2)
  BY <1>7 DEF Counted
<1>13. Unused(m2) = Unused(m) \cup freed /\ Unused(m) \cap freed = {}
  <2> DEFINE p(f) == PutsOf(e, dir, t, f)
  <2>1. \A f \in Frame : p(f) \in Nat /\ m[f] \in Nat /\ m2[f] \in Nat /\ m2[f] = m[f] - p(f)
    BY <1>0, <1>3, <1>5, <1>7 DEF ReferenceTypes, PutsOf
  <2>2. freed = {f \in Frame : p(f) > 0 /\ m[f] = p(f)}
    OBVIOUS
  <2> HIDE DEF p
  <2>3. QED
    BY <2>1, <2>2 DEF Unused
<1>14. QED
  BY <1>8, <1>9, <1>10, <1>11, <1>12, <1>13 DEF Coherent

\* copy_pde's assertion: no count reaches 255, for every task has a frame at most once.
LEMMA CountsFit ==
  ASSUME NEW e, NEW dir, NEW m, Coherent(e, dir, m), NEW f \in Frame
  PROVE  m[f] \in 0 .. NR_TASKS
<1>0. m[f] \in Nat /\ Cardinality(Task) \in Nat /\ Cardinality(Task) <= 64
  BY PagingAssumption, FS_CardinalityType DEF Coherent, ReferenceTypes, NR_TASKS
<1>1. CASE \E t \in Task, p \in Page : e[t][p] # None /\ e[t][p].frame = f
  <2>1. m[f] = Cardinality(EntriesOn(e, f))
    <3>1. TablesOn(dir, f) = {}
      BY <1>1 DEF TablesOn, Coherent, Apart
    <3>2. Cardinality(TablesOn(dir, f)) = 0 /\ Cardinality(EntriesOn(e, f)) \in Nat
      BY <3>1, FS_EmptySet, RefsFinite
    <3>3. QED
      BY <3>2 DEF Coherent, Counted
  <2>2. [r \in EntriesOn(e, f) |-> r[1]] \in Injection(EntriesOn(e, f), Task)
    <3> DEFINE task == [r \in EntriesOn(e, f) |-> r[1]]
    <3>1. task \in [EntriesOn(e, f) -> Task]
      BY DEF EntriesOn
    <3>2. ASSUME NEW r \in EntriesOn(e, f), NEW s \in EntriesOn(e, f), task[r] = task[s]
          PROVE  r = s
      <4>1. r[2] = s[2]
        BY DEF EntriesOn, Coherent, SamePage
      <4>2. QED
        BY <3>2, <4>1 DEF EntriesOn
    <3>3. QED
      BY <3>1, <3>2, Fun_IsInj
  <2>3. Cardinality(EntriesOn(e, f)) <= Cardinality(Task)
    BY <2>2, PagingAssumption, FS_Injection
  <2>4. QED
    BY <2>1, <2>3, <1>0 DEF NR_TASKS
<1>2. CASE \E t \in Task, d \in Table : dir[t][d] = f
  BY <1>2, UsedFrames DEF NR_TASKS
<1>3. CASE /\ \A t \in Task, p \in Page : ~ (e[t][p] # None /\ e[t][p].frame = f)
           /\ \A t \in Task, d \in Table : dir[t][d] # f
  <2>1. EntriesOn(e, f) = {} /\ TablesOn(dir, f) = {}
    BY <1>3 DEF EntriesOn, TablesOn
  <2>2. Cardinality(EntriesOn(e, f)) = 0 /\ Cardinality(TablesOn(dir, f)) = 0
    BY <2>1, FS_EmptySet
  <2>3. QED
    BY <2>2 DEF Coherent, Counted, NR_TASKS
<1>4. QED
  BY <1>1, <1>2, <1>3

-----------------------------------------------------------------------------
(* Page tables: the entries that directories dir and frame contents c hold. *)

EntryIn(dir, c, t, p) ==
  LET f == dir[t][TableOf(p)]
  IN IF f = None THEN None
     ELSE IF c[f] \notin Value \cup {Junk} THEN c[f][SlotOf(p)] ELSE None
EntriesIn(dir, c) == [t \in Task |-> [p \in Page |-> EntryIn(dir, c, t, p)]]

Directories == [Task -> [Table -> Frame \cup {None}]]

\* each frame in a directory holds a page table
HoldTables(dir, c) == \A t \in Task, d \in Table : dir[t][d] # None => c[dir[t][d]] \in PageTable

\* and is in one place only
OnePlace(dir) ==
  \A t, u \in Task, d, x \in Table :
    dir[t][d] # None /\ dir[t][d] = dir[u][x] => t = u /\ d = x

\* Looking a page up is indexing its table.
LEMMA Lookup ==
  ASSUME NEW dir, NEW c, HoldTables(dir, c)
  PROVE  \A t \in Task, p \in Page :
           /\ dir[t][TableOf(p)] = None => EntriesIn(dir, c)[t][p] = None
           /\ dir[t][TableOf(p)] # None =>
                EntriesIn(dir, c)[t][p] = c[dir[t][TableOf(p)]][SlotOf(p)]
           /\ EntriesIn(dir, c)[t][p] \in Entry \cup {None}
<1> SUFFICES ASSUME NEW t \in Task, NEW p \in Page
             PROVE  /\ dir[t][TableOf(p)] = None => EntriesIn(dir, c)[t][p] = None
                    /\ dir[t][TableOf(p)] # None =>
                         EntriesIn(dir, c)[t][p] = c[dir[t][TableOf(p)]][SlotOf(p)]
                    /\ EntriesIn(dir, c)[t][p] \in Entry \cup {None}
  OBVIOUS
<1>1. EntriesIn(dir, c)[t][p] = EntryIn(dir, c, t, p)
  BY DEF EntriesIn
<1>2. CASE dir[t][TableOf(p)] = None
  BY <1>1, <1>2 DEF EntryIn
<1>3. CASE dir[t][TableOf(p)] # None
  <2>1. c[dir[t][TableOf(p)]] \in PageTable
    BY <1>3, PlaceOfPage DEF HoldTables
  <2>2. c[dir[t][TableOf(p)]] \notin Value \cup {Junk}
    BY <2>1, ContentAssumption
  <2>3. EntriesIn(dir, c)[t][p] = c[dir[t][TableOf(p)]][SlotOf(p)]
    BY <1>1, <1>3, <2>2 DEF EntryIn
  <2>4. c[dir[t][TableOf(p)]][SlotOf(p)] \in Entry \cup {None}
    BY <2>1, PlaceOfPage DEF PageTable
  <2>5. QED
    BY <1>3, <2>3, <2>4
<1>4. QED
  BY <1>2, <1>3

LEMMA EntriesInType ==
  ASSUME NEW dir, NEW c, HoldTables(dir, c)
  PROVE  EntriesIn(dir, c) \in [Task -> [Page -> Entry \cup {None}]]
<1>1. \A t \in Task, p \in Page : EntriesIn(dir, c)[t][p] \in Entry \cup {None}
  BY Lookup
<1>2. EntriesIn(dir, c) = [t \in Task |-> [p \in Page |-> EntriesIn(dir, c)[t][p]]]
  BY DEF EntriesIn
<1>3. QED
  BY <1>1, <1>2

\* Two tables of entries are equal if they agree everywhere.
LEMMA SameEntries ==
  ASSUME NEW a \in [Task -> [Page -> Entry \cup {None}]],
         NEW b \in [Task -> [Page -> Entry \cup {None}]],
         \A t \in Task, p \in Page : a[t][p] = b[t][p]
  PROVE  a = b
OBVIOUS

\* What is in other frames does not matter.
LEMMA TablesKept ==
  ASSUME NEW dir, NEW c, NEW c2, HoldTables(dir, c),
         \A t \in Task, d \in Table : dir[t][d] # None => c2[dir[t][d]] = c[dir[t][d]]
  PROVE  HoldTables(dir, c2) /\ EntriesIn(dir, c2) = EntriesIn(dir, c)
<1>1. HoldTables(dir, c2)
  BY DEF HoldTables
<1>2. \A t \in Task, p \in Page : EntriesIn(dir, c2)[t][p] = EntriesIn(dir, c)[t][p]
  <2> SUFFICES ASSUME NEW t \in Task, NEW p \in Page
               PROVE  EntriesIn(dir, c2)[t][p] = EntriesIn(dir, c)[t][p]
    OBVIOUS
  <2>1. TableOf(p) \in Table
    BY PlaceOfPage
  <2>2. dir[t][TableOf(p)] # None => c2[dir[t][TableOf(p)]] = c[dir[t][TableOf(p)]]
    BY <2>1
  <2>3. QED
    BY <1>1, <2>2, Lookup
<1>3. QED
  BY <1>1, <1>2, EntriesInType, SameEntries

\* Writing a slot of a table changes that entry of that task.
LEMMA SlotWritten ==
  ASSUME NEW dir \in Directories, NEW c, NEW c2, HoldTables(dir, c), OnePlace(dir),
         NEW t \in Task, NEW p \in Page, NEW x \in Entry \cup {None},
         dir[t][TableOf(p)] # None,
         c2[dir[t][TableOf(p)]] = [c[dir[t][TableOf(p)]] EXCEPT ![SlotOf(p)] = x],
         \A u \in Task, d \in Table :
           dir[u][d] # None /\ dir[u][d] # dir[t][TableOf(p)] => c2[dir[u][d]] = c[dir[u][d]]
  PROVE  /\ HoldTables(dir, c2)
         /\ EntriesIn(dir, c2) = [EntriesIn(dir, c) EXCEPT ![t][p] = x]
<1> DEFINE tf == dir[t][TableOf(p)]
           e == EntriesIn(dir, c)
           e2 == [e EXCEPT ![t][p] = x]
<1>0. TableOf(p) \in Table /\ SlotOf(p) \in Slot
  BY PlaceOfPage
<1>1. c[tf] \in PageTable
  BY <1>0 DEF HoldTables
<1>2. c2[tf] \in PageTable /\ \A i \in Slot : c2[tf][i] = IF i = SlotOf(p) THEN x ELSE c[tf][i]
  BY <1>0, <1>1 DEF PageTable
<1>3. HoldTables(dir, c2)
  <2> SUFFICES ASSUME NEW u \in Task, NEW d \in Table, dir[u][d] # None
               PROVE  c2[dir[u][d]] \in PageTable
    BY DEF HoldTables
  <2>1. CASE dir[u][d] = tf
    BY <2>1, <1>2
  <2>2. CASE dir[u][d] # tf
    BY <2>2 DEF HoldTables
  <2>3. QED
    BY <2>1, <2>2
<1>4. e \in [Task -> [Page -> Entry \cup {None}]]
  BY EntriesInType
<1>5. e2 \in [Task -> [Page -> Entry \cup {None}]]
  BY <1>4
<1>6. \A u \in Task, q \in Page : e2[u][q] = IF u = t /\ q = p THEN x ELSE e[u][q]
  BY <1>4
<1> HIDE DEF e2
<1>7. \A u \in Task, q \in Page : EntriesIn(dir, c2)[u][q] = e2[u][q]
  <2> SUFFICES ASSUME NEW u \in Task, NEW q \in Page
               PROVE  EntriesIn(dir, c2)[u][q] = e2[u][q]
    OBVIOUS
  <2>0. TableOf(q) \in Table /\ SlotOf(q) \in Slot
    BY PlaceOfPage
  <2>1. CASE dir[u][TableOf(q)] = None
    <3>1. ~ (u = t /\ q = p)
      BY <2>1
    <3>2. QED
      BY <2>1, <3>1, <1>3, <1>6, Lookup
  <2>2. CASE dir[u][TableOf(q)] # None
    <3>1. /\ EntriesIn(dir, c2)[u][q] = c2[dir[u][TableOf(q)]][SlotOf(q)]
          /\ e[u][q] = c[dir[u][TableOf(q)]][SlotOf(q)]
      BY <2>2, <1>3, Lookup
    <3>2. CASE u = t /\ q = p
      BY <3>1, <3>2, <1>0, <1>2, <1>6
    <3>3. CASE dir[u][TableOf(q)] = tf /\ ~ (u = t /\ q = p)
      <4>1. u = t /\ TableOf(q) = TableOf(p)
        BY <2>0, <2>2, <3>3, <1>0 DEF OnePlace
      <4>2. SlotOf(q) # SlotOf(p)
        BY <3>3, <4>1, SlotsApart
      <4>3. QED
        BY <2>0, <3>1, <3>3, <4>2, <1>2, <1>6
    <3>4. CASE dir[u][TableOf(q)] # tf
      <4>1. ~ (u = t /\ q = p)
        BY <3>4
      <4>2. c2[dir[u][TableOf(q)]] = c[dir[u][TableOf(q)]]
        BY <2>0, <2>2, <3>4
      <4>3. QED
        BY <3>1, <4>1, <4>2, <1>6
    <3>5. QED
      BY <3>2, <3>3, <3>4
  <2>3. QED
    BY <2>1, <2>2
<1>8. QED
  BY <1>3, <1>5, <1>7, EntriesInType, SameEntries DEF e2

\* A new, empty table has no entries.
LEMMA TableLinked ==
  ASSUME NEW dir \in Directories, NEW c, NEW c2, HoldTables(dir, c),
         NEW t \in Task, NEW d \in Table, dir[t][d] = None,
         NEW f \in Frame, c2[f] = EmptyTable,
         \A u \in Task, x \in Table :
           dir[u][x] # None => dir[u][x] # f /\ c2[dir[u][x]] = c[dir[u][x]],
         NEW dir2,
         \A u \in Task, x \in Table : dir2[u][x] = IF u = t /\ x = d THEN f ELSE dir[u][x]
  PROVE  HoldTables(dir2, c2) /\ EntriesIn(dir2, c2) = EntriesIn(dir, c)
<1>0. f # None /\ EmptyTable \in PageTable
  BY PagingAssumption DEF EmptyTable, PageTable
<1>1. \A u \in Task, x \in Table : dir2[u][x] = IF u = t /\ x = d THEN f ELSE dir[u][x]
  OBVIOUS
<1>2. HoldTables(dir2, c2)
  BY <1>0, <1>1 DEF HoldTables
<1>3. \A u \in Task, p \in Page : EntriesIn(dir2, c2)[u][p] = EntriesIn(dir, c)[u][p]
  <2> SUFFICES ASSUME NEW u \in Task, NEW p \in Page
               PROVE  EntriesIn(dir2, c2)[u][p] = EntriesIn(dir, c)[u][p]
    OBVIOUS
  <2>0. TableOf(p) \in Table /\ SlotOf(p) \in Slot
    BY PlaceOfPage
  <2>1. CASE u = t /\ TableOf(p) = d
    <3>1. EntriesIn(dir2, c2)[u][p] = EmptyTable[SlotOf(p)]
      BY <2>0, <2>1, <1>0, <1>1, <1>2, Lookup
    <3>2. EntriesIn(dir, c)[u][p] = None
      BY <2>1, Lookup
    <3>3. QED
      BY <2>0, <3>1, <3>2 DEF EmptyTable
  <2>2. CASE ~ (u = t /\ TableOf(p) = d)
    <3>1. dir2[u][TableOf(p)] = dir[u][TableOf(p)]
      BY <2>0, <2>2, <1>1
    <3>2. CASE dir[u][TableOf(p)] = None
      BY <3>1, <3>2, <1>2, Lookup
    <3>3. CASE dir[u][TableOf(p)] # None
      <4>1. c2[dir[u][TableOf(p)]] = c[dir[u][TableOf(p)]]
        BY <2>0, <3>3
      <4>2. QED
        BY <3>1, <3>3, <4>1, <1>2, Lookup
    <3>4. QED
      BY <3>2, <3>3
  <2>3. QED
    BY <2>1, <2>2
<1>4. EntriesIn(dir2, c2) = EntriesIn(dir, c)
  <2>1. /\ EntriesIn(dir2, c2) \in [Task -> [Page -> Entry \cup {None}]]
        /\ EntriesIn(dir, c) \in [Task -> [Page -> Entry \cup {None}]]
    BY <1>2, EntriesInType
  <2>2. QED
    BY <2>1, <1>3, SameEntries
<1>5. QED
  BY <1>2, <1>4

\* a page table with its entries read-only
AllReadOnly(table) ==
  [i \in Slot |-> IF table[i] = None THEN None ELSE [frame |-> table[i].frame, write |-> FALSE]]

LEMMA ReadOnlyEntry ==
  ASSUME NEW x \in Entry
  PROVE  [frame |-> x.frame, write |-> FALSE] \in Entry
BY DEF Entry

LEMMA MadeWritable ==
  ASSUME NEW x \in Entry
  PROVE  [x EXCEPT !.write = TRUE] = [frame |-> x.frame, write |-> TRUE]
<1> DEFINE y == [x EXCEPT !.write = TRUE]
<1>1. y \in Entry /\ y.frame = x.frame /\ y.write = TRUE
  BY DEF Entry
<1> HIDE DEF y
<1>2. y = [frame |-> y.frame, write |-> y.write]
  BY <1>1 DEF Entry
<1>3. y = [frame |-> x.frame, write |-> TRUE]
  BY <1>1, <1>2
<1>4. QED
  BY <1>3 DEF y

\* copy_pde: parent and child get read-only copies of the parent's tables.
TablesCopied(dir, c, t, ch, new, dir2, c2) ==
  /\ \A d \in TablesOf(dir, t) :
       /\ c2[new[d]] = AllReadOnly(c[dir[t][d]])
       /\ c2[dir[t][d]] = AllReadOnly(c[dir[t][d]])
  /\ \A u \in Task, x \in Table :
       u # t /\ dir[u][x] # None => c2[dir[u][x]] = c[dir[u][x]]
  /\ \A u \in Task, x \in Table :
       dir2[u][x] = IF u = ch THEN (IF x \in TablesOf(dir, t) THEN new[x] ELSE None)
                    ELSE dir[u][x]

LEMMA TablesShared ==
  ASSUME NEW dir \in Directories, NEW c, NEW c2, HoldTables(dir, c),
         NEW t \in Task, NEW ch \in Task, t # ch,
         \A d \in Table : dir[ch][d] = None,
         NEW new \in [TablesOf(dir, t) -> Frame],
         NEW dir2, TablesCopied(dir, c, t, ch, new, dir2, c2)
  PROVE  /\ HoldTables(dir2, c2)
         /\ EntriesIn(dir2, c2) = SharedEntries(EntriesIn(dir, c), t, ch)
<1> USE DEF TablesCopied
<1> DEFINE e == EntriesIn(dir, c)
           e2 == SharedEntries(e, t, ch)
<1>1. \A u \in Task, x \in Table :
        dir2[u][x] = IF u = ch THEN (IF x \in TablesOf(dir, t) THEN new[x] ELSE None)
                     ELSE dir[u][x]
  OBVIOUS
<1>2. \A u \in Task, p \in Page :
        e2[u][p] = IF u \in {t, ch} /\ e[t][p] # None
                   THEN [frame |-> e[t][p].frame, write |-> FALSE] ELSE e[u][p]
  BY DEF SharedEntries
<1>3. e \in [Task -> [Page -> Entry \cup {None}]]
  BY EntriesInType
<1>4. e2 \in [Task -> [Page -> Entry \cup {None}]]
  BY <1>3, ReadOnlyEntry DEF SharedEntries
<1> HIDE DEF e2
<1>5. \A d \in Table : dir[t][d] # None <=> d \in TablesOf(dir, t)
  BY DEF TablesOf
<1>6. \A d \in TablesOf(dir, t) : AllReadOnly(c[dir[t][d]]) \in PageTable
  <2> SUFFICES ASSUME NEW d \in TablesOf(dir, t)
               PROVE  AllReadOnly(c[dir[t][d]]) \in PageTable
    OBVIOUS
  <2>1. c[dir[t][d]] \in PageTable
    BY DEF TablesOf, HoldTables
  <2>2. QED
    BY <2>1, ReadOnlyEntry DEF AllReadOnly, PageTable
<1>7. \A d \in TablesOf(dir, t) : new[d] # None
  BY PagingAssumption
<1>8. HoldTables(dir2, c2)
  <2> SUFFICES ASSUME NEW u \in Task, NEW d \in Table, dir2[u][d] # None
               PROVE  c2[dir2[u][d]] \in PageTable
    BY DEF HoldTables
  <2>1. CASE u = ch
    BY <2>1, <1>1, <1>6
  <2>2. CASE u = t
    BY <2>2, <1>1, <1>5, <1>6
  <2>3. CASE u # ch /\ u # t
    BY <2>3, <1>1 DEF HoldTables
  <2>4. QED
    BY <2>1, <2>2, <2>3
<1>9. ASSUME NEW u \in Task, NEW p \in Page
      PROVE  EntriesIn(dir2, c2)[u][p] = e2[u][p]
  <2> DEFINE d == TableOf(p)
  <2>0. d \in Table /\ SlotOf(p) \in Slot
    BY PlaceOfPage
  <2>1. CASE u \in {t, ch}
    <3>1. CASE dir[t][d] = None
      <4>1. dir2[u][d] = None
        BY <2>0, <2>1, <3>1, <1>1, <1>5
      <4>2. EntriesIn(dir2, c2)[u][p] = None
        BY <4>1, <1>8, Lookup
      <4>3. e[t][p] = None
        BY <3>1, Lookup
      <4>4. e[ch][p] = None
        BY <2>0, Lookup
      <4>5. e2[u][p] = e[u][p]
        BY <4>3, <1>2
      <4>6. e[u][p] = None
        BY <2>1, <4>3, <4>4
      <4>7. QED
        BY <4>2, <4>5, <4>6
    <3>2. CASE dir[t][d] # None
      <4> DEFINE table == c[dir[t][d]]
      <4>1. d \in TablesOf(dir, t) /\ dir2[u][d] # None /\ c2[dir2[u][d]] = AllReadOnly(table)
        BY <2>0, <2>1, <3>2, <1>1, <1>5, <1>7
      <4>2. EntriesIn(dir2, c2)[u][p] = AllReadOnly(table)[SlotOf(p)]
        BY <4>1, <1>8, Lookup
      <4>3. e[t][p] = table[SlotOf(p)]
        BY <3>2, Lookup
      <4>4. e[ch][p] = None
        BY <2>0, Lookup
      <4>5. EntriesIn(dir2, c2)[u][p] =
              IF e[t][p] = None THEN None ELSE [frame |-> e[t][p].frame, write |-> FALSE]
        BY <2>0, <4>2, <4>3 DEF AllReadOnly
      <4>6. e2[u][p] = IF e[t][p] = None THEN None ELSE [frame |-> e[t][p].frame, write |-> FALSE]
        BY <2>1, <4>4, <1>2
      <4>7. QED
        BY <4>5, <4>6
    <3>3. QED
      BY <3>1, <3>2
  <2>2. CASE u \notin {t, ch}
    <3>1. dir2[u][d] = dir[u][d] /\ (dir[u][d] # None => c2[dir[u][d]] = c[dir[u][d]])
      BY <2>0, <2>2, <1>1
    <3>2. EntriesIn(dir2, c2)[u][p] = e[u][p]
      BY <3>1, <1>8, Lookup
    <3>3. QED
      BY <2>2, <3>2, <1>2
  <2>3. QED
    BY <2>1, <2>2
<1>10. EntriesIn(dir2, c2) = e2
  <2>1. EntriesIn(dir2, c2) \in [Task -> [Page -> Entry \cup {None}]]
    BY <1>8, EntriesInType
  <2>2. QED
    BY <2>1, <1>4, <1>9, SameEntries
<1>11. QED
  BY <1>8, <1>10 DEF e2

\* free_pde: a task without directory entries has no pages.
DirectoryDropped(dir, c, t, dir2, c2) ==
  /\ \A u \in Task, x \in Table :
       u # t /\ dir[u][x] # None => c2[dir[u][x]] = c[dir[u][x]]
  /\ \A u \in Task, x \in Table : dir2[u][x] = IF u = t THEN None ELSE dir[u][x]

LEMMA TablesDropped ==
  ASSUME NEW dir \in Directories, NEW c, NEW c2, HoldTables(dir, c), NEW t \in Task,
         NEW dir2, DirectoryDropped(dir, c, t, dir2, c2)
  PROVE  /\ HoldTables(dir2, c2)
         /\ EntriesIn(dir2, c2) = WithoutPages(EntriesIn(dir, c), t)
<1> USE DEF WithoutPages
<1> DEFINE e == EntriesIn(dir, c)
           e2 == WithoutPages(e, t)
<1>0. e \in [Task -> [Page -> Entry \cup {None}]]
  BY EntriesInType
<1>1. /\ \A u \in Task, x \in Table : dir2[u][x] = IF u = t THEN None ELSE dir[u][x]
      /\ \A u \in Task, x \in Table :
           u # t /\ dir[u][x] # None => c2[dir[u][x]] = c[dir[u][x]]
  BY DEF DirectoryDropped
<1>2. e2 \in [Task -> [Page -> Entry \cup {None}]]
  BY <1>0
<1>3. \A u \in Task, p \in Page : e2[u][p] = IF u = t THEN None ELSE e[u][p]
  BY <1>0
<1> HIDE DEF e, e2
<1>4. HoldTables(dir2, c2)
  BY <1>1 DEF HoldTables
<1>5. ASSUME NEW u \in Task, NEW p \in Page
      PROVE  EntriesIn(dir2, c2)[u][p] = e2[u][p]
  <2>0. TableOf(p) \in Table
    BY PlaceOfPage
  <2>1. CASE u = t
    BY <2>0, <2>1, <1>1, <1>3, <1>4, Lookup
  <2>2. CASE u # t
    <3>1. /\ dir2[u][TableOf(p)] = dir[u][TableOf(p)]
          /\ dir[u][TableOf(p)] # None => c2[dir[u][TableOf(p)]] = c[dir[u][TableOf(p)]]
      BY <2>0, <2>2, <1>1
    <3>2. EntriesIn(dir2, c2)[u][p] = e[u][p]
      BY <3>1, <1>4, Lookup DEF e
    <3>3. QED
      BY <2>2, <3>2, <1>3
  <2>3. QED
    BY <2>1, <2>2
<1>6. EntriesIn(dir2, c2) = e2
  <2>1. EntriesIn(dir2, c2) \in [Task -> [Page -> Entry \cup {None}]]
    BY <1>4, EntriesInType
  <2>2. QED
    BY <2>1, <1>2, <1>5, SameEntries
<1>7. QED
  BY <1>4, <1>6 DEF e, e2

-----------------------------------------------------------------------------
(* The inductive invariant.                                                 *)

Entries == EntriesIn(pde, mem)

Types ==
  /\ life \in [Task -> {"unborn", "live", "dead"}]
  /\ current \in Task \cup {None}
  /\ vmap \in [Task -> SUBSET Page]
  /\ brk \in [Task -> Nat]
  /\ unlinking # None => unlinking \in [page : Nat, brk : Nat]
  /\ tlb \in [Page -> Entry \cup {None}]
  /\ mem = [f \in Frame |-> mem[f]]

\* only live tasks have page tables and run, and sys_brk has a caller
OnlyLiveHaveMemory ==
  /\ \A t \in Task : life[t] # "live" => \A d \in Table : pde[t][d] = None
  /\ current # None => life[current] = "live"
  /\ unlinking # None => current # None

FreeIsJunk == \A f \in Unused(memory_map) : mem[f] = Junk

CacheAgrees ==
  current # None => \A p \in Page :
    tlb[p] # None =>
      /\ Entries[current][p] # None
      /\ tlb[p].frame = Entries[current][p].frame
      /\ tlb[p].write => Entries[current][p].write

BitmapAgrees == \A t \in Task, p \in Page : p \in vmap[t] <=> Entries[t][p] # None

PagesAgree == free_pages = Cardinality(Unused(memory_map)) + Drift

PagingInv ==
  /\ Types
  /\ Coherent(Entries, pde, memory_map)
  /\ HoldTables(pde, mem)
  /\ OnlyLiveHaveMemory
  /\ FreeIsJunk
  /\ window = None
  /\ CacheAgrees
  /\ BitmapAgrees
  /\ PagesAgree

\* What the invariant says of the functions the actions use.
LEMMA Views ==
  ASSUME PagingInv
  PROVE  /\ \A t \in Task, p \in Page :
              /\ EntryOf(t, p) = Entries[t][p] /\ FrameOf(t, p) = Entries[t][p].frame
              /\ Entries[t][p] \in Entry \cup {None}
              /\ Entries[t][p] # None => pde[t][TableOf(p)] # None
         /\ \A t \in Task : Tables(t) = TablesOf(pde, t)
         /\ \A t \in Task, f \in Frame : PagesOn(t, f) = PagesOf(Entries, t, f)
         /\ Free = Unused(memory_map)
         /\ pde \in Directories /\ OnePlace(pde)
         /\ memory_map \in [Frame -> Nat]
<1>1. \A t \in Task, p \in Page : EntryOf(t, p) = Entries[t][p]
  BY DEF Entries, EntriesIn, EntryIn, EntryOf, IsTable
<1>2. \A t \in Task, p \in Page : FrameOf(t, p) = Entries[t][p].frame
  BY <1>1 DEF FrameOf
<1>3. \A t \in Task, p \in Page :
        /\ Entries[t][p] \in Entry \cup {None}
        /\ Entries[t][p] # None => pde[t][TableOf(p)] # None
  BY Lookup DEF PagingInv, Entries
<1>4. \A t \in Task, f \in Frame : PagesOn(t, f) = PagesOf(Entries, t, f)
  BY <1>1, <1>2 DEF PagesOn, Mapped, PagesOf
<1>5. /\ \A t \in Task : Tables(t) = TablesOf(pde, t)
      /\ Free = Unused(memory_map)
  BY DEF Tables, TablesOf, Free, Unused
<1>6. /\ pde \in Directories /\ OnePlace(pde)
      /\ memory_map \in [Frame -> Nat]
  BY DEF PagingInv, Coherent, ReferenceTypes, Apart, OnePlace, Directories
<1>7. QED
  BY <1>1, <1>2, <1>3, <1>4, <1>5, <1>6

LEMMA InitHasInv == Init => PagingInv
<1> SUFFICES ASSUME Init PROVE PagingInv
  OBVIOUS
<1>1. HoldTables(pde, mem)
  BY DEF Init, HoldTables
<1>2. \A t \in Task, p \in Page : Entries[t][p] = None
  BY <1>1, Lookup, PlaceOfPage DEF Init, Entries
<1>3. Entries \in [Task -> [Page -> Entry \cup {None}]]
  BY <1>1, EntriesInType DEF Entries
<1>4. \A f \in Frame : EntriesOn(Entries, f) = {} /\ TablesOn(pde, f) = {}
  BY <1>2, PagingAssumption DEF Init, EntriesOn, TablesOn
<1>5. Coherent(Entries, pde, memory_map)
  <2>1. ReferenceTypes(Entries, pde, memory_map)
    BY <1>3 DEF Init, ReferenceTypes
  <2>2. Counted(Entries, pde, memory_map)
    BY <1>4, FS_EmptySet DEF Init, Counted
  <2>3. Apart(Entries, pde) /\ WrittenAlone(Entries, memory_map) /\ SamePage(Entries)
    BY <1>2 DEF Init, Apart, WrittenAlone, SamePage
  <2>4. QED
    BY <2>1, <2>2, <2>3 DEF Coherent
<1>6. Unused(memory_map) = Frame
  BY DEF Init, Unused
<1>7. Types
  BY PagingAssumption DEF Init, Types, NoTranslation
<1>8. OnlyLiveHaveMemory /\ FreeIsJunk
  BY <1>6, PagingAssumption DEF Init, OnlyLiveHaveMemory, FreeIsJunk
<1>9. CacheAgrees /\ BitmapAgrees /\ PagesAgree /\ window = None
  BY <1>2, <1>6 DEF Init, CacheAgrees, BitmapAgrees, PagesAgree, NoTranslation
<1>10. QED
  BY <1>1, <1>5, <1>7, <1>8, <1>9 DEF PagingInv

\* The invariant gives the properties.
LEMMA InvHasProperties ==
  ASSUME PagingInv
  PROVE  /\ TypeOK /\ CountsAreReferences /\ SharedIsReadOnly /\ CacheIsCurrent
         /\ VmapMatchesTables /\ FreePagesInStep
<1>1. \A f \in Frame : PageRefs(f) = EntriesOn(Entries, f) /\ TableRefs(f) = TablesOn(pde, f)
  BY Views DEF PageRefs, TableRefs, EntriesOn, TablesOn, PagesOf
<1>2. CountsAreReferences
  BY <1>1 DEF PagingInv, Coherent, Counted, CountsAreReferences
<1>3. SharedIsReadOnly
  BY Views DEF PagingInv, Coherent, WrittenAlone, Apart, SharedIsReadOnly, Mapped
<1>4. CacheIsCurrent
  BY Views DEF PagingInv, CacheAgrees, CacheIsCurrent, Types
<1>5. VmapMatchesTables
  <2> SUFFICES ASSUME NEW t \in Task PROVE vmap[t] = Mapped(t)
    BY DEF VmapMatchesTables
  <2>1. vmap[t] \subseteq Page /\ Mapped(t) \subseteq Page
    BY DEF PagingInv, Types, Mapped
  <2>2. \A p \in Page : p \in vmap[t] <=> p \in Mapped(t)
    BY Views DEF PagingInv, BitmapAgrees, Mapped
  <2>3. QED
    BY <2>1, <2>2
<1>6. FreePagesInStep
  BY Views DEF PagingInv, PagesAgree, FreePagesInStep
<1>7. TypeOK
  <2>1. \A t \in Task, p \in Page : EntryOf(t, p) \in Entry \cup {None}
    BY Views
  <2>2. memory_map \in [Frame -> 0 .. 255]
    <3>1. \A f \in Frame : memory_map[f] \in 0 .. 255
      BY CountsFit DEF PagingInv, NR_TASKS
    <3>2. memory_map \in [Frame -> Nat]
      BY Views
    <3>3. QED
      BY <3>1, <3>2
  <2>3. free_pages \in Nat
    <3>1. IsFiniteSet(Unused(memory_map))
      BY PagingAssumption, FS_Subset DEF Unused
    <3>2. Cardinality(Unused(memory_map)) \in Nat
      BY <3>1, FS_CardinalityType
    <3>3. QED
      BY <3>2, PagingAssumption DEF PagingInv, PagesAgree
  <2>4. QED
    BY <2>1, <2>2, <2>3, Views DEF PagingInv, Types, TypeOK, Directories
<1>8. QED
  BY <1>2, <1>3, <1>4, <1>5, <1>6, <1>7

-----------------------------------------------------------------------------
(* Every step keeps it.                                                     *)

\* Steps that leave memory and counts alone keep what is said of them.
LEMMA SpaceKept ==
  ASSUME PagingInv, UNCHANGED <<pde, mem, memory_map, free_pages, vmap, window>>
  PROVE  /\ Entries' = Entries
         /\ Coherent(Entries, pde, memory_map)' /\ HoldTables(pde, mem)' /\ FreeIsJunk'
         /\ (window = None)' /\ BitmapAgrees' /\ PagesAgree'
         /\ (mem = [f \in Frame |-> mem[f]])'
<1>1. Entries' = Entries
  BY DEF Entries
<1>2. QED
  BY <1>1 DEF PagingInv, FreeIsJunk, BitmapAgrees, PagesAgree, Types

LEMMA LoadKeeps ==
  ASSUME PagingInv, NEW p \in Page, Load(p)
  PROVE  PagingInv'
<1>1. /\ UNCHANGED <<pde, mem, memory_map, free_pages, vmap, brk, window>>
      /\ UNCHANGED <<life, current, unlinking>> /\ current \in Task
      /\ tlb' = [tlb EXCEPT ![p] = Translation(p)]
  BY DEF Load, UserRuns, taskVars, spaceVars, frameVars, PagingInv, Types
<1>2. Translation(p) \in Entry \cup {None} /\ (tlb[p] = None => Translation(p) = Entries[current][p])
      /\ (tlb[p] # None => Translation(p) = tlb[p])
  BY <1>1, Views DEF Translation, PagingInv, Types
<1>3. Types'
  BY <1>1, <1>2 DEF PagingInv, Types
<1>4. CacheAgrees'
  BY <1>1, <1>2, SpaceKept DEF PagingInv, CacheAgrees, Types
<1>5. OnlyLiveHaveMemory'
  BY <1>1 DEF PagingInv, OnlyLiveHaveMemory
<1>6. QED
  BY <1>1, <1>3, <1>4, <1>5, SpaceKept DEF PagingInv

LEMMA StoreKeeps ==
  ASSUME PagingInv, NEW p \in Page, NEW v \in Value, Store(p, v)
  PROVE  /\ PagingInv' /\ Entries' = Entries
         /\ current \in Task /\ Entries[current][p] # None
         /\ mem' = [mem EXCEPT ![Entries[current][p].frame] = v]
         /\ \A u \in Task, q \in Page :
              Entries[u][q] # None /\ Entries[u][q].frame = Entries[current][p].frame => u = current /\ q = p
<1> DEFINE f == Entries[current][p].frame
<1>1. /\ UNCHANGED <<pde, memory_map, free_pages, vmap, brk, window>>
      /\ UNCHANGED <<life, current, unlinking>> /\ current \in Task
      /\ tlb' = [tlb EXCEPT ![p] = Translation(p)]
      /\ mem' = [mem EXCEPT ![Translation(p).frame] = v]
      /\ Translation(p) # None /\ Translation(p).write
  BY DEF Store, UserRuns, taskVars, spaceVars, frameVars, PagingInv, Types
<1>2. Translation(p) \in Entry \cup {None} /\ (tlb[p] = None => Translation(p) = Entries[current][p])
      /\ (tlb[p] # None => Translation(p) = tlb[p])
  BY <1>1, Views DEF Translation, PagingInv, Types
<1>3. /\ Entries[current][p] # None /\ Translation(p).frame = f
      /\ f \in Frame
  <2>1. current # None
    BY <1>1, PagingAssumption
  <2>2. Entries[current][p] # None /\ Translation(p).frame = f
    BY <2>1, <1>1, <1>2 DEF PagingInv, CacheAgrees
  <2>3. Entries[current][p] \in Entry
    BY <2>2, <1>1, Views
  <2>4. QED
    BY <2>2, <2>3 DEF Entry
<1>4. memory_map[f] # 0 /\ \A t \in Task, d \in Table : pde[t][d] # f
  BY <1>1, <1>3, UnusedHasNoRefs DEF PagingInv, Coherent, Apart, Unused
<1>5. \A g \in Frame : g # f => mem'[g] = mem[g]
  BY <1>1, <1>3 DEF PagingInv, Types
<1>6. HoldTables(pde, mem') /\ EntriesIn(pde, mem') = Entries
  <2>1. \A t \in Task, d \in Table : pde[t][d] # None => mem'[pde[t][d]] = mem[pde[t][d]]
    BY <1>4, <1>5, Views DEF Directories
  <2>2. QED
    BY <2>1, TablesKept DEF PagingInv, Entries
<1>7. Entries' = Entries
  BY <1>1, <1>6 DEF Entries
<1>8. Types'
  BY <1>1, <1>2 DEF PagingInv, Types
<1>9. FreeIsJunk'
  BY <1>1, <1>4, <1>5 DEF PagingInv, FreeIsJunk, Unused
<1>10. CacheAgrees'
  BY <1>1, <1>2, <1>7 DEF PagingInv, CacheAgrees, Types
<1>11. /\ Coherent(Entries, pde, memory_map)' /\ HoldTables(pde, mem)' /\ (window = None)'
       /\ OnlyLiveHaveMemory' /\ BitmapAgrees' /\ PagesAgree'
  BY <1>1, <1>6, <1>7 DEF PagingInv, OnlyLiveHaveMemory, BitmapAgrees, PagesAgree
<1>12. \A u \in Task, q \in Page :
         Entries[u][q] # None /\ Entries[u][q].frame = f => u = current /\ q = p
  <2>1. Entries[current][p].write
    BY <1>1, <1>2, PagingAssumption DEF PagingInv, CacheAgrees
  <2>2. memory_map[f] = 1
    BY <2>1, <1>1, <1>3 DEF PagingInv, Coherent, WrittenAlone
  <2>3. QED
    BY <2>2, <1>1, <1>3, UsedOnce DEF PagingInv
<1>13. PagingInv'
  BY <1>1, <1>3, <1>7, <1>8, <1>9, <1>10, <1>11 DEF PagingInv
<1>14. QED
  BY <1>1, <1>3, <1>7, <1>12, <1>13

\* What is in the pages of the tasks stays.
PagesKept ==
  \A t \in Task, q \in Page :
    Entries[t][q] # None => mem'[Entries[t][q].frame] = mem[Entries[t][q].frame]

\* get_pte gives the table of page p, an empty one if it was missing.
GotTableFacts(tf, d, dir1, c1, m1) ==
  /\ tf \in Frame /\ dir1 \in Directories
  /\ \A u \in Task, x \in Table : dir1[u][x] = IF u = current /\ x = d THEN tf ELSE pde[u][x]
  /\ \A f \in Frame : f # tf => c1[f] = mem[f]
  /\ Coherent(Entries, dir1, m1)
  /\ HoldTables(dir1, c1) /\ EntriesIn(dir1, c1) = Entries
  /\ Unused(m1) = Free \ {tf}
  /\ Cardinality(Unused(m1)) = Cardinality(Free) - Cardinality({tf} \cap Free)

LEMMA GotTable ==
  ASSUME PagingInv, current \in Task, NEW p \in Page, NEW tf \in TableFrames(p)
  PROVE  GotTableFacts(tf, TableOf(p), [pde EXCEPT ![current][TableOf(p)] = tf],
                       [mem EXCEPT ![tf] = TableContent(p, tf)], Taken({tf} \cap Free))
<1> DEFINE d == TableOf(p)
           dir1 == [pde EXCEPT ![current][d] = tf]
           c1 == [mem EXCEPT ![tf] = TableContent(p, tf)]
           m1 == Taken({tf} \cap Free)
<1>0. d \in Table /\ Free = Unused(memory_map) /\ Free \subseteq Frame /\ None \notin Frame
  BY PlaceOfPage, Views, PagingAssumption DEF Free
<1>1. pde \in Directories /\ memory_map \in [Frame -> Nat] /\ mem = [f \in Frame |-> mem[f]]
  BY Views DEF PagingInv, Types
<1>2. tf \in Frame
  BY <1>0, <1>1 DEF TableFrames, Directories
<1>3. /\ dir1 \in Directories /\ dir1[current][d] = tf
      /\ \A u \in Task, x \in Table : dir1[u][x] = IF u = current /\ x = d THEN tf ELSE pde[u][x]
  BY <1>0, <1>1, <1>2 DEF Directories
<1>4. \A f \in Frame : c1[f] = IF f = tf THEN TableContent(p, tf) ELSE mem[f]
  BY <1>1
<1>5. IsFiniteSet(Free)
  BY <1>0, PagingAssumption, FS_Subset
<1>6. m1 \in [Frame -> Nat] /\ \A f \in Frame : m1[f] = IF f \in {tf} \cap Free THEN 1 ELSE memory_map[f]
  BY <1>1 DEF Taken
<1> HIDE DEF d, dir1, c1, m1
<1>7. ASSUME pde[current][d] = None PROVE GotTableFacts(tf, d, dir1, c1, m1)
  <2>1. tf \in Free
    BY <1>7 DEF TableFrames, d
  <2>2. \A f \in Frame : m1[f] = IF f = tf THEN 1 ELSE memory_map[f]
    BY <2>1, <1>6
  <2>3. Coherent(Entries, dir1, m1) /\ Unused(m1) = Free \ {tf}
    <3>1. Coherent(Entries, pde, memory_map) /\ dir1 \in [Task -> [Table -> Frame \cup {None}]]
      BY <1>3 DEF PagingInv, Directories
    <3>2. QED
      BY <3>1, <2>1, <2>2, <1>0, <1>3, <1>6, <1>7, TableAdded
  <2>4. c1[tf] = EmptyTable
    BY <2>1, <1>2, <1>4 DEF TableContent
  <2>5. \A u \in Task, x \in Table : pde[u][x] # None => pde[u][x] # tf /\ c1[pde[u][x]] = mem[pde[u][x]]
    <3>1. \A u \in Task, x \in Table : pde[u][x] # tf
      BY <2>1, <1>0, UnusedHasNoRefs DEF PagingInv
    <3>2. QED
      BY <3>1, <1>1, <1>4 DEF Directories
  <2>6. HoldTables(dir1, c1) /\ EntriesIn(dir1, c1) = Entries
    <3>1. HoldTables(pde, mem)
      BY DEF PagingInv
    <3>2. HoldTables(dir1, c1) /\ EntriesIn(dir1, c1) = EntriesIn(pde, mem)
      BY <3>1, <2>4, <2>5, <1>0, <1>1, <1>2, <1>3, <1>7, TableLinked
    <3>3. QED
      BY <3>2 DEF Entries
  <2>7. Cardinality(Unused(m1)) = Cardinality(Free) - Cardinality({tf} \cap Free)
    <3>1. {tf} \cap Free = {tf} /\ Cardinality({tf}) = 1
      BY <2>1, FS_Singleton
    <3>2. QED
      BY <2>1, <2>3, <3>1, <1>5, FS_RemoveElement
  <2>8. QED
    BY <2>3, <2>6, <2>7, <1>2, <1>3, <1>4 DEF GotTableFacts
<1>8. ASSUME pde[current][d] # None PROVE GotTableFacts(tf, d, dir1, c1, m1)
  <2>1. tf = pde[current][d]
    BY <1>8 DEF TableFrames, d
  <2>2. tf \notin Free
    BY <2>1, <1>0, UnusedHasNoRefs DEF PagingInv
  <2>3. dir1 = pde
    BY <2>1, <1>0, <1>1 DEF Directories, dir1
  <2>4. c1 = mem
    BY <2>2, <1>1, <1>2 DEF TableContent, c1
  <2>5. m1 = memory_map
    BY <2>2, <1>1, <1>6
  <2>6. {tf} \cap Free = {} /\ Free \ {tf} = Free /\ Cardinality({}) = 0 /\ Cardinality(Free) \in Nat
    BY <2>2, <1>5, FS_EmptySet, FS_CardinalityType
  <2>7. Unused(m1) = Free
    BY <2>5, <1>0
  <2>8. /\ Unused(m1) = Free \ {tf}
        /\ Cardinality(Unused(m1)) = Cardinality(Free) - Cardinality({tf} \cap Free)
    BY <2>6, <2>7
  <2>9. Coherent(Entries, dir1, m1) /\ HoldTables(dir1, c1) /\ EntriesIn(dir1, c1) = Entries
    BY <2>3, <2>4, <2>5 DEF PagingInv, Entries
  <2>10. QED
    BY <2>8, <2>9, <1>2, <1>3, <1>4 DEF GotTableFacts
<1>9. QED
  BY <1>7, <1>8 DEF d, dir1, c1, m1

LEMMA UnlinkNothingKeeps ==
  ASSUME PagingInv, NEW p \in Page, UnlinkNothing(p)
  PROVE  PagingInv' /\ PagesKept /\ Entries' = Entries
<1>1. /\ UNCHANGED <<life, current, vmap, brk, tlb, window>>
      /\ current \in Task /\ current # None
      /\ unlinking # None /\ unlinking' = [unlinking EXCEPT !.page = p + 1] /\ p + 1 \in Nat
  BY DEF UnlinkNothing, Unlinks, NextUnlink, Page, PagingInv, OnlyLiveHaveMemory, Types, taskVars, cacheVars
<1>2. PICK tf \in TableFrames(p) :
        /\ pde' = [pde EXCEPT ![current][TableOf(p)] = tf]
        /\ mem' = [mem EXCEPT ![tf] = TableContent(p, tf)]
        /\ memory_map' = Taken({tf} \cap Free)
        /\ free_pages' = free_pages - Cardinality({tf} \cap Free)
  BY DEF UnlinkNothing
<1>3. GotTableFacts(tf, TableOf(p), pde', mem', memory_map')
  BY <1>1, <1>2, GotTable
<1>4. Entries' = Entries
  BY <1>3 DEF Entries, GotTableFacts
<1>5. Types'
  BY <1>1, <1>2 DEF PagingInv, Types
<1>6. OnlyLiveHaveMemory'
  BY <1>1, <1>3 DEF PagingInv, OnlyLiveHaveMemory, GotTableFacts
<1>7. FreeIsJunk'
  <2>1. Unused(memory_map') = Unused(memory_map) \ {tf}
    BY <1>3, Views DEF GotTableFacts
  <2>2. \A f \in Unused(memory_map) : f # tf => mem'[f] = mem[f]
    BY <1>3 DEF GotTableFacts, Unused
  <2>3. QED
    BY <2>1, <2>2 DEF PagingInv, FreeIsJunk
<1>8. PagesAgree'
  <2>1. /\ Free = Unused(memory_map) /\ IsFiniteSet(Free) /\ IsFiniteSet({tf} \cap Free)
        /\ Cardinality(Free) \in Nat /\ Cardinality({tf} \cap Free) \in Nat
    BY Views, PagingAssumption, FS_Subset, FS_CardinalityType, FS_Intersection DEF Free
  <2>2. QED
    BY <2>1, <1>2, <1>3, PagingAssumption DEF PagingInv, PagesAgree, GotTableFacts
<1>9. CacheAgrees' /\ BitmapAgrees' /\ (window = None)'
  BY <1>1, <1>4 DEF PagingInv, CacheAgrees, BitmapAgrees
<1>10. PagesKept
  <2>1. \A t \in Task, q \in Page : Entries[t][q] # None => Entries[t][q].frame # tf
    BY <1>1, <1>3, PlaceOfPage DEF GotTableFacts, Coherent, Apart
  <2>2. \A t \in Task, q \in Page : Entries[t][q] # None => Entries[t][q].frame \in Frame
    BY Views DEF Entry
  <2>3. QED
    BY <2>1, <2>2, <1>3 DEF PagesKept, GotTableFacts
<1>11. PagingInv'
  BY <1>3, <1>4, <1>5, <1>6, <1>7, <1>8, <1>9 DEF PagingInv, GotTableFacts
<1>12. QED
  BY <1>4, <1>10, <1>11


LEMMA LinkFaultKeeps ==
  ASSUME PagingInv, NEW p \in Page, LinkFault(p)
  PROVE  /\ PagingInv' /\ PagesKept /\ current \in Task /\ Entries[current][p] = None
         /\ \E f \in Frame : /\ Entries' = [Entries EXCEPT ![current][p] = [frame |-> f, write |-> TRUE]]
                             /\ mem'[f] = Junk
<1>1. /\ UNCHANGED <<life, current, brk, unlinking, window>>
      /\ current \in Task /\ current # None
      /\ vmap' = [vmap EXCEPT ![current] = @ \cup {p}]
      /\ tlb' = [tlb EXCEPT ![p] = None]
      /\ Translation(p) = None
  BY DEF LinkFault, UserRuns, PagingInv, Types, taskVars
<1>2. PICK tf \in TableFrames(p) : \E f \in Free \ {tf} :
         /\ pde' = [pde EXCEPT ![current][TableOf(p)] = tf]
         /\ mem' = [mem EXCEPT ![tf] = [TableContent(p, tf) EXCEPT ![SlotOf(p)] =
                                            [frame |-> f, write |-> TRUE]]]
         /\ memory_map' = Taken({f} \cup ({tf} \cap Free))
         /\ free_pages' = free_pages - Cardinality({f} \cup ({tf} \cap Free))
  BY DEF LinkFault
<1>3. PICK f \in Free \ {tf} :
         /\ pde' = [pde EXCEPT ![current][TableOf(p)] = tf]
         /\ mem' = [mem EXCEPT ![tf] = [TableContent(p, tf) EXCEPT ![SlotOf(p)] =
                                            [frame |-> f, write |-> TRUE]]]
         /\ memory_map' = Taken({f} \cup ({tf} \cap Free))
         /\ free_pages' = free_pages - Cardinality({f} \cup ({tf} \cap Free))
  BY <1>2
<1> DEFINE c1 == [mem EXCEPT ![tf] = TableContent(p, tf)]
           m1 == Taken({tf} \cap Free)
           x == [frame |-> f, write |-> TRUE]
<1>4. GotTableFacts(tf, TableOf(p), pde', c1, m1)
  BY <1>1, <1>3, GotTable
<1>5. f \in Frame /\ x \in Entry /\ x # None /\ TableOf(p) \in Table
  <2>1. f \in Frame /\ x \in Entry
    BY <1>3 DEF Free, Entry
  <2>2. QED
    BY <2>1, ContentAssumption, PlaceOfPage
<1>6. Entries[current][p] = None /\ tlb[p] = None
  BY <1>1, Views DEF Translation
<1>7. /\ mem = [g \in Frame |-> mem[g]] /\ tf \in Frame
      /\ \A g \in Frame : c1[g] = IF g = tf THEN TableContent(p, tf) ELSE mem[g]
      /\ \A g \in Frame : mem'[g] = IF g = tf THEN [c1[tf] EXCEPT ![SlotOf(p)] = x] ELSE mem[g]
  BY <1>3, <1>4 DEF PagingInv, Types, GotTableFacts
<1>8. /\ m1 \in [Frame -> Nat] /\ memory_map' \in [Frame -> Nat]
      /\ \A g \in Frame : memory_map'[g] = IF g = f THEN 1 ELSE m1[g]
  BY <1>3, Views DEF Taken
<1> HIDE DEF c1, m1, x
<1>9. OnePlace(pde')
  BY <1>4 DEF GotTableFacts, Coherent, Apart, OnePlace
<1>10. HoldTables(pde', mem') /\ Entries' = [Entries EXCEPT ![current][p] = x]
  <2>1. /\ pde' \in Directories /\ pde'[current][TableOf(p)] = tf /\ tf # None
        /\ HoldTables(pde', c1) /\ EntriesIn(pde', c1) = Entries
    BY <1>1, <1>4, <1>5, PagingAssumption DEF GotTableFacts
  <2>2. \A u \in Task, d \in Table : pde'[u][d] # None /\ pde'[u][d] # tf => mem'[pde'[u][d]] = c1[pde'[u][d]]
    BY <2>1, <1>7 DEF Directories
  <2>3. /\ HoldTables(pde', mem')
        /\ EntriesIn(pde', mem') = [EntriesIn(pde', c1) EXCEPT ![current][p] = x]
    BY <2>1, <2>2, <1>1, <1>5, <1>7, <1>9, SlotWritten
  <2>4. QED
    BY <2>1, <2>3 DEF Entries
<1>11. /\ Entries' \in [Task -> [Page -> Entry \cup {None}]]
       /\ \A u \in Task, q \in Page :
            Entries'[u][q] = IF u = current /\ q = p THEN x ELSE Entries[u][q]
  <2>1. Entries \in [Task -> [Page -> Entry \cup {None}]]
    BY EntriesInType DEF Entries, PagingInv
  <2>2. QED
    BY <2>1, <1>1, <1>5, <1>10
<1>12. Coherent(Entries, pde', m1) /\ f \in Unused(m1)
  BY <1>3, <1>4 DEF GotTableFacts
<1>13. Coherent(Entries', pde', memory_map') /\ Unused(memory_map') = Unused(m1) \ {f}
  <2> DEFINE e == Entries
             e2 == Entries'
             dir2 == pde'
             m2 == memory_map'
  <2>0. PutEntry(e, current, p, [frame |-> f, write |-> TRUE], e2)
    BY <1>11 DEF PutEntry, x
  <2>1. PutCount(m1, f, 1, m2)
    BY <1>8 DEF PutCount
  <2>2. Coherent(e, dir2, m1) /\ e[current][p] = None /\ f \in Unused(m1) /\ current \in Task
    BY <1>1, <1>6, <1>12
  <2> HIDE DEF e, e2, dir2, m2
  <2>3. Coherent(e2, dir2, m2) /\ Unused(m2) = Unused(m1) \ {f}
    BY <2>0, <2>1, <2>2, EntryAdded
  <2>4. QED
    BY <2>3 DEF e2, dir2, m2
<1>14. Unused(memory_map) = Free /\ Unused(memory_map') = (Free \ {tf}) \ {f}
  BY <1>4, <1>13, Views DEF GotTableFacts
<1>15. Types'
  BY <1>1, <1>3 DEF PagingInv, Types
<1>16. OnlyLiveHaveMemory'
  BY <1>1, <1>4 DEF PagingInv, OnlyLiveHaveMemory, GotTableFacts
<1>17. FreeIsJunk'
  BY <1>7, <1>14 DEF PagingInv, FreeIsJunk, Unused
<1>18. PagesAgree'
  <2>1. /\ IsFiniteSet(Free) /\ IsFiniteSet({tf} \cap Free) /\ IsFiniteSet(Unused(m1))
        /\ Cardinality(Free) \in Nat /\ Cardinality({tf} \cap Free) \in Nat
        /\ Cardinality(Unused(m1)) \in Nat
    BY PagingAssumption, FS_Subset, FS_CardinalityType, FS_Intersection DEF Free, Unused
  <2>2. Cardinality(Unused(memory_map')) = Cardinality(Unused(m1)) - 1
    BY <2>1, <1>12, <1>13, FS_RemoveElement
  <2>3. Cardinality({f} \cup ({tf} \cap Free)) = Cardinality({tf} \cap Free) + 1
    <3>1. f \notin {tf} \cap Free /\ {f} \cup ({tf} \cap Free) = ({tf} \cap Free) \cup {f}
      BY <1>3
    <3>2. QED
      BY <3>1, <2>1, FS_AddElement
  <2>4. QED
    BY <2>1, <2>2, <2>3, <1>3, <1>4, <1>14, PagingAssumption DEF PagingInv, PagesAgree, GotTableFacts
<1>19. CacheAgrees'
  BY <1>1, <1>6, <1>11 DEF PagingInv, CacheAgrees, Types
<1>20. BitmapAgrees'
  BY <1>1, <1>5, <1>11 DEF PagingInv, BitmapAgrees, Types
<1>21. PagesKept
  <2>1. \A t \in Task, q \in Page : Entries[t][q] # None => Entries[t][q].frame \in Frame /\ Entries[t][q].frame # tf
    <3>1. pde'[current][TableOf(p)] = tf
      BY <1>1, <1>4, <1>5 DEF GotTableFacts
    <3>2. \A t \in Task, q \in Page : Entries[t][q] # None => Entries[t][q].frame # tf
      BY <3>1, <1>1, <1>5, <1>12 DEF Coherent, Apart
    <3>3. QED
      BY <3>2, Views DEF Entry
  <2>2. QED
    BY <2>1, <1>7 DEF PagesKept
<1>22. mem'[f] = Junk
  BY <1>3, <1>5, <1>7, <1>14 DEF PagingInv, FreeIsJunk
<1>23. PagingInv'
  BY <1>1, <1>10, <1>13, <1>15, <1>16, <1>17, <1>18, <1>19, <1>20 DEF PagingInv
<1>24. QED
  BY <1>1, <1>5, <1>6, <1>10, <1>21, <1>22, <1>23 DEF x


LEMMA PanicKeeps ==
  ASSUME PagingInv, Panic
  PROVE  PagingInv' /\ Entries' = Entries /\ mem' = mem
<1>1. /\ UNCHANGED <<pde, mem, memory_map, free_pages, vmap, window>>
      /\ UNCHANGED <<life, current, brk, unlinking, tlb>>
  BY DEF Panic, taskVars, spaceVars, frameVars, cacheVars
<1>2. Types' /\ OnlyLiveHaveMemory'
  BY <1>1 DEF PagingInv, Types, OnlyLiveHaveMemory
<1>3. CacheAgrees'
  BY <1>1, SpaceKept DEF PagingInv, CacheAgrees
<1>4. QED
  BY <1>1, <1>2, <1>3, SpaceKept DEF PagingInv

LEMMA GrowBrkKeeps ==
  ASSUME PagingInv, NEW n \in BrkArgs, GrowBrk(n)
  PROVE  PagingInv' /\ Entries' = Entries /\ mem' = mem
<1>1. /\ UNCHANGED <<pde, mem, memory_map, free_pages, vmap, window>>
      /\ UNCHANGED <<life, current, unlinking, tlb>>
      /\ brk' = [brk EXCEPT ![current] = n] /\ n \in Nat
  BY PagingAssumption DEF GrowBrk, taskVars, frameVars, cacheVars
<1>2. Types' /\ OnlyLiveHaveMemory'
  BY <1>1 DEF PagingInv, Types, OnlyLiveHaveMemory
<1>3. CacheAgrees'
  BY <1>1, SpaceKept DEF PagingInv, CacheAgrees
<1>4. QED
  BY <1>1, <1>2, <1>3, SpaceKept DEF PagingInv

LEMMA ShrinkBrkKeeps ==
  ASSUME PagingInv, NEW n \in BrkArgs, ShrinkBrk(n)
  PROVE  PagingInv' /\ Entries' = Entries /\ mem' = mem
<1>1. /\ UNCHANGED <<pde, mem, memory_map, free_pages, vmap, window>>
      /\ UNCHANGED <<life, current, brk, tlb>>
      /\ current # None /\ unlinking' = [page |-> n, brk |-> n] /\ n \in Nat
  BY PagingAssumption DEF ShrinkBrk, UserRuns, taskVars, spaceVars, frameVars, cacheVars
<1>2. Types' /\ OnlyLiveHaveMemory'
  BY <1>1 DEF PagingInv, Types, OnlyLiveHaveMemory
<1>3. CacheAgrees'
  BY <1>1, SpaceKept DEF PagingInv, CacheAgrees
<1>4. QED
  BY <1>1, <1>2, <1>3, SpaceKept DEF PagingInv


LEMMA ShrunkBrkKeeps ==
  ASSUME PagingInv, ShrunkBrk
  PROVE  PagingInv' /\ Entries' = Entries /\ mem' = mem
<1>1. /\ UNCHANGED <<pde, mem, memory_map, free_pages, vmap, window>>
      /\ UNCHANGED <<life, current, tlb>>
      /\ brk' = [brk EXCEPT ![current] = unlinking.brk] /\ unlinking' = None
      /\ unlinking.brk \in Nat
  BY DEF ShrunkBrk, taskVars, frameVars, cacheVars, PagingInv, Types
<1>2. Types' /\ OnlyLiveHaveMemory'
  BY <1>1 DEF PagingInv, Types, OnlyLiveHaveMemory
<1>3. CacheAgrees'
  BY <1>1, SpaceKept DEF PagingInv, CacheAgrees
<1>4. QED
  BY <1>1, <1>2, <1>3, SpaceKept DEF PagingInv

LEMMA SwitchKeeps ==
  ASSUME PagingInv, NEW t \in Task \cup {None}, Switch(t)
  PROVE  PagingInv' /\ Entries' = Entries /\ mem' = mem
<1>1. /\ UNCHANGED <<pde, mem, memory_map, free_pages, vmap, window>>
      /\ UNCHANGED <<life, brk, unlinking>>
      /\ current' = t /\ tlb' = NoTranslation
      /\ unlinking = None /\ (t # None => life[t] = "live")
  BY DEF Switch, spaceVars, frameVars, PagingInv
<1>2. Types' /\ OnlyLiveHaveMemory'
  BY <1>1 DEF PagingInv, Types, OnlyLiveHaveMemory, NoTranslation
<1>3. CacheAgrees'
  BY <1>1 DEF CacheAgrees, NoTranslation
<1>4. QED
  BY <1>1, <1>2, <1>3, SpaceKept DEF PagingInv

LEMMA StoppedKeeps ==
  ASSUME PagingInv, UNCHANGED vars
  PROVE  PagingInv' /\ Entries' = Entries /\ mem' = mem
<1>1. /\ UNCHANGED <<pde, mem, memory_map, free_pages, vmap, window>>
      /\ UNCHANGED <<life, current, brk, unlinking, tlb>>
  BY DEF vars
<1>2. Types' /\ OnlyLiveHaveMemory'
  BY <1>1 DEF PagingInv, Types, OnlyLiveHaveMemory
<1>3. CacheAgrees'
  BY <1>1, SpaceKept DEF PagingInv, CacheAgrees
<1>4. QED
  BY <1>1, <1>2, <1>3, SpaceKept DEF PagingInv

\* A write to a page that only this task has.
LEMMA WriteAloneKeeps ==
  ASSUME PagingInv, NEW p \in Page, WriteAlone(p)
  PROVE  /\ PagingInv' /\ PagesKept
         /\ Entries' = [Entries EXCEPT ![current][p] = [frame |-> Entries[current][p].frame, write |-> TRUE]]
         /\ current \in Task /\ Entries[current][p] # None
<1> DEFINE d == TableOf(p)
           tf == pde[current][d]
           y == Entries[current][p]
           x == [frame |-> y.frame, write |-> TRUE]
<1>1. /\ UNCHANGED <<life, current, pde, vmap, brk, memory_map, free_pages, unlinking, window>>
      /\ current \in Task /\ current # None
      /\ mem' = [mem EXCEPT ![tf][SlotOf(p)].write = TRUE]
      /\ tlb' = [tlb EXCEPT ![p] = None]
      /\ Translation(p) # None /\ memory_map[y.frame] = 1
  BY Views DEF WriteAlone, WriteFault, UserRuns, Alone, PagingInv, Types, taskVars, spaceVars, frameVars
<1>2. y # None /\ y \in Entry /\ x \in Entry /\ x # None /\ d \in Table
  <2>1. y # None
    BY <1>1, Views DEF Translation, PagingInv, CacheAgrees
  <2>2. y \in Entry
    BY <2>1, <1>1, Views
  <2>3. x \in Entry
    BY <2>2 DEF Entry
  <2>4. QED
    BY <2>1, <2>2, <2>3, ContentAssumption, PlaceOfPage
<1>3. /\ tf # None /\ tf \in Frame /\ pde \in Directories /\ OnePlace(pde)
      /\ mem[tf] \in PageTable /\ mem[tf][SlotOf(p)] = y
  <2>1. tf # None
    BY <1>1, <1>2, Views
  <2>2. pde \in Directories /\ OnePlace(pde) /\ HoldTables(pde, mem)
    BY Views DEF PagingInv
  <2>3. mem[tf] \in PageTable
    BY <2>1, <2>2, <1>1, <1>2 DEF HoldTables
  <2>4. mem[tf][SlotOf(p)] = y
    BY <2>1, <2>2, <1>1, Lookup DEF Entries
  <2>5. QED
    BY <2>1, <2>2, <2>3, <2>4, <1>1, <1>2 DEF Directories
<1>4. \A g \in Frame : mem'[g] = IF g = tf THEN [mem[tf] EXCEPT ![SlotOf(p)] = x] ELSE mem[g]
  <2>1. mem = [g \in Frame |-> mem[g]] /\ mem[tf] = [i \in Slot |-> mem[tf][i]]
    BY <1>3 DEF PagingInv, Types, PageTable
  <2>2. [y EXCEPT !.write = TRUE] = x
    BY <1>2, MadeWritable
  <2>3. [mem[tf] EXCEPT ![SlotOf(p)].write = TRUE] = [mem[tf] EXCEPT ![SlotOf(p)] = x]
    BY <2>2, <1>3
  <2>4. QED
    BY <2>1, <2>3, <1>1
<1> HIDE DEF x
<1>5. HoldTables(pde, mem') /\ Entries' = [Entries EXCEPT ![current][p] = x]
  <2> DEFINE c2 == mem'
  <2>1. c2[tf] = [mem[tf] EXCEPT ![SlotOf(p)] = x]
    BY <1>3, <1>4
  <2>2. \A u \in Task, z \in Table : pde[u][z] # None /\ pde[u][z] # tf => c2[pde[u][z]] = mem[pde[u][z]]
    BY <1>3, <1>4 DEF Directories
  <2>3. /\ HoldTables(pde, mem) /\ pde \in Directories /\ OnePlace(pde) /\ tf # None
        /\ current \in Task /\ x \in Entry \cup {None}
    BY <1>1, <1>2, <1>3 DEF PagingInv
  <2> HIDE DEF c2
  <2>4. /\ HoldTables(pde, c2)
        /\ EntriesIn(pde, c2) = [EntriesIn(pde, mem) EXCEPT ![current][p] = x]
    BY <2>1, <2>2, <2>3, SlotWritten
  <2>5. QED
    BY <2>4, <1>1 DEF Entries, c2
<1>6. /\ Entries \in [Task -> [Page -> Entry \cup {None}]]
      /\ Entries' \in [Task -> [Page -> Entry \cup {None}]]
      /\ \A u \in Task, q \in Page :
           Entries'[u][q] = IF u = current /\ q = p THEN x ELSE Entries[u][q]
  <2>1. Entries \in [Task -> [Page -> Entry \cup {None}]]
    BY EntriesInType DEF Entries, PagingInv
  <2>2. QED
    BY <2>1, <1>1, <1>2, <1>5
<1>7. Coherent(Entries', pde, memory_map)
  <2> DEFINE e == Entries
             e2 == Entries'
  <2>1. PutEntry(e, current, p, [frame |-> e[current][p].frame, write |-> TRUE], e2)
    BY <1>6 DEF x, PutEntry
  <2>2. /\ Coherent(e, pde, memory_map) /\ current \in Task /\ e[current][p] # None
        /\ memory_map[e[current][p].frame] = 1
    BY <1>1, <1>2, <1>6 DEF PagingInv
  <2> HIDE DEF e, e2
  <2>3. Coherent(e2, pde, memory_map)
    BY <2>1, <2>2, EntryWritable
  <2>4. QED
    BY <2>3 DEF e2
<1>8. Types'
  BY <1>1, <1>4 DEF PagingInv, Types
<1>9. OnlyLiveHaveMemory' /\ PagesAgree' /\ (window = None)'
  BY <1>1 DEF PagingInv, OnlyLiveHaveMemory, PagesAgree
<1>10. tf \notin Unused(memory_map)
       /\ \A t \in Task, q \in Page : Entries[t][q] # None => Entries[t][q].frame # tf
  BY <1>1, <1>2, <1>3, UnusedHasNoRefs DEF PagingInv, Coherent, Apart
<1>11. FreeIsJunk'
  BY <1>1, <1>4, <1>10 DEF PagingInv, FreeIsJunk, Unused
<1>12. CacheAgrees'
  BY <1>1, <1>2, <1>6 DEF PagingInv, CacheAgrees, Types
<1>13. BitmapAgrees'
  BY <1>1, <1>2, <1>6 DEF PagingInv, BitmapAgrees
<1>14. PagesKept
  BY <1>4, <1>10, Views DEF PagesKept, Entry
<1>15. QED
  BY <1>1, <1>2, <1>5, <1>7, <1>8, <1>9, <1>11, <1>12, <1>13, <1>14 DEF PagingInv, x


\* A page that is mapped, and the table its entry is in.
LEMMA MappedPage ==
  ASSUME PagingInv, NEW t \in Task, NEW p \in Page, Entries[t][p] # None,
         NEW tf, tf = pde[t][TableOf(p)]
  PROVE  /\ tf \in Frame /\ tf # None /\ mem[tf] \in PageTable /\ mem[tf][SlotOf(p)] = Entries[t][p]
         /\ Entries[t][p] \in Entry /\ Entries[t][p].frame \in Frame
         /\ \A u \in Task, q \in Page : Entries[u][q] # None => Entries[u][q].frame # tf
         /\ tf \notin Free /\ Entries[t][p].frame \notin Free
<1>1. pde \in Directories /\ HoldTables(pde, mem) /\ TableOf(p) \in Table /\ Free = Unused(memory_map)
  BY Views, PlaceOfPage DEF PagingInv
<1>2. tf # None /\ tf \in Frame
  BY <1>1, Views DEF Directories
<1>3. mem[tf] \in PageTable /\ mem[tf][SlotOf(p)] = Entries[t][p]
  BY <1>1, <1>2, Lookup DEF HoldTables, Entries
<1>4. Entries[t][p] \in Entry
  BY Views
<1>5. Entries[t][p].frame \in Frame
  BY <1>4 DEF Entry
<1>6. \A u \in Task, q \in Page : Entries[u][q] # None => Entries[u][q].frame # tf
  BY <1>1, <1>2 DEF PagingInv, Coherent, Apart
<1>7. tf \notin Free /\ Entries[t][p].frame \notin Free
  BY <1>1, UnusedHasNoRefs DEF PagingInv
<1>8. QED
  BY <1>2, <1>3, <1>4, <1>5, <1>6, <1>7

\* Its entry replaced.
LEMMA EntryReplaced ==
  ASSUME PagingInv, NEW t \in Task, NEW p \in Page, Entries[t][p] # None,
         NEW tf, tf = pde[t][TableOf(p)], NEW x \in Entry \cup {None},
         NEW c2, c2[tf] = [mem[tf] EXCEPT ![SlotOf(p)] = x],
         \A u \in Task, d \in Table : pde[u][d] # None /\ pde[u][d] # tf => c2[pde[u][d]] = mem[pde[u][d]]
  PROVE  /\ HoldTables(pde, c2)
         /\ EntriesIn(pde, c2) = [Entries EXCEPT ![t][p] = x]
         /\ EntriesIn(pde, c2) \in [Task -> [Page -> Entry \cup {None}]]
         /\ \A u \in Task, q \in Page :
              EntriesIn(pde, c2)[u][q] = IF u = t /\ q = p THEN x ELSE Entries[u][q]
<1>1. pde \in Directories /\ HoldTables(pde, mem) /\ OnePlace(pde) /\ tf # None
  BY Views, MappedPage DEF PagingInv
<1>2. HoldTables(pde, c2) /\ EntriesIn(pde, c2) = [EntriesIn(pde, mem) EXCEPT ![t][p] = x]
  BY <1>1, SlotWritten
<1>3. Entries \in [Task -> [Page -> Entry \cup {None}]]
  BY EntriesInType DEF Entries, PagingInv
<1>4. EntriesIn(pde, c2) \in [Task -> [Page -> Entry \cup {None}]]
  BY <1>2, EntriesInType
<1>5. EntriesIn(pde, c2) = [Entries EXCEPT ![t][p] = x]
  BY <1>2 DEF Entries
<1>6. \A u \in Task, q \in Page :
        EntriesIn(pde, c2)[u][q] = IF u = t /\ q = p THEN x ELSE Entries[u][q]
  BY <1>3, <1>5
<1>7. QED
  BY <1>2, <1>4, <1>5, <1>6

\* One round of the loop of sys_brk, for a page that is mapped.
LEMMA UnlinkPageKeeps ==
  ASSUME PagingInv, NEW p \in Page, UnlinkPage(p)
  PROVE  /\ PagingInv'
         /\ Entries' = [Entries EXCEPT ![current][p] = None]
         /\ current \in Task
         /\ \A t \in Task, q \in Page :
              Entries'[t][q] # None => mem'[Entries'[t][q].frame] = mem[Entries'[t][q].frame]
<1> DEFINE tf == pde[current][TableOf(p)]
           y == Entries[current][p]
           f == y.frame
<1>1. /\ UNCHANGED <<life, current, pde, brk, window>>
      /\ current \in Task /\ current # None
      /\ vmap' = [vmap EXCEPT ![current] = @ \ {p}]
      /\ tlb' = [tlb EXCEPT ![p] = None]
      /\ unlinking # None /\ unlinking' = [unlinking EXCEPT !.page = p + 1] /\ p + 1 \in Nat
  BY DEF UnlinkPage, Unlinks, NextUnlink, Page, PagingInv, OnlyLiveHaveMemory, Types, taskVars
<1>2. y # None
  BY <1>1, Views DEF UnlinkPage
<1>3. /\ tf \in Frame /\ tf # None /\ mem[tf] \in PageTable /\ f \in Frame /\ f # tf
      /\ \A u \in Task, q \in Page : Entries[u][q] # None => Entries[u][q].frame # tf
      /\ tf \notin Free /\ f \notin Free
  BY <1>1, <1>2, MappedPage
<1>4. /\ mem' = [[mem EXCEPT ![tf][SlotOf(p)] = None] EXCEPT ![f] = IF memory_map[f] = 1 THEN Junk ELSE @]
      /\ memory_map' = [memory_map EXCEPT ![f] = @ - 1]
      /\ free_pages' = free_pages + FreedBy(f)
  BY <1>1, Views DEF UnlinkPage
<1>5. /\ mem'[tf] = [mem[tf] EXCEPT ![SlotOf(p)] = None]
      /\ mem'[f] = IF memory_map[f] = 1 THEN Junk ELSE mem[f]
      /\ \A g \in Frame : g # f /\ g # tf => mem'[g] = mem[g]
  BY <1>3, <1>4 DEF PagingInv, Types
<1>6. /\ memory_map \in [Frame -> Nat] /\ Free = Unused(memory_map) /\ pde \in Directories
      /\ memory_map' = [g \in Frame |-> IF g = f THEN memory_map[f] - 1 ELSE memory_map[g]]
  BY <1>3, <1>4, Views
<1> HIDE DEF tf
<1>7. /\ HoldTables(pde, mem')
      /\ Entries' = [Entries EXCEPT ![current][p] = None]
      /\ Entries' \in [Task -> [Page -> Entry \cup {None}]]
      /\ \A u \in Task, q \in Page :
           Entries'[u][q] = IF u = current /\ q = p THEN None ELSE Entries[u][q]
  <2> DEFINE c2 == mem'
  <2>1. c2[tf] = [mem[tf] EXCEPT ![SlotOf(p)] = None]
    BY <1>5
  <2>2. \A u \in Task, d \in Table : pde[u][d] # None /\ pde[u][d] # tf => c2[pde[u][d]] = mem[pde[u][d]]
    <3>1. \A u \in Task, d \in Table : pde[u][d] # f
      BY <1>1, <1>2 DEF PagingInv, Coherent, Apart
    <3>2. QED
      BY <3>1, <1>5, <1>6 DEF Directories
  <2> HIDE DEF c2
  <2>3. /\ HoldTables(pde, c2)
        /\ EntriesIn(pde, c2) = [Entries EXCEPT ![current][p] = None]
        /\ EntriesIn(pde, c2) \in [Task -> [Page -> Entry \cup {None}]]
        /\ \A u \in Task, q \in Page :
             EntriesIn(pde, c2)[u][q] = IF u = current /\ q = p THEN None ELSE Entries[u][q]
    <3>1. tf = pde[current][TableOf(p)]
      BY DEF tf
    <3>2. QED
      BY <2>1, <2>2, <3>1, <1>1, <1>2, EntryReplaced
  <2>4. QED
    BY <2>3, <1>1 DEF c2, Entries
<1>8. /\ Coherent(Entries', pde', memory_map')
      /\ Unused(memory_map') = IF memory_map[f] = 1 THEN Unused(memory_map) \cup {f} ELSE Unused(memory_map)
  <2> DEFINE e == Entries
             e2 == Entries'
             m2 == memory_map'
             g0 == f
  <2>1. /\ Coherent(e, pde, memory_map) /\ e[current][p] # None /\ g0 = e[current][p].frame
        /\ current \in Task
        /\ PutCount(memory_map, g0, memory_map[g0] - 1, m2) /\ PutEntry(e, current, p, None, e2)
    BY <1>1, <1>2, <1>6, <1>7 DEF PagingInv, PutCount, PutEntry
  <2> HIDE DEF e, e2, m2, g0
  <2>2. /\ Coherent(e2, pde, m2)
        /\ memory_map[g0] = 1 => Unused(m2) = Unused(memory_map) \cup {g0}
        /\ memory_map[g0] # 1 => Unused(m2) = Unused(memory_map)
    BY <2>1, EntryDropped
  <2>3. QED
    BY <2>2, <1>1 DEF e2, m2, g0
<1>9. Types'
  BY <1>1, <1>4 DEF PagingInv, Types
<1>10. OnlyLiveHaveMemory' /\ (window = None)'
  BY <1>1 DEF PagingInv, OnlyLiveHaveMemory
<1>11. FreeIsJunk'
  <2>1. \A g \in Unused(memory_map') : mem'[g] = Junk
    BY <1>3, <1>5, <1>6, <1>8 DEF PagingInv, FreeIsJunk, Unused
  <2>2. QED
    BY <2>1 DEF FreeIsJunk
<1>12. PagesAgree'
  <2>1. IsFiniteSet(Free) /\ Cardinality(Free) \in Nat
    BY PagingAssumption, FS_Subset, FS_CardinalityType DEF Free
  <2>2. Cardinality(Free \cup {f}) = Cardinality(Free) + 1
    BY <2>1, <1>3, FS_AddElement
  <2>3. Cardinality(Unused(memory_map')) = Cardinality(Free) + FreedBy(f)
    BY <2>1, <2>2, <1>6, <1>8 DEF FreedBy
  <2>4. QED
    BY <2>1, <2>3, <1>4, <1>6, PagingAssumption DEF PagingInv, PagesAgree, FreedBy
<1>13. CacheAgrees'
  BY <1>1, <1>7 DEF PagingInv, CacheAgrees, Types
<1>14. BitmapAgrees'
  BY <1>1, <1>7 DEF PagingInv, BitmapAgrees, Types
<1>15. ASSUME NEW t \in Task, NEW q \in Page, Entries'[t][q] # None
       PROVE  mem'[Entries'[t][q].frame] = mem[Entries'[t][q].frame]
  <2>1. Entries'[t][q] = Entries[t][q] /\ ~ (t = current /\ q = p) /\ Entries[t][q].frame # tf
    BY <1>3, <1>7, <1>15
  <2>2. Entries[t][q].frame \in Frame
    BY <2>1, <1>15, Views DEF Entry
  <2>3. memory_map[f] = 1 => Entries[t][q].frame # f
    BY <2>1, <1>1, <1>2, <1>15, UsedOnce DEF PagingInv
  <2>4. QED
    BY <2>1, <2>2, <2>3, <1>5
<1>16. PagingInv'
  BY <1>1, <1>7, <1>8, <1>9, <1>10, <1>11, <1>12, <1>13, <1>14 DEF PagingInv
<1>17. QED
  BY <1>1, <1>7, <1>15, <1>16


\* A write to a shared page: the reference to it is given up for a frame of its own.
LEMMA WriteSharedKeeps ==
  ASSUME PagingInv, WindowStays = FALSE, NEW p \in Page, WriteShared(p)
  PROVE  /\ PagingInv' /\ PagesKept /\ current \in Task /\ Entries[current][p] # None
         /\ \E f \in Frame : /\ Entries' = [Entries EXCEPT ![current][p] = [frame |-> f, write |-> TRUE]]
                             /\ mem'[f] = mem[Entries[current][p].frame]
<1> DEFINE tf == pde[current][TableOf(p)]
           y == Entries[current][p]
           old == y.frame
<1>1. /\ UNCHANGED <<life, current, pde, vmap, brk, unlinking>>
      /\ current \in Task /\ current # None
      /\ tlb' = [tlb EXCEPT ![p] = None]
      /\ free_pages' = free_pages - 1
      /\ Translation(p) # None /\ ~ Alone(p)
  BY DEF WriteShared, WriteFault, UserRuns, PagingInv, Types, taskVars, spaceVars
<1>2. y # None
  BY <1>1, Views DEF Translation, PagingInv, CacheAgrees
<1>3. /\ tf \in Frame /\ tf # None /\ mem[tf] \in PageTable /\ old \in Frame /\ old # tf
      /\ \A u \in Task, q \in Page : Entries[u][q] # None => Entries[u][q].frame # tf
      /\ tf \notin Free /\ old \notin Free
  BY <1>1, <1>2, MappedPage
<1>4. PICK f \in Free :
        /\ mem' = [[mem EXCEPT ![f] = mem[old]]
                     EXCEPT ![tf][SlotOf(p)] = [frame |-> f, write |-> TRUE]]
        /\ memory_map' = [Taken({f}) EXCEPT ![old] = @ - 1]
        /\ window' = None
  BY <1>1, Views DEF WriteShared, CopyTarget, PagingInv
<1> DEFINE x == [frame |-> f, write |-> TRUE]
           m1 == [g \in Frame |-> IF g = old THEN memory_map[g] - 1 ELSE memory_map[g]]
<1>5. f \in Frame /\ f # tf /\ f # old /\ x \in Entry /\ x # None
  <2>1. f \in Frame /\ f # tf /\ f # old /\ x \in Entry
    BY <1>3, <1>4 DEF Free, Entry
  <2>2. QED
    BY <2>1, ContentAssumption
<1>6. /\ mem'[tf] = [mem[tf] EXCEPT ![SlotOf(p)] = x]
      /\ mem'[f] = mem[old]
      /\ \A g \in Frame : g # f /\ g # tf => mem'[g] = mem[g]
  BY <1>3, <1>4, <1>5 DEF PagingInv, Types
<1>7. /\ memory_map \in [Frame -> Nat] /\ Free = Unused(memory_map) /\ pde \in Directories
      /\ memory_map[old] # 1 /\ memory_map[old] # 0
  BY <1>1, <1>3, Views DEF Alone, Free
<1>8. /\ PutCount(memory_map, old, memory_map[old] - 1, m1)
      /\ memory_map' \in [Frame -> Nat]
      /\ \A g \in Frame : memory_map'[g] = IF g = f THEN 1 ELSE m1[g]
  <2>1. \A g \in Frame : memory_map'[g] = IF g = f THEN 1 ELSE m1[g]
    BY <1>3, <1>4, <1>5 DEF Taken
  <2>2. \A g \in Frame : m1[g] \in Nat /\ memory_map'[g] \in Nat
    BY <2>1, <1>7
  <2>3. memory_map' = [g \in Frame |-> memory_map'[g]]
    BY <1>4 DEF Taken
  <2>4. memory_map' \in [Frame -> Nat]
    BY <2>2, <2>3
  <2>5. PutCount(memory_map, old, memory_map[old] - 1, m1)
    BY <1>7 DEF PutCount
  <2>6. QED
    BY <2>1, <2>4, <2>5
<1> HIDE DEF tf, x, m1
<1>9. /\ HoldTables(pde, mem')
      /\ Entries' = [Entries EXCEPT ![current][p] = x]
      /\ Entries' \in [Task -> [Page -> Entry \cup {None}]]
      /\ \A u \in Task, q \in Page :
           Entries'[u][q] = IF u = current /\ q = p THEN x ELSE Entries[u][q]
  <2> DEFINE c2 == mem'
  <2>1. c2[tf] = [mem[tf] EXCEPT ![SlotOf(p)] = x]
    BY <1>6
  <2>2. \A u \in Task, d \in Table : pde[u][d] # None /\ pde[u][d] # tf => c2[pde[u][d]] = mem[pde[u][d]]
    <3>1. \A u \in Task, d \in Table : pde[u][d] # f
      BY <1>4, <1>7, UnusedHasNoRefs DEF PagingInv
    <3>2. QED
      BY <3>1, <1>6, <1>7 DEF Directories
  <2> HIDE DEF c2
  <2>3. /\ HoldTables(pde, c2)
        /\ EntriesIn(pde, c2) = [Entries EXCEPT ![current][p] = x]
        /\ EntriesIn(pde, c2) \in [Task -> [Page -> Entry \cup {None}]]
        /\ \A u \in Task, q \in Page :
             EntriesIn(pde, c2)[u][q] = IF u = current /\ q = p THEN x ELSE Entries[u][q]
    <3>1. tf = pde[current][TableOf(p)]
      BY DEF tf
    <3>2. QED
      BY <2>1, <2>2, <3>1, <1>1, <1>2, <1>5, EntryReplaced
  <2>4. QED
    BY <2>3, <1>1 DEF c2, Entries
<1>10. /\ Coherent(Entries', pde', memory_map')
       /\ Unused(memory_map') = Unused(memory_map) \ {f}
  <2> DEFINE e == Entries
             e1 == [Entries EXCEPT ![current][p] = None]
             e2 == Entries'
             m2 == memory_map'
             g0 == old
  <2>1. e \in [Task -> [Page -> Entry \cup {None}]]
    BY EntriesInType DEF Entries, PagingInv
  <2>2. /\ Coherent(e, pde, memory_map) /\ e[current][p] # None /\ g0 = e[current][p].frame
        /\ PutEntry(e, current, p, None, e1) /\ current \in Task
        /\ PutCount(memory_map, g0, memory_map[g0] - 1, m1) /\ memory_map[g0] # 1
    BY <2>1, <1>1, <1>2, <1>7, <1>8 DEF PagingInv, PutEntry
  <2>3. PutEntry(e1, current, p, [frame |-> f, write |-> TRUE], e2) /\ e1[current][p] = None
    BY <2>1, <2>2, <1>1, <1>9 DEF x, PutEntry
  <2>4. PutCount(m1, f, 1, m2)
    BY <1>8 DEF PutCount
  <2> HIDE DEF e, e1, e2, m2, g0
  <2>5. Coherent(e1, pde, m1) /\ Unused(m1) = Unused(memory_map)
    BY <2>2, EntryDropped
  <2>6. f \in Unused(m1)
    BY <2>5, <1>4, <1>7
  <2>7. Coherent(e2, pde, m2) /\ Unused(m2) = Unused(m1) \ {f}
    BY <2>2, <2>3, <2>4, <2>5, <2>6, EntryAdded
  <2>8. QED
    BY <2>5, <2>7, <1>1 DEF e2, m2
<1>11. Types'
  BY <1>1, <1>4 DEF PagingInv, Types
<1>12. OnlyLiveHaveMemory' /\ (window = None)'
  BY <1>1, <1>4 DEF PagingInv, OnlyLiveHaveMemory
<1>13. FreeIsJunk'
  <2>1. \A g \in Unused(memory_map') : mem'[g] = Junk
    BY <1>3, <1>6, <1>7, <1>10 DEF PagingInv, FreeIsJunk, Unused
  <2>2. QED
    BY <2>1 DEF FreeIsJunk
<1>14. PagesAgree'
  <2>1. IsFiniteSet(Free) /\ Cardinality(Free) \in Nat
    BY PagingAssumption, FS_Subset, FS_CardinalityType DEF Free
  <2>2. Cardinality(Free \ {f}) = Cardinality(Free) - 1
    BY <2>1, <1>4, FS_RemoveElement
  <2>3. QED
    BY <2>1, <2>2, <1>1, <1>7, <1>10, PagingAssumption DEF PagingInv, PagesAgree
<1>15. CacheAgrees'
  BY <1>1, <1>9 DEF PagingInv, CacheAgrees, Types
<1>16. BitmapAgrees'
  BY <1>1, <1>2, <1>5, <1>9 DEF PagingInv, BitmapAgrees
<1>17. PagesKept
  <2>1. \A t \in Task, q \in Page : Entries[t][q] # None =>
          Entries[t][q].frame \in Frame /\ Entries[t][q].frame # f
    BY <1>4, <1>7, Views, UnusedHasNoRefs DEF Entry, PagingInv
  <2>2. QED
    BY <2>1, <1>3, <1>6 DEF PagesKept
<1>18. PagingInv'
  BY <1>1, <1>9, <1>10, <1>11, <1>12, <1>13, <1>14, <1>15, <1>16 DEF PagingInv
<1>19. QED
  BY <1>1, <1>2, <1>5, <1>6, <1>9, <1>17, <1>18 DEF x


\* The task gives back its pages and tables, each page as often as it had it.
LEMMA ExitKeeps ==
  ASSUME PagingInv, task_exit
  PROVE  /\ PagingInv' /\ current \in Task
         /\ Entries' = WithoutPages(Entries, current)
         /\ \A t \in Task, q \in Page :
              Entries'[t][q] # None => mem'[Entries'[t][q].frame] = mem[Entries'[t][q].frame]
<1> DEFINE puts(f) == PutsOf(Entries, pde, current, f)
           freed == {f \in Frame : puts(f) > 0 /\ memory_map[f] = puts(f)}
           e2 == WithoutPages(Entries, current)
<1>1. /\ current \in Task /\ unlinking = None /\ current' = None
      /\ life' = [life EXCEPT ![current] = "dead"]
      /\ pde' = [pde EXCEPT ![current] = [d \in Table |-> None]]
      /\ vmap' = [vmap EXCEPT ![current] = {}]
      /\ tlb' = NoTranslation /\ window' = None
      /\ UNCHANGED <<brk, unlinking>>
  BY DEF task_exit, UserRuns, PagingInv, Types
<1>2. \A f \in Frame : Puts(f) = puts(f)
  BY <1>1, Views DEF Puts, PutsOf, OwnTables
<1>3. /\ memory_map' = [f \in Frame |-> memory_map[f] - puts(f)]
      /\ mem' = [f \in Frame |-> IF f \in freed THEN Junk ELSE mem[f]]
      /\ free_pages' = free_pages + Cardinality(freed)
  <2>1. freed = {f \in Frame : Puts(f) > 0 /\ memory_map[f] = Puts(f)}
    BY <1>2
  <2>2. memory_map' = [f \in Frame |-> memory_map[f] - puts(f)]
    BY <1>2 DEF task_exit
  <2>3. QED
    BY <2>1, <2>2 DEF task_exit
<1>4. Free = Unused(memory_map) /\ memory_map \in [Frame -> Nat] /\ pde \in Directories
  BY Views
<1>5. Entries \in [Task -> [Page -> Entry \cup {None}]]
  BY EntriesInType DEF Entries, PagingInv
<1>6. Released(Entries, pde, memory_map, current, e2, pde', memory_map', freed)
  BY <1>1, <1>3 DEF Released
<1> HIDE DEF puts, freed, e2
<1>7. /\ Coherent(e2, pde', memory_map')
      /\ Unused(memory_map') = Unused(memory_map) \cup freed /\ Unused(memory_map) \cap freed = {}
  <2> DEFINE e == Entries
             dir2 == pde'
             m2 == memory_map'
  <2>1. Coherent(e, pde, memory_map) /\ Released(e, pde, memory_map, current, e2, dir2, m2, freed)
    BY <1>6 DEF PagingInv
  <2> HIDE DEF e, dir2, m2
  <2>2. /\ Coherent(e2, dir2, m2)
        /\ Unused(m2) = Unused(memory_map) \cup freed /\ Unused(memory_map) \cap freed = {}
    BY <2>1, <1>1, RefsReleased
  <2>3. QED
    BY <2>2 DEF dir2, m2
<1>8. freed \subseteq Unused(memory_map') /\ freed \subseteq Frame
  BY <1>7 DEF Unused
<1>9. /\ \A u \in Task, d \in Table : pde'[u][d] = IF u = current THEN None ELSE pde[u][d]
      /\ \A u \in Task, q \in Page : e2[u][q] = IF u = current THEN None ELSE Entries[u][q]
  BY <1>1, <1>4, <1>5 DEF Directories, e2, WithoutPages
<1>10. /\ \A u \in Task, d \in Table : pde'[u][d] \notin freed
       /\ \A u \in Task, q \in Page : e2[u][q] # None => e2[u][q].frame \notin freed
  <2>1. \A u \in Task, q \in Page : e2[u][q] # None => e2[u][q].frame \notin Unused(memory_map')
    BY <1>7, UnusedHasNoRefs
  <2>2. \A u \in Task, d \in Table : pde'[u][d] \notin Unused(memory_map')
    BY <1>7, UnusedHasNoRefs
  <2>3. QED
    BY <2>1, <2>2, <1>8
<1>11. HoldTables(pde', mem') /\ Entries' = e2
  <2> DEFINE c2 == mem'
             dir2 == pde'
  <2>1. \A u \in Task, d \in Table : u # current /\ pde[u][d] # None => c2[pde[u][d]] = mem[pde[u][d]]
    BY <1>3, <1>4, <1>9, <1>10 DEF Directories
  <2>2. DirectoryDropped(pde, mem, current, dir2, c2)
    BY <2>1, <1>9 DEF DirectoryDropped
  <2>3. HoldTables(pde, mem)
    BY DEF PagingInv
  <2> HIDE DEF c2, dir2
  <2>4. /\ HoldTables(dir2, c2)
        /\ EntriesIn(dir2, c2) = WithoutPages(EntriesIn(pde, mem), current)
    BY <2>2, <2>3, <1>1, <1>4, TablesDropped
  <2>5. QED
    BY <2>4 DEF Entries, c2, dir2, e2
<1>12. Types'
  BY <1>1, <1>3 DEF PagingInv, Types, NoTranslation
<1>13. OnlyLiveHaveMemory'
  BY <1>1, <1>9 DEF PagingInv, Types, OnlyLiveHaveMemory
<1>14. FreeIsJunk'
  <2>1. \A g \in Unused(memory_map') : mem'[g] = Junk
    BY <1>3, <1>7, <1>8 DEF PagingInv, FreeIsJunk, Unused
  <2>2. QED
    BY <2>1 DEF FreeIsJunk
<1>15. PagesAgree'
  <2>1. /\ IsFiniteSet(Free) /\ Cardinality(Free) \in Nat
        /\ IsFiniteSet(freed) /\ Cardinality(freed) \in Nat
    BY <1>8, PagingAssumption, FS_Subset, FS_CardinalityType DEF Free
  <2>2. Cardinality(Free \cup freed) = Cardinality(Free) + Cardinality(freed)
    <3>1. Free \cap freed = {}
      BY <1>4, <1>7
    <3>2. Cardinality(Free \cup freed) = Cardinality(Free) + Cardinality(freed) - Cardinality({})
      BY <2>1, <3>1, FS_Union
    <3>3. QED
      BY <2>1, <3>2, FS_EmptySet
  <2>3. Cardinality(Unused(memory_map')) = Cardinality(Free) + Cardinality(freed)
    BY <2>2, <1>4, <1>7
  <2>4. free_pages' = free_pages + Cardinality(freed)
    BY <1>3
  <2>5. PagesAgree
    BY DEF PagingInv
  <2>6. QED
    BY <2>1, <2>3, <2>4, <2>5, <1>4, PagingAssumption DEF PagesAgree
<1>16. CacheAgrees'
  BY <1>1 DEF CacheAgrees
<1>17. BitmapAgrees'
  BY <1>1, <1>9, <1>11 DEF PagingInv, BitmapAgrees, Types
<1>18. ASSUME NEW t \in Task, NEW q \in Page, Entries'[t][q] # None
       PROVE  mem'[Entries'[t][q].frame] = mem[Entries'[t][q].frame]
  <2>1. Entries'[t][q] = Entries[t][q] /\ Entries[t][q].frame \notin freed
    BY <1>9, <1>10, <1>11, <1>18
  <2>2. Entries[t][q].frame \in Frame
    BY <2>1, <1>18, Views DEF Entry
  <2>3. QED
    BY <2>1, <2>2, <1>3
<1>19. PagingInv'
  BY <1>1, <1>7, <1>11, <1>12, <1>13, <1>14, <1>15, <1>16, <1>17 DEF PagingInv
<1>20. QED
  BY <1>1, <1>11, <1>18, <1>19 DEF e2


\* copy_pde writes the table of the child, and that of the parent, read-only.
LEMMA ForkCopies ==
  ASSUME PagingInv, WindowStays = FALSE, NEW child \in Task, task_fork(child)
  PROVE  \E new \in Injection(TablesOf(pde, current), Unused(memory_map)) :
           /\ TablesCopied(pde, mem, current, child, new, pde', mem')
           /\ Shared(Entries, pde, memory_map, current, child, new,
                     SharedEntries(Entries, current, child), pde', memory_map')
           /\ \A f \in Frame : f \notin Range(new) /\ (\A d \in Table : pde[current][d] # f) => mem'[f] = mem[f]
           /\ mem' = [f \in Frame |-> mem'[f]]
<1> DEFINE tabs == Tables(current)
           own == {pde[current][d] : d \in tabs}
           table(f) == CHOOSE d \in tabs : pde[current][d] = f
           target(new, f) == {d \in tabs : TableTarget(d, new) = f}
<1>1. /\ current \in Task /\ life[child] = "unborn"
      /\ window = None
  BY DEF task_fork, UserRuns, PagingInv, Types
<1>2. /\ tabs = TablesOf(pde, current) /\ Free = Unused(memory_map)
      /\ pde \in Directories /\ memory_map \in [Frame -> Nat] /\ OnePlace(pde)
      /\ \A f \in Frame : PagesOn(current, f) = PagesOf(Entries, current, f)
  BY <1>1, Views
<1>3. PICK new \in Injection(tabs, Free) :
        /\ pde' = [pde EXCEPT ![child] = [d \in Table |-> IF d \in tabs THEN new[d] ELSE None]]
        /\ mem' = [f \in Frame |->
                     IF target(new, f) # {} THEN ReadOnly(Max(target(new, f)))
                     ELSE IF f \in own THEN ReadOnly(table(f)) ELSE mem[f]]
        /\ memory_map' = [f \in Frame |-> IF f \in Range(new) THEN 1 ELSE ForkCount(f)]
  BY DEF task_fork
<1> DEFINE copied(f) == {d \in tabs : new[d] = f}
<1>4. \A f \in Frame : mem'[f] = IF copied(f) # {} THEN ReadOnly(Max(copied(f)))
                                ELSE IF f \in own THEN ReadOnly(table(f)) ELSE mem[f]
  <2>1. \A d : TableTarget(d, new) = new[d]
    BY <1>1 DEF TableTarget
  <2>2. \A f : target(new, f) = copied(f)
    BY <2>1
  <2> HIDE DEF target, copied, own, table
  <2>3. QED
    BY <2>2, <1>3
<1>5. /\ new \in [tabs -> Free] /\ \A d, x \in tabs : new[d] = new[x] => d = x
      /\ \A d \in tabs : new[d] \in Range(new)
      /\ \A f \in Range(new) : \E x \in tabs : new[x] = f
  BY Fun_InjectionProperties DEF Range
<1>6. tabs \subseteq Table /\ Table \subseteq Int
  BY <1>2, PagingAssumption DEF TablesOf, Table, TableOf, Page
<1>7. /\ \A d \in tabs : pde[current][d] \in Frame /\ pde[current][d] \notin Free /\ new[d] \in Frame
      /\ \A d, x \in tabs : pde[current][d] = pde[current][x] => d = x
  <2>1. \A d \in tabs : pde[current][d] \in Frame
    BY <1>1, <1>2 DEF TablesOf, Directories
  <2>2. \A d \in tabs : pde[current][d] \notin Free
    BY <1>1, <1>2, UnusedHasNoRefs DEF PagingInv, TablesOf
  <2>3. \A d, x \in tabs : pde[current][d] = pde[current][x] => d = x
    BY <1>1, <1>2 DEF TablesOf, OnePlace
  <2>4. \A d \in tabs : new[d] \in Frame
    BY <1>5 DEF Free
  <2>5. QED
    BY <2>1, <2>2, <2>3, <2>4
<1>8. \A d : ReadOnly(d) = AllReadOnly(mem[pde[current][d]])
  BY DEF ReadOnly, AllReadOnly
<1> HIDE DEF tabs
<1>9. ASSUME NEW d \in tabs
      PROVE  mem'[new[d]] = AllReadOnly(mem[pde[current][d]])
  <2>1. copied(new[d]) = {d}
    BY <1>5
  <2>2. Max({d}) = d
    BY <1>6 DEF Max
  <2>3. QED
    BY <2>1, <2>2, <1>4, <1>7, <1>8
<1>10. ASSUME NEW d \in tabs
       PROVE  mem'[pde[current][d]] = AllReadOnly(mem[pde[current][d]])
  <2>1. copied(pde[current][d]) = {}
    BY <1>5, <1>7
  <2>2. table(pde[current][d]) = d /\ pde[current][d] \in own
    BY <1>7
  <2>3. QED
    BY <2>1, <2>2, <1>4, <1>7, <1>8
<1>11. \A f \in Frame : f \notin Range(new) /\ (\A d \in Table : pde[current][d] # f) => mem'[f] = mem[f]
  <2> SUFFICES ASSUME NEW f \in Frame, f \notin Range(new), \A d \in Table : pde[current][d] # f
               PROVE  mem'[f] = mem[f]
    OBVIOUS
  <2>1. copied(f) = {}
    BY <1>5
  <2>2. f \notin own
    BY <1>6
  <2>3. QED
    BY <2>1, <2>2, <1>4
<1>12. \A u \in Task, d \in Table : u # current /\ pde[u][d] # None =>
         /\ pde[u][d] \in Frame /\ pde[u][d] \notin Range(new)
         /\ \A x \in Table : pde[current][x] # pde[u][d]
  <2>1. \A u \in Task, d \in Table : pde[u][d] \notin Free
    BY <1>2, UnusedHasNoRefs DEF PagingInv
  <2>2. Range(new) \subseteq Free
    BY <1>5
  <2>3. QED
    BY <2>1, <2>2, <1>1, <1>2 DEF Directories, OnePlace
<1>13. \A u \in Task, d \in Table :
         pde'[u][d] = IF u = child THEN (IF d \in tabs THEN new[d] ELSE None) ELSE pde[u][d]
  BY <1>2, <1>3 DEF Directories
<1>14. TablesCopied(pde, mem, current, child, new, pde', mem')
  <2>1. \A u \in Task, x \in Table : u # current /\ pde[u][x] # None => mem'[pde[u][x]] = mem[pde[u][x]]
    BY <1>11, <1>12
  <2>2. QED
    BY <2>1, <1>2, <1>9, <1>10, <1>13 DEF TablesCopied
<1>15. Shared(Entries, pde, memory_map, current, child, new,
              SharedEntries(Entries, current, child), pde', memory_map')
  <2>1. memory_map' = [f \in Frame |-> IF f \in Range(new) THEN 1
                                      ELSE memory_map[f] + Cardinality(PagesOf(Entries, current, f))]
    BY <1>2, <1>3 DEF ForkCount
  <2>2. QED
    BY <2>1, <1>2, <1>3 DEF Shared
<1>16. mem' = [f \in Frame |-> mem'[f]]
  BY <1>3
<1>17. QED
  BY <1>2, <1>11, <1>14, <1>15, <1>16


\* The child gets the pages of the parent, read-only in both.
LEMMA ForkKeeps ==
  ASSUME PagingInv, WindowStays = FALSE, NEW child \in Task, task_fork(child)
  PROVE  /\ PagingInv' /\ PagesKept /\ current \in Task /\ child # current
         /\ life[child] = "unborn" /\ life[current] = "live"
         /\ Entries' = SharedEntries(Entries, current, child)
<1> DEFINE e2 == SharedEntries(Entries, current, child)
<1>1. /\ current \in Task /\ current # None /\ unlinking = None
      /\ life[child] = "unborn" /\ life[current] = "live" /\ child # current
      /\ UNCHANGED <<current, unlinking>>
      /\ free_pages' = free_pages - Cardinality(Tables(current))
      /\ life' = [life EXCEPT ![child] = "live"]
      /\ vmap' = [vmap EXCEPT ![child] = vmap[current]]
      /\ brk' = [brk EXCEPT ![child] = brk[current]]
      /\ tlb' = NoTranslation /\ window' = None
  BY DEF task_fork, UserRuns, PagingInv, Types, OnlyLiveHaveMemory, ChildMap, CacheAfterFork
<1>2. PICK new \in Injection(TablesOf(pde, current), Unused(memory_map)) :
        /\ TablesCopied(pde, mem, current, child, new, pde', mem')
        /\ Shared(Entries, pde, memory_map, current, child, new, e2, pde', memory_map')
        /\ \A f \in Frame : f \notin Range(new) /\ (\A d \in Table : pde[current][d] # f) => mem'[f] = mem[f]
        /\ mem' = [f \in Frame |-> mem'[f]]
  BY ForkCopies
<1>3. /\ Free = Unused(memory_map) /\ pde \in Directories /\ memory_map \in [Frame -> Nat]
      /\ Tables(current) = TablesOf(pde, current) /\ HoldTables(pde, mem)
  BY <1>1, Views DEF PagingInv
<1>4. /\ \A d \in Table : pde[child][d] = None
      /\ \A p \in Page : Entries[child][p] = None
  <2>1. \A d \in Table : pde[child][d] = None
    BY <1>1 DEF PagingInv, OnlyLiveHaveMemory
  <2>2. QED
    BY <2>1, Views, PlaceOfPage
<1>5. new \in [TablesOf(pde, current) -> Frame] /\ Range(new) \subseteq Unused(memory_map)
  BY Fun_InjectionProperties DEF Range, Unused
<1> HIDE DEF e2
<1>6. Coherent(e2, pde', memory_map') /\ Unused(memory_map') = Unused(memory_map) \ Range(new)
  <2> DEFINE e == Entries
             dir2 == pde'
             m2 == memory_map'
  <2>1. /\ Coherent(e, pde, memory_map) /\ Shared(e, pde, memory_map, current, child, new, e2, dir2, m2)
        /\ \A p \in Page : e[child][p] = None
    BY <1>2, <1>4 DEF PagingInv
  <2> HIDE DEF e, dir2, m2
  <2>2. Coherent(e2, dir2, m2) /\ Unused(m2) = Unused(memory_map) \ Range(new)
    BY <2>1, <1>1, <1>4, RefsShared
  <2>3. QED
    BY <2>2 DEF dir2, m2
<1>7. HoldTables(pde', mem') /\ Entries' = e2
  <2> DEFINE dir2 == pde'
             c2 == mem'
  <2>1. TablesCopied(pde, mem, current, child, new, dir2, c2)
    BY <1>2
  <2> HIDE DEF dir2, c2
  <2>2. HoldTables(dir2, c2) /\ EntriesIn(dir2, c2) = SharedEntries(EntriesIn(pde, mem), current, child)
    BY <2>1, <1>1, <1>3, <1>4, <1>5, TablesShared
  <2>3. QED
    BY <2>2 DEF Entries, dir2, c2, e2
<1>8. Types'
  BY <1>1, <1>2 DEF PagingInv, Types, NoTranslation
<1>9. OnlyLiveHaveMemory'
  <2>1. \A u \in Task, d \in Table : u # child => pde'[u][d] = pde[u][d]
    BY <1>2 DEF TablesCopied
  <2>2. QED
    BY <2>1, <1>1 DEF PagingInv, OnlyLiveHaveMemory, Types
<1>10. FreeIsJunk'
  <2>1. \A f \in Unused(memory_map) : \A d \in Table : pde[current][d] # f
    BY <1>1, UnusedHasNoRefs DEF PagingInv
  <2>2. \A g \in Unused(memory_map') : mem'[g] = Junk
    BY <2>1, <1>2, <1>6 DEF PagingInv, FreeIsJunk, Unused
  <2>3. QED
    BY <2>2 DEF FreeIsJunk
<1>11. PagesAgree'
  <2>1. /\ IsFiniteSet(Free) /\ Cardinality(Free) \in Nat
        /\ IsFiniteSet(Tables(current)) /\ Cardinality(Tables(current)) \in Nat
    BY <1>3, PagingAssumption, OwnRefsFinite, FS_Subset, FS_CardinalityType DEF Free
  <2>2. new \in Bijection(TablesOf(pde, current), Range(new))
    BY Fun_InjMeansBijImage
  <2>3. new \in Surjection(TablesOf(pde, current), Range(new)) /\ new \in Injection(TablesOf(pde, current), Range(new))
    BY <2>2 DEF Bijection
  <2>4. IsFiniteSet(Range(new)) /\ Cardinality(Range(new)) = Cardinality(Tables(current))
    BY <2>1, <2>3, <1>3, FS_Surjection
  <2>5. Cardinality(Free \ Range(new)) = Cardinality(Free) - Cardinality(Range(new))
    <3>1. Free \cap Range(new) = Range(new)
      BY <1>3, <1>5
    <3>2. Cardinality(Free \ Range(new)) = Cardinality(Free) - Cardinality(Free \cap Range(new))
      BY <2>1, FS_Difference
    <3>3. QED
      BY <3>1, <3>2
  <2>6. QED
    BY <2>1, <2>4, <2>5, <1>1, <1>3, <1>6, PagingAssumption DEF PagingInv, PagesAgree
<1>12. CacheAgrees'
  BY <1>1 DEF CacheAgrees, NoTranslation
<1>13. BitmapAgrees'
  <2>1. \A p \in Page : Entries[current][p] # None =>
          [frame |-> Entries[current][p].frame, write |-> FALSE] # None
    BY <1>1, Views, ReadOnlyEntry, ContentAssumption
  <2>2. \A u \in Task, p \in Page :
          e2[u][p] # None <=> IF u = child THEN Entries[current][p] # None ELSE Entries[u][p] # None
    BY <2>1, <1>1, <1>4 DEF e2, SharedEntries
  <2>3. \A u \in Task, p \in Page : p \in vmap'[u] <=> IF u = child THEN p \in vmap[current] ELSE p \in vmap[u]
    BY <1>1 DEF PagingInv, Types
  <2>4. QED
    BY <2>2, <2>3, <1>1, <1>7 DEF PagingInv, BitmapAgrees
<1>14. PagesKept
  <2>1. \A t \in Task, q \in Page : Entries[t][q] # None =>
          /\ Entries[t][q].frame \in Frame /\ Entries[t][q].frame \notin Unused(memory_map)
          /\ \A d \in Table : pde[current][d] # Entries[t][q].frame
    <3>1. \A t \in Task, q \in Page : Entries[t][q] # None => Entries[t][q].frame \notin Unused(memory_map)
      BY UnusedHasNoRefs DEF PagingInv
    <3>2. \A t \in Task, q \in Page : Entries[t][q] # None =>
            \A d \in Table : pde[current][d] # Entries[t][q].frame
      BY <1>1 DEF PagingInv, Coherent, Apart
    <3>3. QED
      BY <3>1, <3>2, Views DEF Entry
  <2>2. QED
    BY <2>1, <1>2, <1>5 DEF PagesKept
<1>15. PagingInv'
  BY <1>1, <1>6, <1>7, <1>8, <1>9, <1>10, <1>11, <1>12, <1>13 DEF PagingInv
<1>16. QED
  BY <1>1, <1>7, <1>14, <1>15 DEF e2


-----------------------------------------------------------------------------
(* What user code sees.                                                     *)

\* what is in the page an entry maps, and in all pages
Content(x, c) == IF x = None THEN None ELSE IF c[x.frame] \in Value THEN c[x.frame] ELSE Junk
Seen(e, c) == [t \in Task |-> [p \in Page |-> Content(e[t][p], c)]]

LEMMA SpaceIsSeen == Space = Seen(Entries, mem) /\ Space' = Seen(Entries', mem')
<1>1. /\ \A t \in Task, p \in Page : EntryOf(t, p) = Entries[t][p]
      /\ \A t \in Task, p \in Page : FrameOf(t, p) = Entries[t][p].frame
      /\ \A t \in Task, p \in Page : EntryOf(t, p)' = Entries'[t][p]
      /\ \A t \in Task, p \in Page : FrameOf(t, p)' = Entries'[t][p].frame
  BY DEF FrameOf, Entries, EntriesIn, EntryIn, EntryOf, IsTable
<1>2. QED
  BY <1>1 DEF Space, Seen, Content


\* One page of one task shows v.
Showing(a, t, p, v) == [a EXCEPT ![t][p] = v]
Shows(e, c, e2, c2, t, p, v) ==
  \A u \in Task, q \in Page :
    Content(e2[u][q], c2) = IF u = t /\ q = p THEN v ELSE Content(e[u][q], c)

LEMMA OneSeen ==
  ASSUME NEW e, NEW c, NEW e2, NEW c2, NEW t \in Task, NEW p \in Page, NEW v,
         Shows(e, c, e2, c2, t, p, v)
  PROVE  Seen(e2, c2) = Showing(Seen(e, c), t, p, v)
<1> DEFINE a == Seen(e, c)
           b == Seen(e2, c2)
           z == [a EXCEPT ![t][p] = v]
<1>1. a = [u \in Task |-> a[u]] /\ b = [u \in Task |-> b[u]]
  BY DEF Seen
<1>2. \A u \in Task : a[u] = [q \in Page |-> a[u][q]] /\ b[u] = [q \in Page |-> b[u][q]]
  BY DEF Seen
<1>3. \A u \in Task, q \in Page : b[u][q] = IF u = t /\ q = p THEN v ELSE a[u][q]
  BY DEF Seen, Shows
<1> HIDE DEF a, b
<1>4. z = [u \in Task |-> z[u]] /\ \A u \in Task : z[u] = [q \in Page |-> z[u][q]]
  BY <1>1, <1>2
<1>5. \A u \in Task, q \in Page : z[u][q] = b[u][q]
  BY <1>1, <1>2, <1>3
<1> HIDE DEF z
<1>6. \A u \in Task : z[u] = b[u]
  BY <1>2, <1>4, <1>5
<1>7. z = b
  BY <1>1, <1>4, <1>6
<1>8. QED
  BY <1>7 DEF a, b, z, Showing

\* Steps that keep the entries and what is in the pages.
LEMMA NothingSeen ==
  ASSUME Entries' = Entries, PagesKept
  PROVE  Space' = Space
<1>1. \A t \in Task, p \in Page : Content(Entries'[t][p], mem') = Content(Entries[t][p], mem)
  BY DEF PagesKept, Content
<1>2. Seen(Entries', mem') = Seen(Entries, mem)
  BY <1>1 DEF Seen
<1>3. QED
  BY <1>2, SpaceIsSeen

\* A store changes one page of one task.
LEMMA StoreSeen ==
  ASSUME PagingInv, NEW p \in Page, NEW v \in Value, Store(p, v)
  PROVE  current \in Task /\ Memory!Store(current, p, v)
<1> DEFINE f == Entries[current][p].frame
<1>1. /\ current \in Task /\ Entries' = Entries /\ Entries[current][p] # None
      /\ mem' = [mem EXCEPT ![f] = v]
      /\ \A u \in Task, q \in Page :
           Entries[u][q] # None /\ Entries[u][q].frame = f => u = current /\ q = p
  BY StoreKeeps
<1>2. mem = [g \in Frame |-> mem[g]] /\ \A t \in Task, q \in Page : Entries[t][q] # None => Entries[t][q].frame \in Frame
  BY Views DEF Entry, PagingInv, Types
<1>3. mem'[f] = v /\ \A g \in Frame : g # f => mem'[g] = mem[g]
  BY <1>1, <1>2
<1>4. Shows(Entries, mem, Entries', mem', current, p, v)
  BY <1>1, <1>2, <1>3 DEF Content, Shows
<1>5. Seen(Entries', mem') = Showing(Seen(Entries, mem), current, p, v)
  BY <1>1, <1>4, OneSeen
<1>6. Space[current][p] # None
  BY <1>1, SpaceIsSeen, PagingAssumption DEF Seen, Content
<1>7. QED
  BY <1>1, <1>5, <1>6, SpaceIsSeen DEF Showing, Memory!Store

\* A page that is linked shows whatever was in its frame.
LEMMA LinkSeen ==
  ASSUME PagingInv, NEW p \in Page, LinkFault(p)
  PROVE  current \in Task /\ Memory!Touch(current, p)
<1>1. /\ PagesKept /\ current \in Task /\ Entries[current][p] = None
      /\ \E f \in Frame : /\ Entries' = [Entries EXCEPT ![current][p] = [frame |-> f, write |-> TRUE]]
                          /\ mem'[f] = Junk
  BY LinkFaultKeeps
<1>2. PICK f \in Frame : /\ Entries' = [Entries EXCEPT ![current][p] = [frame |-> f, write |-> TRUE]]
                         /\ mem'[f] = Junk
  BY <1>1
<1> DEFINE x == [frame |-> f, write |-> TRUE]
<1>3. x # None /\ x.frame = f
  <2>1. x \in Entry
    BY DEF Entry
  <2>2. QED
    BY <2>1, ContentAssumption
<1>4. Entries \in [Task -> [Page -> Entry \cup {None}]]
  BY EntriesInType DEF PagingInv, Entries
<1>5. \A u \in Task, q \in Page : Entries'[u][q] = IF u = current /\ q = p THEN x ELSE Entries[u][q]
  BY <1>1, <1>2, <1>4
<1> HIDE DEF x
<1>6. Shows(Entries, mem, Entries', mem', current, p, Junk)
  <2>1. Content(Entries'[current][p], mem') = Junk
    BY <1>1, <1>2, <1>3, <1>5, PagingAssumption DEF Content
  <2>2. \A u \in Task, q \in Page : ~ (u = current /\ q = p) =>
          Content(Entries'[u][q], mem') = Content(Entries[u][q], mem)
    BY <1>1, <1>5 DEF Content, PagesKept
  <2>3. QED
    BY <2>1, <2>2 DEF Shows
<1>7. Seen(Entries', mem') = Showing(Seen(Entries, mem), current, p, Junk)
  BY <1>1, <1>6, OneSeen
<1>8. Space[current][p] = None
  BY <1>1, SpaceIsSeen DEF Seen, Content
<1>9. QED
  BY <1>1, <1>7, <1>8, SpaceIsSeen DEF Showing, Memory!Touch

\* A page that becomes writable, or that is copied, shows what it showed.
LEMMA WriteAloneSeen ==
  ASSUME PagingInv, NEW p \in Page, WriteAlone(p)
  PROVE  Space' = Space
<1> DEFINE x == [frame |-> Entries[current][p].frame, write |-> TRUE]
<1>1. /\ PagesKept /\ current \in Task /\ Entries[current][p] # None
      /\ Entries' = [Entries EXCEPT ![current][p] = x]
  BY WriteAloneKeeps
<1>2. x # None /\ x.frame = Entries[current][p].frame
  <2>1. x \in Entry
    BY <1>1, Views DEF Entry
  <2>2. QED
    BY <2>1, ContentAssumption
<1>3. Entries \in [Task -> [Page -> Entry \cup {None}]]
  BY EntriesInType DEF PagingInv, Entries
<1>4. \A u \in Task, q \in Page : Entries'[u][q] = IF u = current /\ q = p THEN x ELSE Entries[u][q]
  BY <1>1, <1>3
<1> HIDE DEF x
<1>5. \A u \in Task, q \in Page : Content(Entries'[u][q], mem') = Content(Entries[u][q], mem)
  BY <1>1, <1>2, <1>4 DEF Content, PagesKept
<1>6. Seen(Entries', mem') = Seen(Entries, mem)
  BY <1>5 DEF Seen
<1>7. QED
  BY <1>6, SpaceIsSeen

LEMMA WriteSharedSeen ==
  ASSUME PagingInv, WindowStays = FALSE, NEW p \in Page, WriteShared(p)
  PROVE  Space' = Space
<1>1. /\ PagesKept /\ current \in Task /\ Entries[current][p] # None
      /\ \E f \in Frame : /\ Entries' = [Entries EXCEPT ![current][p] = [frame |-> f, write |-> TRUE]]
                          /\ mem'[f] = mem[Entries[current][p].frame]
  BY WriteSharedKeeps
<1>2. PICK f \in Frame : /\ Entries' = [Entries EXCEPT ![current][p] = [frame |-> f, write |-> TRUE]]
                         /\ mem'[f] = mem[Entries[current][p].frame]
  BY <1>1
<1> DEFINE x == [frame |-> f, write |-> TRUE]
<1>3. x # None /\ x.frame = f
  <2>1. x \in Entry
    BY DEF Entry
  <2>2. QED
    BY <2>1, ContentAssumption
<1>4. Entries \in [Task -> [Page -> Entry \cup {None}]]
  BY EntriesInType DEF PagingInv, Entries
<1>5. \A u \in Task, q \in Page : Entries'[u][q] = IF u = current /\ q = p THEN x ELSE Entries[u][q]
  BY <1>1, <1>2, <1>4
<1> HIDE DEF x
<1>6. \A u \in Task, q \in Page : Content(Entries'[u][q], mem') = Content(Entries[u][q], mem)
  <2>1. Content(Entries'[current][p], mem') = Content(Entries[current][p], mem)
    BY <1>1, <1>2, <1>3, <1>5 DEF Content
  <2>2. \A u \in Task, q \in Page : ~ (u = current /\ q = p) =>
          Content(Entries'[u][q], mem') = Content(Entries[u][q], mem)
    BY <1>1, <1>5 DEF Content, PagesKept
  <2>3. QED
    BY <2>1, <2>2
<1>7. Seen(Entries', mem') = Seen(Entries, mem)
  BY <1>6 DEF Seen
<1>8. QED
  BY <1>7, SpaceIsSeen

LEMMA UnlinkSeen ==
  ASSUME PagingInv, NEW p \in Page, UnlinkPage(p)
  PROVE  current \in Task /\ Memory!GiveBack(current, p)
<1>1. /\ current \in Task
      /\ Entries' = [Entries EXCEPT ![current][p] = None]
      /\ \A t \in Task, q \in Page :
           Entries'[t][q] # None => mem'[Entries'[t][q].frame] = mem[Entries'[t][q].frame]
  BY UnlinkPageKeeps
<1>2. Entries \in [Task -> [Page -> Entry \cup {None}]]
  BY EntriesInType DEF PagingInv, Entries
<1>3. \A u \in Task, q \in Page : Entries'[u][q] = IF u = current /\ q = p THEN None ELSE Entries[u][q]
  BY <1>1, <1>2
<1>4. Shows(Entries, mem, Entries', mem', current, p, None)
  BY <1>1, <1>3 DEF Content, Shows
<1>5. Seen(Entries', mem') = Showing(Seen(Entries, mem), current, p, None)
  BY <1>1, <1>4, OneSeen
<1>6. QED
  BY <1>1, <1>5, SpaceIsSeen DEF Showing, Memory!GiveBack

\* A fork copies what the parent sees, an exit leaves nothing.
LEMMA ForkSeen ==
  ASSUME PagingInv, WindowStays = FALSE, NEW child \in Task, task_fork(child)
  PROVE  current \in Task /\ Memory!Fork(current, child)
<1>1. /\ PagesKept /\ current \in Task /\ child # current /\ life[child] = "unborn"
      /\ Entries' = SharedEntries(Entries, current, child)
  BY ForkKeeps
<1>2. \A p \in Page : Entries[child][p] = None
  BY <1>1, Views, PlaceOfPage DEF PagingInv, OnlyLiveHaveMemory
<1>3. \A u \in Task, p \in Page : Entries[u][p] # None =>
        /\ [frame |-> Entries[u][p].frame, write |-> FALSE] # None
        /\ [frame |-> Entries[u][p].frame, write |-> FALSE].frame = Entries[u][p].frame
  BY Views, ReadOnlyEntry, ContentAssumption
<1>4. \A u \in Task, q \in Page :
        Content(Entries'[u][q], mem') = Content(Entries[IF u = child THEN current ELSE u][q], mem)
  <2> SUFFICES ASSUME NEW u \in Task, NEW q \in Page
               PROVE Content(Entries'[u][q], mem') = Content(Entries[IF u = child THEN current ELSE u][q], mem)
    OBVIOUS
  <2>1. CASE u \in {current, child} /\ Entries[current][q] # None
    <3>1. Entries'[u][q] = [frame |-> Entries[current][q].frame, write |-> FALSE]
      BY <2>1, <1>1 DEF SharedEntries
    <3>2. QED
      BY <2>1, <3>1, <1>1, <1>3 DEF Content, PagesKept
  <2>2. CASE ~ (u \in {current, child} /\ Entries[current][q] # None)
    <3>1. Entries'[u][q] = Entries[u][q]
      BY <2>2, <1>1 DEF SharedEntries
    <3>2. QED
      BY <2>2, <3>1, <1>1, <1>2 DEF Content, PagesKept
  <2>3. QED
    BY <2>1, <2>2
<1>5. Seen(Entries', mem') = [Seen(Entries, mem) EXCEPT ![child] = Seen(Entries, mem)[current]]
  BY <1>1, <1>4 DEF Seen
<1>6. \A p \in Page : Space[child][p] = None
  BY <1>2, SpaceIsSeen DEF Seen, Content
<1>7. QED
  BY <1>1, <1>5, <1>6, SpaceIsSeen DEF Memory!Fork

LEMMA ExitSeen ==
  ASSUME PagingInv, task_exit
  PROVE  current \in Task /\ Memory!Exit(current)
<1>1. /\ current \in Task
      /\ Entries' = WithoutPages(Entries, current)
      /\ \A t \in Task, q \in Page :
           Entries'[t][q] # None => mem'[Entries'[t][q].frame] = mem[Entries'[t][q].frame]
  BY ExitKeeps
<1>2. Entries \in [Task -> [Page -> Entry \cup {None}]]
  BY EntriesInType DEF PagingInv, Entries
<1>3. \A u \in Task, q \in Page : Entries'[u][q] = IF u = current THEN None ELSE Entries[u][q]
  BY <1>1, <1>2 DEF WithoutPages
<1>4. \A u \in Task, q \in Page :
        Content(Entries'[u][q], mem') = IF u = current THEN None ELSE Content(Entries[u][q], mem)
  BY <1>1, <1>3 DEF Content
<1>5. Seen(Entries', mem') = [Seen(Entries, mem) EXCEPT ![current] = [p \in Page |-> None]]
  BY <1>1, <1>4 DEF Seen
<1>6. QED
  BY <1>1, <1>5, SpaceIsSeen DEF Memory!Exit


-----------------------------------------------------------------------------
(* The theorems.  The one translation set_cr3 drops only with the address    *)
(* space, that of page 0, must not survive copy_page: with WindowStays the   *)
(* copies go astray, as a run shows.                                         *)

\* Each step keeps the invariant and is a step of the private memories.
LEMMA NextKeeps ==
  ASSUME WindowStays = FALSE, PagingInv, [Next]_vars
  PROVE  PagingInv' /\ [Memory!Next]_Space
<1>1. ASSUME NEW p \in Page, Load(p)
      PROVE  PagingInv' /\ Space' = Space
  <2>1. Entries' = Entries /\ PagesKept
    BY <1>1, SpaceKept DEF Load, spaceVars, frameVars, PagesKept
  <2>2. QED
    BY <2>1, <1>1, LoadKeeps, NothingSeen
<1>2. ASSUME NEW p \in Page, NEW v \in Value, Store(p, v)
      PROVE  PagingInv' /\ Memory!Next
  BY <1>2, StoreKeeps, StoreSeen DEF Memory!Next
<1>3. ASSUME NEW p \in Page, LinkFault(p)
      PROVE  PagingInv' /\ Memory!Next
  BY <1>3, LinkFaultKeeps, LinkSeen DEF Memory!Next
<1>4. ASSUME NEW p \in Page, WriteAlone(p)
      PROVE  PagingInv' /\ Space' = Space
  BY <1>4, WriteAloneKeeps, WriteAloneSeen
<1>5. ASSUME NEW p \in Page, WriteShared(p)
      PROVE  PagingInv' /\ Space' = Space
  BY <1>5, WriteSharedKeeps, WriteSharedSeen
<1>6. ASSUME NEW p \in Page, UnlinkPage(p)
      PROVE  PagingInv' /\ Memory!Next
  BY <1>6, UnlinkPageKeeps, UnlinkSeen DEF Memory!Next
<1>7. ASSUME NEW p \in Page, UnlinkNothing(p)
      PROVE  PagingInv' /\ Space' = Space
  BY <1>7, UnlinkNothingKeeps, NothingSeen
<1>8. ASSUME NEW child \in Task, task_fork(child)
      PROVE  PagingInv' /\ Memory!Next
  BY <1>8, ForkKeeps, ForkSeen DEF Memory!Next
<1>9. ASSUME task_exit
      PROVE  PagingInv' /\ Memory!Next
  BY <1>9, ExitKeeps, ExitSeen DEF Memory!Next
<1>10. ASSUME Entries' = Entries, mem' = mem
       PROVE  Space' = Space
  BY <1>10, NothingSeen DEF PagesKept
<1>11. ASSUME Panic
       PROVE  PagingInv' /\ Space' = Space
  BY <1>10, <1>11, PanicKeeps
<1>12. ASSUME NEW n \in BrkArgs, GrowBrk(n) \/ ShrinkBrk(n)
       PROVE  PagingInv' /\ Space' = Space
  BY <1>10, <1>12, GrowBrkKeeps, ShrinkBrkKeeps
<1>13. ASSUME ShrunkBrk
       PROVE  PagingInv' /\ Space' = Space
  BY <1>10, <1>13, ShrunkBrkKeeps
<1>14. ASSUME NEW t \in Task \cup {None}, Switch(t)
       PROVE  PagingInv' /\ Space' = Space
  BY <1>10, <1>14, SwitchKeeps
<1>15. ASSUME UNCHANGED vars
       PROVE  PagingInv' /\ Space' = Space
  BY <1>10, <1>15, StoppedKeeps
<1>16. (\E p \in Page : LinkPanic(p) \/ WritePanic(p) \/ UnlinkPanic(p)) \/ ForkPanic => Panic
  BY DEF LinkPanic, WritePanic, UnlinkPanic, ForkPanic
<1>17. Stopped => UNCHANGED vars
  BY DEF Stopped
<1>18. CASE Next
  BY <1>1, <1>2, <1>3, <1>4, <1>5, <1>6, <1>7, <1>8, <1>9, <1>11, <1>12, <1>13, <1>14,
     <1>15, <1>16, <1>17, <1>18 DEF Next
<1>19. CASE UNCHANGED vars
  BY <1>15, <1>19
<1>20. QED
  BY <1>18, <1>19

\* The invariant holds.
THEOREM PagingInvHolds ==
  ASSUME WindowStays = FALSE
  PROVE  Spec => []PagingInv
<1>1. PagingInv /\ [Next]_vars => PagingInv'
  BY NextKeeps
<1>2. QED
  BY <1>1, InitHasInv, PTL DEF Spec

\* Each variable has its type; a count fits the byte of memory_map.
THEOREM PagingTypes ==
  ASSUME WindowStays = FALSE
  PROVE  Spec => []TypeOK
<1>1. PagingInv => TypeOK
  BY InvHasProperties
<1>2. QED
  BY <1>1, PagingInvHolds, PTL

\* memory_map counts the entries and directories that use each frame, whatever the
\* tasks fork, copy, unlink and exit.
THEOREM CountsAreRight ==
  ASSUME WindowStays = FALSE
  PROVE  Spec => []CountsAreReferences
<1>1. PagingInv => CountsAreReferences
  BY InvHasProperties
<1>2. QED
  BY <1>1, PagingInvHolds, PTL

\* A shared page is read-only in every task, and page tables are nobody's pages.
THEOREM SharingIsReadOnly ==
  ASSUME WindowStays = FALSE
  PROVE  Spec => []SharedIsReadOnly
<1>1. PagingInv => SharedIsReadOnly
  BY InvHasProperties
<1>2. QED
  BY <1>1, PagingInvHolds, PTL

\* The translations the CPU has cached are those of the page tables, or weaker.
THEOREM CacheStaysCurrent ==
  ASSUME WindowStays = FALSE
  PROVE  Spec => []CacheIsCurrent
<1>1. PagingInv => CacheIsCurrent
  BY InvHasProperties
<1>2. QED
  BY <1>1, PagingInvHolds, PTL

\* The bitmap of a task names exactly the pages it has mapped: the assertions of
\* link_page and unlink_page hold.
THEOREM BitmapsMatchTables ==
  ASSUME WindowStays = FALSE
  PROVE  Spec => []VmapMatchesTables
<1>1. PagingInv => VmapMatchesTables
  BY InvHasProperties
<1>2. QED
  BY <1>1, PagingInvHolds, PTL

\* free_pages keeps its distance from the number of frames without a reference.
THEOREM FreePagesStayInStep ==
  ASSUME WindowStays = FALSE
  PROVE  Spec => []FreePagesInStep
<1>1. PagingInv => FreePagesInStep
  BY InvHasProperties
<1>2. QED
  BY <1>1, PagingInvHolds, PTL

\* Copy on write, page tables and cached translations implement private memories:
\* no store, fork, exit or brk of a task is seen in the pages of another.
THEOREM MemoryIsPrivate ==
  ASSUME WindowStays = FALSE
  PROVE  Spec => IsPrivateMemory
<1>1. Init => Memory!Init
  <2> SUFFICES ASSUME Init PROVE Memory!Init
    OBVIOUS
  <2>1. \A t \in Task, p \in Page : EntryOf(t, p) = None
    BY PlaceOfPage DEF Init, EntryOf
  <2>2. QED
    BY <2>1 DEF Memory!Init, Space
<1>2. PagingInv /\ [Next]_vars => [Memory!Next]_Space
  BY NextKeeps
<1>3. QED
  BY <1>1, <1>2, PagingInvHolds, PTL DEF Spec, IsPrivateMemory, Memory!Spec
=============================================================================
