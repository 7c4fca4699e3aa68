-------------------------------- MODULE Bitmap --------------------------------
(***************************************************************************)
(* The bitmap of lib/bitmap.c as the allocator of kernel pages of          *)
(* kernel/memory.c: bytes of bits, the loop that looks for a run of clear  *)
(* bits, the loop that sets it, and the loop of reset_page.  One step is   *)
(* one turn of a loop.                                                     *)
(***************************************************************************)
EXTENDS Integers

CONSTANTS
  BITS,      \* the bits of a byte: 8
  length,    \* the bytes of the map
  offset,    \* the number of the first page, IDX(MEMORY_BASE)
  MaxCount   \* bound: the longest run a caller asks for

ASSUME BitmapAssumption ==
  /\ BITS \in Nat \ {0} /\ length \in Nat \ {0}
  /\ offset \in Nat /\ MaxCount \in Nat \ {0}

VARIABLES
  pc,        \* the loop that runs
  bits,      \* map->bits: for each byte the bits that are set
  count,     \* the argument of bitmap_scan or reset_page
  bits_left, next_bit, counter, start,   \* the locals of bitmap_scan
  lent       \* history: the runs callers hold

vars == <<pc, bits, count, bits_left, next_bit, counter, start, lent>>

Size == length * BITS
Page == offset .. offset + Size - 1
Byte == 0 .. length - 1
Bit == 0 .. BITS - 1
EOF == -1

Allocator == INSTANCE PageAllocator

\* the byte of an index and the bit in it
ByteOf(index) == (index - offset) \div BITS
BitOf(index) == (index - offset) % BITS

bitmap_test(map, index) == BitOf(index) \in map[ByteOf(index)]

bitmap_set(map, index, value) ==
  [map EXCEPT ![ByteOf(index)] =
     IF value THEN @ \cup {BitOf(index)} ELSE @ \ {BitOf(index)}]

\* bitmap_init
Init ==
  /\ bits = [byte \in Byte |-> {}]
  /\ pc = "idle" /\ lent = {}
  /\ count = 1 /\ bits_left = 0 /\ next_bit = 0 /\ counter = 0 /\ start = EOF

\* a function that returns has no locals any more
NoLocals ==
  count' = 1 /\ bits_left' = 0 /\ next_bit' = 0 /\ counter' = 0 /\ start' = EOF

-----------------------------------------------------------------------------
(* scan_page: bitmap_scan, and the panic when it finds nothing.             *)

bitmap_scan(n) ==
  /\ pc = "idle"
  /\ pc' = "look"
  /\ count' = n
  /\ start' = EOF /\ bits_left' = Size /\ next_bit' = 0 /\ counter' = 0
  /\ UNCHANGED <<bits, lent>>

\* mutant: a set bit does not end the run
Counter_NoReset == IF bitmap_test(bits, offset + next_bit) THEN counter ELSE counter + 1

\* the run of clear bits that ends with the bit looked at
Counter == IF bitmap_test(bits, offset + next_bit) THEN 0 ELSE counter + 1

Look ==
  /\ pc = "look" /\ bits_left > 0
  /\ Counter # count
  /\ counter' = Counter
  /\ next_bit' = next_bit + 1
  /\ bits_left' = bits_left - 1
  /\ UNCHANGED <<pc, bits, count, start, lent>>

Found ==
  /\ pc = "look" /\ bits_left > 0
  /\ Counter = count
  /\ counter' = Counter
  /\ start' = next_bit + 1 - count
  /\ bits_left' = count /\ next_bit' = start'
  /\ pc' = "mark"
  /\ UNCHANGED <<bits, count, lent>>

\* mutant: the loop ends before the last bit
Panic_Early ==
  /\ pc = "look" /\ bits_left <= 1
  /\ pc' = "panic"
  /\ UNCHANGED <<bits, count, bits_left, next_bit, counter, start, lent>>

Panic ==
  /\ pc = "look" /\ bits_left = 0
  /\ pc' = "panic"
  /\ UNCHANGED <<bits, count, bits_left, next_bit, counter, start, lent>>

Mark ==
  /\ pc = "mark" /\ bits_left > 0
  /\ bits' = bitmap_set(bits, offset + next_bit, TRUE)
  /\ next_bit' = next_bit + 1
  /\ bits_left' = bits_left - 1
  /\ UNCHANGED <<pc, count, counter, start, lent>>

Return ==
  /\ pc = "mark" /\ bits_left = 0
  /\ lent' = lent \cup {[index |-> start + offset, count |-> count]}
  /\ pc' = "idle"
  /\ NoLocals /\ UNCHANGED bits

-----------------------------------------------------------------------------
(* reset_page: a caller gives back a run it holds.                          *)

reset_page(run) ==
  /\ pc = "idle" /\ run \in lent
  /\ pc' = "reset"
  /\ start' = run.index - offset /\ count' = run.count
  /\ next_bit' = start' /\ bits_left' = count'
  /\ UNCHANGED <<bits, counter, lent>>

\* mutant: the page before is given back as well
Clear_OneBefore ==
  /\ pc = "reset" /\ bits_left > 0
  /\ bits' = bitmap_set(bits, IF next_bit = 0 THEN offset ELSE offset + next_bit - 1, FALSE)
  /\ next_bit' = next_bit + 1
  /\ bits_left' = bits_left - 1
  /\ UNCHANGED <<pc, count, counter, start, lent>>

Clear ==
  /\ pc = "reset" /\ bits_left > 0
  /\ bits' = bitmap_set(bits, offset + next_bit, FALSE)
  /\ next_bit' = next_bit + 1
  /\ bits_left' = bits_left - 1
  /\ UNCHANGED <<pc, count, counter, start, lent>>

Cleared ==
  /\ pc = "reset" /\ bits_left = 0
  /\ lent' = lent \ {[index |-> start + offset, count |-> count]}
  /\ pc' = "idle"
  /\ NoLocals /\ UNCHANGED bits

Next ==
  \/ \E n \in 1 .. MaxCount : bitmap_scan(n)
  \/ Look \/ Found \/ Panic \/ Mark \/ Return
  \/ \E run \in lent : reset_page(run)
  \/ Clear \/ Cleared

Spec == Init /\ [][Next]_vars

-----------------------------------------------------------------------------

TypeOK ==
  /\ pc \in {"idle", "look", "mark", "reset", "panic"}
  /\ bits \in [Byte -> SUBSET Bit]
  /\ count \in 1 .. MaxCount
  /\ bits_left \in Nat /\ next_bit \in 0 .. Size
  /\ counter \in 0 .. MaxCount
  /\ start \in {EOF} \cup 0 .. Size
  /\ lent \subseteq Allocator!Run

SetBits == {i \in Page : bitmap_test(bits, i)}

\* The pages from start that a loop which sets or clears bits has done.
Done == Allocator!Pages(start + offset, next_bit - start)

\* A bit is set exactly when a caller holds its page, but for the pages the loop
\* of an unfinished operation has already done: no page is lost and none is lent twice.
BitsMatchRuns ==
  SetBits = IF pc = "mark" THEN Allocator!Used(lent) \cup Done
            ELSE IF pc = "reset" THEN Allocator!Used(lent) \ Done
            ELSE Allocator!Used(lent)

\* Two callers never hold the same page.
RunsAreDisjoint ==
  \A r, s \in lent :
    r # s => Allocator!Pages(r.index, r.count) \cap Allocator!Pages(s.index, s.count) = {}

\* reset_page asserts that a bit it clears is set.
ResetFindsBitsSet ==
  pc = "reset" /\ bits_left > 0 => bitmap_test(bits, offset + next_bit)

\* scan_page panics only when no run of the length asked for is free, also when the
\* run would end with the last bit of the map.
PanicsOnlyWhenFull ==
  pc = "panic" => Allocator!Fits(Allocator!Used(lent), count) = {}

\* The two loops lend the lowest run that fits, whole, and take back what was lent.
IsPageAllocator == Allocator!Spec
=============================================================================
