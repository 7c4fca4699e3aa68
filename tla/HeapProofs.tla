----------------------------- MODULE HeapProofs -----------------------------
(***************************************************************************)
(* The kernel's memory.  The loops of bitmap_scan and reset_page implement *)
(* the page allocator, for every size of the map and of a byte; the heap   *)
(* is one of its clients, and only takes steps of those loops.  The frames *)
(* get_page gives are never pages of that map.  Above the pages, the heap  *)
(* keeps exact free lists and headers, and implements malloc, for all      *)
(* sizes of pages, headers and blocks.                                     *)
(***************************************************************************)
EXTENDS Memory, SequenceTheorems, FiniteSetTheorems, TLAPS

LEMMA SizeIsNat == Size \in Nat
  BY BitmapAssumption DEF Size

LEMMA Division ==
  ASSUME NEW n \in Nat, NEW b \in Nat, b > 0
  PROVE  n \div b \in Int /\ n % b \in 0 .. b - 1 /\ n = b * (n \div b) + (n % b)
  OBVIOUS

\* Every page has a byte and a bit, and no two pages have the same.
LEMMA BitOfPage ==
  ASSUME NEW i \in Page
  PROVE  /\ ByteOf(i) \in Byte /\ BitOf(i) \in Bit
         /\ i = offset + BITS * ByteOf(i) + BitOf(i)
<1> DEFINE n == i - offset
<1>1. n \in Nat /\ n < Size
  BY SizeIsNat, BitmapAssumption DEF Page
<1> DEFINE q == n \div BITS
           r == n % BITS
<1>2. q \in Int /\ r \in 0 .. BITS - 1 /\ n = BITS * q + r
  <2> HIDE DEF n
  <2> QED
    BY <1>1, Division, BitmapAssumption DEF q, r
<1> HIDE DEF q, r
<1>3. q >= 0
  <2>1. SUFFICES ASSUME q <= -1 PROVE FALSE
    BY <1>2
  <2>2. BITS * q <= -BITS
    BY <1>2, <2>1, BitmapAssumption
  <2>3. BITS * q \in Int
    BY <1>2, BitmapAssumption
  <2>4. QED
    BY <1>1, <1>2, <2>2, <2>3, BitmapAssumption
<1>4. q < length
  <2>1. SUFFICES ASSUME q >= length PROVE FALSE
    BY <1>2, BitmapAssumption
  <2>2. BITS * q >= BITS * length
    BY <1>2, <2>1, BitmapAssumption
  <2>3. BITS * length = Size
    BY BitmapAssumption DEF Size
  <2>4. BITS * q \in Int
    BY <1>2, BitmapAssumption
  <2>5. QED
    BY <1>1, <1>2, <2>2, <2>3, <2>4, SizeIsNat, BitmapAssumption
<1>5. ByteOf(i) = q /\ BitOf(i) = r
  BY DEF q, r, ByteOf, BitOf
<1>6. QED
  BY <1>1, <1>2, <1>3, <1>4, <1>5, BitmapAssumption DEF Byte, Bit, Page
LEMMA PageOfBit ==
  ASSUME NEW i \in Page, NEW j \in Page, ByteOf(i) = ByteOf(j), BitOf(i) = BitOf(j)
  PROVE  i = j
<1>1. i = offset + BITS * ByteOf(i) + BitOf(i) /\ j = offset + BITS * ByteOf(j) + BitOf(j)
  BY BitOfPage
<1>2. QED
  BY <1>1

\* bitmap_set changes the bit of its page and no other.
LEMMA SetOneBit ==
  ASSUME NEW map \in [Byte -> SUBSET Bit], NEW i \in Page, NEW value \in BOOLEAN
  PROVE  /\ bitmap_set(map, i, value) \in [Byte -> SUBSET Bit]
         /\ \A j \in Page : bitmap_test(bitmap_set(map, i, value), j)
                              <=> IF j = i THEN value ELSE bitmap_test(map, j)
<1>1. ByteOf(i) \in Byte /\ BitOf(i) \in Bit
  BY BitOfPage
<1>2. bitmap_set(map, i, value) \in [Byte -> SUBSET Bit]
  BY <1>1 DEF bitmap_set
<1>3. ASSUME NEW j \in Page
      PROVE  bitmap_test(bitmap_set(map, i, value), j)
               <=> IF j = i THEN value ELSE bitmap_test(map, j)
  <2>1. ByteOf(j) \in Byte /\ BitOf(j) \in Bit
    BY BitOfPage
  <2>2. CASE ByteOf(j) = ByteOf(i)
    <3>1. BitOf(j) = BitOf(i) <=> j = i
      BY <2>2, PageOfBit
    <3>2. bitmap_set(map, i, value)[ByteOf(j)] =
            IF value THEN map[ByteOf(i)] \cup {BitOf(i)} ELSE map[ByteOf(i)] \ {BitOf(i)}
      BY <2>2, <1>1 DEF bitmap_set
    <3>3. QED
      BY <2>2, <3>1, <3>2 DEF bitmap_test
  <2>3. CASE ByteOf(j) # ByteOf(i)
    <3>1. bitmap_set(map, i, value)[ByteOf(j)] = map[ByteOf(j)]
      BY <2>1, <2>3, <1>1 DEF bitmap_set
    <3>2. QED
      BY <2>3, <3>1 DEF bitmap_test
  <2>4. QED
    BY <2>2, <2>3
<1>4. QED
  BY <1>2, <1>3

-----------------------------------------------------------------------------
(* The inductive invariant.                                                 *)

IsSet(k) == bitmap_test(bits, offset + k)
Lent == Allocator!Used(lent)
TheRun == [index |-> start + offset, count |-> count]

RunsFit == \A r \in lent : Allocator!Pages(r.index, r.count) \subseteq Page

\* The counter is the length of the run of clear bits that ends at next_bit, and
\* no run that fits has been passed.
LookInv ==
  pc = "look" =>
    /\ next_bit + bits_left = Size
    /\ counter <= next_bit /\ counter < count
    /\ \A k \in next_bit - counter .. next_bit - 1 : ~ IsSet(k)
    /\ counter < next_bit => IsSet(next_bit - counter - 1)
    /\ \A i \in Allocator!Fits(Lent, count) : next_bit < i - offset + count

\* The run being set is the lowest that fits; the one being cleared is lent.
LoopInv ==
  /\ pc = "mark" => Allocator!IsFirstFit(Lent, count, start + offset)
  /\ pc = "reset" => TheRun \in lent
  /\ pc \in {"mark", "reset"} =>
       /\ start \in Nat /\ start <= next_bit
       /\ next_bit + bits_left = start + count

IInv ==
  /\ TypeOK /\ RunsFit /\ BitsMatchRuns /\ RunsAreDisjoint
  /\ LookInv /\ LoopInv /\ PanicsOnlyWhenFull

-----------------------------------------------------------------------------

LEMMA InitHolds == Init => IInv
<1> SUFFICES ASSUME Init PROVE IInv
  OBVIOUS
<1>1. TypeOK
  BY SizeIsNat, BitmapAssumption DEF Init, TypeOK, Allocator!Run
<1>2. \A i \in Page : ~ bitmap_test(bits, i)
  BY BitOfPage DEF Init, bitmap_test
<1>3. BitsMatchRuns
  BY <1>2 DEF Init, BitsMatchRuns, SetBits, Allocator!Used
<1>4. QED
  BY <1>1, <1>3 DEF Init, IInv, RunsFit, RunsAreDisjoint, LookInv, LoopInv, PanicsOnlyWhenFull

\* The bit looked at is that of a page.
LEMMA NextBitIsPage ==
  ASSUME next_bit \in Nat, next_bit < Size
  PROVE  offset + next_bit \in Page
  BY SizeIsNat, BitmapAssumption DEF Page

\* While bitmap_scan looks, a set bit is the page of a caller.
LEMMA SetWhileLooking ==
  ASSUME IInv, pc = "look", NEW k \in Nat, k < Size
  PROVE  IsSet(k) <=> offset + k \in Lent
<1>1. offset + k \in Page
  BY SizeIsNat, BitmapAssumption DEF Page
<1>2. SetBits = Lent
  BY DEF IInv, BitsMatchRuns, Lent
<1>3. QED
  BY <1>1, <1>2 DEF SetBits, IsSet

LEMMA ScanStarts ==
  ASSUME IInv, NEW n \in 1 .. MaxCount, bitmap_scan(n)
  PROVE  IInv'
<1> USE DEF bitmap_scan
<1>1. TypeOK'
  BY SizeIsNat, BitmapAssumption DEF IInv, TypeOK
<1>2. RunsFit' /\ RunsAreDisjoint'
  BY DEF IInv, RunsFit, RunsAreDisjoint
<1>3. BitsMatchRuns'
  BY DEF IInv, BitsMatchRuns, SetBits
<1>4. \A i \in Allocator!Fits(Lent, n) : i - offset >= 0
  BY SizeIsNat, BitmapAssumption DEF Allocator!Fits, Page
<1>5. LookInv'
  <2>1. Lent' = Lent
    BY DEF Lent
  <2>2. \A i \in Allocator!Fits(Lent, n) : i \in Int
    BY SizeIsNat, BitmapAssumption DEF Allocator!Fits, Page
  <2>3. \A i \in Allocator!Fits(Lent, n) : 0 < i - offset + n
    BY <1>4, <2>2, BitmapAssumption
  <2>4. QED
    BY <2>1, <2>3, SizeIsNat DEF LookInv
<1>6. QED
  BY <1>1, <1>2, <1>3, <1>5 DEF IInv, LoopInv, PanicsOnlyWhenFull

LEMMA LookKeeps ==
  ASSUME IInv, Look
  PROVE  IInv'
<1> USE DEF Look
<1>1. /\ next_bit \in Nat /\ counter \in Nat /\ count \in Nat \ {0} /\ count <= MaxCount
      /\ bits_left \in Nat /\ next_bit + bits_left = Size
      /\ counter <= next_bit /\ counter < count
  BY SizeIsNat, BitmapAssumption DEF IInv, TypeOK, LookInv
<1>2. next_bit < Size
  BY <1>1, SizeIsNat
<1>3. Counter = (IF IsSet(next_bit) THEN 0 ELSE counter + 1)
  BY DEF Counter, IsSet
<1>4. Counter \in Nat /\ Counter < count /\ Counter <= next_bit + 1
  BY <1>1, <1>3
<1>5. TypeOK'
  BY <1>1, <1>2, <1>4, SizeIsNat, BitmapAssumption DEF IInv, TypeOK
<1>6. RunsFit' /\ RunsAreDisjoint' /\ BitsMatchRuns'
  BY DEF IInv, RunsFit, RunsAreDisjoint, BitsMatchRuns, SetBits
<1>7. Lent' = Lent /\ \A k : IsSet(k)' <=> IsSet(k)
  BY DEF Lent, IsSet
<1>8. \A k \in next_bit + 1 - Counter .. next_bit : ~ IsSet(k)
  <2>1. \A k \in next_bit - counter .. next_bit - 1 : ~ IsSet(k)
    BY DEF IInv, LookInv
  <2>2. CASE IsSet(next_bit)
    BY <1>1, <1>3, <2>2
  <2>3. CASE ~ IsSet(next_bit)
    BY <1>1, <1>3, <2>1, <2>3
  <2>4. QED
    BY <2>2, <2>3
<1>9. Counter < next_bit + 1 => IsSet(next_bit - Counter)
  <2>1. counter < next_bit => IsSet(next_bit - counter - 1)
    BY DEF IInv, LookInv
  <2>2. CASE IsSet(next_bit)
    BY <1>1, <1>3, <2>2
  <2>3. CASE ~ IsSet(next_bit)
    <3>1. Counter = counter + 1 /\ next_bit - Counter = next_bit - counter - 1
      BY <1>1, <1>3, <2>3
    <3>2. QED
      BY <1>1, <2>1, <3>1
  <2>4. QED
    BY <2>2, <2>3
<1>10. ASSUME NEW i \in Allocator!Fits(Lent, count)
       PROVE  next_bit + 1 < i - offset + count
  <2>1. next_bit < i - offset + count
    BY DEF IInv, LookInv
  <2>2. i \in Int /\ offset \in Nat /\ i >= offset /\ i < offset + Size
    BY SizeIsNat, BitmapAssumption DEF Allocator!Fits, Page
  <2>3. ASSUME next_bit + 1 = i - offset + count PROVE FALSE
    <3> DEFINE k == next_bit - Counter
    <3>1. Counter < next_bit + 1
      BY <1>1, <1>4, <2>2, <2>3
    <3>2. IsSet(k)
      BY <3>1, <1>9
    <3>3. k \in Nat /\ k < Size /\ offset + k \in i .. i + count - 1
      BY <1>1, <1>2, <1>4, <3>1, <2>2, <2>3, SizeIsNat
    <3>4. offset + k \in Lent
      BY <3>2, <3>3, SetWhileLooking
    <3>5. QED
      BY <3>3, <3>4 DEF Allocator!Fits, Allocator!Pages
  <2>4. QED
    BY <1>1, <2>1, <2>2, <2>3
<1>11. LookInv'
  BY <1>1, <1>4, <1>7, <1>8, <1>9, <1>10 DEF LookInv
<1>12. QED
  BY <1>5, <1>6, <1>11 DEF IInv, LoopInv, PanicsOnlyWhenFull

LEMMA FoundKeeps ==
  ASSUME IInv, Found
  PROVE  IInv'
<1> USE DEF Found
<1>1. /\ next_bit \in Nat /\ counter \in Nat /\ count \in Nat \ {0} /\ count <= MaxCount
      /\ bits_left \in Nat /\ next_bit + bits_left = Size
      /\ counter <= next_bit /\ counter < count
  BY SizeIsNat, BitmapAssumption DEF IInv, TypeOK, LookInv
<1>2. next_bit < Size
  BY <1>1, SizeIsNat
<1>3. ~ IsSet(next_bit) /\ count = counter + 1
  BY <1>1 DEF Counter, IsSet
<1>4. start' = next_bit - counter /\ start' \in 0 .. Size /\ start' + count = next_bit + 1
  BY <1>1, <1>2, <1>3, SizeIsNat
<1>5. TypeOK'
  BY <1>1, <1>2, <1>3, <1>4, SizeIsNat, BitmapAssumption DEF IInv, TypeOK
<1>6. RunsFit' /\ RunsAreDisjoint' /\ Lent' = Lent
  BY DEF IInv, RunsFit, RunsAreDisjoint, Lent
<1>7. BitsMatchRuns'
  <2>1. Done' = {}
    BY <1>4, SizeIsNat, BitmapAssumption DEF Done, Allocator!Pages
  <2>2. SetBits' = SetBits
    BY DEF SetBits
  <2>3. QED
    BY <1>6, <2>1, <2>2 DEF IInv, BitsMatchRuns, Lent
<1>8. start' + offset \in Allocator!Fits(Lent, count)
  <2>1. ASSUME NEW i \in Allocator!Pages(start' + offset, count)
        PROVE  i \in Page /\ i \notin Lent
    <3> DEFINE k == i - offset
    <3>1. k \in Nat /\ k < Size /\ k \in next_bit - counter .. next_bit /\ i = offset + k
      BY <1>1, <1>2, <1>3, <1>4, SizeIsNat, BitmapAssumption DEF Allocator!Pages
    <3>2. ~ IsSet(k)
      BY <1>1, <1>3, <3>1 DEF IInv, LookInv
    <3>3. QED
      BY <3>1, <3>2, SetWhileLooking, SizeIsNat, BitmapAssumption DEF Page
  <2>2. start' + offset \in Page
    BY <1>1, <1>2, <1>4, SizeIsNat, BitmapAssumption DEF Page
  <2>3. QED
    BY <2>1, <2>2 DEF Allocator!Fits
<1>9. ASSUME NEW j \in Allocator!Fits(Lent, count)
      PROVE  start' + offset <= j
  <2>1. next_bit < j - offset + count
    BY DEF IInv, LookInv
  <2>2. j \in Int
    BY SizeIsNat, BitmapAssumption DEF Allocator!Fits, Page
  <2>3. QED
    BY <1>1, <1>4, <2>1, <2>2, BitmapAssumption
<1>10. LoopInv'
  <2>1. Allocator!IsFirstFit(Lent, count, start' + offset)
    BY <1>8, <1>9 DEF Allocator!IsFirstFit
  <2>2. start' \in Nat /\ next_bit' + bits_left' = start' + count
    BY <1>1, <1>4
  <2>3. QED
    BY <1>4, <1>6, <2>1, <2>2, SizeIsNat DEF LoopInv
<1>11. QED
  BY <1>5, <1>6, <1>7, <1>10 DEF IInv, LookInv, PanicsOnlyWhenFull

LEMMA PanicKeeps ==
  ASSUME IInv, Panic
  PROVE  IInv'
<1> USE DEF Panic
<1>1. TypeOK' /\ RunsFit' /\ RunsAreDisjoint' /\ BitsMatchRuns'
  BY DEF IInv, TypeOK, RunsFit, RunsAreDisjoint, BitsMatchRuns, SetBits
<1>2. next_bit = Size /\ count \in Nat \ {0}
  BY SizeIsNat, BitmapAssumption DEF IInv, TypeOK, LookInv
<1>3. ASSUME NEW i \in Allocator!Fits(Lent, count) PROVE FALSE
  <2>1. i \in Int /\ Size < i - offset + count
    BY <1>2, SizeIsNat, BitmapAssumption DEF IInv, LookInv, Allocator!Fits, Page
  <2>2. i + count - 1 \in Page
    BY <1>2, <2>1 DEF Allocator!Fits, Allocator!Pages
  <2>3. QED
    BY <1>2, <2>1, <2>2, SizeIsNat, BitmapAssumption DEF Page
<1>4. PanicsOnlyWhenFull'
  BY <1>3 DEF PanicsOnlyWhenFull, Lent
<1>5. QED
  BY <1>1, <1>4 DEF IInv, LookInv, LoopInv

\* The bit a loop sets or clears is that of a page of the run.
LEMMA LoopBit ==
  ASSUME IInv, pc \in {"mark", "reset"}
  PROVE  /\ next_bit \in Nat /\ bits_left \in Nat /\ start \in Nat /\ count \in Nat \ {0}
         /\ start <= next_bit /\ next_bit + bits_left = start + count
         /\ Allocator!Pages(start + offset, count) \subseteq Page
         /\ start + count <= Size
<1>1. /\ next_bit \in Nat /\ bits_left \in Nat /\ start \in Nat /\ count \in Nat \ {0}
      /\ start <= next_bit /\ next_bit + bits_left = start + count
  BY SizeIsNat, BitmapAssumption DEF IInv, TypeOK, LoopInv
<1>2. Allocator!Pages(start + offset, count) \subseteq Page
  BY DEF IInv, LoopInv, RunsFit, Allocator!IsFirstFit, Allocator!Fits, TheRun
<1>3. start + offset + count - 1 \in Page
  BY <1>1, <1>2, BitmapAssumption DEF Allocator!Pages
<1>4. QED
  BY <1>1, <1>2, <1>3, SizeIsNat, BitmapAssumption DEF Page

\* A turn of the loop adds one page to those done.
LEMMA DoneGrows ==
  ASSUME next_bit \in Nat, start \in Nat, start <= next_bit,
         next_bit' = next_bit + 1, start' = start
  PROVE  Done' = Done \cup {offset + next_bit}
  BY BitmapAssumption DEF Done, Allocator!Pages

LEMMA MarkKeeps ==
  ASSUME IInv, Mark
  PROVE  IInv'
<1> USE DEF Mark
<1>1. /\ next_bit \in Nat /\ bits_left \in Nat \ {0} /\ start \in Nat /\ count \in Nat
      /\ start <= next_bit /\ next_bit + bits_left = start + count /\ start + count <= Size
  BY LoopBit
<1>2. offset + next_bit \in Page
  BY <1>1, NextBitIsPage, SizeIsNat
<1>3. /\ bits' \in [Byte -> SUBSET Bit]
      /\ \A j \in Page : bitmap_test(bits', j)
                           <=> IF j = offset + next_bit THEN TRUE ELSE bitmap_test(bits, j)
  BY <1>2, SetOneBit DEF IInv, TypeOK
<1>4. TypeOK'
  <2>1. next_bit' \in 0 .. Size /\ bits_left' \in Nat
    BY <1>1, SizeIsNat
  <2>2. UNCHANGED <<pc, count, counter, start, lent>>
    OBVIOUS
  <2>3. QED
    BY <1>3, <2>1, <2>2 DEF IInv, TypeOK
<1>5. RunsFit' /\ RunsAreDisjoint' /\ Lent' = Lent
  BY DEF IInv, RunsFit, RunsAreDisjoint, Lent
<1>6. SetBits' = SetBits \cup {offset + next_bit}
  BY <1>2, <1>3 DEF SetBits
<1>7. Done' = Done \cup {offset + next_bit}
  BY <1>1, DoneGrows
<1>8. BitsMatchRuns'
  BY <1>5, <1>6, <1>7 DEF IInv, BitsMatchRuns, Lent
<1>9. LoopInv'
  BY <1>1, <1>5 DEF IInv, LoopInv
<1>10. QED
  BY <1>4, <1>5, <1>8, <1>9 DEF IInv, LookInv, PanicsOnlyWhenFull

LEMMA ClearKeeps ==
  ASSUME IInv, Clear
  PROVE  IInv'
<1> USE DEF Clear
<1>1. /\ next_bit \in Nat /\ bits_left \in Nat \ {0} /\ start \in Nat /\ count \in Nat
      /\ start <= next_bit /\ next_bit + bits_left = start + count /\ start + count <= Size
  BY LoopBit
<1>2. offset + next_bit \in Page
  BY <1>1, NextBitIsPage, SizeIsNat
<1>3. /\ bits' \in [Byte -> SUBSET Bit]
      /\ \A j \in Page : bitmap_test(bits', j)
                           <=> IF j = offset + next_bit THEN FALSE ELSE bitmap_test(bits, j)
  BY <1>2, SetOneBit DEF IInv, TypeOK
<1>4. TypeOK'
  <2>1. next_bit' \in 0 .. Size /\ bits_left' \in Nat
    BY <1>1, SizeIsNat
  <2>2. UNCHANGED <<pc, count, counter, start, lent>>
    OBVIOUS
  <2>3. QED
    BY <1>3, <2>1, <2>2 DEF IInv, TypeOK
<1>5. RunsFit' /\ RunsAreDisjoint' /\ Lent' = Lent
  BY DEF IInv, RunsFit, RunsAreDisjoint, Lent
<1>6. SetBits' = SetBits \ {offset + next_bit}
  BY <1>2, <1>3 DEF SetBits
<1>7. Done' = Done \cup {offset + next_bit}
  BY <1>1, DoneGrows
<1>8. BitsMatchRuns'
  BY <1>5, <1>6, <1>7 DEF IInv, BitsMatchRuns, Lent
<1>9. LoopInv'
  BY <1>1, <1>5 DEF IInv, LoopInv, TheRun
<1>10. QED
  BY <1>4, <1>5, <1>8, <1>9 DEF IInv, LookInv, PanicsOnlyWhenFull

\* A run that ends or begins changes the used pages by its pages.
LEMMA UsedMore ==
  ASSUME NEW runs, NEW run
  PROVE  Allocator!Used(runs \cup {run}) =
           Allocator!Used(runs) \cup Allocator!Pages(run.index, run.count)
  BY DEF Allocator!Used

LEMMA UsedLess ==
  ASSUME NEW runs, NEW run \in runs,
         \A r \in runs : r # run =>
           Allocator!Pages(r.index, r.count) \cap Allocator!Pages(run.index, run.count) = {}
  PROVE  Allocator!Used(runs \ {run}) =
           Allocator!Used(runs) \ Allocator!Pages(run.index, run.count)
  BY DEF Allocator!Used

\* When a loop has ended, its pages are those of the run.
LEMMA AllDone ==
  ASSUME IInv, pc \in {"mark", "reset"}, bits_left = 0
  PROVE  Done = Allocator!Pages(TheRun.index, TheRun.count)
<1>1. next_bit - start = count
  BY LoopBit
<1>2. QED
  BY <1>1 DEF Done, TheRun

LEMMA ReturnKeeps ==
  ASSUME IInv, Return
  PROVE  IInv'
<1> USE DEF Return, NoLocals, EOF
<1>1. IInv /\ pc = "mark" /\ lent' = lent \cup {TheRun}
  BY DEF TheRun
<1>2. TheRun \in Allocator!Run
  <2>1. start + offset \in Page
    BY DEF IInv, LoopInv, Allocator!IsFirstFit, Allocator!Fits
  <2>2. count \in 1 .. MaxCount
    BY DEF IInv, TypeOK
  <2>3. QED
    BY <2>1, <2>2 DEF TheRun, Allocator!Run
<1>3. TypeOK'
  BY <1>1, <1>2, SizeIsNat, BitmapAssumption DEF IInv, TypeOK
<1>4. /\ Allocator!Pages(TheRun.index, TheRun.count) \subseteq Page
      /\ Allocator!Pages(TheRun.index, TheRun.count) \cap Lent = {}
  BY DEF IInv, LoopInv, Allocator!IsFirstFit, Allocator!Fits, TheRun
<1>5. RunsFit'
  BY <1>1, <1>4 DEF IInv, RunsFit
<1>6. \A r \in lent : Allocator!Pages(r.index, r.count) \subseteq Lent
  BY DEF Lent, Allocator!Used
<1>7. RunsAreDisjoint'
  <2>1. \A r \in lent : /\ Allocator!Pages(r.index, r.count) \cap Allocator!Pages(TheRun.index, TheRun.count) = {}
                        /\ Allocator!Pages(TheRun.index, TheRun.count) \cap Allocator!Pages(r.index, r.count) = {}
    BY <1>4, <1>6
  <2>2. QED
    BY <1>1, <2>1 DEF IInv, RunsAreDisjoint
<1>8. BitsMatchRuns'
  <2>1. SetBits = Lent \cup Done /\ SetBits' = SetBits
    BY DEF IInv, BitsMatchRuns, Lent, SetBits
  <2>2. Allocator!Used(lent)' = Lent \cup Done
    BY <1>1, UsedMore, AllDone DEF Lent
  <2>3. QED
    BY <2>1, <2>2 DEF BitsMatchRuns
<1>9. QED
  BY <1>3, <1>5, <1>7, <1>8 DEF IInv, LookInv, LoopInv, PanicsOnlyWhenFull

LEMMA ResetStarts ==
  ASSUME IInv, NEW run \in lent, reset_page(run)
  PROVE  IInv'
<1> USE DEF reset_page
<1>1. /\ run = [index |-> run.index, count |-> run.count]
      /\ run.index \in Page /\ run.count \in 1 .. MaxCount
  BY DEF IInv, TypeOK, Allocator!Run
<1>2. start' \in 0 .. Size /\ start' + offset = run.index /\ next_bit' = start'
  BY <1>1, SizeIsNat, BitmapAssumption DEF Page
<1>3. TypeOK'
  <2>1. bits_left' \in Nat
    BY <1>1
  <2>2. QED
    BY <1>1, <1>2, <2>1, SizeIsNat DEF IInv, TypeOK
<1>4. RunsFit' /\ RunsAreDisjoint'
  BY DEF IInv, RunsFit, RunsAreDisjoint
<1>5. BitsMatchRuns'
  <2>1. Done' = {}
    BY <1>2, SizeIsNat, BitmapAssumption DEF Done, Allocator!Pages
  <2>2. SetBits' = SetBits /\ SetBits = Allocator!Used(lent) /\ Allocator!Used(lent)' = Allocator!Used(lent)
    BY DEF IInv, BitsMatchRuns, SetBits
  <2>3. QED
    BY <2>1, <2>2 DEF BitsMatchRuns
<1>6. LoopInv'
  <2>1. TheRun' = run
    BY <1>1, <1>2 DEF TheRun
  <2>2. start' \in Nat /\ next_bit' + bits_left' = start' + count'
    BY <1>1, <1>2
  <2>3. QED
    BY <1>2, <2>1, <2>2 DEF LoopInv
<1>7. QED
  BY <1>3, <1>4, <1>5, <1>6 DEF IInv, LookInv, PanicsOnlyWhenFull

LEMMA ClearedKeeps ==
  ASSUME IInv, Cleared
  PROVE  IInv'
<1> USE DEF Cleared, NoLocals, EOF
<1>1. pc = "reset" /\ lent' = lent \ {TheRun} /\ TheRun \in lent
  BY DEF TheRun, IInv, LoopInv
<1>2. TypeOK' /\ RunsFit' /\ RunsAreDisjoint'
  BY <1>1, SizeIsNat, BitmapAssumption DEF IInv, TypeOK, RunsFit, RunsAreDisjoint
<1>3. BitsMatchRuns'
  <2>1. SetBits = Lent \ Done /\ SetBits' = SetBits
    BY DEF IInv, BitsMatchRuns, Lent, SetBits
  <2>2. \A r \in lent : r # TheRun =>
          Allocator!Pages(r.index, r.count) \cap Allocator!Pages(TheRun.index, TheRun.count) = {}
    BY <1>1 DEF IInv, RunsAreDisjoint
  <2>3. Allocator!Used(lent \ {TheRun}) = Lent \ Done
    BY <1>1, <2>2, UsedLess, AllDone DEF Lent
  <2>4. QED
    BY <1>1, <2>1, <2>3 DEF BitsMatchRuns
<1>4. QED
  BY <1>2, <1>3 DEF IInv, LookInv, LoopInv, PanicsOnlyWhenFull

LEMMA NextKeeps == IInv /\ [Next]_vars => IInv'
<1> SUFFICES ASSUME IInv, [Next]_vars PROVE IInv'
  OBVIOUS
<1>1. CASE \E n \in 1 .. MaxCount : bitmap_scan(n)
  BY <1>1, ScanStarts
<1>2. CASE Look
  BY <1>2, LookKeeps
<1>3. CASE Found
  BY <1>3, FoundKeeps
<1>4. CASE Panic
  BY <1>4, PanicKeeps
<1>5. CASE Mark
  BY <1>5, MarkKeeps
<1>6. CASE Return
  BY <1>6, ReturnKeeps
<1>7. CASE \E run \in lent : reset_page(run)
  BY <1>7, ResetStarts
<1>8. CASE Clear
  BY <1>8, ClearKeeps
<1>9. CASE Cleared
  BY <1>9, ClearedKeeps
<1>10. CASE UNCHANGED vars
  BY <1>10 DEF vars, IInv, TypeOK, RunsFit, BitsMatchRuns, SetBits, Done, RunsAreDisjoint,
               LookInv, IsSet, Lent, LoopInv, TheRun, PanicsOnlyWhenFull
<1>11. QED
  BY <1>1, <1>2, <1>3, <1>4, <1>5, <1>6, <1>7, <1>8, <1>9, <1>10 DEF Next

LEMMA Inductive == Spec => []IInv
  BY InitHolds, NextKeeps, PTL DEF Spec

-----------------------------------------------------------------------------
(* Results.                                                                 *)

\* No two callers of alloc_kpage hold the same page, and the bits of the map are those
\* of the pages they hold: no page is lost, whatever the order of calls.
THEOREM RunsStayDisjoint == Spec => [](RunsAreDisjoint /\ BitsMatchRuns)
<1>1. IInv => RunsAreDisjoint /\ BitsMatchRuns
  BY DEF IInv
<1>2. QED
  BY <1>1, Inductive, PTL

\* The panic of scan_page means that no run of the length asked for is free.
THEOREM PanicMeansFull == Spec => []PanicsOnlyWhenFull
<1>1. IInv => PanicsOnlyWhenFull
  BY DEF IInv
<1>2. QED
  BY <1>1, Inductive, PTL

\* The assertion of reset_page holds.
THEOREM ResetAssertionHolds == Spec => []ResetFindsBitsSet
<1>1. ASSUME IInv PROVE ResetFindsBitsSet
  <2> SUFFICES ASSUME pc = "reset", bits_left > 0
               PROVE  bitmap_test(bits, offset + next_bit)
    BY DEF ResetFindsBitsSet
  <2> DEFINE i == offset + next_bit
  <2>1. /\ next_bit \in Nat /\ start \in Nat /\ count \in Nat /\ bits_left \in Nat
        /\ next_bit < start + count /\ start <= next_bit
    BY <1>1, LoopBit
  <2>2. i \in Allocator!Pages(start + offset, count) /\ i \notin Done
    BY <2>1, BitmapAssumption DEF Allocator!Pages, Done
  <2>3. TheRun \in lent /\ Allocator!Pages(TheRun.index, TheRun.count) = Allocator!Pages(start + offset, count)
    BY <1>1 DEF IInv, LoopInv, TheRun
  <2>4. i \in Allocator!Used(lent)
    BY <2>2, <2>3 DEF Allocator!Used
  <2>5. i \in SetBits
    BY <1>1, <2>2, <2>4 DEF IInv, BitsMatchRuns
  <2>6. QED
    BY <2>5 DEF SetBits
<1>2. QED
  BY <1>1, Inductive, PTL

\* The loops implement the allocator: a call lends the lowest run that fits.
THEOREM BitmapIsPageAllocator == Spec => IsPageAllocator
<1>1. Init => Allocator!Init
  BY DEF Init, Allocator!Init
<1>2. ASSUME IInv, [Next]_vars
      PROVE  [Allocator!Next]_lent
  <2>1. CASE Return
    <3>1. Allocator!IsFirstFit(Allocator!Used(lent), count, start + offset)
      BY <1>2, <2>1 DEF Return, IInv, LoopInv, Lent
    <3>2. start + offset \in Page /\ count \in 1 .. MaxCount
      BY <1>2, <3>1 DEF IInv, TypeOK, Allocator!IsFirstFit, Allocator!Fits
    <3>3. Allocator!alloc_kpage(count)
      BY <2>1, <3>1, <3>2 DEF Return, Allocator!alloc_kpage
    <3>4. QED
      BY <3>2, <3>3 DEF Allocator!Next
  <2>2. CASE Cleared
    <3>1. TheRun \in lent /\ lent' = lent \ {TheRun}
      BY <1>2, <2>2 DEF Cleared, TheRun, IInv, LoopInv
    <3>2. QED
      BY <3>1 DEF Allocator!Next, Allocator!free_kpage
  <2>3. CASE ~ Return /\ ~ Cleared
    <3>1. lent' = lent
      BY <1>2, <2>3 DEF Next, vars, bitmap_scan, Look, Found, Panic, Mark, reset_page, Clear
    <3>2. QED
      BY <3>1
  <2>4. QED
    BY <2>1, <2>2, <2>3
<1>3. QED
  BY <1>1, <1>2, Inductive, PTL DEF Spec, IsPageAllocator, Allocator!Spec

-----------------------------------------------------------------------------
(* The heap as a client.                                                    *)

\* A large block needs at least a page, and no more than the longest run.
LEMMA RequestTakesRun ==
  ASSUME NEW size \in Request
  PROVE  PagesFor(size) \in 1 .. MaxCount
<1>1. size \in Nat \ {0} /\ PAGE_SIZE \in Nat \ {0} /\ HEADER \in Nat \ {0}
  BY ArenaAssumption
<1> DEFINE n == size + HEADER + PAGE_SIZE - 1
<1>2. n \in Nat /\ n >= PAGE_SIZE
  BY <1>1
<1>3. n \div PAGE_SIZE \in Int /\ n % PAGE_SIZE \in 0 .. PAGE_SIZE - 1
      /\ n = PAGE_SIZE * (n \div PAGE_SIZE) + (n % PAGE_SIZE)
  <2> HIDE DEF n
  <2> QED
    BY <1>1, <1>2, Division
<1> DEFINE q == n \div PAGE_SIZE
           r == n % PAGE_SIZE
<1>4. q \in Int /\ r \in 0 .. PAGE_SIZE - 1 /\ n = PAGE_SIZE * q + r
  BY <1>3
<1>5. PagesFor(size) = q
  BY DEF PagesFor
<1>6. q >= 1
  <2> HIDE DEF q, r, n
  <2>1. SUFFICES ASSUME q <= 0 PROVE FALSE
    BY <1>4
  <2>2. PAGE_SIZE * q <= 0
    BY <1>1, <1>4, <2>1
  <2>3. PAGE_SIZE * q \in Int
    BY <1>1, <1>4
  <2>4. QED
    BY <1>1, <1>2, <1>4, <2>2, <2>3
<1>7. q <= MaxCount
  BY <1>5, RequestsFit
<1>8. QED
  BY <1>4, <1>5, <1>6, <1>7, BitmapAssumption

LEMMA HeapStep ==
  ASSUME [HeapNext]_<<vars, heapVars, call>>
  PROVE  [Next]_vars
<1>1. 1 \in 1 .. MaxCount
  BY BitmapAssumption
<1>2. CASE alloc_kpage(1)
  BY <1>1, <1>2 DEF alloc_kpage, Ask, Next
<1>3. CASE \E size \in Request : kmalloc(size)
  <2>1. PICK size \in Request : kmalloc(size)
    BY <1>3
  <2>2. CASE LargeBlock(size)
    BY <2>2, RequestTakesRun DEF LargeBlock, Ask, Next
  <2>3. CASE FreeBlock(size)
    BY <2>3 DEF FreeBlock
  <2>4. CASE NewArena(size)
    BY <1>1, <2>4 DEF NewArena, Ask, Next
  <2>5. QED
    BY <2>1, <2>2, <2>3, <2>4 DEF kmalloc
<1>4. CASE GotPage \/ GotLarge \/ GotArena
  BY <1>4 DEF GotPage, GotLarge, GotArena, Got, Next
<1>5. CASE \E block \in given : free_kpage(block) \/ kfree(block)
  <2>1. ASSUME NEW run, reset_page(run) PROVE Next
    BY <2>1 DEF reset_page, Next
  <2>2. QED
    BY <1>5, <2>1 DEF free_kpage, kfree, FreeLarge, FreeSmall
<1>6. CASE Loop
  BY <1>6 DEF Loop, Next
<1>7. CASE UNCHANGED <<vars, heapVars, call>>
  BY <1>7
<1>8. QED
  BY <1>2, <1>3, <1>4, <1>5, <1>6, <1>7 DEF HeapNext

\* kmalloc, kfree and the other callers of alloc_kpage drive the loops of the bitmap only
\* as Spec allows: what is proved of the page allocator holds while the heap runs on it.
THEOREM HeapRunsOnBitmap == HeapSpec => Spec
<1>1. HeapInit => Init
  BY DEF HeapInit
<1>2. [HeapNext]_<<vars, heapVars, call>> => [Next]_vars
  BY HeapStep
<1>3. QED
  BY <1>1, <1>2, PTL DEF HeapSpec, Spec

-----------------------------------------------------------------------------
(* The physical memory.                                                     *)

\* The numbers memory_init has set stay, the counts of the kernel's pages are never 0,
\* and no frame is one of them.
MemInv ==
  /\ table \in Tables
  /\ total_pages = IDX(Zone(table).size) + offset
  /\ FramesAreNotTheKernels
  /\ stage = "run" =>
       /\ Page \subseteq DOMAIN memory_map
       /\ \A p \in Page : memory_map[p] # 0

LEMMA MapPagesIsCount ==
  ASSUME MemInv
  PROVE  memory_map_pages \in 1 .. MaxCount
  BY MapFits DEF MemInv, memory_map_pages

LEMMA KernelIsInMap ==
  ASSUME MemInv
  PROVE  Page \subseteq 1 .. Mapped - 1 /\ Page \subseteq MapEntries
<1>1. /\ memory_map_pages \in Nat /\ memory_map_pages >= 1
      /\ PAGE_SIZE \in Nat /\ offset \in Nat /\ Mapped \in Nat
  BY MapPagesIsCount, BitmapAssumption, MemoryAssumption, ArenaAssumption
<1> DEFINE m == memory_map_pages * PAGE_SIZE
<1>2. m \in Nat /\ m >= PAGE_SIZE
  <2> HIDE DEF memory_map_pages
  <2> QED
    BY <1>1
<1>3. Page = offset .. Mapped - 1 /\ offset > 0 /\ Mapped <= PAGE_SIZE
  BY SizeIsNat, MemoryAssumption, BitmapAssumption DEF Page
<1> HIDE DEF m
<1>4. \A p \in Page : p \in 0 .. m - 1
  BY <1>1, <1>2, <1>3
<1>5. QED
  BY <1>1, <1>3, <1>4 DEF MapEntries, m

LEMMA MemInvHolds == MemorySpec => []MemInv
<1>1. MemoryInit => MemInv
  BY DEF MemoryInit, MemInv, FramesAreNotTheKernels
<1>2. ASSUME MemInv, [MemoryNext]_<<vars, heapVars, call, physical>>
      PROVE  MemInv'
  <2>1. CASE memory_map_init
    BY <1>2, <2>1 DEF memory_map_init, MemInv, FramesAreNotTheKernels
  <2>2. CASE mapping_init
    <3>1. DOMAIN memory_map' = MapEntries
      BY <2>2 DEF mapping_init
    <3>2. \A p \in Page : memory_map'[p] = 1
      BY <1>2, <2>2, KernelIsInMap DEF mapping_init
    <3>3. QED
      BY <1>2, <2>2, <3>1, <3>2, KernelIsInMap DEF mapping_init, MemInv, FramesAreNotTheKernels
  <2>3. CASE UNCHANGED physical
    BY <1>2, <2>3 DEF physical, MemInv, FramesAreNotTheKernels
  <2>4. CASE get_page
    <3>1. PICK i \in Frame :
            memory_map[i] = 0 /\ memory_map' = [memory_map EXCEPT ![i] = 1] /\ frames' = frames \cup {i}
      BY <2>4 DEF get_page
    <3>2. i \notin Page
      BY <1>2, <2>4, <3>1 DEF get_page, MemInv
    <3>3. \A p \in Page : p \in DOMAIN memory_map' /\ memory_map'[p] # 0
      BY <1>2, <2>4, <3>1, <3>2 DEF get_page, MemInv
    <3>4. QED
      BY <1>2, <2>4, <3>1, <3>2, <3>3 DEF get_page, MemInv, FramesAreNotTheKernels
  <2>5. CASE OutOfMemory
    BY <1>2, <2>5 DEF OutOfMemory, MemInv, FramesAreNotTheKernels
  <2>6. CASE \E i \in frames : put_page(i)
    <3>1. PICK i \in frames : put_page(i)
      BY <2>6
    <3>2. i \notin Page
      BY <1>2 DEF MemInv, FramesAreNotTheKernels
    <3>3. \A p \in Page : p \in DOMAIN memory_map' /\ memory_map'[p] # 0
      BY <1>2, <3>1, <3>2 DEF put_page, MemInv
    <3>4. QED
      BY <1>2, <3>1, <3>3 DEF put_page, MemInv, FramesAreNotTheKernels
  <2>7. QED
    BY <1>2, <2>1, <2>2, <2>3, <2>4, <2>5, <2>6 DEF MemoryNext
<1>3. QED
  BY <1>1, <1>2, PTL DEF MemorySpec

\* No frame that get_page gives is a page the kernel may lend, whatever memory the
\* firmware reports: mapping_init has counted them all.
THEOREM FramesStayApart == MemorySpec => []FramesAreNotTheKernels
<1>1. MemInv => FramesAreNotTheKernels
  BY DEF MemInv
<1>2. QED
  BY <1>1, MemInvHolds, PTL

\* Also while memory_map_init takes the pages of its map and get_page runs beside the
\* heap, the loops of the bitmap run as Spec allows.
LEMMA MemoryRunsOnBitmap == MemorySpec => Spec
<1>1. MemoryInit => Init
  BY DEF MemoryInit, HeapInit
<1>2. ASSUME MemInv, [MemoryNext]_<<vars, heapVars, call, physical>>
      PROVE  [Next]_vars
  <2>1. CASE memory_map_init
    BY <1>2, <2>1, MapPagesIsCount DEF memory_map_init, alloc_kpage, Ask, Next
  <2>2. CASE mapping_init
    BY <2>2 DEF mapping_init, GotPage, Got, Next
  <2>3. CASE Loop
    BY <2>3 DEF Loop, Next
  <2>4. CASE HeapNext
    BY <2>4, HeapStep
  <2>5. CASE UNCHANGED vars
    BY <2>5
  <2>6. CASE get_page \/ OutOfMemory \/ \E i \in frames : put_page(i)
    BY <2>6 DEF get_page, OutOfMemory, put_page
  <2>7. QED
    BY <1>2, <2>1, <2>2, <2>3, <2>4, <2>5, <2>6 DEF MemoryNext
<1>3. QED
  BY <1>1, <1>2, MemInvHolds, PTL DEF MemorySpec, Spec

\* While the heap runs, no page is lost or lent twice, the assertion of reset_page holds,
\* scan_page panics only when no run fits, and pages are lent first fit.
THEOREM MemoryKeepsPages ==
  MemorySpec => /\ [](BitsMatchRuns /\ ResetFindsBitsSet /\ PanicsOnlyWhenFull)
                /\ IsPageAllocator
  BY MemoryRunsOnBitmap, RunsStayDisjoint, ResetAssertionHolds, PanicMeansFull,
     BitmapIsPageAllocator, PTL

-----------------------------------------------------------------------------
(* Loops written as recursive functions.                                    *)

\* Induction on sets: a set with 0 in it and with the successors of its members has all
\* natural numbers.
LEMMA Induction ==
  ASSUME NEW S, 0 \in S, \A n \in Nat : n \in S => n + 1 \in S
  PROVE  \A n \in Nat : n \in S
<1> DEFINE less == {ss \in Nat \X Nat : ss[1] < ss[2]}
<1>1. IsWellFoundedOn(less, Nat)
  BY NatLessThanWellFounded DEF OpToRel
<1>2. \A m, n \in Nat : m < n => <<m, n>> \in less
  OBVIOUS
<1> HIDE DEF less
<1>3. ASSUME Nat \ S # {} PROVE FALSE
  <2>1. PICK n \in Nat \ S : \A m \in Nat \ S : <<m, n>> \notin less
    BY <1>1, <1>3, WFMin
  <2>2. n # 0 /\ n \in Nat
    BY <2>1
  <2>3. n - 1 \in Nat /\ n - 1 < n /\ (n - 1) + 1 = n
    BY <2>2
  <2>4. n - 1 \in S
    BY <1>2, <2>1, <2>2, <2>3
  <2>5. QED
    BY <2>1, <2>3, <2>4
<1>4. QED
  BY <1>3

\* A set of natural numbers has a least one.
LEMMA Least ==
  ASSUME NEW S, S \subseteq Nat, S # {}
  PROVE  \E n \in S : \A m \in S : n <= m
<1> DEFINE less == {ss \in Nat \X Nat : ss[1] < ss[2]}
<1>1. IsWellFoundedOn(less, Nat)
  BY NatLessThanWellFounded DEF OpToRel
<1>2. \A m, n \in Nat : m < n => <<m, n>> \in less
  OBVIOUS
<1> HIDE DEF less
<1>3. PICK n \in S : \A m \in S : <<m, n>> \notin less
  BY <1>1, WFMin
<1>4. ASSUME NEW m \in S PROVE n <= m
  <2>1. m \in Nat /\ n \in Nat /\ ~ (m < n)
    BY <1>2, <1>3
  <2>2. QED
    BY <2>1
<1>5. QED
  BY <1>4

\* The loop of arena_init doubles the size.
LEMMA SizesDouble ==
  /\ DOMAIN block_size = Desc
  /\ \A d \in Desc : block_size[d] = IF d = 1 THEN MIN_BLOCK ELSE 2 * block_size[d - 1]
<1> DEFINE Turn(f, d) == IF d = 1 THEN MIN_BLOCK ELSE 2 * f[d - 1]
           Upto(n) == \E f : f = [d \in 1 .. n |-> Turn(f, d)]
           S == {n \in Nat : Upto(n)}
<1>1. 0 \in S
  <2>1. <<>> = [d \in 1 .. 0 |-> Turn(<<>>, d)]
    OBVIOUS
  <2>2. QED
    BY <2>1
<1>2. ASSUME NEW n \in Nat, n \in S PROVE n + 1 \in S
  <2>1. PICK f : f = [d \in 1 .. n |-> Turn(f, d)]
    BY <1>2
  <2> DEFINE more == [d \in 1 .. n + 1 |-> IF d = n + 1 THEN Turn(f, n + 1) ELSE f[d]]
  <2>2. \A d \in 1 .. n : more[d] = f[d]
    OBVIOUS
  <2>3. ASSUME NEW d \in 1 .. n + 1 PROVE Turn(more, d) = Turn(f, d)
    <3>1. d # 1 => more[d - 1] = f[d - 1]
      BY <2>2
    <3> HIDE DEF more
    <3>2. QED
      BY <3>1
  <2>4. \A d \in 1 .. n : f[d] = Turn(f, d)
    BY <2>1
  <2>5. \A d \in 1 .. n + 1 : more[d] = Turn(f, d)
    BY <2>4
  <2>6. more = [d \in 1 .. n + 1 |-> more[d]]
    OBVIOUS
  <2> HIDE DEF more, Turn
  <2>7. more = [d \in 1 .. n + 1 |-> Turn(more, d)]
    BY <2>3, <2>5, <2>6
  <2>8. QED
    BY <2>7
<1>3. Upto(DESC_COUNT)
  <2> HIDE DEF Upto
  <2>1. \A n \in Nat : n \in S
    <3> HIDE DEF S
    <3>1. QED
      BY <1>1, <1>2, Induction
  <2>2. QED
    BY <2>1, ArenaAssumption
<1>4. block_size = [d \in Desc |-> Turn(block_size, d)]
  BY <1>3 DEF block_size, Desc
<1>5. QED
  BY <1>4

LEMMA BlockSizes ==
  \A d \in Desc : block_size[d] \in Nat \ {0} /\ block_size[d] <= LIMIT
<1> DEFINE S == {n \in Nat : n + 1 \in Desc => block_size[n + 1] \in Nat \ {0}}
           T == {n \in Nat : DESC_COUNT - n \in Desc => block_size[DESC_COUNT - n] <= LIMIT}
<1>0. DESC_COUNT \in Nat \ {0} /\ MIN_BLOCK \in Nat \ {0}
  BY ArenaAssumption
<1>1. \A n \in Nat : n \in S
  <2>1. 0 \in S
    BY <1>0, SizesDouble
  <2>2. ASSUME NEW n \in Nat, n \in S PROVE n + 1 \in S
    <3>1. SUFFICES ASSUME n + 2 \in Desc PROVE block_size[n + 2] \in Nat \ {0}
      OBVIOUS
    <3>2. n + 1 \in Desc /\ n + 2 # 1 /\ (n + 2) - 1 = n + 1
      BY <1>0, <3>1 DEF Desc
    <3>3. block_size[n + 1] \in Nat \ {0}
      BY <2>2, <3>2
    <3>4. block_size[n + 2] = 2 * block_size[n + 1]
      BY <3>1, <3>2, SizesDouble
    <3>5. QED
      BY <3>3, <3>4
  <2> HIDE DEF S
  <2>3. QED
    BY <2>1, <2>2, Induction
<1>2. \A d \in Desc : block_size[d] \in Nat \ {0}
  <2>1. SUFFICES ASSUME NEW d \in Desc PROVE block_size[d] \in Nat \ {0}
    OBVIOUS
  <2>2. d - 1 \in Nat /\ (d - 1) + 1 = d
    BY DEF Desc
  <2>3. QED
    BY <1>1, <2>2
<1>3. \A n \in Nat : n \in T
  <2>1. 0 \in T
    BY <1>0, <1>2 DEF LIMIT, Desc
  <2>2. ASSUME NEW n \in Nat, n \in T PROVE n + 1 \in T
    <3> DEFINE d == DESC_COUNT - n
    <3>1. SUFFICES ASSUME d - 1 \in Desc PROVE block_size[d - 1] <= LIMIT
      BY <1>0
    <3>2. d \in Desc /\ d # 1
      BY <1>0, <3>1 DEF Desc
    <3>3. block_size[d] <= LIMIT /\ block_size[d] = 2 * block_size[d - 1]
      BY <2>2, <3>2, SizesDouble
    <3>4. block_size[d - 1] \in Nat /\ LIMIT \in Nat
      BY <1>0, <1>2, <3>1 DEF LIMIT, Desc
    <3>5. QED
      BY <3>3, <3>4
  <2> HIDE DEF T
  <2>3. QED
    BY <2>1, <2>2, Induction
<1>4. ASSUME NEW d \in Desc PROVE block_size[d] <= LIMIT
  <2>1. DESC_COUNT - d \in Nat /\ DESC_COUNT - (DESC_COUNT - d) = d
    BY <1>0 DEF Desc
  <2>2. QED
    BY <1>3, <2>1
<1>5. QED
  BY <1>2, <1>4

\* DescFor finds the first size that is large enough.
LEMMA DescForFits ==
  ASSUME NEW size \in Nat, size <= LIMIT
  PROVE  DescFor(size) \in Desc /\ size <= block_size[DescFor(size)]
<1> DEFINE S == {d \in Desc : block_size[d] >= size}
<1>1. DESC_COUNT \in S
  BY BlockSizes, ArenaAssumption DEF LIMIT, Desc
<1>2. S \subseteq Nat
  BY DEF Desc
<1>3. PICK d \in S : \A e \in S : d <= e
  BY <1>1, <1>2, Least
<1>4. \A e \in 1 .. d - 1 : block_size[e] < size
  <2>1. SUFFICES ASSUME NEW e \in 1 .. d - 1 PROVE block_size[e] < size
    OBVIOUS
  <2>2. e \in Desc /\ e < d
    BY <1>3, ArenaAssumption DEF Desc
  <2>3. e \notin S
    BY <1>2, <1>3, <2>2 DEF Desc
  <2>4. block_size[e] \in Nat
    BY <2>2, BlockSizes
  <2>5. QED
    BY <2>2, <2>3, <2>4
<1>5. \E e \in Desc : block_size[e] >= size /\ \A f \in 1 .. e - 1 : block_size[f] < size
  BY <1>3, <1>4
<1>6. QED
  BY <1>5, BlockSizes DEF DescFor

-----------------------------------------------------------------------------
(* Pages, blocks and addresses.                                             *)

\* The number with quotient p and rest k.
LEMMA Quotient ==
  ASSUME NEW b \in Nat, NEW p \in Int, NEW k \in 0 .. b - 1, p * b + k \in Nat
  PROVE  (p * b + k) \div b = p /\ (p * b + k) % b = k
<1> DEFINE n == p * b + k
           q == n \div b
           r == n % b
<1>1. q \in Int /\ r \in 0 .. b - 1 /\ n = b * q + r
  <2>1. n \in Nat /\ b > 0
    OBVIOUS
  <2> HIDE DEF n
  <2>2. QED
    BY <2>1, Division
<1> HIDE DEF q, r
<1> DEFINE m == q - p
<1>2. m \in Int /\ b * m = k - r
  BY <1>1
<1>3. b * m < b /\ b * m > - b
  BY <1>1, <1>2
<1> HIDE DEF m
<1>4. m = 0
  <2>1. ~ (m >= 1)
    <3>1. SUFFICES ASSUME m >= 1 PROVE b * m >= b
      BY <1>2, <1>3
    <3>2. QED
      BY <1>2, <3>1
  <2>2. ~ (m <= -1)
    <3>1. SUFFICES ASSUME m <= -1 PROVE b * m <= - b
      BY <1>2, <1>3
    <3>2. QED
      BY <1>2, <3>1
  <2>3. QED
    BY <1>2, <2>1, <2>2
<1>5. q = p /\ r = k
  BY <1>1, <1>2, <1>4 DEF m
<1>6. QED
  BY <1>5 DEF q, r, n

LEMMA PageIsNat == Page \subseteq Nat /\ PAGE_SIZE \in Nat \ {0} /\ HEADER \in Nat \ {0}
  BY SizeIsNat, BitmapAssumption, ArenaAssumption DEF Page

LEMMA HeaderFits == HEADER < PAGE_SIZE
  BY BlockSizes, LimitFits, ArenaAssumption DEF LIMIT, Desc

LEMMA PageAddress ==
  ASSUME NEW p \in Nat, NEW k \in 0 .. PAGE_SIZE - 1
  PROVE  /\ p * PAGE_SIZE + k \in Nat
         /\ (p * PAGE_SIZE + k) \div PAGE_SIZE = p
         /\ (p * PAGE_SIZE + k) % PAGE_SIZE = k
<1>1. PAGE_SIZE \in Nat
  BY ArenaAssumption
<1>2. p * PAGE_SIZE + k \in Nat
  BY <1>1
<1>3. QED
  BY <1>1, <1>2, Quotient

\* A page has room for at least one block of every size.
LEMMA TotalBlock ==
  ASSUME NEW d \in Desc
  PROVE  /\ total_block(d) \in Nat /\ total_block(d) >= 1
         /\ total_block(d) * block_size[d] <= PAGE_SIZE - HEADER
<1> DEFINE n == PAGE_SIZE - HEADER
           b == block_size[d]
           q == n \div b
<1>1. n \in Nat /\ b \in Nat /\ b > 0 /\ b <= n
  <2>1. LIMIT \in Nat
    BY BlockSizes, ArenaAssumption DEF LIMIT, Desc
  <2>2. QED
    BY <2>1, BlockSizes, LimitFits, ArenaAssumption
<1>2. q \in Int /\ n % b \in 0 .. b - 1 /\ n = b * q + (n % b)
  <2> HIDE DEF n, b
  <2>1. QED
    BY <1>1, Division
<1> DEFINE r == n % b
<1>3. q \in Int /\ r \in 0 .. b - 1 /\ n = b * q + r
  BY <1>2
<1> HIDE DEF r, n, b, q
<1>4. q >= 1
  <2>1. SUFFICES ASSUME q <= 0 PROVE FALSE
    BY <1>3
  <2>2. b * q \in Int /\ b * q <= 0
    BY <1>1, <1>3, <2>1
  <2>3. QED
    BY <1>1, <1>3, <2>2
<1>5. q * b <= n
  <2>1. q * b \in Int /\ q * b = b * q
    BY <1>1, <1>3
  <2>2. QED
    BY <1>1, <1>3, <2>1
<1>6. total_block(d) = q
  BY DEF total_block, q, n, b
<1>7. QED
  BY <1>3, <1>4, <1>5, <1>6 DEF n, b

\* The blocks of a page lie behind its header, inside the page, one behind the other.
LEMMA BlocksOfPage ==
  ASSUME NEW p \in Nat, NEW d \in Desc, NEW i \in 0 .. total_block(d) - 1
  PROVE  LET a == get_arena_block(p, d, i)
         IN /\ a \in Nat /\ get_block_arena(a) = p /\ a % PAGE_SIZE # 0
            /\ p * PAGE_SIZE + HEADER <= a /\ a + block_size[d] <= p * PAGE_SIZE + PAGE_SIZE
            /\ \A j \in 0 .. total_block(d) - 1 :
                 i < j => a + block_size[d] <= get_arena_block(p, d, j)
<1> DEFINE b == block_size[d]
           t == total_block(d)
           k == HEADER + i * b
           a == get_arena_block(p, d, i)
<1>0. b \in Nat /\ b > 0 /\ t \in Nat /\ t * b <= PAGE_SIZE - HEADER
      /\ PAGE_SIZE \in Nat /\ HEADER \in Nat /\ HEADER > 0
  BY BlockSizes, TotalBlock, ArenaAssumption
<1>1. i \in Nat /\ i + 1 <= t
  BY <1>0
<1> HIDE DEF b, t
<1>2. i * b \in Nat /\ i * b + b <= PAGE_SIZE - HEADER
  <2>1. (i + 1) * b = i * b + b
    BY <1>0, <1>1
  <2>2. (i + 1) * b <= t * b
    BY <1>0, <1>1
  <2>3. t * b \in Nat /\ i * b \in Nat
    BY <1>0, <1>1
  <2>4. QED
    BY <1>0, <2>1, <2>2, <2>3
<1>3. k \in 0 .. PAGE_SIZE - 1 /\ k # 0 /\ k + b <= PAGE_SIZE /\ HEADER <= k
  BY <1>0, <1>2
<1>4. p * PAGE_SIZE \in Nat
  BY <1>0
<1>5. a = p * PAGE_SIZE + k
  BY <1>0, <1>2, <1>4 DEF get_arena_block, b
<1>6. a \in Nat /\ a \div PAGE_SIZE = p /\ a % PAGE_SIZE = k
  <2> HIDE DEF k, a
  <2>1. QED
    BY <1>3, <1>5, PageAddress
<1>7. ASSUME NEW j \in 0 .. t - 1, i < j
      PROVE  a + b <= get_arena_block(p, d, j)
  <2>1. j \in Nat /\ i + 1 <= j
    BY <1>0, <1>1, <1>7
  <2>2. (i + 1) * b <= j * b /\ (i + 1) * b = i * b + b /\ j * b \in Nat
    BY <1>0, <1>1, <2>1
  <2>3. get_arena_block(p, d, j) = p * PAGE_SIZE + HEADER + j * b
    BY DEF get_arena_block, b
  <2>4. QED
    BY <1>0, <1>2, <1>4, <1>5, <2>2, <2>3
<1>8. QED
  <2>1. get_block_arena(a) = p
    BY <1>6 DEF get_block_arena
  <2> HIDE DEF k, a
  <2>2. QED
    BY <1>0, <1>3, <1>4, <1>5, <1>6, <1>7, <2>1 DEF b, t, a

LEMMA BlockOfPage ==
  ASSUME NEW p \in Nat, NEW d \in Desc, NEW a \in Blocks(p, d)
  PROVE  /\ a \in Nat /\ get_block_arena(a) = p /\ a % PAGE_SIZE # 0
         /\ p * PAGE_SIZE + HEADER <= a /\ a + block_size[d] <= p * PAGE_SIZE + PAGE_SIZE
         /\ \A c \in Blocks(p, d) :
              a # c => a + block_size[d] <= c \/ c + block_size[d] <= a
<1>1. PICK i \in 0 .. total_block(d) - 1 : a = get_arena_block(p, d, i)
  BY DEF Blocks
<1>2. ASSUME NEW c \in Blocks(p, d), a # c
      PROVE  a + block_size[d] <= c \/ c + block_size[d] <= a
  <2>1. PICK j \in 0 .. total_block(d) - 1 : c = get_arena_block(p, d, j)
    BY DEF Blocks
  <2>2. i \in Int /\ j \in Int /\ i # j
    BY <1>1, <1>2, <2>1, TotalBlock
  <2>3. i < j \/ j < i
    BY <2>2
  <2>4. QED
    BY <1>1, <2>1, <2>3, BlocksOfPage
<1>3. QED
  BY <1>1, <1>2, BlocksOfPage

LEMMA BlocksCount ==
  ASSUME NEW p \in Nat, NEW d \in Desc
  PROVE  IsFiniteSet(Blocks(p, d)) /\ Cardinality(Blocks(p, d)) = total_block(d)
<1> DEFINE t == total_block(d)
           I == 0 .. t - 1
           f == [i \in I |-> get_arena_block(p, d, i)]
<1>1. t \in Nat /\ t >= 1
  BY TotalBlock
<1>2. IsFiniteSet(I) /\ Cardinality(I) = t
  <2> HIDE DEF t
  <2>1. QED
    BY <1>1, FS_Interval
<1>3. ASSUME NEW i \in I, NEW j \in I, f[i] = f[j] PROVE i = j
  <2>1. SUFFICES ASSUME i < j \/ j < i PROVE FALSE
    BY <1>1
  <2>2. /\ get_arena_block(p, d, i) \in Nat /\ get_arena_block(p, d, j) \in Nat
        /\ block_size[d] \in Nat /\ block_size[d] > 0
    BY BlocksOfPage, BlockSizes
  <2>3. \/ get_arena_block(p, d, i) + block_size[d] <= get_arena_block(p, d, j)
        \/ get_arena_block(p, d, j) + block_size[d] <= get_arena_block(p, d, i)
    BY <2>1, BlocksOfPage
  <2>4. get_arena_block(p, d, i) = get_arena_block(p, d, j)
    BY <1>3
  <2>5. QED
    BY <2>2, <2>3, <2>4
<1>4. f \in [I -> Blocks(p, d)]
  BY DEF Blocks
<1>5. \A a \in Blocks(p, d) : \E i \in I : f[i] = a
  BY DEF Blocks
<1> HIDE DEF f, I
<1>6. f \in Bijection(I, Blocks(p, d))
  BY <1>3, <1>4, <1>5 DEF Bijection, Injection, Surjection, IsInjective
<1>7. QED
  BY <1>2, <1>6, FS_Bijection DEF ExistsBijection, t

-----------------------------------------------------------------------------
(* Free lists.                                                              *)

\* the blocks of a new page
LEMMA PushedList ==
  ASSUME NEW p \in Nat, NEW d \in Desc
  PROVE  /\ Pushed(p, d) \in Seq(Nat) /\ Pushed(p, d) # << >>
         /\ IsInjective(Pushed(p, d)) /\ Range(Pushed(p, d)) = Blocks(p, d)
<1> DEFINE t == total_block(d)
           s == Pushed(p, d)
<1>1. t \in Nat /\ t >= 1
  BY TotalBlock
<1>2. \A i \in 1 .. t : t - i \in 0 .. t - 1
  BY <1>1
<1>3. DOMAIN s = 1 .. t /\ \A i \in 1 .. t : s[i] = get_arena_block(p, d, t - i)
  BY DEF Pushed
<1>4. s = [i \in 1 .. t |-> s[i]]
  BY DEF Pushed
<1>5. \A i \in 1 .. t : s[i] \in Nat
  BY <1>2, <1>3, BlocksOfPage
<1> HIDE DEF s
<1>6. s \in [1 .. t -> Nat]
  BY <1>4, <1>5
<1>7. s \in Seq(Nat) /\ Len(s) = t
  BY <1>1, <1>3, <1>6, SeqDef
<1>8. s # << >>
  BY <1>1, <1>7, EmptySeq
<1>9. IsInjective(s)
  <2>1. SUFFICES ASSUME NEW i \in 1 .. t, NEW j \in 1 .. t, s[i] = s[j] PROVE i = j
    BY <1>3 DEF IsInjective
  <2>2. SUFFICES ASSUME i # j PROVE FALSE
    OBVIOUS
  <2>3. t - i < t - j \/ t - j < t - i
    BY <1>1, <2>2
  <2>4. \/ s[i] + block_size[d] <= s[j]
        \/ s[j] + block_size[d] <= s[i]
    BY <1>2, <1>3, <2>3, BlocksOfPage
  <2>5. block_size[d] \in Nat /\ block_size[d] > 0
    BY BlockSizes
  <2>6. QED
    BY <1>5, <2>1, <2>4, <2>5
<1>10. Range(s) = Blocks(p, d)
  <2>1. ASSUME NEW i \in 0 .. t - 1 PROVE \E j \in 1 .. t : s[j] = get_arena_block(p, d, i)
    <3>1. t - i \in 1 .. t /\ t - (t - i) = i
      BY <1>1
    <3>2. QED
      BY <1>3, <3>1
  <2>2. QED
    BY <1>2, <1>3, <2>1 DEF Range, Blocks
<1>11. QED
  BY <1>7, <1>8, <1>9, <1>10 DEF s

LEMMA HeadTaken ==
  ASSUME NEW s \in Seq(Nat), s # << >>, IsInjective(s)
  PROVE  /\ Head(s) \in Range(s) /\ Tail(s) \in Seq(Nat) /\ IsInjective(Tail(s))
         /\ Range(Tail(s)) = Range(s) \ {Head(s)}
<1>1. /\ Len(s) \in Nat /\ Len(s) >= 1 /\ DOMAIN s = 1 .. Len(s) /\ Head(s) = s[1]
  BY LenProperties, EmptySeq
<1>2. /\ Tail(s) \in Seq(Nat) /\ Len(Tail(s)) = Len(s) - 1
      /\ \A i \in 1 .. Len(s) - 1 : Tail(s)[i] = s[i + 1]
  BY HeadTailProperties
<1>3. DOMAIN Tail(s) = 1 .. Len(s) - 1
  BY <1>2, LenProperties
<1>4. IsInjective(Tail(s))
  <2>1. SUFFICES ASSUME NEW i \in 1 .. Len(s) - 1, NEW j \in 1 .. Len(s) - 1,
                        Tail(s)[i] = Tail(s)[j]
                 PROVE  i = j
    BY <1>3 DEF IsInjective
  <2>2. i + 1 \in DOMAIN s /\ j + 1 \in DOMAIN s /\ s[i + 1] = s[j + 1]
    BY <1>1, <1>2, <2>1
  <2>3. i + 1 = j + 1
    BY <2>2 DEF IsInjective
  <2>4. QED
    BY <1>1, <2>3
<1>5. ASSUME NEW x PROVE x \in Range(Tail(s)) <=> x \in Range(s) /\ x # Head(s)
  <2>1. ASSUME NEW i \in 1 .. Len(s) - 1, x = Tail(s)[i]
        PROVE  x \in Range(s) /\ x # Head(s)
    <3>1. i + 1 \in DOMAIN s /\ x = s[i + 1] /\ i + 1 # 1 /\ 1 \in DOMAIN s
      BY <1>1, <1>2, <2>1
    <3>2. s[i + 1] # s[1]
      BY <3>1 DEF IsInjective
    <3>3. QED
      BY <1>1, <3>1, <3>2 DEF Range
  <2>2. ASSUME NEW i \in 1 .. Len(s), x = s[i], x # Head(s)
        PROVE  x \in Range(Tail(s))
    <3>1. i # 1
      BY <1>1, <2>2
    <3>2. i - 1 \in 1 .. Len(s) - 1 /\ (i - 1) + 1 = i
      BY <1>1, <3>1
    <3>3. x = Tail(s)[i - 1]
      BY <1>2, <2>2, <3>2
    <3>4. QED
      BY <1>3, <3>2, <3>3 DEF Range
  <2>3. QED
    BY <1>1, <1>3, <2>1, <2>2 DEF Range
<1>6. Head(s) \in Range(s)
  BY <1>1 DEF Range
<1>7. QED
  BY <1>2, <1>4, <1>5, <1>6

LEMMA PutInFront ==
  ASSUME NEW s \in Seq(Nat), IsInjective(s), NEW a \in Nat, a \notin Range(s)
  PROVE  /\ <<a>> \o s \in Seq(Nat) /\ IsInjective(<<a>> \o s)
         /\ Range(<<a>> \o s) = Range(s) \cup {a}
<1> DEFINE u == <<a>> \o s
<1>1. Len(s) \in Nat /\ DOMAIN s = 1 .. Len(s)
  BY LenProperties
<1>2. <<a>> \in Seq(Nat) /\ Len(<<a>>) = 1 /\ <<a>>[1] = a
  OBVIOUS
<1>3. /\ u \in Seq(Nat) /\ Len(u) = 1 + Len(s)
      /\ \A i \in 1 .. 1 + Len(s) : u[i] = IF i <= 1 THEN <<a>>[i] ELSE s[i - 1]
  BY <1>2, ConcatProperties
<1>4. u[1] = a /\ \A i \in 1 .. Len(s) : u[i + 1] = s[i]
  <2>1. u[1] = a
    BY <1>1, <1>2, <1>3
  <2>2. ASSUME NEW i \in 1 .. Len(s) PROVE u[i + 1] = s[i]
    <3>1. i + 1 \in 1 .. 1 + Len(s) /\ ~ (i + 1 <= 1) /\ (i + 1) - 1 = i
      BY <1>1
    <3> HIDE DEF u
    <3>2. QED
      BY <1>3, <3>1
  <2>3. QED
    BY <2>1, <2>2
<1>5. DOMAIN u = 1 .. 1 + Len(s)
  BY <1>3, LenProperties
<1> HIDE DEF u
<1>6. \A i \in DOMAIN u : i = 1 \/ (i - 1 \in 1 .. Len(s) /\ u[i] = s[i - 1])
  BY <1>1, <1>3, <1>5
<1>7. IsInjective(u)
  <2>1. SUFFICES ASSUME NEW i \in DOMAIN u, NEW j \in DOMAIN u, u[i] = u[j] PROVE i = j
    BY DEF IsInjective
  <2>2. i \in Int /\ j \in Int
    BY <1>1, <1>5
  <2>3. CASE i # 1 /\ j # 1
    <3>1. s[i - 1] = s[j - 1] /\ i - 1 \in DOMAIN s /\ j - 1 \in DOMAIN s
      BY <1>1, <1>6, <2>1, <2>3
    <3>2. i - 1 = j - 1
      BY <3>1 DEF IsInjective
    <3>3. QED
      BY <2>2, <3>2
  <2>4. CASE i = 1 /\ j # 1
    BY <1>1, <1>4, <1>6, <2>1, <2>4 DEF Range
  <2>5. CASE i # 1 /\ j = 1
    BY <1>1, <1>4, <1>6, <2>1, <2>5 DEF Range
  <2>6. QED
    BY <2>3, <2>4, <2>5
<1>8. Range(u) = Range(s) \cup {a}
  <2>1. Range(u) \subseteq Range(s) \cup {a}
    BY <1>1, <1>4, <1>6 DEF Range
  <2>2. a \in Range(u)
    BY <1>1, <1>4, <1>5 DEF Range
  <2>3. ASSUME NEW i \in 1 .. Len(s) PROVE s[i] \in Range(u)
    <3>1. i + 1 \in DOMAIN u /\ u[i + 1] = s[i]
      BY <1>1, <1>4, <1>5
    <3>2. QED
      BY <3>1 DEF Range
  <2>4. QED
    BY <1>1, <2>1, <2>2, <2>3 DEF Range
<1>9. QED
  BY <1>3, <1>7, <1>8 DEF u

\* The loop of kfree that takes the blocks of an unused page out of their list.
WithoutTurn(left, n, list, blocks) ==
  IF n = 0 THEN <<>>
  ELSE IF list[n] \in blocks THEN left[n - 1] ELSE Append(left[n - 1], list[n])

LEMMA WithoutTurns ==
  ASSUME NEW list \in Seq(Nat), NEW blocks
  PROVE  \E left : /\ left = [n \in 0 .. Len(list) |-> WithoutTurn(left, n, list, blocks)]
                   /\ Without(list, blocks) = left[Len(list)]
<1> DEFINE Turn(f, n) == WithoutTurn(f, n, list, blocks)
           Upto(n) == \E f : f = [i \in 0 .. n |-> Turn(f, i)]
           S == {n \in Nat : Upto(n)}
<1>1. 0 \in S
  <2>1. [i \in {0} |-> <<>>] = [i \in 0 .. 0 |-> Turn([j \in {0} |-> <<>>], i)]
    BY DEF WithoutTurn
  <2>2. QED
    BY <2>1
<1>2. ASSUME NEW n \in Nat, n \in S PROVE n + 1 \in S
  <2>1. PICK f : f = [i \in 0 .. n |-> Turn(f, i)]
    BY <1>2
  <2> DEFINE more == [i \in 0 .. n + 1 |-> IF i = n + 1 THEN Turn(f, n + 1) ELSE f[i]]
  <2>2. \A i \in 0 .. n : more[i] = f[i]
    OBVIOUS
  <2>3. ASSUME NEW i \in 0 .. n + 1 PROVE Turn(more, i) = Turn(f, i)
    <3>1. i # 0 => more[i - 1] = f[i - 1]
      BY <2>2
    <3> HIDE DEF more
    <3>2. QED
      BY <3>1 DEF WithoutTurn
  <2>4. \A i \in 0 .. n : f[i] = Turn(f, i)
    BY <2>1
  <2>5. \A i \in 0 .. n + 1 : more[i] = Turn(f, i)
    BY <2>4
  <2>6. more = [i \in 0 .. n + 1 |-> more[i]]
    OBVIOUS
  <2> HIDE DEF more, Turn
  <2>7. more = [i \in 0 .. n + 1 |-> Turn(more, i)]
    BY <2>3, <2>5, <2>6
  <2>8. QED
    BY <2>7
<1>3. Upto(Len(list))
  <2> HIDE DEF Upto
  <2>1. \A n \in Nat : n \in S
    <3> HIDE DEF S
    <3>1. QED
      BY <1>1, <1>2, Induction
  <2>2. QED
    BY <2>1, LenProperties
<1>4. QED
  BY <1>3 DEF Without, WithoutTurn

LEMMA WithoutIsRest ==
  ASSUME NEW list \in Seq(Nat), IsInjective(list), NEW blocks
  PROVE  /\ Without(list, blocks) \in Seq(Nat) /\ IsInjective(Without(list, blocks))
         /\ Range(Without(list, blocks)) = Range(list) \ blocks
<1>1. PICK left : /\ left = [n \in 0 .. Len(list) |-> WithoutTurn(left, n, list, blocks)]
                  /\ Without(list, blocks) = left[Len(list)]
  BY WithoutTurns
<1>2. \A n \in 0 .. Len(list) : left[n] = WithoutTurn(left, n, list, blocks)
  BY <1>1
<1>3. Len(list) \in Nat /\ DOMAIN list = 1 .. Len(list) /\ \A i \in 1 .. Len(list) : list[i] \in Nat
  BY LenProperties
<1> DEFINE Rest(n) == {list[i] : i \in 1 .. n} \ blocks
           Good(n) == /\ left[n] \in Seq(Nat) /\ IsInjective(left[n])
                      /\ Range(left[n]) = Rest(n)
           S == {n \in Nat : n <= Len(list) => Good(n)}
<1>4. 0 \in S
  <2>1. left[0] = <<>>
    BY <1>2, <1>3 DEF WithoutTurn
  <2>2. Good(0)
    BY <2>1, EmptySeq DEF IsInjective, Range
  <2>3. QED
    BY <2>2
<1>5. ASSUME NEW n \in Nat, n \in S PROVE n + 1 \in S
  <2>1. SUFFICES ASSUME n + 1 <= Len(list) PROVE Good(n + 1)
    OBVIOUS
  <2>2. Good(n)
    BY <1>3, <1>5, <2>1
  <2>3. n + 1 \in 1 .. Len(list) /\ n + 1 \in 0 .. Len(list) /\ n + 1 # 0 /\ (n + 1) - 1 = n
    BY <1>3, <2>1
  <2>4. left[n + 1] = IF list[n + 1] \in blocks THEN left[n] ELSE Append(left[n], list[n + 1])
    BY <1>2, <2>3 DEF WithoutTurn
  <2>5. {list[i] : i \in 1 .. n + 1} = {list[i] : i \in 1 .. n} \cup {list[n + 1]}
    <3>1. 1 .. n + 1 = (1 .. n) \cup {n + 1}
      OBVIOUS
    <3>2. QED
      BY <3>1
  <2> DEFINE x == list[n + 1]
             u == left[n]
  <2>6. CASE x \in blocks
    BY <2>2, <2>4, <2>5, <2>6
  <2>7. CASE x \notin blocks
    <3>1. u \in Seq(Nat) /\ IsInjective(u) /\ Range(u) = Rest(n) /\ x \in Nat
      BY <1>3, <2>2, <2>3
    <3>2. x \notin Range(u)
      <4>1. \A i \in 1 .. n : i \in DOMAIN list /\ n + 1 \in DOMAIN list /\ i # n + 1
        BY <1>3, <2>3
      <4>2. \A i \in 1 .. n : list[i] # list[n + 1]
        BY <4>1 DEF IsInjective
      <4>3. QED
        BY <3>1, <4>2
    <3>3. Rest(n + 1) = Rest(n) \cup {x}
      BY <2>5, <2>7
    <3> HIDE DEF x, u, Rest
    <3>4. left[n + 1] = Append(u, x)
      BY <2>4, <2>7 DEF x, u
    <3>5. /\ Append(u, x) \in Seq(Nat) /\ Len(Append(u, x)) = Len(u) + 1 /\ Len(u) \in Nat
          /\ \A i \in 1 .. Len(u) : Append(u, x)[i] = u[i]
          /\ Append(u, x)[Len(u) + 1] = x
      BY <3>1, AppendProperties, LenProperties
    <3> DEFINE w == Append(u, x)
    <3>6. DOMAIN w = 1 .. Len(u) + 1 /\ DOMAIN u = 1 .. Len(u)
      BY <3>1, <3>5, LenProperties
    <3>7. \A i \in DOMAIN w : (i = Len(u) + 1 /\ w[i] = x) \/ (i \in DOMAIN u /\ w[i] = u[i])
      BY <3>5, <3>6
    <3>8. DOMAIN u \subseteq DOMAIN w /\ Len(u) + 1 \in DOMAIN w
      BY <3>5, <3>6
    <3>9. w \in Seq(Nat)
      BY <3>5
    <3>10. w[Len(u) + 1] = x /\ \A i \in DOMAIN u : w[i] = u[i]
      BY <3>5, <3>6
    <3> HIDE DEF w
    <3>11. IsInjective(w)
      BY <3>1, <3>2, <3>7 DEF IsInjective, Range
    <3>12. Range(w) = Range(u) \cup {x}
      BY <3>7, <3>8, <3>10 DEF Range
    <3>13. QED
      BY <3>1, <3>3, <3>4, <3>9, <3>11, <3>12 DEF w
  <2>8. QED
    BY <2>6, <2>7
<1> HIDE DEF S
<1>6. \A n \in Nat : n \in S
  BY <1>4, <1>5, Induction
<1>7. Good(Len(list))
  <2>1. Len(list) \in S
    BY <1>3, <1>6
  <2> HIDE DEF Good
  <2>2. QED
    BY <1>3, <2>1 DEF S
<1>8. Rest(Len(list)) = Range(list) \ blocks
  BY <1>3 DEF Range
<1>9. QED
  BY <1>1, <1>7, <1>8

-----------------------------------------------------------------------------
(* Who has what in the heap.  The runs of pages that somebody holds, the       *)
(* headers ar and the blocks g of callers say of each block what it is: whole  *)
(* pages, a large block behind a header, or one of those a page was cut into.  *)

PagesOf(r) == Allocator!Pages(r.index, r.count)
OnePage(p) == [index |-> p, count |-> 1]

GoodRuns(runs) ==
  /\ runs \subseteq Allocator!Run
  /\ \A r \in runs : PagesOf(r) \subseteq Page
  /\ \A r, s \in runs : r # s => PagesOf(r) \cap PagesOf(s) = {}

\* RunOf, for any headers
RunIn(ar, b) ==
  LET p == get_block_arena(b.addr)
  IN IF IsPage(b) THEN PageRun(b)
     ELSE [index |-> p, count |-> IF ar[p].large THEN ar[p].count ELSE 1]

Whole(runs, ar, b) ==
  \E r \in runs : /\ b.addr = r.index * PAGE_SIZE /\ b.size = r.count * PAGE_SIZE
                  /\ \A q \in PagesOf(r) : ar[q].desc = NoDesc

Large(runs, ar, b) ==
  \E r \in runs : /\ b.addr = r.index * PAGE_SIZE + HEADER
                  /\ b.size \in Request /\ HEADER + b.size <= r.count * PAGE_SIZE
                  /\ ar[r.index].large /\ ar[r.index].count = r.count
                  /\ \A q \in PagesOf(r) : ar[q].desc = NoDesc

Small(runs, ar, b) ==
  \E p \in Page : /\ OnePage(p) \in runs /\ ~ ar[p].large /\ ar[p].desc \in Desc
                  /\ b.addr \in Blocks(p, ar[p].desc)
                  /\ b.size \in Request /\ b.size <= block_size[ar[p].desc]

Kind(runs, ar, b) == Whole(runs, ar, b) \/ Large(runs, ar, b) \/ Small(runs, ar, b)

\* A run that is held is that of a block, and of more than one only when it is a page that
\* was cut.
Sound(runs, ar, g) ==
  /\ \A b \in g : Kind(runs, ar, b)
  /\ runs = {RunIn(ar, b) : b \in g}
  /\ \A b, c \in g : b # c /\ RunIn(ar, b) = RunIn(ar, c) =>
                       Small(runs, ar, b) /\ b.addr # c.addr

\* the pages cut into blocks of size d, and the addresses callers have
CutOf(runs, ar, d) == {p \in Page : OnePage(p) \in runs /\ ar[p].desc = d}
Taken(g) == {b.addr : b \in g}

\* The free list of a size is what is left of its pages.
Exact(runs, ar, g, list, d) ==
  /\ list \in Seq(Nat) /\ IsInjective(list)
  /\ Range(list) = (UNION {Blocks(p, d) : p \in CutOf(runs, ar, d)}) \ Taken(g)
  /\ \A p \in CutOf(runs, ar, d) : ar[p].count = Cardinality(Blocks(p, d) \ Taken(g))

Heaped(runs, ar, g, lists) ==
  /\ Sound(runs, ar, g)
  /\ \A d \in Desc : Exact(runs, ar, g, lists[d], d)

Header == [large : BOOLEAN, count : Int, desc : Desc \cup {NoDesc}]

-----------------------------------------------------------------------------
(* Blocks and their runs.                                                   *)

LEMMA RunPages ==
  ASSUME NEW runs, GoodRuns(runs), NEW r \in runs
  PROVE  /\ r.index \in PagesOf(r) /\ r.index \in Page /\ r.index \in Nat
         /\ r.count \in Nat /\ r.count >= 1 /\ r = [index |-> r.index, count |-> r.count]
         /\ PagesOf(r) \subseteq Page
<1>1. r \in Allocator!Run
  BY DEF GoodRuns
<1>2. r.index \in Page /\ r.count \in 1 .. MaxCount /\ r = [index |-> r.index, count |-> r.count]
  BY <1>1 DEF Allocator!Run
<1>3. r.index \in Nat /\ r.count \in Nat /\ r.count >= 1
  BY <1>2, PageIsNat, BitmapAssumption
<1>4. r.index \in PagesOf(r)
  BY <1>3 DEF PagesOf, Allocator!Pages
<1>5. QED
  BY <1>2, <1>3, <1>4 DEF GoodRuns

LEMMA WholeKind ==
  ASSUME NEW runs, GoodRuns(runs), NEW ar, NEW b, NEW r \in runs,
         b.addr = r.index * PAGE_SIZE, b.size = r.count * PAGE_SIZE
  PROVE  IsPage(b) /\ RunIn(ar, b) = r /\ get_block_arena(b.addr) = r.index
<1>1. /\ r.index \in Nat /\ r.count \in Nat /\ r = [index |-> r.index, count |-> r.count]
      /\ PAGE_SIZE \in Nat \ {0}
  BY RunPages, PageIsNat
<1>2. \A n \in Nat : n * PAGE_SIZE + 0 = n * PAGE_SIZE
  BY <1>1
<1>3. 0 \in 0 .. PAGE_SIZE - 1
  BY <1>1
<1>4. \A n \in Nat : (n * PAGE_SIZE) \div PAGE_SIZE = n /\ (n * PAGE_SIZE) % PAGE_SIZE = 0
  BY <1>2, <1>3, PageAddress
<1>5. IsPage(b) /\ get_block_arena(b.addr) = r.index /\ b.size \div PAGE_SIZE = r.count
  BY <1>1, <1>4 DEF IsPage, get_block_arena
<1>6. QED
  BY <1>1, <1>5 DEF RunIn, PageRun

LEMMA LargeKind ==
  ASSUME NEW runs, GoodRuns(runs), NEW ar, NEW b, NEW r \in runs,
         b.addr = r.index * PAGE_SIZE + HEADER,
         ar[r.index].large, ar[r.index].count = r.count
  PROVE  ~ IsPage(b) /\ RunIn(ar, b) = r /\ get_block_arena(b.addr) = r.index
<1>1. /\ r.index \in Nat /\ r = [index |-> r.index, count |-> r.count]
      /\ PAGE_SIZE \in Nat \ {0} /\ HEADER \in Nat \ {0} /\ HEADER < PAGE_SIZE
  BY RunPages, PageIsNat, HeaderFits
<1>2. HEADER \in 0 .. PAGE_SIZE - 1 /\ HEADER # 0
  BY <1>1
<1>3. b.addr \div PAGE_SIZE = r.index /\ b.addr % PAGE_SIZE # 0
  BY <1>1, <1>2, PageAddress
<1>4. QED
  BY <1>1, <1>3 DEF IsPage, get_block_arena, RunIn

LEMMA SmallKind ==
  ASSUME NEW ar, NEW b, NEW p \in Page, NEW d \in Desc, b.addr \in Blocks(p, d), ~ ar[p].large
  PROVE  ~ IsPage(b) /\ RunIn(ar, b) = OnePage(p) /\ get_block_arena(b.addr) = p
<1>1. get_block_arena(b.addr) = p /\ b.addr % PAGE_SIZE # 0
  BY BlockOfPage, PageIsNat
<1>2. QED
  BY <1>1 DEF IsPage, RunIn, OnePage

LEMMA OnePageOf ==
  ASSUME NEW p \in Page
  PROVE  PagesOf(OnePage(p)) = {p}
  BY PageIsNat DEF PagesOf, OnePage, Allocator!Pages

\* A block lies in the first page of its run.
LEMMA KindRun ==
  ASSUME NEW runs, GoodRuns(runs), NEW ar, NEW b, Kind(runs, ar, b)
  PROVE  /\ RunIn(ar, b) \in runs /\ get_block_arena(b.addr) = RunIn(ar, b).index
         /\ get_block_arena(b.addr) \in PagesOf(RunIn(ar, b))
<1>1. CASE Whole(runs, ar, b)
  BY <1>1, WholeKind, RunPages DEF Whole
<1>2. CASE Large(runs, ar, b)
  <2>1. PICK r \in runs : /\ b.addr = r.index * PAGE_SIZE + HEADER
                          /\ ar[r.index].large /\ ar[r.index].count = r.count
    BY <1>2 DEF Large
  <2>2. RunIn(ar, b) = r /\ get_block_arena(b.addr) = r.index
    BY <2>1, LargeKind
  <2>3. QED
    BY <2>1, <2>2, RunPages
<1>3. CASE Small(runs, ar, b)
  <2>1. PICK p \in Page : /\ OnePage(p) \in runs /\ ~ ar[p].large /\ ar[p].desc \in Desc
                          /\ b.addr \in Blocks(p, ar[p].desc)
    BY <1>3 DEF Small
  <2>2. RunIn(ar, b) = OnePage(p) /\ get_block_arena(b.addr) = p
    BY <2>1, SmallKind
  <2>3. QED
    BY <2>1, <2>2, OnePageOf DEF OnePage
<1>4. QED
  BY <1>1, <1>2, <1>3 DEF Kind

\* A block stays what it is as long as nobody changes the headers of its pages; the count
\* of a page that was cut may change.
LEMMA KindStays ==
  ASSUME NEW runs, GoodRuns(runs), NEW ar, NEW ar2, NEW more, NEW b, Kind(runs, ar, b),
         RunIn(ar, b) \in more,
         \A q \in PagesOf(RunIn(ar, b)) :
           /\ ar2[q].large = ar[q].large /\ ar2[q].desc = ar[q].desc
           /\ ar[q].large => ar2[q].count = ar[q].count
  PROVE  /\ RunIn(ar2, b) = RunIn(ar, b) /\ Kind(more, ar2, b)
         /\ Small(runs, ar, b) => Small(more, ar2, b)
<1> DEFINE r == RunIn(ar, b)
<1>1. RunIn(ar2, b) = RunIn(ar, b)
  BY KindRun DEF RunIn
<1>2. CASE Whole(runs, ar, b)
  <2>1. PICK s \in runs : /\ b.addr = s.index * PAGE_SIZE /\ b.size = s.count * PAGE_SIZE
                          /\ \A q \in PagesOf(s) : ar[q].desc = NoDesc
    BY <1>2 DEF Whole
  <2>2. s = r /\ IsPage(b)
    BY <2>1, WholeKind
  <2>3. Whole(more, ar2, b)
    BY <2>1, <2>2 DEF Whole
  <2>4. ~ Small(runs, ar, b)
    BY <2>2, SmallKind DEF Small
  <2>5. QED
    BY <1>1, <2>3, <2>4 DEF Kind
<1>3. CASE Large(runs, ar, b)
  <2>1. PICK s \in runs : /\ b.addr = s.index * PAGE_SIZE + HEADER
                          /\ b.size \in Request /\ HEADER + b.size <= s.count * PAGE_SIZE
                          /\ ar[s.index].large /\ ar[s.index].count = s.count
                          /\ \A q \in PagesOf(s) : ar[q].desc = NoDesc
    BY <1>3 DEF Large
  <2>2. s = r /\ get_block_arena(b.addr) = s.index
    BY <2>1, LargeKind
  <2>3. s.index \in PagesOf(s)
    BY RunPages
  <2>4. Large(more, ar2, b)
    BY <2>1, <2>2, <2>3 DEF Large
  <2>5. ~ Small(runs, ar, b)
    BY <2>1, <2>2, SmallKind DEF Small
  <2>6. QED
    BY <1>1, <2>4, <2>5 DEF Kind
<1>4. CASE Small(runs, ar, b)
  <2>1. PICK p \in Page : /\ OnePage(p) \in runs /\ ~ ar[p].large /\ ar[p].desc \in Desc
                          /\ b.addr \in Blocks(p, ar[p].desc)
                          /\ b.size \in Request /\ b.size <= block_size[ar[p].desc]
    BY <1>4 DEF Small
  <2>2. r = OnePage(p) /\ p \in PagesOf(r)
    BY <2>1, SmallKind, OnePageOf
  <2>3. Small(more, ar2, b)
    BY <2>1, <2>2 DEF Small
  <2>4. QED
    BY <1>1, <2>3 DEF Kind
<1>5. QED
  BY <1>2, <1>3, <1>4 DEF Kind

-----------------------------------------------------------------------------
(* What calls do to the blocks.                                              *)

LEMMA AcquireSound ==
  ASSUME NEW runs, GoodRuns(runs), NEW ar, NEW g, Sound(runs, ar, g),
         NEW r, r.index \in PagesOf(r), PagesOf(r) \cap Allocator!Used(runs) = {},
         NEW ar2, \A q \in Page \ PagesOf(r) : ar2[q] = ar[q],
         NEW b, RunIn(ar2, b) = r, Kind({r}, ar2, b)
  PROVE  Sound(runs \cup {r}, ar2, g \cup {b})
<1>1. \A s \in runs : PagesOf(s) \cap PagesOf(r) = {} /\ PagesOf(s) \subseteq Page
  BY DEF Allocator!Used, PagesOf, GoodRuns
<1>2. r \notin runs
  BY <1>1
<1>3. ASSUME NEW c \in g
      PROVE  /\ RunIn(ar2, c) = RunIn(ar, c) /\ RunIn(ar, c) \in runs
             /\ Kind(runs \cup {r}, ar2, c)
             /\ Small(runs, ar, c) => Small(runs \cup {r}, ar2, c)
  <2>1. Kind(runs, ar, c) /\ RunIn(ar, c) \in runs
    BY DEF Sound
  <2>2. \A q \in PagesOf(RunIn(ar, c)) : ar2[q] = ar[q]
    BY <1>1, <2>1
  <2>3. QED
    BY <2>1, <2>2, KindStays
<1>4. Kind(runs \cup {r}, ar2, b)
  BY DEF Kind, Whole, Large, Small
<1>5. runs \cup {r} = {RunIn(ar2, c) : c \in g \cup {b}}
  BY <1>3 DEF Sound
<1>6. ASSUME NEW c \in g \cup {b}, NEW e \in g \cup {b}, c # e, RunIn(ar2, c) = RunIn(ar2, e)
      PROVE  Small(runs \cup {r}, ar2, c) /\ c.addr # e.addr
  <2>1. c \in g /\ e \in g
    BY <1>2, <1>3, <1>6
  <2>2. QED
    BY <1>3, <1>6, <2>1 DEF Sound
<1>7. QED
  BY <1>3, <1>4, <1>5, <1>6 DEF Sound

LEMMA ReleaseSound ==
  ASSUME NEW runs, GoodRuns(runs), NEW ar, NEW g, Sound(runs, ar, g), NEW b \in g,
         \A c \in g \ {b} : RunIn(ar, c) # RunIn(ar, b),
         NEW ar2, \A q \in Page \ PagesOf(RunIn(ar, b)) : ar2[q] = ar[q]
  PROVE  Sound(runs \ {RunIn(ar, b)}, ar2, g \ {b})
<1> DEFINE r == RunIn(ar, b)
<1>1. r \in runs
  BY DEF Sound
<1>2. ASSUME NEW c \in g \ {b}
      PROVE  /\ RunIn(ar2, c) = RunIn(ar, c) /\ RunIn(ar, c) \in runs \ {r}
             /\ Kind(runs \ {r}, ar2, c)
             /\ Small(runs, ar, c) => Small(runs \ {r}, ar2, c)
  <2>1. Kind(runs, ar, c) /\ RunIn(ar, c) \in runs \ {r}
    BY DEF Sound
  <2>2. PagesOf(RunIn(ar, c)) \subseteq Page \ PagesOf(r)
    BY <1>1, <2>1 DEF GoodRuns
  <2>3. \A q \in PagesOf(RunIn(ar, c)) : ar2[q] = ar[q]
    BY <2>2
  <2> HIDE DEF r
  <2>4. QED
    BY <2>1, <2>3, KindStays
<1>3. runs \ {r} = {RunIn(ar2, c) : c \in g \ {b}}
  BY <1>2 DEF Sound
<1>4. ASSUME NEW c \in g \ {b}, NEW e \in g \ {b}, c # e, RunIn(ar2, c) = RunIn(ar2, e)
      PROVE  Small(runs \ {r}, ar2, c) /\ c.addr # e.addr
  BY <1>2, <1>4 DEF Sound
<1>5. QED
  BY <1>2, <1>3, <1>4 DEF Sound

\* Only counts of pages that were cut change.
LEMMA CountChanges ==
  ASSUME NEW runs, GoodRuns(runs), NEW ar, NEW ar2, NEW c, Kind(runs, ar, c),
         \A q \in Page : /\ ar2[q].large = ar[q].large /\ ar2[q].desc = ar[q].desc
                         /\ ar[q].large => ar2[q].count = ar[q].count
  PROVE  /\ RunIn(ar2, c) = RunIn(ar, c) /\ Kind(runs, ar2, c)
         /\ Small(runs, ar, c) => Small(runs, ar2, c)
<1>1. RunIn(ar, c) \in runs /\ PagesOf(RunIn(ar, c)) \subseteq Page
  BY KindRun DEF GoodRuns
<1>2. QED
  BY <1>1, KindStays

\* A page that was cut has small blocks of its size only, and one at least.
LEMMA CutIsSmall ==
  ASSUME NEW runs, GoodRuns(runs), NEW ar, NEW g, Sound(runs, ar, g), NEW d \in Desc,
         NEW p \in CutOf(runs, ar, d)
  PROVE  /\ p \in Page /\ OnePage(p) \in runs /\ ar[p].desc = d /\ ~ ar[p].large
         /\ \A b \in g : RunIn(ar, b) = OnePage(p) =>
              Small(runs, ar, b) /\ b.addr \in Blocks(p, d)
<1>1. p \in Page /\ OnePage(p) \in runs /\ ar[p].desc = d /\ ar[p].desc # NoDesc
  BY DEF CutOf, Desc, NoDesc
<1>2. p \in PagesOf(OnePage(p))
  BY <1>1, OnePageOf
<1>3. ASSUME NEW b \in g, RunIn(ar, b) = OnePage(p)
      PROVE  Small(runs, ar, b) /\ b.addr \in Blocks(p, d) /\ ~ ar[p].large
  <2>1. ~ Whole(runs, ar, b)
    <3>1. SUFFICES ASSUME NEW r \in runs, b.addr = r.index * PAGE_SIZE,
                          b.size = r.count * PAGE_SIZE, \A q \in PagesOf(r) : ar[q].desc = NoDesc
                   PROVE  FALSE
      BY DEF Whole
    <3>2. r = OnePage(p)
      BY <1>3, <3>1, WholeKind
    <3>3. QED
      BY <1>1, <1>2, <3>1, <3>2
  <2>2. ~ Large(runs, ar, b)
    <3>1. SUFFICES ASSUME NEW r \in runs, b.addr = r.index * PAGE_SIZE + HEADER,
                          ar[r.index].large, ar[r.index].count = r.count,
                          \A q \in PagesOf(r) : ar[q].desc = NoDesc
                   PROVE  FALSE
      BY DEF Large
    <3>2. r = OnePage(p)
      BY <1>3, <3>1, LargeKind
    <3>3. QED
      BY <1>1, <1>2, <3>1, <3>2
  <2>3. Small(runs, ar, b)
    BY <2>1, <2>2 DEF Sound, Kind
  <2>4. PICK q \in Page : /\ OnePage(q) \in runs /\ ~ ar[q].large /\ ar[q].desc \in Desc
                          /\ b.addr \in Blocks(q, ar[q].desc)
    BY <2>3 DEF Small
  <2>5. OnePage(q) = OnePage(p)
    BY <1>3, <2>4, SmallKind
  <2>6. q = p
    BY <2>5 DEF OnePage
  <2>7. QED
    BY <1>1, <2>3, <2>4, <2>6
<1>4. \E b \in g : RunIn(ar, b) = OnePage(p)
  BY <1>1 DEF Sound
<1>5. QED
  BY <1>1, <1>3, <1>4

\* A block of a page that was cut is the only thing there is at its address.
LEMMA BlockOfCut ==
  ASSUME NEW runs, GoodRuns(runs), NEW ar, NEW g, Sound(runs, ar, g), NEW d \in Desc,
         NEW p \in CutOf(runs, ar, d), NEW c \in g, c.addr \in Blocks(p, d)
  PROVE  RunIn(ar, c) = OnePage(p)
<1>1. p \in Page /\ OnePage(p) \in runs /\ p \in PagesOf(OnePage(p))
  BY CutIsSmall, OnePageOf
<1>2. get_block_arena(c.addr) = p
  BY <1>1, BlockOfPage, PageIsNat
<1>3. RunIn(ar, c) \in runs /\ p \in PagesOf(RunIn(ar, c))
  BY <1>2, KindRun DEF Sound
<1>4. QED
  BY <1>1, <1>3 DEF GoodRuns

LEMMA AddrsDiffer ==
  ASSUME NEW runs, GoodRuns(runs), NEW ar, NEW g, Sound(runs, ar, g),
         NEW b \in g, NEW c \in g, b # c
  PROVE  b.addr # c.addr
<1>1. SUFFICES ASSUME b.addr = c.addr PROVE FALSE
  OBVIOUS
<1>2. RunIn(ar, b) \in runs /\ get_block_arena(b.addr) \in PagesOf(RunIn(ar, b))
  BY KindRun DEF Sound
<1>3. RunIn(ar, c) \in runs /\ get_block_arena(c.addr) \in PagesOf(RunIn(ar, c))
  BY KindRun DEF Sound
<1>4. RunIn(ar, b) = RunIn(ar, c)
  BY <1>1, <1>2, <1>3 DEF GoodRuns
<1>5. QED
  BY <1>1, <1>4 DEF Sound

LEMMA TakenLess ==
  ASSUME NEW runs, GoodRuns(runs), NEW ar, NEW g, Sound(runs, ar, g), NEW b \in g
  PROVE  Taken(g \ {b}) = Taken(g) \ {b.addr}
  BY AddrsDiffer DEF Taken

LEMMA TakenMore ==
  ASSUME NEW g, NEW b
  PROVE  Taken(g \cup {b}) = Taken(g) \cup {b.addr}
  BY DEF Taken

\* A list is exact as long as nothing happens to its pages.
LEMMA ExactStays ==
  ASSUME NEW runs, NEW ar, NEW g, NEW list, NEW d, Exact(runs, ar, g, list, d),
         NEW runs2, NEW ar2, NEW g2, CutOf(runs2, ar2, d) = CutOf(runs, ar, d),
         \A p \in CutOf(runs, ar, d) : ar2[p].count = ar[p].count,
         \A p \in CutOf(runs, ar, d) : \A a \in Blocks(p, d) : a \in Taken(g2) <=> a \in Taken(g)
  PROVE  Exact(runs2, ar2, g2, list, d)
<1>1. \A p \in CutOf(runs, ar, d) : Blocks(p, d) \ Taken(g2) = Blocks(p, d) \ Taken(g)
  OBVIOUS
<1>2. (UNION {Blocks(p, d) : p \in CutOf(runs, ar, d)}) \ Taken(g2)
        = (UNION {Blocks(p, d) : p \in CutOf(runs, ar, d)}) \ Taken(g)
  OBVIOUS
<1>3. QED
  BY <1>1, <1>2 DEF Exact

LEMMA OtherPage ==
  ASSUME NEW q \in Page, NEW e \in Desc, NEW a, get_block_arena(a) # q
  PROVE  a \notin Blocks(q, e)
  BY BlockOfPage, PageIsNat

\* A block of a free list is given.
LEMMA GiveSmall ==
  ASSUME NEW runs, GoodRuns(runs), NEW ar \in [Page -> Header], NEW g,
         NEW lists \in [Desc -> Seq(Nat)], Heaped(runs, ar, g, lists),
         NEW size \in Request, NEW d \in Desc, size <= block_size[d], lists[d] # << >>
  PROVE  LET block == Head(lists[d])
             p == get_block_arena(block)
         IN /\ p \in Page
            /\ Heaped(runs, [ar EXCEPT ![p].count = @ - 1],
                      g \cup {[addr |-> block, size |-> size]}, [lists EXCEPT ![d] = Tail(@)])
<1> DEFINE block == Head(lists[d])
           p == get_block_arena(block)
           ar2 == [ar EXCEPT ![p].count = @ - 1]
           b == [addr |-> block, size |-> size]
           g2 == g \cup {b}
           lists2 == [lists EXCEPT ![d] = Tail(@)]
<1>1. Sound(runs, ar, g) /\ \A e \in Desc : Exact(runs, ar, g, lists[e], e)
  BY DEF Heaped
<1>2. /\ lists[d] \in Seq(Nat) /\ IsInjective(lists[d])
      /\ block \in Range(lists[d]) /\ Tail(lists[d]) \in Seq(Nat) /\ IsInjective(Tail(lists[d]))
      /\ Range(Tail(lists[d])) = Range(lists[d]) \ {block}
  BY <1>1, HeadTaken DEF Exact
<1>3. PICK q \in CutOf(runs, ar, d) : block \in Blocks(q, d) /\ block \notin Taken(g)
  BY <1>1, <1>2 DEF Exact
<1>4. q \in Page /\ p = q
  BY <1>3, BlockOfPage, PageIsNat DEF CutOf
<1> HIDE DEF p, block
<1>5. /\ p \in Page /\ OnePage(p) \in runs /\ ar[p].desc = d /\ ~ ar[p].large
      /\ \A c \in g : RunIn(ar, c) = OnePage(p) =>
           Small(runs, ar, c) /\ c.addr \in Blocks(p, d)
      /\ p \in CutOf(runs, ar, d)
  BY <1>1, <1>3, <1>4, CutIsSmall
<1>6. ar[p].count - 1 \in Int
  BY <1>5 DEF Header
<1>7. /\ ar2[p].desc = d /\ ~ ar2[p].large /\ ar2[p].count = ar[p].count - 1
      /\ \A u \in Page : u # p => ar2[u] = ar[u]
      /\ \A u \in Page : /\ ar2[u].large = ar[u].large /\ ar2[u].desc = ar[u].desc
                         /\ ar[u].large => ar2[u].count = ar[u].count
  BY <1>5, <1>6 DEF Header
<1>8. \A c \in g : /\ RunIn(ar2, c) = RunIn(ar, c) /\ Kind(runs, ar2, c)
                   /\ Small(runs, ar, c) => Small(runs, ar2, c)
  <2> HIDE DEF ar2
  <2>1. \A c \in g : Kind(runs, ar, c)
    BY <1>1 DEF Sound
  <2>2. \A u \in Page : /\ ar2[u].large = ar[u].large /\ ar2[u].desc = ar[u].desc
                        /\ ar[u].large => ar2[u].count = ar[u].count
    BY <1>7
  <2>3. QED
    BY <2>1, <2>2, CountChanges
<1>9. b.addr = block /\ b.size = size
  OBVIOUS
<1> HIDE DEF ar2, b
<1>10. Small(runs, ar2, b) /\ RunIn(ar2, b) = OnePage(p)
  <2>1. b.addr \in Blocks(p, d)
    BY <1>3, <1>4, <1>9
  <2>2. QED
    BY <1>5, <1>7, <1>9, <2>1, SmallKind DEF Small
<1>11. Sound(runs, ar2, g2)
  <2>1. \A c \in g2 : Kind(runs, ar2, c)
    BY <1>8, <1>10 DEF Kind
  <2>2. runs = {RunIn(ar2, c) : c \in g2}
    BY <1>1, <1>5, <1>8, <1>10 DEF Sound
  <2>3. \A c \in g : RunIn(ar2, c) = OnePage(p) => Small(runs, ar2, c) /\ c.addr # b.addr
    BY <1>3, <1>5, <1>8, <1>9 DEF Taken
  <2>4. QED
    BY <1>1, <1>8, <1>10, <2>1, <2>2, <2>3 DEF Sound
<1>12. \A e \in Desc : CutOf(runs, ar2, e) = CutOf(runs, ar, e)
  BY <1>7 DEF CutOf
<1>13. Taken(g2) = Taken(g) \cup {block}
  BY <1>9, TakenMore
<1>14. \A e \in Desc : \A u \in CutOf(runs, ar, e) : u # p =>
          ar2[u].count = ar[u].count /\ block \notin Blocks(u, e)
  <2>1. SUFFICES ASSUME NEW e \in Desc, NEW u \in CutOf(runs, ar, e), u # p
                 PROVE  ar2[u].count = ar[u].count /\ block \notin Blocks(u, e)
    OBVIOUS
  <2>2. u \in Page /\ get_block_arena(block) = p
    BY <2>1 DEF CutOf, p
  <2>3. QED
    BY <1>7, <2>1, <2>2, OtherPage
<1>15. ASSUME NEW e \in Desc PROVE Exact(runs, ar2, g2, lists2[e], e)
  <2>1. CASE e # d
    <3>1. \A u \in CutOf(runs, ar, e) : u # p
      BY <1>5, <2>1 DEF CutOf
    <3>2. lists2[e] = lists[e]
      BY <2>1
    <3> HIDE DEF g2, lists2
    <3>3. QED
      BY <1>1, <1>12, <1>13, <1>14, <3>1, <3>2, ExactStays
  <2>2. CASE e = d
    <3>1. lists2[d] = Tail(lists[d])
      OBVIOUS
    <3> HIDE DEF g2, lists2
    <3>2. Range(lists2[d]) = (UNION {Blocks(u, d) : u \in CutOf(runs, ar2, d)}) \ Taken(g2)
      BY <1>1, <1>2, <1>12, <1>13, <3>1 DEF Exact
    <3>3. ASSUME NEW u \in CutOf(runs, ar, d)
          PROVE  ar2[u].count = Cardinality(Blocks(u, d) \ Taken(g2))
      <4>1. CASE u = p
        <5> DEFINE left == Blocks(p, d) \ Taken(g)
        <5>1. IsFiniteSet(left)
          BY <1>5, PageIsNat, BlocksCount, FS_Difference
        <5>2. block \in left
          BY <1>3, <1>4
        <5>3. Cardinality(left \ {block}) = Cardinality(left) - 1
          BY <5>1, <5>2, FS_RemoveElement
        <5>4. Blocks(p, d) \ Taken(g2) = left \ {block}
          BY <1>13
        <5>5. Cardinality(left) = ar[p].count
          BY <1>1, <1>5 DEF Exact
        <5>6. QED
          BY <1>7, <4>1, <5>3, <5>4, <5>5
      <4>2. CASE u # p
        <5>1. Blocks(u, d) \ Taken(g2) = Blocks(u, d) \ Taken(g)
          BY <1>13, <1>14, <4>2
        <5>2. QED
          BY <1>1, <1>14, <4>2, <5>1 DEF Exact
      <4>3. QED
        BY <4>1, <4>2
    <3>4. QED
      BY <1>2, <1>12, <2>2, <3>1, <3>2, <3>3 DEF Exact
  <2>3. QED
    BY <2>1, <2>2
<1>16. Heaped(runs, ar2, g2, lists2)
  BY <1>11, <1>15 DEF Heaped
<1>17. QED
  BY <1>5, <1>16 DEF ar2, b, p, block

\* The callers have all but one of the blocks of a page exactly when its count says so.
LEMMA CountOfOne ==
  ASSUME NEW runs, GoodRuns(runs), NEW ar, NEW g, Sound(runs, ar, g), NEW d \in Desc,
         NEW p \in CutOf(runs, ar, d), ar[p].count = Cardinality(Blocks(p, d) \ Taken(g)),
         NEW b \in g, b.addr \in Blocks(p, d)
  PROVE  ar[p].count + 1 = total_block(d) <=> \A c \in g \ {b} : RunIn(ar, c) # OnePage(p)
<1> DEFINE B == Blocks(p, d)
           left == B \ Taken(g)
           t == total_block(d)
<1>1. IsFiniteSet(B) /\ Cardinality(B) = t /\ t \in Nat
  BY CutIsSmall, PageIsNat, BlocksCount, TotalBlock
<1>2. b.addr \in B /\ b.addr \in Taken(g)
  BY DEF Taken
<1>3. IsFiniteSet(B \ {b.addr}) /\ Cardinality(B \ {b.addr}) = t - 1
  <2> HIDE DEF B
  <2>1. QED
    BY <1>1, <1>2, FS_RemoveElement
<1>4. ASSUME \A c \in g \ {b} : RunIn(ar, c) # OnePage(p)
      PROVE  ar[p].count + 1 = t
  <2>1. \A c \in g \ {b} : c.addr \notin B
    BY <1>4, BlockOfCut
  <2>2. left = B \ {b.addr}
    BY <1>2, <2>1 DEF Taken
  <2>3. ar[p].count = Cardinality(left)
    OBVIOUS
  <2> HIDE DEF left, B, t
  <2>4. QED
    BY <1>1, <1>3, <2>2, <2>3
<1>5. ASSUME NEW c \in g \ {b}, RunIn(ar, c) = OnePage(p)
      PROVE  ar[p].count + 1 # t
  <2>1. c.addr \in B \ {b.addr} /\ c.addr \in Taken(g)
    BY <1>5, CutIsSmall, AddrsDiffer DEF Taken
  <2> DEFINE one == B \ {b.addr}
             two == one \ {c.addr}
  <2>2. IsFiniteSet(two) /\ Cardinality(two) = t - 1 - 1
    <3> HIDE DEF one, t
    <3>1. IsFiniteSet(one) /\ Cardinality(one) = t - 1 /\ c.addr \in one
      BY <1>3, <2>1 DEF one
    <3>2. QED
      BY <3>1, FS_RemoveElement
  <2>3. left \in SUBSET two
    BY <1>2, <2>1
  <2> HIDE DEF left, two
  <2>4. Cardinality(left) <= Cardinality(two) /\ IsFiniteSet(left)
    BY <2>2, <2>3, FS_Subset
  <2>5. Cardinality(left) \in Nat
    BY <2>4, FS_CardinalityType
  <2>6. ar[p].count = Cardinality(left)
    BY DEF left
  <2>7. QED
    BY <1>1, <2>2, <2>4, <2>5, <2>6
<1>6. QED
  BY <1>4, <1>5

\* The page of a small block.
LEMMA PageOfSmall ==
  ASSUME NEW runs, GoodRuns(runs), NEW ar, NEW g, Sound(runs, ar, g), NEW b \in g,
         Small(runs, ar, b)
  PROVE  LET p == get_block_arena(b.addr)
         IN /\ p \in Page /\ ar[p].desc \in Desc /\ p \in CutOf(runs, ar, ar[p].desc)
            /\ b.addr \in Blocks(p, ar[p].desc) /\ b.addr \in Nat /\ ~ IsPage(b)
            /\ RunIn(ar, b) = OnePage(p) /\ ~ ar[p].large
<1>1. PICK p \in Page : /\ OnePage(p) \in runs /\ ~ ar[p].large /\ ar[p].desc \in Desc
                        /\ b.addr \in Blocks(p, ar[p].desc)
  BY DEF Small
<1>2. get_block_arena(b.addr) = p /\ RunIn(ar, b) = OnePage(p) /\ ~ IsPage(b) /\ b.addr \in Nat
  BY <1>1, SmallKind, BlockOfPage, PageIsNat
<1>3. QED
  BY <1>1, <1>2 DEF CutOf

\* A block comes back to the free list.
LEMMA TakeSmall ==
  ASSUME NEW runs, GoodRuns(runs), NEW ar \in [Page -> Header], NEW g,
         NEW lists \in [Desc -> Seq(Nat)], Heaped(runs, ar, g, lists),
         NEW b \in g, Small(runs, ar, b),
         NEW p, p = get_block_arena(b.addr), NEW d, d = ar[p].desc,
         ar[p].count + 1 # total_block(d)
  PROVE  Heaped(runs, [ar EXCEPT ![p].count = @ + 1], g \ {b},
                [lists EXCEPT ![d] = <<b.addr>> \o @])
<1> DEFINE ar2 == [ar EXCEPT ![p].count = @ + 1]
           g2 == g \ {b}
           lists2 == [lists EXCEPT ![d] = <<b.addr>> \o @]
           a == b.addr
<1>1. Sound(runs, ar, g) /\ \A e \in Desc : Exact(runs, ar, g, lists[e], e)
  BY DEF Heaped
<1>2. /\ p \in Page /\ d \in Desc /\ p \in CutOf(runs, ar, d)
      /\ a \in Blocks(p, d) /\ a \in Nat
      /\ RunIn(ar, b) = OnePage(p) /\ ~ ar[p].large
  BY <1>1, PageOfSmall
<1>3. PICK c \in g \ {b} : RunIn(ar, c) = OnePage(p)
  <2>1. ar[p].count = Cardinality(Blocks(p, d) \ Taken(g))
    BY <1>1, <1>2 DEF Exact
  <2>2. QED
    BY <1>1, <1>2, <2>1, CountOfOne
<1>4. ar[p].count \in Int
  BY <1>2 DEF Header
<1>5. /\ ar2[p].desc = d /\ ar2[p].count = ar[p].count + 1
      /\ \A u \in Page : u # p => ar2[u] = ar[u]
      /\ \A u \in Page : /\ ar2[u].large = ar[u].large /\ ar2[u].desc = ar[u].desc
                         /\ ar[u].large => ar2[u].count = ar[u].count
  BY <1>2, <1>4 DEF Header
<1>6. Taken(g2) = Taken(g) \ {a}
  BY <1>1, TakenLess
<1> HIDE DEF ar2, g2
<1>7. \A e \in g : /\ RunIn(ar2, e) = RunIn(ar, e) /\ Kind(runs, ar2, e)
                   /\ Small(runs, ar, e) => Small(runs, ar2, e)
  <2>1. \A e \in g : Kind(runs, ar, e)
    BY <1>1 DEF Sound
  <2>2. \A u \in Page : /\ ar2[u].large = ar[u].large /\ ar2[u].desc = ar[u].desc
                        /\ ar[u].large => ar2[u].count = ar[u].count
    BY <1>5
  <2>3. QED
    BY <2>1, <2>2, CountChanges
<1>8. Sound(runs, ar2, g2)
  <2>1. runs = {RunIn(ar, e) : e \in g}
    BY <1>1 DEF Sound
  <2>2. {RunIn(ar, e) : e \in g} = {RunIn(ar2, e) : e \in g2}
    BY <1>2, <1>3, <1>7 DEF g2
  <2>3. QED
    BY <1>1, <1>7, <2>1, <2>2 DEF Sound, g2
<1>9. \A e \in Desc : CutOf(runs, ar2, e) = CutOf(runs, ar, e)
  BY <1>5 DEF CutOf
<1>10. \A e \in Desc : \A u \in CutOf(runs, ar, e) : u # p =>
          ar2[u].count = ar[u].count /\ a \notin Blocks(u, e)
  <2>1. SUFFICES ASSUME NEW e \in Desc, NEW u \in CutOf(runs, ar, e), u # p
                 PROVE  ar2[u].count = ar[u].count /\ a \notin Blocks(u, e)
    OBVIOUS
  <2>2. u \in Page /\ get_block_arena(a) # u
    BY <2>1 DEF CutOf
  <2> HIDE DEF a
  <2>3. QED
    BY <1>5, <2>1, <2>2, OtherPage
<1> HIDE DEF a
<1>11. ASSUME NEW e \in Desc PROVE Exact(runs, ar2, g2, lists2[e], e)
  <2>1. CASE e # d
    <3>1. \A u \in CutOf(runs, ar, e) : u # p
      BY <2>1 DEF CutOf
    <3>2. lists2[e] = lists[e]
      BY <2>1
    <3> HIDE DEF lists2
    <3>3. QED
      BY <1>1, <1>6, <1>9, <1>10, <3>1, <3>2, ExactStays
  <2>2. CASE e = d
    <3>0. /\ lists[d] \in Seq(Nat) /\ IsInjective(lists[d])
          /\ Range(lists[d]) = (UNION {Blocks(u, d) : u \in CutOf(runs, ar, d)}) \ Taken(g)
          /\ \A u \in CutOf(runs, ar, d) : ar[u].count = Cardinality(Blocks(u, d) \ Taken(g))
      BY <1>1, <1>2 DEF Exact
    <3>1. lists2[d] = <<a>> \o lists[d]
      BY <1>2 DEF a
    <3>2. a \in Taken(g)
      BY DEF Taken, a
    <3>3. /\ lists2[d] \in Seq(Nat) /\ IsInjective(lists2[d])
          /\ Range(lists2[d]) = Range(lists[d]) \cup {a}
      <4>1. a \notin Range(lists[d])
        BY <3>0, <3>2
      <4> HIDE DEF lists2
      <4>2. QED
        BY <1>2, <3>0, <3>1, <4>1, PutInFront
    <3> HIDE DEF lists2
    <3>4. Range(lists2[d]) = (UNION {Blocks(u, d) : u \in CutOf(runs, ar2, d)}) \ Taken(g2)
      BY <1>2, <1>6, <1>9, <3>0, <3>3
    <3>5. ASSUME NEW u \in CutOf(runs, ar, d)
          PROVE  ar2[u].count = Cardinality(Blocks(u, d) \ Taken(g2))
      <4>1. CASE u = p
        <5> DEFINE left == Blocks(p, d) \ Taken(g)
        <5>1. IsFiniteSet(left)
          BY <1>2, PageIsNat, BlocksCount, FS_Difference
        <5>2. a \notin left
          BY <3>2
        <5>3. Blocks(p, d) \ Taken(g2) = left \cup {a}
          BY <1>2, <1>6, <3>2
        <5>4. Cardinality(left) = ar[p].count
          BY <1>2, <3>0
        <5> HIDE DEF left
        <5>5. Cardinality(left \cup {a}) = Cardinality(left) + 1
          BY <5>1, <5>2, FS_AddElement
        <5>6. QED
          BY <1>5, <4>1, <5>3, <5>4, <5>5
      <4>2. CASE u # p
        <5>1. Blocks(u, d) \ Taken(g2) = Blocks(u, d) \ Taken(g)
          BY <1>2, <1>6, <1>10, <4>2
        <5>2. QED
          BY <1>2, <1>10, <3>0, <4>2, <5>1
      <4>3. QED
        BY <4>1, <4>2
    <3>6. Exact(runs, ar2, g2, lists2[d], d)
      BY <1>2, <1>9, <3>3, <3>4, <3>5 DEF Exact
    <3>7. QED
      BY <2>2, <3>6
  <2>3. QED
    BY <2>1, <2>2
<1>12. QED
  BY <1>8, <1>11 DEF Heaped, ar2, g2, a

\* The last block of a page comes back, and the page goes.
LEMMA ReleaseArena ==
  ASSUME NEW runs, GoodRuns(runs), NEW ar \in [Page -> Header], NEW g,
         NEW lists \in [Desc -> Seq(Nat)], Heaped(runs, ar, g, lists),
         NEW b \in g, Small(runs, ar, b),
         NEW p, p = get_block_arena(b.addr), NEW d, d = ar[p].desc,
         ar[p].count + 1 = total_block(d)
  PROVE  Heaped(runs \ {OnePage(p)}, [ar EXCEPT ![p].count = @ + 1], g \ {b},
                [lists EXCEPT ![d] = Without(@, Blocks(p, d))])
<1> DEFINE ar2 == [ar EXCEPT ![p].count = @ + 1]
           g2 == g \ {b}
           runs2 == runs \ {OnePage(p)}
           lists2 == [lists EXCEPT ![d] = Without(@, Blocks(p, d))]
           a == b.addr
<1>1. Sound(runs, ar, g) /\ \A e \in Desc : Exact(runs, ar, g, lists[e], e)
  BY DEF Heaped
<1>2. /\ p \in Page /\ d \in Desc /\ p \in CutOf(runs, ar, d)
      /\ a \in Blocks(p, d) /\ a \in Nat
      /\ RunIn(ar, b) = OnePage(p) /\ ~ ar[p].large
  BY <1>1, PageOfSmall
<1>3. \A c \in g \ {b} : RunIn(ar, c) # OnePage(p)
  <2>1. ar[p].count = Cardinality(Blocks(p, d) \ Taken(g))
    BY <1>1, <1>2 DEF Exact
  <2>2. QED
    BY <1>1, <1>2, <2>1, CountOfOne
<1>4. /\ \A u \in Page : u # p => ar2[u] = ar[u]
      /\ \A u \in Page : ar2[u].desc = ar[u].desc
  BY <1>2 DEF Header
<1>5. Taken(g2) = Taken(g) \ {a}
  BY <1>1, TakenLess
<1> HIDE DEF ar2, g2
<1>6. Sound(runs2, ar2, g2)
  <2>1. \A u \in Page \ PagesOf(OnePage(p)) : ar2[u] = ar[u]
    BY <1>2, <1>4, OnePageOf
  <2>2. QED
    BY <1>1, <1>2, <1>3, <2>1, ReleaseSound DEF g2
<1>7. \A e \in Desc : CutOf(runs2, ar2, e) = CutOf(runs, ar, e) \ {p}
  <2>1. \A u \in Page : OnePage(u) = OnePage(p) <=> u = p
    BY DEF OnePage
  <2>2. QED
    BY <1>4, <2>1 DEF CutOf
<1>8. \A e \in Desc : \A u \in CutOf(runs, ar, e) : u # p =>
          ar2[u].count = ar[u].count /\ a \notin Blocks(u, e)
  <2>1. SUFFICES ASSUME NEW e \in Desc, NEW u \in CutOf(runs, ar, e), u # p
                 PROVE  ar2[u].count = ar[u].count /\ a \notin Blocks(u, e)
    OBVIOUS
  <2>2. u \in Page /\ get_block_arena(a) # u
    BY <2>1 DEF CutOf
  <2> HIDE DEF a
  <2>3. QED
    BY <1>4, <2>1, <2>2, OtherPage
<1> HIDE DEF a, runs2
<1>9. ASSUME NEW e \in Desc PROVE Exact(runs2, ar2, g2, lists2[e], e)
  <2>1. CASE e # d
    <3>1. \A u \in CutOf(runs, ar, e) : u # p
      BY <2>1 DEF CutOf
    <3>2. lists2[e] = lists[e]
      BY <2>1
    <3>3. CutOf(runs2, ar2, e) = CutOf(runs, ar, e)
      BY <1>7, <3>1
    <3>4. \A u \in CutOf(runs, ar, e) : ar2[u].count = ar[u].count
      BY <1>8, <3>1
    <3>5. \A u \in CutOf(runs, ar, e) : \A x \in Blocks(u, e) : x \in Taken(g2) <=> x \in Taken(g)
      BY <1>5, <1>8, <3>1
    <3> HIDE DEF lists2
    <3>6. QED
      BY <1>1, <3>2, <3>3, <3>4, <3>5, ExactStays
  <2>2. CASE e = d
    <3>0. /\ lists[d] \in Seq(Nat) /\ IsInjective(lists[d])
          /\ Range(lists[d]) = (UNION {Blocks(u, d) : u \in CutOf(runs, ar, d)}) \ Taken(g)
          /\ \A u \in CutOf(runs, ar, d) : ar[u].count = Cardinality(Blocks(u, d) \ Taken(g))
      BY <1>1, <1>2 DEF Exact
    <3>1. lists2[d] = Without(lists[d], Blocks(p, d))
      BY <1>2
    <3> HIDE DEF lists2
    <3>2. /\ lists2[d] \in Seq(Nat) /\ IsInjective(lists2[d])
          /\ Range(lists2[d]) = Range(lists[d]) \ Blocks(p, d)
      <4>1. /\ Without(lists[d], Blocks(p, d)) \in Seq(Nat)
            /\ IsInjective(Without(lists[d], Blocks(p, d)))
            /\ Range(Without(lists[d], Blocks(p, d))) = Range(lists[d]) \ Blocks(p, d)
        BY <3>0, WithoutIsRest
      <4>2. QED
        BY <3>1, <4>1
    <3>3. \A u \in CutOf(runs, ar, d) : u # p => Blocks(u, d) \cap Blocks(p, d) = {}
      <4>1. SUFFICES ASSUME NEW u \in CutOf(runs, ar, d), u # p, NEW x \in Blocks(p, d)
                     PROVE  x \notin Blocks(u, d)
        OBVIOUS
      <4>2. get_block_arena(x) = p /\ u \in Page
        BY <1>2, <4>1, BlockOfPage, PageIsNat DEF CutOf
      <4>3. QED
        BY <1>2, <4>1, <4>2, OtherPage
    <3>4. Range(lists2[d]) = (UNION {Blocks(u, d) : u \in CutOf(runs2, ar2, d)}) \ Taken(g2)
      <4>1. (UNION {Blocks(u, d) : u \in CutOf(runs, ar, d)}) \ Blocks(p, d)
              = UNION {Blocks(u, d) : u \in CutOf(runs, ar, d) \ {p}}
        BY <3>3
      <4>2. CutOf(runs2, ar2, d) = CutOf(runs, ar, d) \ {p}
        BY <1>2, <1>7
      <4>3. a \notin UNION {Blocks(u, d) : u \in CutOf(runs, ar, d) \ {p}}
        BY <1>2, <1>8
      <4>4. QED
        BY <1>5, <3>0, <3>2, <4>1, <4>2, <4>3
    <3>5. ASSUME NEW u \in CutOf(runs, ar, d) \ {p}
          PROVE  ar2[u].count = Cardinality(Blocks(u, d) \ Taken(g2))
      <4>1. Blocks(u, d) \ Taken(g2) = Blocks(u, d) \ Taken(g)
        BY <1>2, <1>5, <1>8
      <4>2. QED
        BY <1>2, <1>8, <3>0, <4>1
    <3>6. Exact(runs2, ar2, g2, lists2[d], d)
      BY <1>2, <1>7, <3>2, <3>4, <3>5 DEF Exact
    <3>7. QED
      BY <2>2, <3>6
  <2>3. QED
    BY <2>1, <2>2
<1>10. QED
  BY <1>6, <1>9 DEF Heaped, ar2, g2, a, runs2

\* The pages of a block that is not small were not cut.
LEMMA PlainPages ==
  ASSUME NEW runs, GoodRuns(runs), NEW ar, NEW b, Whole(runs, ar, b) \/ Large(runs, ar, b)
  PROVE  /\ \A q \in PagesOf(RunIn(ar, b)) : ar[q].desc = NoDesc
         /\ ~ Small(runs, ar, b)
<1>1. CASE Whole(runs, ar, b)
  <2>1. PICK r \in runs : /\ b.addr = r.index * PAGE_SIZE /\ b.size = r.count * PAGE_SIZE
                          /\ \A q \in PagesOf(r) : ar[q].desc = NoDesc
    BY <1>1 DEF Whole
  <2>2. RunIn(ar, b) = r /\ IsPage(b)
    BY <2>1, WholeKind
  <2>3. ~ Small(runs, ar, b)
    BY <2>2, SmallKind DEF Small
  <2>4. QED
    BY <2>1, <2>2, <2>3
<1>2. CASE Large(runs, ar, b)
  <2>1. PICK r \in runs : /\ b.addr = r.index * PAGE_SIZE + HEADER
                          /\ ar[r.index].large /\ ar[r.index].count = r.count
                          /\ \A q \in PagesOf(r) : ar[q].desc = NoDesc
    BY <1>2 DEF Large
  <2>2. RunIn(ar, b) = r /\ get_block_arena(b.addr) = r.index
    BY <2>1, LargeKind
  <2>3. ~ Small(runs, ar, b)
    BY <2>1, <2>2, SmallKind DEF Small
  <2>4. QED
    BY <2>1, <2>2, <2>3
<1>3. QED
  BY <1>1, <1>2

\* Whole pages, or a large block, come back.
LEMMA ReleasePlain ==
  ASSUME NEW runs, GoodRuns(runs), NEW ar, NEW g, NEW lists, Heaped(runs, ar, g, lists),
         NEW b \in g, Whole(runs, ar, b) \/ Large(runs, ar, b)
  PROVE  Heaped(runs \ {RunIn(ar, b)}, ar, g \ {b}, lists)
<1> DEFINE r == RunIn(ar, b)
           runs2 == runs \ {r}
           g2 == g \ {b}
<1>1. Sound(runs, ar, g) /\ \A e \in Desc : Exact(runs, ar, g, lists[e], e)
  BY DEF Heaped
<1>2. (\A q \in PagesOf(r) : ar[q].desc = NoDesc) /\ ~ Small(runs, ar, b)
  BY PlainPages
<1>3. \A c \in g \ {b} : RunIn(ar, c) # r
  BY <1>1, <1>2 DEF Sound
<1>4. Sound(runs2, ar, g2)
  BY <1>1, <1>3, ReleaseSound
<1>5. get_block_arena(b.addr) \in PagesOf(r)
  BY KindRun DEF Kind
<1>6. Taken(g2) = Taken(g) \ {b.addr}
  BY <1>1, TakenLess
<1> HIDE DEF r, g2
<1>7. ASSUME NEW e \in Desc PROVE Exact(runs2, ar, g2, lists[e], e)
  <2>1. \A u \in CutOf(runs, ar, e) : u \in Page /\ u \notin PagesOf(r) /\ u \in PagesOf(OnePage(u))
    BY <1>2, OnePageOf DEF CutOf, Desc, NoDesc
  <2>2. CutOf(runs2, ar, e) = CutOf(runs, ar, e)
    BY <2>1 DEF CutOf
  <2>3. \A u \in CutOf(runs, ar, e) : b.addr \notin Blocks(u, e)
    BY <1>5, <2>1, OtherPage
  <2>4. \A u \in CutOf(runs, ar, e) : \A x \in Blocks(u, e) : x \in Taken(g2) <=> x \in Taken(g)
    BY <1>6, <2>3
  <2>5. QED
    BY <1>1, <2>2, <2>4, ExactStays
<1>8. QED
  BY <1>4, <1>7 DEF Heaped, r, g2

\* A run is taken for whole pages or for a large block.
LEMMA AcquirePlain ==
  ASSUME NEW runs, GoodRuns(runs), NEW ar, NEW g, NEW lists, Heaped(runs, ar, g, lists),
         NEW r, r.index \in PagesOf(r), PagesOf(r) \cap Allocator!Used(runs) = {},
         NEW ar2, \A q \in Page \ PagesOf(r) : ar2[q] = ar[q],
         \A q \in PagesOf(r) : ar2[q].desc = NoDesc,
         NEW b, RunIn(ar2, b) = r, get_block_arena(b.addr) = r.index,
         Whole({r}, ar2, b) \/ Large({r}, ar2, b)
  PROVE  Heaped(runs \cup {r}, ar2, g \cup {b}, lists)
<1> DEFINE runs2 == runs \cup {r}
           g2 == g \cup {b}
<1>1. Sound(runs, ar, g) /\ \A e \in Desc : Exact(runs, ar, g, lists[e], e)
  BY DEF Heaped
<1>2. Sound(runs2, ar2, g2)
  BY <1>1, AcquireSound DEF Kind
<1>3. Taken(g2) = Taken(g) \cup {b.addr}
  BY TakenMore
<1> HIDE DEF g2
<1>4. ASSUME NEW e \in Desc PROVE Exact(runs2, ar2, g2, lists[e], e)
  <2>1. \A u \in Page : OnePage(u) \in runs => u \notin PagesOf(r)
    BY OnePageOf DEF Allocator!Used, PagesOf
  <2>2. CutOf(runs2, ar2, e) = CutOf(runs, ar, e)
    <3>1. \A u \in Page : OnePage(u) = r => u \in PagesOf(r)
      BY OnePageOf
    <3>2. e # NoDesc
      BY DEF Desc, NoDesc
    <3>3. \A u \in Page : u \in PagesOf(r) => ar2[u].desc # e
      BY <3>2
    <3>4. QED
      BY <2>1, <3>1, <3>3 DEF CutOf
  <2>3. \A u \in CutOf(runs, ar, e) : u \in Page /\ u \notin PagesOf(r)
    BY <2>1 DEF CutOf
  <2>4. \A u \in CutOf(runs, ar, e) : b.addr \notin Blocks(u, e) /\ ar2[u] = ar[u]
    BY <2>3, OtherPage
  <2>5. \A u \in CutOf(runs, ar, e) : \A x \in Blocks(u, e) : x \in Taken(g2) <=> x \in Taken(g)
    BY <1>3, <2>4
  <2>6. QED
    BY <1>1, <2>2, <2>4, <2>5, ExactStays
<1>5. QED
  BY <1>2, <1>4 DEF Heaped, g2

\* A page is taken and cut, and the first of its blocks given.
LEMMA AcquireArena ==
  ASSUME NEW runs, GoodRuns(runs), NEW ar \in [Page -> Header], NEW g,
         NEW lists \in [Desc -> Seq(Nat)], Heaped(runs, ar, g, lists),
         NEW p \in Page, p \notin Allocator!Used(runs),
         NEW size \in Request, NEW d \in Desc, size <= block_size[d], lists[d] = << >>
  PROVE  Heaped(runs \cup {OnePage(p)}, [ar EXCEPT ![p] = NewHeader(d)],
                g \cup {[addr |-> Head(Pushed(p, d)), size |-> size]},
                [lists EXCEPT ![d] = Tail(Pushed(p, d))])
<1> DEFINE ar2 == [ar EXCEPT ![p] = NewHeader(d)]
           a == Head(Pushed(p, d))
           b == [addr |-> a, size |-> size]
           g2 == g \cup {b}
           runs2 == runs \cup {OnePage(p)}
           lists2 == [lists EXCEPT ![d] = Tail(Pushed(p, d))]
<1>1. Sound(runs, ar, g) /\ \A e \in Desc : Exact(runs, ar, g, lists[e], e)
  BY DEF Heaped
<1>2. /\ a \in Blocks(p, d) /\ Tail(Pushed(p, d)) \in Seq(Nat) /\ IsInjective(Tail(Pushed(p, d)))
      /\ Range(Tail(Pushed(p, d))) = Blocks(p, d) \ {a}
  BY PushedList, HeadTaken, PageIsNat
<1>3. /\ ~ ar2[p].large /\ ar2[p].desc = d /\ ar2[p].count = total_block(d) - 1
      /\ \A u \in Page : u # p => ar2[u] = ar[u]
  BY DEF NewHeader
<1>4. b.addr = a /\ b.size = size /\ OnePage(p).index = p
  BY DEF OnePage
<1> HIDE DEF ar2, a, b
<1>5. Small({OnePage(p)}, ar2, b) /\ RunIn(ar2, b) = OnePage(p) /\ get_block_arena(a) = p
  BY <1>2, <1>3, <1>4, SmallKind DEF Small
<1>6. Sound(runs2, ar2, g2)
  <2>1. PagesOf(OnePage(p)) = {p}
    BY OnePageOf
  <2>2. \A q \in Page \ PagesOf(OnePage(p)) : ar2[q] = ar[q]
    BY <1>3, <2>1
  <2>3. PagesOf(OnePage(p)) \cap Allocator!Used(runs) = {} /\ OnePage(p).index \in PagesOf(OnePage(p))
    BY <1>4, <2>1
  <2>4. QED
    BY <1>1, <1>5, <2>2, <2>3, AcquireSound DEF Kind
<1>7. Taken(g2) = Taken(g) \cup {a}
  BY <1>4, TakenMore
<1>8. \A u \in Page : OnePage(u) \in runs => u # p
  BY OnePageOf DEF Allocator!Used, PagesOf
<1>9. \A e \in Desc : CutOf(runs2, ar2, e) = CutOf(runs, ar, e) \cup (IF e = d THEN {p} ELSE {})
  <2>1. \A u \in Page : OnePage(u) = OnePage(p) <=> u = p
    BY DEF OnePage
  <2>2. QED
    BY <1>3, <1>8, <2>1 DEF CutOf
<1>10. \A e \in Desc : \A u \in CutOf(runs, ar, e) :
          u \in Page /\ u # p /\ ar2[u] = ar[u] /\ a \notin Blocks(u, e)
  <2>1. SUFFICES ASSUME NEW e \in Desc, NEW u \in CutOf(runs, ar, e)
                 PROVE  u \in Page /\ u # p /\ ar2[u] = ar[u] /\ a \notin Blocks(u, e)
    OBVIOUS
  <2>2. u \in Page /\ u # p
    BY <1>8 DEF CutOf
  <2>3. QED
    BY <1>3, <1>5, <2>2, OtherPage
<1> HIDE DEF g2, runs2
<1>11. ASSUME NEW e \in Desc PROVE Exact(runs2, ar2, g2, lists2[e], e)
  <2>1. CASE e # d
    <3>1. lists2[e] = lists[e]
      BY <2>1
    <3>2. CutOf(runs2, ar2, e) = CutOf(runs, ar, e)
      BY <1>9, <2>1
    <3>3. \A u \in CutOf(runs, ar, e) : ar2[u].count = ar[u].count
      BY <1>10
    <3>4. \A u \in CutOf(runs, ar, e) : \A x \in Blocks(u, e) : x \in Taken(g2) <=> x \in Taken(g)
      BY <1>7, <1>10
    <3> HIDE DEF lists2
    <3>5. QED
      BY <1>1, <3>1, <3>2, <3>3, <3>4, ExactStays
  <2>2. CASE e = d
    <3>1. lists2[d] = Tail(Pushed(p, d))
      OBVIOUS
    <3> HIDE DEF lists2
    <3>2. (UNION {Blocks(u, d) : u \in CutOf(runs, ar, d)}) \ Taken(g) = {}
          /\ \A u \in CutOf(runs, ar, d) : ar[u].count = Cardinality(Blocks(u, d) \ Taken(g))
      <4>1. Range(<<>>) = {}
        BY DEF Range
      <4>2. Exact(runs, ar, g, <<>>, d)
        BY <1>1
      <4>3. QED
        BY <4>1, <4>2 DEF Exact
    <3>3. Blocks(p, d) \cap Taken(g) = {}
      <4>1. SUFFICES ASSUME NEW c \in g, c.addr \in Blocks(p, d) PROVE FALSE
        BY DEF Taken
      <4>2. get_block_arena(c.addr) = p
        BY <4>1, BlockOfPage, PageIsNat
      <4>3. RunIn(ar, c) \in runs /\ p \in PagesOf(RunIn(ar, c))
        BY <1>1, <4>2, KindRun DEF Sound
      <4>4. QED
        BY <4>3 DEF Allocator!Used, PagesOf
    <3>4. CutOf(runs2, ar2, d) = CutOf(runs, ar, d) \cup {p}
      BY <1>9
    <3>5. Range(lists2[d]) = (UNION {Blocks(u, d) : u \in CutOf(runs2, ar2, d)}) \ Taken(g2)
      BY <1>2, <1>7, <3>1, <3>2, <3>3, <3>4
    <3>6. ASSUME NEW u \in CutOf(runs2, ar2, d)
          PROVE  ar2[u].count = Cardinality(Blocks(u, d) \ Taken(g2))
      <4>1. CASE u = p
        <5>1. Blocks(p, d) \ Taken(g2) = Blocks(p, d) \ {a}
          BY <1>7, <3>3
        <5>2. IsFiniteSet(Blocks(p, d)) /\ Cardinality(Blocks(p, d)) = total_block(d)
          BY BlocksCount, PageIsNat
        <5>3. Cardinality(Blocks(p, d) \ {a}) = total_block(d) - 1
          BY <1>2, <5>2, FS_RemoveElement
        <5>4. QED
          BY <1>3, <4>1, <5>1, <5>3
      <4>2. CASE u # p
        <5>1. u \in CutOf(runs, ar, d)
          BY <3>4, <4>2
        <5>2. Blocks(u, d) \ Taken(g2) = Blocks(u, d) \ Taken(g)
          BY <1>7, <1>10, <5>1
        <5>3. QED
          BY <1>10, <3>2, <5>1, <5>2
      <4>3. QED
        BY <4>1, <4>2
    <3>7. Exact(runs2, ar2, g2, lists2[d], d)
      BY <1>2, <3>1, <3>5, <3>6 DEF Exact
    <3>8. QED
      BY <2>2, <3>7
  <2>3. QED
    BY <2>1, <2>2
<1>12. QED
  BY <1>6, <1>11 DEF Heaped, ar2, g2, a, b, runs2

-----------------------------------------------------------------------------
(* The heap's invariant and its steps.                                       *)

\* What a call that waits for pages asked for.
CallInv ==
  IF pc \in {"look", "mark", "panic"}
  THEN /\ call.pages = count
       /\ \/ call.kind = "page" /\ call.size = count * PAGE_SIZE
          \/ call.kind = "large" /\ call.size \in Request /\ count = PagesFor(call.size)
          \/ /\ call.kind = "arena" /\ call.size \in Request /\ call.size <= LIMIT
             /\ count = 1 /\ free_list[DescFor(call.size)] = << >>
  ELSE call = NoCall

HeapInv ==
  /\ arena \in [Page -> Header]
  /\ free_list \in [Desc -> Seq(Nat)]
  /\ Heaped(Held, arena, given, free_list)
  /\ CallInv

LEMMA HeldIsGood == IInv => GoodRuns(Held) /\ GoodRuns(lent) /\ Held \subseteq lent
  BY DEF IInv, TypeOK, RunsFit, RunsAreDisjoint, GoodRuns, PagesOf, Held

LEMMA HeapStarts == HeapInit => HeapInv
<1> SUFFICES ASSUME HeapInit PROVE HeapInv
  OBVIOUS
<1>1. pc = "idle" /\ lent = {} /\ given = {} /\ call = NoCall
  BY DEF HeapInit, Init
<1>2. Held = {}
  BY <1>1 DEF Held
<1>3. arena \in [Page -> Header]
  BY DEF HeapInit, NoHeader, Header
<1>4. free_list = [d \in Desc |-> <<>>]
  BY DEF HeapInit
<1>5. free_list \in [Desc -> Seq(Nat)]
  BY <1>4, EmptySeq
<1>6. ASSUME NEW d \in Desc PROVE Exact(Held, arena, given, free_list[d], d)
  <2>1. CutOf(Held, arena, d) = {}
    BY <1>2 DEF CutOf
  <2>2. free_list[d] = <<>> /\ <<>> \in Seq(Nat) /\ IsInjective(<<>>) /\ Range(<<>>) = {}
    BY <1>4, EmptySeq DEF IsInjective, Range
  <2>3. QED
    BY <1>1, <2>1, <2>2 DEF Exact
<1>7. Sound(Held, arena, given)
  BY <1>1, <1>2 DEF Sound
<1>8. CallInv
  BY <1>1 DEF CallInv
<1>9. QED
  BY <1>3, <1>5, <1>6, <1>7, <1>8 DEF HeapInv, Heaped

LEMMA AskKeeps ==
  ASSUME IInv, HeapInv, NEW kind, NEW size, NEW pages, Ask(kind, size, pages),
         \/ kind = "page" /\ size = pages * PAGE_SIZE
         \/ kind = "large" /\ size \in Request /\ pages = PagesFor(size)
         \/ /\ kind = "arena" /\ size \in Request /\ size <= LIMIT
            /\ pages = 1 /\ free_list[DescFor(size)] = << >>
  PROVE  HeapInv'
<1>1. /\ pc = "idle" /\ pc' = "look" /\ count' = pages /\ lent' = lent
      /\ call' = [kind |-> kind, size |-> size, pages |-> pages]
      /\ arena' = arena /\ free_list' = free_list /\ given' = given
  BY DEF Ask, bitmap_scan, heapVars
<1>2. Held' = Held
  BY <1>1 DEF Held
<1>3. CallInv'
  BY <1>1 DEF CallInv
<1>4. QED
  BY <1>1, <1>2, <1>3 DEF HeapInv

\* The run that has come is free, and of the length asked for.
LEMMA RunCame ==
  ASSUME IInv, HeapInv, NEW kind, Got(kind)
  PROVE  /\ GoodRuns({TheRun}) /\ TheRun.index = start + offset /\ TheRun.count = count
         /\ TheRun.index \in Page /\ TheRun.index \in PagesOf(TheRun)
         /\ PagesOf(TheRun) = Allocator!Pages(start + offset, call.pages)
         /\ PagesOf(TheRun) \cap Allocator!Used(Held) = {}
         /\ Held' = Held \cup {TheRun}
         /\ CallInv' /\ call.kind = kind
<1>1. pc = "mark" /\ pc' = "idle" /\ lent' = lent \cup {TheRun} /\ call' = NoCall /\ call.kind = kind
  BY DEF Got, Return, TheRun
<1>2. Allocator!IsFirstFit(Lent, count, start + offset) /\ count \in 1 .. MaxCount
  BY <1>1 DEF IInv, LoopInv, TypeOK
<1>3. /\ start + offset \in Page /\ Allocator!Pages(start + offset, count) \subseteq Page
      /\ Allocator!Pages(start + offset, count) \cap Allocator!Used(lent) = {}
  BY <1>2 DEF Allocator!IsFirstFit, Allocator!Fits, Lent
<1>4. TheRun.index = start + offset /\ TheRun.count = count
  BY DEF TheRun
<1>5. call.pages = count
  BY <1>1 DEF HeapInv, CallInv
<1>6. GoodRuns({TheRun})
  BY <1>2, <1>3, <1>4 DEF GoodRuns, PagesOf, Allocator!Run, TheRun
<1>7. Held = lent /\ Held' = lent'
  BY <1>1 DEF Held
<1>8. TheRun.index \in PagesOf(TheRun)
  BY <1>6, RunPages
<1>9. CallInv'
  BY <1>1 DEF CallInv
<1>10. QED
  BY <1>1, <1>3, <1>4, <1>5, <1>6, <1>7, <1>8, <1>9 DEF PagesOf

LEMMA GotPageKeeps ==
  ASSUME IInv, HeapInv, GotPage
  PROVE  HeapInv'
<1> DEFINE p == start + offset
           b == [addr |-> p * PAGE_SIZE, size |-> call.size]
<1>1. Got("page") /\ arena' = NoHeaders(p) /\ given' = given \cup {b} /\ free_list' = free_list
  BY DEF GotPage, Give
<1>2. /\ GoodRuns({TheRun}) /\ TheRun.index = p /\ TheRun.count = count
      /\ TheRun.index \in PagesOf(TheRun)
      /\ PagesOf(TheRun) = Allocator!Pages(p, call.pages)
      /\ PagesOf(TheRun) \cap Allocator!Used(Held) = {}
      /\ Held' = Held \cup {TheRun} /\ CallInv' /\ call.kind = "page"
  BY <1>1, RunCame
<1>3. call.size = count * PAGE_SIZE
  BY <1>1, <1>2 DEF HeapInv, CallInv, Got, Return
<1>4. /\ arena' \in [Page -> Header]
      /\ \A q \in Page \ PagesOf(TheRun) : arena'[q] = arena[q]
      /\ \A q \in PagesOf(TheRun) : arena'[q].desc = NoDesc
  <2>1. PagesOf(TheRun) \subseteq Page
    BY <1>2 DEF GoodRuns
  <2>2. NoHeader \in Header /\ NoHeader.desc = NoDesc
    BY DEF NoHeader, Header
  <2>3. \A q \in Page : arena'[q] = IF q \in PagesOf(TheRun) THEN NoHeader ELSE arena[q]
    BY <1>1, <1>2 DEF NoHeaders
  <2>4. arena' = [q \in Page |-> arena'[q]]
    BY <1>1 DEF NoHeaders
  <2>5. \A q \in Page : arena'[q] \in Header
    BY <2>2, <2>3 DEF HeapInv
  <2>6. QED
    BY <2>1, <2>2, <2>3, <2>4, <2>5
<1>5. b.addr = TheRun.index * PAGE_SIZE /\ b.size = TheRun.count * PAGE_SIZE
  BY <1>2, <1>3
<1> HIDE DEF b, p
<1>6. RunIn(arena', b) = TheRun /\ get_block_arena(b.addr) = TheRun.index
  BY <1>2, <1>5, WholeKind
<1>7. Whole({TheRun}, arena', b)
  BY <1>4, <1>5 DEF Whole
<1>8. Heaped(Held', arena', given', free_list')
  BY <1>1, <1>2, <1>4, <1>6, <1>7, HeldIsGood, AcquirePlain DEF HeapInv
<1>9. QED
  BY <1>1, <1>2, <1>4, <1>8 DEF HeapInv

\* The pages of a large block hold its header and its bytes.
LEMMA PagesSuffice ==
  ASSUME NEW size \in Request
  PROVE  HEADER + size <= PagesFor(size) * PAGE_SIZE
<1>1. size \in Nat /\ PAGE_SIZE \in Nat \ {0} /\ HEADER \in Nat
  BY ArenaAssumption
<1> DEFINE n == size + HEADER + PAGE_SIZE - 1
           q == n \div PAGE_SIZE
           r == n % PAGE_SIZE
<1>2. n \in Nat
  BY <1>1
<1>3. q \in Int /\ r \in 0 .. PAGE_SIZE - 1 /\ n = PAGE_SIZE * q + r
  <2> HIDE DEF n
  <2>1. QED
    BY <1>1, <1>2, Division
<1>4. PagesFor(size) = q
  BY DEF PagesFor
<1> HIDE DEF q, r
<1>5. q * PAGE_SIZE \in Int /\ q * PAGE_SIZE = PAGE_SIZE * q
  BY <1>1, <1>3
<1>6. QED
  BY <1>1, <1>3, <1>4, <1>5

LEMMA GotLargeKeeps ==
  ASSUME IInv, HeapInv, GotLarge
  PROVE  HeapInv'
<1> DEFINE p == start + offset
           header == [large |-> TRUE, count |-> call.pages, desc |-> NoDesc]
           b == [addr |-> p * PAGE_SIZE + HEADER, size |-> call.size]
<1>1. /\ Got("large") /\ arena' = [NoHeaders(p) EXCEPT ![p] = header]
      /\ given' = given \cup {b} /\ free_list' = free_list
  BY DEF GotLarge, Give
<1>2. /\ GoodRuns({TheRun}) /\ TheRun.index = p /\ TheRun.count = count
      /\ TheRun.index \in PagesOf(TheRun) /\ p \in Page
      /\ PagesOf(TheRun) = Allocator!Pages(p, call.pages)
      /\ PagesOf(TheRun) \cap Allocator!Used(Held) = {}
      /\ Held' = Held \cup {TheRun} /\ CallInv' /\ call.kind = "large"
  BY <1>1, RunCame
<1>3. call.size \in Request /\ count = PagesFor(call.size) /\ call.pages = count /\ count \in Nat
  BY <1>1, <1>2 DEF HeapInv, CallInv, Got, Return, IInv, TypeOK
<1>4. /\ arena' \in [Page -> Header]
      /\ \A q \in Page \ PagesOf(TheRun) : arena'[q] = arena[q]
      /\ \A q \in PagesOf(TheRun) : arena'[q].desc = NoDesc
      /\ arena'[p].large /\ arena'[p].count = count
  <2>1. PagesOf(TheRun) \subseteq Page
    BY <1>2 DEF GoodRuns
  <2>2. /\ NoHeader \in Header /\ NoHeader.desc = NoDesc
        /\ header \in Header /\ header.desc = NoDesc /\ header.large /\ header.count = count
    BY <1>3 DEF NoHeader, Header
  <2> HIDE DEF header
  <2>3. \A q \in Page : arena'[q] = IF q = p THEN header
                                    ELSE IF q \in PagesOf(TheRun) THEN NoHeader ELSE arena[q]
    BY <1>1, <1>2 DEF NoHeaders
  <2>4. arena' = [q \in Page |-> arena'[q]]
    BY <1>1 DEF NoHeaders
  <2>5. \A q \in Page : arena'[q] \in Header
    BY <2>2, <2>3 DEF HeapInv
  <2>6. p \in PagesOf(TheRun)
    BY <1>2
  <2> HIDE DEF p
  <2>7. QED
    BY <1>2, <2>1, <2>2, <2>3, <2>4, <2>5, <2>6
<1>5. /\ b.addr = TheRun.index * PAGE_SIZE + HEADER /\ b.size \in Request
      /\ HEADER + b.size <= TheRun.count * PAGE_SIZE
  BY <1>2, <1>3, PagesSuffice
<1> HIDE DEF b, p
<1>6. RunIn(arena', b) = TheRun /\ get_block_arena(b.addr) = TheRun.index
  BY <1>2, <1>4, <1>5, LargeKind
<1>7. Large({TheRun}, arena', b)
  BY <1>2, <1>4, <1>5 DEF Large
<1>8. Heaped(Held', arena', given', free_list')
  <2>1. GoodRuns(Held) /\ Heaped(Held, arena, given, free_list)
    BY HeldIsGood DEF HeapInv
  <2>2. given' = given \cup {b} /\ free_list' = free_list
    BY <1>1
  <2>3. QED
    BY <1>2, <1>4, <1>6, <1>7, <2>1, <2>2, AcquirePlain
<1>9. QED
  BY <1>1, <1>2, <1>4, <1>8 DEF HeapInv

LEMMA GotArenaKeeps ==
  ASSUME IInv, HeapInv, GotArena
  PROVE  HeapInv'
<1> DEFINE p == start + offset
           d == DescFor(call.size)
           b == [addr |-> Head(Pushed(p, d)), size |-> call.size]
<1>1. /\ Got("arena") /\ arena' = [arena EXCEPT ![p] = NewHeader(d)]
      /\ free_list' = [free_list EXCEPT ![d] = Tail(Pushed(p, d))]
      /\ given' = given \cup {b}
  BY DEF GotArena, Give
<1>2. /\ TheRun.index = p /\ TheRun.count = count /\ p \in Page /\ TheRun.index \in PagesOf(TheRun)
      /\ PagesOf(TheRun) \cap Allocator!Used(Held) = {}
      /\ Held' = Held \cup {TheRun} /\ CallInv' /\ call.kind = "arena"
  BY <1>1, RunCame
<1>3. call.size \in Request /\ call.size <= LIMIT /\ count = 1 /\ free_list[d] = << >>
  BY <1>1, <1>2 DEF HeapInv, CallInv, Got, Return
<1>4. d \in Desc /\ call.size <= block_size[d]
  <2>1. call.size \in Nat
    BY <1>3, ArenaAssumption
  <2>2. QED
    BY <1>3, <2>1, DescForFits
<1>5. TheRun = OnePage(p) /\ p \notin Allocator!Used(Held)
  BY <1>2, <1>3 DEF TheRun, OnePage
<1>6. Heaped(Held', arena', given', free_list')
  <2>1. GoodRuns(Held) /\ arena \in [Page -> Header] /\ free_list \in [Desc -> Seq(Nat)]
        /\ Heaped(Held, arena, given, free_list)
    BY HeldIsGood DEF HeapInv
  <2> HIDE DEF p, d
  <2>2. QED
    BY <1>1, <1>2, <1>3, <1>4, <1>5, <2>1, AcquireArena
<1>7. arena' \in [Page -> Header]
  <2>1. NewHeader(d) \in Header
    BY <1>4, TotalBlock DEF NewHeader, Header
  <2>2. QED
    BY <1>1, <2>1 DEF HeapInv
<1>8. free_list' \in [Desc -> Seq(Nat)]
  <2>1. Tail(Pushed(p, d)) \in Seq(Nat)
    BY <1>2, <1>4, PageIsNat, PushedList, HeadTaken
  <2>2. QED
    BY <1>1, <2>1 DEF HeapInv
<1>9. QED
  BY <1>2, <1>6, <1>7, <1>8 DEF HeapInv

LEMMA FreeBlockKeeps ==
  ASSUME IInv, HeapInv, NEW size \in Request, FreeBlock(size)
  PROVE  HeapInv'
<1> DEFINE d == DescFor(size)
           block == Head(free_list[d])
           p == get_block_arena(block)
<1>1. /\ size <= LIMIT /\ free_list[d] # <<>>
      /\ free_list' = [free_list EXCEPT ![d] = Tail(@)]
      /\ arena' = [arena EXCEPT ![p].count = @ - 1]
      /\ given' = given \cup {[addr |-> block, size |-> size]}
      /\ UNCHANGED <<vars, call>>
  BY DEF FreeBlock, Give
<1>2. d \in Desc /\ size <= block_size[d]
  <2>1. size \in Nat
    BY ArenaAssumption
  <2>2. QED
    BY <1>1, <2>1, DescForFits
<1>3. Held' = Held /\ pc' = pc /\ count' = count /\ call' = call
  BY <1>1 DEF Held, vars
<1>4. pc = "idle" /\ CallInv'
  BY <1>3 DEF FreeBlock, HeapInv, CallInv
<1>5. /\ GoodRuns(Held) /\ arena \in [Page -> Header] /\ free_list \in [Desc -> Seq(Nat)]
      /\ Heaped(Held, arena, given, free_list)
  BY HeldIsGood DEF HeapInv
<1>6. p \in Page /\ Heaped(Held', arena', given', free_list')
  <2> HIDE DEF d
  <2>1. QED
    BY <1>1, <1>2, <1>3, <1>5, GiveSmall
<1>7. arena' \in [Page -> Header]
  <2> HIDE DEF p, block
  <2>1. arena[p] \in Header
    BY <1>5, <1>6
  <2>2. [arena[p] EXCEPT !.count = @ - 1] \in Header
    BY <2>1 DEF Header
  <2>3. arena' = [arena EXCEPT ![p] = [arena[p] EXCEPT !.count = @ - 1]]
    BY <1>1, <1>5, <1>6
  <2>4. QED
    BY <1>5, <2>2, <2>3
<1>8. free_list' \in [Desc -> Seq(Nat)]
  <2>1. free_list[d] \in Seq(Nat)
    BY <1>2, <1>5
  <2>2. Tail(free_list[d]) \in Seq(Nat)
    BY <1>1, <2>1, HeadTailProperties
  <2> HIDE DEF d
  <2>3. QED
    BY <1>1, <1>5, <2>2
<1>9. QED
  BY <1>4, <1>6, <1>7, <1>8 DEF HeapInv

\* A run that reset_page clears is no longer held.
LEMMA ResetHeld ==
  ASSUME IInv, HeapInv, NEW run, reset_page(run)
  PROVE  /\ Held' = Held \ {run} /\ pc = "idle" /\ pc' = "reset" /\ Held = lent
<1>1. /\ pc = "idle" /\ pc' = "reset" /\ run \in lent /\ lent' = lent
      /\ start' = run.index - offset /\ count' = run.count
  BY DEF reset_page
<1>2. run \in Allocator!Run
  BY <1>1 DEF IInv, TypeOK
<1>3. run.index \in Nat /\ run = [index |-> run.index, count |-> run.count]
  BY <1>2, PageIsNat DEF Allocator!Run
<1>4. start' + offset = run.index
  BY <1>1, <1>3, BitmapAssumption
<1>5. [index |-> start' + offset, count |-> count'] = run
  BY <1>1, <1>3, <1>4
<1>6. QED
  BY <1>1, <1>5 DEF Held

LEMMA NoCallNow ==
  ASSUME HeapInv, pc = "idle", pc' \in {"idle", "reset"}, UNCHANGED call
  PROVE  CallInv'
  BY DEF HeapInv, CallInv

\* What is not small has its pages to itself.
LEMMA KindIs ==
  ASSUME HeapInv, IInv, NEW b \in given
  PROVE  /\ Kind(Held, arena, b)
         /\ IsPage(b) => Whole(Held, arena, b) /\ RunIn(arena, b) = PageRun(b)
         /\ ~ IsPage(b) /\ arena[get_block_arena(b.addr)].large =>
              /\ Large(Held, arena, b)
              /\ RunIn(arena, b) = [index |-> get_block_arena(b.addr),
                                    count |-> arena[get_block_arena(b.addr)].count]
         /\ ~ IsPage(b) /\ ~ arena[get_block_arena(b.addr)].large => Small(Held, arena, b)
<1>1. Kind(Held, arena, b) /\ GoodRuns(Held)
  BY HeldIsGood DEF HeapInv, Heaped, Sound
<1>2. Whole(Held, arena, b) => IsPage(b)
  BY <1>1, WholeKind DEF Whole
<1>3. Large(Held, arena, b) => ~ IsPage(b) /\ arena[get_block_arena(b.addr)].large
  <2>1. SUFFICES ASSUME NEW r \in Held, b.addr = r.index * PAGE_SIZE + HEADER,
                        arena[r.index].large, arena[r.index].count = r.count
                 PROVE  ~ IsPage(b) /\ arena[get_block_arena(b.addr)].large
    BY DEF Large
  <2>2. QED
    BY <1>1, <2>1, LargeKind
<1>4. Small(Held, arena, b) => ~ IsPage(b) /\ ~ arena[get_block_arena(b.addr)].large
  <2>1. SUFFICES ASSUME NEW p \in Page, ~ arena[p].large, arena[p].desc \in Desc,
                        b.addr \in Blocks(p, arena[p].desc)
                 PROVE  ~ IsPage(b) /\ ~ arena[get_block_arena(b.addr)].large
    BY DEF Small
  <2>2. QED
    BY <2>1, SmallKind
<1>5. QED
  BY <1>1, <1>2, <1>3, <1>4 DEF Kind, RunIn

LEMMA FreePlainKeeps ==
  ASSUME IInv, HeapInv, NEW b \in given, free_kpage(b) \/ FreeLarge(b)
  PROVE  HeapInv'
<1>1. /\ Whole(Held, arena, b) \/ Large(Held, arena, b)
      /\ reset_page(RunIn(arena, b))
  BY KindIs DEF free_kpage, FreeLarge
<1>2. given' = given \ {b} /\ UNCHANGED <<arena, free_list, call>>
  BY DEF free_kpage, FreeLarge
<1>3. Held' = Held \ {RunIn(arena, b)} /\ CallInv'
  BY <1>1, <1>2, ResetHeld, NoCallNow
<1>4. GoodRuns(Held) /\ Heaped(Held, arena, given, free_list)
  BY HeldIsGood DEF HeapInv
<1>5. Heaped(Held \ {RunIn(arena, b)}, arena, given \ {b}, free_list)
  BY <1>1, <1>4, ReleasePlain
<1>6. QED
  BY <1>2, <1>3, <1>5 DEF HeapInv

LEMMA FreeSmallKeeps ==
  ASSUME IInv, HeapInv, NEW b \in given, FreeSmall(b)
  PROVE  HeapInv'
<1> DEFINE p == get_block_arena(b.addr)
           d == arena[p].desc
<1>1. /\ pc = "idle" /\ ~ IsPage(b) /\ ~ arena[p].large
      /\ free_list' = [free_list EXCEPT ![d] = WithBlock(@, b.addr, p)]
      /\ arena' = [arena EXCEPT ![p].count = @ + 1]
      /\ given' = given \ {b} /\ UNCHANGED call
      /\ IF Unused(p) THEN reset_page([index |-> p, count |-> 1]) ELSE UNCHANGED vars
  BY DEF FreeSmall
<1>2. Small(Held, arena, b)
  BY <1>1, KindIs
<1>3. /\ GoodRuns(Held) /\ arena \in [Page -> Header] /\ free_list \in [Desc -> Seq(Nat)]
      /\ Heaped(Held, arena, given, free_list) /\ Sound(Held, arena, given)
  BY HeldIsGood DEF HeapInv, Heaped
<1>4. p \in Page /\ d \in Desc /\ b.addr \in Nat
  BY <1>2, <1>3, PageOfSmall
<1>5. Unused(p) <=> arena[p].count + 1 = total_block(d)
  BY DEF Unused
<1>6. Exact(Held, arena, given, free_list[d], d) /\ free_list[d] \in Seq(Nat)
  BY <1>3, <1>4 DEF Heaped, Exact
<1> HIDE DEF p, d
<1>7. /\ Heaped(Held', arena', given', free_list') /\ CallInv'
      /\ WithBlock(free_list[d], b.addr, p) \in Seq(Nat)
  <2>1. CASE Unused(p)
    <3>1. WithBlock(free_list[d], b.addr, p) = Without(free_list[d], Blocks(p, d))
      BY <2>1 DEF WithBlock, d
    <3>2. Held' = Held \ {OnePage(p)} /\ CallInv'
      BY <1>1, <2>1, ResetHeld, NoCallNow DEF OnePage
    <3>3. Heaped(Held \ {OnePage(p)}, [arena EXCEPT ![p].count = @ + 1], given \ {b},
                 [free_list EXCEPT ![d] = Without(@, Blocks(p, d))])
      BY <1>2, <1>3, <1>5, <2>1, ReleaseArena DEF p, d
    <3>4. free_list' = [free_list EXCEPT ![d] = Without(@, Blocks(p, d))]
      BY <1>1, <3>1
    <3>5. Heaped(Held', arena', given', free_list')
      BY <1>1, <3>2, <3>3, <3>4
    <3>6. Without(free_list[d], Blocks(p, d)) \in Seq(Nat)
      BY <1>6, WithoutIsRest DEF Exact
    <3>7. QED
      BY <3>1, <3>2, <3>5, <3>6
  <2>2. CASE ~ Unused(p)
    <3>1. WithBlock(free_list[d], b.addr, p) = <<b.addr>> \o free_list[d]
      BY <2>2 DEF WithBlock
    <3>2. Held' = Held /\ pc' = pc
      BY <1>1, <2>2 DEF Held, vars
    <3>3. CallInv'
      BY <1>1, <3>2, NoCallNow
    <3>4. Heaped(Held, [arena EXCEPT ![p].count = @ + 1], given \ {b},
                 [free_list EXCEPT ![d] = <<b.addr>> \o @])
      BY <1>2, <1>3, <1>5, <2>2, TakeSmall DEF p, d
    <3>5. free_list' = [free_list EXCEPT ![d] = <<b.addr>> \o @]
      BY <1>1, <3>1
    <3>6. Heaped(Held', arena', given', free_list')
      BY <1>1, <3>2, <3>4, <3>5
    <3>7. <<b.addr>> \o free_list[d] \in Seq(Nat)
      BY <1>4, <1>6
    <3>8. QED
      BY <3>1, <3>3, <3>6, <3>7
  <2>3. QED
    BY <2>1, <2>2
<1>8. arena' \in [Page -> Header]
  BY <1>1, <1>3, <1>4 DEF Header
<1>9. free_list' \in [Desc -> Seq(Nat)]
  BY <1>1, <1>3, <1>7
<1>10. QED
  BY <1>7, <1>8, <1>9 DEF HeapInv

LEMMA LoopKeepsHeap ==
  ASSUME IInv, HeapInv, Loop
  PROVE  HeapInv'
<1>1. UNCHANGED <<arena, free_list, given, call>>
  BY DEF Loop, heapVars
<1>2. Held' = Held
  BY DEF Loop, Look, Found, Panic, Mark, Clear, Cleared, Held, IInv, TypeOK
<1>3. CallInv'
  BY <1>1 DEF Loop, Look, Found, Panic, Mark, Clear, Cleared, HeapInv, CallInv
<1>4. QED
  BY <1>1, <1>2, <1>3 DEF HeapInv

LEMMA HeapKeeps ==
  ASSUME IInv, HeapInv, HeapNext \/ (\E n \in 1 .. MaxCount : alloc_kpage(n))
                          \/ UNCHANGED <<vars, heapVars, call>>
  PROVE  HeapInv'
<1>1. ASSUME NEW n \in 1 .. MaxCount, alloc_kpage(n) PROVE HeapInv'
  BY <1>1, AskKeeps DEF alloc_kpage
<1>2. ASSUME NEW size \in Request, kmalloc(size) PROVE HeapInv'
  <2>1. CASE LargeBlock(size)
    BY <2>1, AskKeeps DEF LargeBlock
  <2>2. CASE FreeBlock(size)
    BY <2>2, FreeBlockKeeps
  <2>3. CASE NewArena(size)
    BY <2>3, AskKeeps DEF NewArena
  <2>4. QED
    BY <1>2, <2>1, <2>2, <2>3 DEF kmalloc
<1>3. ASSUME NEW b \in given, free_kpage(b) \/ kfree(b) PROVE HeapInv'
  BY <1>3, FreePlainKeeps, FreeSmallKeeps DEF kfree
<1>4. CASE UNCHANGED <<vars, heapVars, call>>
  BY <1>4 DEF vars, heapVars, HeapInv, Held, CallInv
<1>5. QED
  BY <1>1, <1>2, <1>3, <1>4, GotPageKeeps, GotLargeKeeps, GotArenaKeeps, LoopKeepsHeap,
     BitmapAssumption DEF HeapNext

-----------------------------------------------------------------------------
(* The bytes of the blocks.                                                  *)

\* the bytes of the pages of a run
RunBytes(r) == r.index * PAGE_SIZE .. (r.index + r.count) * PAGE_SIZE - 1

LEMMA TimesMonotone ==
  ASSUME NEW x \in Nat, NEW y \in Nat, x <= y, NEW k \in Nat
  PROVE  x * k \in Nat /\ y * k \in Nat /\ x * k <= y * k
  OBVIOUS

LEMMA RunBytesApart ==
  ASSUME NEW runs, GoodRuns(runs), NEW r \in runs, NEW s \in runs, r # s
  PROVE  RunBytes(r) \cap RunBytes(s) = {}
<1>1. /\ r.index \in Nat /\ r.count \in Nat /\ r.count >= 1
      /\ s.index \in Nat /\ s.count \in Nat /\ s.count >= 1
      /\ r.index \in PagesOf(r) /\ s.index \in PagesOf(s)
  BY RunPages
<1>2. r.index \notin PagesOf(s) /\ s.index \notin PagesOf(r)
  BY <1>1 DEF GoodRuns
<1>3. r.index + r.count <= s.index \/ s.index + s.count <= r.index
  BY <1>1, <1>2 DEF PagesOf, Allocator!Pages
<1>4. PAGE_SIZE \in Nat
  BY PageIsNat
<1>5. CASE r.index + r.count <= s.index
  <2>1. (r.index + r.count) * PAGE_SIZE \in Nat /\ s.index * PAGE_SIZE \in Nat
        /\ (r.index + r.count) * PAGE_SIZE <= s.index * PAGE_SIZE
    BY <1>1, <1>4, <1>5, TimesMonotone
  <2>2. (s.index + s.count) * PAGE_SIZE \in Nat /\ r.index * PAGE_SIZE \in Nat
    BY <1>1, <1>4, TimesMonotone
  <2>3. QED
    BY <2>1, <2>2 DEF RunBytes
<1>6. CASE s.index + s.count <= r.index
  <2>1. (s.index + s.count) * PAGE_SIZE \in Nat /\ r.index * PAGE_SIZE \in Nat
        /\ (s.index + s.count) * PAGE_SIZE <= r.index * PAGE_SIZE
    BY <1>1, <1>4, <1>6, TimesMonotone
  <2>2. (r.index + r.count) * PAGE_SIZE \in Nat /\ s.index * PAGE_SIZE \in Nat
    BY <1>1, <1>4, TimesMonotone
  <2>3. QED
    BY <2>1, <2>2 DEF RunBytes
<1>7. QED
  BY <1>3, <1>5, <1>6

\* Pages that are lent are pages of the kernel.
LEMMA RunBytesAreKernels ==
  ASSUME NEW runs, GoodRuns(runs), NEW r \in runs
  PROVE  RunBytes(r) \subseteq Address
<1>1. /\ r.index \in Nat /\ r.count \in Nat /\ r.count >= 1 /\ PagesOf(r) \subseteq Page
      /\ offset \in Nat /\ Size \in Nat /\ PAGE_SIZE \in Nat
  BY RunPages, SizeIsNat, BitmapAssumption, PageIsNat
<1>2. r.index + r.count - 1 \in Page /\ r.index \in Page
  BY <1>1, RunPages DEF PagesOf, Allocator!Pages
<1>3. offset <= r.index /\ r.index + r.count <= offset + Size
  BY <1>1, <1>2 DEF Page
<1>4. offset * PAGE_SIZE <= r.index * PAGE_SIZE /\ offset * PAGE_SIZE \in Nat
      /\ r.index * PAGE_SIZE \in Nat
  BY <1>1, <1>3, TimesMonotone
<1>5. (r.index + r.count) * PAGE_SIZE <= (offset + Size) * PAGE_SIZE
      /\ (r.index + r.count) * PAGE_SIZE \in Nat /\ (offset + Size) * PAGE_SIZE \in Nat
  BY <1>1, <1>3, TimesMonotone
<1>6. QED
  BY <1>4, <1>5 DEF RunBytes, Address

\* A block lies in the pages of its run.
LEMMA BlockInRun ==
  ASSUME NEW runs, GoodRuns(runs), NEW ar, NEW b, Kind(runs, ar, b)
  PROVE  /\ Heap!Bytes(b) \subseteq RunBytes(RunIn(ar, b))
         /\ b.addr \in RunBytes(RunIn(ar, b))
         /\ b.size \in Request \cup {n * PAGE_SIZE : n \in 1 .. MaxCount}
<1>1. CASE Whole(runs, ar, b)
  <2>1. PICK r \in runs : b.addr = r.index * PAGE_SIZE /\ b.size = r.count * PAGE_SIZE
    BY <1>1 DEF Whole
  <2>2. RunIn(ar, b) = r
    BY <2>1, WholeKind
  <2>3. r.index \in Nat /\ r.count \in 1 .. MaxCount /\ PAGE_SIZE \in Nat \ {0} /\ MaxCount \in Nat
    BY RunPages, PageIsNat, BitmapAssumption DEF GoodRuns, Allocator!Run
  <2>4. (r.index + r.count) * PAGE_SIZE = r.index * PAGE_SIZE + r.count * PAGE_SIZE
    BY <2>3
  <2>5. r.index * PAGE_SIZE \in Nat /\ r.count * PAGE_SIZE \in Nat /\ r.count * PAGE_SIZE >= 1
    <3>1. 1 * PAGE_SIZE <= r.count * PAGE_SIZE
      BY <2>3, TimesMonotone
    <3>2. QED
      BY <2>3, <3>1
  <2>6. QED
    BY <2>1, <2>2, <2>3, <2>4, <2>5 DEF Heap!Bytes, RunBytes
<1>2. CASE Large(runs, ar, b)
  <2>1. PICK r \in runs : /\ b.addr = r.index * PAGE_SIZE + HEADER
                          /\ b.size \in Request /\ HEADER + b.size <= r.count * PAGE_SIZE
                          /\ ar[r.index].large /\ ar[r.index].count = r.count
    BY <1>2 DEF Large
  <2>2. RunIn(ar, b) = r
    BY <2>1, LargeKind
  <2>3. /\ r.index \in Nat /\ r.count \in Nat /\ PAGE_SIZE \in Nat \ {0}
        /\ HEADER \in Nat /\ b.size \in Nat \ {0}
    BY <2>1, RunPages, PageIsNat, ArenaAssumption
  <2>4. (r.index + r.count) * PAGE_SIZE = r.index * PAGE_SIZE + r.count * PAGE_SIZE
    BY <2>3
  <2>5. r.index * PAGE_SIZE \in Nat /\ r.count * PAGE_SIZE \in Nat
    BY <2>3
  <2> DEFINE x == r.index * PAGE_SIZE
             y == r.count * PAGE_SIZE
  <2>6. /\ x \in Nat /\ y \in Nat /\ b.addr = x + HEADER /\ HEADER + b.size <= y
        /\ RunBytes(r) = x .. x + y - 1
    BY <2>1, <2>4, <2>5 DEF RunBytes
  <2> HIDE DEF x, y
  <2>7. Heap!Bytes(b) \subseteq RunBytes(r) /\ b.addr \in RunBytes(r)
    BY <2>3, <2>6 DEF Heap!Bytes
  <2>8. QED
    BY <2>1, <2>2, <2>7
<1>3. CASE Small(runs, ar, b)
  <2>1. PICK p \in Page : /\ OnePage(p) \in runs /\ ~ ar[p].large /\ ar[p].desc \in Desc
                          /\ b.addr \in Blocks(p, ar[p].desc)
                          /\ b.size \in Request /\ b.size <= block_size[ar[p].desc]
    BY <1>3 DEF Small
  <2>2. RunIn(ar, b) = OnePage(p) /\ p \in Nat
    BY <2>1, SmallKind, PageIsNat
  <2> DEFINE k == block_size[ar[p].desc]
  <2>3. b.addr \in Nat /\ p * PAGE_SIZE + HEADER <= b.addr /\ b.addr + k <= p * PAGE_SIZE + PAGE_SIZE
    BY <2>1, <2>2, BlockOfPage
  <2>4. k \in Nat /\ b.size \in Nat \ {0} /\ PAGE_SIZE \in Nat /\ HEADER \in Nat /\ b.size <= k
    BY <2>1, BlockSizes, ArenaAssumption
  <2> HIDE DEF k
  <2>5. p * PAGE_SIZE \in Nat /\ (p + 1) * PAGE_SIZE = p * PAGE_SIZE + PAGE_SIZE
    BY <2>2, <2>4
  <2>6. RunBytes(OnePage(p)) = p * PAGE_SIZE .. p * PAGE_SIZE + PAGE_SIZE - 1
    <3>1. OnePage(p).index = p /\ OnePage(p).count = 1
      BY DEF OnePage
    <3>2. RunBytes(OnePage(p)) = p * PAGE_SIZE .. (p + 1) * PAGE_SIZE - 1
      BY <3>1 DEF RunBytes
    <3>3. QED
      BY <2>4, <2>5, <3>2
  <2> DEFINE x == p * PAGE_SIZE
  <2>7. x \in Nat /\ RunBytes(OnePage(p)) = x .. x + PAGE_SIZE - 1
        /\ x + HEADER <= b.addr /\ b.addr + k <= x + PAGE_SIZE
    BY <2>3, <2>5, <2>6
  <2> HIDE DEF x
  <2>8. b.addr \in Nat /\ x <= b.addr /\ b.addr + b.size <= x + PAGE_SIZE
    BY <2>3, <2>4, <2>7
  <2>9. Heap!Bytes(b) \subseteq RunBytes(OnePage(p)) /\ b.addr \in RunBytes(OnePage(p))
    BY <2>4, <2>7, <2>8 DEF Heap!Bytes
  <2>10. QED
    BY <2>1, <2>2, <2>9
<1>4. QED
  BY <1>1, <1>2, <1>3 DEF Kind

\* Blocks of a page that was cut are one behind the other; others have pages of their own.
LEMMA BytesApart ==
  ASSUME NEW runs, GoodRuns(runs), NEW ar, NEW g, Sound(runs, ar, g),
         NEW b \in g, NEW c \in g, b # c
  PROVE  Heap!Bytes(b) \cap Heap!Bytes(c) = {}
<1>1. /\ Kind(runs, ar, b) /\ RunIn(ar, b) \in runs
      /\ Kind(runs, ar, c) /\ RunIn(ar, c) \in runs
  BY DEF Sound
<1>2. CASE RunIn(ar, b) # RunIn(ar, c)
  BY <1>1, <1>2, BlockInRun, RunBytesApart
<1>3. CASE RunIn(ar, b) = RunIn(ar, c)
  <2>1. Small(runs, ar, b) /\ Small(runs, ar, c) /\ b.addr # c.addr
    BY <1>3 DEF Sound
  <2>2. PICK p \in Page : /\ ~ ar[p].large /\ ar[p].desc \in Desc
                          /\ b.addr \in Blocks(p, ar[p].desc)
                          /\ b.size \in Request /\ b.size <= block_size[ar[p].desc]
    BY <2>1 DEF Small
  <2>3. PICK q \in Page : /\ ~ ar[q].large /\ ar[q].desc \in Desc
                          /\ c.addr \in Blocks(q, ar[q].desc)
                          /\ c.size \in Request /\ c.size <= block_size[ar[q].desc]
    BY <2>1 DEF Small
  <2>4. OnePage(p) = OnePage(q)
    BY <1>3, <2>2, <2>3, SmallKind
  <2>5. p = q
    BY <2>4 DEF OnePage
  <2> DEFINE k == block_size[ar[p].desc]
  <2>6. /\ b.addr \in Nat /\ c.addr \in Nat
        /\ b.addr + k <= c.addr \/ c.addr + k <= b.addr
    BY <2>1, <2>2, <2>3, <2>5, BlockOfPage, PageIsNat
  <2>7. k \in Nat /\ b.size \in Nat /\ c.size \in Nat /\ b.size <= k /\ c.size <= k
    BY <2>2, <2>3, <2>5, BlockSizes, ArenaAssumption
  <2> HIDE DEF k
  <2>8. b.addr + b.size <= c.addr \/ c.addr + c.size <= b.addr
    BY <2>6, <2>7
  <2>9. ASSUME NEW x \in Heap!Bytes(b), x \in Heap!Bytes(c) PROVE FALSE
    BY <2>6, <2>7, <2>8, <2>9 DEF Heap!Bytes
  <2>10. QED
    BY <2>9
<1>4. QED
  BY <1>2, <1>3

-----------------------------------------------------------------------------
(* What the heap promises.                                                   *)

\* Who holds a run is who will give it back.
LEMMA RunsAreThoseOfBlocks ==
  ASSUME HeapInv
  PROVE  PagesAreHeld
<1>1. \A b \in given : RunOf(b) = RunIn(arena, b)
  BY DEF RunOf, RunIn
<1>2. QED
  BY <1>1 DEF HeapInv, Heaped, Sound, PagesAreHeld

\* The pages that were cut are those the free lists are made from.
LEMMA CutIsCutOf ==
  ASSUME IInv, HeapInv, NEW d \in Desc
  PROVE  Cut(d) = CutOf(Held, arena, d)
<1>1. GoodRuns(Held) /\ Sound(Held, arena, given) /\ d # NoDesc
  BY HeldIsGood DEF HeapInv, Heaped, Desc, NoDesc
<1>2. \A b \in given : RunOf(b) = RunIn(arena, b) /\ RunIn(arena, b) \in Held /\ Kind(Held, arena, b)
  BY <1>1 DEF RunOf, RunIn, Sound
<1>3. ASSUME NEW b PROVE Allocator!Used({b}) = PagesOf(b)
  BY DEF Allocator!Used, PagesOf
<1>4. ASSUME NEW p \in CutOf(Held, arena, d) PROVE p \in Cut(d)
  <2>1. p \in Page /\ OnePage(p) \in Held /\ arena[p].desc = d
    BY <1>4 DEF CutOf
  <2>2. p \in PagesOf(OnePage(p)) /\ p \in Allocator!Used(Held)
    BY <2>1, OnePageOf DEF Allocator!Used, PagesOf
  <2>3. ASSUME NEW b \in given, IsPage(b), p \in Allocator!Used({RunOf(b)}) PROVE FALSE
    <3>1. p \in PagesOf(RunIn(arena, b)) /\ RunIn(arena, b) \in Held
      BY <1>2, <1>3, <2>3
    <3>2. RunIn(arena, b) = OnePage(p)
      BY <1>1, <2>1, <2>2, <3>1 DEF GoodRuns
    <3>3. b.addr \in Blocks(p, d)
      BY <1>1, <1>4, <3>2, CutIsSmall
    <3>4. QED
      BY <2>1, <2>3, <3>3, BlockOfPage, PageIsNat DEF IsPage
  <2>4. QED
    BY <2>1, <2>2, <2>3 DEF Cut
<1>5. ASSUME NEW p \in Cut(d) PROVE p \in CutOf(Held, arena, d)
  <2>1. p \in Allocator!Used(Held) /\ arena[p].desc = d
    BY <1>5 DEF Cut
  <2>2. PICK r \in Held : p \in PagesOf(r)
    BY <2>1 DEF Allocator!Used, PagesOf
  <2>3. PICK b \in given : r = RunIn(arena, b)
    BY <1>1 DEF Sound
  <2>4. p \in Page
    BY <1>1, <2>2 DEF GoodRuns
  <2>5. ~ Whole(Held, arena, b)
    <3>1. SUFFICES ASSUME NEW s \in Held, b.addr = s.index * PAGE_SIZE, b.size = s.count * PAGE_SIZE
                   PROVE  FALSE
      BY DEF Whole
    <3>2. IsPage(b)
      BY <1>1, <3>1, WholeKind
    <3>3. QED
      BY <1>2, <1>3, <1>5, <2>2, <2>3, <3>2 DEF Cut
  <2>6. ~ Large(Held, arena, b)
    <3>1. SUFFICES ASSUME NEW s \in Held, b.addr = s.index * PAGE_SIZE + HEADER,
                          arena[s.index].large, arena[s.index].count = s.count,
                          \A q \in PagesOf(s) : arena[q].desc = NoDesc
                   PROVE  FALSE
      BY DEF Large
    <3>2. s = r
      BY <1>1, <2>3, <3>1, LargeKind
    <3>3. QED
      BY <1>1, <2>1, <2>2, <3>1, <3>2
  <2>7. PICK q \in Page : /\ OnePage(q) \in Held /\ ~ arena[q].large /\ arena[q].desc \in Desc
                          /\ b.addr \in Blocks(q, arena[q].desc)
    BY <1>2, <2>3, <2>5, <2>6 DEF Kind, Small
  <2>8. r = OnePage(q)
    BY <2>3, <2>7, SmallKind
  <2>9. p = q
    BY <2>2, <2>7, <2>8, OnePageOf
  <2>10. QED
    BY <2>1, <2>7, <2>9 DEF CutOf
<1>6. QED
  BY <1>4, <1>5

LEMMA ListsAreExact ==
  ASSUME IInv, HeapInv
  PROVE  FreeListsAreExact
<1> SUFFICES ASSUME NEW d \in Desc
             PROVE  LET taken == {b.addr : b \in given}
                    IN /\ IsInjective(free_list[d])
                       /\ Range(free_list[d]) = (UNION {Blocks(p, d) : p \in Cut(d)}) \ taken
                       /\ \A p \in Cut(d) : arena[p].count = Cardinality(Blocks(p, d) \ taken)
  BY DEF FreeListsAreExact
<1>1. Exact(Held, arena, given, free_list[d], d)
  BY DEF HeapInv, Heaped
<1>2. QED
  BY <1>1, CutIsCutOf DEF Exact, Taken

\* A step hands out one block, which overlaps no other, or takes one back.
LEMMA StepIsMalloc ==
  ASSUME HeapInv', IInv',
         HeapNext \/ (\E n \in 1 .. MaxCount : alloc_kpage(n)) \/ UNCHANGED <<vars, heapVars, call>>
  PROVE  [Heap!Next]_given
<1>1. \/ given' = given
      \/ \E addr, size : given' = given \cup {[addr |-> addr, size |-> size]}
      \/ \E block \in given : given' = given \ {block}
  <2>1. CASE (\E n \in 1 .. MaxCount : alloc_kpage(n)) \/ alloc_kpage(1)
             \/ Loop \/ UNCHANGED <<vars, heapVars, call>>
    BY <2>1 DEF alloc_kpage, Ask, Loop, heapVars
  <2>2. ASSUME NEW size \in Request, kmalloc(size)
        PROVE  given' = given \/ \E addr : given' = given \cup {[addr |-> addr, size |-> size]}
    BY <2>2 DEF kmalloc, LargeBlock, NewArena, FreeBlock, Ask, heapVars, Give
  <2>3. CASE GotPage \/ GotLarge \/ GotArena
    BY <2>3 DEF GotPage, GotLarge, GotArena, Give
  <2>4. ASSUME NEW block \in given, free_kpage(block) \/ kfree(block)
        PROVE  given' = given \ {block}
    BY <2>4 DEF free_kpage, kfree, FreeLarge, FreeSmall
  <2>5. QED
    BY <2>1, <2>2, <2>3, <2>4 DEF HeapNext
<1>2. CASE \E addr, size : given' = given \cup {[addr |-> addr, size |-> size]}
  <2>1. PICK addr, size : given' = given \cup {[addr |-> addr, size |-> size]}
    BY <1>2
  <2> DEFINE block == [addr |-> addr, size |-> size]
  <2>2. CASE block \in given
    BY <2>1, <2>2
  <2>3. CASE block \notin given
    <3>1. GoodRuns(Held') /\ Sound(Held', arena', given')
      <4>1. IInv' => GoodRuns(Held')
        BY DEF IInv, TypeOK, RunsFit, RunsAreDisjoint, GoodRuns, PagesOf, Held
      <4>2. QED
        BY <4>1 DEF HeapInv, Heaped
    <3>2. block \in given'
      BY <2>1
    <3>3. Kind(Held', arena', block) /\ RunIn(arena', block) \in Held'
      BY <3>1, <3>2 DEF Sound
    <3>4. /\ Heap!Bytes(block) \subseteq RunBytes(RunIn(arena', block))
          /\ block.addr \in RunBytes(RunIn(arena', block))
          /\ block.size \in Request \cup {n * PAGE_SIZE : n \in 1 .. MaxCount}
      BY <3>1, <3>3, BlockInRun
    <3>5. RunBytes(RunIn(arena', block)) \subseteq Address
      BY <3>1, <3>3, RunBytesAreKernels
    <3>6. block \in Heap!Block /\ Heap!Bytes(block) \subseteq Address
      BY <3>4, <3>5 DEF Heap!Block
    <3>7. \A other \in given : Heap!Bytes(block) \cap Heap!Bytes(other) = {}
      <4>1. ASSUME NEW other \in given PROVE Heap!Bytes(block) \cap Heap!Bytes(other) = {}
        <5>1. other \in given' /\ block # other
          BY <2>1, <2>3
        <5> HIDE DEF block
        <5>2. QED
          BY <3>1, <3>2, <5>1, BytesApart
      <4>2. QED
        BY <4>1
    <3>8. Heap!Allocate(block)
      BY <2>1, <3>6, <3>7 DEF Heap!Allocate
    <3>9. QED
      BY <2>3, <3>2, <3>8 DEF Heap!Next
  <2>4. QED
    BY <2>2, <2>3
<1>3. CASE \E block \in given : given' = given \ {block}
  BY <1>3 DEF Heap!Next, Heap!Release
<1>4. QED
  BY <1>1, <1>2, <1>3

\* Every step of the machine is one of the heap, or asks for the pages of the map of
\* counts, or leaves the heap alone.
LEMMA MemoryStep ==
  ASSUME MemInv, [MemoryNext]_<<vars, heapVars, call, physical>>
  PROVE  HeapNext \/ (\E n \in 1 .. MaxCount : alloc_kpage(n)) \/ UNCHANGED <<vars, heapVars, call>>
<1>1. CASE memory_map_init
  BY <1>1, MapPagesIsCount DEF memory_map_init
<1>2. CASE mapping_init
  BY <1>2 DEF mapping_init, HeapNext
<1>3. CASE Loop
  BY <1>3 DEF HeapNext
<1>4. CASE get_page \/ OutOfMemory \/ \E i \in frames : put_page(i)
  BY <1>4 DEF get_page, OutOfMemory, put_page
<1>5. QED
  BY <1>1, <1>2, <1>3, <1>4 DEF MemoryNext

LEMMA HeapInvHolds == MemorySpec => [](IInv /\ HeapInv)
<1>1. MemoryInit => HeapInv
  BY HeapStarts DEF MemoryInit
<1>2. ASSUME IInv, HeapInv, MemInv, [MemoryNext]_<<vars, heapVars, call, physical>>
      PROVE  HeapInv'
  <2>1. HeapNext \/ (\E n \in 1 .. MaxCount : alloc_kpage(n)) \/ UNCHANGED <<vars, heapVars, call>>
    BY <1>2, MemoryStep
  <2>2. QED
    BY <1>2, <2>1, HeapKeeps
<1>3. QED
  BY <1>1, <1>2, MemInvHolds, MemoryRunsOnBitmap, Inductive, PTL DEF MemorySpec

\* The map of pages holds exactly the runs of the blocks somebody has, with the lengths
\* kfree reads from the headers: no page is lost or given back under a block.
THEOREM PagesStayHeld == MemorySpec => []PagesAreHeld
<1>1. HeapInv => PagesAreHeld
  BY RunsAreThoseOfBlocks
<1>2. QED
  BY <1>1, HeapInvHolds, PTL

\* A free list has the blocks of its pages that nobody has, once each, and the headers
\* count them, so that kmalloc never hands out a block twice and kfree sees when a page
\* has become unused, for any size of pages, header and blocks.
THEOREM FreeListsStayExact == MemorySpec => []FreeListsAreExact
<1>1. IInv /\ HeapInv => FreeListsAreExact
  BY ListsAreExact
<1>2. QED
  BY <1>1, HeapInvHolds, PTL

\* The heap with its lists and headers, and the page allocator under it, implement what
\* kmalloc and alloc_kpage promise: bytes that nobody else holds.
THEOREM HeapIsMalloc == MemorySpec => IsHeap
<1>1. MemoryInit => Heap!Init
  BY DEF MemoryInit, HeapInit, Heap!Init
<1>2. ASSUME MemInv, HeapInv', IInv', [MemoryNext]_<<vars, heapVars, call, physical>>
      PROVE  [Heap!Next]_given
  BY <1>2, MemoryStep, StepIsMalloc
<1>3. QED
  BY <1>1, <1>2, MemInvHolds, HeapInvHolds, PTL DEF MemorySpec, IsHeap, Heap!Spec

-----------------------------------------------------------------------------
(* The map of counts and the frames.                                         *)

ZoneTurn(best, n, zones) ==
  IF n = 0 THEN [base |-> 0, size |-> 0] ELSE Larger(best[n - 1], zones[n])

\* The loop of memory_init takes its turns.
LEMMA ZoneTurns ==
  ASSUME NEW zones, Len(zones) \in Nat
  PROVE  \E best : /\ best = [n \in 0 .. Len(zones) |-> ZoneTurn(best, n, zones)]
                   /\ Zone(zones) = best[Len(zones)]
<1> DEFINE Turn(f, n) == ZoneTurn(f, n, zones)
           Upto(n) == \E f : f = [i \in 0 .. n |-> Turn(f, i)]
           S == {n \in Nat : Upto(n)}
           none == [base |-> 0, size |-> 0]
<1>1. 0 \in S
  <2>1. [i \in {0} |-> none] = [i \in 0 .. 0 |-> Turn([j \in {0} |-> none], i)]
    BY DEF ZoneTurn
  <2>2. QED
    BY <2>1
<1>2. ASSUME NEW n \in Nat, n \in S PROVE n + 1 \in S
  <2>1. PICK f : f = [i \in 0 .. n |-> Turn(f, i)]
    BY <1>2
  <2> DEFINE more == [i \in 0 .. n + 1 |-> IF i = n + 1 THEN Turn(f, n + 1) ELSE f[i]]
  <2>2. \A i \in 0 .. n : more[i] = f[i]
    OBVIOUS
  <2>3. ASSUME NEW i \in 0 .. n + 1 PROVE Turn(more, i) = Turn(f, i)
    <3>1. i # 0 => more[i - 1] = f[i - 1]
      BY <2>2
    <3> HIDE DEF more
    <3>2. QED
      BY <3>1 DEF ZoneTurn
  <2>4. \A i \in 0 .. n : f[i] = Turn(f, i)
    BY <2>1
  <2>5. \A i \in 0 .. n + 1 : more[i] = Turn(f, i)
    BY <2>4
  <2>6. more = [i \in 0 .. n + 1 |-> more[i]]
    OBVIOUS
  <2> HIDE DEF more, Turn
  <2>7. more = [i \in 0 .. n + 1 |-> Turn(more, i)]
    BY <2>3, <2>5, <2>6
  <2>8. QED
    BY <2>7
<1>3. Upto(Len(zones))
  <2> HIDE DEF Upto
  <2>1. \A n \in Nat : n \in S
    <3> HIDE DEF S
    <3>1. QED
      BY <1>1, <1>2, Induction
  <2>2. QED
    BY <2>1
<1>4. QED
  BY <1>3 DEF Zone, ZoneTurn

\* What memory_init takes is a zone the firmware reported as memory, or nothing.
LEMMA ZoneIsReported ==
  ASSUME NEW zones \in Tables
  PROVE  /\ Zone(zones).base \in Nat /\ Zone(zones).size \in Nat
         /\ \/ Zone(zones).base = 0
            \/ \E i \in DOMAIN zones :
                 /\ zones[i].type = ZONE_VALID
                 /\ Zone(zones).base = zones[i].base % WORD
                 /\ Zone(zones).size = zones[i].size % WORD
<1>1. /\ Len(zones) \in Nat /\ DOMAIN zones = 1 .. Len(zones) /\ WORD \in Nat \ {0}
      /\ \A i \in DOMAIN zones : zones[i].base \in Nat /\ zones[i].size \in Nat
  BY TableAssumption, MemoryAssumption
<1>2. PICK best : /\ best = [n \in 0 .. Len(zones) |-> ZoneTurn(best, n, zones)]
                  /\ Zone(zones) = best[Len(zones)]
  BY <1>1, ZoneTurns
<1>3. \A n \in 0 .. Len(zones) : best[n] = ZoneTurn(best, n, zones)
  BY <1>2
<1> DEFINE Reported(z) ==
             \/ z = [base |-> 0, size |-> 0]
             \/ \E i \in DOMAIN zones :
                  /\ zones[i].type = ZONE_VALID
                  /\ z = [base |-> zones[i].base % WORD, size |-> zones[i].size % WORD]
           S == {n \in Nat : n <= Len(zones) => Reported(best[n])}
<1>4. 0 \in S
  BY <1>1, <1>3 DEF ZoneTurn
<1>5. ASSUME NEW n \in Nat, n \in S PROVE n + 1 \in S
  <2>1. SUFFICES ASSUME n + 1 <= Len(zones) PROVE Reported(best[n + 1])
    OBVIOUS
  <2>2. /\ n + 1 \in 0 .. Len(zones) /\ n + 1 # 0 /\ (n + 1) - 1 = n /\ n + 1 \in DOMAIN zones
        /\ Reported(best[n])
    BY <1>1, <1>5, <2>1
  <2>3. best[n + 1] = Larger(best[n], zones[n + 1])
    BY <1>3, <2>2 DEF ZoneTurn
  <2>4. QED
    BY <2>2, <2>3 DEF Larger
<1>6. Reported(Zone(zones))
  <2> HIDE DEF S, Reported
  <2>1. \A n \in Nat : n \in S
    BY <1>4, <1>5, Induction
  <2>2. QED
    BY <1>1, <1>2, <2>1 DEF S
<1>7. \A i \in DOMAIN zones : zones[i].base % WORD \in Nat /\ zones[i].size % WORD \in Nat
  <2>1. ASSUME NEW n \in Nat PROVE n % WORD \in Nat
    BY <1>1, <2>1, Division
  <2>2. QED
    BY <1>1, <2>1
<1>8. QED
  BY <1>6, <1>7

LEMMA DivisionBounds ==
  ASSUME NEW n \in Nat, NEW b \in Nat, b > 0
  PROVE  n \div b \in Nat /\ (n \div b) * b <= n /\ n < (n \div b) * b + b
<1> DEFINE q == n \div b
           r == n % b
<1>1. q \in Int /\ r \in 0 .. b - 1 /\ n = b * q + r
  BY Division
<1> HIDE DEF q, r
<1>2. q >= 0
  <2>1. SUFFICES ASSUME q <= -1 PROVE FALSE
    BY <1>1
  <2>2. b * q <= -b /\ b * q \in Int
    BY <1>1, <2>1
  <2>3. QED
    BY <1>1, <2>2
<1>3. q * b = b * q /\ b * q \in Int
  BY <1>1
<1>4. q \in Nat /\ q * b <= n /\ n < q * b + b
  BY <1>1, <1>2, <1>3
<1>5. QED
  BY <1>4 DEF q

\* The map has a count for each page of the machine.
LEMMA MapNumbers ==
  ASSUME MemInv
  PROVE  /\ total_pages \in Nat /\ memory_map_pages \in 1 .. MaxCount
         /\ start_page = offset + memory_map_pages /\ start_page \in Nat
         /\ total_pages <= memory_map_pages * PAGE_SIZE /\ memory_map_pages * PAGE_SIZE \in Nat
         /\ Frame \subseteq MapEntries /\ Frame \subseteq Nat /\ IsFiniteSet(Frame)
         /\ total_pages = IDX(Zone(table).size) + offset
         /\ IDX(Zone(table).size) * PAGE_SIZE <= Zone(table).size
<1>1. /\ PAGE_SIZE \in Nat /\ PAGE_SIZE > 0 /\ offset \in Nat /\ MaxCount \in Nat
      /\ memory_map_pages \in 1 .. MaxCount
  BY MapPagesIsCount, ArenaAssumption, BitmapAssumption
<1>2. Zone(table).size \in Nat
  BY ZoneIsReported DEF MemInv
<1>3. /\ IDX(Zone(table).size) \in Nat /\ IDX(Zone(table).size) * PAGE_SIZE <= Zone(table).size
  BY <1>1, <1>2, DivisionBounds DEF IDX
<1>4. total_pages = IDX(Zone(table).size) + offset /\ total_pages \in Nat
  BY <1>1, <1>3 DEF MemInv
<1>5. total_pages <= memory_map_pages * PAGE_SIZE
  <2> DEFINE n == total_pages + PAGE_SIZE - 1
  <2>1. n \in Nat
    BY <1>1, <1>4
  <2> HIDE DEF n
  <2>2. n < (n \div PAGE_SIZE) * PAGE_SIZE + PAGE_SIZE /\ n \div PAGE_SIZE \in Nat
    BY <1>1, <2>1, DivisionBounds
  <2>3. memory_map_pages = n \div PAGE_SIZE
    BY DEF memory_map_pages, MapPages, n
  <2>4. n < memory_map_pages * PAGE_SIZE + PAGE_SIZE
    BY <2>2, <2>3
  <2> HIDE DEF memory_map_pages
  <2>5. memory_map_pages * PAGE_SIZE \in Nat
    BY <1>1
  <2>6. QED
    BY <1>1, <1>4, <2>4, <2>5 DEF n
<1>6. start_page = offset + memory_map_pages
  BY DEF start_page
<1> HIDE DEF memory_map_pages, start_page
<1>7. memory_map_pages * PAGE_SIZE \in Nat /\ start_page \in Nat
  BY <1>1, <1>6
<1>8. Frame = start_page .. total_pages - 1 /\ MapEntries = 0 .. memory_map_pages * PAGE_SIZE - 1
  BY DEF Frame, MapEntries
<1>9. Frame \subseteq MapEntries /\ Frame \subseteq Nat
  BY <1>4, <1>5, <1>7, <1>8
<1>10. IsFiniteSet(Frame)
  BY <1>4, <1>7, <1>8, FS_Interval
<1>11. QED
  BY <1>1, <1>3, <1>4, <1>5, <1>6, <1>7, <1>9, <1>10

FreeFrames == {i \in Frame : memory_map[i] = 0}

Starting ==
  stage = "memory_map_init" => lent = {} /\ frames = {} /\ free_pages = total_pages - offset

Scanning ==
  stage = "bitmap_scan" =>
    /\ lent = {} /\ frames = {} /\ pc \in {"look", "mark", "panic"}
    /\ count = memory_map_pages /\ call.size = memory_map_pages * PAGE_SIZE
    /\ free_pages = total_pages - start_page
    /\ memory_map = [i \in MapEntries |-> IF i < start_page THEN 1 ELSE 0]

Running ==
  stage \in {"run", "OOM"} =>
    /\ MapBlock \in given /\ start_page <= Mapped
    /\ DOMAIN memory_map = MapEntries
    /\ frames \subseteq Frame /\ \A i \in frames : memory_map[i] = 1
    /\ Mapped <= total_pages =>
         free_pages = Cardinality(FreeFrames) + Cardinality(start_page .. Mapped - 1)

\* What kernel_init and get_page have done to the map of counts.
MapInv ==
  /\ Zone(table).base = MEMORY_BASE
  /\ stage \in {"memory_map_init", "bitmap_scan", "run", "OOM"}
  /\ Starting /\ Scanning /\ Running

LEMMA MapStarts ==
  ASSUME MemoryInit
  PROVE  MapInv
<1>1. MemInv
  BY DEF MemoryInit, MemInv, FramesAreNotTheKernels
<1>2. total_pages = IDX(Zone(table).size) + offset /\ free_pages = IDX(Zone(table).size)
      /\ stage = "memory_map_init" /\ frames = {} /\ lent = {} /\ Zone(table).base = MEMORY_BASE
  BY DEF MemoryInit, HeapInit, Init
<1>3. IDX(Zone(table).size) \in Nat /\ offset \in Nat
  BY <1>1, ZoneIsReported, DivisionBounds, ArenaAssumption, BitmapAssumption DEF IDX, MemInv
<1>4. free_pages = total_pages - offset
  BY <1>2, <1>3
<1>5. QED
  BY <1>2, <1>4 DEF MapInv, Starting, Scanning, Running

\* Nobody has changed what the map's invariant speaks of.
LEMMA MapStays ==
  ASSUME MapInv, UNCHANGED physical,
         stage = "memory_map_init" => lent' = lent,
         stage = "bitmap_scan" => UNCHANGED <<lent, count, call>> /\ pc' \in {"look", "mark", "panic"},
         stage \in {"run", "OOM"} => MapBlock \in given'
  PROVE  MapInv'
<1>1. /\ table' = table /\ total_pages' = total_pages /\ memory_map' = memory_map
      /\ free_pages' = free_pages /\ stage' = stage /\ frames' = frames
  BY DEF physical
<1>2. /\ memory_map_pages' = memory_map_pages /\ start_page' = start_page
      /\ MapEntries' = MapEntries /\ Frame' = Frame /\ MapBlock' = MapBlock
      /\ FreeFrames' = FreeFrames
  BY <1>1 DEF memory_map_pages, start_page, MapEntries, Frame, MapBlock, FreeFrames
<1>3. Starting'
  BY <1>1 DEF MapInv, Starting
<1>4. Scanning'
  BY <1>1, <1>2 DEF MapInv, Scanning
<1>5. Running'
  BY <1>1, <1>2 DEF MapInv, Running
<1>6. QED
  BY <1>1, <1>3, <1>4, <1>5 DEF MapInv

LEMMA MapInitKeeps ==
  ASSUME MemInv, MapInv, memory_map_init
  PROVE  MapInv'
<1>1. /\ stage = "memory_map_init" /\ stage' = "bitmap_scan"
      /\ free_pages' = free_pages - memory_map_pages
      /\ memory_map' = [i \in MapEntries |-> IF i < start_page THEN 1 ELSE 0]
      /\ table' = table /\ total_pages' = total_pages /\ frames' = frames
  BY DEF memory_map_init
<1>2. /\ lent' = lent /\ pc' = "look" /\ count' = memory_map_pages
      /\ call' = [kind |-> "page", size |-> memory_map_pages * PAGE_SIZE, pages |-> memory_map_pages]
  BY DEF memory_map_init, alloc_kpage, Ask, bitmap_scan
<1>3. memory_map_pages' = memory_map_pages /\ start_page' = start_page /\ MapEntries' = MapEntries
  BY <1>1 DEF memory_map_pages, start_page, MapEntries
<1>4. lent = {} /\ frames = {} /\ free_pages = total_pages - offset
  BY <1>1 DEF MapInv, Starting
<1>5. free_pages' = total_pages' - start_page'
  <2>1. /\ total_pages \in Nat /\ memory_map_pages \in Nat /\ offset \in Nat
        /\ start_page = offset + memory_map_pages
    BY MapNumbers, BitmapAssumption
  <2> HIDE DEF memory_map_pages, start_page
  <2>2. QED
    BY <1>1, <1>3, <1>4, <2>1
<1>6. Scanning'
  BY <1>1, <1>2, <1>3, <1>4, <1>5 DEF Scanning
<1>7. QED
  BY <1>1, <1>6 DEF MapInv, Starting, Running

\* The first run that is lent is at the start of the kernel's memory: that is where
\* memory_map_init has put the map.
LEMMA MapIsFirst ==
  ASSUME IInv, MapInv, stage = "bitmap_scan", GotPage
  PROVE  /\ given' = given \cup {[addr |-> offset * PAGE_SIZE, size |-> call.size]}
         /\ count <= Size
<1>1. pc = "mark" /\ given' = given \cup {[addr |-> (start + offset) * PAGE_SIZE, size |-> call.size]}
  BY DEF GotPage, Got, Return, Give
<1>2. lent = {}
  BY DEF MapInv, Scanning
<1>3. Allocator!IsFirstFit(Lent, count, start + offset) /\ Lent = {} /\ count \in 1 .. MaxCount
  BY <1>1, <1>2 DEF IInv, LoopInv, TypeOK, Lent, Allocator!Used
<1>4. /\ start + offset \in Page /\ Allocator!Pages(start + offset, count) \subseteq Page
      /\ \A j \in Page : Allocator!Pages(j, count) \subseteq Page => start + offset <= j
  BY <1>3 DEF Allocator!IsFirstFit, Allocator!Fits
<1>5. /\ offset \in Nat /\ Size \in Nat /\ count \in Nat /\ count >= 1 /\ MaxCount \in Nat
  BY <1>3, SizeIsNat, BitmapAssumption
<1> DEFINE i == start + offset
<1>6. i \in Nat /\ offset <= i
  BY <1>4, <1>5 DEF Page
<1> HIDE DEF i
<1>7. i + count - 1 \in Page
  BY <1>4, <1>5, <1>6 DEF Allocator!Pages, i
<1>8. i + count <= offset + Size
  BY <1>5, <1>6, <1>7 DEF Page
<1>9. Allocator!Pages(offset, count) \subseteq Page /\ offset \in Page
  BY <1>5, <1>6, <1>8 DEF Allocator!Pages, Page
<1>10. i <= offset
  BY <1>4, <1>9 DEF i
<1>11. start + offset = offset
  BY <1>5, <1>6, <1>10 DEF i
<1>12. QED
  BY <1>1, <1>5, <1>6, <1>8, <1>11

LEMMA MappingKeeps ==
  ASSUME IInv, MemInv, MapInv, mapping_init
  PROVE  MapInv'
<1>1. /\ stage = "bitmap_scan" /\ stage' = "run" /\ GotPage
      /\ memory_map' = [i \in MapEntries |-> IF i \in 1 .. Mapped - 1 THEN 1 ELSE memory_map[i]]
      /\ table' = table /\ total_pages' = total_pages /\ free_pages' = free_pages /\ frames' = frames
  BY DEF mapping_init
<1>2. /\ frames = {} /\ count = memory_map_pages /\ call.size = memory_map_pages * PAGE_SIZE
      /\ free_pages = total_pages - start_page
      /\ memory_map = [i \in MapEntries |-> IF i < start_page THEN 1 ELSE 0]
  BY <1>1 DEF MapInv, Scanning
<1>3. /\ memory_map_pages' = memory_map_pages /\ start_page' = start_page
      /\ MapEntries' = MapEntries /\ Frame' = Frame /\ MapBlock' = MapBlock
  BY <1>1 DEF memory_map_pages, start_page, MapEntries, Frame, MapBlock
<1>4. MapBlock \in given' /\ count <= Size
  BY <1>1, <1>2, MapIsFirst DEF MapBlock, MEMORY_BASE
<1>5. /\ total_pages \in Nat /\ start_page \in Nat /\ memory_map_pages \in Nat
      /\ start_page = offset + memory_map_pages
      /\ offset \in Nat /\ Size \in Nat /\ Mapped = offset + Size
      /\ Frame \subseteq MapEntries /\ Frame \subseteq Nat /\ IsFiniteSet(Frame)
  BY MapNumbers, SizeIsNat, BitmapAssumption, MemoryAssumption
<1>6. start_page <= Mapped /\ start_page >= 1 /\ Mapped \in Nat
  <2>1. memory_map_pages <= Size /\ memory_map_pages >= 1
    BY <1>2, <1>4, MapPagesIsCount, BitmapAssumption
  <2> HIDE DEF memory_map_pages, start_page
  <2>2. QED
    BY <1>5, <2>1
<1> HIDE DEF memory_map_pages, start_page, MapEntries
<1>7. FreeFrames' = Mapped .. total_pages - 1
  <2>1. \A i \in Frame : memory_map'[i] = IF i \in 1 .. Mapped - 1 THEN 1
                                          ELSE IF i < start_page THEN 1 ELSE 0
    BY <1>1, <1>2, <1>5
  <2>2. Frame = start_page .. total_pages - 1
    BY DEF Frame
  <2>3. \A i \in Frame : memory_map'[i] = 0 <=> i \in Mapped .. total_pages - 1
    BY <1>5, <1>6, <2>1, <2>2
  <2>4. Mapped .. total_pages - 1 \subseteq Frame
    BY <1>5, <1>6, <2>2
  <2>5. QED
    BY <1>3, <2>3, <2>4 DEF FreeFrames
<1>8. ASSUME Mapped <= total_pages
      PROVE  free_pages' = Cardinality(FreeFrames') + Cardinality(start_page .. Mapped - 1)
  <2>1. Cardinality(Mapped .. total_pages - 1) = total_pages - Mapped
    BY <1>5, <1>6, <1>8, FS_Interval
  <2>2. Cardinality(start_page .. Mapped - 1) = Mapped - start_page
    <3>1. Mapped - 1 \in Int /\ start_page \in Int
      BY <1>5, <1>6
    <3>2. Cardinality(start_page .. Mapped - 1)
            = IF start_page > Mapped - 1 THEN 0 ELSE (Mapped - 1) - start_page + 1
      BY <3>1, FS_Interval
    <3>3. QED
      BY <1>5, <1>6, <3>2
  <2>3. QED
    BY <1>1, <1>2, <1>5, <1>6, <1>7, <2>1, <2>2
<1>9. Running'
  BY <1>1, <1>2, <1>3, <1>4, <1>6, <1>8 DEF Running
<1>10. QED
  BY <1>1, <1>9 DEF MapInv, Starting, Scanning

\* get_page takes the first frame that is free, put_page gives back one that is not.
LEMMA GetPageKeeps ==
  ASSUME MemInv, MapInv, get_page
  PROVE  MapInv'
<1>1. PICK i \in Frame : /\ memory_map[i] = 0
                         /\ memory_map' = [memory_map EXCEPT ![i] = 1]
                         /\ frames' = frames \cup {i}
  BY DEF get_page
<1>2. /\ stage = "run" /\ stage' = "run" /\ free_pages' = free_pages - 1 /\ given' = given
      /\ table' = table /\ total_pages' = total_pages
  BY DEF get_page, heapVars
<1>3. /\ start_page' = start_page /\ MapEntries' = MapEntries /\ Frame' = Frame
      /\ MapBlock' = MapBlock
  BY <1>2 DEF memory_map_pages, start_page, MapEntries, Frame, MapBlock
<1>4. /\ MapBlock \in given /\ start_page <= Mapped /\ DOMAIN memory_map = MapEntries
      /\ frames \subseteq Frame /\ \A j \in frames : memory_map[j] = 1
      /\ Mapped <= total_pages =>
           free_pages = Cardinality(FreeFrames) + Cardinality(start_page .. Mapped - 1)
  BY <1>2 DEF MapInv, Running
<1>5. i \in DOMAIN memory_map /\ IsFiniteSet(Frame) /\ start_page \in Nat /\ Mapped \in Nat
  BY <1>1, <1>4, MapNumbers, MemoryAssumption
<1>6. DOMAIN memory_map' = MapEntries /\ \A j \in frames' : memory_map'[j] = 1
  BY <1>1, <1>4, <1>5
<1>7. FreeFrames' = FreeFrames \ {i} /\ i \in FreeFrames
  <2>1. \A j \in Frame : memory_map'[j] = IF j = i THEN 1 ELSE memory_map[j]
    BY <1>1, <1>4, MapNumbers
  <2>2. QED
    BY <1>1, <1>3, <2>1 DEF FreeFrames
<1>8. ASSUME Mapped <= total_pages
      PROVE  free_pages' = Cardinality(FreeFrames') + Cardinality(start_page .. Mapped - 1)
  <2>1. IsFiniteSet(FreeFrames)
    BY <1>5, FS_Subset DEF FreeFrames
  <2>2. Cardinality(FreeFrames') = Cardinality(FreeFrames) - 1 /\ Cardinality(FreeFrames) \in Nat
    BY <1>7, <2>1, FS_RemoveElement, FS_CardinalityType
  <2>3. Cardinality(start_page .. Mapped - 1) \in Nat
    <3>1. IsFiniteSet(start_page .. Mapped - 1)
      BY <1>5, FS_Interval
    <3>2. QED
      BY <3>1, FS_CardinalityType
  <2>4. QED
    BY <1>2, <1>4, <1>8, <2>2, <2>3
<1>9. Running'
  BY <1>1, <1>2, <1>3, <1>4, <1>6, <1>8 DEF Running
<1>10. QED
  BY <1>2, <1>9 DEF MapInv, Starting, Scanning

LEMMA PutPageKeeps ==
  ASSUME MemInv, MapInv, NEW i \in frames, put_page(i)
  PROVE  MapInv'
<1>1. /\ stage = "run" /\ stage' = "run" /\ given' = given
      /\ memory_map' = [memory_map EXCEPT ![i] = @ - 1]
      /\ free_pages' = IF memory_map'[i] = 0 THEN free_pages + 1 ELSE free_pages
      /\ frames' = frames \ {i}
      /\ table' = table /\ total_pages' = total_pages
  BY DEF put_page, heapVars
<1>2. /\ start_page' = start_page /\ MapEntries' = MapEntries /\ Frame' = Frame
      /\ MapBlock' = MapBlock
  BY <1>1 DEF memory_map_pages, start_page, MapEntries, Frame, MapBlock
<1>3. /\ MapBlock \in given /\ start_page <= Mapped /\ DOMAIN memory_map = MapEntries
      /\ frames \subseteq Frame /\ \A j \in frames : memory_map[j] = 1
      /\ Mapped <= total_pages =>
           free_pages = Cardinality(FreeFrames) + Cardinality(start_page .. Mapped - 1)
  BY <1>1 DEF MapInv, Running
<1>4. /\ i \in Frame /\ i \in DOMAIN memory_map /\ IsFiniteSet(Frame)
      /\ start_page \in Nat /\ Mapped \in Nat
  BY <1>3, MapNumbers, MemoryAssumption
<1>5. memory_map'[i] = 0
  BY <1>1, <1>3, <1>4
<1>6. DOMAIN memory_map' = MapEntries /\ \A j \in frames' : memory_map'[j] = 1
  BY <1>1, <1>3
<1>7. FreeFrames' = FreeFrames \cup {i} /\ i \notin FreeFrames
  <2>1. \A j \in Frame : memory_map'[j] = IF j = i THEN 0 ELSE memory_map[j]
    BY <1>1, <1>3, <1>5, MapNumbers
  <2>2. QED
    BY <1>2, <1>3, <1>4, <2>1 DEF FreeFrames
<1>8. ASSUME Mapped <= total_pages
      PROVE  free_pages' = Cardinality(FreeFrames') + Cardinality(start_page .. Mapped - 1)
  <2>1. IsFiniteSet(FreeFrames)
    BY <1>4, FS_Subset DEF FreeFrames
  <2>2. Cardinality(FreeFrames') = Cardinality(FreeFrames) + 1 /\ Cardinality(FreeFrames) \in Nat
    BY <1>7, <2>1, FS_AddElement, FS_CardinalityType
  <2>3. Cardinality(start_page .. Mapped - 1) \in Nat
    <3>1. IsFiniteSet(start_page .. Mapped - 1)
      BY <1>4, FS_Interval
    <3>2. QED
      BY <3>1, FS_CardinalityType
  <2>4. free_pages' = free_pages + 1
    BY <1>1, <1>5
  <2>5. QED
    BY <1>3, <1>8, <2>2, <2>3, <2>4
<1>9. Running'
  BY <1>1, <1>2, <1>3, <1>6, <1>8 DEF Running
<1>10. QED
  BY <1>1, <1>9 DEF MapInv, Starting, Scanning

LEMMA MapKeeps ==
  ASSUME IInv, MemInv, MapInv, [MemoryNext]_<<vars, heapVars, call, physical>>
  PROVE  MapInv'
<1>1. CASE stage = "bitmap_scan" /\ Loop /\ UNCHANGED physical
  <2>1. pc \in {"look", "mark", "panic"}
    BY <1>1 DEF MapInv, Scanning
  <2>2. UNCHANGED <<lent, count, call>> /\ pc' \in {"look", "mark", "panic"}
    BY <1>1, <2>1 DEF Loop, Look, Found, Panic, Mark, Clear, Cleared
  <2>3. QED
    BY <1>1, <2>2, MapStays
<1>2. CASE stage = "run" /\ HeapNext /\ MapBlock \in given' /\ UNCHANGED physical
  BY <1>2, MapStays
<1>3. CASE OutOfMemory
  <2>1. /\ stage = "run" /\ stage' = "OOM" /\ given' = given /\ table' = table
        /\ total_pages' = total_pages /\ memory_map' = memory_map
        /\ free_pages' = free_pages /\ frames' = frames
    BY <1>3 DEF OutOfMemory, heapVars
  <2>2. /\ memory_map_pages' = memory_map_pages /\ start_page' = start_page
        /\ MapEntries' = MapEntries /\ Frame' = Frame /\ MapBlock' = MapBlock
        /\ FreeFrames' = FreeFrames
    BY <2>1 DEF memory_map_pages, start_page, MapEntries, Frame, MapBlock, FreeFrames
  <2>3. QED
    BY <2>1, <2>2 DEF MapInv, Starting, Scanning, Running
<1>4. CASE UNCHANGED <<vars, heapVars, call, physical>>
  <2>1. /\ UNCHANGED physical /\ lent' = lent /\ count' = count /\ call' = call /\ pc' = pc
        /\ given' = given
    BY <1>4 DEF vars, heapVars
  <2>2. stage = "bitmap_scan" => pc' \in {"look", "mark", "panic"}
    BY <2>1 DEF MapInv, Scanning
  <2>3. stage \in {"run", "OOM"} => MapBlock \in given'
    BY <2>1 DEF MapInv, Running
  <2>4. QED
    BY <2>1, <2>2, <2>3, MapStays
<1>5. QED
  BY <1>1, <1>2, <1>3, <1>4, MapInitKeeps, MappingKeeps, GetPageKeeps, PutPageKeeps DEF MemoryNext

LEMMA MapInvHolds == MemorySpec => [](MemInv /\ MapInv)
<1>1. MemoryInit => MapInv
  BY MapStarts
<1>2. ASSUME IInv, MemInv, MapInv, [MemoryNext]_<<vars, heapVars, call, physical>>
      PROVE  MapInv'
  BY <1>2, MapKeeps
<1>3. QED
  BY <1>1, <1>2, MemInvHolds, MemoryRunsOnBitmap, Inductive, PTL DEF MemorySpec

\* On a machine that has all the memory which mapping_init maps, free_pages exceeds the
\* number of free frames by the kernel's pages behind the map of counts, and by no more,
\* however many frames come and go.
THEOREM FreePagesStayAhead ==
  MemorySpec => [](Mapped <= total_pages => FreePagesAreAhead)
<1>1. MapInv => (Mapped <= total_pages => FreePagesAreAhead)
  BY DEF MapInv, Running, FreePagesAreAhead, FreeFrames
<1>2. QED
  BY <1>1, MapInvHolds, PTL

\* no zone lies so high that the 32 bits memory_init keeps of its base make it the first
NoZoneFolds ==
  \A i \in DOMAIN table : table[i].base % WORD = MEMORY_BASE => table[i].base = MEMORY_BASE

\* What get_page and the kernel's map take is memory that the firmware has reported, each
\* page has one owner, and the map of counts is the kernel's own: on every machine that
\* has room for the map and no zone whose base folds onto that of another.
THEOREM MemoryStaysDivided ==
  MemorySpec => [](start_page <= total_pages /\ NoZoneFolds => MemoryIsDivided)
<1>1. ASSUME MemInv, MapInv, start_page <= total_pages, NoZoneFolds
      PROVE  MemoryIsDivided
  <2>1. SUFFICES ASSUME stage = "run"
                 PROVE  /\ FramesAreNotTheKernels /\ MapIsTheKernels
                        /\ frames \cup offset .. start_page - 1 \subseteq RAM
    BY DEF MemoryIsDivided
  <2>2. /\ total_pages \in Nat /\ start_page \in Nat /\ offset \in Nat /\ offset <= start_page
        /\ PAGE_SIZE \in Nat /\ Frame = start_page .. total_pages - 1
        /\ total_pages <= memory_map_pages * PAGE_SIZE
        /\ total_pages = IDX(Zone(table).size) + offset
        /\ IDX(Zone(table).size) * PAGE_SIZE <= Zone(table).size
    <3>1. /\ start_page = offset + memory_map_pages /\ memory_map_pages \in 1 .. MaxCount
          /\ MaxCount \in Nat /\ offset \in Nat /\ PAGE_SIZE \in Nat
      BY <1>1, MapNumbers, BitmapAssumption, ArenaAssumption
    <3> HIDE DEF memory_map_pages, start_page
    <3>2. offset <= start_page
      BY <3>1
    <3>3. QED
      BY <1>1, <3>1, <3>2, MapNumbers DEF Frame
  <2>3. MapBlock \in given /\ frames \subseteq Frame
    BY <1>1, <2>1 DEF MapInv, Running
  <2>4. FramesAreNotTheKernels /\ MapIsTheKernels
    BY <1>1, <2>2, <2>3 DEF MemInv, MapIsTheKernels
  <2>5. Zone(table).base = MEMORY_BASE /\ Zone(table).base # 0 /\ table \in Tables
    <3>1. MEMORY_BASE # 0
      BY MemoryAssumption, BitmapAssumption, ArenaAssumption DEF MEMORY_BASE
    <3>2. QED
      BY <1>1, <3>1 DEF MapInv, MemInv
  <2>6. PICK i \in DOMAIN table : /\ table[i].type = ZONE_VALID
                                  /\ Zone(table).base = table[i].base % WORD
                                  /\ Zone(table).size = table[i].size % WORD
    BY <2>5, ZoneIsReported
  <2>7. table[i].base = MEMORY_BASE /\ table[i].size \in Nat
    BY <1>1, <2>5, <2>6, TableAssumption DEF NoZoneFolds
  <2>8. Zone(table).size \in Nat /\ Zone(table).size <= table[i].size
    <3> DEFINE n == table[i].size
    <3>1. n % WORD \in 0 .. WORD - 1 /\ n % WORD <= n
      <4>1. n \in Nat /\ WORD \in Nat /\ WORD > 0
        BY <2>7, MemoryAssumption
      <4> HIDE DEF n
      <4> DEFINE q == n \div WORD
                 r == n % WORD
      <4>2. q * WORD <= n /\ q \in Nat /\ r \in 0 .. WORD - 1 /\ n = WORD * q + r
        BY <4>1, Division, DivisionBounds
      <4> HIDE DEF q, r
      <4>3. WORD * q \in Nat
        BY <4>1, <4>2
      <4>4. r <= n
        BY <4>1, <4>2, <4>3
      <4>5. QED
        BY <4>2, <4>4 DEF r
    <3>2. QED
      BY <2>6, <3>1, MemoryAssumption
  <2>9. ASSUME NEW p \in offset .. total_pages - 1 PROVE p \in RAM
    <3> DEFINE n == IDX(Zone(table).size)
               z == table[i].size
    <3>1. p \in Nat /\ offset <= p /\ p + 1 <= n + offset /\ n \in Nat /\ n * PAGE_SIZE <= z
      <4>1. n \in Nat /\ n * PAGE_SIZE \in Nat
        BY <2>8, DivisionBounds, ArenaAssumption DEF IDX
      <4> HIDE DEF n
      <4>2. n * PAGE_SIZE <= Zone(table).size /\ total_pages = n + offset
        BY <2>2 DEF n
      <4>3. QED
        BY <2>2, <2>7, <2>8, <4>1, <4>2
    <3> HIDE DEF n, z
    <3>2. offset * PAGE_SIZE <= p * PAGE_SIZE
      BY <2>2, <3>1, TimesMonotone
    <3>3. (p + 1) * PAGE_SIZE <= (n + offset) * PAGE_SIZE
      BY <2>2, <3>1, TimesMonotone
    <3>4. (n + offset) * PAGE_SIZE = n * PAGE_SIZE + offset * PAGE_SIZE
      BY <2>2, <3>1
    <3>5. z \in Nat /\ offset * PAGE_SIZE \in Nat /\ n * PAGE_SIZE \in Nat /\ (p + 1) * PAGE_SIZE \in Nat
      BY <2>2, <2>7, <3>1 DEF z
    <3>6. (p + 1) * PAGE_SIZE <= offset * PAGE_SIZE + z
      BY <3>1, <3>3, <3>4, <3>5
    <3>7. table[i].base <= p * PAGE_SIZE /\ (p + 1) * PAGE_SIZE <= table[i].base + table[i].size
      BY <2>7, <3>2, <3>6 DEF MEMORY_BASE, z
    <3>8. p \in 0 .. total_pages - 1
      BY <2>2, <3>1
    <3>9. QED
      BY <2>6, <3>7, <3>8 DEF RAM
  <2>10. frames \cup offset .. start_page - 1 \subseteq offset .. total_pages - 1
    BY <1>1, <2>2, <2>3
  <2>11. QED
    BY <2>4, <2>9, <2>10
<1>2. QED
  BY <1>1, MapInvHolds, PTL
=============================================================================
