---------------------------- MODULE KeyboardProofs ----------------------------
(***************************************************************************)
(* The byte ring is a queue that drops its oldest byte, for every length;  *)
(* and the driver on it is right for any keys and keymap, any number of    *)
(* tasks that read and any length of the line: no byte goes unnoticed, the *)
(* press bits are the keys that are pressed, and reads are exclusive and   *)
(* in order.                                                               *)
(***************************************************************************)
EXTENDS Keyboard, SequenceTheorems, TLAPS

-----------------------------------------------------------------------------
(* The ring.                                                                *)

\* The two cases of a position taken modulo the length.
LEMMA Modulo ==
  \A a \in Int : /\ 0 <= a /\ a < length => a % length = a
                 /\ length <= a /\ a < 2 * length => a % length = a - length
                 /\ -length <= a /\ a < 0 => a % length = a + length
  BY FifoAssumption

LEMMA NextSlot ==
  ASSUME NEW p \in Slot
  PROVE  /\ fifo_next(p) \in Slot
         /\ fifo_next(p) = IF p = length - 1 THEN 0 ELSE p + 1
<1>1. p + 1 \in Int /\ 0 <= p + 1 /\ p + 1 <= length /\ length < 2 * length
  BY FifoAssumption DEF Slot
<1>2. CASE p + 1 < length
  <2>1. (p + 1) % length = p + 1
    BY <1>1, <1>2, Modulo
  <2>2. QED
    BY <1>1, <1>2, <2>1, FifoAssumption DEF Slot, fifo_next
<1>3. CASE p + 1 = length
  <2>1. (p + 1) % length = 0
    BY <1>3, <1>1, FifoAssumption
  <2>2. QED
    BY <1>1, <1>3, <2>1, FifoAssumption DEF Slot, fifo_next
<1>4. QED
  BY <1>1, <1>2, <1>3, FifoAssumption

\* How many bytes there are, without the modulo.
LEMMA CountCases ==
  ASSUME NEW f \in Ring
  PROVE  /\ Count(f) \in 0 .. length - 1
         /\ Count(f) = IF f.tail <= f.head THEN f.head - f.tail
                       ELSE f.head - f.tail + length
         /\ fifo_full(f) <=> Count(f) = length - 1
         /\ fifo_empty(f) <=> Count(f) = 0
<1>1. f.head \in 0 .. length - 1 /\ f.tail \in 0 .. length - 1
  BY DEF Ring, Slot
<1>2. Count(f) = IF f.tail <= f.head THEN f.head - f.tail ELSE f.head - f.tail + length
  BY <1>1, FifoAssumption, Modulo DEF Count
<1>3. fifo_next(f.head) = IF f.head = length - 1 THEN 0 ELSE f.head + 1
  BY <1>1, NextSlot DEF Slot
<1>4. QED
  BY <1>1, <1>2, <1>3, FifoAssumption DEF fifo_full, fifo_empty

\* Contents is a sequence of bytes, one for each position.
LEMMA ContentsIsSeq ==
  ASSUME NEW f \in Ring
  PROVE  /\ Contents(f) \in Seq(Byte)
         /\ Len(Contents(f)) = Count(f)
         /\ \A i \in 1 .. Count(f) :
              /\ (f.tail + i - 1) % length \in Slot
              /\ Contents(f)[i] = f.buf[(f.tail + i - 1) % length]
<1>1. f.tail \in 0 .. length - 1 /\ Count(f) \in 0 .. length - 1
  BY CountCases DEF Ring, Slot
<1>2. \A i \in 1 .. Count(f) : (f.tail + i - 1) % length \in Slot
  BY <1>1, FifoAssumption, Modulo DEF Slot
<1>3. \A i \in 1 .. Count(f) : f.buf[(f.tail + i - 1) % length] \in Byte
  BY <1>2 DEF Ring
<1>4. Count(f) \in Nat
  BY <1>1
<1>5. QED
  BY <1>2, <1>3, <1>4 DEF Contents

\* A get takes the head of the queue off.
LEMMA GetIsTail ==
  ASSUME NEW f \in Ring, ~ fifo_empty(f)
  PROVE  /\ fifo_get(f) \in Ring
         /\ Count(fifo_get(f)) = Count(f) - 1
         /\ Contents(f) # << >>
         /\ Contents(fifo_get(f)) = Tail(Contents(f))
<1> DEFINE g == fifo_get(f)
<1>1. g.tail = fifo_next(f.tail) /\ g.head = f.head /\ g.buf = f.buf
  BY DEF fifo_get, Ring
<1>2. g \in Ring
  BY NextSlot DEF Ring, fifo_get
<1>3. f.tail \in 0 .. length - 1 /\ f.head \in 0 .. length - 1
  BY DEF Ring, Slot
<1>4. g.tail = IF f.tail = length - 1 THEN 0 ELSE f.tail + 1
  BY <1>1, <1>3, NextSlot DEF Slot
<1> HIDE DEF g
<1>5. Count(f) \in 1 .. length - 1 /\ Count(g) = Count(f) - 1
  BY <1>1, <1>2, <1>3, <1>4, CountCases, FifoAssumption
<1>6. Contents(f) # << >> /\ Contents(f) \in Seq(Byte) /\ Len(Contents(f)) = Count(f)
  BY <1>5, ContentsIsSeq, EmptySeq
<1>7. /\ Tail(Contents(f)) \in Seq(Byte)
      /\ Len(Tail(Contents(f))) = Count(f) - 1
      /\ \A i \in 1 .. Count(f) - 1 : Tail(Contents(f))[i] = Contents(f)[i + 1]
  BY <1>6, HeadTailProperties
<1>8. \A i \in 1 .. Count(g) : (g.tail + i - 1) % length = (f.tail + i) % length
  <2> SUFFICES ASSUME NEW i \in 1 .. Count(g)
               PROVE  (g.tail + i - 1) % length = (f.tail + i) % length
    OBVIOUS
  <2>1. CASE f.tail # length - 1
    <3>1. g.tail + i - 1 = f.tail + i
      BY <1>3, <1>4, <2>1, <1>5
    <3>2. QED
      BY <3>1
  <2>2. CASE f.tail = length - 1
    <3>1. /\ g.tail + i - 1 = i - 1 /\ i - 1 \in 0 .. length - 1
          /\ f.tail + i = i - 1 + length
      BY <1>3, <1>4, <2>2, <1>5, FifoAssumption
    <3>2. (i - 1) % length = i - 1
      BY <3>1, FifoAssumption, Modulo
    <3>3. (i - 1 + length) % length = i - 1
      BY <3>1, FifoAssumption, Modulo
    <3>4. QED
      BY <3>1, <3>2, <3>3
  <2>3. QED
    BY <2>1, <2>2
<1>9. \A i \in 1 .. Count(g) : Contents(g)[i] = Contents(f)[i + 1]
  <2> SUFFICES ASSUME NEW i \in 1 .. Count(g) PROVE Contents(g)[i] = Contents(f)[i + 1]
    OBVIOUS
  <2>1. Contents(g)[i] = f.buf[(f.tail + i) % length]
    BY <1>1, <1>2, <1>8, ContentsIsSeq
  <2>2. i + 1 \in 1 .. Count(f) /\ f.tail + (i + 1) - 1 = f.tail + i
    BY <1>3, <1>5
  <2>3. QED
    BY <2>1, <2>2, ContentsIsSeq
<1>10. Contents(g) \in Seq(Byte) /\ Len(Contents(g)) = Count(g)
  BY <1>2, ContentsIsSeq
<1>11. Contents(g) = Tail(Contents(f))
  BY <1>5, <1>7, <1>9, <1>10, SeqEqual
<1>12. QED
  BY <1>2, <1>5, <1>6, <1>11 DEF g

\* A put into a ring with room appends.
LEMMA PutAppends ==
  ASSUME NEW f \in Ring, ~ fifo_full(f), NEW byte \in Byte
  PROVE  LET p == [buf  |-> [f.buf EXCEPT ![f.head] = byte],
                   head |-> fifo_next(f.head),
                   tail |-> f.tail]
         IN p \in Ring /\ Contents(p) = Append(Contents(f), byte)
<1> DEFINE p == [buf  |-> [f.buf EXCEPT ![f.head] = byte],
                 head |-> fifo_next(f.head),
                 tail |-> f.tail]
<1>1. f.tail \in 0 .. length - 1 /\ f.head \in 0 .. length - 1
  BY DEF Ring, Slot
<1>2. p \in Ring
  BY NextSlot DEF Ring
<1>3. p.head = IF f.head = length - 1 THEN 0 ELSE f.head + 1
  BY <1>1, NextSlot DEF Slot
<1>4. p.tail = f.tail /\ p.buf = [f.buf EXCEPT ![f.head] = byte]
  OBVIOUS
<1> HIDE DEF p
<1>5. Count(p) = Count(f) + 1 /\ Count(f) \in 0 .. length - 2
  BY <1>1, <1>2, <1>3, <1>4, CountCases, FifoAssumption
<1>6. (f.tail + Count(f)) % length = f.head
  BY <1>1, <1>5, CountCases, FifoAssumption, Modulo
<1>7. \A i \in 1 .. Count(f) : (f.tail + i - 1) % length # f.head
  BY <1>1, <1>5, CountCases, FifoAssumption, Modulo
<1>8. /\ Contents(f) \in Seq(Byte) /\ Len(Contents(f)) = Count(f)
      /\ Contents(p) \in Seq(Byte) /\ Len(Contents(p)) = Count(p)
  BY <1>2, ContentsIsSeq
<1>9. /\ Append(Contents(f), byte) \in Seq(Byte)
      /\ Len(Append(Contents(f), byte)) = Count(f) + 1
      /\ \A i \in 1 .. Count(f) : Append(Contents(f), byte)[i] = Contents(f)[i]
      /\ Append(Contents(f), byte)[Count(f) + 1] = byte
  BY <1>8, AppendProperties
<1>10. \A i \in 1 .. Count(p) : Contents(p)[i] = Append(Contents(f), byte)[i]
  <2> SUFFICES ASSUME NEW i \in 1 .. Count(p)
               PROVE  Contents(p)[i] = Append(Contents(f), byte)[i]
    OBVIOUS
  <2>1. /\ (f.tail + i - 1) % length \in Slot
        /\ Contents(p)[i] = p.buf[(f.tail + i - 1) % length]
    BY <1>2, <1>4, ContentsIsSeq
  <2>2. CASE i = Count(f) + 1
    <3>1. f.tail + i - 1 = f.tail + Count(f)
      BY <2>2, <1>1, <1>5
    <3>2. p.buf[f.head] = byte
      BY <1>1, <1>4 DEF Ring, Slot
    <3>3. QED
      BY <2>1, <2>2, <3>1, <3>2, <1>6, <1>9
  <2>3. CASE i # Count(f) + 1
    <3>1. i \in 1 .. Count(f)
      BY <2>3, <1>5
    <3>2. p.buf[(f.tail + i - 1) % length] = f.buf[(f.tail + i - 1) % length]
      BY <2>1, <3>1, <1>4, <1>7 DEF Ring
    <3>3. QED
      BY <2>1, <3>1, <3>2, <1>9, ContentsIsSeq
  <2>4. QED
    BY <2>2, <2>3
<1>11. Contents(p) = Append(Contents(f), byte)
  BY <1>5, <1>8, <1>9, <1>10, SeqEqual
<1>12. QED
  BY <1>2, <1>11 DEF p

\* One get makes room, so the loop of fifo_put ends after it.
LEMMA OneGetMakesRoom ==
  ASSUME NEW f \in Ring
  PROVE  MakeRoom(f) \in Ring /\ ~ fifo_full(MakeRoom(f))
<1>1. CASE fifo_full(f)
  <2>1. Count(f) = length - 1 /\ ~ fifo_empty(f)
    BY <1>1, CountCases, FifoAssumption
  <2>2. fifo_get(f) \in Ring /\ Count(fifo_get(f)) = Count(f) - 1
    BY <2>1, GetIsTail
  <2>3. ~ fifo_full(fifo_get(f))
    BY <2>1, <2>2, CountCases, FifoAssumption
  <2>4. QED
    BY <1>1, <2>2, <2>3 DEF MakeRoom
<1>2. CASE ~ fifo_full(f)
  BY <1>2 DEF MakeRoom
<1>3. QED
  BY <1>1, <1>2

\* fifo_put in terms of the queue, room or not.
LEMMA PutIsDropOldest ==
  ASSUME NEW f \in Ring, NEW byte \in Byte
  PROVE  /\ fifo_put(f, byte) \in Ring
         /\ Contents(fifo_put(f, byte)) =
              Append(IF Len(Contents(f)) = length - 1
                     THEN Tail(Contents(f)) ELSE Contents(f), byte)
<1> DEFINE m == MakeRoom(f)
<1>1. m \in Ring /\ ~ fifo_full(m)
  BY OneGetMakesRoom
<1>2. m.head = f.head
  BY DEF MakeRoom, fifo_get, Ring
<1>3. fifo_put(f, byte) = [buf  |-> [m.buf EXCEPT ![m.head] = byte],
                           head |-> fifo_next(m.head),
                           tail |-> m.tail]
  BY <1>2 DEF fifo_put
<1>4. /\ fifo_put(f, byte) \in Ring
      /\ Contents(fifo_put(f, byte)) = Append(Contents(m), byte)
  <2> HIDE DEF m
  <2>1. QED
    BY <1>1, <1>3, PutAppends
<1>5. Contents(m) = IF Len(Contents(f)) = length - 1 THEN Tail(Contents(f)) ELSE Contents(f)
  <2>1. fifo_full(f) <=> Len(Contents(f)) = length - 1
    BY CountCases, ContentsIsSeq
  <2>2. fifo_full(f) => ~ fifo_empty(f)
    BY CountCases, FifoAssumption
  <2>3. QED
    BY <2>1, <2>2, GetIsTail DEF MakeRoom
<1>6. QED
  BY <1>4, <1>5

-----------------------------------------------------------------------------
(* The ring as a machine of its own.                                        *)

Machine == INSTANCE Fifo

LEMMA SameRing ==
  /\ Machine!Ring = Ring
  /\ \A f : /\ Machine!fifo_get(f) = fifo_get(f)
            /\ Machine!fifo_empty(f) <=> fifo_empty(f)
            /\ Machine!Contents(f) = Contents(f)
            /\ \A byte : Machine!fifo_put(f, byte) = fifo_put(f, byte)
<1>1. Machine!Ring = Ring
  BY DEF Machine!Ring, Ring, Machine!Slot, Slot
<1>2. \A p : Machine!fifo_next(p) = fifo_next(p)
  BY DEF Machine!fifo_next, fifo_next
<1>3. \A f : /\ Machine!fifo_get(f) = fifo_get(f)
             /\ Machine!fifo_empty(f) <=> fifo_empty(f)
             /\ Machine!fifo_full(f) <=> fifo_full(f)
  BY <1>2 DEF Machine!fifo_get, fifo_get, Machine!fifo_empty, fifo_empty,
     Machine!fifo_full, fifo_full
<1>4. \A f : Machine!MakeRoom(f) = MakeRoom(f)
  BY <1>3 DEF Machine!MakeRoom, MakeRoom
<1>5. \A f, byte : Machine!fifo_put(f, byte) = fifo_put(f, byte)
  BY <1>2, <1>4 DEF Machine!fifo_put, fifo_put
<1>6. \A f : Machine!Contents(f) = Contents(f)
  BY DEF Machine!Contents, Contents, Machine!Count, Count
<1>7. QED
  BY <1>1, <1>3, <1>5, <1>6

\* head and tail stay inside the buffer.
THEOREM FifoTypeCorrect == Machine!Spec => []Machine!TypeOK
<1>1. Machine!Init => Machine!TypeOK
  BY DEF Machine!Init, Machine!TypeOK
<1>2. Machine!TypeOK /\ [Machine!Next]_fifo => Machine!TypeOK'
  BY SameRing, GetIsTail, PutIsDropOldest
     DEF Machine!TypeOK, Machine!Next, Machine!Get, Machine!Put
<1>3. QED
  BY <1>1, <1>2, PTL DEF Machine!Spec

\* The ring is the drop-oldest queue of length - 1 bytes, for every length.
THEOREM FifoIsByteQueue == Machine!Spec => Machine!IsByteQueue
<1>1. Machine!Init => Machine!Queue!Init
  <2> SUFFICES ASSUME Machine!Init PROVE Contents(fifo) = << >>
    BY SameRing DEF Machine!Queue!Init
  <2>1. fifo \in Ring /\ fifo_empty(fifo)
    BY SameRing DEF Machine!Init, fifo_empty
  <2>2. QED
    BY <2>1, CountCases, ContentsIsSeq, EmptySeq
<1>2. Machine!TypeOK /\ [Machine!Next]_fifo => [Machine!Queue!Next]_(Machine!Contents(fifo))
  <2> SUFFICES ASSUME Machine!TypeOK, Machine!Next PROVE Machine!Queue!Next
    BY DEF Machine!Contents, Machine!Count
  <2>1. fifo \in Ring /\ Machine!Contents(fifo) = Contents(fifo)
        /\ Machine!Contents(fifo)' = Contents(fifo')
    BY SameRing DEF Machine!TypeOK, Machine!Contents, Machine!Count, Contents, Count
  <2>2. CASE Machine!Get
    BY <2>1, <2>2, SameRing, GetIsTail DEF Machine!Get, Machine!Queue!Next, Machine!Queue!Get
  <2>3. CASE \E byte \in Byte : Machine!Put(byte)
    BY <2>1, <2>3, SameRing, PutIsDropOldest
       DEF Machine!Put, Machine!Queue!Next, Machine!Queue!Put
  <2>4. QED
    BY <2>2, <2>3 DEF Machine!Next
<1>3. QED
  BY <1>1, <1>2, FifoTypeCorrect, PTL DEF Machine!Spec, Machine!IsByteQueue, Machine!Queue!Spec

-----------------------------------------------------------------------------
(* The press bits.  The bytes on the line are history of the keyboard the   *)
(* handler has not caught up with: when it has handled them all, the press  *)
(* bits are the keys that are pressed.                                      *)

Bits == [down |-> down, ext |-> extcode_state]
Pressed == {k \in held : k[1] # Bad}

\* what the handler makes of the press bits and the prefix, byte by byte
Handled(bits, byte) ==
  [ext  |-> byte = Prefix,
   down |-> LET k == <<byte.key, IF bits.ext THEN 3 ELSE 2>>
            IN IF byte = Prefix \/ byte.key = Bad THEN bits.down
               ELSE IF byte.up THEN bits.down \ {k} ELSE bits.down \cup {k}]

Replay(bytes, from, to) ==
  \E run : /\ run[0] = from /\ run[Len(bytes)] = to
           /\ \A i \in 1 .. Len(bytes) : run[i] = Handled(run[i - 1], bytes[i])

CaughtUp ==
  /\ held \subseteq Physical
  /\ ~ swallowed => Replay(line, Bits, [down |-> Pressed, ext |-> FALSE])

LEMMA ReplayNone ==
  ASSUME NEW from, NEW to
  PROVE  Replay(<< >>, from, to) <=> from = to
<1>1. Len(<< >>) = 0
  OBVIOUS
<1>2. Replay(<< >>, from, to) => from = to
  BY <1>1 DEF Replay
<1>3. ASSUME from = to PROVE Replay(<< >>, from, to)
  <2> DEFINE run == [i \in {0} |-> from]
  <2>1. run[0] = from /\ run[0] = to
    BY <1>3
  <2> HIDE DEF run
  <2>2. QED
    BY <2>1, <1>1 DEF Replay
<1>4. QED
  BY <1>2, <1>3

\* The handler takes the first byte.
LEMMA ReplayHead ==
  ASSUME NEW S, NEW bytes \in Seq(S), bytes # << >>, NEW from, NEW to,
         Replay(bytes, from, to)
  PROVE  Replay(Tail(bytes), Handled(from, Head(bytes)), to)
<1>1. /\ Len(bytes) \in Nat \ {0} /\ Len(Tail(bytes)) = Len(bytes) - 1
      /\ \A i \in 1 .. Len(bytes) - 1 : Tail(bytes)[i] = bytes[i + 1]
  BY EmptySeq, HeadTailProperties
<1>2. Head(bytes) = bytes[1]
  OBVIOUS
<1>3. PICK run : /\ run[0] = from /\ run[Len(bytes)] = to
                 /\ \A i \in 1 .. Len(bytes) : run[i] = Handled(run[i - 1], bytes[i])
  BY DEF Replay
<1> DEFINE rest == [i \in 0 .. Len(bytes) - 1 |-> run[i + 1]]
<1>4. rest[0] = Handled(from, Head(bytes)) /\ rest[Len(bytes) - 1] = to
  <2>1. rest[0] = run[1] /\ 1 \in 1 .. Len(bytes) /\ 1 - 1 = 0
    BY <1>1
  <2>2. rest[Len(bytes) - 1] = run[Len(bytes)]
    BY <1>1
  <2>3. run[1] = Handled(run[0], bytes[1])
    BY <2>1, <1>3
  <2>4. QED
    BY <2>1, <2>2, <2>3, <1>2, <1>3
<1>5. ASSUME NEW i \in 1 .. Len(bytes) - 1
      PROVE  rest[i] = Handled(rest[i - 1], Tail(bytes)[i])
  <2>1. /\ i + 1 \in 1 .. Len(bytes) /\ (i + 1) - 1 = i
        /\ rest[i] = run[i + 1] /\ rest[i - 1] = run[i]
    BY <1>1
  <2>2. run[i + 1] = Handled(run[(i + 1) - 1], bytes[i + 1])
    BY <2>1, <1>3
  <2>3. QED
    BY <2>1, <2>2, <1>1
<1> HIDE DEF rest
<1>6. QED
  BY <1>1, <1>4, <1>5 DEF Replay

\* The keyboard sends one byte more.
LEMMA ReplayMore ==
  ASSUME NEW S, NEW bytes \in Seq(S), NEW byte \in S, NEW from, NEW to,
         Replay(bytes, from, to)
  PROVE  Replay(bytes \o <<byte>>, from, Handled(to, byte)) /\ bytes \o <<byte>> \in Seq(S)
<1> DEFINE more == bytes \o <<byte>>
<1>1. <<byte>> \in Seq(S) /\ Len(<<byte>>) = 1 /\ <<byte>>[1] = byte
  OBVIOUS
<1>2. /\ Len(bytes) \in Nat /\ more \in Seq(S) /\ Len(more) = Len(bytes) + 1
      /\ \A i \in 1 .. Len(bytes) + 1 :
           more[i] = IF i <= Len(bytes) THEN bytes[i] ELSE <<byte>>[i - Len(bytes)]
  BY <1>1, ConcatProperties, LenProperties
<1> HIDE DEF more
<1>3. PICK run : /\ run[0] = from /\ run[Len(bytes)] = to
                 /\ \A i \in 1 .. Len(bytes) : run[i] = Handled(run[i - 1], bytes[i])
  BY DEF Replay
<1> DEFINE longer == [i \in 0 .. Len(bytes) + 1 |->
                        IF i <= Len(bytes) THEN run[i] ELSE Handled(to, byte)]
<1>4. longer[0] = from /\ longer[Len(bytes) + 1] = Handled(to, byte)
  BY <1>2, <1>3
<1>5. ASSUME NEW i \in 1 .. Len(bytes) + 1
      PROVE  longer[i] = Handled(longer[i - 1], more[i])
  <2>1. CASE i <= Len(bytes)
    <3>1. longer[i] = run[i] /\ longer[i - 1] = run[i - 1] /\ more[i] = bytes[i]
      BY <2>1, <1>2
    <3>2. i \in 1 .. Len(bytes)
      BY <2>1, <1>2
    <3>3. QED
      BY <3>1, <3>2, <1>3
  <2>2. CASE i = Len(bytes) + 1
    <3>1. i - 1 = Len(bytes) /\ i - Len(bytes) = 1 /\ ~ i <= Len(bytes)
      BY <2>2, <1>2
    <3>2. longer[i] = Handled(to, byte) /\ longer[i - 1] = run[Len(bytes)]
      BY <2>2, <3>1, <1>2
    <3>3. more[i] = byte
      BY <3>1, <1>1, <1>2
    <3>4. QED
      BY <3>2, <3>3, <1>3
  <2>3. QED
    BY <2>1, <2>2, <1>2
<1> HIDE DEF longer
<1>6. Replay(more, from, Handled(to, byte))
  BY <1>2, <1>4, <1>5 DEF Replay
<1>7. QED
  BY <1>2, <1>6 DEF more

Line == Seq(MakeCode \cup {Prefix})

LEMMA SentKeepsUp ==
  ASSUME CaughtUp, line \in Line, NEW k \in Physical, NEW up \in BOOLEAN,
         Sends(k[1], k[2], up), held' = IF up THEN held \ {k} ELSE held \cup {k}
  PROVE  CaughtUp' /\ line' \in Line
<1> DEFINE byte == [key |-> k[1], up |-> up]
           all == [down |-> Pressed, ext |-> FALSE]
<1>1. /\ k = <<k[1], k[2]>> /\ k[1] \in Key \cup {Bad} /\ k[2] \in {2, 3}
  BY KeyboardAssumption
<1>2. byte \in MakeCode /\ byte # Prefix /\ byte.key = k[1] /\ byte.up = up
  <2>1. byte \in MakeCode
    BY <1>1 DEF MakeCode
  <2>2. byte.key = k[1] /\ byte.up = up /\ Prefix.key = "0xe0"
    BY DEF Prefix
  <2>3. QED
    BY <2>1, <2>2, <1>1, KeyboardAssumption
<1>3. UNCHANGED <<down, extcode_state, swallowed>>
  BY DEF Sends, handlerVars
<1>4. Bits' = Bits
  BY <1>3 DEF Bits
<1>5. Pressed' = IF k[1] = Bad THEN Pressed ELSE IF up THEN Pressed \ {k} ELSE Pressed \cup {k}
  BY DEF Pressed
<1> HIDE DEF byte
<1>6. CASE k[2] = 2
  <2>1. line' = (line \o << >>) \o <<byte>>
    BY <1>6 DEF Sends, byte
  <2>2. line' = line \o <<byte>>
    BY <2>1, ConcatEmptySeq DEF Line
  <2>3. Handled(all, byte) = [down |-> Pressed', ext |-> FALSE]
    BY <1>1, <1>2, <1>5, <1>6 DEF Handled
  <2>4. line' \in Line
    BY <2>2, <1>2, ConcatProperties DEF Line
  <2>5. ~ swallowed => Replay(line', Bits, Handled(all, byte))
    <3> HIDE DEF all
    <3>1. QED
      BY <2>2, <1>2, ReplayMore DEF CaughtUp, Line, all
  <2>6. QED
    BY <2>3, <2>4, <2>5, <1>3, <1>4 DEF CaughtUp
<1>7. CASE k[2] = 3
  <2> DEFINE first == line \o <<Prefix>>
             between == Handled(all, Prefix)
  <2>1. line' = first \o <<byte>>
    BY <1>7 DEF Sends, byte
  <2>2. between = [down |-> Pressed, ext |-> TRUE]
    BY DEF Handled
  <2>3. Handled(between, byte) = [down |-> Pressed', ext |-> FALSE]
    BY <2>2, <1>1, <1>2, <1>5, <1>7 DEF Handled
  <2>4. first \in Line
    BY ConcatProperties DEF Line
  <2>5. ~ swallowed => Replay(first, Bits, between)
    <3> HIDE DEF all
    <3>1. QED
      BY ReplayMore DEF CaughtUp, Line, all
  <2> HIDE DEF first, between
  <2>6. line' \in Line
    BY <2>1, <2>4, <1>2, ConcatProperties DEF Line
  <2>7. ~ swallowed => Replay(line', Bits, Handled(between, byte))
    BY <2>1, <2>4, <2>5, <1>2, ReplayMore DEF Line
  <2>8. QED
    BY <2>3, <2>6, <2>7, <1>3, <1>4 DEF CaughtUp
<1>8. QED
  BY <1>1, <1>6, <1>7

LEMMA HandlerKeepsUp ==
  ASSUME CaughtUp, line \in Line, extcode_state \in BOOLEAN, keyboard_handler
  PROVE  CaughtUp' /\ line' \in Line /\ Len(line') <= Len(line)
<1>1. /\ line # << >> /\ held' = held /\ Pressed' = Pressed
      /\ Head(line) \in MakeCode \cup {Prefix}
      /\ Tail(line) \in Line /\ Len(Tail(line)) = Len(line) - 1 /\ Len(line) \in Nat
  BY HeadTailProperties, EmptySeq
     DEF keyboard_handler, PrefixByte, IllegalByte, BreakByte, MakeByte, Interrupt, Line, Pressed
<1>2. Bits' = Handled(Bits, Head(line))
  <2>1. CASE PrefixByte
    BY <2>1 DEF PrefixByte, Bits, Handled
  <2>2. CASE IllegalByte
    BY <2>2 DEF IllegalByte, Bits, Handled
  <2>3. CASE BreakByte
    BY <2>3 DEF BreakByte, Bits, Handled, Column
  <2>4. CASE MakeByte
    BY <2>4 DEF MakeByte, Bits, Handled, Column
  <2>5. QED
    BY <2>1, <2>2, <2>3, <2>4 DEF keyboard_handler
<1>3. \/ line' = Tail(line) /\ swallowed' = swallowed
      \/ MakeByte /\ SetLeds(Tail(line))
  BY DEF keyboard_handler, PrefixByte, IllegalByte, BreakByte, MakeByte
<1>4. CASE line' = Tail(line) /\ swallowed' = swallowed
  <2>1. ~ swallowed => Replay(Tail(line), Handled(Bits, Head(line)), [down |-> Pressed, ext |-> FALSE])
    BY <1>1, ReplayHead DEF CaughtUp, Line
  <2>2. QED
    BY <2>1, <1>1, <1>2, <1>4 DEF CaughtUp
<1>5. CASE SetLeds(Tail(line))
  <2> DEFINE rest == Tail(line)
  <2>1. PICK n \in 0 .. Len(rest) : /\ line' = SubSeq(rest, n + 1, Len(rest))
                                    /\ swallowed' = (swallowed \/ n > 0)
    BY <1>5 DEF SetLeds
  <2>2. /\ line' \in Line /\ Len(line') <= Len(rest)
    <3>1. n + 1 \in Int /\ Len(rest) \in Nat /\ \A i \in n + 1 .. Len(rest) : rest[i] \in MakeCode \cup {Prefix}
      BY <1>1, ElementOfSeq, LenProperties DEF Line
    <3>2. /\ SubSeq(rest, n + 1, Len(rest)) \in Line
          /\ Len(SubSeq(rest, n + 1, Len(rest))) = IF n + 1 <= Len(rest) THEN Len(rest) - (n + 1) + 1 ELSE 0
      BY <3>1, SubSeqProperties DEF Line
    <3>3. QED
      BY <2>1, <3>1, <3>2
  <2>3. CASE n = 0
    <3>0. n + 1 = 1 /\ ~ n > 0
      BY <2>3
    <3>1. line' = rest /\ (swallowed' <=> swallowed)
      <4>1. SubSeq(rest, 1, Len(rest)) = rest
        BY <1>1, SubSeqFull DEF Line
      <4>2. line' = rest
        BY <2>1, <3>0, <4>1
      <4>3. swallowed' = (swallowed \/ FALSE)
        BY <2>1, <3>0
      <4>4. QED
        BY <4>2, <4>3
    <3>2. ~ swallowed => Replay(rest, Handled(Bits, Head(line)), [down |-> Pressed, ext |-> FALSE])
      BY <1>1, ReplayHead DEF CaughtUp, Line
    <3>3. QED
      BY <3>1, <3>2, <2>2, <1>1, <1>2 DEF CaughtUp
  <2>4. CASE n # 0
    <3>1. n > 0
      BY <2>4
    <3>2. swallowed'
      BY <2>1, <3>1
    <3>3. QED
      BY <2>2, <3>2, <1>1 DEF CaughtUp
  <2>5. QED
    BY <2>3, <2>4
<1>6. QED
  BY <1>3, <1>4, <1>5

LEMMA OthersKeepUp ==
  ASSUME CaughtUp, UNCHANGED <<handlerVars, deviceVars>>
  PROVE  CaughtUp'
  BY DEF CaughtUp, handlerVars, deviceVars, Bits, Pressed

-----------------------------------------------------------------------------
(* The lock.  A task that waits for a byte is, to the lock, a task that has *)
(* yielded while it had the lock, so every step of the driver is a step of  *)
(* Lock or none; all that is proved of the lock holds here, too.            *)

RunState == {"RUNNING", "READY", "BLOCKED", "WAITING"}
Plain(s) == IF s = "WAITING" THEN "READY" ELSE s

Lk == INSTANCE LockProofs WITH
        Preemptible <- {}, MaxDepth <- 1, state <- [t \in L!Context |-> Plain(state[t])]

\* The calls keep the order of keyboard_read: nothing is read before the lock is
\* taken, and everything before it is released.
Reading ==
  /\ call \in [Task -> [count : Nat, got : Seq(Byte), on : BOOLEAN]]
  /\ \A t \in Task :
       /\ ~ call[t].on => call[t] = NoCall /\ pc[t] = "run" /\ depth[t] = 0
       /\ call[t].on => call[t].count \in Counts
       /\ pc[t] \in {"lock", "wait", "own", "count"} => call[t].got = << >>
       /\ pc[t] \in {"clear", "zero", "unlock", "resume"} => Left(t) = 0
       /\ pc[t] = "run" /\ depth[t] = 0 => Left(t) = 0

\* The task that waits is the one the handler wakes; it has the lock and found the
\* ring empty.
Waiting ==
  /\ \A t \in L!Context : state[t] = "WAITING" <=> waiter = t
  /\ waiter # NoTask => fifo_empty(fifo) /\ pc[waiter] = "run" /\ depth[waiter] = 1

KbdInv == TypeOK /\ Lk!LockInv /\ Reading /\ Waiting /\ CaughtUp

LEMMA LockPremise == {} \subseteq Task /\ Idle \notin Task /\ NoTask \notin Task /\ 1 \in Nat \ {0}
  BY KeyboardAssumption

\* What the lock's invariant says here.
LEMMA LockFacts ==
  ASSUME KbdInv
  PROVE  /\ Lk!Context = L!Context /\ Task \subseteq L!Context /\ Idle \in L!Context
         /\ current \in L!Context /\ waiters \in Seq(Task)
         /\ state \in [L!Context -> RunState]
         /\ pc \in [Task -> L!ControlPoint] /\ depth \in [Task -> 0 .. 1]
         /\ \A t \in L!Context : state[t] = "RUNNING" <=> t = current
         /\ state[Idle] # "WAITING"
         /\ \A t \in Task : pc[t] # "nest" /\ pc[t] # "unnest"
         /\ \A t \in Task : pc[t] \in {"lock", "wait", "own", "count", "resume"} => depth[t] = 0
         /\ \A t \in Task : pc[t] \in {"clear", "zero", "unlock"} => depth[t] = 1
         /\ \A t \in Task : pc[t] = "run" /\ depth[t] = 1 => holder = t /\ repeat = 1
         /\ \A s, t \in Task : depth[s] = 1 /\ depth[t] = 1 => s = t
<1>1. /\ Lk!Context = L!Context /\ Task \subseteq L!Context /\ Idle \in L!Context
      /\ Lk!ControlPoint = L!ControlPoint
  BY DEF Lk!Context, L!Context, Lk!ControlPoint, L!ControlPoint
<1>2. /\ current \in L!Context /\ waiters \in Seq(Task)
      /\ pc \in [Task -> L!ControlPoint] /\ depth \in [Task -> 0 .. 1]
  BY <1>1 DEF KbdInv, Lk!LockInv, Lk!TypeOK
<1>3. state \in [L!Context -> RunState]
  BY DEF KbdInv, TypeOK, RunState
<1>4. \A t \in L!Context : state[t] = "RUNNING" <=> t = current
  <2>1. \A t \in L!Context : Plain(state[t]) = "RUNNING" <=> t = current
    BY <1>1 DEF KbdInv, Lk!LockInv, Lk!RunningInv
  <2>2. QED
    BY <2>1 DEF Plain
<1>5. state[Idle] # "WAITING"
  BY <1>1, KeyboardAssumption DEF KbdInv, Waiting, TypeOK
<1>6. Lk!CountInv /\ Lk!OwnerInv
  BY DEF KbdInv, Lk!LockInv
<1>7. \A t \in Task :
        /\ pc[t] # "nest" /\ pc[t] # "unnest"
        /\ pc[t] \in {"lock", "wait", "own", "count", "resume"} => depth[t] = 0
        /\ pc[t] \in {"clear", "zero", "unlock"} => depth[t] = 1
  BY <1>2, <1>6 DEF Lk!CountInv
<1>8. \A t \in Task : pc[t] = "run" /\ depth[t] = 1 => holder = t /\ repeat = 1
  BY <1>2, <1>6 DEF Lk!CountInv, Lk!OwnerInv, Lk!Holds
<1>9. \A s, t \in Task : depth[s] = 1 /\ depth[t] = 1 => s = t
  <2>1. \A t \in Task : depth[t] = 1 => Lk!Owns(t)
    BY <1>2, <1>7 DEF Lk!Owns, L!ControlPoint
  <2>2. QED
    BY <2>1, <1>6 DEF Lk!OwnerInv
<1>10. QED
  BY <1>1, <1>2, <1>3, <1>4, <1>5, <1>7, <1>8, <1>9

\* schedule() for the driver is schedule() for the lock.
LEMMA ScheduleMaps ==
  ASSUME NEW st \in [L!Context -> RunState], NEW plain \in [L!Context -> RunState],
         current \in L!Context, st[Idle] # "WAITING", L!Schedule(st),
         \A u \in L!Context :
           \/ plain[u] = Plain(st[u])
           \/ u = current /\ st[u] = "WAITING" /\ plain[u] = "RUNNING"
  PROVE  /\ Lk!Schedule(plain)
         /\ state' \in [L!Context -> RunState]
         /\ \A u \in L!Context : state'[u] = "WAITING" <=> st[u] = "WAITING"
<1>1. PICK next \in {u \in L!Context \ {current} : st[u] = "READY"} \cup {Idle} :
        /\ state' = [u \in L!Context |->
                       IF u = next THEN "RUNNING"
                       ELSE IF u = current /\ st[u] = "RUNNING" THEN "READY" ELSE st[u]]
        /\ current' = next
  BY DEF L!Schedule
<1>2. Lk!Context = L!Context /\ Idle \in L!Context
  BY DEF Lk!Context, L!Context
<1>3. \A u \in L!Context : state'[u] =
        IF u = next THEN "RUNNING"
        ELSE IF u = current /\ st[u] = "RUNNING" THEN "READY" ELSE st[u]
  BY <1>1
<1>4. next \in {u \in Lk!Context \ {current} : plain[u] = "READY"} \cup {Idle}
  BY <1>1, <1>2 DEF Plain
<1>5. [u \in L!Context |-> Plain(state'[u])] =
        [u \in Lk!Context |->
           IF u = next THEN "RUNNING"
           ELSE IF u = current /\ plain[u] = "RUNNING" THEN "READY" ELSE plain[u]]
  BY <1>2, <1>3 DEF Plain
<1>6. Lk!Schedule(plain)
  BY <1>1, <1>4, <1>5 DEF Lk!Schedule
<1>7. state' \in [L!Context -> RunState]
  BY <1>1 DEF RunState
<1>8. st[next] # "WAITING"
  BY <1>1
<1>9. QED
  BY <1>3, <1>6, <1>7, <1>8

LEMMA WakeIsYielded ==
  ASSUME KbdInv, state' = [t \in L!Context |-> IF t = waiter THEN "READY" ELSE state[t]]
  PROVE  [t \in L!Context |-> Plain(state'[t])] = [t \in L!Context |-> Plain(state[t])]
<1>1. \A t \in L!Context : t = waiter => state[t] = "WAITING"
  BY DEF KbdInv, Waiting
<1>2. \A t \in L!Context : Plain(state'[t]) = Plain(state[t])
  BY <1>1 DEF Plain
<1>3. QED
  BY <1>2

\* Every step of the driver is a step of the lock, or none.
LEMMA LockRuns ==
  ASSUME KbdInv, [Next]_vars
  PROVE  [Lk!Next]_Lk!vars
<1> DEFINE plain == [t \in L!Context |-> Plain(state[t])]
<1>1. /\ Lk!Context = L!Context /\ Task \subseteq L!Context /\ Idle \in L!Context
      /\ current \in L!Context /\ state \in [L!Context -> RunState] /\ state[Idle] # "WAITING"
      /\ \A t \in L!Context : state[t] = "RUNNING" <=> t = current
      /\ L!Context = Task \cup {Idle} /\ waiters \in Seq(Task)
  BY LockFacts DEF L!Context
<1>2. plain \in [L!Context -> RunState] /\ \A u \in L!Context : plain[u] = Plain(state[u])
  BY <1>1 DEF Plain, RunState
<1>3. ASSUME UNCHANGED <<lockVars, current>>,
             state' = state \/ state' = [t \in L!Context |-> IF t = waiter THEN "READY" ELSE state[t]]
      PROVE  UNCHANGED Lk!vars
  <2>1. [t \in L!Context |-> Plain(state'[t])] = plain
    BY <1>3, WakeIsYielded
  <2>2. QED
    BY <1>3, <2>1 DEF lockVars, Lk!vars
<1>4. CASE UNCHANGED vars
  BY <1>3, <1>4 DEF vars, schedVars
<1>5. CASE \E k \in Physical : Press(k) \/ LetGo(k)
  BY <1>3, <1>5 DEF Press, LetGo, Sends, schedVars
<1>6. CASE keyboard_handler
  BY <1>3, <1>6 DEF keyboard_handler, Interrupt, PrefixByte, IllegalByte, BreakByte, MakeByte,
     Deliver, WakeReader, schedVars
<1>7. ASSUME NEW t \in Task, NEW n \in Counts, keyboard_read(t, n)
      PROVE  Lk!Next
  <2>1. Lk!AcquireTest(t)
    BY <1>7 DEF keyboard_read, L!AcquireTest, Lk!AcquireTest, L!At, Lk!At, L!Goto, Lk!Goto,
       L!lockVars, Lk!lockVars
  <2>2. QED
    BY <2>1 DEF Lk!Next, Lk!Step
<1>8. ASSUME NEW t \in Task, WaitForByte(t)
      PROVE  Lk!Next
  <2> DEFINE st == [state EXCEPT ![t] = "WAITING"]
  <2>1. /\ current = t /\ pc[t] = "run" /\ L!Schedule(st) /\ UNCHANGED lockVars
    BY <1>8 DEF WaitForByte, Inside, Reads
  <2>2. /\ st \in [L!Context -> RunState] /\ st[Idle] # "WAITING"
        /\ \A u \in L!Context : st[u] = IF u = t THEN "WAITING" ELSE state[u]
    BY <1>1, KeyboardAssumption DEF RunState
  <2>3. \A u \in L!Context : \/ plain[u] = Plain(st[u])
                             \/ u = current /\ st[u] = "WAITING" /\ plain[u] = "RUNNING"
    BY <1>1, <1>2, <2>1, <2>2 DEF Plain
  <2> HIDE DEF st, plain
  <2>4. Lk!Schedule(plain)
    BY <1>1, <1>2, <2>1, <2>2, <2>3, ScheduleMaps
  <2> USE DEF plain
  <2>5. Lk!Yield(t)
    BY <2>1, <2>4 DEF Lk!Yield, Lk!lockVars, lockVars
  <2>6. QED
    BY <2>5 DEF Lk!Next, Lk!Step
<1>9. ASSUME NEW t \in Task, TakeByte(t) \/ Return(t)
      PROVE  UNCHANGED Lk!vars
  BY <1>3, <1>9 DEF TakeByte, Return, schedVars
<1>10. ASSUME NEW t \in Task, Finish(t)
       PROVE  Lk!Next
  <2>1. Lk!ReleaseTest(t)
    BY <1>10 DEF Finish, L!ReleaseTest, Lk!ReleaseTest, L!At, Lk!At, L!Goto, Lk!Goto,
       L!lockVars, Lk!lockVars
  <2>2. QED
    BY <2>1 DEF Lk!Next, Lk!Step
<1>11. ASSUME NEW t \in Task, L!MutexWait(t)
       PROVE  Lk!MutexWait(t)
  <2> DEFINE st == [state EXCEPT ![t] = "BLOCKED"]
             blocked == [plain EXCEPT ![t] = "BLOCKED"]
  <2>1. L!Schedule(st)
    BY <1>11 DEF L!MutexWait
  <2>2. /\ st \in [L!Context -> RunState] /\ st[Idle] # "WAITING"
        /\ \A u \in L!Context : st[u] = IF u = t THEN "BLOCKED" ELSE state[u]
    BY <1>1, KeyboardAssumption DEF RunState
  <2>3. /\ blocked \in [L!Context -> RunState]
        /\ \A u \in L!Context : blocked[u] = Plain(st[u])
    BY <1>1, <1>2, <2>2 DEF Plain, RunState
  <2> HIDE DEF st, blocked, plain
  <2>4. Lk!Schedule(blocked)
    BY <1>1, <2>1, <2>2, <2>3, ScheduleMaps
  <2> USE DEF plain, blocked
  <2>5. L!InsertAt(waiters, 1, t) = Lk!InsertAt(waiters, 1, t)
    BY DEF L!InsertAt, Lk!InsertAt
  <2>6. QED
    BY <1>11, <2>4, <2>5 DEF L!MutexWait, Lk!MutexWait, L!At, Lk!At, L!Goto, Lk!Goto
<1>12. ASSUME NEW t \in Task, L!MutexHandOver(t)
       PROVE  Lk!MutexHandOver(t)
  <2> DEFINE w == waiters[Len(waiters)]
             st == [state EXCEPT ![w] = "READY"]
             woken == [plain EXCEPT ![w] = "READY"]
  <2>1. L!Schedule(st)
    BY <1>12 DEF L!MutexHandOver
  <2>2. w \in Task
    <3>1. waiters # << >>
      BY <1>12 DEF L!MutexHandOver
    <3>2. Len(waiters) \in 1 .. Len(waiters)
      BY <1>1, <3>1, EmptySeq
    <3>3. QED
      BY <1>1, <3>2, ElementOfSeq
  <2> HIDE DEF w
  <2>3. /\ st \in [L!Context -> RunState] /\ st[Idle] # "WAITING"
        /\ \A u \in L!Context : st[u] = IF u = w THEN "READY" ELSE state[u]
    BY <1>1, <2>2 DEF RunState
  <2>4. /\ woken \in [L!Context -> RunState]
        /\ \A u \in L!Context : woken[u] = Plain(st[u])
    BY <1>1, <1>2, <2>2, <2>3 DEF Plain, RunState
  <2> HIDE DEF st, woken, plain
  <2>5. Lk!Schedule(woken)
    BY <1>1, <2>1, <2>3, <2>4, ScheduleMaps
  <2> USE DEF plain, woken, w
  <2>6. QED
    BY <1>12, <2>5 DEF L!MutexHandOver, Lk!MutexHandOver, L!At, Lk!At, L!Goto, Lk!Goto
<1>13. ASSUME NEW t \in Task, LockStep(t)
       PROVE  Lk!Next
  <2>1. CASE L!MutexWait(t) \/ L!MutexHandOver(t)
    BY <2>1, <1>11, <1>12 DEF Lk!Next, Lk!Step
  <2>2. CASE L!MutexTake(t) \/ L!SetHolder(t) \/ L!SetRepeat(t) \/ L!Resume(t)
    <3>1. Lk!MutexTake(t) \/ Lk!SetHolder(t) \/ Lk!SetRepeat(t) \/ Lk!Resume(t)
      BY <2>2 DEF L!MutexTake, Lk!MutexTake, L!SetHolder, Lk!SetHolder, L!SetRepeat,
         Lk!SetRepeat, L!Resume, Lk!Resume, L!At, Lk!At, L!Goto, Lk!Goto, L!lockVars, Lk!lockVars
    <3>2. QED
      BY <3>1 DEF Lk!Next, Lk!Step
  <2>3. CASE L!ClearHolder(t) \/ L!ClearRepeat(t) \/ L!MutexFree(t)
    <3>1. Lk!ClearHolder(t) \/ Lk!ClearRepeat(t) \/ Lk!MutexFree(t)
      BY <2>3 DEF L!ClearHolder, Lk!ClearHolder, L!ClearRepeat, Lk!ClearRepeat, L!MutexFree,
         Lk!MutexFree, L!At, Lk!At, L!Goto, Lk!Goto
    <3>2. QED
      BY <3>1 DEF Lk!Next, Lk!Step
  <2>4. QED
    BY <1>13, <2>1, <2>2, <2>3 DEF LockStep
<1>14. CASE Switch
  <2>1. \A u \in L!Context : plain[u] = Plain(state[u])
    BY <1>2
  <2>2. Lk!Schedule(plain)
    <3> HIDE DEF plain
    <3>1. L!Schedule(state)
      BY <1>14 DEF Switch
    <3>2. QED
      BY <1>1, <1>2, <3>1, ScheduleMaps
  <2>3. UNCHANGED <<Lk!lockVars, pc, depth>>
    BY <1>14 DEF Switch, lockVars, Lk!lockVars
  <2>4. CASE current = Idle
    <3>1. Lk!Preempt
      BY <2>2, <2>3, <2>4 DEF Lk!Preempt
    <3>2. QED
      BY <3>1 DEF Lk!Next
  <2>5. CASE current \in Task
    <3>1. pc[current] = "run"
      BY <1>14, <2>5 DEF Switch, InterruptsOn, KbdInv, Reading
    <3>2. Lk!Yield(current)
      BY <2>2, <2>3, <3>1 DEF Lk!Yield
    <3>3. QED
      BY <2>5, <3>2 DEF Lk!Next, Lk!Step
  <2>6. QED
    BY <1>1, <2>4, <2>5
<1>15. CASE Next
  BY <1>15, <1>3, <1>5, <1>6, <1>7, <1>8, <1>9, <1>10, <1>13, <1>14 DEF Next
<1>16. QED
  BY <1>4, <1>3, <1>15

-----------------------------------------------------------------------------
(* The steps of the driver keep the invariant.                              *)

LEMMA Scheduled ==
  ASSUME NEW st \in [L!Context -> RunState], st[Idle] # "WAITING", L!Schedule(st)
  PROVE  /\ state' \in [L!Context -> RunState]
         /\ \A u \in L!Context : state'[u] = "WAITING" <=> st[u] = "WAITING"
<1>1. PICK next \in {u \in L!Context \ {current} : st[u] = "READY"} \cup {Idle} :
        state' = [u \in L!Context |->
                    IF u = next THEN "RUNNING"
                    ELSE IF u = current /\ st[u] = "RUNNING" THEN "READY" ELSE st[u]]
  BY DEF L!Schedule
<1>2. Idle \in L!Context /\ st[next] # "WAITING"
  BY <1>1 DEF L!Context
<1>3. state' \in [L!Context -> RunState]
  BY <1>1 DEF RunState
<1>4. QED
  BY <1>1, <1>2, <1>3

\* A woken waiter of the lock was blocked, not waiting for a byte.
LEMMA LastWaiter ==
  ASSUME KbdInv, waiters # << >>
  PROVE  waiters[Len(waiters)] \in Task /\ state[waiters[Len(waiters)]] = "BLOCKED"
<1> DEFINE w == waiters[Len(waiters)]
<1>1. waiters \in Seq(Task) /\ Len(waiters) \in 1 .. Len(waiters)
  BY LockFacts, EmptySeq
<1>2. w \in Task
  BY <1>1, ElementOfSeq
<1>3. w \in Lk!ToSet(waiters)
  BY <1>1, LenProperties DEF Lk!ToSet
<1>4. Plain(state[w]) = "BLOCKED"
  BY <1>2, <1>3, LockFacts DEF KbdInv, Lk!LockInv, Lk!RunningInv, Lk!WaitersAreBlocked
<1>5. QED
  BY <1>2, <1>4 DEF Plain

\* A step of the lock's code.
LEMMA LockStepKeeps ==
  ASSUME KbdInv, NEW t \in Task, LockStep(t)
  PROVE  Reading' /\ Waiting' /\ state' \in [L!Context -> RunState]
<1>1. /\ current = t /\ state \in [L!Context -> RunState] /\ state[t] = "RUNNING"
      /\ state[Idle] # "WAITING" /\ t \in L!Context /\ Task \subseteq L!Context
      /\ pc \in [Task -> L!ControlPoint] /\ depth \in [Task -> 0 .. 1]
      /\ UNCHANGED <<call, waiter, fifo>>
  BY LockFacts DEF LockStep, L!At, L!MutexWait, L!MutexTake, L!SetHolder, L!SetRepeat,
     L!ClearHolder, L!ClearRepeat, L!MutexFree, L!MutexHandOver, L!Resume, kbdVars
<1>2. PICK to \in L!ControlPoint : /\ pc' = [pc EXCEPT ![t] = to]
                          /\ \/ pc[t] \in {"lock", "wait"} /\ to \in {"wait", "own"}
                             \/ pc[t] = "own" /\ to = "count"
                             \/ pc[t] = "count" /\ to = "run" /\ depth'[t] = 1
                             \/ pc[t] = "clear" /\ to = "zero"
                             \/ pc[t] = "zero" /\ to = "unlock"
                             \/ pc[t] = "unlock" /\ to \in {"run", "resume"}
                             \/ pc[t] = "resume" /\ to = "run"
  BY <1>1 DEF LockStep, L!At, L!Goto, L!MutexWait, L!MutexTake, L!SetHolder, L!SetRepeat,
     L!ClearHolder, L!ClearRepeat, L!MutexFree, L!MutexHandOver, L!Resume, L!ControlPoint
<1>3. \A u \in Task \ {t} : pc'[u] = pc[u] /\ depth'[u] = depth[u]
  BY <1>1, <1>2 DEF LockStep, L!MutexWait, L!MutexTake, L!SetHolder, L!SetRepeat,
     L!ClearHolder, L!ClearRepeat, L!MutexFree, L!MutexHandOver, L!Resume, L!lockVars
<1>4. pc'[t] = to
  BY <1>1, <1>2
<1>5. Reading'
  <2>1. call' \in [Task -> [count : Nat, got : Seq(Byte), on : BOOLEAN]]
    BY <1>1 DEF KbdInv, Reading
  <2>2. \A u \in Task : Left(u)' = Left(u)
    BY <1>1 DEF Left
  <2>3. call[t].on
    BY <1>2 DEF KbdInv, Reading
  <2>4. \A u \in Task \ {t} :
          /\ ~ call'[u].on => call'[u] = NoCall /\ pc'[u] = "run" /\ depth'[u] = 0
          /\ call'[u].on => call'[u].count \in Counts
          /\ pc'[u] \in {"lock", "wait", "own", "count"} => call'[u].got = << >>
          /\ pc'[u] \in {"clear", "zero", "unlock", "resume"} => Left(u)' = 0
          /\ pc'[u] = "run" /\ depth'[u] = 0 => Left(u)' = 0
    BY <1>1, <1>3, <2>2 DEF KbdInv, Reading
  <2>5. /\ ~ call'[t].on => call'[t] = NoCall /\ pc'[t] = "run" /\ depth'[t] = 0
        /\ call'[t].on => call'[t].count \in Counts
        /\ pc'[t] \in {"lock", "wait", "own", "count"} => call'[t].got = << >>
        /\ pc'[t] \in {"clear", "zero", "unlock", "resume"} => Left(t)' = 0
        /\ pc'[t] = "run" /\ depth'[t] = 0 => Left(t)' = 0
    BY <1>1, <1>2, <1>4, <2>2, <2>3 DEF KbdInv, Reading
  <2>6. QED
    BY <2>1, <2>4, <2>5 DEF Reading
<1>6. /\ state' \in [L!Context -> RunState]
      /\ \A u \in L!Context : state'[u] = "WAITING" <=> state[u] = "WAITING"
  <2>1. CASE L!MutexWait(t)
    <3> DEFINE st == [state EXCEPT ![t] = "BLOCKED"]
    <3>1. /\ st \in [L!Context -> RunState] /\ st[Idle] # "WAITING"
          /\ \A u \in L!Context : st[u] = "WAITING" <=> state[u] = "WAITING"
      BY <1>1 DEF RunState
    <3>2. L!Schedule(st)
      BY <2>1 DEF L!MutexWait
    <3> HIDE DEF st
    <3>3. QED
      BY <3>1, <3>2, Scheduled
  <2>2. CASE L!MutexHandOver(t)
    <3> DEFINE w == waiters[Len(waiters)]
               st == [state EXCEPT ![w] = "READY"]
    <3>1. w \in Task /\ state[w] = "BLOCKED" /\ L!Schedule(st)
      BY <2>2, LastWaiter DEF L!MutexHandOver
    <3> HIDE DEF w
    <3>2. /\ st \in [L!Context -> RunState] /\ st[Idle] # "WAITING"
          /\ \A u \in L!Context : st[u] = "WAITING" <=> state[u] = "WAITING"
      BY <1>1, <3>1 DEF RunState
    <3> HIDE DEF st
    <3>3. QED
      BY <3>1, <3>2, Scheduled
  <2>3. CASE UNCHANGED state
    BY <2>3, <1>1
  <2>4. QED
    BY <2>1, <2>2, <2>3 DEF LockStep, L!MutexTake, L!SetHolder, L!SetRepeat,
       L!ClearHolder, L!ClearRepeat, L!MutexFree, L!Resume
<1>7. Waiting'
  <2>1. \A u \in L!Context : state'[u] = "WAITING" <=> waiter' = u
    BY <1>1, <1>6 DEF KbdInv, Waiting
  <2>2. waiter # NoTask => waiter \in Task \ {t}
    BY <1>1 DEF KbdInv, Waiting, TypeOK
  <2>3. QED
    BY <1>1, <1>3, <2>1, <2>2 DEF KbdInv, Waiting
<1>8. QED
  BY <1>5, <1>6, <1>7

\* What is left of the types when the keyboard and the press bits stay as they are.
LEMMA TypesKept ==
  ASSUME KbdInv, UNCHANGED <<handlerVars, deviceVars>>, Lk!LockInv', Reading',
         fifo' \in Ring, waiter' \in Task \cup {NoTask}, state' \in [L!Context -> RunState],
         \A t \in Task : Len(call'[t].got) <= call'[t].count
  PROVE  TypeOK'
<1>1. holder' \in Task \cup {NoTask}
  BY DEF Lk!LockInv, Lk!TypeOK
<1>2. \A t \in Task : call'[t].got \in Seq(Byte)
  BY DEF Reading
<1>3. QED
  BY <1>1, <1>2 DEF KbdInv, TypeOK, RunState, handlerVars, deviceVars

LEMMA LockCodeKeeps ==
  ASSUME KbdInv, NEW t \in Task, LockStep(t), Lk!LockInv'
  PROVE  KbdInv'
<1>1. /\ Reading' /\ Waiting' /\ state' \in [L!Context -> RunState]
      /\ UNCHANGED <<call, fifo, waiter, handlerVars, deviceVars>>
  BY LockStepKeeps DEF LockStep, kbdVars
<1>2. TypeOK'
  BY <1>1, TypesKept DEF KbdInv, TypeOK
<1>3. QED
  BY <1>1, <1>2, OthersKeepUp DEF KbdInv

LEMMA ReadKeeps ==
  ASSUME KbdInv, NEW t \in Task, NEW n \in Counts, keyboard_read(t, n), Lk!LockInv'
  PROVE  KbdInv'
<1>1. /\ current = t /\ ~ call[t].on /\ pc[t] = "run" /\ depth[t] < 1
      /\ UNCHANGED <<fifo, waiter, handlerVars, deviceVars, state, depth>>
  BY DEF keyboard_read, L!AcquireTest, L!At, kbdVars
<1>2. /\ pc \in [Task -> L!ControlPoint] /\ depth \in [Task -> 0 .. 1]
      /\ state \in [L!Context -> RunState] /\ t \in L!Context /\ state[t] = "RUNNING"
  BY <1>1, LockFacts
<1>3. /\ call \in [Task -> [count : Nat, got : Seq(Byte), on : BOOLEAN]]
      /\ n \in Nat /\ << >> \in Seq(Byte) /\ Len(<< >>) = 0
  BY KeyboardAssumption, EmptySeq DEF KbdInv, Reading
<1>4. \A u \in Task : call'[u] = IF u = t THEN [count |-> n, got |-> << >>, on |-> TRUE] ELSE call[u]
  BY <1>3 DEF keyboard_read
<1>5. /\ pc'[t] \in {"lock", "nest"} /\ \A u \in Task \ {t} : pc'[u] = pc[u]
  BY <1>2 DEF keyboard_read, L!AcquireTest, L!Goto
<1>6. pc'[t] = "lock"
  <2>1. pc'[t] # "nest"
    BY DEF Lk!LockInv, Lk!CountInv, Lk!TypeOK
  <2>2. QED
    BY <1>5, <2>1
<1>7. Reading'
  <2>1. call' \in [Task -> [count : Nat, got : Seq(Byte), on : BOOLEAN]]
    BY <1>3 DEF keyboard_read
  <2>2. \A u \in Task \ {t} : Left(u)' = Left(u)
    BY <1>4 DEF Left
  <2>3. QED
    BY <1>1, <1>4, <1>5, <1>6, <2>1, <2>2 DEF KbdInv, Reading
<1>8. Waiting'
  <2>1. waiter # NoTask => waiter \in Task \ {t}
    BY <1>1, <1>2 DEF KbdInv, Waiting, TypeOK
  <2>2. QED
    BY <1>1, <1>5, <2>1 DEF KbdInv, Waiting
<1>9. TypeOK'
  <2>0. \A u \in Task : Len(call[u].got) <= call[u].count
    BY DEF KbdInv, TypeOK
  <2>1. \A u \in Task : Len(call'[u].got) <= call'[u].count
    BY <1>3, <1>4, <2>0
  <2>2. QED
    BY <1>1, <1>2, <1>7, <2>1, TypesKept DEF KbdInv, TypeOK
<1>10. QED
  BY <1>1, <1>7, <1>8, <1>9, OthersKeepUp DEF KbdInv

LEMMA WaitKeeps ==
  ASSUME KbdInv, NEW t \in Task, WaitForByte(t), Lk!LockInv'
  PROVE  KbdInv'
<1> DEFINE st == [state EXCEPT ![t] = "WAITING"]
<1>1. /\ current = t /\ pc[t] = "run" /\ depth[t] = 1 /\ fifo_empty(fifo) /\ waiter' = t
      /\ L!Schedule(st)
      /\ UNCHANGED <<pc, depth, call, fifo, handlerVars, deviceVars>>
  BY DEF WaitForByte, Inside, Reads, lockVars
<1>2. /\ state \in [L!Context -> RunState] /\ t \in L!Context /\ state[t] = "RUNNING"
      /\ state[Idle] # "WAITING" /\ t # Idle /\ Task \subseteq L!Context
      /\ \A u, v \in Task : depth[u] = 1 /\ depth[v] = 1 => u = v
  BY <1>1, LockFacts, KeyboardAssumption
<1>3. /\ st \in [L!Context -> RunState] /\ st[Idle] # "WAITING"
      /\ \A u \in L!Context : st[u] = IF u = t THEN "WAITING" ELSE state[u]
  BY <1>2 DEF RunState
<1> HIDE DEF st
<1>4. /\ state' \in [L!Context -> RunState]
      /\ \A u \in L!Context : state'[u] = "WAITING" <=> st[u] = "WAITING"
  BY <1>1, <1>3, Scheduled
<1>5. waiter = NoTask
  <2>1. waiter \in Task => waiter = t
    BY <1>1, <1>2, KeyboardAssumption DEF KbdInv, Waiting
  <2>2. waiter # t
    BY <1>2 DEF KbdInv, Waiting
  <2>3. QED
    BY <2>1, <2>2 DEF KbdInv, TypeOK
<1>6. Waiting'
  <2>1. \A u \in L!Context : state[u] # "WAITING"
    BY <1>5, KeyboardAssumption DEF KbdInv, Waiting, L!Context
  <2>2. \A u \in L!Context : state'[u] = "WAITING" <=> waiter' = u
    BY <1>1, <1>3, <1>4, <2>1
  <2>3. QED
    BY <1>1, <2>2 DEF Waiting
<1>7. Reading'
  <2>1. \A u \in Task : Left(u)' = Left(u)
    BY <1>1 DEF Left
  <2>2. QED
    BY <1>1, <2>1 DEF KbdInv, Reading
<1>8. TypeOK'
  BY <1>1, <1>4, <1>7, TypesKept DEF KbdInv, TypeOK
<1>9. QED
  BY <1>1, <1>6, <1>7, <1>8, OthersKeepUp DEF KbdInv

\* The byte at the tail is the head of what has been typed and not read.
LEMMA OldestIsHead ==
  ASSUME NEW f \in Ring, ~ fifo_empty(f)
  PROVE  Oldest(f) \in Byte /\ Oldest(f) = Head(Contents(f))
<1>1. Count(f) \in 1 .. length - 1 /\ f.tail \in 0 .. length - 1 /\ f.buf \in [Slot -> Byte]
  BY CountCases, FifoAssumption DEF Ring, Slot
<1>2. Contents(f)[1] = f.buf[(f.tail + 1 - 1) % length]
  BY <1>1, ContentsIsSeq
<1>3. (f.tail + 1 - 1) % length = f.tail
  <2>1. f.tail + 1 - 1 = f.tail /\ f.tail % length = f.tail
    BY <1>1, FifoAssumption, Modulo
  <2>2. QED
    BY <2>1
<1>4. Contents(f) # << >> /\ Contents(f)[1] = Head(Contents(f))
  BY GetIsTail
<1>5. QED
  BY <1>1, <1>2, <1>3, <1>4 DEF Oldest, Slot

LEMMA TakeKeeps ==
  ASSUME KbdInv, NEW t \in Task, TakeByte(t), Lk!LockInv'
  PROVE  KbdInv'
<1>1. /\ current = t /\ pc[t] = "run" /\ depth[t] = 1 /\ ~ fifo_empty(fifo) /\ Left(t) > 0
      /\ call[t].on /\ fifo' = fifo_get(fifo)
      /\ UNCHANGED <<pc, depth, state, waiter, handlerVars, deviceVars>>
  BY DEF TakeByte, Inside, Reads, lockVars, schedVars
<1>2. fifo \in Ring /\ fifo' \in Ring /\ Oldest(fifo) \in Byte
  BY <1>1, GetIsTail, OldestIsHead DEF KbdInv, TypeOK
<1>3. /\ call \in [Task -> [count : Nat, got : Seq(Byte), on : BOOLEAN]]
      /\ call' = [call EXCEPT ![t].got = Append(@, Oldest(fifo))]
  BY DEF TakeByte, KbdInv, Reading
<1>4. /\ Append(call[t].got, Oldest(fifo)) \in Seq(Byte)
      /\ Len(Append(call[t].got, Oldest(fifo))) = Len(call[t].got) + 1
      /\ Len(call[t].got) \in Nat /\ call[t].count \in Nat
  BY <1>2, <1>3, AppendProperties, LenProperties
<1>5. /\ call'[t].got = Append(call[t].got, Oldest(fifo))
      /\ call'[t].count = call[t].count /\ call'[t].on = call[t].on
      /\ \A u \in Task \ {t} : call'[u] = call[u]
      /\ call' \in [Task -> [count : Nat, got : Seq(Byte), on : BOOLEAN]]
  BY <1>3, <1>4
<1>6. Reading'
  <2>1. \A u \in Task \ {t} : Left(u)' = Left(u)
    BY <1>5 DEF Left
  <2>2. \A u \in Task \ {t} :
          /\ ~ call'[u].on => call'[u] = NoCall /\ pc'[u] = "run" /\ depth'[u] = 0
          /\ call'[u].on => call'[u].count \in Counts
          /\ pc'[u] \in {"lock", "wait", "own", "count"} => call'[u].got = << >>
          /\ pc'[u] \in {"clear", "zero", "unlock", "resume"} => Left(u)' = 0
          /\ pc'[u] = "run" /\ depth'[u] = 0 => Left(u)' = 0
    BY <1>1, <1>5, <2>1 DEF KbdInv, Reading
  <2>3. call'[t].on /\ call'[t].count \in Counts /\ pc'[t] = "run" /\ depth'[t] = 1
    BY <1>1, <1>5 DEF KbdInv, Reading
  <2>4. QED
    BY <1>5, <2>2, <2>3 DEF Reading
<1>7. waiter = NoTask
  BY <1>1 DEF KbdInv, Waiting
<1>8. Waiting'
  BY <1>1, <1>7 DEF KbdInv, Waiting
<1>9. TypeOK'
  <2>1. \A u \in Task : Len(call'[u].got) <= call'[u].count
    <3>1. \A u \in Task : Len(call[u].got) <= call[u].count
      BY DEF KbdInv, TypeOK
    <3>2. Len(call'[t].got) <= call'[t].count
      BY <1>1, <1>4, <1>5 DEF Left
    <3>3. QED
      BY <1>5, <3>1, <3>2
  <2>2. state' \in [L!Context -> RunState] /\ waiter' \in Task \cup {NoTask}
    BY <1>1 DEF KbdInv, TypeOK, RunState
  <2>3. QED
    BY <1>1, <1>2, <1>6, <2>1, <2>2, TypesKept
<1>10. QED
  BY <1>1, <1>6, <1>8, <1>9, OthersKeepUp DEF KbdInv

LEMMA FinishKeeps ==
  ASSUME KbdInv, NEW t \in Task, Finish(t), Lk!LockInv'
  PROVE  KbdInv'
<1>1. /\ current = t /\ pc[t] = "run" /\ depth[t] = 1 /\ Left(t) = 0 /\ call[t].on
      /\ UNCHANGED <<depth, state, call, fifo, waiter, handlerVars, deviceVars>>
  BY DEF Finish, Inside, Reads, L!ReleaseTest, kbdVars
<1>2. /\ pc \in [Task -> L!ControlPoint] /\ state[t] = "RUNNING" /\ t \in L!Context
      /\ repeat = 1
  BY <1>1, LockFacts
<1>3. pc'[t] = "clear" /\ \A u \in Task \ {t} : pc'[u] = pc[u]
  BY <1>2 DEF Finish, L!ReleaseTest, L!Goto
<1>4. Reading'
  <2>1. \A u \in Task : Left(u)' = Left(u)
    BY <1>1 DEF Left
  <2>2. QED
    BY <1>1, <1>3, <2>1 DEF KbdInv, Reading
<1>5. waiter # NoTask => waiter \in Task \ {t}
  BY <1>2 DEF KbdInv, Waiting, TypeOK
<1>6. Waiting'
  BY <1>1, <1>3, <1>5 DEF KbdInv, Waiting
<1>7. TypeOK'
  <2>1. state' \in [L!Context -> RunState]
    BY <1>1 DEF KbdInv, TypeOK, RunState
  <2>2. QED
    BY <1>1, <1>4, <2>1, TypesKept DEF KbdInv, TypeOK
<1>8. QED
  BY <1>1, <1>4, <1>6, <1>7, OthersKeepUp DEF KbdInv

LEMMA ReturnKeeps ==
  ASSUME KbdInv, NEW t \in Task, Return(t), Lk!LockInv'
  PROVE  KbdInv'
<1>1. /\ current = t /\ pc[t] = "run" /\ depth[t] = 0
      /\ call' = [call EXCEPT ![t] = NoCall]
      /\ UNCHANGED <<depth, pc, state, fifo, waiter, handlerVars, deviceVars>>
  BY DEF Return, Reads, lockVars, schedVars, kbdVars
<1>2. call \in [Task -> [count : Nat, got : Seq(Byte), on : BOOLEAN]]
  BY DEF KbdInv, Reading
<1>3. NoCall \in [count : Nat, got : Seq(Byte), on : BOOLEAN] /\ Len(NoCall.got) = NoCall.count
      /\ NoCall.on = FALSE /\ NoCall.count - Len(NoCall.got) = 0
  BY EmptySeq DEF NoCall
<1>4. /\ call'[t] = NoCall /\ \A u \in Task \ {t} : call'[u] = call[u]
      /\ call' \in [Task -> [count : Nat, got : Seq(Byte), on : BOOLEAN]]
  BY <1>1, <1>2, <1>3
<1>5. Reading'
  <2>1. \A u \in Task \ {t} : Left(u)' = Left(u)
    BY <1>4 DEF Left
  <2>2. Left(t)' = 0
    BY <1>3, <1>4 DEF Left
  <2>3. QED
    BY <1>1, <1>3, <1>4, <2>1, <2>2 DEF KbdInv, Reading
<1>6. Waiting'
  BY <1>1 DEF KbdInv, Waiting
<1>7. TypeOK'
  <2>1. state' \in [L!Context -> RunState]
    BY <1>1 DEF KbdInv, TypeOK, RunState
  <2>2. \A u \in Task : Len(call[u].got) <= call[u].count
    BY DEF KbdInv, TypeOK
  <2>3. Len(NoCall.got) <= NoCall.count
    BY <1>3 DEF NoCall
  <2>4. \A u \in Task : Len(call'[u].got) <= call'[u].count
    BY <1>4, <2>2, <2>3
  <2>5. QED
    BY <1>1, <1>5, <2>1, <2>4, TypesKept DEF KbdInv, TypeOK
<1>8. QED
  BY <1>1, <1>5, <1>6, <1>7, OthersKeepUp DEF KbdInv

LEMMA SwitchKeeps ==
  ASSUME KbdInv, Switch, Lk!LockInv'
  PROVE  KbdInv'
<1>1. UNCHANGED <<pc, depth, call, fifo, waiter, handlerVars, deviceVars>>
  BY DEF Switch, lockVars, kbdVars
<1>2. /\ state' \in [L!Context -> RunState]
      /\ \A u \in L!Context : state'[u] = "WAITING" <=> state[u] = "WAITING"
  BY LockFacts, Scheduled DEF Switch
<1>3. Waiting'
  BY <1>1, <1>2 DEF KbdInv, Waiting
<1>4. Reading'
  <2>1. \A u \in Task : Left(u)' = Left(u)
    BY <1>1 DEF Left
  <2>2. QED
    BY <1>1, <2>1 DEF KbdInv, Reading
<1>5. TypeOK'
  BY <1>1, <1>2, <1>4, TypesKept DEF KbdInv, TypeOK
<1>6. QED
  BY <1>1, <1>3, <1>4, <1>5, OthersKeepUp DEF KbdInv

LEMMA CharIsByte ==
  ASSUME NEW key \in Key, NEW d, NEW lk
  PROVE  Char(key, d, lk) \in Byte \cup {INV}
<1>1. keymap[key].plain \in Byte \cup {INV} /\ keymap[key].shifted \in Byte \cup {INV}
  BY KeyboardAssumption
<1>2. QED
  BY <1>1 DEF Char

\* The handler puts a byte into the ring and wakes the reader, or does neither.
LEMMA HandlerDelivers ==
  ASSUME KbdInv, keyboard_handler
  PROVE  /\ Reading' /\ Waiting' /\ fifo' \in Ring /\ waiter' \in Task \cup {NoTask}
         /\ state' \in [L!Context -> RunState]
         /\ \/ fifo' = fifo
            \/ \E ch \in Byte : fifo' = fifo_put(fifo, ch)
<1>1. UNCHANGED <<pc, depth, call>>
  BY DEF keyboard_handler, PrefixByte, IllegalByte, BreakByte, MakeByte, Interrupt, lockVars
<1>2. Reading'
  <2>1. \A u \in Task : Left(u)' = Left(u)
    BY <1>1 DEF Left
  <2>2. QED
    BY <1>1, <2>1 DEF KbdInv, Reading
<1>3. state \in [L!Context -> RunState] /\ fifo \in Ring /\ waiter \in Task \cup {NoTask}
  BY DEF KbdInv, TypeOK, RunState
<1>4. CASE UNCHANGED <<fifo, waiter, state>>
  BY <1>1, <1>2, <1>3, <1>4 DEF KbdInv, Waiting
<1>5. ASSUME NEW ch \in Byte, fifo' = fifo_put(fifo, ch), WakeReader
      PROVE  /\ Waiting' /\ fifo' \in Ring /\ waiter' \in Task \cup {NoTask}
             /\ state' \in [L!Context -> RunState]
  <2>1. fifo' \in Ring
    BY <1>3, <1>5, PutIsDropOldest
  <2>2. /\ waiter' = NoTask
        /\ state' = [t \in L!Context |-> IF t = waiter THEN "READY" ELSE state[t]]
    BY <1>5 DEF WakeReader
  <2>3. state' \in [L!Context -> RunState]
    BY <1>3, <2>2 DEF RunState
  <2>4. \A t \in L!Context : state'[t] # "WAITING" /\ t # NoTask
    BY <2>2, KeyboardAssumption DEF KbdInv, Waiting, L!Context
  <2>5. QED
    BY <2>1, <2>2, <2>3, <2>4 DEF Waiting
<1>6. CASE MakeByte
  <2> DEFINE ch == Char(Head(line).key, down', locked')
  <2>1. Deliver(ch) /\ line # << >> /\ Head(line) # Prefix /\ Head(line).key # Bad
    BY <1>6 DEF MakeByte, Interrupt
  <2>2. Head(line).key \in Key
    <3>1. Head(line) \in MakeCode \cup {Prefix}
      BY <2>1, HeadTailProperties DEF KbdInv, TypeOK
    <3>2. QED
      BY <2>1, <3>1 DEF MakeCode
  <2>3. ch \in Byte \cup {INV}
    BY <2>2, CharIsByte
  <2> HIDE DEF ch
  <2>4. QED
    BY <1>2, <1>4, <1>5, <2>1, <2>3 DEF Deliver
<1>7. CASE PrefixByte \/ IllegalByte \/ BreakByte
  BY <1>4, <1>2, <1>7 DEF PrefixByte, IllegalByte, BreakByte, schedVars
<1>8. QED
  BY <1>6, <1>7 DEF keyboard_handler

LEMMA HandlerKeeps ==
  ASSUME KbdInv, keyboard_handler, Lk!LockInv'
  PROVE  KbdInv'
<1>1. /\ Reading' /\ Waiting' /\ fifo' \in Ring /\ waiter' \in Task \cup {NoTask}
      /\ state' \in [L!Context -> RunState]
  BY HandlerDelivers
<1>2. CaughtUp' /\ line' \in Line /\ Len(line') <= Len(line)
  BY HandlerKeepsUp DEF KbdInv, TypeOK, Line
<1>3. Len(line') <= MaxLine
  BY <1>2, KeyboardAssumption, LenProperties DEF KbdInv, TypeOK, Line
<1>4. line # << >> /\ Head(line) \in MakeCode \cup {Prefix}
  <2>1. line # << >>
    BY DEF keyboard_handler, PrefixByte, IllegalByte, BreakByte, MakeByte, Interrupt
  <2>2. QED
    BY <2>1, HeadTailProperties DEF KbdInv, TypeOK
<1>5. /\ down' \subseteq Key \X {2, 3} /\ locked' \subseteq LockKey
      /\ extcode_state' \in BOOLEAN
  <2>1. down \subseteq Key \X {2, 3} /\ locked \subseteq LockKey
    BY DEF KbdInv, TypeOK
  <2>2. CASE PrefixByte \/ IllegalByte
    BY <2>1, <2>2 DEF PrefixByte, IllegalByte
  <2>3. CASE BreakByte
    BY <2>1, <2>3 DEF BreakByte
  <2>4. CASE MakeByte
    <3>1. Head(line).key \in Key
      BY <1>4, <2>4 DEF MakeByte, MakeCode
    <3>2. down' \subseteq Key \X {2, 3}
      BY <2>1, <2>4, <3>1 DEF MakeByte, Column
    <3>3. QED
      BY <2>1, <2>4, <3>2 DEF MakeByte, Toggled
  <2>5. QED
    BY <2>2, <2>3, <2>4 DEF keyboard_handler
<1>6. call' = call /\ holder' = holder
  BY DEF keyboard_handler, PrefixByte, IllegalByte, BreakByte, MakeByte, Interrupt, lockVars
<1>7. TypeOK'
  BY <1>1, <1>2, <1>3, <1>5, <1>6 DEF KbdInv, TypeOK, RunState, Line
<1>8. QED
  BY <1>1, <1>2, <1>7 DEF KbdInv

LEMMA TypingKeeps ==
  ASSUME KbdInv, NEW k \in Physical, Press(k) \/ LetGo(k), Lk!LockInv'
  PROVE  KbdInv'
<1>1. PICK up \in BOOLEAN : /\ Sends(k[1], k[2], up)
                            /\ held' = IF up THEN held \ {k} ELSE held \cup {k}
  BY DEF Press, LetGo
<1>2. /\ UNCHANGED <<lockVars, schedVars, call, fifo, waiter, handlerVars, swallowed>>
      /\ Len(line') <= MaxLine
  BY <1>1 DEF Sends
<1>3. CaughtUp' /\ line' \in Line
  BY <1>1, SentKeepsUp DEF KbdInv, TypeOK, Line
<1>4. Reading'
  <2>1. \A u \in Task : Left(u)' = Left(u)
    BY <1>2 DEF Left
  <2>2. QED
    BY <1>2, <2>1 DEF KbdInv, Reading, lockVars
<1>5. Waiting'
  BY <1>2 DEF KbdInv, Waiting, lockVars, schedVars
<1>6. TypeOK'
  BY <1>2, <1>3 DEF KbdInv, TypeOK, Line, lockVars, schedVars, handlerVars
<1>7. QED
  BY <1>3, <1>4, <1>5, <1>6 DEF KbdInv

LEMMA NextKeepsInv == KbdInv /\ [Next]_vars => KbdInv'
<1> SUFFICES ASSUME KbdInv, [Next]_vars PROVE KbdInv'
  OBVIOUS
<1>1. Lk!LockInv'
  <2>1. [Lk!Next]_Lk!vars /\ Lk!LockInv
    BY LockRuns DEF KbdInv
  <2>2. QED
    BY <2>1, LockPremise, Lk!NextKeepsInv
<1>2. ASSUME NEW k \in Physical, Press(k) \/ LetGo(k) PROVE KbdInv'
  BY <1>1, <1>2, TypingKeeps
<1>3. CASE keyboard_handler
  BY <1>1, <1>3, HandlerKeeps
<1>4. ASSUME NEW t \in Task, NEW n \in Counts, keyboard_read(t, n) PROVE KbdInv'
  BY <1>1, <1>4, ReadKeeps
<1>5. ASSUME NEW t \in Task, WaitForByte(t) \/ TakeByte(t) \/ Finish(t) \/ LockStep(t) \/ Return(t)
      PROVE  KbdInv'
  BY <1>1, <1>5, WaitKeeps, TakeKeeps, FinishKeeps, LockCodeKeeps, ReturnKeeps
<1>6. CASE Switch
  BY <1>1, <1>6, SwitchKeeps
<1>7. CASE UNCHANGED vars
  <2>1. Reading'
    <3>1. \A u \in Task : Left(u)' = Left(u)
      BY <1>7 DEF Left, vars
    <3>2. QED
      BY <1>7, <3>1 DEF KbdInv, Reading, vars, lockVars
  <2>2. Waiting' /\ CaughtUp'
    BY <1>7, OthersKeepUp DEF KbdInv, Waiting, vars, lockVars, schedVars
  <2>3. TypeOK'
    BY <1>7 DEF KbdInv, TypeOK, vars, lockVars, schedVars, handlerVars, deviceVars
  <2>4. QED
    BY <1>1, <2>1, <2>2, <2>3 DEF KbdInv
<1>8. QED
  BY <1>2, <1>3, <1>4, <1>5, <1>6, <1>7 DEF Next

LEMMA InitInv == Init => KbdInv
<1> SUFFICES ASSUME Init PROVE KbdInv
  OBVIOUS
<1>1. /\ state = [t \in L!Context |-> IF t = Idle THEN "RUNNING" ELSE "READY"]
      /\ pc = [t \in Task |-> "run"] /\ depth = [t \in Task |-> 0] /\ holder = NoTask
  BY DEF Init, L!Init
<1>2. [t \in L!Context |-> Plain(state[t])] = state
  BY <1>1 DEF Plain
<1>3. Lk!LockInv
  <2>1. Lk!Context = L!Context
    BY DEF Lk!Context, L!Context
  <2>2. Lk!Init
    BY <1>1, <1>2, <2>1 DEF Init, L!Init, Lk!Init
  <2>3. QED
    BY <2>2, LockPremise, Lk!InitInv
<1>4. /\ NoCall \in [count : Nat, got : Seq(Byte), on : BOOLEAN] /\ ~ NoCall.on
      /\ NoCall.got = << >> /\ NoCall.count = 0 /\ Len(NoCall.got) = 0
  BY EmptySeq DEF NoCall
<1>5. call = [t \in Task |-> NoCall]
  BY DEF Init
<1>6. Reading
  <2>1. \A t \in Task : Left(t) = 0
    BY <1>4, <1>5 DEF Left
  <2>2. QED
    BY <1>1, <1>4, <1>5, <2>1 DEF Reading
<1>7. Waiting
  BY <1>1, KeyboardAssumption DEF Init, Waiting, L!Context
<1>8. CaughtUp
  <2>1. Pressed = {} /\ Bits = [down |-> {}, ext |-> FALSE]
    BY DEF Init, Pressed, Bits, NoKeyDown
  <2>2. Replay(<< >>, Bits, [down |-> Pressed, ext |-> FALSE])
    BY <2>1, ReplayNone
  <2>3. QED
    BY <2>2 DEF Init, CaughtUp
<1>9. fifo \in Ring
  <2>1. (CHOOSE b \in Byte : TRUE) \in Byte
    BY KeyboardAssumption
  <2>2. 0 \in Slot
    BY FifoAssumption DEF Slot
  <2>3. QED
    BY <2>1, <2>2 DEF Init, Ring
<1>10. TypeOK
  <2>1. line = << >> /\ line \in Seq(MakeCode \cup {Prefix}) /\ Len(line) <= MaxLine
    BY EmptySeq, KeyboardAssumption DEF Init
  <2>2. \A t \in Task : call[t].got \in Seq(Byte) /\ Len(call[t].got) <= call[t].count
    BY <1>4, <1>5
  <2>3. QED
    BY <1>1, <1>9, <2>1, <2>2 DEF Init, TypeOK, NoKeyDown
<1>11. QED
  BY <1>3, <1>6, <1>7, <1>8, <1>10 DEF KbdInv

LEMMA InvHolds == Spec => []KbdInv
  BY InitInv, NextKeepsInv, PTL DEF Spec

-----------------------------------------------------------------------------
(* The theorems about the driver.                                           *)

\* Every variable of the driver keeps its type, and a read never has more bytes than
\* it wants.
THEOREM KeyboardTypes == Spec => []TypeOK
<1>1. KbdInv => TypeOK
  BY DEF KbdInv
<1>2. QED
  BY <1>1, InvHolds, PTL

\* A task that waits for a byte has the lock, finds the ring empty, and is the task the
\* handler wakes, whatever comes between its look at the ring and its sleep.
THEOREM BytesAreNoticed == Spec => []NoByteUnnoticed
<1>1. KbdInv => NoByteUnnoticed
  <2> SUFFICES ASSUME KbdInv PROVE NoByteUnnoticed
    OBVIOUS
  <2>1. \A t \in Task : state[t] = "WAITING" <=> waiter = t
    BY LockFacts DEF KbdInv, Waiting
  <2>2. waiter # NoTask => waiter \in Task
    BY DEF KbdInv, TypeOK
  <2>3. waiter # NoTask => fifo_empty(fifo) /\ holder = waiter
    BY <2>2, LockFacts DEF KbdInv, Waiting
  <2>4. QED
    BY <2>1, <2>3 DEF NoByteUnnoticed
<1>2. QED
  BY <1>1, InvHolds, PTL

\* When the handler has seen every byte, and set_leds has taken none, the press bits
\* are the keys that are pressed, for any keys and however many bytes pile up.
THEOREM KeymapKeepsUp == Spec => []KeymapIsWhatIsPressed
<1>1. KbdInv => KeymapIsWhatIsPressed
  <2> SUFFICES ASSUME KbdInv, line = << >>, ~ swallowed
               PROVE  down = Pressed /\ extcode_state = FALSE
    BY DEF KeymapIsWhatIsPressed, Pressed
  <2>1. Bits = [down |-> Pressed, ext |-> FALSE]
    BY ReplayNone DEF KbdInv, CaughtUp
  <2>2. QED
    BY <2>1 DEF Bits
<1>2. QED
  BY <1>1, InvHolds, PTL

\* The driver makes only steps of the lock, so what LockProofs shows of it is true
\* under keyboard_read: its callers exclude each other.
THEOREM ReadersExclude == Spec => [](Lk!MutualExclusion /\ Lk!AssertionsHold)
<1>1. Init => Lk!Init
  <2> SUFFICES ASSUME Init PROVE Lk!Init
    OBVIOUS
  <2>1. /\ Lk!Context = L!Context
        /\ state = [t \in L!Context |-> IF t = Idle THEN "RUNNING" ELSE "READY"]
    BY DEF Lk!Context, L!Context, Init, L!Init
  <2>2. [t \in L!Context |-> Plain(state[t])] = state
    BY <2>1 DEF Plain
  <2>3. QED
    BY <2>1, <2>2 DEF Init, L!Init, Lk!Init
<1>2. KbdInv /\ [Next]_vars => [Lk!Next]_Lk!vars
  BY LockRuns
<1>3. Spec => Lk!Spec
  BY <1>1, <1>2, InvHolds, PTL DEF Spec, Lk!Spec
<1>4. Lk!Spec => []Lk!MutualExclusion
  BY LockPremise, Lk!LockExcludes
<1>5. Lk!Spec => [](Lk!AssertionsHold /\ Lk!RepeatIsDepth /\ Lk!WaitersAreBlocked)
  BY LockPremise, Lk!LockAssertionsHold
<1>6. QED
  BY <1>3, <1>4, <1>5, PTL

-----------------------------------------------------------------------------
(* The keyboard and its readers implement the blocking reader.              *)

ReaderOf(d) == IF \E t \in Task : d[t] > 0 THEN CHOOSE t \in Task : d[t] > 0 ELSE NoTask

LEMMA ReaderCases ==
  ASSUME NEW d \in [Task -> 0 .. 1], \A s, t \in Task : d[s] = 1 /\ d[t] = 1 => s = t
  PROVE  /\ \A t \in Task : d[t] = 1 => ReaderOf(d) = t
         /\ (\A t \in Task : d[t] = 0) => ReaderOf(d) = NoTask
         /\ ReaderOf(d) # NoTask => ReaderOf(d) \in Task /\ d[ReaderOf(d)] = 1
<1>1. \A t \in Task : d[t] > 0 <=> d[t] = 1
  OBVIOUS
<1>2. ASSUME NEW t \in Task, d[t] = 1 PROVE ReaderOf(d) = t
  <2>1. \E u \in Task : d[u] > 0
    BY <1>1, <1>2
  <2>2. (CHOOSE u \in Task : d[u] > 0) \in Task /\ d[CHOOSE u \in Task : d[u] > 0] > 0
    BY <2>1
  <2>3. QED
    BY <1>1, <1>2, <2>1, <2>2 DEF ReaderOf
<1>3. (\A t \in Task : d[t] = 0) => ReaderOf(d) = NoTask
  BY <1>1 DEF ReaderOf
<1>4. ReaderOf(d) # NoTask => ReaderOf(d) \in Task /\ d[ReaderOf(d)] = 1
  BY <1>1, <1>2 DEF ReaderOf
<1>5. QED
  BY <1>2, <1>3, <1>4

ReaderCount == IF Reader = NoTask THEN 0 ELSE call[Reader].count
ReaderGot == IF Reader = NoTask THEN << >> ELSE call[Reader].got

\* A step that leaves the ring and the reader's call as they are is not seen.
LEMMA Unseen ==
  ASSUME KbdInv, KbdInv', UNCHANGED <<depth, fifo>>,
         \A t \in Task : depth[t] = 1 => call'[t] = call[t]
  PROVE  UNCHANGED Stream!vars
<1>1. Reader = ReaderOf(depth) /\ Reader' = ReaderOf(depth')
  BY DEF Reader, ReaderOf
<1>2. Reader' = Reader
  BY <1>1
<1>3. Reader # NoTask => Reader \in Task /\ depth[Reader] = 1
  BY <1>1, LockFacts, ReaderCases
<1>4. ReaderCount' = ReaderCount /\ ReaderGot' = ReaderGot
  BY <1>2, <1>3 DEF ReaderCount, ReaderGot
<1>5. Contents(fifo)' = Contents(fifo)
  BY DEF Contents, Count
<1>6. QED
  BY <1>2, <1>4, <1>5 DEF Stream!vars, ReaderCount, ReaderGot

LEMMA TypedSeen ==
  ASSUME KbdInv, KbdInv', keyboard_handler
  PROVE  [Stream!Next]_Stream!vars
<1>1. UNCHANGED <<depth, call>>
  BY DEF keyboard_handler, PrefixByte, IllegalByte, BreakByte, MakeByte, Interrupt, lockVars
<1>2. CASE fifo' = fifo
  BY <1>1, <1>2, Unseen
<1>3. ASSUME NEW ch \in Byte, fifo' = fifo_put(fifo, ch)
      PROVE  Stream!Type(ch)
  <2>1. Contents(fifo') = Append(IF Len(Contents(fifo)) = length - 1
                                 THEN Tail(Contents(fifo)) ELSE Contents(fifo), ch)
    BY <1>3, PutIsDropOldest DEF KbdInv, TypeOK
  <2>2. Contents(fifo)' = Contents(fifo')
    BY DEF Contents, Count
  <2>3. Reader' = Reader
    BY <1>1 DEF Reader
  <2>4. ReaderCount' = ReaderCount /\ ReaderGot' = ReaderGot
    BY <1>1, <2>3 DEF ReaderCount, ReaderGot
  <2>5. QED
    BY <2>1, <2>2, <2>3, <2>4 DEF Stream!Type, ReaderCount, ReaderGot
<1>4. QED
  BY <1>2, <1>3, HandlerDelivers DEF Stream!Next

\* The reader is a task from where it has the lock to where it gives it back.
LEMMA LockStepSeen ==
  ASSUME KbdInv, KbdInv', NEW t \in Task, LockStep(t)
  PROVE  [Stream!Next]_Stream!vars
<1>1. /\ Reader = ReaderOf(depth) /\ Reader' = ReaderOf(depth')
      /\ depth \in [Task -> 0 .. 1] /\ \A s, u \in Task : depth[s] = 1 /\ depth[u] = 1 => s = u
      /\ UNCHANGED <<call, fifo>>
  BY LockFacts DEF Reader, ReaderOf, LockStep, kbdVars
<1>2. depth' \in [Task -> 0 .. 1] /\ \A s, u \in Task : depth'[s] = 1 /\ depth'[u] = 1 => s = u
  <2>1. depth' \in [Task -> 0 .. 1] /\ Lk!CountInv' /\ Lk!OwnerInv' /\ pc' \in [Task -> Lk!ControlPoint]
    BY DEF KbdInv, Lk!LockInv, Lk!TypeOK
  <2>2. \A s \in Task : depth'[s] = 1 => Lk!Owns(s)'
    BY <2>1 DEF Lk!Owns, Lk!CountInv, Lk!ControlPoint
  <2>3. QED
    BY <2>1, <2>2 DEF Lk!OwnerInv
<1>3. Contents(fifo)' = Contents(fifo)
  BY <1>1 DEF Contents, Count
<1>4. CASE L!SetRepeat(t)
  <2>1. pc[t] = "count" /\ depth[t] = 0 /\ depth' = [depth EXCEPT ![t] = 1]
    BY <1>4, LockFacts DEF L!SetRepeat, L!At
  <2>2. depth'[t] = 1 /\ \A u \in Task \ {t} : depth'[u] = depth[u]
    BY <1>1, <2>1
  <2>3. \A u \in Task : depth[u] = 0
    BY <1>1, <1>2, <2>1, <2>2
  <2>4. Reader = NoTask /\ Reader' = t
    BY <1>1, <1>2, <2>2, <2>3, ReaderCases
  <2>5. t # NoTask /\ call[t].on /\ call[t].count \in Counts /\ call[t].got = << >>
    BY <2>1, KeyboardAssumption DEF KbdInv, Reading
  <2>6. ReaderCount' \in Counts /\ ReaderGot' = << >>
    BY <1>1, <2>4, <2>5 DEF ReaderCount, ReaderGot
  <2>7. Stream!Begin(t)
    BY <1>3, <2>4, <2>6 DEF Stream!Begin, ReaderCount, ReaderGot
  <2>8. QED
    BY <2>7 DEF Stream!Next
<1>5. CASE L!MutexFree(t) \/ L!MutexHandOver(t)
  <2>1. pc[t] = "unlock" /\ depth[t] = 1 /\ depth' = [depth EXCEPT ![t] = 0]
    BY <1>5, LockFacts DEF L!MutexFree, L!MutexHandOver, L!At
  <2>2. depth'[t] = 0 /\ \A u \in Task \ {t} : depth'[u] = depth[u]
    BY <1>1, <2>1
  <2>3. \A u \in Task : depth'[u] = 0
    BY <1>1, <2>1, <2>2
  <2>4. Reader = t /\ Reader' = NoTask
    BY <1>1, <1>2, <2>1, <2>3, ReaderCases
  <2>5. t # NoTask /\ Len(call[t].got) = call[t].count
    <3>1. Left(t) = 0 /\ call[t] \in [count : Nat, got : Seq(Byte), on : BOOLEAN]
      BY <2>1 DEF KbdInv, Reading
    <3>2. Len(call[t].got) \in Nat /\ call[t].count \in Nat
      BY <3>1, LenProperties
    <3>3. QED
      BY <3>1, <3>2, KeyboardAssumption DEF Left
  <2>6. ReaderCount' = 0 /\ ReaderGot' = << >> /\ Len(ReaderGot) = ReaderCount
    BY <2>4, <2>5 DEF ReaderCount, ReaderGot
  <2>7. Stream!End
    BY <1>3, <2>4, <2>5, <2>6 DEF Stream!End, ReaderCount, ReaderGot
  <2>8. QED
    BY <2>7 DEF Stream!Next
<1>6. CASE UNCHANGED depth
  BY <1>1, <1>6, Unseen
<1>7. QED
  BY <1>4, <1>5, <1>6 DEF LockStep, L!MutexWait, L!MutexTake, L!SetHolder,
     L!ClearHolder, L!ClearRepeat, L!Resume, L!lockVars

LEMMA TakeSeen ==
  ASSUME KbdInv, KbdInv', NEW t \in Task, TakeByte(t)
  PROVE  Stream!Take
<1>1. /\ pc[t] = "run" /\ depth[t] = 1 /\ ~ fifo_empty(fifo) /\ Left(t) > 0
      /\ fifo' = fifo_get(fifo) /\ UNCHANGED depth
      /\ call' = [call EXCEPT ![t].got = Append(@, Oldest(fifo))]
  BY DEF TakeByte, Inside, Reads, lockVars
<1>2. /\ fifo \in Ring /\ call \in [Task -> [count : Nat, got : Seq(Byte), on : BOOLEAN]]
  BY DEF KbdInv, TypeOK, Reading
<1>3. /\ call'[t].got = Append(call[t].got, Oldest(fifo)) /\ call'[t].count = call[t].count
      /\ Len(call[t].got) \in Nat /\ call[t].count \in Nat
  BY <1>1, <1>2, LenProperties
<1>4. Reader = t /\ Reader' = t /\ t # NoTask
  <2>1. Reader = ReaderOf(depth) /\ Reader' = ReaderOf(depth')
    BY DEF Reader, ReaderOf
  <2>2. QED
    BY <1>1, <2>1, LockFacts, ReaderCases, KeyboardAssumption
<1>5. /\ Contents(fifo) # << >> /\ Contents(fifo') = Tail(Contents(fifo))
      /\ Oldest(fifo) = Head(Contents(fifo)) /\ Contents(fifo)' = Contents(fifo')
  BY <1>1, <1>2, GetIsTail, OldestIsHead DEF Contents, Count
<1>6. /\ Len(ReaderGot) < ReaderCount /\ ReaderCount' = ReaderCount
      /\ ReaderGot' = Append(ReaderGot, Oldest(fifo))
  BY <1>1, <1>3, <1>4 DEF ReaderCount, ReaderGot, Left
<1>7. QED
  BY <1>4, <1>5, <1>6 DEF Stream!Take, ReaderCount, ReaderGot

\* Reads are exclusive, take the bytes asked for and take them in the order they were
\* typed: the handler, the ring, the lock and keyboard_read implement a queue that
\* drops its oldest byte and has one reader at a time.
THEOREM KeyboardIsBlockingReader == Spec => IsBlockingReader
<1>1. Init => Stream!Init
  <2> SUFFICES ASSUME Init PROVE Stream!Init
    OBVIOUS
  <2>1. KbdInv /\ depth = [t \in Task |-> 0]
    BY InitInv DEF Init, L!Init
  <2>2. Reader = NoTask
    BY <2>1 DEF Reader
  <2>3. fifo \in Ring /\ fifo_empty(fifo)
    BY <2>1 DEF KbdInv, TypeOK, Init, fifo_empty
  <2>4. Contents(fifo) = << >>
    BY <2>3, CountCases, ContentsIsSeq, EmptySeq
  <2>5. QED
    BY <2>2, <2>4 DEF Stream!Init
<1>2. KbdInv /\ KbdInv' /\ [Next]_vars => [Stream!Next]_Stream!vars
  <2> SUFFICES ASSUME KbdInv, KbdInv', [Next]_vars PROVE [Stream!Next]_Stream!vars
    OBVIOUS
  <2>1. ASSUME UNCHANGED <<depth, fifo, call>> PROVE UNCHANGED Stream!vars
    BY <2>1, Unseen
  <2>2. ASSUME NEW k \in Physical, Press(k) \/ LetGo(k) PROVE UNCHANGED Stream!vars
    BY <2>1, <2>2 DEF Press, LetGo, Sends, lockVars
  <2>3. ASSUME NEW t \in Task, NEW n \in Counts, keyboard_read(t, n)
        PROVE  UNCHANGED Stream!vars
    <3>1. /\ depth[t] = 0 /\ UNCHANGED <<depth, fifo>>
          /\ \A u \in Task \ {t} : call'[u] = call[u]
      BY <2>3, LockFacts DEF keyboard_read, L!AcquireTest, kbdVars, KbdInv, Reading
    <3>2. QED
      BY <3>1, Unseen
  <2>4. ASSUME NEW t \in Task, Return(t) PROVE UNCHANGED Stream!vars
    <3>1. /\ depth[t] = 0 /\ UNCHANGED <<depth, fifo>>
          /\ \A u \in Task \ {t} : call'[u] = call[u]
      BY <2>4 DEF Return, lockVars, kbdVars, KbdInv, Reading
    <3>2. QED
      BY <3>1, Unseen
  <2>5. ASSUME NEW t \in Task, WaitForByte(t) \/ Finish(t) PROVE UNCHANGED Stream!vars
    BY <2>1, <2>5 DEF WaitForByte, Finish, L!ReleaseTest, lockVars, kbdVars
  <2>6. ASSUME NEW t \in Task, TakeByte(t) PROVE Stream!Next
    BY <2>6, TakeSeen DEF Stream!Next
  <2>7. CASE Switch
    BY <2>1, <2>7 DEF Switch, lockVars, kbdVars
  <2>8. CASE UNCHANGED vars
    BY <2>1, <2>8 DEF vars, lockVars
  <2>9. CASE keyboard_handler
    BY <2>9, TypedSeen
  <2>10. ASSUME NEW t \in Task, LockStep(t) PROVE [Stream!Next]_Stream!vars
    BY <2>10, LockStepSeen
  <2>11. CASE Next
    BY <2>11, <2>2, <2>3, <2>4, <2>5, <2>6, <2>7, <2>9, <2>10 DEF Next
  <2>12. QED
    BY <2>8, <2>11
<1>3. QED
  BY <1>1, <1>2, InvHolds, PTL DEF Spec, IsBlockingReader, Stream!Spec
=============================================================================
