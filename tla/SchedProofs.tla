----------------------------- MODULE SchedProofs -----------------------------
(***************************************************************************)
(* Theorems about Sched, for every size of the table, every word size and  *)
(* every clock bound, and about Context, which runs on it.                 *)
(***************************************************************************)
EXTENDS Context, SequenceTheorems, WellFoundedInduction, TLAPS

-----------------------------------------------------------------------------
(* The lists are sequences.  What inserting a node before another and taking *)
(* a prefix do to the length, the elements and the absence of repetitions.   *)

\* list_insert_before: positions before the node keep, later ones shift by one.
LEMMA Inserted ==
  ASSUME NEW S, NEW s \in Seq(S), NEW i \in 1 .. Len(s) + 1, NEW e \in S
  PROVE  /\ InsertAt(s, i, e) \in Seq(S)
         /\ Len(InsertAt(s, i, e)) = Len(s) + 1
         /\ \A j \in 1 .. Len(s) + 1 :
              InsertAt(s, i, e)[j] =
                IF j < i THEN s[j] ELSE IF j = i THEN e ELSE s[j - 1]
<1> DEFINE front == SubSeq(s, 1, i - 1)
           back == SubSeq(s, i, Len(s))
<1>0. Len(s) \in Nat /\ \A j \in 1 .. Len(s) : s[j] \in S
  BY LenProperties, ElementOfSeq
<1>i. i \in Int /\ 1 <= i /\ i <= Len(s) + 1
  BY <1>0
<1>1. /\ front \in Seq(S) /\ Len(front) = i - 1
      /\ \A j \in 1 .. i - 1 : front[j] = s[j]
  BY <1>0, SubSeqProperties
<1>2. /\ back \in Seq(S) /\ Len(back) = Len(s) - i + 1
      /\ \A j \in 1 .. Len(s) - i + 1 : back[j] = s[i + j - 1]
  BY <1>0, SubSeqProperties
<1>3. <<e>> \in Seq(S) /\ Len(<<e>>) = 1 /\ <<e>>[1] = e
  OBVIOUS
<1> HIDE DEF front, back
<1> DEFINE upto == front \o <<e>>
<1>4. /\ upto \in Seq(S) /\ Len(upto) = i
      /\ \A j \in 1 .. i : upto[j] = IF j < i THEN s[j] ELSE e
  <2>1. /\ upto \in Seq(S) /\ Len(upto) = i
        /\ \A j \in 1 .. i : upto[j] =
             IF j <= Len(front) THEN front[j] ELSE <<e>>[j - Len(front)]
    BY <1>i, <1>1, <1>3, ConcatProperties
  <2> HIDE DEF upto
  <2>2. ASSUME NEW j \in 1 .. i
        PROVE  upto[j] = IF j < i THEN s[j] ELSE e
    <3>1. CASE j < i
      BY <3>1, <2>1, <1>i, <1>1
    <3>2. CASE j = i
      BY <3>2, <2>1, <1>i, <1>1, <1>3
    <3>3. QED
      BY <3>1, <3>2, <1>i
  <2>3. QED
    BY <2>1, <2>2
<1> HIDE DEF upto
<1> DEFINE all == upto \o back
<1>5. /\ all \in Seq(S) /\ Len(all) = Len(s) + 1
      /\ \A j \in 1 .. Len(s) + 1 : all[j] = IF j <= i THEN upto[j] ELSE back[j - i]
  <2>0. upto \in Seq(S) /\ Len(upto) = i /\ back \in Seq(S) /\ Len(back) = Len(s) - i + 1
    BY <1>2, <1>4
  <2>1. /\ all \in Seq(S)
        /\ Len(all) = Len(upto) + Len(back)
        /\ \A j \in 1 .. Len(upto) + Len(back) :
             all[j] = IF j <= Len(upto) THEN upto[j] ELSE back[j - Len(upto)]
    BY <2>0, ConcatProperties
  <2>2. Len(upto) + Len(back) = Len(s) + 1
    BY <2>0, <1>0, <1>i
  <2> HIDE DEF all
  <2>3. QED
    BY <2>0, <2>1, <2>2
<1>6. InsertAt(s, i, e) = all
  BY DEF InsertAt, front, back, upto
<1> HIDE DEF all
<1>7. ASSUME NEW j \in 1 .. Len(s) + 1, j > i
      PROVE  back[j - i] = s[j - 1]
  <2>1. j - i \in 1 .. Len(s) - i + 1
    BY <1>0, <1>7
  <2>2. i + (j - i) - 1 = j - 1
    BY <1>0
  <2>3. QED
    BY <2>1, <2>2, <1>2
<1>8. ASSUME NEW j \in 1 .. Len(s) + 1
      PROVE  all[j] = IF j < i THEN s[j] ELSE IF j = i THEN e ELSE s[j - 1]
  BY <1>0, <1>i, <1>4, <1>5, <1>7
<1>9. QED
  BY <1>5, <1>6, <1>8

\* Removing the first n nodes leaves the others in their order.
LEMMA Popped ==
  ASSUME NEW S, NEW s \in Seq(S), NEW n \in 0 .. Len(s)
  PROVE  /\ SubSeq(s, n + 1, Len(s)) \in Seq(S)
         /\ Len(SubSeq(s, n + 1, Len(s))) = Len(s) - n
         /\ \A j \in 1 .. Len(s) - n : SubSeq(s, n + 1, Len(s))[j] = s[n + j]
<1> DEFINE rest == SubSeq(s, n + 1, Len(s))
<1>1. Len(s) \in Nat /\ \A j \in 1 .. Len(s) : s[j] \in S
  BY LenProperties, ElementOfSeq
<1>2. /\ rest \in Seq(S)
      /\ Len(rest) = IF n + 1 <= Len(s) THEN Len(s) - (n + 1) + 1 ELSE 0
      /\ \A j \in 1 .. Len(s) - (n + 1) + 1 : rest[j] = s[(n + 1) + j - 1]
  BY <1>1, SubSeqProperties
<1> HIDE DEF rest
<1>3. Len(s) - (n + 1) + 1 = Len(s) - n
  BY <1>1
<1>4. ASSUME NEW j \in 1 .. Len(s) - n
      PROVE  rest[j] = s[n + j]
  <2>1. (n + 1) + j - 1 = n + j
    BY <1>1
  <2>2. QED
    BY <2>1, <1>2, <1>3
<1>5. Len(rest) = Len(s) - n
  BY <1>1, <1>2
<1>6. rest \in Seq(S) /\ Len(rest) = Len(s) - n /\ \A j \in 1 .. Len(s) - n : rest[j] = s[n + j]
  BY <1>2, <1>4, <1>5
<1>7. QED
  BY <1>6 DEF rest

\* An element that is not in a sequence without repetitions can be inserted.
LEMMA InsertedSet ==
  ASSUME NEW S, NEW s \in Seq(S), NEW i \in 1 .. Len(s) + 1, NEW e \in S,
         IsInjective(s), e \notin ToSet(s)
  PROVE  /\ IsInjective(InsertAt(s, i, e))
         /\ ToSet(InsertAt(s, i, e)) = ToSet(s) \cup {e}
<1> DEFINE r == InsertAt(s, i, e)
<1>1. /\ r \in Seq(S) /\ Len(r) = Len(s) + 1
      /\ \A j \in 1 .. Len(s) + 1 :
           r[j] = IF j < i THEN s[j] ELSE IF j = i THEN e ELSE s[j - 1]
  BY Inserted
<1> HIDE DEF r
<1>2. Len(s) \in Nat /\ DOMAIN s = 1 .. Len(s) /\ DOMAIN r = 1 .. Len(s) + 1
  BY <1>1, LenProperties
<1>3. /\ \A j \in 1 .. Len(s) : s[j] # e
      /\ \A j, k \in 1 .. Len(s) : s[j] = s[k] => j = k
  BY <1>2 DEF ToSet, IsInjective
<1>4. i \in Int /\ 1 <= i /\ i <= Len(s) + 1
  BY <1>2
<1>5. ASSUME NEW j \in 1 .. Len(s) + 1, NEW k \in 1 .. Len(s) + 1, r[j] = r[k]
      PROVE  j = k
  BY <1>1, <1>2, <1>3, <1>4, <1>5
<1>6. ASSUME NEW j \in 1 .. Len(s)
      PROVE  \E k \in 1 .. Len(s) + 1 : r[k] = s[j]
  <2>1. CASE j < i
    BY <2>1, <1>1, <1>2, <1>4
  <2>2. CASE ~ j < i
    <3>1. j + 1 \in 1 .. Len(s) + 1 /\ ~ j + 1 < i /\ j + 1 # i /\ (j + 1) - 1 = j
      BY <2>2, <1>2, <1>4
    <3>2. r[j + 1] = s[j]
      BY <3>1, <1>1
    <3>3. QED
      BY <3>1, <3>2
  <2>3. QED
    BY <2>1, <2>2
<1>7. r[i] = e /\ i \in 1 .. Len(s) + 1
  BY <1>1, <1>4
<1>8. ASSUME NEW k \in 1 .. Len(s) + 1
      PROVE  r[k] = e \/ \E j \in 1 .. Len(s) : r[k] = s[j]
  <2>1. CASE k < i
    BY <2>1, <1>1, <1>2, <1>4
  <2>2. CASE k > i
    <3>1. k - 1 \in 1 .. Len(s) /\ r[k] = s[k - 1]
      BY <2>2, <1>1, <1>2, <1>4
    <3>2. QED
      BY <3>1
  <2>3. CASE k = i
    BY <2>3, <1>7
  <2>4. QED
    BY <2>1, <2>2, <2>3, <1>4
<1>9. IsInjective(r)
  BY <1>2, <1>5 DEF IsInjective
<1>10. ToSet(r) = ToSet(s) \cup {e}
  <2>1. \A x : x \in ToSet(s) <=> \E j \in 1 .. Len(s) : x = s[j]
    BY <1>2 DEF ToSet
  <2>2. \A x : x \in ToSet(r) <=> \E j \in 1 .. Len(s) + 1 : x = r[j]
    BY <1>2 DEF ToSet
  <2>3. ASSUME NEW x \in ToSet(r) PROVE x \in ToSet(s) \cup {e}
    BY <2>1, <2>2, <1>8
  <2>4. ASSUME NEW x \in ToSet(s) \cup {e} PROVE x \in ToSet(r)
    BY <2>1, <2>2, <1>6, <1>7
  <2>5. QED
    BY <2>3, <2>4
<1>11. QED
  BY <1>9, <1>10 DEF r

\* Popping a prefix removes exactly its elements.
LEMMA PoppedSet ==
  ASSUME NEW S, NEW s \in Seq(S), NEW n \in 0 .. Len(s), IsInjective(s)
  PROVE  /\ IsInjective(SubSeq(s, n + 1, Len(s)))
         /\ ToSet(SubSeq(s, n + 1, Len(s))) = ToSet(s) \ {s[j] : j \in 1 .. n}
<1> DEFINE r == SubSeq(s, n + 1, Len(s))
<1>1. r \in Seq(S) /\ Len(r) = Len(s) - n /\ \A j \in 1 .. Len(s) - n : r[j] = s[n + j]
  BY Popped
<1> HIDE DEF r
<1>2. Len(s) \in Nat /\ DOMAIN s = 1 .. Len(s) /\ DOMAIN r = 1 .. Len(s) - n
  BY <1>1, LenProperties
<1>3. n \in Int /\ 0 <= n /\ n <= Len(s)
  BY <1>2
<1>4. \A j, k \in 1 .. Len(s) : s[j] = s[k] => j = k
  BY <1>2 DEF IsInjective
<1>5. \A j \in 1 .. Len(s) - n : n + j \in 1 .. Len(s) /\ n + j > n
  BY <1>2, <1>3
<1>6. ASSUME NEW j \in 1 .. Len(s) - n, NEW k \in 1 .. Len(s) - n, r[j] = r[k]
      PROVE  j = k
  <2>1. n + j = n + k
    BY <1>1, <1>4, <1>5, <1>6
  <2>2. QED
    BY <2>1, <1>2, <1>3
<1>7. ASSUME NEW j \in 1 .. Len(s) - n
      PROVE  \E k \in 1 .. Len(s) : r[j] = s[k] /\ \A l \in 1 .. n : s[l] # s[k]
  <2>1. n + j \in 1 .. Len(s) /\ r[j] = s[n + j]
    BY <1>1, <1>5
  <2>2. ASSUME NEW l \in 1 .. n PROVE s[l] # s[n + j]
    <3>1. l \in 1 .. Len(s) /\ l # n + j
      BY <1>2, <1>3
    <3>2. QED
      BY <3>1, <2>1, <1>4
  <2>3. QED
    BY <2>1, <2>2
<1>8. ASSUME NEW k \in 1 .. Len(s), k \notin 1 .. n
      PROVE  \E j \in 1 .. Len(s) - n : r[j] = s[k]
  <2>1. k - n \in 1 .. Len(s) - n /\ n + (k - n) = k
    BY <1>2, <1>3, <1>8
  <2>2. r[k - n] = s[k]
    BY <2>1, <1>1
  <2>3. QED
    BY <2>1, <2>2
<1>9. IsInjective(r)
  BY <1>2, <1>6 DEF IsInjective
<1>10. ToSet(r) = ToSet(s) \ {s[j] : j \in 1 .. n}
  <2>1. \A x : x \in ToSet(s) <=> \E j \in 1 .. Len(s) : x = s[j]
    BY <1>2 DEF ToSet
  <2>2. \A x : x \in ToSet(r) <=> \E j \in 1 .. Len(s) - n : x = r[j]
    BY <1>2 DEF ToSet
  <2>3. ASSUME NEW x \in ToSet(r) PROVE x \in ToSet(s) \ {s[j] : j \in 1 .. n}
    BY <2>1, <2>2, <1>7
  <2>4. ASSUME NEW x \in ToSet(s) \ {s[j] : j \in 1 .. n} PROVE x \in ToSet(r)
    BY <2>1, <2>2, <1>8
  <2>5. QED
    BY <2>3, <2>4
<1>11. QED
  BY <1>9, <1>10 DEF r

-----------------------------------------------------------------------------
(* What schedule() does, whatever its caller changed before.                *)

LEMMA IdlePid == idle_task \in Pid /\ init_task \in Pid /\ test_task \in Pid
  BY SchedAssumption DEF Pid, idle_task, init_task, test_task

LEMMA BootNotPid == Boot \notin Pid
  BY SchedAssumption DEF Pid, Boot

LEMMA ModRange ==
  ASSUME NEW n \in Int
  PROVE  n % WORD \in 0 .. WORD - 1
  BY SchedAssumption

LEMMA TaskSearchPicks ==
  ASSUME NEW st, NEW tk, NEW sp
  PROVE  TaskSearch(st, tk, sp) \in Candidates(st) \cup {idle_task}
  BY DEF TaskSearch

LEMMA ScheduleTypes ==
  ASSUME NEW st \in [Pid -> TaskState], NEW tk \in [Pid -> 0 .. WORD - 1], NEW sp,
         Schedule(st, tk, sp)
  PROVE  /\ state' \in [Pid -> TaskState]
         /\ ticks' \in [Pid -> 0 .. WORD - 1]
         /\ current' \in Pid
<1>1. TaskSearch(st, tk, sp) \in Pid
  BY TaskSearchPicks, IdlePid DEF Candidates
<1>2. \A t \in Pid : Priority(t) \in 0 .. WORD - 1
  BY SchedAssumption DEF Priority
<1>3. Preempted(st) \in [Pid -> TaskState]
  BY DEF Preempted, TaskState
<1>4. Refill(tk) \in [Pid -> 0 .. WORD - 1]
  BY <1>2 DEF Refill
<1>5. QED
  BY <1>1, <1>3, <1>4 DEF Schedule, TaskState

-----------------------------------------------------------------------------
(* Type correctness.                                                        *)

\* The clock interrupt: decremented slices wrap within a word, woken sleepers
\* get 0, and what is left of the sleep list is a sequence of tasks.
LEMMA ClockTypes == TypeOK /\ clock_handler => TypeOK'
<1> SUFFICES ASSUME TypeOK, clock_handler PROVE TypeOK'
  OBVIOUS
<1>1. NextJiffy \in 0 .. WORD - 1
  <2>1. jiffies + 1 \in Int
    BY DEF TypeOK
  <2>2. QED
    BY <2>1, ModRange DEF NextJiffy
<1>2. pc' \in [Pid -> ControlPoint]
  BY DEF TypeOK, clock_handler, Wake, ControlPoint
<1>3. PICK n \in 0 .. Len(sleep_list) :
        LET woken == {sleep_list[i] : i \in 1 .. n}
            st == [t \in Pid |-> IF t \in woken THEN "READY" ELSE state[t]]
            tk == [t \in Pid |-> IF t \in woken THEN 0
                                 ELSE IF t = current THEN Decrement(ticks[t])
                                 ELSE ticks[t]]
            sp == [t \in Pid |-> IF t = current THEN NextJiffy ELSE stamp[t]]
        IN /\ DuePrefix(n)
           /\ sleep_list' = SubSeq(sleep_list, n + 1, Len(sleep_list))
           /\ stamp' = sp
           /\ IF current = Boot \/ tk[current] = 0
              THEN Schedule(st, tk, sp)
              ELSE state' = st /\ ticks' = tk /\ UNCHANGED current
  BY DEF clock_handler
<1> DEFINE woken == {sleep_list[i] : i \in 1 .. n}
           st == [t \in Pid |-> IF t \in woken THEN "READY" ELSE state[t]]
           tk == [t \in Pid |-> IF t \in woken THEN 0
                                ELSE IF t = current THEN Decrement(ticks[t])
                                ELSE ticks[t]]
           sp == [t \in Pid |-> IF t = current THEN NextJiffy ELSE stamp[t]]
<1>4. st \in [Pid -> TaskState]
  BY DEF TypeOK, TaskState
<1>5. tk \in [Pid -> 0 .. WORD - 1]
  <2>1. \A t \in Pid : ticks[t] - 1 \in Int
    BY DEF TypeOK
  <2>2. \A t \in Pid : Decrement(ticks[t]) \in 0 .. WORD - 1
    BY <2>1, ModRange DEF Decrement
  <2>3. 0 \in 0 .. WORD - 1
    BY SchedAssumption
  <2>4. QED
    BY <2>2, <2>3 DEF TypeOK
<1>6. sp \in [Pid -> 0 .. WORD - 1]
  BY <1>1 DEF TypeOK
<1>7. sleep_list' \in Seq(Pid)
  BY <1>3, Popped DEF TypeOK
<1> HIDE DEF st, tk, sp
<1>8. /\ state' \in [Pid -> TaskState]
      /\ ticks' \in [Pid -> 0 .. WORD - 1]
      /\ current' \in Pid \cup {Boot}
  <2>1. CASE Schedule(st, tk, sp)
    BY <2>1, <1>4, <1>5, ScheduleTypes
  <2>2. CASE state' = st /\ ticks' = tk /\ UNCHANGED current
    BY <2>2, <1>4, <1>5 DEF TypeOK
  <2>3. QED
    BY <1>3, <2>1, <2>2 DEF st, tk, sp
<1>9. stamp' \in [Pid -> 0 .. WORD - 1]
  BY <1>3, <1>6 DEF sp
<1>10. QED
  BY <1>1, <1>2, <1>7, <1>8, <1>9 DEF TypeOK, clock_handler

LEMMA SleepTypes == ASSUME NEW ms \in SleepMs
                    PROVE  TypeOK /\ task_sleep(ms) => TypeOK'
<1> SUFFICES ASSUME TypeOK, task_sleep(ms) PROVE TypeOK'
  OBVIOUS
<1>1. current \in Pid
  BY DEF task_sleep, Calls
<1>2. Deadline(ms) \in 0 .. WORD - 1
  <2>1. SleepTicks(ms) \in Int
    BY SchedAssumption DEF SleepTicks
  <2>2. jiffies + SleepTicks(ms) \in Int
    BY <2>1 DEF TypeOK
  <2>3. QED
    BY <2>2, ModRange DEF Deadline
<1>3. sleep_list' \in Seq(Pid)
  BY <1>1, Inserted DEF TypeOK, task_sleep
<1>4. /\ [state EXCEPT ![current] = "SLEEPING"] \in [Pid -> TaskState]
      /\ [ticks EXCEPT ![current] = Deadline(ms)] \in [Pid -> 0 .. WORD - 1]
  BY <1>2 DEF TypeOK, TaskState
<1>5. QED
  BY <1>3, <1>4, ScheduleTypes DEF TypeOK, task_sleep

\* Every field keeps its type, for every table and word size.
THEOREM TypeCorrect == Spec => []TypeOK
<1>1. Init => TypeOK
  <2> SUFFICES ASSUME Init PROVE TypeOK
    OBVIOUS
  <2>1. state \in [Pid -> TaskState] /\ pc \in [Pid -> ControlPoint]
    BY DEF Init, TaskState, ControlPoint
  <2>2. \A t \in Pid : Priority(t) \in 0 .. WORD - 1
    BY SchedAssumption DEF Priority
  <2>3. 0 \in 0 .. WORD - 1 /\ 0 \in Pid
    BY SchedAssumption DEF Pid
  <2>4. QED
    BY <2>1, <2>2, <2>3 DEF Init, TypeOK
<1>2. TypeOK /\ [Next]_vars => TypeOK'
  <2> SUFFICES ASSUME TypeOK, [Next]_vars PROVE TypeOK'
    OBVIOUS
  <2>1. CASE clock_handler
    BY <2>1, ClockTypes
  <2>2. CASE KeyboardInterrupt
    BY <2>2 DEF KeyboardInterrupt, TypeOK, Wake, TaskState, ControlPoint
  <2>3. CASE task_yield
    BY <2>3, ScheduleTypes DEF task_yield, TypeOK
  <2>4. ASSUME NEW ms \in SleepMs, task_sleep(ms) PROVE TypeOK'
    BY <2>4, SleepTypes
  <2>5. ASSUME NEW s \in {"BLOCKED", "WAITING"}, task_block(s) PROVE TypeOK'
    <3>1. [state EXCEPT ![current] = s] \in [Pid -> TaskState]
      BY DEF TypeOK, TaskState
    <3>2. current \in Pid
      BY <2>5 DEF task_block, Calls
    <3>3. QED
      BY <2>5, <3>1, <3>2, ScheduleTypes DEF task_block, TypeOK
  <2>6. ASSUME NEW t \in Pid, Release(t) PROVE TypeOK'
    <3>1. [state EXCEPT ![t] = "READY"] \in [Pid -> TaskState]
      BY DEF TypeOK, TaskState
    <3>2. QED
      BY <2>6, <3>1, ScheduleTypes DEF Release, TypeOK
  <2>7. CASE task_fork
    <3>1. PICK child \in Pid :
            /\ state' = [state EXCEPT ![child] = "READY"]
            /\ ticks' = [ticks EXCEPT ![child] = Priority(child)]
            /\ stamp' = [stamp EXCEPT ![child] = stamp[current]]
            /\ ppid' = [ppid EXCEPT ![child] = current]
            /\ pc' = [pc EXCEPT ![child] = "on"]
      BY <2>7 DEF task_fork
    <3>2. current \in Pid /\ Priority(child) \in 0 .. WORD - 1
      BY <2>7, SchedAssumption DEF task_fork, Calls, Priority
    <3>3. QED
      BY <2>7, <3>1, <3>2 DEF task_fork, TypeOK, TaskState, ControlPoint
  <2>8. CASE ForkPanic
    BY <2>8 DEF ForkPanic, TypeOK
  <2>9. CASE task_exit
    <3>1. current \in Pid
      BY <2>9 DEF task_exit, Calls
    <3>2. [state EXCEPT ![current] = "DIED"] \in [Pid -> TaskState]
      BY DEF TypeOK, TaskState
    <3>3. ppid' \in [Pid -> Pid]
      BY <2>9, <3>1 DEF task_exit, ParentAfterExit, TypeOK
    <3>4. QED
      BY <2>9, <3>2, <3>3, ScheduleTypes DEF task_exit, TypeOK
  <2>10. ASSUME NEW t \in Pid, EnableInterrupts(t) PROVE TypeOK'
    BY <2>10 DEF EnableInterrupts, TypeOK, ControlPoint
  <2>11. CASE IdleHalt
    BY <2>11 DEF IdleHalt, TypeOK, ControlPoint
  <2>12. CASE IdleYield
    <3>1. pc' \in [Pid -> ControlPoint]
      BY <2>12 DEF IdleYield, TypeOK, ControlPoint
    <3>2. QED
      BY <2>12, <3>1, ScheduleTypes DEF IdleYield, TypeOK
  <2>13. CASE UNCHANGED vars
    BY <2>13 DEF vars, TypeOK
  <2>14. QED
    BY <2>1, <2>2, <2>3, <2>4, <2>5, <2>6, <2>7, <2>8, <2>9, <2>10, <2>11, <2>12,
       <2>13 DEF Next, Halted
<1>3. QED
  BY <1>1, <1>2, PTL DEF Spec

-----------------------------------------------------------------------------
(* The inductive invariant.  OneRunning and QueuesMatchStates support each  *)
(* other: a sleeper is appended because it was RUNNING, hence in no list,   *)
(* and task_search hands the CPU to a task that is in no list either.       *)

TasksInv == TypeOK /\ OneRunning /\ QueuesMatchStates

\* the states a handler may pass to schedule()
Schedulable(st) ==
  /\ st \in [Pid -> TaskState]
  /\ \A t \in Pid : st[t] = "RUNNING" => t = current
  /\ st[idle_task] \in {"READY", "RUNNING"}

\* schedule() leaves one task RUNNING, and otherwise only moves tasks between
\* READY and RUNNING.
LEMMA ScheduleEffect ==
  ASSUME NEW st, NEW tk, NEW sp, Schedulable(st), Schedule(st, tk, sp)
  PROVE  /\ OneRunning'
         /\ \A t \in Pid : state'[t] # st[t] =>
              /\ st[t] \in {"READY", "RUNNING"}
              /\ state'[t] \in {"READY", "RUNNING"}
<1> DEFINE next == TaskSearch(st, tk, sp)
<1>1. next \in Pid /\ (next # idle_task => st[next] = "READY" /\ next # current)
  BY TaskSearchPicks, IdlePid DEF Candidates
<1>2. current' = next /\ state' = [Preempted(st) EXCEPT ![next] = "RUNNING"]
  BY DEF Schedule
<1> HIDE DEF next
<1>3. /\ Preempted(st) \in [Pid -> TaskState]
      /\ \A t \in Pid : Preempted(st)[t] # "RUNNING"
      /\ \A t \in Pid : Preempted(st)[t] = IF st[t] = "RUNNING" THEN "READY" ELSE st[t]
  BY DEF Preempted, Schedulable, TaskState
<1>4. \A t \in Pid : state'[t] = IF t = next THEN "RUNNING" ELSE Preempted(st)[t]
  BY <1>1, <1>2, <1>3
<1>5. st[next] \in {"READY", "RUNNING"}
  BY <1>1 DEF Schedulable
<1>6. \A t \in Pid : state'[t] = "RUNNING" <=> t = current'
  BY <1>1, <1>2, <1>3, <1>4
<1>7. state'[idle_task] \in {"READY", "RUNNING"}
  BY <1>3, <1>4, IdlePid DEF Schedulable
<1>8. QED
  BY <1>3, <1>4, <1>5, <1>6, <1>7 DEF OneRunning

\* If the lists match the states a handler passes to schedule(), they match the
\* states after it.
LEMMA ScheduleKeepsQueues ==
  ASSUME NEW st, NEW tk, NEW sp, Schedulable(st), Schedule(st, tk, sp),
         IsInjective(sleep_list'),
         ToSet(sleep_list') = {t \in Pid : st[t] = "SLEEPING"},
         block_list' = {t \in Pid : st[t] \in {"BLOCKED", "WAITING"}}
  PROVE  OneRunning' /\ QueuesMatchStates'
<1>1. \A t \in Pid : state'[t] # st[t] =>
        st[t] \in {"READY", "RUNNING"} /\ state'[t] \in {"READY", "RUNNING"}
  BY ScheduleEffect
<1>2. \A t \in Pid : state'[t] = "SLEEPING" <=> st[t] = "SLEEPING"
  BY <1>1
<1>3. \A t \in Pid : state'[t] \in {"BLOCKED", "WAITING"} <=> st[t] \in {"BLOCKED", "WAITING"}
  BY <1>1
<1>4. OneRunning'
  BY ScheduleEffect
<1>5. QED
  BY <1>2, <1>3, <1>4 DEF QueuesMatchStates

LEMMA ClockKeepsTasks ==
  ASSUME TasksInv, TypeOK', clock_handler
  PROVE  OneRunning' /\ QueuesMatchStates'
<1>1. PICK n \in 0 .. Len(sleep_list) :
        LET woken == {sleep_list[i] : i \in 1 .. n}
            st == [t \in Pid |-> IF t \in woken THEN "READY" ELSE state[t]]
            tk == [t \in Pid |-> IF t \in woken THEN 0
                                 ELSE IF t = current THEN Decrement(ticks[t])
                                 ELSE ticks[t]]
            sp == [t \in Pid |-> IF t = current THEN NextJiffy ELSE stamp[t]]
        IN /\ sleep_list' = SubSeq(sleep_list, n + 1, Len(sleep_list))
           /\ IF current = Boot \/ tk[current] = 0
              THEN Schedule(st, tk, sp)
              ELSE state' = st /\ ticks' = tk /\ UNCHANGED current
  BY DEF clock_handler
<1> DEFINE woken == {sleep_list[i] : i \in 1 .. n}
           st == [t \in Pid |-> IF t \in woken THEN "READY" ELSE state[t]]
           tk == [t \in Pid |-> IF t \in woken THEN 0
                                ELSE IF t = current THEN Decrement(ticks[t])
                                ELSE ticks[t]]
           sp == [t \in Pid |-> IF t = current THEN NextJiffy ELSE stamp[t]]
<1>2. sleep_list \in Seq(Pid) /\ IsInjective(sleep_list)
  BY DEF TasksInv, TypeOK, QueuesMatchStates
<1>3. woken \subseteq ToSet(sleep_list)
  <2>1. Len(sleep_list) \in Nat /\ DOMAIN sleep_list = 1 .. Len(sleep_list)
    BY <1>2, LenProperties
  <2>2. 1 .. n \subseteq DOMAIN sleep_list
    BY <2>1
  <2>3. QED
    BY <2>2 DEF ToSet
<1>4. ToSet(sleep_list) = {t \in Pid : state[t] = "SLEEPING"}
  BY DEF TasksInv, QueuesMatchStates
<1>5. /\ IsInjective(sleep_list')
      /\ ToSet(sleep_list') = ToSet(sleep_list) \ woken
  <2>1. sleep_list' = SubSeq(sleep_list, n + 1, Len(sleep_list))
    BY <1>1
  <2>2. /\ IsInjective(SubSeq(sleep_list, n + 1, Len(sleep_list)))
        /\ ToSet(SubSeq(sleep_list, n + 1, Len(sleep_list))) = ToSet(sleep_list) \ woken
    BY <1>2, PoppedSet
  <2>3. QED
    BY <2>1, <2>2
<1> HIDE DEF woken
<1>6. Schedulable(st)
  <2>1. st \in [Pid -> TaskState]
    BY DEF TasksInv, TypeOK, TaskState
  <2>2. idle_task \notin woken
    BY <1>3, <1>4 DEF TasksInv, OneRunning
  <2>3. QED
    BY <2>1, <2>2, IdlePid DEF Schedulable, TasksInv, OneRunning
<1>7. ToSet(sleep_list') = {t \in Pid : st[t] = "SLEEPING"}
  BY <1>3, <1>4, <1>5
<1>8. block_list' = {t \in Pid : st[t] \in {"BLOCKED", "WAITING"}}
  <2>1. block_list' = {t \in Pid : state[t] \in {"BLOCKED", "WAITING"}}
    BY DEF clock_handler, TasksInv, QueuesMatchStates
  <2>2. \A t \in woken : state[t] = "SLEEPING"
    BY <1>3, <1>4
  <2>3. QED
    BY <2>1, <2>2
<1>9. \A t \in Pid : st[t] = "RUNNING" <=> t = current
  BY <1>3, <1>4 DEF TasksInv, OneRunning
<1> HIDE DEF st, tk, sp
<1>10. CASE Schedule(st, tk, sp)
  BY <1>10, <1>5, <1>6, <1>7, <1>8, ScheduleKeepsQueues
<1>11. CASE state' = st /\ UNCHANGED current
  <2>1. OneRunning'
    BY <1>11, <1>6, <1>9 DEF OneRunning, Schedulable
  <2>2. QED
    BY <2>1, <1>11, <1>5, <1>7, <1>8 DEF QueuesMatchStates
<1>12. QED
  BY <1>1, <1>10, <1>11 DEF st, tk, sp, woken

LEMMA SleepKeepsTasks ==
  ASSUME TasksInv, NEW ms \in SleepMs, task_sleep(ms)
  PROVE  OneRunning' /\ QueuesMatchStates'
<1> DEFINE st == [state EXCEPT ![current] = "SLEEPING"]
           tk == [ticks EXCEPT ![current] = Deadline(ms)]
<1>1. current \in Pid /\ current # idle_task
  BY DEF task_sleep, Calls, IsUser, idle_task, test_task
<1>2. PICK i \in 1 .. Len(sleep_list) + 1 : sleep_list' = InsertAt(sleep_list, i, current)
  BY DEF task_sleep
<1>3. /\ sleep_list \in Seq(Pid) /\ IsInjective(sleep_list)
      /\ ToSet(sleep_list) = {t \in Pid : state[t] = "SLEEPING"}
      /\ state \in [Pid -> TaskState]
  BY DEF TasksInv, TypeOK, QueuesMatchStates
<1>4. state[current] = "RUNNING"
  BY <1>1 DEF TasksInv, OneRunning
<1>5. current \notin ToSet(sleep_list)
  BY <1>3, <1>4
<1>6. IsInjective(sleep_list') /\ ToSet(sleep_list') = ToSet(sleep_list) \cup {current}
  BY <1>1, <1>2, <1>3, <1>5, InsertedSet
<1>7. Schedulable(st)
  BY <1>1, <1>3, IdlePid DEF Schedulable, TasksInv, OneRunning, TaskState
<1>8. ToSet(sleep_list') = {t \in Pid : st[t] = "SLEEPING"}
  BY <1>1, <1>3, <1>6
<1>9. block_list' = {t \in Pid : st[t] \in {"BLOCKED", "WAITING"}}
  <2>1. block_list' = {t \in Pid : state[t] \in {"BLOCKED", "WAITING"}}
    BY DEF task_sleep, TasksInv, QueuesMatchStates
  <2>2. \A t \in Pid : st[t] \in {"BLOCKED", "WAITING"} <=> state[t] \in {"BLOCKED", "WAITING"}
    BY <1>1, <1>3, <1>4
  <2>3. QED
    BY <2>1, <2>2
<1>10. Schedule(st, tk, stamp)
  BY DEF task_sleep
<1>11. QED
  BY <1>6, <1>7, <1>8, <1>9, <1>10, ScheduleKeepsQueues

\* Block, release, exit and yield change the state of one task before they call
\* schedule(), and the block list with it.
LEMMA BlockKeepsTasks ==
  ASSUME TasksInv, NEW s \in {"BLOCKED", "WAITING"}, task_block(s)
  PROVE  OneRunning' /\ QueuesMatchStates'
<1> DEFINE st == [state EXCEPT ![current] = s]
<1>1. current \in Pid /\ current # idle_task
  BY DEF task_block, Calls, IsUser, idle_task, test_task
<1>2. /\ state \in [Pid -> TaskState] /\ state[current] = "RUNNING"
      /\ IsInjective(sleep_list)
      /\ ToSet(sleep_list) = {t \in Pid : state[t] = "SLEEPING"}
      /\ block_list = {t \in Pid : state[t] \in {"BLOCKED", "WAITING"}}
  BY <1>1 DEF TasksInv, TypeOK, QueuesMatchStates, OneRunning
<1>3. Schedulable(st)
  BY <1>1, <1>2, IdlePid DEF Schedulable, TasksInv, OneRunning, TaskState
<1>4. \A t \in Pid : st[t] = IF t = current THEN s ELSE state[t]
  BY <1>2
<1>5. /\ Schedule(st, ticks, stamp) /\ sleep_list' = sleep_list
      /\ block_list' = block_list \cup {current}
  BY DEF task_block
<1> HIDE DEF st
<1>6. ToSet(sleep_list') = {t \in Pid : st[t] = "SLEEPING"}
  BY <1>2, <1>4, <1>5
<1>7. block_list' = {t \in Pid : st[t] \in {"BLOCKED", "WAITING"}}
  BY <1>1, <1>2, <1>4, <1>5
<1>8. QED
  BY <1>2, <1>3, <1>5, <1>6, <1>7, ScheduleKeepsQueues

LEMMA ReleaseKeepsTasks ==
  ASSUME TasksInv, NEW w \in Pid, Release(w)
  PROVE  OneRunning' /\ QueuesMatchStates'
<1> DEFINE st == [state EXCEPT ![w] = "READY"]
<1>1. /\ state \in [Pid -> TaskState] /\ state[w] = "BLOCKED" /\ w # idle_task
      /\ IsInjective(sleep_list)
      /\ ToSet(sleep_list) = {t \in Pid : state[t] = "SLEEPING"}
      /\ block_list = {t \in Pid : state[t] \in {"BLOCKED", "WAITING"}}
  BY DEF TasksInv, TypeOK, QueuesMatchStates, OneRunning, Release
<1>2. Schedulable(st)
  BY <1>1, IdlePid DEF Schedulable, TasksInv, OneRunning, TaskState
<1>3. \A t \in Pid : st[t] = IF t = w THEN "READY" ELSE state[t]
  BY <1>1
<1>4. /\ Schedule(st, ticks, stamp) /\ sleep_list' = sleep_list
      /\ block_list' = block_list \ {w}
  BY DEF Release
<1> HIDE DEF st
<1>5. ToSet(sleep_list') = {t \in Pid : st[t] = "SLEEPING"}
  BY <1>1, <1>3, <1>4
<1>6. block_list' = {t \in Pid : st[t] \in {"BLOCKED", "WAITING"}}
  BY <1>1, <1>3, <1>4
<1>7. QED
  BY <1>1, <1>2, <1>4, <1>5, <1>6, ScheduleKeepsQueues

LEMMA ExitKeepsTasks ==
  ASSUME TasksInv, task_exit
  PROVE  OneRunning' /\ QueuesMatchStates'
<1> DEFINE st == [state EXCEPT ![current] = "DIED"]
<1>1. current \in Pid /\ current # idle_task
  BY DEF task_exit, Calls, IsUser, idle_task, test_task
<1>2. /\ state \in [Pid -> TaskState] /\ state[current] = "RUNNING"
      /\ IsInjective(sleep_list)
      /\ ToSet(sleep_list) = {t \in Pid : state[t] = "SLEEPING"}
      /\ block_list = {t \in Pid : state[t] \in {"BLOCKED", "WAITING"}}
  BY <1>1 DEF TasksInv, TypeOK, QueuesMatchStates, OneRunning
<1>3. Schedulable(st)
  BY <1>1, <1>2, IdlePid DEF Schedulable, TasksInv, OneRunning, TaskState
<1>4. \A t \in Pid : st[t] = IF t = current THEN "DIED" ELSE state[t]
  BY <1>2
<1>5. Schedule(st, ticks, stamp) /\ sleep_list' = sleep_list /\ block_list' = block_list
  BY DEF task_exit
<1> HIDE DEF st
<1>6. /\ ToSet(sleep_list') = {t \in Pid : st[t] = "SLEEPING"}
      /\ block_list' = {t \in Pid : st[t] \in {"BLOCKED", "WAITING"}}
  BY <1>2, <1>4, <1>5
<1>7. QED
  BY <1>2, <1>3, <1>5, <1>6, ScheduleKeepsQueues

LEMMA YieldKeepsTasks ==
  ASSUME TasksInv, Schedule(state, ticks, stamp), UNCHANGED <<sleep_list, block_list>>
  PROVE  OneRunning' /\ QueuesMatchStates'
<1>1. Schedulable(state)
  BY DEF Schedulable, TasksInv, OneRunning, TypeOK
<1>2. QED
  BY <1>1, ScheduleKeepsQueues DEF TasksInv, QueuesMatchStates

LEMMA KeyboardKeepsTasks ==
  ASSUME TasksInv, KeyboardInterrupt
  PROVE  OneRunning' /\ QueuesMatchStates'
<1>1. PICK woken \in SUBSET {t \in block_list : state[t] = "WAITING"} :
        /\ block_list' = block_list \ woken
        /\ state' = [t \in Pid |-> IF t \in woken THEN "READY" ELSE state[t]]
  BY DEF KeyboardInterrupt
<1>2. sleep_list' = sleep_list /\ current' = current
  BY DEF KeyboardInterrupt
<1>3. OneRunning'
  BY <1>1, <1>2, IdlePid DEF TasksInv, OneRunning
<1>4. ToSet(sleep_list') = {t \in Pid : state'[t] = "SLEEPING"}
  BY <1>1, <1>2 DEF TasksInv, QueuesMatchStates
<1>5. block_list' = {t \in Pid : state'[t] \in {"BLOCKED", "WAITING"}}
  BY <1>1 DEF TasksInv, QueuesMatchStates
<1>6. QED
  BY <1>2, <1>3, <1>4, <1>5 DEF TasksInv, QueuesMatchStates

LEMMA ForkKeepsTasks ==
  ASSUME TasksInv, task_fork
  PROVE  OneRunning' /\ QueuesMatchStates'
<1>1. PICK child \in Pid : IsFreeSlot(child) /\ state' = [state EXCEPT ![child] = "READY"]
  BY DEF task_fork
<1>2. state[child] = NULL /\ state \in [Pid -> TaskState]
  BY <1>1 DEF IsFreeSlot, TasksInv, TypeOK
<1>3. \A t \in Pid : state'[t] = IF t = child THEN "READY" ELSE state[t]
  BY <1>1, <1>2
<1>4. UNCHANGED <<current, sleep_list, block_list>>
  BY DEF task_fork
<1>5. child # idle_task /\ state[child] \notin {"RUNNING", "SLEEPING", "BLOCKED", "WAITING"}
  BY <1>2 DEF TasksInv, OneRunning, NULL
<1>6. OneRunning'
  BY <1>3, <1>4, <1>5, IdlePid DEF TasksInv, OneRunning
<1>7. {t \in Pid : state'[t] = "SLEEPING"} = {t \in Pid : state[t] = "SLEEPING"}
  BY <1>3, <1>5
<1>8. {t \in Pid : state'[t] \in {"BLOCKED", "WAITING"}} =
      {t \in Pid : state[t] \in {"BLOCKED", "WAITING"}}
  BY <1>3, <1>5
<1>9. QED
  BY <1>4, <1>6, <1>7, <1>8 DEF TasksInv, QueuesMatchStates

LEMMA NextKeepsTasks == TasksInv /\ TypeOK' /\ [Next]_vars => TasksInv'
<1> SUFFICES ASSUME TasksInv, TypeOK', [Next]_vars PROVE OneRunning' /\ QueuesMatchStates'
  BY DEF TasksInv
<1>1. CASE clock_handler
  BY <1>1, ClockKeepsTasks
<1>2. CASE KeyboardInterrupt
  BY <1>2, KeyboardKeepsTasks
<1>3. CASE task_yield
  BY <1>3, YieldKeepsTasks DEF task_yield
<1>4. ASSUME NEW ms \in SleepMs, task_sleep(ms) PROVE OneRunning' /\ QueuesMatchStates'
  BY <1>4, SleepKeepsTasks
<1>5. ASSUME NEW s \in {"BLOCKED", "WAITING"}, task_block(s)
      PROVE  OneRunning' /\ QueuesMatchStates'
  BY <1>5, BlockKeepsTasks
<1>6. ASSUME NEW t \in Pid, Release(t) PROVE OneRunning' /\ QueuesMatchStates'
  BY <1>6, ReleaseKeepsTasks
<1>7. CASE task_fork
  BY <1>7, ForkKeepsTasks
<1>8. CASE task_exit
  BY <1>8, ExitKeepsTasks
<1>9. CASE IdleYield
  BY <1>9, YieldKeepsTasks DEF IdleYield
<1>10. CASE UNCHANGED <<state, current, sleep_list, block_list>>
  BY <1>10 DEF TasksInv, OneRunning, QueuesMatchStates
<1>11. QED
  BY <1>1, <1>2, <1>3, <1>4, <1>5, <1>6, <1>7, <1>8, <1>9, <1>10
     DEF Next, vars, ForkPanic, EnableInterrupts, IdleHalt, Halted

LEMMA InitTasks == Init => OneRunning /\ QueuesMatchStates
<1> SUFFICES ASSUME Init PROVE OneRunning /\ QueuesMatchStates
  OBVIOUS
<1>1. \A t \in Pid : state[t] \in {"READY", NULL}
  BY DEF Init
<1>2. state[idle_task] = "READY"
  BY SchedAssumption, IdlePid DEF Init, idle_task, test_task
<1>3. OneRunning
  BY <1>1, <1>2, BootNotPid DEF OneRunning, Init, NULL
<1>4. ToSet(sleep_list) = {} /\ IsInjective(sleep_list)
  BY DEF Init, ToSet, IsInjective
<1>5. QED
  BY <1>1, <1>3, <1>4 DEF QueuesMatchStates, Init, NULL

\* After any number of interrupts, calls, forks and exits, the one RUNNING task
\* is the one on the CPU, and every node is in the list its task's state says.
THEOREM TasksStayConsistent == Spec => [](OneRunning /\ QueuesMatchStates)
<1>1. Init /\ TypeOK => TasksInv
  BY InitTasks DEF TasksInv
<1>2. TasksInv /\ TypeOK' /\ [Next]_vars => TasksInv'
  BY NextKeepsTasks
<1>3. TasksInv => OneRunning /\ QueuesMatchStates
  BY DEF TasksInv
<1>4. QED
  BY <1>1, <1>2, <1>3, TypeCorrect, PTL DEF Spec

-----------------------------------------------------------------------------
(* The loop of task_search.  Induction, on sets: a set with 0 in it and with  *)
(* the successors of its members has all natural numbers.                    *)

LEMMA Induction ==
  ASSUME NEW S, 0 \in S, \A n \in Nat : n \in S => n + 1 \in S
  PROVE  \A n \in Nat : n \in S
<1> DEFINE less == {ss \in Nat \X Nat : ss[1] < ss[2]}
<1>1. IsWellFoundedOn(less, Nat)
  BY NatLessThanWellFounded DEF OpToRel
<1>2. \A m, n \in Nat : m < n => <<m, n>> \in less
  OBVIOUS
<1> HIDE DEF less
<1>3. ASSUME Nat \ S # {} PROVE FALSE
  <2>1. PICK n \in Nat \ S : \A m \in Nat \ S : <<m, n>> \notin less
    BY <1>1, <1>3, WFMin
  <2>2. n # 0 /\ n \in Nat
    BY <2>1
  <2>3. n - 1 \in Nat /\ n - 1 < n /\ (n - 1) + 1 = n
    BY <2>2
  <2>4. n - 1 \in S
    BY <1>2, <2>1, <2>2, <2>3
  <2>5. QED
    BY <2>1, <2>3, <2>4
<1>4. QED
  BY <1>3

\* The loop has an outcome after every turn.
ScanTurn(best, i, st, tk, sp) ==
  IF i = 0 THEN Boot
  ELSE IF i - 1 \notin Candidates(st) THEN best[i - 1]
  ELSE IF best[i - 1] = Boot THEN i - 1
  ELSE IF Beats(i - 1, best[i - 1], tk, sp) THEN i - 1 ELSE best[i - 1]

LEMMA ScanTurns ==
  ASSUME NEW st, NEW tk, NEW sp
  PROVE  \E best : /\ best = [i \in 0 .. NR_TASKS |-> ScanTurn(best, i, st, tk, sp)]
                   /\ Scan(st, tk, sp) = best[NR_TASKS]
<1> DEFINE Upto(n) == \E best : best = [i \in 0 .. n |-> ScanTurn(best, i, st, tk, sp)]
           S == {n \in Nat : Upto(n)}
<1>1. 0 \in S
  <2>1. [i \in {0} |-> Boot] = [i \in 0 .. 0 |-> ScanTurn([j \in {0} |-> Boot], i, st, tk, sp)]
    BY DEF ScanTurn
  <2>2. QED
    BY <2>1
<1>2. ASSUME NEW n \in Nat, n \in S PROVE n + 1 \in S
  <2>1. PICK best : best = [i \in 0 .. n |-> ScanTurn(best, i, st, tk, sp)]
    BY <1>2
  <2> DEFINE more == [i \in 0 .. n + 1 |-> IF i = n + 1 THEN ScanTurn(best, n + 1, st, tk, sp)
                                           ELSE best[i]]
  <2>2. \A i \in 0 .. n : more[i] = best[i]
    OBVIOUS
  <2>3. ASSUME NEW i \in 0 .. n + 1
        PROVE  ScanTurn(more, i, st, tk, sp) = ScanTurn(best, i, st, tk, sp)
    <3>1. i # 0 => more[i - 1] = best[i - 1]
      BY <2>2
    <3> HIDE DEF more
    <3>2. QED
      BY <3>1 DEF ScanTurn
  <2>4. \A i \in 0 .. n : best[i] = ScanTurn(best, i, st, tk, sp)
    BY <2>1
  <2>5. \A i \in 0 .. n + 1 : more[i] = ScanTurn(best, i, st, tk, sp)
    BY <2>4
  <2>6. more = [i \in 0 .. n + 1 |-> more[i]]
    OBVIOUS
  <2> HIDE DEF more
  <2>7. more = [i \in 0 .. n + 1 |-> ScanTurn(more, i, st, tk, sp)]
    BY <2>3, <2>5, <2>6
  <2>8. QED
    BY <2>7
<1>3. Upto(NR_TASKS)
  <2> HIDE DEF Upto
  <2>1. \A n \in Nat : n \in S
    <3> HIDE DEF S
    <3>1. QED
      BY <1>1, <1>2, Induction
  <2>2. QED
    BY <2>1, SchedAssumption
<1>4. QED
  BY <1>3 DEF Scan, ScanTurn

\* What the loop finds: nobody when there is no candidate, otherwise a candidate that no
\* later one beats.
LEMMA ScanFinds ==
  ASSUME NEW st, NEW tk, NEW sp
  PROVE  LET best == Scan(st, tk, sp)
         IN \/ best = Boot /\ Candidates(st) = {}
            \/ /\ best \in Candidates(st)
               /\ \A t \in Candidates(st) : t > best => ~ Beats(t, best, tk, sp)
<1>1. PICK best : /\ best = [i \in 0 .. NR_TASKS |-> ScanTurn(best, i, st, tk, sp)]
                  /\ Scan(st, tk, sp) = best[NR_TASKS]
  BY ScanTurns
<1>2. \A i \in 0 .. NR_TASKS : best[i] = ScanTurn(best, i, st, tk, sp)
  BY <1>1
<1> DEFINE Below(n) == {t \in Candidates(st) : t < n}
           Right(n) == \/ best[n] = Boot /\ Below(n) = {}
                       \/ /\ best[n] \in Below(n)
                          /\ \A t \in Below(n) : t > best[n] => ~ Beats(t, best[n], tk, sp)
           S == {n \in Nat : n <= NR_TASKS => Right(n)}
<1>3. Candidates(st) \subseteq 0 .. NR_TASKS - 1 /\ NR_TASKS \in Nat
  BY SchedAssumption DEF Candidates, Pid
<1>4. 0 \in S
  <2>1. best[0] = Boot
    BY <1>2, <1>3 DEF ScanTurn
  <2>2. Below(0) = {}
    BY <1>3
  <2>3. QED
    BY <2>1, <2>2
<1>5. ASSUME NEW n \in Nat, n \in S PROVE n + 1 \in S
  <2> SUFFICES ASSUME n + 1 <= NR_TASKS PROVE Right(n + 1)
    OBVIOUS
  <2>1. Right(n) /\ n \in 0 .. NR_TASKS - 1 /\ n + 1 \in 0 .. NR_TASKS
    BY <1>3, <1>5
  <2>2. best[n + 1] = IF n \notin Candidates(st) THEN best[n]
                      ELSE IF best[n] = Boot THEN n
                      ELSE IF Beats(n, best[n], tk, sp) THEN n ELSE best[n]
    BY <1>2, <2>1 DEF ScanTurn
  <2>3. Below(n + 1) = IF n \in Candidates(st) THEN Below(n) \cup {n} ELSE Below(n)
    BY <1>3
  <2>4. \A t \in Below(n) : t \in 0 .. NR_TASKS - 1 /\ t < n
    BY <1>3
  <2>5. Boot \notin Below(n)
    BY <2>4 DEF Boot
  <2> HIDE DEF Below
  <2>6. CASE n \notin Candidates(st)
    BY <2>1, <2>2, <2>3, <2>6
  <2>7. CASE n \in Candidates(st) /\ best[n] = Boot
    BY <2>1, <2>2, <2>3, <2>4, <2>5, <2>7
  <2>8. CASE n \in Candidates(st) /\ best[n] # Boot /\ Beats(n, best[n], tk, sp)
    BY <2>2, <2>3, <2>4, <2>8
  <2>9. CASE n \in Candidates(st) /\ best[n] # Boot /\ ~ Beats(n, best[n], tk, sp)
    BY <2>1, <2>2, <2>3, <2>4, <2>9
  <2>10. QED
    BY <2>6, <2>7, <2>8, <2>9
<1>6. Right(NR_TASKS)
  <2> HIDE DEF Right
  <2>1. \A n \in Nat : n \in S
    <3> HIDE DEF S
    <3>1. QED
      BY <1>4, <1>5, Induction
  <2>2. QED
    BY <1>3, <2>1
<1>7. Below(NR_TASKS) = Candidates(st)
  BY <1>3
<1>8. QED
  BY <1>1, <1>6, <1>7

-----------------------------------------------------------------------------
(* Sleepers.  While no deadline is beyond the last word of the clock, the    *)
(* sleep list is sorted by deadlines, so that the first sleeper that is not  *)
(* due speaks for those behind it; and schedule(), which may renew the field *)
(* a deadline is kept in, renews only a slice that is used up.               *)

NoWrap == \A ms \in SleepMs : MaxJiffies + SleepTicks(ms) < WORD

Sorted ==
  \A i, j \in 1 .. Len(sleep_list) : i < j => ticks[sleep_list[i]] <= ticks[sleep_list[j]]

SleepInv == TasksInv /\ jiffies <= MaxJiffies /\ Sorted /\ NoOversleep

LEMMA SleepTicksPositive == ASSUME NEW ms \in SleepMs PROVE SleepTicks(ms) \in Nat \ {0}
<1>1. ms \div JIFFY \in Int
  BY SchedAssumption
<1>2. QED
  BY <1>1 DEF SleepTicks

LEMMA WithinWord == ASSUME NEW n \in Int, 0 <= n, n < WORD PROVE n % WORD = n
  BY SchedAssumption

\* The sleepers by their positions in the list.
LEMMA Sleepers ==
  ASSUME TasksInv
  PROVE  /\ Len(sleep_list) \in Nat
         /\ \A i \in 1 .. Len(sleep_list) :
              /\ sleep_list[i] \in Pid /\ state[sleep_list[i]] = "SLEEPING"
              /\ sleep_list[i] # current
         /\ \A t \in Pid : state[t] = "SLEEPING" =>
              \E i \in 1 .. Len(sleep_list) : sleep_list[i] = t
         /\ \A t \in Pid : ticks[t] \in 0 .. WORD - 1
         /\ jiffies \in Nat
<1>1. sleep_list \in Seq(Pid)
  BY DEF TasksInv, TypeOK
<1>2. Len(sleep_list) \in Nat /\ DOMAIN sleep_list = 1 .. Len(sleep_list)
  BY <1>1, LenProperties
<1>3. ToSet(sleep_list) = {t \in Pid : state[t] = "SLEEPING"}
  BY DEF TasksInv, QueuesMatchStates
<1>4. \A i \in 1 .. Len(sleep_list) : sleep_list[i] \in ToSet(sleep_list)
  BY <1>2 DEF ToSet
<1>5. \A t \in ToSet(sleep_list) : \E i \in 1 .. Len(sleep_list) : sleep_list[i] = t
  BY <1>2 DEF ToSet
<1>6. \A t \in Pid : state[t] = "SLEEPING" => t # current
  BY DEF TasksInv, OneRunning
<1>7. (\A t \in Pid : ticks[t] \in 0 .. WORD - 1) /\ jiffies \in Nat
  BY DEF TasksInv, TypeOK
<1>8. QED
  BY <1>2, <1>3, <1>4, <1>5, <1>6, <1>7

\* Only the slice of the task that leaves is renewed.
LEMMA ScheduleTicks ==
  ASSUME NEW st, NEW tk, NEW sp, Schedule(st, tk, sp)
  PROVE  \A t \in Pid : t # current \/ tk[t] # 0 => ticks'[t] = tk[t]
  BY DEF Schedule, Refill

\* A handler that leaves the sleep list, the clock and the deadlines alone.
LEMMA SleepersKeep ==
  ASSUME SleepInv, TasksInv', sleep_list' = sleep_list, jiffies' = jiffies,
         \A t \in Pid : state[t] = "SLEEPING" => ticks'[t] = ticks[t]
  PROVE  SleepInv'
<1>1. \A i \in 1 .. Len(sleep_list) : ticks'[sleep_list[i]] = ticks[sleep_list[i]]
  BY Sleepers DEF SleepInv
<1>2. Sorted'
  BY <1>1 DEF Sorted, SleepInv
<1>3. \A t \in Pid : state'[t] = "SLEEPING" => state[t] = "SLEEPING"
  BY DEF SleepInv, TasksInv, QueuesMatchStates
<1>4. NoOversleep'
  BY <1>3 DEF NoOversleep, SleepInv, SleepTicks
<1>5. QED
  BY <1>2, <1>4 DEF SleepInv

LEMMA ClockKeepsSleepers ==
  ASSUME NoWrap, SleepInv, TasksInv', clock_handler
  PROVE  SleepInv'
<1> DEFINE woken(n) == {sleep_list[i] : i \in 1 .. n}
           st(n) == [t \in Pid |-> IF t \in woken(n) THEN "READY" ELSE state[t]]
           tk(n) == [t \in Pid |-> IF t \in woken(n) THEN 0
                                   ELSE IF t = current THEN Decrement(ticks[t])
                                   ELSE ticks[t]]
           sp == [t \in Pid |-> IF t = current THEN NextJiffy ELSE stamp[t]]
<1>1. PICK n \in 0 .. Len(sleep_list) :
        /\ DuePrefix(n)
        /\ sleep_list' = SubSeq(sleep_list, n + 1, Len(sleep_list))
        /\ \/ Schedule(st(n), tk(n), sp)
           \/ ticks' = tk(n)
  BY DEF clock_handler
<1>2. /\ Len(sleep_list) \in Nat
      /\ \A i \in 1 .. Len(sleep_list) :
           sleep_list[i] \in Pid /\ state[sleep_list[i]] = "SLEEPING" /\ sleep_list[i] # current
      /\ \A t \in Pid : ticks[t] \in 0 .. WORD - 1
      /\ jiffies \in Nat
  BY Sleepers DEF SleepInv
<1>3. \A j, k \in 1 .. Len(sleep_list) : sleep_list[j] = sleep_list[k] => j = k
  <2>1. IsInjective(sleep_list) /\ DOMAIN sleep_list = 1 .. Len(sleep_list)
    BY LenProperties DEF SleepInv, TasksInv, TypeOK, QueuesMatchStates
  <2>2. QED
    BY <2>1 DEF IsInjective
<1>4. /\ Len(sleep_list') = Len(sleep_list) - n
      /\ \A j \in 1 .. Len(sleep_list) - n : sleep_list'[j] = sleep_list[n + j]
  <2>1. sleep_list \in Seq(Pid)
    BY DEF SleepInv, TasksInv, TypeOK
  <2>2. QED
    BY <1>1, <2>1, Popped
<1>5. \A k \in n + 1 .. Len(sleep_list) :
        ticks'[sleep_list[k]] = ticks[sleep_list[k]]
  <2> TAKE k \in n + 1 .. Len(sleep_list)
  <2>1. sleep_list[k] \in Pid /\ sleep_list[k] # current /\ sleep_list[k] \notin woken(n)
    BY <1>2, <1>3
  <2>2. tk(n)[sleep_list[k]] = ticks[sleep_list[k]]
    BY <2>1
  <2> HIDE DEF tk, st
  <2>3. CASE Schedule(st(n), tk(n), sp)
    BY <2>1, <2>2, <2>3, ScheduleTicks
  <2>4. QED
    BY <1>1, <2>2, <2>3
<1>6. \A k \in n + 1 .. Len(sleep_list) : jiffies < ticks[sleep_list[k]]
  <2> TAKE k \in n + 1 .. Len(sleep_list)
  <2>1. n < Len(sleep_list) /\ n + 1 \in 1 .. Len(sleep_list) /\ k \in 1 .. Len(sleep_list)
    BY <1>2
  <2>2. jiffies < ticks[sleep_list[n + 1]]
    BY <1>1, <1>2, <2>1 DEF DuePrefix, Due
  <2>3. ticks[sleep_list[n + 1]] <= ticks[sleep_list[k]]
    BY <1>2, <2>1 DEF SleepInv, Sorted
  <2>4. QED
    BY <1>2, <2>1, <2>2, <2>3
<1>7. Sorted'
  <2>1. ASSUME NEW i \in 1 .. Len(sleep_list'), NEW j \in 1 .. Len(sleep_list'), i < j
        PROVE  ticks'[sleep_list'[i]] <= ticks'[sleep_list'[j]]
    <3>1. /\ n + i \in n + 1 .. Len(sleep_list) /\ n + j \in n + 1 .. Len(sleep_list)
          /\ n + i \in 1 .. Len(sleep_list) /\ n + j \in 1 .. Len(sleep_list)
          /\ n + i < n + j
          /\ i \in 1 .. Len(sleep_list) - n /\ j \in 1 .. Len(sleep_list) - n
      BY <1>2, <1>4, <2>1
    <3>2. sleep_list'[i] = sleep_list[n + i] /\ sleep_list'[j] = sleep_list[n + j]
      BY <1>4, <3>1
    <3>3. ticks[sleep_list[n + i]] <= ticks[sleep_list[n + j]]
      BY <3>1 DEF SleepInv, Sorted
    <3>4. QED
      BY <1>5, <3>1, <3>2, <3>3
  <2>2. QED
    BY <2>1 DEF Sorted
<1>8. \A t \in Pid : state'[t] = "SLEEPING" =>
        \E k \in n + 1 .. Len(sleep_list) : t = sleep_list[k]
  <2> TAKE t \in Pid
  <2> HAVE state'[t] = "SLEEPING"
  <2>1. PICK i \in 1 .. Len(sleep_list') : sleep_list'[i] = t
    <3>1. sleep_list' \in Seq(Pid) /\ t \in ToSet(sleep_list')
      BY DEF TasksInv, TypeOK, QueuesMatchStates
    <3>2. DOMAIN sleep_list' = 1 .. Len(sleep_list')
      BY <3>1, LenProperties
    <3>3. QED
      BY <3>1, <3>2 DEF ToSet
  <2>2. n + i \in n + 1 .. Len(sleep_list) /\ i \in 1 .. Len(sleep_list) - n
    BY <1>2, <1>4
  <2>3. QED
    BY <1>4, <2>1, <2>2
<1>9. NoOversleep'
  <2>1. ASSUME NEW t \in Pid, state'[t] = "SLEEPING"
        PROVE  /\ jiffies' <= ticks'[t]
               /\ \E ms \in SleepMs : ticks'[t] <= jiffies' + SleepTicks(ms)
    <3>1. PICK k \in n + 1 .. Len(sleep_list) : t = sleep_list[k]
      BY <1>8, <2>1
    <3>2. state[t] = "SLEEPING" /\ ticks'[t] = ticks[t] /\ jiffies < ticks[t]
      BY <1>2, <1>5, <1>6, <3>1
    <3>3. PICK ms \in SleepMs : ticks[t] <= jiffies + SleepTicks(ms)
      BY <3>2 DEF SleepInv, NoOversleep
    <3>4. jiffies < MaxJiffies /\ jiffies' = NextJiffy /\ MaxJiffies + SleepTicks(ms) < WORD
      BY DEF clock_handler, NoWrap
    <3>5. SleepTicks(ms) \in Nat \ {0} /\ MaxJiffies \in Nat /\ WORD \in Nat
      BY SleepTicksPositive, SchedAssumption
    <3>6. jiffies' = jiffies + 1
      <4>1. jiffies + 1 \in Int /\ 0 <= jiffies + 1 /\ jiffies + 1 < WORD
        BY <1>2, <3>4, <3>5
      <4>2. QED
        BY <3>4, <4>1, WithinWord DEF NextJiffy
    <3>7. QED
      BY <1>2, <3>2, <3>3, <3>5, <3>6
  <2>2. QED
    BY <2>1 DEF NoOversleep, SleepTicks
<1>10. jiffies' <= MaxJiffies
  <2>1. jiffies < MaxJiffies /\ jiffies' = (jiffies + 1) % WORD /\ MaxJiffies \in Nat
    BY SchedAssumption DEF clock_handler, NextJiffy
  <2>2. jiffies + 1 \in 0 .. WORD
    BY SchedAssumption DEF SleepInv, TasksInv, TypeOK
  <2>3. CASE jiffies + 1 < WORD
    BY <1>2, <2>1, <2>3, WithinWord
  <2>4. CASE jiffies + 1 = WORD
    <3>1. (jiffies + 1) % WORD = 0
      BY <2>4, SchedAssumption
    <3>2. QED
      BY <2>1, <3>1
  <2>5. QED
    BY <2>2, <2>3, <2>4, SchedAssumption
<1>11. QED
  BY <1>7, <1>9, <1>10 DEF SleepInv

LEMMA SleepKeepsSleepers ==
  ASSUME NoWrap, SleepInv, TasksInv', NEW ms \in SleepMs, task_sleep(ms)
  PROVE  SleepInv'
<1>1. PICK i \in 1 .. Len(sleep_list) + 1 :
        /\ Anchor(i, Deadline(ms))
        /\ sleep_list' = InsertAt(sleep_list, i, current)
  BY DEF task_sleep
<1>2. /\ Schedule([state EXCEPT ![current] = "SLEEPING"],
                  [ticks EXCEPT ![current] = Deadline(ms)], stamp)
      /\ jiffies' = jiffies /\ current \in Pid
  BY DEF task_sleep, Calls
<1>3. /\ Len(sleep_list) \in Nat
      /\ \A k \in 1 .. Len(sleep_list) : sleep_list[k] \in Pid /\ sleep_list[k] # current
      /\ \A t \in Pid : ticks[t] \in 0 .. WORD - 1
      /\ jiffies \in Nat
      /\ ticks \in [Pid -> 0 .. WORD - 1]
  BY Sleepers DEF SleepInv, TasksInv, TypeOK
<1>4. Deadline(ms) = jiffies + SleepTicks(ms) /\ Deadline(ms) \in Nat \ {0}
  <2>1. SleepTicks(ms) \in Nat \ {0} /\ MaxJiffies \in Nat /\ WORD \in Nat
    BY SleepTicksPositive, SchedAssumption
  <2>2. jiffies + SleepTicks(ms) < WORD
    BY <1>3, <2>1 DEF SleepInv, NoWrap
  <2>3. QED
    BY <1>3, <2>1, <2>2, WithinWord DEF Deadline
<1>5. /\ ticks'[current] = Deadline(ms)
      /\ \A t \in Pid \ {current} : ticks'[t] = ticks[t]
  <2>1. \A t \in Pid : [ticks EXCEPT ![current] = Deadline(ms)][t] =
                         IF t = current THEN Deadline(ms) ELSE ticks[t]
    BY <1>3
  <2>2. QED
    BY <1>2, <1>4, <2>1, ScheduleTicks
<1>6. /\ Len(sleep_list') = Len(sleep_list) + 1
      /\ \A k \in 1 .. Len(sleep_list) + 1 :
           sleep_list'[k] = IF k < i THEN sleep_list[k]
                            ELSE IF k = i THEN current ELSE sleep_list[k - 1]
  <2>1. sleep_list \in Seq(Pid)
    BY DEF SleepInv, TasksInv, TypeOK
  <2>2. current \in Pid
    BY <1>2
  <2>3. /\ InsertAt(sleep_list, i, current) \in Seq(Pid)
        /\ Len(InsertAt(sleep_list, i, current)) = Len(sleep_list) + 1
        /\ \A k \in 1 .. Len(sleep_list) + 1 :
             InsertAt(sleep_list, i, current)[k] =
               IF k < i THEN sleep_list[k] ELSE IF k = i THEN current ELSE sleep_list[k - 1]
    BY <1>1, <2>1, <2>2, Inserted
  <2>4. QED
    BY <1>1, <2>3
<1> DEFINE d(k) == ticks[sleep_list[k]]
<1>7. /\ \A k \in 1 .. Len(sleep_list) : d(k) \in Nat
      /\ \A k \in 1 .. i - 1 : k \in 1 .. Len(sleep_list) /\ d(k) <= Deadline(ms)
      /\ \A k \in i .. Len(sleep_list) : Deadline(ms) <= d(k)
      /\ \A j, k \in 1 .. Len(sleep_list) : j < k => d(j) <= d(k)
  <2>1. \A j, k \in 1 .. Len(sleep_list) : j < k => d(j) <= d(k)
    BY DEF SleepInv, Sorted
  <2>2. \A k \in 1 .. Len(sleep_list) : d(k) \in Nat
    BY <1>3
  <2>3. \A k \in 1 .. i - 1 : k \in 1 .. Len(sleep_list) /\ d(k) <= Deadline(ms)
    <3> TAKE k \in 1 .. i - 1
    <3>1. k \in 1 .. Len(sleep_list) /\ ~ Deadline(ms) < d(k)
      BY <1>1, <1>3 DEF Anchor
    <3>2. QED
      BY <1>4, <2>2, <3>1
  <2>4. \A k \in i .. Len(sleep_list) : Deadline(ms) <= d(k)
    <3> TAKE k \in i .. Len(sleep_list)
    <3>1. i \in 1 .. Len(sleep_list) /\ k \in 1 .. Len(sleep_list) /\ Deadline(ms) < d(i)
      BY <1>1, <1>3 DEF Anchor
    <3>2. d(i) <= d(k)
      BY <2>1, <2>2, <3>1
    <3>3. QED
      BY <1>4, <2>2, <3>1, <3>2
  <2>5. QED
    BY <2>1, <2>2, <2>3, <2>4
<1>8. \A k \in 1 .. Len(sleep_list) + 1 :
        ticks'[sleep_list'[k]] = IF k < i THEN d(k) ELSE IF k = i THEN Deadline(ms) ELSE d(k - 1)
  <2> TAKE k \in 1 .. Len(sleep_list) + 1
  <2>1. CASE k < i
    BY <2>1, <1>1, <1>3, <1>5, <1>6
  <2>2. CASE k = i
    BY <2>2, <1>5, <1>6
  <2>3. CASE i < k
    <3>1. k - 1 \in 1 .. Len(sleep_list) /\ sleep_list'[k] = sleep_list[k - 1]
      BY <2>3, <1>1, <1>3, <1>6
    <3>2. QED
      BY <2>3, <3>1, <1>3, <1>5
  <2>4. QED
    BY <2>1, <2>2, <2>3
<1> HIDE DEF d
<1>9. Sorted'
  <2>1. ASSUME NEW j \in 1 .. Len(sleep_list) + 1, NEW k \in 1 .. Len(sleep_list) + 1, j < k
        PROVE  ticks'[sleep_list'[j]] <= ticks'[sleep_list'[k]]
    <3>1. CASE k < i
      BY <2>1, <3>1, <1>3, <1>7, <1>8
    <3>2. CASE k = i
      BY <2>1, <3>2, <1>3, <1>7, <1>8
    <3>3. CASE i < k /\ j < i
      <4>1. k - 1 \in i .. Len(sleep_list) /\ j \in 1 .. i - 1 /\ k - 1 \in 1 .. Len(sleep_list)
        BY <3>3, <1>3
      <4>2. QED
        BY <4>1, <3>3, <1>4, <1>7, <1>8
    <3>4. CASE i < k /\ j = i
      <4>1. k - 1 \in i .. Len(sleep_list) /\ k - 1 \in 1 .. Len(sleep_list)
        BY <3>4, <1>3
      <4>2. QED
        BY <4>1, <3>4, <1>4, <1>7, <1>8
    <3>5. CASE i < j
      <4>1. k - 1 \in 1 .. Len(sleep_list) /\ j - 1 \in 1 .. Len(sleep_list) /\ j - 1 < k - 1
        BY <2>1, <3>5, <1>3
      <4>2. QED
        BY <4>1, <2>1, <3>5, <1>7, <1>8
    <3>6. QED
      BY <3>1, <3>2, <3>3, <3>4, <3>5, <2>1
  <2>2. QED
    BY <2>1, <1>6 DEF Sorted
<1>10. NoOversleep'
  <2>1. \A t \in Pid \ {current} : state'[t] = "SLEEPING" => state[t] = "SLEEPING"
    BY <1>2 DEF Schedule, Preempted
  <2>2. QED
    BY <2>1, <1>2, <1>3, <1>4, <1>5, SleepTicksPositive DEF SleepInv, NoOversleep, SleepTicks
<1>11. QED
  BY <1>2, <1>9, <1>10 DEF SleepInv

LEMMA NextKeepsSleepers ==
  ASSUME NoWrap, SleepInv, TasksInv', [Next]_vars
  PROVE  SleepInv'
<1>0. \A t \in Pid : state[t] = "SLEEPING" => t # current
  BY DEF SleepInv, TasksInv, OneRunning
<1>1. CASE clock_handler
  BY <1>1, ClockKeepsSleepers
<1>2. ASSUME NEW ms \in SleepMs, task_sleep(ms) PROVE SleepInv'
  BY <1>2, SleepKeepsSleepers
<1>3. ASSUME NEW st, Schedule(st, ticks, stamp), UNCHANGED <<sleep_list, jiffies>>
      PROVE  SleepInv'
  BY <1>0, <1>3, ScheduleTicks, SleepersKeep
<1>4. CASE task_fork
  <2>1. PICK child \in Pid :
          IsFreeSlot(child) /\ ticks' = [ticks EXCEPT ![child] = Priority(child)]
    BY <1>4 DEF task_fork
  <2>2. state[child] # "SLEEPING"
    BY <2>1 DEF IsFreeSlot, NULL
  <2>3. ticks \in [Pid -> 0 .. WORD - 1]
    BY DEF SleepInv, TasksInv, TypeOK
  <2>4. QED
    BY <1>4, <2>1, <2>2, <2>3, SleepersKeep DEF task_fork
<1>5. CASE UNCHANGED <<ticks, sleep_list, jiffies>>
  BY <1>5, SleepersKeep
<1>6. CASE task_yield
  BY <1>6, <1>3 DEF task_yield
<1>7. ASSUME NEW s \in {"BLOCKED", "WAITING"}, task_block(s) PROVE SleepInv'
  BY <1>7, <1>3 DEF task_block
<1>8. ASSUME NEW t \in Pid, Release(t) PROVE SleepInv'
  BY <1>8, <1>3 DEF Release
<1>9. CASE task_exit
  BY <1>9, <1>3 DEF task_exit
<1>10. CASE IdleYield
  BY <1>10, <1>3 DEF IdleYield
<1>11. QED
  BY <1>1, <1>2, <1>4, <1>5, <1>6, <1>7, <1>8, <1>9, <1>10
     DEF Next, vars, KeyboardInterrupt, ForkPanic, EnableInterrupts, IdleHalt, Halted

\* As long as no deadline is beyond the last value of the clock, nobody oversleeps: every
\* sleeper is READY again when the clock has reached its deadline, which is no farther
\* away than the longest sleep (task_sleep, task_wakeup, schedule).
THEOREM NobodyOversleeps ==
  ASSUME \A ms \in SleepMs : MaxJiffies + SleepTicks(ms) < WORD
  PROVE  Spec => []NoOversleep
<1>0. NoWrap
  BY DEF NoWrap
<1>1. Init => jiffies <= MaxJiffies /\ Sorted /\ NoOversleep
  <2> SUFFICES ASSUME Init PROVE jiffies <= MaxJiffies /\ Sorted /\ NoOversleep
    OBVIOUS
  <2>1. jiffies = 0 /\ Len(sleep_list) = 0
    BY DEF Init
  <2>2. \A t \in Pid : state[t] # "SLEEPING"
    BY DEF Init, NULL
  <2>3. QED
    BY <2>1, <2>2, SchedAssumption DEF Sorted, NoOversleep
<1>2. Init /\ TypeOK => SleepInv
  BY <1>1, InitTasks DEF SleepInv, TasksInv
<1>3. SleepInv /\ TypeOK' /\ [Next]_vars => SleepInv'
  BY <1>0, NextKeepsTasks, NextKeepsSleepers DEF SleepInv
<1>4. SleepInv => NoOversleep
  BY DEF SleepInv
<1>5. QED
  BY <1>2, <1>3, <1>4, TypeCorrect, PTL DEF Spec

\* What schedule() chooses.
LEMMA ScheduleChooses ==
  ASSUME NEW st, NEW tk, NEW sp, Schedule(st, tk, sp)
  PROVE  /\ Candidates(st) # {} => current' \in Candidates(st)
         /\ current' # idle_task =>
              \A t \in Candidates(st) : t > current' => ~ Beats(t, current', tk, sp)
<1>1. current' = LET best == Scan(st, tk, sp)
                 IN IF best \in Candidates(st) THEN best ELSE idle_task
  BY DEF Schedule, TaskSearch
<1>2. QED
  BY <1>1, ScanFinds

\* The CPU changes hands in schedule() only.
LEMMA OnlyScheduleSwitches ==
  ASSUME [Next]_vars, current' # current
  PROVE  \E st, tk : Schedule(st, tk, stamp')
<1>1. CASE clock_handler
  <2> DEFINE st(n) == [t \in Pid |-> IF t \in {sleep_list[i] : i \in 1 .. n} THEN "READY"
                                     ELSE state[t]]
             tk(n) == [t \in Pid |-> IF t \in {sleep_list[i] : i \in 1 .. n} THEN 0
                                     ELSE IF t = current THEN Decrement(ticks[t])
                                     ELSE ticks[t]]
             sp == [t \in Pid |-> IF t = current THEN NextJiffy ELSE stamp[t]]
  <2>1. \E n : Schedule(st(n), tk(n), sp) /\ stamp' = sp
    BY <1>1 DEF clock_handler
  <2> HIDE DEF st, tk, sp
  <2>2. QED
    BY <2>1
<1>2. ASSUME NEW st, NEW tk, Schedule(st, tk, stamp), UNCHANGED stamp
      PROVE  \E s, k : Schedule(s, k, stamp')
  <2>1. stamp' = stamp
    BY <1>2
  <2>2. QED
    BY <1>2, <2>1
<1>3. CASE task_yield
  BY <1>3, <1>2 DEF task_yield
<1>4. ASSUME NEW ms \in SleepMs, task_sleep(ms) PROVE \E st, tk : Schedule(st, tk, stamp')
  BY <1>4, <1>2 DEF task_sleep
<1>5. ASSUME NEW s \in {"BLOCKED", "WAITING"}, task_block(s)
      PROVE  \E st, tk : Schedule(st, tk, stamp')
  BY <1>5, <1>2 DEF task_block
<1>6. ASSUME NEW t \in Pid, Release(t) PROVE \E st, tk : Schedule(st, tk, stamp')
  BY <1>6, <1>2 DEF Release
<1>7. CASE task_exit
  BY <1>7, <1>2 DEF task_exit
<1>8. CASE IdleYield
  BY <1>8, <1>2 DEF IdleYield
<1>9. QED
  BY <1>1, <1>3, <1>4, <1>5, <1>6, <1>7, <1>8
     DEF Next, vars, KeyboardInterrupt, task_fork, ForkPanic, EnableInterrupts, IdleHalt, Halted

\* Whoever calls schedule(), and whatever it has changed before: no READY task further
\* down the table than the one that gets the CPU has more ticks or an older stamp. The
\* loop of task_search compares with the best so far, and what beats it later becomes it.
THEOREM SearchIsDecided == Spec => LaterTasksDoNotBeat
<1> DEFINE Decided ==
      current' # current /\ current' # idle_task =>
        \A t \in Pid : (t > current' /\ t # current /\ state'[t] = "READY"
                          /\ state[t] # NULL) =>
          /\ ticks'[t] <= ticks'[current']
          /\ stamp'[t] >= stamp'[current']
<1>1. ASSUME TypeOK, TypeOK', [Next]_vars PROVE Decided
  <2> SUFFICES ASSUME current' # current, current' # idle_task,
                      NEW t \in Pid, t > current', t # current, state'[t] = "READY"
               PROVE  /\ ticks'[t] <= ticks'[current']
                      /\ stamp'[t] >= stamp'[current']
    OBVIOUS
  <2>1. PICK st, tk : Schedule(st, tk, stamp')
    BY <1>1, OnlyScheduleSwitches
  <2>2. current' \in Candidates(st)
    BY <2>1, TaskSearchPicks DEF Schedule
  <2>3. t \in Candidates(st)
    <3>1. t # current'
      BY <2>2 DEF Candidates, Pid
    <3>2. state'[t] = st[t]
      BY <2>1, <3>1 DEF Schedule, Preempted
    <3>3. QED
      BY <3>2 DEF Candidates
  <2>4. ~ Beats(t, current', tk, stamp')
    BY <2>1, <2>3, ScheduleChooses
  <2>5. ticks'[t] = tk[t] /\ ticks'[current'] = tk[current']
    BY <2>1, <2>2 DEF Schedule, Refill, Candidates
  <2>6. {ticks'[t], ticks'[current'], stamp'[t], stamp'[current']} \subseteq Nat
    BY <1>1, <2>2 DEF TypeOK, Candidates
  <2>7. QED
    BY <2>4, <2>5, <2>6 DEF Beats
<1>2. QED
  BY <1>1, TypeCorrect, PTL DEF Spec, LaterTasksDoNotBeat

-----------------------------------------------------------------------------
(* Idle.  Its slice is one tick, used up by every clock interrupt and renewed *)
(* by the schedule() that follows, so it is always one when idle runs.       *)

IdleHasOneTick == ticks[idle_task] = 1

LEMMA IdleKeepsOneTick ==
  ASSUME TasksInv, IdleHasOneTick, [Next]_vars
  PROVE  IdleHasOneTick'
<1>0. /\ idle_task \in Pid /\ Priority(idle_task) = 1 /\ Decrement(1) = 0
      /\ ticks \in [Pid -> 0 .. WORD - 1] /\ ticks[idle_task] = 1
  BY IdlePid, SchedAssumption DEF Priority, Decrement, TasksInv, TypeOK, IdleHasOneTick
<1>1. ASSUME NEW st, NEW tk, NEW sp, Schedule(st, tk, sp),
             tk[idle_task] = 1 \/ (tk[idle_task] = 0 /\ current = idle_task)
      PROVE  IdleHasOneTick'
  BY <1>0, <1>1 DEF Schedule, Refill, IdleHasOneTick
<1>2. CASE clock_handler
  <2> DEFINE woken(n) == {sleep_list[i] : i \in 1 .. n}
             st(n) == [t \in Pid |-> IF t \in woken(n) THEN "READY" ELSE state[t]]
             tk(n) == [t \in Pid |-> IF t \in woken(n) THEN 0
                                     ELSE IF t = current THEN Decrement(ticks[t])
                                     ELSE ticks[t]]
             sp == [t \in Pid |-> IF t = current THEN NextJiffy ELSE stamp[t]]
  <2>1. PICK n \in 0 .. Len(sleep_list) :
          IF current = Boot \/ tk(n)[current] = 0
          THEN Schedule(st(n), tk(n), sp)
          ELSE state' = st(n) /\ ticks' = tk(n) /\ UNCHANGED current
    BY <1>2 DEF clock_handler
  <2>2. idle_task \notin woken(n)
    <3>1. \A i \in 1 .. Len(sleep_list) : state[sleep_list[i]] = "SLEEPING"
      BY Sleepers
    <3>2. state[idle_task] # "SLEEPING" /\ Len(sleep_list) \in Nat
      BY Sleepers DEF TasksInv, OneRunning
    <3>3. QED
      BY <2>1, <3>1, <3>2
  <2>3. tk(n)[idle_task] = IF current = idle_task THEN 0 ELSE 1
    BY <1>0, <2>2
  <2> HIDE DEF st, tk, sp
  <2>4. CASE Schedule(st(n), tk(n), sp)
    BY <1>1, <2>3, <2>4
  <2>5. CASE ~ (current = Boot \/ tk(n)[current] = 0) /\ ticks' = tk(n)
    BY <2>3, <2>5 DEF IdleHasOneTick
  <2>6. QED
    BY <2>1, <2>4, <2>5
<1>3. ASSUME NEW ms \in SleepMs, task_sleep(ms) PROVE IdleHasOneTick'
  <2>1. current # idle_task
    BY <1>3 DEF task_sleep, Calls, IsUser, idle_task, test_task
  <2>2. [ticks EXCEPT ![current] = Deadline(ms)][idle_task] = 1
    BY <1>0, <2>1
  <2>3. QED
    BY <1>1, <1>3, <2>2 DEF task_sleep
<1>4. CASE task_fork
  <2>1. PICK child \in Pid :
          IsFreeSlot(child) /\ ticks' = [ticks EXCEPT ![child] = Priority(child)]
    BY <1>4 DEF task_fork
  <2>2. QED
    BY <1>0, <2>1 DEF IdleHasOneTick
<1>5. CASE UNCHANGED ticks
  BY <1>5 DEF IdleHasOneTick
<1>6. CASE task_yield
  BY <1>0, <1>1, <1>6 DEF task_yield
<1>7. ASSUME NEW s \in {"BLOCKED", "WAITING"}, task_block(s) PROVE IdleHasOneTick'
  BY <1>0, <1>1, <1>7 DEF task_block
<1>8. ASSUME NEW t \in Pid, Release(t) PROVE IdleHasOneTick'
  BY <1>0, <1>1, <1>8 DEF Release
<1>9. CASE task_exit
  BY <1>0, <1>1, <1>9 DEF task_exit
<1>10. CASE IdleYield
  BY <1>0, <1>1, <1>10 DEF IdleYield
<1>11. QED
  BY <1>2, <1>3, <1>4, <1>5, <1>6, <1>7, <1>8, <1>9, <1>10
     DEF Next, vars, KeyboardInterrupt, ForkPanic, EnableInterrupts, IdleHalt, Halted

\* A clock interrupt that finds idle on the CPU, and another task READY before it, never
\* leaves idle there: the slice of idle is used up, and task_search passes over the task
\* that runs as long as it finds any other.
THEOREM IdleIsFallback == Spec => IdleGivesWay
<1> DEFINE GivesWay ==
      (jiffies' # jiffies /\ current = idle_task
        /\ \E t \in Pid \ {idle_task} : state[t] = "READY") => current' # idle_task
<1>1. Init => IdleHasOneTick
  BY IdlePid, SchedAssumption DEF Init, IdleHasOneTick, Priority, idle_task, test_task
<1>2. Spec => []TasksInv
  <2>1. Init /\ TypeOK => TasksInv
    BY InitTasks DEF TasksInv
  <2>2. TasksInv /\ TypeOK' /\ [Next]_vars => TasksInv'
    BY NextKeepsTasks
  <2>3. QED
    BY <2>1, <2>2, TypeCorrect, PTL DEF Spec
<1>3. ASSUME TasksInv, IdleHasOneTick, [Next]_vars PROVE GivesWay
  <2> SUFFICES ASSUME jiffies' # jiffies, current = idle_task,
                      NEW t \in Pid \ {idle_task}, state[t] = "READY"
               PROVE  current' # idle_task
    OBVIOUS
  <2>1. clock_handler
    BY <1>3 DEF Next, vars, KeyboardInterrupt, task_yield, task_sleep, task_block, Release,
                task_fork, ForkPanic, task_exit, EnableInterrupts, IdleHalt, IdleYield, Halted
  <2> DEFINE woken(n) == {sleep_list[i] : i \in 1 .. n}
             st(n) == [u \in Pid |-> IF u \in woken(n) THEN "READY" ELSE state[u]]
             tk(n) == [u \in Pid |-> IF u \in woken(n) THEN 0
                                     ELSE IF u = current THEN Decrement(ticks[u])
                                     ELSE ticks[u]]
             sp == [u \in Pid |-> IF u = current THEN NextJiffy ELSE stamp[u]]
  <2>2. PICK n \in 0 .. Len(sleep_list) :
          current = Boot \/ tk(n)[current] = 0 => Schedule(st(n), tk(n), sp)
    BY <2>1 DEF clock_handler
  <2>3. tk(n)[current] = 0
    <3>1. ticks[idle_task] = 1 /\ Decrement(1) = 0 /\ idle_task \in Pid
      BY <1>3, IdlePid, SchedAssumption DEF IdleHasOneTick, Decrement
    <3>2. QED
      BY <3>1
  <2>4. t \in Candidates(st(n))
    BY DEF Candidates
  <2> HIDE DEF st, tk, sp
  <2>5. current' \in Candidates(st(n))
    BY <2>2, <2>3, <2>4, ScheduleChooses
  <2>6. QED
    BY <2>5 DEF Candidates
<1>4. QED
  BY <1>1, <1>2, <1>3, IdleKeepsOneTick, PTL DEF Spec, IdleGivesWay

-----------------------------------------------------------------------------
(* Parents and the dead.  That exit never hands a child to a dead task needs *)
(* two facts about the table: it is filled from below, and a parent is older *)
(* than its child, so that the parent of the one who exits is another task.  *)

FilledFromBelow ==
  \A s, t \in Pid : s < t /\ state[t] # NULL => state[s] # NULL

ParentIsOlder == \A t \in Tasks \ {idle_task} : ppid[t] < t

FamilyInv == TasksInv /\ ParentAlive /\ FilledFromBelow /\ ParentIsOlder

\* schedule() and its callers neither create nor bury a task, except fork and exit
LEMMA ScheduleKeepsAlive ==
  ASSUME NEW st, NEW tk, NEW sp, Schedulable(st), Schedule(st, tk, sp), NEW t \in Pid
  PROVE  /\ st[t] \in {NULL, "DIED"} => state'[t] = st[t]
         /\ state'[t] \in {NULL, "DIED"} => state'[t] = st[t]
BY ScheduleEffect DEF NULL

LEMMA OnlyForkAndExit ==
  ASSUME TasksInv, [Next]_vars, NEW t \in Pid
  PROVE  \/ state[t] \in {NULL, "DIED"} \/ state'[t] \in {NULL, "DIED"} => state'[t] = state[t]
         \/ task_fork /\ IsFreeSlot(t) /\ state' = [state EXCEPT ![t] = "READY"]
         \/ task_exit /\ t = current /\ state'[t] = "DIED"
<1> DEFINE Same == state[t] \in {NULL, "DIED"} \/ state'[t] \in {NULL, "DIED"}
                     => state'[t] = state[t]
<1>0. state \in [Pid -> TaskState]
  BY DEF TasksInv, TypeOK
<1>1. CASE clock_handler
  <2>1. PICK n \in 0 .. Len(sleep_list) :
          LET woken == {sleep_list[i] : i \in 1 .. n}
              st == [p \in Pid |-> IF p \in woken THEN "READY" ELSE state[p]]
              tk == [p \in Pid |-> IF p \in woken THEN 0
                                   ELSE IF p = current THEN Decrement(ticks[p])
                                   ELSE ticks[p]]
              sp == [p \in Pid |-> IF p = current THEN NextJiffy ELSE stamp[p]]
          IN Schedule(st, tk, sp) \/ state' = st
    BY <1>1 DEF clock_handler
  <2> DEFINE woken == {sleep_list[i] : i \in 1 .. n}
             st == [p \in Pid |-> IF p \in woken THEN "READY" ELSE state[p]]
             tk == [p \in Pid |-> IF p \in woken THEN 0
                                  ELSE IF p = current THEN Decrement(ticks[p])
                                  ELSE ticks[p]]
             sp == [p \in Pid |-> IF p = current THEN NextJiffy ELSE stamp[p]]
  <2>2. sleep_list \in Seq(Pid) /\ ToSet(sleep_list) = {p \in Pid : state[p] = "SLEEPING"}
    BY DEF TasksInv, TypeOK, QueuesMatchStates
  <2>3. woken \subseteq ToSet(sleep_list)
    <3>1. Len(sleep_list) \in Nat /\ DOMAIN sleep_list = 1 .. Len(sleep_list)
      BY <2>2, LenProperties
    <3>2. 1 .. n \subseteq DOMAIN sleep_list
      BY <3>1
    <3>3. QED
      BY <3>2 DEF ToSet
  <2> HIDE DEF woken
  <2>4. \A p \in woken : state[p] = "SLEEPING"
    BY <2>2, <2>3
  <2>5. Schedulable(st)
    BY <1>0, <2>4, IdlePid DEF Schedulable, TasksInv, OneRunning, TaskState
  <2>6. st[t] = state[t] \/ (state[t] = "SLEEPING" /\ st[t] = "READY")
    BY <2>4
  <2> HIDE DEF st, tk, sp
  <2>7. CASE Schedule(st, tk, sp)
    <3>1. /\ st[t] \in {NULL, "DIED"} => state'[t] = st[t]
          /\ state'[t] \in {NULL, "DIED"} => state'[t] = st[t]
      BY <2>5, <2>7, ScheduleKeepsAlive
    <3>2. QED
      BY <3>1, <2>6 DEF NULL
  <2>8. CASE state' = st
    BY <2>6, <2>8 DEF NULL
  <2>9. QED
    BY <2>1, <2>7, <2>8 DEF st, tk, sp, woken
<1>2. CASE KeyboardInterrupt
  <2>1. PICK woken \in SUBSET {p \in block_list : state[p] = "WAITING"} :
          state' = [p \in Pid |-> IF p \in woken THEN "READY" ELSE state[p]]
    BY <1>2 DEF KeyboardInterrupt
  <2>2. QED
    BY <2>1 DEF NULL
<1>3. CASE task_yield \/ IdleYield
  <2>1. Schedulable(state) /\ Schedule(state, ticks, stamp)
    BY <1>3 DEF Schedulable, TasksInv, OneRunning, TypeOK, task_yield, IdleYield
  <2>2. QED
    BY <2>1, ScheduleKeepsAlive
<1>4. ASSUME NEW s \in {"SLEEPING", "BLOCKED", "WAITING"}, NEW tk,
             \E p \in Pid : Calls(p), Schedule([state EXCEPT ![current] = s], tk, stamp)
      PROVE  Same
  <2> DEFINE st == [state EXCEPT ![current] = s]
  <2>1. current \in Pid /\ current # idle_task /\ state[current] = "RUNNING"
    BY <1>4 DEF Calls, IsUser, idle_task, test_task, TasksInv, OneRunning
  <2>2. Schedulable(st)
    BY <1>0, <2>1, IdlePid DEF Schedulable, TasksInv, OneRunning, TaskState
  <2>3. st[t] = IF t = current THEN s ELSE state[t]
    BY <1>0
  <2> HIDE DEF st
  <2>4. /\ st[t] \in {NULL, "DIED"} => state'[t] = st[t]
        /\ state'[t] \in {NULL, "DIED"} => state'[t] = st[t]
    BY <1>4, <2>2, ScheduleKeepsAlive DEF st
  <2>5. QED
    BY <2>1, <2>3, <2>4 DEF NULL
<1>5. ASSUME NEW w \in Pid, Release(w) PROVE Same
  <2> DEFINE st == [state EXCEPT ![w] = "READY"]
  <2>1. state[w] = "BLOCKED" /\ w # idle_task
    BY <1>5 DEF Release, TasksInv, OneRunning
  <2>2. Schedulable(st)
    BY <1>0, <2>1, IdlePid DEF Schedulable, TasksInv, OneRunning, TaskState
  <2>3. st[t] = IF t = w THEN "READY" ELSE state[t]
    BY <1>0
  <2>4. Schedule(st, ticks, stamp)
    BY <1>5 DEF Release
  <2> HIDE DEF st
  <2>5. /\ st[t] \in {NULL, "DIED"} => state'[t] = st[t]
        /\ state'[t] \in {NULL, "DIED"} => state'[t] = st[t]
    BY <2>2, <2>4, ScheduleKeepsAlive
  <2>6. QED
    BY <2>1, <2>3, <2>5 DEF NULL
<1>6. CASE task_fork
  <2>1. PICK child \in Pid : IsFreeSlot(child) /\ state' = [state EXCEPT ![child] = "READY"]
    BY <1>6 DEF task_fork
  <2>2. CASE t = child
    BY <2>1, <2>2, <1>6
  <2>3. CASE t # child
    BY <2>1, <2>3, <1>0
  <2>4. QED
    BY <2>2, <2>3
<1>7. CASE task_exit
  <2> DEFINE st == [state EXCEPT ![current] = "DIED"]
  <2>1. current \in Pid /\ current # idle_task /\ Schedule(st, ticks, stamp)
    BY <1>7 DEF task_exit, Calls, IsUser, idle_task, test_task
  <2>2. Schedulable(st)
    BY <1>0, <2>1, IdlePid DEF Schedulable, TasksInv, OneRunning, TaskState
  <2>3. st[t] = IF t = current THEN "DIED" ELSE state[t]
    BY <1>0
  <2> HIDE DEF st
  <2>4. /\ st[t] \in {NULL, "DIED"} => state'[t] = st[t]
        /\ state'[t] \in {NULL, "DIED"} => state'[t] = st[t]
    BY <2>1, <2>2, ScheduleKeepsAlive
  <2>5. QED
    BY <1>7, <2>3, <2>4
<1>8. CASE UNCHANGED state
  BY <1>8
<1>9. ASSUME NEW ms \in SleepMs, task_sleep(ms) PROVE Same
  BY <1>9, <1>4 DEF task_sleep
<1>10. ASSUME NEW s \in {"BLOCKED", "WAITING"}, task_block(s) PROVE Same
  BY <1>10, <1>4 DEF task_block
<1> HIDE DEF Same
<1>11. CASE UNCHANGED vars
  BY <1>8, <1>11 DEF vars
<1>12. QED
  BY <1>1, <1>2, <1>3, <1>5, <1>6, <1>7, <1>8, <1>9, <1>10, <1>11
     DEF Next, ForkPanic, EnableInterrupts, IdleHalt, Halted, Same

LEMMA InitFamily == Init => ParentAlive /\ FilledFromBelow /\ ParentIsOlder
<1> SUFFICES ASSUME Init PROVE ParentAlive /\ FilledFromBelow /\ ParentIsOlder
  OBVIOUS
<1>1. \A t \in Pid : state[t] = (IF t <= 2 THEN "READY" ELSE NULL) /\ ppid[t] = 0
  BY DEF Init, test_task
<1>2. 0 \in Pid /\ \A t \in Pid : t \in Int /\ 0 <= t
  BY SchedAssumption DEF Pid
<1>3. QED
  BY <1>1, <1>2 DEF ParentAlive, FilledFromBelow, ParentIsOlder, Tasks, NULL, idle_task

\* fork takes the lowest free slot, which lies above the parent's
LEMMA ForkKeepsFamily ==
  ASSUME FamilyInv, task_fork
  PROVE  ParentAlive' /\ FilledFromBelow' /\ ParentIsOlder'
<1>1. PICK child \in Pid :
        /\ IsFreeSlot(child)
        /\ state' = [state EXCEPT ![child] = "READY"]
        /\ ppid' = [ppid EXCEPT ![child] = current]
  BY DEF task_fork
<1>2. /\ current \in Pid /\ state[current] = "RUNNING"
      /\ state \in [Pid -> TaskState] /\ ppid \in [Pid -> Pid]
  BY DEF task_fork, Calls, FamilyInv, TasksInv, OneRunning, TypeOK
<1>3. state[child] = NULL /\ \A s \in Pid : s < child => state[s] # NULL
  BY <1>1 DEF IsFreeSlot
<1>4. \A t \in Pid : t \in Int
  BY SchedAssumption DEF Pid
<1>5. current < child
  BY <1>2, <1>3, <1>4 DEF FamilyInv, FilledFromBelow, NULL
<1>6. \A t \in Pid : /\ state'[t] = IF t = child THEN "READY" ELSE state[t]
                     /\ ppid'[t] = IF t = child THEN current ELSE ppid[t]
  BY <1>1, <1>2
<1>7. ParentAlive'
  <2> SUFFICES ASSUME NEW t \in Pid, state'[t] # NULL
               PROVE  state'[ppid'[t]] \notin {NULL, "DIED"}
    BY DEF ParentAlive, Tasks
  <2>1. CASE t = child
    BY <2>1, <1>2, <1>5, <1>6 DEF NULL
  <2>2. CASE t # child
    <3>1. state[t] # NULL /\ ppid'[t] = ppid[t] /\ ppid[t] \in Pid
      BY <2>2, <1>2, <1>6
    <3>2. state[ppid[t]] \notin {NULL, "DIED"}
      BY <3>1 DEF FamilyInv, ParentAlive, Tasks
    <3>3. QED
      BY <3>1, <3>2, <1>6 DEF NULL
  <2>3. QED
    BY <2>1, <2>2
<1>8. FilledFromBelow'
  <2> SUFFICES ASSUME NEW s \in Pid, NEW t \in Pid, s < t, state'[t] # NULL
               PROVE  state'[s] # NULL
    BY DEF FilledFromBelow
  <2>1. CASE t = child
    BY <2>1, <1>3, <1>6 DEF NULL
  <2>2. CASE t # child
    BY <2>2, <1>6 DEF FamilyInv, FilledFromBelow, NULL
  <2>3. QED
    BY <2>1, <2>2
<1>9. ParentIsOlder'
  BY <1>5, <1>6 DEF FamilyInv, ParentIsOlder, Tasks
<1>10. QED
  BY <1>7, <1>8, <1>9

\* exit hands the children to its parent, which is older, so another task
LEMMA ExitKeepsFamily ==
  ASSUME FamilyInv, task_exit
  PROVE  ParentAlive' /\ FilledFromBelow' /\ ParentIsOlder'
<1>1. /\ current \in Pid /\ current # idle_task /\ state[current] = "RUNNING"
      /\ ppid \in [Pid -> Pid] /\ current \in Tasks
  BY DEF task_exit, Calls, IsUser, idle_task, test_task, FamilyInv, TasksInv,
     OneRunning, TypeOK, Tasks, NULL
<1>2. \A t \in Pid : ppid'[t] = IF state[t] # NULL /\ ppid[t] = current
                                THEN ppid[current] ELSE ppid[t]
  BY DEF task_exit, ParentAfterExit
<1>3. ~ task_fork
  <2>1. CASE task_fork
    <3>1. current' = current /\ state'[current] = "RUNNING"
      <4>1. PICK child \in Pid : IsFreeSlot(child) /\ state' = [state EXCEPT ![child] = "READY"]
        BY <2>1 DEF task_fork
      <4>2. child # current
        BY <4>1, <1>1 DEF IsFreeSlot, NULL
      <4>3. QED
        BY <2>1, <4>1, <4>2, <1>1 DEF task_fork, FamilyInv, TasksInv, TypeOK
    <3>2. state'[current] # "RUNNING"
      <4>1. Schedulable([state EXCEPT ![current] = "DIED"])
        BY <1>1, IdlePid DEF Schedulable, FamilyInv, TasksInv, OneRunning, TypeOK, TaskState
      <4>2. Schedule([state EXCEPT ![current] = "DIED"], ticks, stamp)
        BY DEF task_exit
      <4>3. [state EXCEPT ![current] = "DIED"][current] = "DIED"
        BY <1>1 DEF FamilyInv, TasksInv, TypeOK
      <4>4. QED
        BY <1>1, <4>1, <4>2, <4>3, ScheduleKeepsAlive
    <3>3. QED
      BY <3>1, <3>2
  <2>2. QED
    BY <2>1
<1>4. [Next]_vars
  BY DEF Next
<1>5. \A t \in Pid :
        IF t = current THEN state'[t] # NULL
        ELSE state[t] \in {NULL, "DIED"} \/ state'[t] \in {NULL, "DIED"}
               => state'[t] = state[t]
  <2>1. ASSUME NEW t \in Pid, t # current
        PROVE  state[t] \in {NULL, "DIED"} \/ state'[t] \in {NULL, "DIED"}
                 => state'[t] = state[t]
    BY <2>1, <1>3, <1>4, OnlyForkAndExit DEF FamilyInv
  <2>2. state'[current] # NULL
    BY <1>1, <1>3, <1>4, OnlyForkAndExit DEF FamilyInv, NULL
  <2>3. QED
    BY <2>1, <2>2
<1>6. \A t \in Pid : state'[t] = NULL <=> state[t] = NULL
  BY <1>1, <1>5 DEF NULL
<1>7. ppid[current] # current /\ ppid[current] < current
  <2>1. current \in Int /\ ppid[current] \in Int
    BY <1>1, SchedAssumption DEF Pid
  <2>2. ppid[current] < current
    BY <1>1 DEF FamilyInv, ParentIsOlder
  <2>3. QED
    BY <2>1, <2>2
<1>8. ParentAlive'
  <2> SUFFICES ASSUME NEW t \in Pid, state'[t] # NULL
               PROVE  state'[ppid'[t]] \notin {NULL, "DIED"}
    BY DEF ParentAlive, Tasks
  <2>1. t \in Tasks
    BY <1>6 DEF Tasks
  <2>2. PICK p \in Pid : p = ppid'[t] /\ p # current /\ state[p] \notin {NULL, "DIED"}
    <3>1. CASE ppid[t] = current
      BY <3>1, <2>1, <1>1, <1>2, <1>7 DEF Tasks, FamilyInv, ParentAlive
    <3>2. CASE ppid[t] # current
      BY <3>2, <2>1, <1>1, <1>2 DEF FamilyInv, ParentAlive
    <3>3. QED
      BY <3>1, <3>2
  <2>3. QED
    BY <2>2, <1>5
<1>9. FilledFromBelow'
  BY <1>6 DEF FamilyInv, FilledFromBelow
<1>10. ParentIsOlder'
  <2> SUFFICES ASSUME NEW t \in Pid, state'[t] # NULL, t # idle_task
               PROVE  ppid'[t] < t
    BY DEF ParentIsOlder, Tasks
  <2>1. t \in Tasks /\ ppid[t] < t
    BY <1>6 DEF Tasks, FamilyInv, ParentIsOlder
  <2>2. t \in Int /\ current \in Int /\ ppid[t] \in Int /\ ppid[current] \in Int
    BY <1>1, SchedAssumption DEF Pid
  <2>3. QED
    BY <2>1, <2>2, <1>2, <1>7
<1>11. QED
  BY <1>8, <1>9, <1>10

LEMMA NextKeepsFamily == FamilyInv /\ TasksInv' /\ [Next]_vars => FamilyInv'
<1> SUFFICES ASSUME FamilyInv, TasksInv', [Next]_vars
             PROVE  ParentAlive' /\ FilledFromBelow' /\ ParentIsOlder'
  BY DEF FamilyInv
<1>1. CASE task_fork
  BY <1>1, ForkKeepsFamily
<1>2. CASE task_exit
  BY <1>2, ExitKeepsFamily
<1>3. CASE ~ task_fork /\ ~ task_exit
  <2>1. \A t \in Pid : state[t] \in {NULL, "DIED"} \/ state'[t] \in {NULL, "DIED"}
                         => state'[t] = state[t]
    BY <1>3, OnlyForkAndExit DEF FamilyInv
  <2>2. ppid' = ppid
    BY <1>3 DEF Next, vars, clock_handler, KeyboardInterrupt, task_yield, task_sleep,
       task_block, Release, ForkPanic, EnableInterrupts, IdleHalt, IdleYield, Halted
  <2>3. \A t \in Pid : ppid[t] \in Pid
    BY DEF FamilyInv, TasksInv, TypeOK
  <2>4. \A t \in Pid : state'[t] = NULL <=> state[t] = NULL
    BY <2>1
  <2>5. \A t \in Pid : state'[t] \in {NULL, "DIED"} <=> state[t] \in {NULL, "DIED"}
    BY <2>1
  <2>6. ParentAlive'
    BY <2>2, <2>3, <2>4, <2>5 DEF FamilyInv, ParentAlive, Tasks
  <2>7. FilledFromBelow' /\ ParentIsOlder'
    BY <2>2, <2>4 DEF FamilyInv, FilledFromBelow, ParentIsOlder, Tasks
  <2>8. QED
    BY <2>6, <2>7
<1>4. QED
  BY <1>1, <1>2, <1>3

\* Whatever the order of forks and exits, no task is left with a dead parent.
THEOREM ParentsStayAlive == Spec => []ParentAlive
<1>1. Init /\ TypeOK => FamilyInv
  BY InitTasks, InitFamily DEF FamilyInv, TasksInv
<1>2. TasksInv /\ TypeOK' /\ [Next]_vars => TasksInv'
  BY NextKeepsTasks
<1>3. FamilyInv /\ TasksInv' /\ [Next]_vars => FamilyInv'
  BY NextKeepsFamily
<1>4. FamilyInv => ParentAlive /\ TasksInv
  BY DEF FamilyInv
<1>5. QED
  BY <1>1, <1>2, <1>3, <1>4, TypeCorrect, PTL DEF Spec

\* No interrupt, wake-up or fork ever touches the state of a task that exited.
THEOREM TheDeadStayDead == Spec => DeadStayDead
<1>1. TasksInv /\ [Next]_vars => [\A t \in Pid : state[t] = "DIED" => state'[t] = "DIED"]_vars
  <2> SUFFICES ASSUME TasksInv, [Next]_vars, NEW t \in Pid, state[t] = "DIED"
               PROVE  state'[t] = "DIED"
    OBVIOUS
  <2>1. ~ IsFreeSlot(t)
    BY DEF IsFreeSlot, NULL
  <2>2. QED
    BY <2>1, OnlyForkAndExit
<1>2. Init /\ TypeOK => TasksInv
  BY InitTasks DEF TasksInv
<1>3. TasksInv /\ TypeOK' /\ [Next]_vars => TasksInv'
  BY NextKeepsTasks
<1>4. QED
  BY <1>1, <1>2, <1>3, TypeCorrect, PTL DEF Spec, DeadStayDead

-----------------------------------------------------------------------------
(* Context: the frames and registers leave the scheduler as it is.          *)

LEMMA ContextStep ==
  ASSUME [ContextNext]_<<vars, contextVars>>
  PROVE  [Next]_vars
<1>1. CASE Interrupt
  BY <1>1 DEF Interrupt, Next
<1>2. CASE SystemCall
  BY <1>2 DEF SystemCall, Next
<1>3. CASE Block
  BY <1>3 DEF Block, Next
<1>4. CASE GetPid
  BY <1>4 DEF GetPid
<1>5. CASE Fork
  BY <1>5 DEF Fork, Next
<1>6. CASE task_to_user_mode \/ IdleEnables
  BY <1>6, IdlePid DEF task_to_user_mode, IdleEnables, Next
<1>7. CASE Compute
  BY <1>7 DEF Compute
<1>8. CASE IdleHalt \/ ForkPanic \/ Halted
  BY <1>8 DEF Next
<1>9. CASE UNCHANGED <<vars, contextVars>>
  BY <1>9
<1>10. QED
  BY <1>1, <1>2, <1>3, <1>4, <1>5, <1>6, <1>7, <1>8, <1>9 DEF ContextNext

\* What tasks do on one processor, with its frames and its switches, is what they do in Sched.
THEOREM ContextRunsOnSched == ContextSpec => Spec
<1>1. ContextInit => Init
  BY DEF ContextInit
<1>2. QED
  BY <1>1, ContextStep, PTL DEF ContextSpec, Spec

\* So the processor is never given to two tasks, and no list loses a task, nor a task its parent.
THEOREM ContextKeepsTasks ==
  ContextSpec => [](OneRunning /\ QueuesMatchStates /\ ParentAlive) /\ DeadStayDead
BY ContextRunsOnSched, TasksStayConsistent, ParentsStayAlive, TheDeadStayDead, PTL

-----------------------------------------------------------------------------
(* Context: every task has a processor of its own.  The registers a task will *)
(* go on with are those of the processor while it runs, and else what is on   *)
(* its kernel stack.  That the frames lie where they are looked for needs     *)
(* esp0 to name the stack of the task that runs whenever it can be used.      *)

Registers == [eax : Pid \cup {Void}, rest : Pid \cup {Boot}, ring : {0, 3}, flag : BOOLEAN]

RegsOf(t) == IF t = current THEN cpu ELSE Resumed(page[t])

StacksInv ==
  /\ page = [p \in Pid \cup {Boot} |-> page[p]]
  /\ page[current] = << >>
  /\ \A t \in Pid : state[t] = NULL => page[t] = << >>
  /\ IsUser(current) => esp0 = current

RegsInv ==
  /\ cpu \in Registers
  /\ current = Boot => cpu.ring = 0
  /\ \A t \in Pid :
       /\ RegsOf(t) \in Registers
       /\ RegsOf(t).flag <=> pc[t] # "off"
       /\ RegsOf(t).ring = IF IsUser(t) /\ pc[t] # "off" THEN 3 ELSE 0
  /\ RegsOf(idle_task).rest = idle_task
  /\ pc[test_task] = "off" /\ state[test_task] # NULL

ContextInv == TasksInv /\ StacksInv /\ RegsInv

\* what a step does to the stacks
StacksStep ==
  /\ page' = [p \in Pid \cup {Boot} |-> page'[p]]
  /\ page'[current'] = << >>
  /\ \A t \in Pid : t # current /\ page[t] = << >> => page'[t] = << >>
  /\ IsUser(current') => esp0' = current'

LEMMA WithResult ==
  ASSUME NEW regs \in Registers, NEW eax
  PROVE  [regs EXCEPT !.eax = eax]
         = [eax |-> eax, rest |-> regs.rest, ring |-> regs.ring, flag |-> regs.flag]
BY DEF Registers

LEMMA OnItsStack ==
  ASSUME ContextInv
  PROVE  KernelStack = current /\ current \in Pid \cup {Boot}
<1>1. current \in Pid \cup {Boot}
  BY DEF ContextInv, TasksInv, TypeOK
<1>2. ASSUME cpu.ring = 3 PROVE esp0 = current
  <2>1. current \in Pid
    BY <1>1, <1>2 DEF ContextInv, RegsInv
  <2>2. RegsOf(current) = cpu
    BY DEF RegsOf
  <2>3. IsUser(current)
    BY <1>2, <2>1, <2>2 DEF ContextInv, RegsInv
  <2>4. QED
    BY <2>3 DEF ContextInv, StacksInv
<1>3. QED
  BY <1>1, <1>2 DEF KernelStack

\* a switch leaves the registers of the task that leaves on its stack, and touches no other
LEMMA SwitchKeepsRegs ==
  ASSUME ContextInv, NEW stacks, stacks = [p \in Pid \cup {Boot} |-> stacks[p]],
         \A p \in Pid : p # current => stacks[p] = page[p],
         current' \in Pid, current' # current, task_switch(stacks)
  PROVE  /\ \A t \in Pid :
              RegsOf(t)' = IF t = current THEN Resumed(stacks[current]) ELSE RegsOf(t)
         /\ StacksStep
<1>1. /\ cpu' = Resumed(stacks[current'])
      /\ page' = [stacks EXCEPT ![current'] = << >>]
      /\ esp0' = Activated
  BY DEF task_switch
<1>2. /\ page' = [p \in Pid \cup {Boot} |-> page'[p]]
      /\ \A p \in Pid \cup {Boot} :
           page'[p] = IF p = current' THEN << >> ELSE stacks[p]
  BY <1>1
<1>3. ASSUME NEW t \in Pid
      PROVE  RegsOf(t)' = IF t = current THEN Resumed(stacks[current]) ELSE RegsOf(t)
  <2>1. CASE t = current'
    BY <2>1, <1>1 DEF RegsOf
  <2>2. CASE t # current'
    <3>1. RegsOf(t)' = Resumed(page'[t])
      BY <2>2 DEF RegsOf, Resumed
    <3>2. page'[t] = stacks[t]
      BY <1>2, <2>2
    <3>3. QED
      BY <3>1, <3>2 DEF RegsOf
  <2>3. QED
    BY <2>1, <2>2
<1>4. IsUser(current') => esp0' = current'
  BY <1>1 DEF Activated
<1>5. QED
  BY <1>2, <1>3, <1>4 DEF StacksStep

\* a step without a switch
LEMMA StayKeepsRegs ==
  ASSUME ContextInv, current' = current,
         page' = [page EXCEPT ![current] = << >>] \/ page' = page, esp0' = esp0
  PROVE  /\ \A t \in Pid : RegsOf(t)' = IF t = current THEN cpu' ELSE RegsOf(t)
         /\ StacksStep
<1>1. /\ page = [p \in Pid \cup {Boot} |-> page[p]]
      /\ page[current] = << >> /\ current \in Pid \cup {Boot}
  BY OnItsStack DEF ContextInv, StacksInv
<1>2. page' = page
  BY <1>1
<1>3. \A t \in Pid : RegsOf(t)' = IF t = current THEN cpu' ELSE RegsOf(t)
  BY <1>2 DEF RegsOf, Resumed
<1>4. StacksStep
  BY <1>1, <1>2 DEF StacksStep, IsUser, ContextInv, StacksInv
<1>5. QED
  BY <1>3, <1>4

LEMMA TwoFrames ==
  ASSUME NEW f, NEW g
  PROVE  Append(<<f>>, g) = <<f, g>>
<1>1. <<f>> \in Seq({f, g}) /\ <<f, g>> \in Seq({f, g}) /\ Len(<<f>>) = 1 /\ Len(<<f, g>>) = 2
  OBVIOUS
<1>2. /\ Append(<<f>>, g) \in Seq({f, g}) /\ Len(Append(<<f>>, g)) = 2
      /\ Append(<<f>>, g)[1] = f /\ Append(<<f>>, g)[2] = g
  BY <1>1, AppendProperties
<1>3. \A i \in 1 .. Len(Append(<<f>>, g)) : Append(<<f>>, g)[i] = <<f, g>>[i]
  <2>1. <<f, g>>[1] = f /\ <<f, g>>[2] = g
    OBVIOUS
  <2>2. \A i \in 1 .. 2 : i = 1 \/ i = 2
    OBVIOUS
  <2>3. QED
    BY <1>2, <2>1, <2>2
<1>4. Len(Append(<<f>>, g)) = Len(<<f, g>>)
  BY <1>1, <1>2
<1>5. QED
  BY <1>1, <1>2, <1>3, <1>4, SeqEqual

\* schedule() at the end of a handler: only the result of a system call can change
LEMMA LeavesKeepsRegs ==
  ASSUME ContextInv, NEW call \in BOOLEAN, Leaves(call),
         current' \in Pid \/ current' = current
  PROVE  /\ \A t \in Pid :
              RegsOf(t)' = IF t = current /\ call THEN [cpu EXCEPT !.eax = Void] ELSE RegsOf(t)
         /\ StacksStep
         /\ current' = Boot => cpu' \in Registers /\ cpu'.ring = 0
<1>1. KernelStack = current /\ current \in Pid \cup {Boot}
  BY OnItsStack
<1>2. cpu \in Registers /\ (current = Boot => cpu.ring = 0)
  BY DEF ContextInv, RegsInv
<1>3. page = [p \in Pid \cup {Boot} |-> page[p]]
  BY DEF ContextInv, StacksInv
<1>4. [cpu EXCEPT !.eax = cpu.eax] = cpu
  BY <1>2 DEF Registers
<1>5. CASE current' = current
  <2> DEFINE eax == IF call THEN Void ELSE cpu.eax
  <2>1. /\ cpu' = [cpu EXCEPT !.eax = eax]
        /\ page' = [page EXCEPT ![current] = << >>] /\ esp0' = esp0
    BY <1>1, <1>5 DEF Leaves, Returns
  <2>2. cpu' = IF call THEN [cpu EXCEPT !.eax = Void] ELSE cpu
    BY <2>1, <1>4
  <2>3. cpu' \in Registers /\ cpu'.ring = cpu.ring
    BY <2>2, <1>2 DEF Registers
  <2>4. /\ \A t \in Pid : RegsOf(t)' = IF t = current THEN cpu' ELSE RegsOf(t)
        /\ StacksStep
    BY <2>1, <1>5, StayKeepsRegs
  <2>5. \A t \in Pid : t = current => RegsOf(t) = cpu
    BY DEF RegsOf
  <2>6. QED
    BY <2>2, <2>3, <2>4, <2>5, <1>2, <1>5
<1>6. CASE current' # current
  <2> DEFINE frame == intr_frame_t(cpu, call)
             saved == task_frame_t("schedule", Boot)
             entered == [page EXCEPT ![current] = <<frame>>]
             stacks == [entered EXCEPT ![current] = Append(@, saved)]
  <2>1. task_switch(stacks)
    BY <1>1, <1>6 DEF Leaves, Pushed, Entered
  <2>2. /\ stacks = [p \in Pid \cup {Boot} |-> stacks[p]]
        /\ \A p \in Pid : p # current => stacks[p] = page[p]
        /\ stacks[current] = <<frame, saved>>
    <3> HIDE DEF frame, saved
    <3>1. Append(<<frame>>, saved) = <<frame, saved>>
      BY TwoFrames
    <3>2. entered = [p \in Pid \cup {Boot} |-> IF p = current THEN <<frame>> ELSE page[p]]
      BY <1>1, <1>3
    <3>3. stacks = [p \in Pid \cup {Boot} |-> IF p = current THEN <<frame, saved>> ELSE page[p]]
      BY <1>1, <3>1, <3>2
    <3>4. QED
      BY <3>3, <1>1
  <2>3. Resumed(<<frame, saved>>) = IF call THEN [cpu EXCEPT !.eax = Void] ELSE cpu
    BY DEF Resumed, intr_frame_t, task_frame_t
  <2> HIDE DEF frame, saved, stacks
  <2>4. current' \in Pid
    BY <1>6
  <2>5. /\ \A t \in Pid :
             RegsOf(t)' = IF t = current THEN Resumed(stacks[current]) ELSE RegsOf(t)
        /\ StacksStep
    BY <2>1, <2>2, <2>4, <1>6, SwitchKeepsRegs
  <2>6. \A t \in Pid : t = current => RegsOf(t) = cpu
    BY DEF RegsOf
  <2>7. \A t \in Pid :
          RegsOf(t)' = IF t = current /\ call THEN [cpu EXCEPT !.eax = Void] ELSE RegsOf(t)
    BY <2>2, <2>3, <2>5, <2>6
  <2>8. QED
    BY <2>4, <2>5, <2>7, BootNotPid
<1>7. QED
  BY <1>5, <1>6

\* schedule() called by the thread test, which runs with interrupts off
LEMMA CallsScheduleKeepsRegs ==
  ASSUME ContextInv, current = test_task, Calls_schedule, current' \in Pid
  PROVE  /\ \A t \in Pid :
              RegsOf(t)' = IF t = current THEN [cpu EXCEPT !.eax = Void] ELSE RegsOf(t)
         /\ StacksStep
<1>1. /\ page = [p \in Pid \cup {Boot} |-> page[p]]
      /\ page[current] = << >> /\ current \in Pid /\ RegsOf(current) = cpu
  BY IdlePid DEF ContextInv, StacksInv, RegsOf
<1>2. cpu \in Registers /\ cpu.ring = 0 /\ cpu.flag = FALSE
  BY <1>1 DEF ContextInv, RegsInv, IsUser, Registers
<1>3. [cpu EXCEPT !.eax = Void] = [eax |-> Void, rest |-> cpu.rest, ring |-> 0, flag |-> FALSE]
  <2>1. [cpu EXCEPT !.eax = Void] = [eax |-> Void, rest |-> cpu.rest, ring |-> cpu.ring,
                                     flag |-> cpu.flag]
    BY <1>2, WithResult
  <2>2. QED
    BY <1>2, <2>1
<1>4. CASE current' = current
  BY <1>4, StayKeepsRegs DEF Calls_schedule
<1>5. CASE current' # current
  <2> DEFINE saved == task_frame_t("schedule", cpu.rest)
             stacks == [page EXCEPT ![current] = Append(@, saved)]
  <2>1. task_switch(stacks)
    BY <1>5 DEF Calls_schedule, Pushed
  <2>2. /\ stacks = [p \in Pid \cup {Boot} |-> stacks[p]]
        /\ \A p \in Pid : p # current => stacks[p] = page[p]
        /\ stacks[current] = <<saved>>
    <3> HIDE DEF saved
    <3>1. Append(<< >>, saved) = <<saved>>
      OBVIOUS
    <3>2. stacks = [p \in Pid \cup {Boot} |-> IF p = current THEN <<saved>> ELSE page[p]]
      BY <1>1, <3>1
    <3>3. QED
      BY <3>2, <1>1
  <2>3. Resumed(<<saved>>) = [cpu EXCEPT !.eax = Void]
    BY <1>3 DEF Resumed, task_frame_t
  <2> HIDE DEF saved, stacks
  <2>4. QED
    BY <2>1, <2>2, <2>3, <1>5, SwitchKeepsRegs
<1>6. QED
  BY <1>4, <1>5

\* the CPU never comes back to the stack of kernel_init
LEMMA SwitchesToTask ==
  ASSUME [Next]_vars
  PROVE  current' = current \/ current' \in Pid
<1>1. ASSUME current' # current PROVE current' \in Pid
  <2>1. PICK st, tk : Schedule(st, tk, stamp')
    BY <1>1, OnlyScheduleSwitches
  <2>2. QED
    BY <2>1, TaskSearchPicks, IdlePid DEF Schedule, Candidates
<1>2. QED
  BY <1>1

LEMMA NoTaskDisappears ==
  ASSUME TasksInv, [Next]_vars, NEW t \in Pid, state'[t] = NULL
  PROVE  state[t] = NULL
BY OnlyForkAndExit DEF NULL, TasksInv, TypeOK

LEMMA StacksKept ==
  ASSUME ContextInv, [Next]_vars, StacksStep
  PROVE  StacksInv'
<1>1. ASSUME NEW t \in Pid, state'[t] = NULL PROVE page'[t] = << >>
  <2>1. state[t] = NULL
    BY <1>1, NoTaskDisappears DEF ContextInv
  <2>2. t # current /\ page[t] = << >>
    BY <2>1 DEF ContextInv, StacksInv, TasksInv, OneRunning, NULL
  <2>3. QED
    BY <2>2 DEF StacksStep
<1>2. QED
  BY <1>1 DEF StacksStep, StacksInv, IsUser

\* the registers after a step in which nobody turns interrupts on or goes to ring 3
LEMMA RegsKept ==
  ASSUME ContextInv, [Next]_vars, TasksInv',
         current' = Boot => cpu' \in Registers /\ cpu'.ring = 0,
         \A t \in Pid : /\ pc'[t] = "off" <=> pc[t] = "off"
                        /\ RegsOf(t)' \in Registers
                        /\ RegsOf(t)'.flag = RegsOf(t).flag
                        /\ RegsOf(t)'.ring = RegsOf(t).ring,
         RegsOf(idle_task)'.rest = idle_task
  PROVE  RegsInv'
<1>1. cpu' \in Registers /\ (current' = Boot => cpu'.ring = 0)
  <2>1. CASE current' \in Pid
    <3>1. \A t \in Pid : t = current' => RegsOf(t)' = cpu'
      BY DEF RegsOf
    <3>2. QED
      BY <2>1, <3>1, BootNotPid
  <2>2. QED
    BY <2>1 DEF TasksInv, TypeOK
<1>2. state'[test_task] # NULL
  BY NoTaskDisappears, IdlePid DEF ContextInv, RegsInv
<1>3. pc'[test_task] = "off"
  BY IdlePid DEF ContextInv, RegsInv
<1>4. ASSUME NEW t \in Pid
      PROVE  /\ RegsOf(t)' \in Registers
             /\ RegsOf(t)'.flag <=> pc'[t] # "off"
             /\ RegsOf(t)'.ring = IF IsUser(t) /\ pc'[t] # "off" THEN 3 ELSE 0
  BY <1>4 DEF ContextInv, RegsInv
<1>5. QED
  BY <1>1, <1>2, <1>3, <1>4 DEF RegsInv, IsUser

ContextKept == StacksInv' /\ RegsInv' /\ [Processors!Next]_(Processors!vars)

\* a step after which every task has the registers it had
LEMMA QuietStep ==
  ASSUME ContextInv, [Next]_vars, TasksInv', StacksStep,
         current' = Boot => cpu' \in Registers /\ cpu'.ring = 0,
         \A t \in Pid : RegsOf(t)' = RegsOf(t) /\ (pc'[t] = "off" <=> pc[t] = "off")
  PROVE  ContextKept
<1>1. StacksInv'
  BY StacksKept
<1>2. RegsInv'
  BY RegsKept, IdlePid DEF ContextInv, RegsInv
<1> DEFINE regs == [t \in Pid |-> IF t = current THEN cpu ELSE Resumed(page[t])]
           accepting == {t \in Pid : pc[t] # "off"}
<1>3. regs' = regs
  BY DEF RegsOf
<1>4. accepting' = accepting
  OBVIOUS
<1>5. ASSUME current' = current PROVE UNCHANGED Processors!vars
  BY <1>3, <1>4, <1>5 DEF Processors!vars
<1>6. ASSUME current' \in Pid PROVE Processors!Next
  BY <1>3, <1>4, <1>6 DEF Processors!Next, Processors!Interrupted
<1>7. QED
  BY <1>1, <1>2, <1>5, <1>6, SwitchesToTask DEF ContextKept

\* a step in which the task that runs gets a result in eax
LEMMA ResultStep ==
  ASSUME ContextInv, [Next]_vars, TasksInv', StacksStep, current \in Pid,
         NEW result \in Pid \cup {Void},
         \A t \in Pid : /\ RegsOf(t)' = IF t = current THEN [cpu EXCEPT !.eax = result]
                                        ELSE RegsOf(t)
                        /\ pc'[t] = "off" <=> pc[t] = "off"
  PROVE  ContextKept
<1>1. StacksInv'
  BY StacksKept
<1>2. current' \in Pid /\ current' # Boot
  BY SwitchesToTask, BootNotPid
<1>3. cpu \in Registers /\ RegsOf(current) = cpu
  BY DEF ContextInv, RegsInv, RegsOf
<1> DEFINE after == [cpu EXCEPT !.eax = result]
<1>4. after \in Registers /\ after.rest = cpu.rest /\ after.ring = cpu.ring /\ after.flag = cpu.flag
  BY <1>3 DEF Registers
<1> HIDE DEF after
<1>5. ASSUME NEW t \in Pid
      PROVE  /\ RegsOf(t)' \in Registers /\ RegsOf(t)'.flag = RegsOf(t).flag
             /\ RegsOf(t)'.ring = RegsOf(t).ring /\ RegsOf(t)'.rest = RegsOf(t).rest
  BY <1>3, <1>4 DEF after, ContextInv, RegsInv
<1>6. RegsOf(idle_task)'.rest = idle_task
  BY <1>5, IdlePid DEF ContextInv, RegsInv
<1>7. RegsInv'
  BY <1>2, <1>5, <1>6, RegsKept
<1> DEFINE regs == [t \in Pid |-> IF t = current THEN cpu ELSE Resumed(page[t])]
           accepting == {t \in Pid : pc[t] # "off"}
<1>8. regs' = [regs EXCEPT ![current].eax = result]
  <2>1. \A t \in Pid : regs'[t] = RegsOf(t)' /\ regs[t] = RegsOf(t)
    BY DEF RegsOf
  <2>2. [regs EXCEPT ![current].eax = result] = [regs EXCEPT ![current] = after]
    BY <1>3, <2>1 DEF after
  <2>3. regs' = [t \in Pid |-> regs'[t]] /\ regs = [t \in Pid |-> regs[t]]
    OBVIOUS
  <2> HIDE DEF regs
  <2>4. \A t \in Pid : regs'[t] = IF t = current THEN after ELSE regs[t]
    BY <2>1 DEF after
  <2>5. QED
    BY <2>2, <2>3, <2>4
<1>9. accepting' = accepting
  OBVIOUS
<1>10. PICK t \in Pid : t = current
  OBVIOUS
<1>11. Processors!SystemCall(t)
  BY <1>8, <1>9, <1>10 DEF Processors!SystemCall
<1>12. Processors!Next
  BY <1>2, <1>10, <1>11 DEF Processors!Next
<1>13. QED
  BY <1>1, <1>7, <1>12 DEF ContextKept

LEMMA InterruptStep ==
  ASSUME ContextInv, TasksInv', Interrupt
  PROVE  ContextKept
<1>1. [Next]_vars
  BY DEF Interrupt, Next
<1>2. current' \in Pid \/ current' = current
  BY <1>1, SwitchesToTask
<1>3. Leaves(FALSE)
  BY DEF Interrupt
<1>4. \A t \in Pid : pc'[t] = "off" <=> pc[t] = "off"
  BY DEF Interrupt, clock_handler, KeyboardInterrupt, Wake
<1>5. QED
  BY <1>1, <1>2, <1>3, <1>4, LeavesKeepsRegs, QuietStep

LEMMA SystemCallStep ==
  ASSUME ContextInv, TasksInv', SystemCall
  PROVE  ContextKept
<1>1. [Next]_vars
  BY DEF SystemCall, Next
<1>2. current \in Pid
  BY IdlePid DEF SystemCall, task_yield, task_exit, IdleYield, task_sleep, Calls
<1>3. current' \in Pid \/ current' = current
  BY <1>1, SwitchesToTask
<1>4. Leaves(TRUE)
  BY DEF SystemCall
<1>5. \A t \in Pid : pc'[t] = "off" <=> pc[t] = "off"
  <2>1. CASE IdleYield
    BY <2>1, IdlePid DEF IdleYield, ContextInv, TasksInv, TypeOK
  <2>2. CASE UNCHANGED pc
    BY <2>2
  <2>3. QED
    BY <2>1, <2>2 DEF SystemCall, task_yield, task_exit, task_sleep
<1>6. QED
  BY <1>1, <1>2, <1>3, <1>4, <1>5, LeavesKeepsRegs, ResultStep

LEMMA BlockStep ==
  ASSUME ContextInv, TasksInv', Block
  PROVE  ContextKept
<1>1. [Next]_vars
  BY DEF Block, Next
<1>2. current \in Pid /\ (current = test_task \/ (IsUser(current) /\ pc[current] = "on"))
      /\ UNCHANGED pc
  BY DEF Block, task_block, Release, Calls
<1>3. current' \in Pid
  BY <1>1, <1>2, SwitchesToTask
<1>4. CASE cpu.ring = 3
  <2>1. Leaves(TRUE)
    BY <1>4 DEF Block
  <2>2. QED
    BY <1>1, <1>2, <1>3, <2>1, LeavesKeepsRegs, ResultStep
<1>5. CASE cpu.ring # 3
  <2>1. Calls_schedule
    BY <1>5 DEF Block
  <2>2. RegsOf(current) = cpu
    BY DEF RegsOf
  <2>3. current = test_task
    BY <1>2, <1>5, <2>2 DEF ContextInv, RegsInv
  <2>4. QED
    BY <1>1, <1>2, <1>3, <2>1, <2>3, CallsScheduleKeepsRegs, ResultStep
<1>6. QED
  BY <1>4, <1>5

LEMMA GetPidStep ==
  ASSUME ContextInv, TasksInv', GetPid
  PROVE  ContextKept
<1>1. [Next]_vars /\ current' = current /\ pc' = pc /\ current \in Pid
  BY DEF GetPid, vars, Calls
<1>2. /\ cpu' = [cpu EXCEPT !.eax = current]
      /\ page' = [page EXCEPT ![current] = << >>] /\ esp0' = esp0
  BY OnItsStack DEF GetPid, Returns
<1>3. /\ \A t \in Pid : RegsOf(t)' = IF t = current THEN cpu' ELSE RegsOf(t)
      /\ StacksStep
  BY <1>1, <1>2, StayKeepsRegs
<1>4. PICK result \in Pid \cup {Void} : result = current
  BY <1>1
<1>5. \A t \in Pid : RegsOf(t)' = IF t = current THEN [cpu EXCEPT !.eax = result] ELSE RegsOf(t)
  BY <1>2, <1>3, <1>4
<1>6. QED
  BY <1>1, <1>3, <1>5, ResultStep

LEMMA RestStep ==
  ASSUME ContextInv, TasksInv', (IdleHalt \/ ForkPanic \/ Halted) /\ UNCHANGED contextVars
  PROVE  ContextKept
<1>1. [Next]_vars /\ current' = current
  BY DEF Next, vars, IdleHalt, ForkPanic, Halted
<1>2. cpu' = cpu /\ page' = page /\ esp0' = esp0
  BY DEF contextVars
<1>3. \A t \in Pid : RegsOf(t)' = RegsOf(t)
  BY <1>1, <1>2 DEF RegsOf, Resumed
<1>4. StacksStep
  BY <1>1, <1>2, StayKeepsRegs
<1>5. \A t \in Pid : pc'[t] = "off" <=> pc[t] = "off"
  BY IdlePid DEF IdleHalt, ForkPanic, Halted, vars, ContextInv, TasksInv, TypeOK
<1>6. current' = Boot => cpu' \in Registers /\ cpu'.ring = 0
  BY <1>1, <1>2 DEF ContextInv, RegsInv
<1>7. QED
  BY <1>1, <1>3, <1>4, <1>5, <1>6, QuietStep

LEMMA ComputeStep ==
  ASSUME ContextInv, TasksInv', Compute
  PROVE  ContextKept
<1>1. /\ [Next]_vars /\ current' = current /\ pc' = pc
      /\ current \in Pid /\ page' = page /\ esp0' = esp0
  BY DEF Compute, vars, ContextInv, TasksInv, TypeOK
<1>2. cpu \in Registers /\ RegsOf(current) = cpu
  BY DEF ContextInv, RegsInv, RegsOf
<1> DEFINE after == [cpu EXCEPT !.rest = current]
<1>3. cpu' = after
  BY DEF Compute
<1>4. /\ after \in Registers /\ after.rest = current /\ after.ring = cpu.ring
      /\ after.flag = cpu.flag
  BY <1>1, <1>2 DEF Registers
<1> HIDE DEF after
<1>5. /\ \A t \in Pid : RegsOf(t)' = IF t = current THEN after ELSE RegsOf(t)
      /\ StacksStep
  BY <1>1, <1>3, StayKeepsRegs
<1>6. \A t \in Pid : /\ RegsOf(t)' \in Registers
                     /\ RegsOf(t)'.flag = RegsOf(t).flag
                     /\ RegsOf(t)'.ring = RegsOf(t).ring
  BY <1>2, <1>4, <1>5 DEF ContextInv, RegsInv
<1>7. RegsOf(idle_task)'.rest = idle_task
  BY <1>4, <1>5, IdlePid DEF ContextInv, RegsInv
<1>8. StacksInv' /\ RegsInv'
  BY <1>1, <1>5, <1>6, <1>7, StacksKept, RegsKept, BootNotPid
<1> DEFINE regs == [t \in Pid |-> IF t = current THEN cpu ELSE Resumed(page[t])]
           accepting == {t \in Pid : pc[t] # "off"}
<1>9. regs' = [regs EXCEPT ![current].rest = current]
  <2>1. \A t \in Pid : regs'[t] = RegsOf(t)' /\ regs[t] = RegsOf(t)
    BY DEF RegsOf
  <2>2. [regs EXCEPT ![current].rest = current] = [regs EXCEPT ![current] = after]
    BY <1>2, <2>1 DEF after
  <2>3. regs' = [t \in Pid |-> regs'[t]] /\ regs = [t \in Pid |-> regs[t]]
    OBVIOUS
  <2> HIDE DEF regs
  <2>4. \A t \in Pid : regs'[t] = IF t = current THEN after ELSE regs[t]
    BY <1>5, <2>1
  <2>5. QED
    BY <2>2, <2>3, <2>4
<1>10. accepting' = accepting
  BY <1>1
<1>11. PICK t \in Pid : t = current
  BY <1>1
<1>12. Processors!Compute(t)
  BY <1>9, <1>10, <1>11 DEF Processors!Compute
<1>13. Processors!Next
  BY <1>1, <1>11, <1>12 DEF Processors!Next
<1>14. QED
  BY <1>8, <1>13 DEF ContextKept

\* idle turns interrupts on, init goes to user mode
LEMMA EnableStep ==
  ASSUME ContextInv, TasksInv', NEW t \in Pid, EnableInterrupts(t),
         NEW eax \in Pid \cup {Void}, NEW ring \in {0, 3}, ring = IF IsUser(t) THEN 3 ELSE 0,
         cpu' = [eax |-> eax, rest |-> t, ring |-> ring, flag |-> TRUE],
         UNCHANGED <<page, esp0>>
  PROVE  ContextKept
<1>1. /\ [Next]_vars /\ current' = current /\ current = t /\ t # test_task /\ pc[t] = "off"
      /\ page' = page /\ esp0' = esp0 /\ pc' = [pc EXCEPT ![t] = "on"]
  BY DEF EnableInterrupts, Next
<1>2. cpu' \in Registers /\ cpu'.rest = t /\ cpu'.ring = ring /\ cpu'.flag = TRUE
  BY DEF Registers
<1>3. RegsOf(t) = cpu /\ ~ cpu.flag
  BY <1>1 DEF RegsOf, ContextInv, RegsInv
<1>4. /\ \A p \in Pid : RegsOf(p)' = IF p = t THEN cpu' ELSE RegsOf(p)
      /\ StacksStep
  BY <1>1, StayKeepsRegs
<1>5. StacksInv'
  BY <1>1, <1>4, StacksKept
<1>6. /\ pc'[t] = "on"
      /\ \A p \in Pid : p # t => pc'[p] = pc[p]
  BY <1>1 DEF ContextInv, TasksInv, TypeOK
<1>7. RegsInv'
  <2>1. ASSUME NEW p \in Pid
        PROVE  /\ RegsOf(p)' \in Registers
               /\ RegsOf(p)'.flag <=> pc'[p] # "off"
               /\ RegsOf(p)'.ring = IF IsUser(p) /\ pc'[p] # "off" THEN 3 ELSE 0
    BY <1>2, <1>4, <1>6 DEF ContextInv, RegsInv
  <2>2. RegsOf(idle_task)'.rest = idle_task
    BY <1>2, <1>4, IdlePid DEF ContextInv, RegsInv
  <2>3. pc'[test_task] = "off" /\ state'[test_task] # NULL
    BY <1>1, <1>6, IdlePid DEF ContextInv, RegsInv, EnableInterrupts
  <2>4. QED
    BY <1>1, <1>2, <2>1, <2>2, <2>3, BootNotPid DEF RegsInv, IsUser
<1> DEFINE regs == [p \in Pid |-> IF p = current THEN cpu ELSE Resumed(page[p])]
           accepting == {p \in Pid : pc[p] # "off"}
<1>8. regs' = [regs EXCEPT ![t] = cpu']
  <2>1. \A p \in Pid : regs'[p] = RegsOf(p)' /\ regs[p] = RegsOf(p)
    BY DEF RegsOf
  <2>2. regs' = [p \in Pid |-> regs'[p]] /\ regs = [p \in Pid |-> regs[p]]
    OBVIOUS
  <2> HIDE DEF regs
  <2>3. QED
    BY <1>4, <2>1, <2>2
<1>9. accepting' = accepting \cup {t}
  BY <1>6
<1>10. ~ regs[t].flag
  BY <1>1, <1>3
<1>11. Processors!EnableInterrupts(t)
  BY <1>8, <1>9, <1>10 DEF Processors!EnableInterrupts
<1>12. Processors!Next
  BY <1>1, <1>11 DEF Processors!Next
<1>13. QED
  BY <1>5, <1>7, <1>12 DEF ContextKept

\* the child's stack holds the registers of its parent, but for the result
LEMMA ForkStep ==
  ASSUME ContextInv, TasksInv', Fork
  PROVE  ContextKept
<1>1. PICK child \in Pid :
        /\ state[child] # state'[child]
        /\ cpu' = [cpu EXCEPT !.eax = child]
        /\ page' = [page EXCEPT ![current] = << >>,
                                ![child] = task_build_statck(Entered(TRUE)[current])]
  BY OnItsStack DEF Fork
<1>2. PICK c \in Pid :
        /\ IsFreeSlot(c) /\ state' = [state EXCEPT ![c] = "READY"]
        /\ pc' = [pc EXCEPT ![c] = "on"]
  BY DEF Fork, task_fork
<1>3. /\ [Next]_vars /\ current' = current /\ esp0' = esp0
      /\ current \in Pid /\ IsUser(current) /\ pc[current] = "on"
  BY DEF Fork, task_fork, Next, Calls, IsUser
<1>4. /\ state \in [Pid -> TaskState] /\ pc \in [Pid -> ControlPoint]
      /\ page = [p \in Pid \cup {Boot} |-> page[p]]
      /\ page[current] = << >> /\ esp0 = current
  BY <1>3 DEF ContextInv, TasksInv, TypeOK, StacksInv
<1>5. /\ child = c /\ state[child] = NULL /\ pc'[child] = "on"
      /\ \A p \in Pid : p # child => pc'[p] = pc[p]
  BY <1>1, <1>2, <1>4 DEF IsFreeSlot
<1>6. child # current /\ page[child] = << >> /\ RegsOf(child) = NoRegs
  BY <1>3, <1>5 DEF ContextInv, TasksInv, OneRunning, StacksInv, RegsOf, Resumed, NULL
<1>7. IsUser(child)
  BY <1>5, BootNotPid DEF IsUser, ContextInv, RegsInv, TasksInv, OneRunning, NULL
<1>8. cpu \in Registers /\ RegsOf(current) = cpu /\ cpu.flag = TRUE /\ cpu.ring = 3
  BY <1>3 DEF ContextInv, RegsInv, RegsOf, Registers
<1> DEFINE parents == [cpu EXCEPT !.eax = child]
           childs == [cpu EXCEPT !.eax = 0]
           frame == intr_frame_t(cpu, TRUE)
           saved == task_frame_t("interrupt_exit", Boot)
           top == [frame EXCEPT !.regs.eax = 0]
<1>9. /\ parents \in Registers /\ parents.rest = cpu.rest /\ parents.ring = 3 /\ parents.flag = TRUE
      /\ childs \in Registers /\ childs.rest = cpu.rest /\ childs.ring = 3 /\ childs.flag = TRUE
  BY <1>8, IdlePid DEF Registers, idle_task
<1>10. task_build_statck(Entered(TRUE)[current]) = <<top, saved>>
  <2>1. Entered(TRUE)[current] = <<frame>>
    <3> HIDE DEF frame
    <3>1. Entered(TRUE) = [page EXCEPT ![current] = <<frame>>]
      BY OnItsStack DEF Entered, frame
    <3>2. QED
      BY <1>3, <1>4, <3>1
  <2>2. <<frame>>[1] = frame
    OBVIOUS
  <2>3. QED
    BY <2>1, <2>2 DEF task_build_statck
<1>11. Resumed(<<top, saved>>) = childs
  <2>1. top.regs = childs
    BY DEF intr_frame_t
  <2>2. saved.eip = "interrupt_exit"
    BY DEF task_frame_t
  <2> HIDE DEF top, saved, childs
  <2>3. /\ <<top, saved>> # << >> /\ Len(<<top, saved>>) = 2
        /\ <<top, saved>>[1] = top /\ <<top, saved>>[2] = saved
    OBVIOUS
  <2>4. QED
    BY <2>1, <2>2, <2>3 DEF Resumed
<1> HIDE DEF top, saved, frame, parents, childs
<1>12. /\ page' = [p \in Pid \cup {Boot} |-> page'[p]]
       /\ page'[current] = << >> /\ page'[child] = <<top, saved>>
       /\ \A p \in Pid : p # child /\ p # current => page'[p] = page[p]
  BY <1>1, <1>3, <1>4, <1>6, <1>10
<1>13. cpu' = parents
  BY <1>1 DEF parents
<1>14. ASSUME NEW p \in Pid
       PROVE  RegsOf(p)' = IF p = current THEN parents ELSE IF p = child THEN childs ELSE RegsOf(p)
  <2>1. CASE p = current
    BY <2>1, <1>3, <1>13 DEF RegsOf
  <2>2. CASE p = child
    BY <2>2, <1>3, <1>6, <1>11, <1>12 DEF RegsOf
  <2>3. CASE p # current /\ p # child
    <3>1. RegsOf(p)' = Resumed(page'[p])
      BY <2>3, <1>3 DEF RegsOf, Resumed
    <3>2. QED
      BY <2>3, <3>1, <1>12 DEF RegsOf
  <2>4. QED
    BY <2>1, <2>2, <2>3
<1>15. StacksInv'
  <2>1. ASSUME NEW t \in Pid, state'[t] = NULL PROVE page'[t] = << >>
    <3>1. t # child /\ state[t] = NULL
      BY <2>1, <1>2, <1>4, <1>5 DEF NULL
    <3>2. t # current /\ page[t] = << >>
      BY <3>1, <1>3 DEF ContextInv, StacksInv, TasksInv, OneRunning, NULL
    <3>3. QED
      BY <3>1, <3>2, <1>12
  <2>2. QED
    BY <2>1, <1>3, <1>4, <1>12 DEF StacksInv
<1>16. RegsInv'
  <2>1. ASSUME NEW p \in Pid
        PROVE  /\ RegsOf(p)' \in Registers
               /\ RegsOf(p)'.flag <=> pc'[p] # "off"
               /\ RegsOf(p)'.ring = IF IsUser(p) /\ pc'[p] # "off" THEN 3 ELSE 0
    <3>1. CASE p = current
      BY <3>1, <1>3, <1>5, <1>6, <1>9, <1>14
    <3>2. CASE p = child
      BY <3>2, <1>5, <1>6, <1>7, <1>9, <1>14
    <3>3. CASE p # current /\ p # child
      BY <3>3, <1>5, <1>14 DEF ContextInv, RegsInv
    <3>4. QED
      BY <3>1, <3>2, <3>3
  <2>2. idle_task # current /\ idle_task # child /\ test_task # child
    BY <1>3, <1>7 DEF IsUser
  <2>3. RegsOf(idle_task)'.rest = idle_task
    BY <2>2, <1>14, IdlePid DEF ContextInv, RegsInv
  <2>4. pc'[test_task] = "off" /\ state'[test_task] # NULL
    BY <2>2, <1>2, <1>4, <1>5, IdlePid DEF ContextInv, RegsInv
  <2>5. QED
    BY <1>3, <1>9, <1>13, <2>1, <2>3, <2>4, BootNotPid DEF RegsInv, IsUser
<1> DEFINE regs == [p \in Pid |-> IF p = current THEN cpu ELSE Resumed(page[p])]
           accepting == {p \in Pid : pc[p] # "off"}
<1>17. regs[child] = NoRegs
  BY <1>6 DEF RegsOf
<1>18. regs' = [regs EXCEPT ![current].eax = child, ![child] = [regs[current] EXCEPT !.eax = 0]]
  <2>1. \A p \in Pid : regs'[p] = RegsOf(p)' /\ regs[p] = RegsOf(p)
    BY DEF RegsOf
  <2>2. regs[current] = cpu
    BY <1>3
  <2>3. regs' = [p \in Pid |-> regs'[p]] /\ regs = [p \in Pid |-> regs[p]]
    OBVIOUS
  <2> HIDE DEF regs
  <2>4. [regs EXCEPT ![current].eax = child, ![child] = [regs[current] EXCEPT !.eax = 0]]
        = [regs EXCEPT ![current] = parents, ![child] = childs]
    BY <2>2 DEF parents, childs
  <2>5. \A p \in Pid :
          regs'[p] = IF p = current THEN parents ELSE IF p = child THEN childs ELSE regs[p]
    BY <1>14, <2>1
  <2>6. [regs EXCEPT ![current] = parents, ![child] = childs]
        = [p \in Pid |-> IF p = current THEN parents ELSE IF p = child THEN childs ELSE regs[p]]
    BY <1>6, <2>3
  <2>7. QED
    BY <2>3, <2>4, <2>5, <2>6
<1>19. accepting' = accepting \cup {child}
  BY <1>5
<1>20. PICK t \in Pid : t = current
  BY <1>3
<1>21. Processors!Fork(t, child)
  BY <1>17, <1>18, <1>19, <1>20 DEF Processors!Fork
<1>22. Processors!Next
  BY <1>3, <1>20, <1>21 DEF Processors!Next
<1>23. QED
  BY <1>15, <1>16, <1>22 DEF ContextKept

\* Every step is one of those, and each keeps the invariant and is one that the processors
\* of the tasks may take.
LEMMA ContextStepKeeps ==
  ASSUME ContextInv, TasksInv', [ContextNext]_<<vars, contextVars>>
  PROVE  ContextKept
<1>1. CASE task_to_user_mode
  <2>1. /\ EnableInterrupts(init_task) /\ UNCHANGED <<page, esp0>>
        /\ cpu' = [eax |-> Void, rest |-> init_task, ring |-> 3, flag |-> TRUE]
    BY <1>1 DEF task_to_user_mode, UserFrame, intr_frame_t
  <2>2. init_task \in Pid /\ IsUser(init_task)
    BY IdlePid, BootNotPid DEF IsUser, init_task, idle_task, test_task
  <2>3. QED
    BY <2>1, <2>2, EnableStep
<1>2. CASE IdleEnables
  <2>1. /\ EnableInterrupts(idle_task) /\ UNCHANGED <<page, esp0>>
        /\ cpu' = [cpu EXCEPT !.flag = TRUE]
    BY <1>2 DEF IdleEnables
  <2>2. RegsOf(idle_task) = cpu
    BY <2>1 DEF EnableInterrupts, RegsOf
  <2>3. cpu \in Registers /\ cpu.rest = idle_task /\ cpu.ring = 0 /\ ~ IsUser(idle_task)
    BY <2>2, IdlePid DEF IsUser, ContextInv, RegsInv
  <2>4. /\ cpu.eax \in Pid \cup {Void}
        /\ cpu' = [eax |-> cpu.eax, rest |-> idle_task, ring |-> 0, flag |-> TRUE]
    BY <2>1, <2>3 DEF Registers
  <2>5. QED
    BY <2>1, <2>3, <2>4, IdlePid, EnableStep
<1>3. CASE UNCHANGED <<vars, contextVars>>
  <2>1. /\ [Next]_vars /\ current' = current /\ cpu' = cpu /\ page' = page /\ esp0' = esp0
        /\ pc' = pc
    BY <1>3 DEF vars, contextVars
  <2>2. \A t \in Pid : RegsOf(t)' = RegsOf(t)
    BY <2>1 DEF RegsOf, Resumed
  <2>3. StacksStep
    BY <2>1, StayKeepsRegs
  <2>4. current' = Boot => cpu' \in Registers /\ cpu'.ring = 0
    BY <2>1 DEF ContextInv, RegsInv
  <2>5. QED
    BY <2>1, <2>2, <2>3, <2>4, QuietStep
<1>4. QED
  BY <1>1, <1>2, <1>3, InterruptStep, SystemCallStep, BlockStep, GetPidStep, ForkStep,
     ComputeStep, RestStep DEF ContextNext

LEMMA ContextStarts ==
  ASSUME ContextInit
  PROVE  StacksInv /\ RegsInv /\ Processors!Init
<1>1. /\ current = Boot /\ cpu.ring = 0 /\ cpu \in Registers
      /\ state = [t \in Pid |-> IF t <= test_task THEN "READY" ELSE NULL]
      /\ pc = [t \in Pid |-> "off"]
  BY IdlePid DEF ContextInit, Init, NoRegs, Registers
<1>2. /\ page = [p \in Pid \cup {Boot} |-> page[p]] /\ page[Boot] = << >>
      /\ \A t \in Pid : page[t] = IF t <= test_task THEN NewStack(t) ELSE << >>
  BY <1>1, BootNotPid DEF ContextInit, Tasks, NULL
<1> DEFINE start(t) == [eax |-> Void, rest |-> t, ring |-> 0, flag |-> FALSE]
<1>3. ASSUME NEW t \in Pid
      PROVE  RegsOf(t) = IF t <= test_task THEN start(t) ELSE NoRegs
  <2>1. RegsOf(t) = Resumed(page[t])
    BY <1>1, BootNotPid DEF RegsOf
  <2>2. Resumed(NewStack(t)) = start(t)
    BY DEF Resumed, NewStack, task_frame_t
  <2>3. Resumed(<< >>) = NoRegs
    BY DEF Resumed
  <2>4. QED
    BY <1>2, <2>1, <2>2, <2>3
<1>4. StacksInv
  BY <1>1, <1>2, BootNotPid DEF StacksInv, IsUser, NewStack, NULL
<1>5. RegsInv
  <2>1. ASSUME NEW t \in Pid
        PROVE  /\ RegsOf(t) \in Registers
               /\ RegsOf(t).flag <=> pc[t] # "off"
               /\ RegsOf(t).ring = IF IsUser(t) /\ pc[t] # "off" THEN 3 ELSE 0
    <3>1. /\ start(t) \in Registers /\ start(t).ring = 0 /\ start(t).flag = FALSE
          /\ NoRegs \in Registers /\ NoRegs.ring = 0 /\ NoRegs.flag = FALSE
      BY DEF NoRegs, Registers
    <3> HIDE DEF start
    <3>2. pc[t] = "off"
      BY <1>1
    <3>3. QED
      BY <1>3, <3>1, <3>2
  <2>2. RegsOf(idle_task).rest = idle_task
    BY <1>3, IdlePid DEF idle_task, test_task
  <2>3. pc[test_task] = "off" /\ state[test_task] # NULL
    BY <1>1, IdlePid DEF test_task, NULL
  <2>4. QED
    BY <1>1, <2>1, <2>2, <2>3 DEF RegsInv
<1> DEFINE regs == [t \in Pid |-> IF t = current THEN cpu ELSE Resumed(page[t])]
           Start == [t \in Pid |-> IF t <= test_task THEN [NoRegs EXCEPT !.rest = t] ELSE NoRegs]
<1>6. regs = Start
  <2>1. ASSUME NEW t \in Pid PROVE [NoRegs EXCEPT !.rest = t] = start(t)
    <3>1. /\ NoRegs \in Registers /\ NoRegs.eax = Void /\ NoRegs.ring = 0
          /\ NoRegs.flag = FALSE
      BY DEF NoRegs, Registers
    <3>2. [NoRegs EXCEPT !.rest = t]
          = [eax |-> NoRegs.eax, rest |-> t, ring |-> NoRegs.ring, flag |-> NoRegs.flag]
      BY <3>1 DEF Registers
    <3>3. QED
      BY <3>1, <3>2
  <2>2. \A t \in Pid : regs[t] = RegsOf(t)
    BY DEF RegsOf
  <2>3. QED
    BY <1>3, <2>1, <2>2
<1>7. {t \in Pid : pc[t] # "off"} = {}
  BY <1>1
<1>8. Processors!Init
  BY <1>1, <1>6, <1>7 DEF Processors!Init
<1>9. QED
  BY <1>4, <1>5, <1>8

\* So interrupts, switches, system calls and forks give every task a processor of its own.
THEOREM TasksOwnTheirProcessors == ContextSpec => HasOwnProcessor
<1>1. ContextInit => OneRunning /\ QueuesMatchStates /\ StacksInv /\ RegsInv /\ Processors!Init
  BY InitTasks, ContextStarts DEF ContextInit
<1>2. TasksInv /\ TypeOK' /\ [ContextNext]_<<vars, contextVars>> => TasksInv'
  BY ContextStep, NextKeepsTasks
<1>3. TasksInv /\ TasksInv' /\ StacksInv /\ RegsInv /\ [ContextNext]_<<vars, contextVars>>
        => StacksInv' /\ RegsInv' /\ [Processors!Next]_(Processors!vars)
  BY ContextStepKeeps DEF ContextInv, ContextKept
<1>4. TypeOK /\ OneRunning /\ QueuesMatchStates => TasksInv
  BY DEF TasksInv
<1>5. QED
  BY <1>1, <1>2, <1>3, <1>4, TypeCorrect, ContextRunsOnSched, PTL
     DEF ContextSpec, HasOwnProcessor, Processors!Spec
=============================================================================
