------------------------------ MODULE LockProofs ------------------------------
(***************************************************************************)
(* The mutex and the recursive lock are safe for any number of tasks, any  *)
(* mix of callers with interrupts on and off, and any nesting.             *)
(***************************************************************************)
EXTENDS Lock, SequenceTheorems, TLAPS

-----------------------------------------------------------------------------
(* The list of waiters is a sequence: pushed at the front, taken at the end. *)

\* Inserting before the first node adds exactly that element.
LEMMA Pushed ==
  ASSUME NEW S, NEW s \in Seq(S), NEW e \in S, IsInjective(s), e \notin ToSet(s)
  PROVE  /\ InsertAt(s, 1, e) \in Seq(S)
         /\ IsInjective(InsertAt(s, 1, e))
         /\ ToSet(InsertAt(s, 1, e)) = ToSet(s) \cup {e}
<1> DEFINE r == InsertAt(s, 1, e)
<1>1. Len(s) \in Nat /\ DOMAIN s = 1 .. Len(s) /\ \A j \in 1 .. Len(s) : s[j] \in S
  BY LenProperties, ElementOfSeq
<1>2. SubSeq(s, 1, 1 - 1) = << >> /\ SubSeq(s, 1, Len(s)) = s
  BY <1>1
<1>3. r = (<< >> \o <<e>>) \o s
  BY <1>2 DEF InsertAt
<1> HIDE DEF r
<1>4. /\ r \in Seq(S) /\ Len(r) = Len(s) + 1
      /\ \A j \in 1 .. Len(s) + 1 : r[j] = IF j = 1 THEN e ELSE s[j - 1]
  <2>1. << >> \o <<e>> = <<e>>
    OBVIOUS
  <2>2. <<e>> \in Seq(S) /\ Len(<<e>>) = 1 /\ <<e>>[1] = e
    OBVIOUS
  <2>3. r = <<e>> \o s
    BY <1>3, <2>1
  <2>4. /\ r \in Seq(S) /\ Len(r) = 1 + Len(s)
        /\ \A j \in 1 .. 1 + Len(s) : r[j] = IF j <= 1 THEN <<e>>[j] ELSE s[j - 1]
    BY <2>2, <2>3, ConcatProperties
  <2>5. QED
    BY <1>1, <2>2, <2>4
<1>5. DOMAIN r = 1 .. Len(s) + 1
  BY <1>4, LenProperties
<1>6. /\ \A j \in 1 .. Len(s) : s[j] # e
      /\ \A j, k \in 1 .. Len(s) : s[j] = s[k] => j = k
  BY <1>1 DEF ToSet, IsInjective
<1>7. \A j \in 2 .. Len(s) + 1 : j - 1 \in 1 .. Len(s) /\ r[j] = s[j - 1]
  BY <1>1, <1>4
<1>8. 1 \in 1 .. Len(s) + 1 /\ r[1] = e
  BY <1>1, <1>4
<1>9. IsInjective(r)
  <2>1. ASSUME NEW j \in 1 .. Len(s) + 1, NEW k \in 1 .. Len(s) + 1, r[j] = r[k]
        PROVE  j = k
    BY <2>1, <1>1, <1>4, <1>6
  <2>2. QED
    BY <2>1, <1>5 DEF IsInjective
<1>10. ToSet(r) = ToSet(s) \cup {e}
  <2>1. \A x : x \in ToSet(s) <=> \E j \in 1 .. Len(s) : x = s[j]
    BY <1>1 DEF ToSet
  <2>2. \A x : x \in ToSet(r) <=> \E j \in 1 .. Len(s) + 1 : x = r[j]
    BY <1>5 DEF ToSet
  <2>3. ASSUME NEW x \in ToSet(r) PROVE x \in ToSet(s) \cup {e}
    <3>1. PICK j \in 1 .. Len(s) + 1 : x = r[j]
      BY <2>2, <2>3
    <3>2. j = 1 \/ j \in 2 .. Len(s) + 1
      BY <1>1, <3>1
    <3>3. QED
      BY <2>1, <3>1, <3>2, <1>7, <1>8
  <2>4. ASSUME NEW j \in 1 .. Len(s) PROVE s[j] \in ToSet(r)
    <3>1. j + 1 \in 2 .. Len(s) + 1 /\ j + 1 \in 1 .. Len(s) + 1 /\ (j + 1) - 1 = j
      BY <1>1
    <3>2. r[j + 1] = s[j]
      BY <3>1, <1>7
    <3>3. QED
      BY <2>2, <3>1, <3>2
  <2>5. e \in ToSet(r)
    BY <2>2, <1>8
  <2>6. QED
    BY <2>1, <2>3, <2>4, <2>5
<1>11. QED
  BY <1>4, <1>9, <1>10 DEF r

\* Removing the last node removes exactly that element.
LEMMA DroppedLast ==
  ASSUME NEW S, NEW s \in Seq(S), s # << >>, IsInjective(s)
  PROVE  /\ SubSeq(s, 1, Len(s) - 1) \in Seq(S)
         /\ IsInjective(SubSeq(s, 1, Len(s) - 1))
         /\ ToSet(SubSeq(s, 1, Len(s) - 1)) = ToSet(s) \ {s[Len(s)]}
         /\ s[Len(s)] \in ToSet(s)
<1> DEFINE r == SubSeq(s, 1, Len(s) - 1)
<1>1. Len(s) \in Nat \ {0} /\ DOMAIN s = 1 .. Len(s) /\ \A j \in 1 .. Len(s) : s[j] \in S
  BY EmptySeq, LenProperties, ElementOfSeq
<1>n. Len(s) \in Int /\ 1 <= Len(s)
  BY <1>1
<1>2. /\ r \in Seq(S)
      /\ Len(r) = IF 1 <= Len(s) - 1 THEN (Len(s) - 1) - 1 + 1 ELSE 0
      /\ \A j \in 1 .. (Len(s) - 1) - 1 + 1 : r[j] = s[1 + j - 1]
  <2>1. \A j \in 1 .. Len(s) - 1 : s[j] \in S
    BY <1>1
  <2>2. Len(s) - 1 \in Int
    BY <1>1
  <2>3. QED
    BY <2>1, <2>2, SubSeqProperties
<1> HIDE DEF r
<1>3. Len(r) = Len(s) - 1 /\ DOMAIN r = 1 .. Len(s) - 1
  <2>1. Len(r) = Len(s) - 1
    <3>1. Len(r) = IF 1 <= Len(s) - 1 THEN (Len(s) - 1) - 1 + 1 ELSE 0
      BY <1>2
    <3>2. CASE 1 <= Len(s) - 1
      <4>1. (Len(s) - 1) - 1 + 1 = Len(s) - 1
        BY <1>n
      <4>2. QED
        BY <3>1, <3>2, <4>1
    <3>3. CASE ~ 1 <= Len(s) - 1
      <4>1. 0 = Len(s) - 1
        BY <3>3, <1>n
      <4>2. QED
        BY <3>1, <3>3, <4>1
    <3>4. QED
      BY <3>2, <3>3
  <2>2. QED
    BY <2>1, <1>2, LenProperties
<1>4. ASSUME NEW j \in 1 .. Len(s) - 1 PROVE r[j] = s[j]
  <2>1. (Len(s) - 1) - 1 + 1 = Len(s) - 1 /\ 1 + j - 1 = j
    BY <1>1
  <2>2. QED
    BY <2>1, <1>2
<1>5. \A j, k \in 1 .. Len(s) : s[j] = s[k] => j = k
  BY <1>1 DEF IsInjective
<1>6. 1 .. Len(s) - 1 \subseteq 1 .. Len(s) /\ Len(s) \in 1 .. Len(s)
      /\ Len(s) \notin 1 .. Len(s) - 1
      /\ \A j \in 1 .. Len(s) : j # Len(s) => j \in 1 .. Len(s) - 1
  BY <1>n
<1>7. IsInjective(r)
  BY <1>3, <1>4, <1>5, <1>6 DEF IsInjective
<1>8. ToSet(r) = ToSet(s) \ {s[Len(s)]}
  <2>1. \A x : x \in ToSet(s) <=> \E j \in 1 .. Len(s) : x = s[j]
    BY <1>1 DEF ToSet
  <2>2. \A x : x \in ToSet(r) <=> \E j \in 1 .. Len(s) - 1 : x = r[j]
    BY <1>3 DEF ToSet
  <2>3. ASSUME NEW x \in ToSet(r) PROVE x \in ToSet(s) \ {s[Len(s)]}
    BY <2>1, <2>2, <1>4, <1>5, <1>6
  <2>4. ASSUME NEW x \in ToSet(s) \ {s[Len(s)]} PROVE x \in ToSet(r)
    BY <2>1, <2>2, <1>4, <1>6
  <2>5. QED
    BY <2>3, <2>4
<1>9. s[Len(s)] \in ToSet(s)
  BY <1>1, <1>6 DEF ToSet
<1>10. QED
  BY <1>2, <1>7, <1>8, <1>9 DEF r

-----------------------------------------------------------------------------
(* The inductive invariant.  Who owns the mutex is known from where a task  *)
(* is in the code; value, holder and repeat follow their owner with the     *)
(* delay of the statements that set them.                                   *)

Owns(t) ==
  \/ pc[t] \in {"own", "count", "nest", "unnest", "clear", "zero", "unlock"}
  \/ pc[t] = "run" /\ depth[t] > 0

Holds(t) ==
  \/ pc[t] \in {"count", "nest", "unnest", "clear"}
  \/ pc[t] = "run" /\ depth[t] > 0

OwnerInv ==
  /\ \A s, t \in Task : Owns(s) /\ Owns(t) => s = t
  /\ value <=> \E t \in Task : Owns(t)
  /\ \A t \in Task : holder = t <=> Holds(t)

CountInv ==
  /\ ~ value => repeat = 0
  /\ \A t \in Task :
       /\ pc[t] \in {"lock", "wait", "own", "count", "resume"} => depth[t] = 0
       /\ pc[t] \in {"clear", "zero", "unlock"} => depth[t] = 1
       /\ pc[t] = "unnest" => depth[t] > 1
       /\ pc[t] = "nest" => depth[t] > 0 /\ depth[t] < MaxDepth
       /\ pc[t] \in {"own", "count", "unlock"} => repeat = 0
       /\ pc[t] \in {"nest", "unnest", "clear", "zero"} => repeat = depth[t]
       /\ pc[t] = "run" /\ depth[t] > 0 => repeat = depth[t]

RunningInv ==
  /\ \A t \in Context : state[t] = "RUNNING" <=> t = current
  /\ state[Idle] # "BLOCKED"
  /\ WaitersAreBlocked

LockInv == TypeOK /\ OwnerInv /\ CountInv /\ RunningInv /\ NoLostWakeup

-----------------------------------------------------------------------------
(* schedule() and its callers.                                              *)

LEMMA ScheduleEffect ==
  ASSUME NEW st \in [Context -> {"RUNNING", "READY", "BLOCKED"}],
         current \in Context,
         \A t \in Context : st[t] = "RUNNING" => t = current,
         st[Idle] # "BLOCKED", Schedule(st)
  PROVE  /\ state' \in [Context -> {"RUNNING", "READY", "BLOCKED"}]
         /\ current' \in Context
         /\ \A t \in Context : state'[t] = "RUNNING" <=> t = current'
         /\ \A t \in Context : state'[t] = "BLOCKED" <=> st[t] = "BLOCKED"
<1>1. Idle \in Context
  BY DEF Context
<1>2. PICK next \in Context :
        /\ st[next] # "BLOCKED"
        /\ state' = [t \in Context |->
                       IF t = next THEN "RUNNING"
                       ELSE IF t = current /\ st[t] = "RUNNING" THEN "READY" ELSE st[t]]
        /\ current' = next
  BY <1>1 DEF Schedule
<1>3. \A t \in Context : state'[t] =
        IF t = next THEN "RUNNING"
        ELSE IF t = current /\ st[t] = "RUNNING" THEN "READY" ELSE st[t]
  BY <1>2
<1>4. state' \in [Context -> {"RUNNING", "READY", "BLOCKED"}]
  BY <1>2
<1>5. QED
  BY <1>2, <1>3, <1>4

\* a preempted or yielding task changes nothing of the lock
LEMMA SwitchKeepsInv ==
  ASSUME LockInv, Schedule(state), UNCHANGED <<lockVars, pc, depth>>
  PROVE  LockInv'
<1>1. /\ state' \in [Context -> {"RUNNING", "READY", "BLOCKED"}]
      /\ current' \in Context
      /\ \A t \in Context : state'[t] = "RUNNING" <=> t = current'
      /\ \A t \in Context : state'[t] = "BLOCKED" <=> state[t] = "BLOCKED"
  BY ScheduleEffect DEF LockInv, TypeOK, RunningInv
<1>2. Idle \in Context /\ Task \subseteq Context
  BY DEF Context
<1>3. TypeOK'
  BY <1>1 DEF LockInv, TypeOK, lockVars
<1>4. RunningInv'
  BY <1>1, <1>2 DEF LockInv, RunningInv, WaitersAreBlocked, lockVars
<1>5. NoLostWakeup'
  BY <1>1, <1>2 DEF LockInv, NoLostWakeup, lockVars
<1>6. OwnerInv' /\ CountInv'
  BY DEF LockInv, OwnerInv, CountInv, Owns, Holds, lockVars
<1>7. QED
  BY <1>3, <1>4, <1>5, <1>6 DEF LockInv

\* a step that leaves the wait list, the states and the CPU alone
LEMMA LocalKeepsRunning ==
  ASSUME LockInv, NEW t \in Task, current = t, NEW to \in ControlPoint,
         Goto(t, to), UNCHANGED <<waiters, state, current>>,
         value => value', pc[t] = "wait" => value'
  PROVE  RunningInv' /\ NoLostWakeup' /\ pc' \in [Task -> ControlPoint]
<1>1. state[t] = "RUNNING" /\ pc \in [Task -> ControlPoint] /\ value \in BOOLEAN
  BY DEF LockInv, RunningInv, TypeOK, Context
<1>2. \A u \in Task : pc'[u] = IF u = t THEN to ELSE pc[u]
  BY <1>1 DEF Goto
<1>3. RunningInv'
  BY <1>1, <1>2 DEF LockInv, RunningInv, WaitersAreBlocked
<1>4. NoLostWakeup'
  BY <1>1, <1>2 DEF LockInv, NoLostWakeup
<1>5. QED
  BY <1>1, <1>3, <1>4 DEF Goto

-----------------------------------------------------------------------------
(* The steps of lock_acquire.                                               *)

LEMMA AcquireTestKeepsInv ==
  ASSUME LockInv, NEW t \in Task, AcquireTest(t)
  PROVE  LockInv'
<1>1. \A u \in Task : pc'[u] = IF u = t THEN (IF holder # t THEN "lock" ELSE "nest") ELSE pc[u]
  BY DEF AcquireTest, Goto, LockInv, TypeOK
<1>2. RunningInv' /\ NoLostWakeup' /\ pc' \in [Task -> ControlPoint]
  BY LocalKeepsRunning DEF AcquireTest, At, ControlPoint, lockVars, LockInv, TypeOK
<1>3. TypeOK'
  BY <1>2 DEF AcquireTest, lockVars, LockInv, TypeOK
<1>4. pc[t] = "run" /\ depth[t] < MaxDepth /\ (holder = t <=> depth[t] > 0) /\ depth[t] \in Nat
  BY DEF AcquireTest, At, LockInv, OwnerInv, Holds, TypeOK
<1>5. \A u \in Task : (Owns(u))' = Owns(u) /\ (Holds(u))' = Holds(u)
  BY <1>1, <1>4 DEF Owns, Holds, AcquireTest
<1>6. OwnerInv'
  BY <1>5 DEF LockInv, OwnerInv, AcquireTest, lockVars
<1>7. CountInv'
  BY <1>1, <1>4 DEF LockInv, CountInv, AcquireTest, lockVars
<1>8. QED
  BY <1>2, <1>3, <1>6, <1>7 DEF LockInv

LEMMA NestKeepsInv ==
  ASSUME LockInv, NEW t \in Task, Nest(t)
  PROVE  LockInv'
<1>1. /\ pc[t] = "nest" /\ repeat = depth[t] /\ depth[t] \in 0 .. MaxDepth
      /\ depth[t] > 0 /\ depth[t] < MaxDepth /\ repeat' = repeat + 1
      /\ UNCHANGED <<value, holder>> /\ repeat \in Nat
  BY DEF Nest, At, LockInv, CountInv, TypeOK
<1>2. \A u \in Task : /\ pc'[u] = IF u = t THEN "run" ELSE pc[u]
                      /\ depth'[u] = IF u = t THEN depth[t] + 1 ELSE depth[u]
  BY DEF Nest, Goto, LockInv, TypeOK
<1>3. RunningInv' /\ NoLostWakeup' /\ pc' \in [Task -> ControlPoint]
  BY <1>1, LocalKeepsRunning DEF Nest, At, ControlPoint, LockInv, TypeOK
<1>4. depth[t] + 1 \in 0 .. MaxDepth /\ depth[t] + 1 > 0
  BY <1>1, LockAssumption
<1>5. TypeOK'
  <2>1. depth' \in [Task -> 0 .. MaxDepth]
    BY <1>4 DEF Nest, LockInv, TypeOK
  <2>2. repeat' \in Nat
    BY <1>1
  <2>3. QED
    BY <1>3, <2>1, <2>2 DEF Nest, LockInv, TypeOK
<1>6. \A u \in Task : (Owns(u))' = Owns(u) /\ (Holds(u))' = Holds(u)
  BY <1>1, <1>2, <1>4 DEF Owns, Holds
<1>7. OwnerInv'
  BY <1>1, <1>6 DEF LockInv, OwnerInv
<1>8. CountInv'
  <2>1. \A u \in Task : Owns(u) => u = t
    BY <1>1 DEF LockInv, OwnerInv, Owns
  <2>2. value
    BY <1>1 DEF LockInv, OwnerInv, Owns
  <2>3. QED
    BY <1>1, <1>2, <1>4, <2>1, <2>2 DEF LockInv, CountInv, Owns
<1>9. QED
  BY <1>3, <1>5, <1>7, <1>8 DEF LockInv

LEMMA WaitKeepsInv ==
  ASSUME LockInv, NEW t \in Task, MutexWait(t)
  PROVE  LockInv'
<1> DEFINE st == [state EXCEPT ![t] = "BLOCKED"]
<1>1. /\ current = t /\ pc[t] \in {"lock", "wait"} /\ value /\ state[t] = "RUNNING"
      /\ state \in [Context -> {"RUNNING", "READY", "BLOCKED"}]
      /\ t \in Context /\ Idle \in Context /\ t # Idle
  BY LockAssumption DEF MutexWait, At, LockInv, RunningInv, TypeOK, Context
<1>2. \A u \in Context : st[u] = IF u = t THEN "BLOCKED" ELSE state[u]
  BY <1>1
<1>3. \A u \in Task : pc'[u] = IF u = t THEN "wait" ELSE pc[u]
  BY DEF MutexWait, Goto, LockInv, TypeOK
<1>4. /\ waiters \in Seq(Task) /\ IsInjective(waiters)
      /\ ToSet(waiters) = {u \in Task : state[u] = "BLOCKED"}
  BY DEF LockInv, TypeOK, RunningInv, WaitersAreBlocked
<1>5. /\ waiters' \in Seq(Task) /\ IsInjective(waiters')
      /\ ToSet(waiters') = ToSet(waiters) \cup {t}
  <2>1. t \notin ToSet(waiters)
    BY <1>1, <1>4
  <2>2. waiters' = InsertAt(waiters, 1, t)
    BY DEF MutexWait
  <2>3. QED
    BY <1>4, <2>1, <2>2, Pushed
<1>6. Schedule(st)
  BY DEF MutexWait
<1>7. st \in [Context -> {"RUNNING", "READY", "BLOCKED"}]
  BY <1>1
<1>8. /\ \A u \in Context : st[u] = "RUNNING" => u = current
      /\ st[Idle] # "BLOCKED" /\ current \in Context
  BY <1>1, <1>2 DEF LockInv, RunningInv
<1> HIDE DEF st
<1>9. /\ state' \in [Context -> {"RUNNING", "READY", "BLOCKED"}]
      /\ current' \in Context
      /\ \A u \in Context : state'[u] = "RUNNING" <=> u = current'
      /\ \A u \in Context : state'[u] = "BLOCKED" <=> st[u] = "BLOCKED"
  BY <1>6, <1>7, <1>8, ScheduleEffect
<1>10. \A u \in Task : state'[u] = "BLOCKED" <=> u = t \/ state[u] = "BLOCKED"
  BY <1>2, <1>9 DEF Context
<1>11. TypeOK'
  BY <1>5, <1>9 DEF MutexWait, Goto, LockInv, TypeOK, ControlPoint
<1>12. RunningInv'
  <2>1. ToSet(waiters') = {u \in Task : state'[u] = "BLOCKED"}
    BY <1>4, <1>5, <1>10
  <2>2. \A u \in Task : state'[u] = "BLOCKED" => pc'[u] = "wait"
    BY <1>3, <1>10 DEF LockInv, RunningInv, WaitersAreBlocked
  <2>3. state'[Idle] # "BLOCKED"
    BY <1>1, <1>8, <1>9
  <2>4. QED
    BY <1>5, <1>9, <2>1, <2>2, <2>3 DEF RunningInv, WaitersAreBlocked
<1>13. \A u \in Task : (Owns(u))' = Owns(u) /\ (Holds(u))' = Holds(u)
  BY <1>1, <1>3 DEF Owns, Holds, MutexWait
<1>14. OwnerInv'
  BY <1>13 DEF LockInv, OwnerInv, MutexWait
<1>15. CountInv'
  BY <1>1, <1>3 DEF LockInv, CountInv, MutexWait
<1>16. NoLostWakeup'
  BY <1>1 DEF NoLostWakeup, MutexWait
<1>17. QED
  BY <1>11, <1>12, <1>14, <1>15, <1>16 DEF LockInv

LEMMA TakeKeepsInv ==
  ASSUME LockInv, NEW t \in Task, MutexTake(t)
  PROVE  LockInv'
<1>1. /\ pc[t] \in {"lock", "wait"} /\ ~ value /\ value' = TRUE /\ repeat = 0
      /\ depth[t] = 0 /\ \A u \in Task : ~ Owns(u)
      /\ UNCHANGED <<holder, repeat, depth>>
  BY DEF MutexTake, At, LockInv, CountInv, OwnerInv
<1>2. \A u \in Task : pc'[u] = IF u = t THEN "own" ELSE pc[u]
  BY DEF MutexTake, Goto, LockInv, TypeOK
<1>3. RunningInv' /\ NoLostWakeup' /\ pc' \in [Task -> ControlPoint]
  BY <1>1, LocalKeepsRunning DEF MutexTake, At, ControlPoint
<1>4. TypeOK'
  BY <1>1, <1>3 DEF MutexTake, LockInv, TypeOK
<1>5. \A u \in Task : /\ (Owns(u))' <=> u = t
                      /\ (Holds(u))' <=> Holds(u)
  BY <1>1, <1>2 DEF Owns, Holds
<1>6. OwnerInv'
  BY <1>1, <1>5 DEF LockInv, OwnerInv
<1>7. CountInv'
  BY <1>1, <1>2 DEF LockInv, CountInv, Owns
<1>8. QED
  BY <1>3, <1>4, <1>6, <1>7 DEF LockInv

LEMMA SetHolderKeepsInv ==
  ASSUME LockInv, NEW t \in Task, SetHolder(t)
  PROVE  LockInv'
<1>1. /\ pc[t] = "own" /\ value /\ repeat = 0 /\ depth[t] = 0 /\ holder' = t
      /\ \A u \in Task : Owns(u) <=> u = t
      /\ UNCHANGED <<value, repeat, depth>>
  BY DEF SetHolder, At, LockInv, CountInv, OwnerInv, Owns
<1>2. \A u \in Task : pc'[u] = IF u = t THEN "count" ELSE pc[u]
  BY DEF SetHolder, Goto, LockInv, TypeOK
<1>3. RunningInv' /\ NoLostWakeup' /\ pc' \in [Task -> ControlPoint]
  BY <1>1, LocalKeepsRunning DEF SetHolder, At, ControlPoint
<1>4. TypeOK'
  BY <1>1, <1>3 DEF SetHolder, LockInv, TypeOK
<1>5. \A u \in Task : /\ (Owns(u))' <=> u = t
                      /\ (Holds(u))' <=> u = t
  BY <1>1, <1>2 DEF Owns, Holds
<1>6. OwnerInv'
  BY <1>1, <1>5 DEF LockInv, OwnerInv
<1>7. CountInv'
  BY <1>1, <1>2 DEF LockInv, CountInv, Owns
<1>8. QED
  BY <1>3, <1>4, <1>6, <1>7 DEF LockInv

LEMMA SetRepeatKeepsInv ==
  ASSUME LockInv, NEW t \in Task, SetRepeat(t)
  PROVE  LockInv'
<1>1. /\ pc[t] = "count" /\ value /\ depth[t] = 0 /\ holder = t /\ repeat' = 1
      /\ \A u \in Task : Owns(u) <=> u = t
      /\ UNCHANGED <<value, holder>>
  BY DEF SetRepeat, At, LockInv, CountInv, OwnerInv, Owns, Holds
<1>2. \A u \in Task : /\ pc'[u] = IF u = t THEN "run" ELSE pc[u]
                      /\ depth'[u] = IF u = t THEN 1 ELSE depth[u]
  BY DEF SetRepeat, Goto, LockInv, TypeOK
<1>3. RunningInv' /\ NoLostWakeup' /\ pc' \in [Task -> ControlPoint]
  BY <1>1, LocalKeepsRunning DEF SetRepeat, At, ControlPoint
<1>4. TypeOK'
  <2>1. depth' \in [Task -> 0 .. MaxDepth]
    BY LockAssumption DEF SetRepeat, LockInv, TypeOK
  <2>2. QED
    BY <1>1, <1>3, <2>1 DEF SetRepeat, LockInv, TypeOK
<1>5. \A u \in Task : /\ (Owns(u))' <=> u = t
                      /\ (Holds(u))' <=> u = t
  BY <1>1, <1>2 DEF Owns, Holds
<1>6. OwnerInv'
  BY <1>1, <1>5 DEF LockInv, OwnerInv
<1>7. CountInv'
  BY <1>1, <1>2 DEF LockInv, CountInv, Owns
<1>8. QED
  BY <1>3, <1>4, <1>6, <1>7 DEF LockInv

-----------------------------------------------------------------------------
(* The steps of lock_release.                                               *)

LEMMA ReleaseTestKeepsInv ==
  ASSUME LockInv, NEW t \in Task, ReleaseTest(t)
  PROVE  LockInv'
<1>1. /\ pc[t] = "run" /\ depth[t] > 0 /\ repeat = depth[t] /\ depth[t] \in Nat
      /\ UNCHANGED <<value, holder, repeat, depth>>
  BY DEF ReleaseTest, At, LockInv, CountInv, TypeOK, lockVars
<1>2. \A u \in Task : pc'[u] = IF u = t THEN (IF depth[t] > 1 THEN "unnest" ELSE "clear")
                               ELSE pc[u]
  BY <1>1 DEF ReleaseTest, Goto, LockInv, TypeOK
<1>3. RunningInv' /\ NoLostWakeup' /\ pc' \in [Task -> ControlPoint]
  BY <1>1, LocalKeepsRunning DEF ReleaseTest, At, ControlPoint, lockVars
<1>4. TypeOK'
  BY <1>1, <1>3 DEF ReleaseTest, LockInv, TypeOK, lockVars
<1>5. \A u \in Task : (Owns(u))' = Owns(u) /\ (Holds(u))' = Holds(u)
  BY <1>1, <1>2 DEF Owns, Holds
<1>6. OwnerInv'
  BY <1>1, <1>5 DEF LockInv, OwnerInv
<1>7. CountInv'
  BY <1>1, <1>2 DEF LockInv, CountInv
<1>8. QED
  BY <1>3, <1>4, <1>6, <1>7 DEF LockInv

LEMMA UnnestKeepsInv ==
  ASSUME LockInv, NEW t \in Task, Unnest(t)
  PROVE  LockInv'
<1>1. /\ pc[t] = "unnest" /\ depth[t] > 1 /\ repeat = depth[t] /\ value
      /\ depth[t] \in 0 .. MaxDepth /\ repeat' = repeat - 1
      /\ \A u \in Task : Owns(u) <=> u = t
      /\ UNCHANGED <<value, holder>>
  BY DEF Unnest, At, LockInv, CountInv, OwnerInv, Owns, TypeOK
<1>2. \A u \in Task : /\ pc'[u] = IF u = t THEN "run" ELSE pc[u]
                      /\ depth'[u] = IF u = t THEN depth[t] - 1 ELSE depth[u]
  BY DEF Unnest, Goto, LockInv, TypeOK
<1>3. RunningInv' /\ NoLostWakeup' /\ pc' \in [Task -> ControlPoint]
  BY <1>1, LocalKeepsRunning DEF Unnest, At, ControlPoint
<1>4. depth[t] - 1 \in 0 .. MaxDepth /\ depth[t] - 1 > 0
  BY <1>1, LockAssumption
<1>5. TypeOK'
  <2>1. depth' \in [Task -> 0 .. MaxDepth]
    BY <1>4 DEF Unnest, LockInv, TypeOK
  <2>2. repeat' \in Nat
    BY <1>1, <1>4
  <2>3. QED
    BY <1>3, <2>1, <2>2 DEF Unnest, LockInv, TypeOK
<1>6. \A u \in Task : (Owns(u))' = Owns(u) /\ (Holds(u))' = Holds(u)
  BY <1>1, <1>2, <1>4 DEF Owns, Holds
<1>7. OwnerInv'
  BY <1>1, <1>6 DEF LockInv, OwnerInv
<1>8. CountInv'
  BY <1>1, <1>2, <1>4 DEF LockInv, CountInv, Owns
<1>9. QED
  BY <1>3, <1>5, <1>7, <1>8 DEF LockInv

LEMMA ClearHolderKeepsInv ==
  ASSUME LockInv, NEW t \in Task, ClearHolder(t)
  PROVE  LockInv'
<1>1. /\ pc[t] = "clear" /\ depth[t] = 1 /\ repeat = depth[t] /\ value
      /\ holder' = NoTask /\ NoTask \notin Task
      /\ \A u \in Task : Owns(u) <=> u = t
      /\ UNCHANGED <<value, repeat, depth>>
  BY LockAssumption DEF ClearHolder, At, LockInv, CountInv, OwnerInv, Owns
<1>2. \A u \in Task : pc'[u] = IF u = t THEN "zero" ELSE pc[u]
  BY DEF ClearHolder, Goto, LockInv, TypeOK
<1>3. RunningInv' /\ NoLostWakeup' /\ pc' \in [Task -> ControlPoint]
  BY <1>1, LocalKeepsRunning DEF ClearHolder, At, ControlPoint
<1>4. TypeOK'
  BY <1>1, <1>3 DEF ClearHolder, LockInv, TypeOK
<1>5. \A u \in Task : ((Owns(u))' <=> u = t) /\ ~ (Holds(u))'
  BY <1>1, <1>2 DEF Owns, Holds
<1>6. OwnerInv'
  BY <1>1, <1>5 DEF LockInv, OwnerInv
<1>7. CountInv'
  BY <1>1, <1>2 DEF LockInv, CountInv
<1>8. QED
  BY <1>3, <1>4, <1>6, <1>7 DEF LockInv

LEMMA ClearRepeatKeepsInv ==
  ASSUME LockInv, NEW t \in Task, ClearRepeat(t)
  PROVE  LockInv'
<1>1. /\ pc[t] = "zero" /\ depth[t] = 1 /\ value /\ repeat' = 0
      /\ \A u \in Task : Owns(u) <=> u = t
      /\ UNCHANGED <<value, holder, depth>>
  BY DEF ClearRepeat, At, LockInv, CountInv, OwnerInv, Owns
<1>2. \A u \in Task : pc'[u] = IF u = t THEN "unlock" ELSE pc[u]
  BY DEF ClearRepeat, Goto, LockInv, TypeOK
<1>3. RunningInv' /\ NoLostWakeup' /\ pc' \in [Task -> ControlPoint]
  BY <1>1, LocalKeepsRunning DEF ClearRepeat, At, ControlPoint
<1>4. TypeOK'
  BY <1>1, <1>3 DEF ClearRepeat, LockInv, TypeOK
<1>5. \A u \in Task : ((Owns(u))' <=> u = t) /\ (Holds(u))' = Holds(u)
  BY <1>1, <1>2 DEF Owns, Holds
<1>6. OwnerInv'
  BY <1>1, <1>5 DEF LockInv, OwnerInv
<1>7. CountInv'
  BY <1>1, <1>2 DEF LockInv, CountInv, Owns
<1>8. QED
  BY <1>3, <1>4, <1>6, <1>7 DEF LockInv

\* mutex_unlock, with or without somebody to wake: nobody owns the mutex after it
LEMMA UnlockFreesOwner ==
  ASSUME LockInv, NEW t \in Task, pc[t] = "unlock", NEW to \in {"run", "resume"},
         Goto(t, to), value' = FALSE, depth' = [depth EXCEPT ![t] = 0],
         UNCHANGED <<holder, repeat>>
  PROVE  /\ OwnerInv' /\ CountInv' /\ pc' \in [Task -> ControlPoint]
         /\ depth' \in [Task -> 0 .. MaxDepth]
<1>1. /\ repeat = 0 /\ value /\ \A u \in Task : Owns(u) <=> u = t
  BY DEF LockInv, CountInv, OwnerInv, Owns
<1>2. \A u \in Task : /\ pc'[u] = IF u = t THEN to ELSE pc[u]
                      /\ depth'[u] = IF u = t THEN 0 ELSE depth[u]
  BY DEF Goto, LockInv, TypeOK
<1>3. \A u \in Task : ~ (Owns(u))' /\ ((Holds(u))' <=> Holds(u))
  BY <1>1, <1>2 DEF Owns, Holds
<1>4. OwnerInv'
  BY <1>3 DEF LockInv, OwnerInv
<1>5. CountInv'
  BY <1>1, <1>2 DEF LockInv, CountInv, Owns
<1>6. pc' \in [Task -> ControlPoint] /\ depth' \in [Task -> 0 .. MaxDepth]
  BY LockAssumption DEF Goto, LockInv, TypeOK, ControlPoint
<1>7. QED
  BY <1>4, <1>5, <1>6

LEMMA FreeKeepsInv ==
  ASSUME LockInv, NEW t \in Task, MutexFree(t)
  PROVE  LockInv'
<1>1. /\ OwnerInv' /\ CountInv' /\ pc' \in [Task -> ControlPoint]
      /\ depth' \in [Task -> 0 .. MaxDepth]
  BY UnlockFreesOwner DEF MutexFree, At
<1>2. TypeOK'
  BY <1>1 DEF MutexFree, LockInv, TypeOK
<1>3. \A u \in Task : pc'[u] = IF u = t THEN "run" ELSE pc[u]
  BY DEF MutexFree, Goto, LockInv, TypeOK
<1>4. state[t] = "RUNNING"
  BY DEF MutexFree, At, LockInv, RunningInv, Context
<1>5. RunningInv'
  BY <1>3, <1>4 DEF MutexFree, LockInv, RunningInv, WaitersAreBlocked
<1>6. NoLostWakeup'
  BY DEF MutexFree, NoLostWakeup
<1>7. QED
  BY <1>1, <1>2, <1>5, <1>6 DEF LockInv

LEMMA HandOverKeepsInv ==
  ASSUME LockInv, NEW t \in Task, MutexHandOver(t)
  PROVE  LockInv'
<1> DEFINE w == waiters[Len(waiters)]
           st == [state EXCEPT ![w] = "READY"]
<1>1. /\ OwnerInv' /\ CountInv' /\ pc' \in [Task -> ControlPoint]
      /\ depth' \in [Task -> 0 .. MaxDepth]
  BY UnlockFreesOwner DEF MutexHandOver, At
<1>2. /\ waiters \in Seq(Task) /\ IsInjective(waiters) /\ waiters # << >>
      /\ ToSet(waiters) = {u \in Task : state[u] = "BLOCKED"}
  BY DEF MutexHandOver, LockInv, TypeOK, RunningInv, WaitersAreBlocked
<1>3. /\ SubSeq(waiters, 1, Len(waiters) - 1) \in Seq(Task)
      /\ IsInjective(SubSeq(waiters, 1, Len(waiters) - 1))
      /\ ToSet(SubSeq(waiters, 1, Len(waiters) - 1)) = ToSet(waiters) \ {w}
      /\ w \in ToSet(waiters)
  BY <1>2, DroppedLast
<1>4. waiters' = SubSeq(waiters, 1, Len(waiters) - 1) /\ Schedule(st)
  BY DEF MutexHandOver
<1> HIDE DEF w
<1>5. /\ w \in Task /\ state[w] = "BLOCKED" /\ pc[w] = "wait" /\ w \in Context
      /\ state \in [Context -> {"RUNNING", "READY", "BLOCKED"}] /\ Idle \in Context
  BY <1>2, <1>3 DEF LockInv, TypeOK, RunningInv, WaitersAreBlocked, Context
<1>6. \A u \in Context : st[u] = IF u = w THEN "READY" ELSE state[u]
  BY <1>5
<1>7. st \in [Context -> {"RUNNING", "READY", "BLOCKED"}]
  BY <1>5
<1>8. /\ \A u \in Context : st[u] = "RUNNING" => u = current
      /\ st[Idle] # "BLOCKED" /\ current \in Context
  BY <1>5, <1>6 DEF LockInv, RunningInv, TypeOK
<1> HIDE DEF st
<1>9. /\ state' \in [Context -> {"RUNNING", "READY", "BLOCKED"}]
      /\ current' \in Context
      /\ \A u \in Context : state'[u] = "RUNNING" <=> u = current'
      /\ \A u \in Context : state'[u] = "BLOCKED" <=> st[u] = "BLOCKED"
  BY <1>4, <1>7, <1>8, ScheduleEffect
<1>10. \A u \in Task : state'[u] = "BLOCKED" <=> u # w /\ state[u] = "BLOCKED"
  BY <1>6, <1>9 DEF Context
<1>11. \A u \in Task : pc'[u] = IF u = t THEN "resume" ELSE pc[u]
  BY DEF MutexHandOver, Goto, LockInv, TypeOK
<1>12. state[t] = "RUNNING" /\ w # t
  BY <1>5 DEF MutexHandOver, At, LockInv, RunningInv, Context
<1>13. TypeOK'
  BY <1>1, <1>3, <1>4, <1>9 DEF MutexHandOver, LockInv, TypeOK
<1>14. RunningInv'
  <2>1. ToSet(waiters') = {u \in Task : state'[u] = "BLOCKED"}
    BY <1>2, <1>3, <1>4, <1>10
  <2>2. \A u \in Task : state'[u] = "BLOCKED" => pc'[u] = "wait"
    BY <1>10, <1>11, <1>12 DEF LockInv, RunningInv, WaitersAreBlocked
  <2>3. state'[Idle] # "BLOCKED"
    BY <1>5, <1>8, <1>9
  <2>4. QED
    BY <1>3, <1>4, <1>9, <2>1, <2>2, <2>3 DEF RunningInv, WaitersAreBlocked
<1>15. NoLostWakeup'
  BY <1>5, <1>10, <1>11, <1>12 DEF NoLostWakeup
<1>16. QED
  BY <1>1, <1>13, <1>14, <1>15 DEF LockInv

LEMMA ResumeKeepsInv ==
  ASSUME LockInv, NEW t \in Task, Resume(t)
  PROVE  LockInv'
<1>1. pc[t] = "resume" /\ depth[t] = 0 /\ UNCHANGED <<value, holder, repeat, depth>>
  BY DEF Resume, At, LockInv, CountInv, lockVars
<1>2. \A u \in Task : pc'[u] = IF u = t THEN "run" ELSE pc[u]
  BY DEF Resume, Goto, LockInv, TypeOK
<1>3. RunningInv' /\ NoLostWakeup' /\ pc' \in [Task -> ControlPoint]
  BY <1>1, LocalKeepsRunning DEF Resume, At, ControlPoint, lockVars
<1>4. TypeOK'
  BY <1>1, <1>3 DEF Resume, LockInv, TypeOK, lockVars
<1>5. \A u \in Task : (Owns(u))' = Owns(u) /\ (Holds(u))' = Holds(u)
  BY <1>1, <1>2 DEF Owns, Holds
<1>6. OwnerInv'
  BY <1>1, <1>5 DEF LockInv, OwnerInv
<1>7. CountInv'
  BY <1>1, <1>2 DEF LockInv, CountInv
<1>8. QED
  BY <1>3, <1>4, <1>6, <1>7 DEF LockInv

LEMMA NextKeepsInv == LockInv /\ [Next]_vars => LockInv'
<1> SUFFICES ASSUME LockInv, [Next]_vars PROVE LockInv'
  OBVIOUS
<1>1. CASE Preempt
  BY <1>1, SwitchKeepsInv DEF Preempt
<1>2. ASSUME NEW t \in Task, Step(t) PROVE LockInv'
  <2>1. CASE AcquireTest(t) \/ Nest(t) \/ MutexWait(t)
    BY <2>1, AcquireTestKeepsInv, NestKeepsInv, WaitKeepsInv
  <2>2. CASE MutexTake(t) \/ SetHolder(t) \/ SetRepeat(t)
    BY <2>2, TakeKeepsInv, SetHolderKeepsInv, SetRepeatKeepsInv
  <2>3. CASE ReleaseTest(t) \/ Unnest(t) \/ ClearHolder(t)
    BY <2>3, ReleaseTestKeepsInv, UnnestKeepsInv, ClearHolderKeepsInv
  <2>4. CASE ClearRepeat(t) \/ MutexFree(t) \/ MutexHandOver(t) \/ Resume(t)
    BY <2>4, ClearRepeatKeepsInv, FreeKeepsInv, HandOverKeepsInv, ResumeKeepsInv
  <2>5. CASE Yield(t)
    BY <2>5, SwitchKeepsInv DEF Yield
  <2>6. QED
    BY <1>2, <2>1, <2>2, <2>3, <2>4, <2>5 DEF Step
<1>3. CASE UNCHANGED vars
  BY <1>3 DEF vars, LockInv, TypeOK, OwnerInv, CountInv, RunningInv, NoLostWakeup,
     WaitersAreBlocked, Owns, Holds
<1>4. QED
  BY <1>1, <1>2, <1>3 DEF Next

LEMMA InitInv == Init => LockInv
<1> SUFFICES ASSUME Init PROVE LockInv
  OBVIOUS
<1>1. TypeOK
  <2>1. waiters \in Seq(Task)
    BY EmptySeq DEF Init
  <2>2. current \in Context /\ holder \in Task \cup {NoTask}
    BY DEF Init, Context
  <2>3. state \in [Context -> {"RUNNING", "READY", "BLOCKED"}]
    BY DEF Init
  <2>4. pc \in [Task -> ControlPoint]
    BY DEF Init, ControlPoint
  <2>5. 0 \in 0 .. MaxDepth
    BY LockAssumption
  <2>6. depth \in [Task -> 0 .. MaxDepth]
    BY <2>5 DEF Init
  <2>7. value \in BOOLEAN /\ repeat \in Nat
    BY DEF Init
  <2>8. QED
    BY <2>1, <2>2, <2>3, <2>4, <2>6, <2>7 DEF TypeOK
<1>2. OwnerInv /\ CountInv
  BY LockAssumption DEF Init, OwnerInv, CountInv, Owns, Holds
<1>3. ToSet(waiters) = {} /\ IsInjective(waiters)
  BY DEF Init, ToSet, IsInjective
<1>4. \A t \in Context : state[t] = IF t = Idle THEN "RUNNING" ELSE "READY"
  BY DEF Init
<1>5. Idle \in Context /\ Task \subseteq Context /\ Idle \notin Task
  BY LockAssumption DEF Context
<1>6. RunningInv
  BY <1>3, <1>4, <1>5 DEF Init, RunningInv, WaitersAreBlocked
<1>7. NoLostWakeup
  BY DEF Init, NoLostWakeup
<1>8. QED
  BY <1>1, <1>2, <1>6, <1>7 DEF LockInv

LEMMA InvHolds == Spec => []LockInv
  BY InitInv, NextKeepsInv, PTL DEF Spec

-----------------------------------------------------------------------------
(* The theorems.                                                            *)

\* For any number of tasks, at most one is between acquire and release.
THEOREM LockExcludes == Spec => []MutualExclusion
<1>1. LockInv => MutualExclusion
  BY DEF LockInv, MutualExclusion, OwnerInv, CountInv, Owns, TypeOK, ControlPoint
<1>2. QED
  BY <1>1, InvHolds, PTL

\* Whoever takes the mutex in between, a free mutex never has only sleeping waiters.
THEOREM NoWakeupIsLost == Spec => []NoLostWakeup
<1>1. LockInv => NoLostWakeup
  BY DEF LockInv
<1>2. QED
  BY <1>1, InvHolds, PTL

\* The assertions in mutex.c cannot fail, and repeat is the holder's nesting.
THEOREM LockAssertionsHold == Spec => [](AssertionsHold /\ RepeatIsDepth /\ WaitersAreBlocked)
<1>1. LockInv => AssertionsHold
  BY DEF LockInv, AssertionsHold, OwnerInv, CountInv, Owns, Holds
<1>2. LockInv => RepeatIsDepth
  <2> SUFFICES ASSUME LockInv PROVE RepeatIsDepth
    OBVIOUS
  <2>1. \A t \in Task : depth[t] > 0 /\ pc[t] = "run" => holder = t /\ repeat = depth[t]
    BY DEF LockInv, OwnerInv, CountInv, Holds
  <2>2. ~ value => holder = NoTask /\ repeat = 0
    BY DEF LockInv, TypeOK, OwnerInv, CountInv, Owns, Holds
  <2>3. QED
    BY <2>1, <2>2 DEF RepeatIsDepth
<1>3. LockInv => WaitersAreBlocked
  BY DEF LockInv, RunningInv
<1>4. QED
  BY <1>1, <1>2, <1>3, InvHolds, PTL

\* The statements of mutex.c implement the reentrant lock: SetRepeat is where a
\* first acquire takes effect, mutex_unlock where the last release does.
THEOREM LockRefines == Spec => IsReentrantLock
<1>1. Init => Abstract!Init
  BY DEF Init, Abstract!Init
<1>2. LockInv /\ [Next]_vars => [Abstract!Next]_depth
  <2> SUFFICES ASSUME LockInv, Next, depth' # depth PROVE Abstract!Next
    BY DEF vars
  <2>1. PICK t \in Task : Nest(t) \/ SetRepeat(t) \/ Unnest(t) \/ MutexFree(t) \/ MutexHandOver(t)
    BY DEF Next, Preempt, Step, AcquireTest, MutexWait, MutexTake, SetHolder, ReleaseTest,
       ClearHolder, ClearRepeat, Resume, Yield
  <2>2. depth \in [Task -> 0 .. MaxDepth] /\ depth[t] \in Nat
    BY DEF LockInv, TypeOK
  <2>3. Owns(t) /\ \A u \in Task \ {t} : ~ Owns(u)
    BY <2>1 DEF LockInv, OwnerInv, Owns, Nest, SetRepeat, Unnest, MutexFree, MutexHandOver, At
  <2>4. \A u \in Task \ {t} : depth[u] = 0
    BY <2>3 DEF LockInv, CountInv, TypeOK, Owns, ControlPoint
  <2>5. CASE Nest(t) \/ SetRepeat(t)
    <3>1. depth' = [depth EXCEPT ![t] = depth[t] + 1]
      BY <2>5, <2>2 DEF Nest, SetRepeat, At, LockInv, CountInv
    <3>2. QED
      BY <2>4, <3>1 DEF Abstract!Next, Abstract!Acquire
  <2>6. CASE Unnest(t) \/ MutexFree(t) \/ MutexHandOver(t)
    <3>1. depth[t] > 0 /\ depth' = [depth EXCEPT ![t] = depth[t] - 1]
      BY <2>6, <2>2 DEF Unnest, MutexFree, MutexHandOver, At, LockInv, CountInv
    <3>2. QED
      BY <3>1 DEF Abstract!Next, Abstract!Release
  <2>7. QED
    BY <2>1, <2>5, <2>6
<1>3. QED
  BY <1>1, <1>2, InvHolds, PTL DEF Spec, IsReentrantLock, Abstract!Spec
=============================================================================
