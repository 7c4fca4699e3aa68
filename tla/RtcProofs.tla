------------------------------ MODULE RtcProofs ------------------------------
(***************************************************************************)
(* Proofs about Rtc.  First the calendar: the chip's next second is one    *)
(* second later in SecondsSince1970, over all its carries, and mktime      *)
(* counts the same seconds while the years have two digits of their own.   *)
(* Then the invariant: a time that is being read agrees with the chip or   *)
(* lags behind it in seconds, a time that has been read is since seconds   *)
(* old, and the alarm registers hold the time of day the request falls due *)
(* at.                                                                     *)
(***************************************************************************)
EXTENDS Rtc, FiniteSetTheorems, NaturalsInduction, WellFoundedInduction, TLAPS

\* the dates there are
Second == 0 .. 59
Hour == 0 .. 23
WeekDay == 1 .. 7
MonthDay == 1 .. 31
Month == 1 .. 12
Year == {y \in Nat : y >= 1970}

Calendar == [sec : Second, min : Second, hour : Hour, wday : WeekDay, mday : MonthDay,
             mon : Month, year : Year]

Date == {d \in Calendar : d.mday <= LastDay(d.mon, d.year)}

\* a date's fields are in their ranges
LEMMA DateFields ==
  ASSUME NEW d \in Date
  PROVE  /\ d \in Calendar
         /\ d.sec \in Second /\ d.min \in Second /\ d.hour \in Hour
         /\ d.wday \in WeekDay /\ d.mday \in MonthDay /\ d.mon \in Month /\ d.year \in Year
         /\ d.mday <= LastDay(d.mon, d.year)
BY DEF Date, Calendar

\* bcd_to_bin and bin_to_bcd are inverse to each other
LEMMA BcdIsInverse ==
  ASSUME NEW n \in Nat
  PROVE  Digits(n) \in Nat /\ bin_to_bcd(n) = Digits(n) /\ bcd_to_bin(Digits(n)) = n
<1>1. PICK a \in Nat : a = n \div 10
  OBVIOUS
<1>2. PICK b \in 0 .. 9 : b = n % 10
  OBVIOUS
<1>3. n = 10 * a + b
  BY <1>1, <1>2
<1>4. Digits(n) = 16 * a + b
  BY <1>1, <1>2 DEF Digits
<1>5. bin_to_bcd(n) = 16 * a + b
  BY <1>1, <1>2 DEF bin_to_bcd
<1>6. (16 * a + b) % 16 = b /\ (16 * a + b) \div 16 = a
  OBVIOUS
<1>7. QED
  BY <1>3, <1>4, <1>5, <1>6 DEF bcd_to_bin

-----------------------------------------------------------------------------
(* The calendar.                                                             *)

Leaps(y) == Cardinality({l \in 1970 .. y - 1 : IsLeap(l)})

\* no leap year comes before the first year
LEMMA LeapsBegin == Leaps(1970) = 0
<1>1. {l \in 1970 .. 1970 - 1 : IsLeap(l)} = {}
  OBVIOUS
<1>2. QED
  BY <1>1, FS_EmptySet DEF Leaps

\* the leap years before the next year
LEMMA LeapsGrow ==
  ASSUME NEW y \in Nat, y >= 1970
  PROVE  Leaps(y) \in Nat /\ Leaps(y + 1) = Leaps(y) + IF IsLeap(y) THEN 1 ELSE 0
<1> DEFINE L(z) == {l \in 1970 .. z - 1 : IsLeap(l)}
<1>1. IsFiniteSet(L(y))
  <2>1. IsFiniteSet(1970 .. y - 1)
    BY FS_Interval
  <2>2. QED
    BY <2>1, FS_Subset
<1>2. y \notin L(y)
  OBVIOUS
<1>3. L(y + 1) = IF IsLeap(y) THEN L(y) \cup {y} ELSE L(y)
  <2>1. 1970 .. (y + 1) - 1 = (1970 .. y - 1) \cup {y}
    OBVIOUS
  <2>2. QED
    BY <2>1
<1>4. Leaps(y) = Cardinality(L(y)) /\ Leaps(y + 1) = Cardinality(L(y + 1))
  BY DEF Leaps
<1>5. Cardinality(L(y)) \in Nat
  BY <1>1, FS_CardinalityType
<1>6. Cardinality(L(y) \cup {y}) = Cardinality(L(y)) + 1
  BY <1>1, <1>2, FS_AddElement
<1> HIDE DEF L
<1>7. QED
  BY <1>3, <1>4, <1>5, <1>6

\* induction over the numbers, of a set
LEMMA Induction ==
  ASSUME NEW S, 0 \in S, \A n \in Nat : n \in S => n + 1 \in S
  PROVE  \A n \in Nat : n \in S
<1> DEFINE less == {ss \in Nat \X Nat : ss[1] < ss[2]}
<1>1. IsWellFoundedOn(less, Nat)
  BY NatLessThanWellFounded DEF OpToRel
<1>2. \A m, n \in Nat : m < n => <<m, n>> \in less
  OBVIOUS
<1> HIDE DEF less
<1>3. ASSUME Nat \ S # {} PROVE FALSE
  <2>1. PICK n \in Nat \ S : \A m \in Nat \ S : <<m, n>> \notin less
    BY <1>1, <1>3, WFMin
  <2>2. n # 0 /\ n \in Nat
    BY <2>1
  <2>3. n - 1 \in Nat /\ n - 1 < n /\ n - 1 + 1 = n
    BY <2>2
  <2>4. n - 1 \in Nat \ S
    BY <2>1, <2>3
  <2>5. QED
    BY <1>2, <2>1, <2>2, <2>3, <2>4
<1>4. QED
  BY <1>3

\* mktime's leap years are those of the calendar until 2100
LEMMA LeapsAreQuarters ==
  \A y \in 1970 .. 2069 : Leaps(y) = (y - 1970 + 1) \div 4
<1> DEFINE S == {n \in Nat : n <= 99 => Leaps(1970 + n) = (n + 1) \div 4}
<1>1. 0 \in S
  BY LeapsBegin
<1>2. ASSUME NEW n \in Nat, n \in S PROVE n + 1 \in S
  <2> SUFFICES ASSUME n + 1 <= 99 PROVE Leaps(1970 + (n + 1)) = ((n + 1) + 1) \div 4
    OBVIOUS
  <2>1. PICK y \in Nat : y = 1970 + n /\ y >= 1970 /\ 1970 + (n + 1) = y + 1
    OBVIOUS
  <2>2. Leaps(y) = (n + 1) \div 4
    BY <1>2, <2>1
  <2>3. Leaps(y + 1) = Leaps(y) + IF IsLeap(y) THEN 1 ELSE 0
    BY <2>1, LeapsGrow
  <2>4. IsLeap(y) <=> y % 4 = 0
    BY <2>1 DEF IsLeap
  <2>5. CASE y % 4 = 0
    BY <2>1, <2>2, <2>3, <2>4, <2>5
  <2>6. CASE y % 4 # 0
    BY <2>1, <2>2, <2>3, <2>4, <2>6
  <2>7. QED
    BY <2>5, <2>6
<1>3. \A n \in Nat : n \in S
  <2> HIDE DEF S
  <2>1. QED
    BY <1>1, <1>2, Induction
<1>4. QED
  <2> SUFFICES ASSUME NEW y \in 1970 .. 2069 PROVE Leaps(y) = (y - 1970 + 1) \div 4
    OBVIOUS
  <2>1. PICK n \in Nat : y = 1970 + n /\ n <= 99 /\ n = y - 1970
    OBVIOUS
  <2>2. QED
    BY <1>3, <2>1

\* the entries of the table
LEMMA MonthTable ==
  /\ month[1] = 0 /\ month[2] = 31 /\ month[3] = 60 /\ month[4] = 91
  /\ month[5] = 121 /\ month[6] = 152 /\ month[7] = 182 /\ month[8] = 213
  /\ month[9] = 244 /\ month[10] = 274 /\ month[11] = 305 /\ month[12] = 335
BY DEF month

\* the days before a month: those of a leap year, or one less after February
Before(m, y) == month[m] - (IF m > 2 /\ ~ IsLeap(y) THEN 1 ELSE 0)

\* month after month the table adds up the lengths of the months
LEMMA BeforeGrows ==
  ASSUME NEW y \in Nat
  PROVE  /\ Before(1, y) = 0
         /\ \A m \in 1 .. 12 : Before(m, y) \in Nat
         /\ \A m \in 1 .. 11 : Before(m + 1, y) = Before(m, y) + LastDay(m, y)
         /\ Before(12, y) + LastDay(12, y) = IF IsLeap(y) THEN 366 ELSE 365
<1>1. Before(1, y) = 0
  BY MonthTable DEF Before
<1>2. ASSUME NEW m \in 1 .. 12 PROVE Before(m, y) \in Nat
  <2>1. \/ m = 1 \/ m = 2 \/ m = 3 \/ m = 4 \/ m = 5 \/ m = 6 \/ m = 7 \/ m = 8
        \/ m = 9 \/ m = 10 \/ m = 11 \/ m = 12
    OBVIOUS
  <2>2. QED
    BY <2>1, MonthTable DEF Before
<1>3. ASSUME NEW m \in 1 .. 11 PROVE Before(m + 1, y) = Before(m, y) + LastDay(m, y)
  <2>1. \/ m = 1 \/ m = 2 \/ m = 3 \/ m = 4 \/ m = 5 \/ m = 6 \/ m = 7 \/ m = 8
        \/ m = 9 \/ m = 10 \/ m = 11
    OBVIOUS
  <2>2. QED
    BY <2>1, MonthTable DEF Before, LastDay
<1>4. Before(12, y) + LastDay(12, y) = IF IsLeap(y) THEN 366 ELSE 365
  BY MonthTable DEF Before, LastDay
<1>5. QED
  BY <1>1, <1>2, <1>3, <1>4

YearDays(y) == IF IsLeap(y) THEN 366 ELSE 365

\* the days before a month are a number
LEMMA BeforeIs ==
  ASSUME NEW y \in Year, NEW m \in Month
  PROVE  Before(m, y) \in Nat
<1>1. y \in Nat
  BY SMT DEF Year
<1>2. m \in 1 .. 12
  BY DEF Month
<1>3. \A n \in 1 .. 12 : Before(n, y) \in Nat
  BY <1>1, BeforeGrows, Zenon
<1>4. QED
  BY <1>2, <1>3, Zenon

\* the days before the month after this one
LEMMA BeforeNext ==
  ASSUME NEW y \in Year, NEW m \in Month, m # 12, NEW n, n = m + 1
  PROVE  Before(n, y) = Before(m, y) + LastDay(m, y)
<1>1. y \in Nat
  BY SMT DEF Year
<1>2. m \in 1 .. 11
  BY SMT DEF Month
<1>3. \A k \in 1 .. 11 : Before(k + 1, y) = Before(k, y) + LastDay(k, y)
  BY <1>1, BeforeGrows, Zenon
<1>4. Before(m + 1, y) = Before(m, y) + LastDay(m, y)
  BY <1>2, <1>3, Zenon
<1>5. QED
  BY <1>4, Zenon

\* the days before the first month, and those of the whole year
LEMMA BeforeEnds ==
  ASSUME NEW y \in Year
  PROVE  Before(1, y) = 0 /\ Before(12, y) + LastDay(12, y) = YearDays(y)
<1>1. y \in Nat
  BY SMT DEF Year
<1>2. QED
  BY <1>1, BeforeGrows, Zenon DEF YearDays

\* the day of the year, counted over the months, is the one the table gives
LEMMA DayOfYearIs ==
  ASSUME NEW d \in Date
  PROVE  DayOfYear(d) = Before(d.mon, d.year) + d.mday
<1> DEFINE step(f, m) == IF m = 1 THEN 0 ELSE f[m - 1] + LastDay(m - 1, d.year)
           sum == [m \in 1 .. 12 |-> Before(m, d.year)]
           before == CHOOSE f : f = [m \in 1 .. 12 |-> step(f, m)]
           fits(f) == f = [m \in 1 .. 12 |-> step(f, m)]
<1>1. d.year \in Nat /\ d.mon \in 1 .. 12 /\ d.mday \in Nat
  BY DateFields DEF MonthDay, Month, Year
<1>2. DayOfYear(d) = before[d.mon] + d.mday
  BY DEF DayOfYear
<1>3. fits(sum)
  <2>1. ASSUME NEW m \in 1 .. 12 PROVE Before(m, d.year) = step(sum, m)
    <3>1. CASE m = 1
      BY <1>1, <3>1, BeforeGrows
    <3>2. CASE m # 1
      <4>1. PICK n \in 1 .. 11 : m = n + 1 /\ n = m - 1 /\ n \in 1 .. 12
        BY <3>2
      <4>2. Before(m, d.year) = Before(n, d.year) + LastDay(n, d.year)
        BY <1>1, <4>1, BeforeGrows
      <4>3. QED
        BY <3>2, <4>1, <4>2
    <3>3. QED
      BY <3>1, <3>2
  <2>2. QED
    BY <2>1, Zenon
<1>4. before = CHOOSE f : fits(f)
  OBVIOUS
<1> HIDE DEF fits, before
<1>5. fits(before)
  BY <1>3, <1>4
<1>6. \A m \in 1 .. 12 : before[m] = step(before, m)
  BY <1>5 DEF fits
<1> DEFINE S == {n \in Nat : n <= 11 => before[n + 1] = Before(n + 1, d.year)}
<1>7. 0 \in S
  <2>1. before[1] = 0
    <3>1. before[1] = step(before, 1)
      BY <1>6
    <3>2. QED
      BY <3>1
  <2>2. Before(1, d.year) = 0
    BY <1>1, BeforeGrows
  <2>3. QED
    BY <2>1, <2>2
<1>8. ASSUME NEW n \in Nat, n \in S PROVE n + 1 \in S
  <2> SUFFICES ASSUME n + 1 <= 11 PROVE before[(n + 1) + 1] = Before((n + 1) + 1, d.year)
    OBVIOUS
  <2>1. PICK m \in 1 .. 11 : m = n + 1
    OBVIOUS
  <2>2. before[m] = Before(m, d.year)
    BY <1>8, <2>1
  <2>3. PICK k \in 1 .. 12 : k = m + 1 /\ k # 1 /\ k - 1 = m
    OBVIOUS
  <2>4. before[k] = before[m] + LastDay(m, d.year)
    BY <1>6, <2>3
  <2>5. Before(m + 1, d.year) = Before(m, d.year) + LastDay(m, d.year)
    BY <1>1, BeforeGrows
  <2>6. QED
    BY <2>1, <2>2, <2>3, <2>4, <2>5
<1>9. \A n \in Nat : n \in S
  <2> HIDE DEF S
  <2>1. QED
    BY <1>7, <1>8, Induction
<1>10. before[d.mon] = Before(d.mon, d.year)
  <2>1. PICK n \in Nat : n <= 11 /\ n + 1 = d.mon
    BY <1>1
  <2>2. QED
    BY <1>9, <2>1
<1>11. QED
  BY <1>2, <1>10


Days(d) == DaysOfYears(d.year) + DayOfYear(d) - 1

\* the day a date is on
LEMMA DateScalars ==
  ASSUME NEW d \in Date
  PROVE  \E y \in Year : \E m \in Month : \E k \in MonthDay :
           y = d.year /\ m = d.mon /\ k = d.mday /\ k <= LastDay(m, y)
BY DateFields, Zenon

\* the days from the first of January 1970 to a day of a month of a year
DayNumber(y, m, k) == 365 * (y - 1970) + Leaps(y) + Before(m, y) + k - 1

\* SecondsSince1970 in whole days and the seconds of the last one
LEMMA DaysAre ==
  ASSUME NEW d \in Date
  PROVE  /\ Days(d) \in Int /\ Days(d) = DayNumber(d.year, d.mon, d.mday)
         /\ SecondsSince1970(d) = DAY * Days(d) + SecondOfDay(d)
<1>1. PICK y \in Year, m \in Month, k \in MonthDay : y = d.year /\ m = d.mon /\ k = d.mday
  BY DateScalars, Zenon
<1>2. Leaps(y) \in Nat /\ Before(m, y) \in Nat
  <2>1. y \in Nat /\ y >= 1970
    BY SMT DEF Year
  <2>2. Leaps(y) \in Nat
    BY <2>1, LeapsGrow, SMT
  <2>3. QED
    BY <2>2, BeforeIs, Zenon
<1>3. DayOfYear(d) = Before(m, y) + k
  BY <1>1, DayOfYearIs, Zenon
<1>4. DaysOfYears(y) = 365 * (y - 1970) + Leaps(y)
  BY SMT DEF DaysOfYears, Leaps
<1>5. Days(d) = DaysOfYears(y) + (Before(m, y) + k) - 1
  BY <1>1, <1>3, Zenon DEF Days
<1>6. Days(d) \in Int /\ Days(d) = DayNumber(y, m, k)
  BY <1>2, <1>4, <1>5, SMT DEF Year, MonthDay, DayNumber
<1>7. SecondsSince1970(d) = DAY * Days(d) + SecondOfDay(d)
  BY Zenon DEF SecondsSince1970, Days
<1>8. QED
  BY <1>1, <1>6, <1>7, Zenon

\* a time of day from its parts, and its parts
LEMMA SecondsFromParts ==
  ASSUME NEW s \in Second, NEW m \in Second, NEW h \in Hour,
         NEW n, n = s + 60 * m + 3600 * h
  PROVE  n \in Nat /\ n < DAY /\ n % 60 = s /\ (n \div 60) % 60 = m /\ n \div 3600 = h
<1>1. s \in Nat /\ m \in Nat /\ h \in Nat /\ s <= 59 /\ m <= 59 /\ h <= 23
  BY SMT DEF Second, Hour
<1>2. n \in Nat /\ n <= 86399
  BY <1>1, SMT
<1>3. n < DAY
  BY <1>2, SMT DEF DAY
<1>4. n % 60 = s
  BY <1>1, SMT
<1>5. PICK k \in Nat : k = m + 60 * h
  BY <1>1, SMT
<1>6. n = 60 * k + s
  BY <1>1, <1>5, SMT
<1>7. n \div 60 = k
  BY <1>1, <1>6, SMT
<1>8. k % 60 = m
  BY <1>1, <1>5, SMT
<1>9. n \div 3600 = h
  <2>1. PICK r \in Nat : r = s + 60 * m
    BY <1>1, SMT
  <2>2. r <= 3599 /\ n = 3600 * h + r
    BY <1>1, <2>1, SMT
  <2>3. QED
    BY <1>1, <2>2, SMT
<1>10. (n \div 60) % 60 = m
  BY <1>7, <1>8, SMT
<1>11. QED
  BY <1>2, <1>3, <1>4, <1>9, <1>10, SMT

\* seconds taken apart into seconds, minutes and hours
LEMMA HoursOfSeconds ==
  ASSUME NEW n \in Nat
  PROVE  /\ n % 60 \in 0 .. 59 /\ (n \div 60) % 60 \in 0 .. 59 /\ n \div 3600 \in Nat
         /\ (n % 60) + 60 * ((n \div 60) % 60) + 3600 * (n \div 3600) = n
<1>1. PICK a \in Nat : a = n \div 60
  BY SMT
<1>2. PICK b \in 0 .. 59 : b = n % 60
  BY SMT
<1>3. n = 60 * a + b
  BY <1>1, <1>2, SMT
<1>4. PICK h \in Nat : h = a \div 60
  BY SMT
<1>5. PICK m \in 0 .. 59 : m = a % 60
  BY SMT
<1>6. a = 60 * h + m
  BY <1>4, <1>5, SMT
<1>7. n = 3600 * h + 60 * m + b
  BY <1>3, <1>6, SMT
<1>8. n \div 3600 = h
  BY <1>7, SMT
<1>9. QED
  BY <1>1, <1>2, <1>4, <1>5, <1>7, <1>8, SMT

\* the same within a day
LEMMA PartsOfSeconds ==
  ASSUME NEW n \in Nat, n < DAY
  PROVE  /\ n % 60 \in Second /\ (n \div 60) % 60 \in Second /\ n \div 3600 \in Hour
         /\ (n % 60) + 60 * ((n \div 60) % 60) + 3600 * (n \div 3600) = n
<1>1. n <= 86399
  BY SMT DEF DAY
<1>2. PICK b \in 0 .. 59, m \in 0 .. 59, h \in Nat :
        b = n % 60 /\ m = (n \div 60) % 60 /\ h = n \div 3600
  BY HoursOfSeconds, SMT
<1>3. b + 60 * m + 3600 * h = n
  BY <1>2, HoursOfSeconds, SMT
<1>4. h <= 23
  BY <1>1, <1>3, SMT
<1>5. QED
  BY <1>2, <1>3, <1>4, SMT DEF Second, Hour

\* the time of day of a date, and its parts
LEMMA SecondOfDayIs ==
  ASSUME NEW d \in Date
  PROVE  /\ SecondOfDay(d) \in Nat /\ SecondOfDay(d) < DAY
         /\ SecondOfDay(d) % 60 = d.sec
         /\ (SecondOfDay(d) \div 60) % 60 = d.min /\ SecondOfDay(d) \div 3600 = d.hour
<1>1. PICK s \in Second, m \in Second, h \in Hour : s = d.sec /\ m = d.min /\ h = d.hour
  BY DateFields, Zenon
<1>2. PICK n : n = s + 60 * m + 3600 * h
  OBVIOUS
<1>3. n \in Nat /\ n < DAY /\ n % 60 = s /\ (n \div 60) % 60 = m /\ n \div 3600 = h
  BY <1>2, SecondsFromParts, SMT
<1>4. SecondOfDay(d) = n
  BY <1>1, <1>2, SMT DEF SecondOfDay
<1>5. QED
  BY <1>1, <1>3, <1>4, SMT

\* another time of the same day
LEMMA AtSecondIs ==
  ASSUME NEW d \in Date, NEW n \in Nat, n < DAY, NEW t, t = AtSecond(d, n)
  PROVE  /\ t \in Date /\ t.sec = n % 60
         /\ t.wday = d.wday /\ t.mday = d.mday /\ t.mon = d.mon /\ t.year = d.year
         /\ SecondOfDay(t) = n /\ Days(t) = Days(d)
<1>1. PICK s \in Second : s = n % 60
  BY PartsOfSeconds
<1>2. PICK m \in Second : m = (n \div 60) % 60
  BY PartsOfSeconds
<1>3. PICK h \in Hour : h = n \div 3600
  BY PartsOfSeconds
<1>4. t = [d EXCEPT !.sec = s, !.min = m, !.hour = h]
  BY <1>1, <1>2, <1>3, SMT DEF AtSecond
<1>5. t \in Calendar
  BY <1>4, DateFields DEF Calendar
<1>6. /\ t.sec = s /\ t.min = m /\ t.hour = h
      /\ t.wday = d.wday /\ t.mday = d.mday /\ t.mon = d.mon /\ t.year = d.year
  BY <1>4, DateFields DEF Calendar
<1>7. t \in Date
  BY <1>5, <1>6, DateFields, Zenon DEF Date
<1>8. SecondOfDay(t) = n
  <2>1. SecondOfDay(t) = s + 60 * m + 3600 * h
    BY <1>6, SMT DEF SecondOfDay
  <2>2. s + 60 * m + 3600 * h = n
    BY <1>1, <1>2, <1>3, PartsOfSeconds, SMT
  <2>3. QED
    BY <2>1, <2>2, Zenon
<1>9. Days(t) = Days(d)
  BY <1>6, <1>7, DaysAre, SMT
<1>10. QED
  BY <1>1, <1>6, <1>7, <1>8, <1>9, Zenon

\* a day begins at second 0 and ends in a second 59
LEMMA DayBounds ==
  0 \in Nat /\ 0 < DAY /\ 0 % 60 = 0 /\ DAY - 1 \in Nat /\ (DAY - 1) % 60 = 59 /\ DAY \in Nat
BY SMT DEF DAY

\* a day of a month of a year and the next
IsNextDay(y, m, k, y1, m1, k1) ==
  /\ k1 = IF k = LastDay(m, y) THEN 1 ELSE k + 1
  /\ m1 = IF k = LastDay(m, y) THEN (m % 12) + 1 ELSE m
  /\ y1 = IF k = LastDay(m, y) /\ m = 12 THEN y + 1 ELSE y

\* the next day has the next number, also over the end of a month or a year
LEMMA NextDayOfYear ==
  ASSUME NEW y \in Year, NEW m \in Month, NEW k \in MonthDay,
         NEW y1 \in Year, NEW m1 \in Month, NEW k1 \in MonthDay,
         IsNextDay(y, m, k, y1, m1, k1)
  PROVE  DayNumber(y1, m1, k1) = DayNumber(y, m, k) + 1
<1>1. /\ y \in Nat /\ y >= 1970 /\ y1 \in Nat /\ y1 >= 1970
      /\ m \in 1 .. 12 /\ m1 \in 1 .. 12 /\ k \in Nat /\ k1 \in Nat
  BY SMT DEF Year, Month, MonthDay
<1>2. PICK l \in Nat : l = Leaps(y)
  BY <1>1, LeapsGrow, SMT
<1>3. PICK b \in Nat : b = Before(m, y)
  BY BeforeIs, Zenon
<1>4. DayNumber(y, m, k) = 365 * (y - 1970) + l + b + k - 1
  BY <1>2, <1>3, SMT DEF DayNumber
<1>5. CASE k # LastDay(m, y)
  <2>1. m1 = m /\ y1 = y /\ k1 = k + 1
    BY <1>5, Zenon DEF IsNextDay
  <2>2. DayNumber(y, m, k + 1) = 365 * (y - 1970) + l + b + (k + 1) - 1
    BY <1>2, <1>3, SMT DEF DayNumber
  <2>3. QED
    BY <1>1, <1>4, <2>1, <2>2, SMT
<1>6. CASE k = LastDay(m, y) /\ m # 12
  <2>1. m1 = (m % 12) + 1 /\ y1 = y /\ k1 = 1
    BY <1>6, Zenon DEF IsNextDay
  <2>2. m1 = m + 1
    BY <1>1, <1>6, <2>1, SMT
  <2>3. Before(m1, y) = b + k
    BY <1>3, <1>6, <2>2, BeforeNext, Zenon
  <2>4. DayNumber(y, m1, 1) = 365 * (y - 1970) + l + (b + k) + 1 - 1
    BY <1>2, <2>3, SMT DEF DayNumber
  <2>5. QED
    BY <1>1, <1>4, <2>1, <2>4, SMT
<1>7. CASE k = LastDay(m, y) /\ m = 12
  <2>1. m1 = (m % 12) + 1 /\ y1 = y + 1 /\ k1 = 1
    BY <1>7, Zenon DEF IsNextDay
  <2>2. m1 = 1
    BY <1>7, <2>1, SMT
  <2>3. Before(1, y1) = 0
    BY BeforeEnds, Zenon
  <2>4. b + k = YearDays(y)
    BY <1>3, <1>7, BeforeEnds, Zenon
  <2>5. Leaps(y1) = l + IF IsLeap(y) THEN 1 ELSE 0
    BY <1>1, <1>2, <2>1, LeapsGrow, SMT
  <2>6. PICK q \in {0, 1} : q = IF IsLeap(y) THEN 1 ELSE 0
    OBVIOUS
  <2>7. b + k = 365 + q /\ Leaps(y1) = l + q
    BY <2>4, <2>5, <2>6, SMT DEF YearDays
  <2>8. DayNumber(y1, 1, 1) = 365 * ((y + 1) - 1970) + (l + q) + 0 + 1 - 1
    BY <2>1, <2>3, <2>7, SMT DEF DayNumber
  <2>9. QED
    BY <1>1, <1>4, <2>1, <2>2, <2>7, <2>8, SMT
<1>8. QED
  BY <1>5, <1>6, <1>7, Zenon

\* midnight begins the next day
LEMMA TomorrowIs ==
  ASSUME NEW d \in Date, NEW t, t = Tomorrow(d)
  PROVE  /\ t \in Date /\ t.sec = 0 /\ t.year >= d.year
         /\ SecondOfDay(t) = 0 /\ Days(t) = Days(d) + 1
<1> DEFINE last == d.mday = LastDay(d.mon, d.year)
<1>1. PICK e : e = AtSecond(d, 0)
  OBVIOUS
<1>2. /\ e \in Date /\ e.sec = 0
      /\ e.wday = d.wday /\ e.mday = d.mday /\ e.mon = d.mon /\ e.year = d.year
      /\ SecondOfDay(e) = 0 /\ Days(e) = Days(d)
  BY <1>1, AtSecondIs, DayBounds, SMT
<1>3. /\ d.wday \in 1 .. 7 /\ d.mday \in 1 .. 31 /\ d.mon \in 1 .. 12
      /\ d.year \in Nat /\ d.year >= 1970 /\ d.mday <= LastDay(d.mon, d.year)
      /\ LastDay(d.mon, d.year) \in 28 .. 31
  BY DateFields, SMT DEF WeekDay, MonthDay, Month, Year, LastDay
<1>4. PICK w \in WeekDay : w = (d.wday % 7) + 1
  BY <1>3, SMT DEF WeekDay
<1>5. PICK md \in MonthDay : md = IF last THEN 1 ELSE d.mday + 1
  BY <1>3, SMT DEF MonthDay
<1>6. PICK mo \in Month : mo = IF last THEN (d.mon % 12) + 1 ELSE d.mon
  BY <1>3, SMT DEF Month
<1>7. PICK y \in Year : y = IF last /\ d.mon = 12 THEN d.year + 1 ELSE d.year
  BY <1>3, SMT DEF Year
<1>8. t = [e EXCEPT !.wday = w, !.mday = md, !.mon = mo, !.year = y]
  BY <1>1, <1>2, <1>4, <1>5, <1>6, <1>7 DEF Tomorrow
<1>9. t \in Calendar
  BY <1>2, <1>8, DateFields DEF Calendar
<1>10. /\ t.sec = e.sec /\ t.min = e.min /\ t.hour = e.hour
       /\ t.wday = w /\ t.mday = md /\ t.mon = mo /\ t.year = y
  BY <1>2, <1>8, DateFields DEF Calendar
<1>11. md <= LastDay(mo, y)
  BY <1>3, <1>5, <1>6, <1>7, SMT DEF LastDay
<1>12. t \in Date
  BY <1>9, <1>10, <1>11, Zenon DEF Date
<1>13. SecondOfDay(t) = 0
  BY <1>2, <1>10, SMT DEF SecondOfDay
<1>14. Days(t) = Days(d) + 1
  <2>1. PICK y0 \in Year, m0 \in Month, k0 \in MonthDay :
          y0 = d.year /\ m0 = d.mon /\ k0 = d.mday
    BY DateScalars, Zenon
  <2>2. Days(t) = DayNumber(y, mo, md)
    BY <1>10, <1>12, DaysAre, Zenon
  <2>3. Days(d) = DayNumber(y0, m0, k0)
    BY <2>1, DaysAre, Zenon
  <2>4. IsNextDay(y0, m0, k0, y, mo, md)
    BY <1>5, <1>6, <1>7, <2>1, Zenon DEF IsNextDay
  <2>5. DayNumber(y, mo, md) = DayNumber(y0, m0, k0) + 1
    BY <2>4, NextDayOfYear, SMT
  <2>6. QED
    BY <2>2, <2>3, <2>5, Zenon
<1>15. y >= d.year
  BY <1>3, <1>7, SMT
<1>16. QED
  BY <1>2, <1>10, <1>12, <1>13, <1>14, <1>15, Zenon

\* the chip's next second is one second later
LEMMA NextSecondIs ==
  ASSUME NEW d \in Date, NEW t, t = NextSecond(d)
  PROVE  /\ t \in Date /\ t.sec = (d.sec + 1) % 60 /\ t.year >= d.year
         /\ SecondsSince1970(t) = SecondsSince1970(d) + 1
<1>1. PICK n \in Nat : n = SecondOfDay(d)
  BY SecondOfDayIs, SMT
<1>2. n < DAY /\ n % 60 = d.sec
  BY <1>1, SecondOfDayIs, SMT
<1>3. SecondsSince1970(d) = DAY * Days(d) + n /\ Days(d) \in Int
  BY <1>1, DaysAre, SMT
<1>4. CASE n = DAY - 1
  <2>1. t = Tomorrow(d)
    BY <1>1, <1>4, Zenon DEF NextSecond
  <2>2. /\ t \in Date /\ t.sec = 0 /\ t.year >= d.year
        /\ SecondOfDay(t) = 0 /\ Days(t) = Days(d) + 1
    BY <2>1, TomorrowIs, Zenon
  <2>3. SecondsSince1970(t) = DAY * Days(t) + SecondOfDay(t)
    BY <2>2, DaysAre, SMT
  <2>4. SecondsSince1970(t) = SecondsSince1970(d) + 1
    BY <1>3, <1>4, <2>2, <2>3, SMT DEF DAY
  <2>5. (d.sec + 1) % 60 = 0
    BY <1>2, <1>4, DayBounds, SMT
  <2>6. QED
    BY <2>2, <2>4, <2>5, Zenon
<1>5. CASE n # DAY - 1
  <2>1. t = AtSecond(d, n + 1)
    BY <1>1, <1>5, Zenon DEF NextSecond
  <2>2. n + 1 \in Nat /\ n + 1 < DAY
    BY <1>2, <1>5, SMT DEF DAY
  <2>3. /\ t \in Date /\ t.sec = (n + 1) % 60 /\ t.year = d.year
        /\ SecondOfDay(t) = n + 1 /\ Days(t) = Days(d)
    BY <2>1, <2>2, AtSecondIs, Zenon
  <2>4. SecondsSince1970(t) = DAY * Days(t) + SecondOfDay(t)
    BY <2>3, DaysAre, SMT
  <2>5. SecondsSince1970(t) = SecondsSince1970(d) + 1
    BY <1>3, <2>3, <2>4, SMT DEF DAY
  <2>6. (n + 1) % 60 = (d.sec + 1) % 60
    BY <1>2, SMT
  <2>7. t.year >= d.year
    <3>1. d.year \in Nat
      BY DateFields DEF Year
    <3>2. QED
      BY <2>3, <3>1, SMT
  <2>8. QED
    BY <2>3, <2>5, <2>6, <2>7, Zenon
<1>6. QED
  BY <1>4, <1>5, Zenon

-----------------------------------------------------------------------------
(* What the code computes of a date.                                         *)

\* the time t shows the date d, but for the century
Shows(t, d) ==
  /\ t.sec = d.sec /\ t.min = d.min /\ t.hour = d.hour
  /\ t.mday = d.mday /\ t.mon = d.mon /\ t.year = d.year % 100

\* the last year whose two digits the code takes for this year
LastYear == 2069

\* mktime of a time that shows a date, by that year
LEMMA MktimeIs ==
  ASSUME NEW d \in Date, d.year <= LastYear, NEW t, Shows(t, d)
  PROVE  mktime(t) = SecondsSince1970(d)
<1>1. PICK y \in Year, m \in Month, k \in MonthDay : y = d.year /\ m = d.mon /\ k = d.mday
  BY DateScalars, Zenon
<1>2. y \in Nat /\ y >= 1970 /\ y <= 2069
  BY <1>1, SMT DEF Year, LastYear
<1>3. m \in 1 .. 12 /\ k \in Nat
  BY SMT DEF Month, MonthDay
<1>4. t.mon = m /\ t.mday = k /\ t.year = y % 100
  BY <1>1, SMT DEF Shows
<1>5. PICK a \in Nat : a = y - 1970
  BY <1>2, SMT
<1>6. YearsSince1970(t) = a
  <2>1. CASE y < 2000
    <3>1. y % 100 = y - 1900
      BY <1>2, <2>1, SMT
    <3>2. QED
      BY <1>2, <1>4, <1>5, <2>1, <3>1, SMT DEF YearsSince1970
  <2>2. CASE y >= 2000
    <3>1. y % 100 = y - 2000
      BY <1>2, <2>2, SMT
    <3>2. QED
      BY <1>2, <1>4, <1>5, <2>2, <3>1, SMT DEF YearsSince1970
  <2>3. QED
    BY <1>2, <2>1, <2>2, SMT
<1>7. IsLeap(y) <=> (a + 2) % 4 = 0
  <2>1. IsLeap(y) <=> y % 4 = 0
    BY <1>2, SMT DEF IsLeap
  <2>2. QED
    BY <1>2, <1>5, <2>1, SMT
<1>8. FebruaryIsShort(t) <=> m > 2 /\ ~ IsLeap(y)
  BY <1>4, <1>6, <1>7, SMT DEF FebruaryIsShort
<1>9. PICK c \in 0 .. 1 : c = IF m > 2 /\ ~ IsLeap(y) THEN 1 ELSE 0
  OBVIOUS
<1>10. PICK b \in Nat : b = month[m]
  <2>1. \/ m = 1 \/ m = 2 \/ m = 3 \/ m = 4 \/ m = 5 \/ m = 6 \/ m = 7 \/ m = 8
        \/ m = 9 \/ m = 10 \/ m = 11 \/ m = 12
    BY <1>3
  <2>2. QED
    BY <2>1, MonthTable
<1>11. Before(m, y) = b - c
  BY <1>9, <1>10 DEF Before
<1>12. PICK q \in Nat : q = (a + 1) \div 4 /\ Leaps(y) = q
  BY <1>2, <1>5, LeapsAreQuarters, SMT
<1>13. PICK n \in Nat : n = SecondOfDay(d) /\ n = 3600 * t.hour + 60 * t.min + t.sec
  <2>1. PICK i \in Second, j \in Second, h \in Hour : i = d.sec /\ j = d.min /\ h = d.hour
    BY DateFields, Zenon
  <2>2. SecondOfDay(d) = i + 60 * j + 3600 * h
    BY <2>1, SMT DEF SecondOfDay
  <2>3. t.sec = i /\ t.min = j /\ t.hour = h
    BY <2>1, SMT DEF Shows
  <2>4. QED
    BY <2>2, <2>3, SMT DEF Second, Hour
<1>14. t.sec \in Nat /\ t.min \in Nat /\ t.hour \in Nat
  <2>1. PICK i \in Second, j \in Second, h \in Hour : i = d.sec /\ j = d.min /\ h = d.hour
    BY DateFields, Zenon
  <2>2. QED
    BY <2>1, SMT DEF Shows, Second, Hour
<1>15. SecondsSince1970(d) = 86400 * (365 * a + q + (b - c) + k - 1) + n
  <2>1. Days(d) = DayNumber(y, m, k)
    BY <1>1, DaysAre, Zenon
  <2>2. DayNumber(y, m, k) = 365 * a + q + (b - c) + k - 1
    BY <1>5, <1>11, <1>12, SMT DEF DayNumber
  <2>3. SecondsSince1970(d) = DAY * Days(d) + SecondOfDay(d)
    BY DaysAre, Zenon
  <2>4. QED
    <3>1. PICK e \in Int : e = 365 * a + q + (b - c) + k - 1
      BY <1>3, SMT
    <3>2. Days(d) = e
      BY <2>1, <2>2, <3>1, SMT
    <3>3. SecondOfDay(d) = n
      BY <1>13, SMT
    <3>4. SecondsSince1970(d) = DAY * e + n
      BY <2>3, <3>2, <3>3, Zenon
    <3>5. QED
      BY <1>3, <3>1, <3>4, SMT DEF DAY
<1>16. mktime(t) = 365 * 86400 * a + 86400 * q + b * 86400 - 86400 * c + 86400 * (k - 1) + n
  <2>1. PICK e : e = IF FebruaryIsShort(t) THEN DAY ELSE 0
    OBVIOUS
  <2>2. e = 86400 * c
    BY <1>8, <1>9, <2>1, SMT DEF DAY
  <2>3. mktime(t) = 365 * 86400 * a + 86400 * q + b * 86400 - e + 86400 * (k - 1)
                      + 3600 * t.hour + 60 * t.min + t.sec
    BY <1>4, <1>6, <1>10, <1>12, <2>1, SMT DEF mktime, DAY
  <2>4. QED
    BY <1>3, <1>13, <1>14, <2>2, <2>3, SMT
<1>17. mktime(t) = SecondsSince1970(d)
  BY <1>3, <1>15, <1>16, SMT
<1>18. QED
  BY <1>17, SMT

\* AlarmTime is the time of day secs seconds later
LEMMA AlarmTimeIs ==
  ASSUME NEW d \in Date, NEW t, Shows(t, d), NEW secs \in Nat, secs <= DAY,
         NEW a, a = AlarmTime(t, secs)
  PROVE  /\ a.sec \in Second /\ a.min \in Second /\ a.hour \in Hour
         /\ SecondOfDay(a) = (SecondOfDay(d) + secs) % DAY
<1>1. PICK i \in Second, j \in Second, h \in Hour : i = d.sec /\ j = d.min /\ h = d.hour
  BY DateFields, Zenon
<1>2. t.sec = i /\ t.min = j /\ t.hour = h
  BY <1>1, Zenon DEF Shows
<1>3. i \in 0 .. 59 /\ j \in 0 .. 59 /\ h \in 0 .. 23
  BY DEF Second, Hour
<1>4. PICK e \in 0 .. 59, f \in 0 .. 59, g \in Nat :
        e = secs % 60 /\ f = (secs \div 60) % 60 /\ g = secs \div 3600
  BY HoursOfSeconds, SMT
<1>5. secs = e + 60 * f + 3600 * g
  <2>1. (secs % 60) + 60 * ((secs \div 60) % 60) + 3600 * (secs \div 3600) = secs
    BY HoursOfSeconds, SMT
  <2>2. QED
    BY <1>4, <2>1, SMT
<1>6. PICK x \in Nat : x = i + e
  BY <1>3, SMT
<1>7. PICK c \in 0 .. 1 : c = IF x >= 60 THEN 1 ELSE 0
  OBVIOUS
<1>8. PICK v \in Nat : v = j + c + f
  BY <1>3, SMT
<1>9. PICK b \in 0 .. 1 : b = IF v >= 60 THEN 1 ELSE 0
  OBVIOUS
<1>10. PICK u \in Nat : u = h + b + g
  BY <1>3, SMT
<1>11. a.sec = x % 60
  BY <1>2, <1>4, <1>6, SMT DEF AlarmTime
<1>12. a.min = v % 60
  BY <1>2, <1>4, <1>6, <1>7, <1>8, SMT DEF AlarmTime
<1>13. a.hour = u % 24
  BY <1>2, <1>4, <1>6, <1>7, <1>8, <1>9, <1>10, SMT DEF AlarmTime
<1>14. PICK sc \in 0 .. 59 : sc = x % 60
  BY SMT
<1>15. x = 60 * c + sc
  <2>1. x <= 119
    BY <1>3, <1>6, SMT
  <2>2. CASE x >= 60
    <3>1. x % 60 = x - 60
      BY <2>1, <2>2, SMT
    <3>2. QED
      BY <1>7, <1>14, <2>2, <3>1, SMT
  <2>3. CASE x < 60
    <3>1. x % 60 = x
      BY <2>3, SMT
    <3>2. QED
      BY <1>7, <1>14, <2>3, <3>1, SMT
  <2>4. QED
    BY <2>2, <2>3, SMT
<1>16. PICK mi \in 0 .. 59 : mi = v % 60
  BY SMT
<1>17. v = 60 * b + mi
  <2>1. v <= 119
    BY <1>3, <1>8, SMT
  <2>2. CASE v >= 60
    <3>1. v % 60 = v - 60
      BY <2>1, <2>2, SMT
    <3>2. QED
      BY <1>9, <1>16, <2>2, <3>1, SMT
  <2>3. CASE v < 60
    <3>1. v % 60 = v
      BY <2>3, SMT
    <3>2. QED
      BY <1>9, <1>16, <2>3, <3>1, SMT
  <2>4. QED
    BY <2>2, <2>3, SMT
<1>18. PICK ho \in 0 .. 23 : ho = u % 24
  BY SMT
<1>19. PICK z \in Nat : u = 24 * z + ho
  <2>1. PICK z \in Nat : z = u \div 24
    BY SMT
  <2>2. QED
    BY <1>18, <2>1, SMT
<1>20. PICK n \in Nat : n = i + 60 * j + 3600 * h
  BY <1>3, SMT
<1>21. PICK r \in Nat : r = sc + 60 * mi + 3600 * ho
  BY SMT
<1>22. r < 86400
  BY <1>21, SMT
<1>23. n + secs = 86400 * z + r
  <2>1. n + secs = x + 60 * (j + f) + 3600 * (h + g)
    BY <1>3, <1>5, <1>6, <1>20, SMT
  <2>2. x + 60 * (j + f) = sc + 60 * v
    BY <1>3, <1>8, <1>15, SMT
  <2>3. 60 * v + 3600 * (h + g) = 60 * mi + 3600 * u
    BY <1>3, <1>10, <1>17, SMT
  <2>4. 3600 * u = 86400 * z + 3600 * ho
    BY <1>19, SMT
  <2>5. QED
    BY <1>3, <1>21, <2>1, <2>2, <2>3, <2>4, SMT
<1>24. (n + secs) % DAY = r
  BY <1>22, <1>23, SMT DEF DAY
<1>25. SecondOfDay(d) = n
  BY <1>1, <1>20, SMT DEF SecondOfDay
<1>26. SecondOfDay(a) = r
  BY <1>11, <1>12, <1>13, <1>14, <1>16, <1>18, <1>21, SMT DEF SecondOfDay
<1>27. a.sec \in Second /\ a.min \in Second /\ a.hour \in Hour
  BY <1>11, <1>12, <1>13, <1>14, <1>16, <1>18, SMT DEF Second, Hour
<1>28. QED
  BY <1>24, <1>25, <1>26, <1>27, SMT

-----------------------------------------------------------------------------
(* The invariant.                                                            *)

Free == {"idle", "clock"}
Read == {"sec", "min", "hour", "wday", "mday", "mon", "year", "century", "again"}
Write == {"write_hour", "write_minute", "write_second", "write_B", "read_C"}
AlarmRegisters == [sec : Nat, min : Nat, hour : Nat]
TimeRegisters == [sec : Nat, min : Nat, hour : Nat, wday : Nat, mday : Nat, mon : Nat,
                  year : Nat, century : Nat]
Request == [what : {"none", "time_init", "set_alarm"}, secs : Nat]

Types ==
  /\ now \in Date /\ alarm \in AlarmRegisters /\ B_alarm \in BOOLEAN /\ flag \in BOOLEAN
  /\ pc \in Free \cup {"handler", "handler_C"} \cup Read \cup {"convert"} \cup Write
  /\ tm \in TimeRegisters /\ request \in Request
  /\ since \in Nat /\ late \in BOOLEAN

Requests ==
  /\ request.what = "set_alarm" => request.secs >= 1 /\ request.secs <= DAY
  /\ pc \in Write => request.what = "set_alarm"
  /\ pc \notin Free => request.what # "none" /\ since <= MaxBusy

Controllers ==
  /\ serving = IF pc = "clock" THEN {IRQ_CLOCK}
               ELSE IF pc = "handler" THEN {IRQ_CASCADE, IRQ_RTC} ELSE {}
  /\ IRQ_RTC \in unmasked => IRQ_CASCADE \in unmasked

\* the registers read so far are what the chip shows, or its seconds have gone on
IsCurrent(i) == \A j \in 1 .. i - 1 : tm[Order[j]] = Registers(now)[Order[j]]
Lags(k) == tm.sec = Digits((now.sec - k) % 60)
Reading ==
  \A i \in 2 .. 9 : pc = Order[i] => IsCurrent(i) \/ \E k \in 1 .. since : Lags(k)

DateOf(t) == [sec |-> t.sec, min |-> t.min, hour |-> t.hour, wday |-> t.wday,
             mday |-> t.mday, mon |-> t.mon, year |-> 100 * t.century + t.year]
Plain(t) == [r \in DOMAIN t |-> bcd_to_bin(t[r])]
IsWhole(t, d, s) ==
  /\ DateOf(t) \in Date /\ t.year <= 99 /\ DateOf(t).year <= d.year
  /\ SecondsSince1970(DateOf(t)) + s = SecondsSince1970(d)
HasRead ==
  /\ pc = "convert" => IsWhole(Plain(tm), now, since)
  /\ pc \in Write \/ (pc \in Free /\ request.what # "none") => IsWhole(tm, now, since)

Started == pc \in Free /\ request.what = "time_init" => startup_time = mktime(tm)

\* the alarm registers are those of the alarm set last, as far as they are written
IsSet == pc \in Free /\ request.what = "set_alarm"
Target == AlarmTime(tm, request.secs)
Registered ==
  /\ IsSet \/ pc \in {"write_minute", "write_second", "write_B", "read_C"} =>
       alarm.hour = bin_to_bcd(Target.hour)
  /\ IsSet \/ pc \in {"write_second", "write_B", "read_C"} => alarm.min = bin_to_bcd(Target.min)
  /\ IsSet \/ pc \in {"write_B", "read_C"} => alarm.sec = bin_to_bcd(Target.sec)
  /\ IsSet \/ pc = "read_C" => B_alarm

Rings ==
  IsSet /\ ~ late => (flag <=> since >= request.secs) /\ (IRQ_RTC \in requested <=> flag)

IInv == /\ Types /\ Requests /\ Controllers /\ Reading /\ HasRead
        /\ Started /\ Registered /\ Rings

-----------------------------------------------------------------------------
(* Time passes.                                                              *)

\* SecondsSince1970 is a number
LEMMA SecondsSinceAreInt ==
  ASSUME NEW d \in Date
  PROVE  SecondsSince1970(d) \in Int
<1>1. SecondsSince1970(d) = DAY * Days(d) + SecondOfDay(d) /\ Days(d) \in Int
  BY DaysAre, Zenon
<1>2. SecondOfDay(d) \in Int
  BY SecondOfDayIs, SMT
<1>3. QED
  BY <1>1, <1>2, SMT DEF DAY

\* a time that is s seconds old is s + k seconds old after k more
LEMMA WholeMoves ==
  ASSUME NEW t, NEW d \in Date, NEW e \in Date, NEW s \in Nat, NEW k \in Nat,
         IsWhole(t, d, s), e.year >= d.year, SecondsSince1970(e) = SecondsSince1970(d) + k
  PROVE  IsWhole(t, e, s + k)
<1>1. PICK r \in Date : r = DateOf(t)
  BY Zenon DEF IsWhole
<1>2. t.year <= 99 /\ r.year <= d.year /\ SecondsSince1970(r) + s = SecondsSince1970(d)
  BY <1>1, Zenon DEF IsWhole
<1>3. r.year <= e.year
  <2>1. r.year \in Nat /\ d.year \in Nat /\ e.year \in Nat
    BY DateFields, SMT DEF Year
  <2>2. QED
    BY <1>2, <2>1, SMT
<1>4. SecondsSince1970(r) + (s + k) = SecondsSince1970(e)
  BY <1>2, SecondsSinceAreInt, SMT
<1>5. QED
  BY <1>1, <1>2, <1>3, <1>4, Zenon DEF IsWhole

\* a time that is whole shows its date
LEMMA WholeShows ==
  ASSUME NEW t \in TimeRegisters, NEW d, NEW s, IsWhole(t, d, s)
  PROVE  Shows(t, DateOf(t))
<1>1. t.year \in Nat /\ t.century \in Nat /\ t.year <= 99
  BY DEF TimeRegisters, IsWhole
<1>2. (100 * t.century + t.year) % 100 = t.year
  BY <1>1, SMT
<1>3. QED
  BY <1>2, Zenon DEF Shows, DateOf

\* the alarm that is set is the time of day the request falls due at
LEMMA SetAlarm ==
  ASSUME Types, Requests, HasRead, Registered, IsSet
  PROVE  \E d \in Date : \E a :
           /\ SecondsSince1970(d) + since = SecondsSince1970(now)
           /\ a.sec \in Second /\ a.min \in Second /\ a.hour \in Hour
           /\ SecondOfDay(a) = (SecondOfDay(d) + request.secs) % DAY
           /\ alarm = [sec |-> Digits(a.sec), min |-> Digits(a.min), hour |-> Digits(a.hour)]
<1>1. IsWhole(tm, now, since)
  BY Zenon DEF IsSet, HasRead
<1>2. PICK d \in Date : d = DateOf(tm)
  BY <1>1, Zenon DEF IsWhole
<1>3. Shows(tm, d)
  BY <1>1, <1>2, WholeShows, Zenon DEF Types
<1>4. request.secs \in Nat /\ request.secs <= DAY
  BY DEF Types, Request, Requests, IsSet
<1>5. PICK a : a = Target
  OBVIOUS
<1>6. /\ a.sec \in Second /\ a.min \in Second /\ a.hour \in Hour
      /\ SecondOfDay(a) = (SecondOfDay(d) + request.secs) % DAY
  BY <1>3, <1>4, <1>5, AlarmTimeIs, Zenon DEF Target
<1>7. a.sec \in Nat /\ a.min \in Nat /\ a.hour \in Nat
  BY <1>6, SMT DEF Second, Hour
<1>8. /\ alarm.sec = Digits(a.sec) /\ alarm.min = Digits(a.min) /\ alarm.hour = Digits(a.hour)
  BY <1>5, <1>7, BcdIsInverse, Zenon DEF Registered
<1>9. alarm = [sec |-> Digits(a.sec), min |-> Digits(a.min), hour |-> Digits(a.hour)]
  BY <1>8 DEF Types, AlarmRegisters
<1>10. SecondsSince1970(d) + since = SecondsSince1970(now)
  BY <1>1, <1>2, Zenon DEF IsWhole
<1>11. QED
  BY <1>6, <1>9, <1>10, Zenon

\* the time passed at once ends before midnight
LEMMA QuietIs ==
  ASSUME Types, Requests, HasRead, Registered, MayWait
  PROVE  /\ Quiet \in Nat /\ Quiet > 0
         /\ SecondOfDay(now) + Quiet \in Nat /\ SecondOfDay(now) + Quiet < DAY
<1>1. IsSet
  BY Zenon DEF IsSet, MayWait, Free
<1>2. PICK a : /\ a.sec \in Second /\ a.min \in Second /\ a.hour \in Hour
               /\ alarm = [sec |-> Digits(a.sec), min |-> Digits(a.min), hour |-> Digits(a.hour)]
  BY <1>1, SetAlarm, Zenon
<1>3. PICK b : b = [r \in DOMAIN alarm |-> bcd_to_bin(alarm[r])]
  OBVIOUS
<1>4. b.sec = a.sec /\ b.min = a.min /\ b.hour = a.hour
  <2>1. a.sec \in Nat /\ a.min \in Nat /\ a.hour \in Nat
    BY <1>2, SMT DEF Second, Hour
  <2>2. b.sec = bcd_to_bin(Digits(a.sec)) /\ b.min = bcd_to_bin(Digits(a.min))
        /\ b.hour = bcd_to_bin(Digits(a.hour))
    BY <1>2, <1>3
  <2>3. QED
    BY <2>1, <2>2, BcdIsInverse, Zenon
<1>5. PICK i \in Second, j \in Second, h \in Hour : i = b.sec /\ j = b.min /\ h = b.hour
  BY <1>2, <1>4, Zenon
<1>6. PICK due : due = i + 60 * j + 3600 * h
  OBVIOUS
<1>7. due \in Nat /\ due < DAY
  BY <1>6, SecondsFromParts, SMT
<1>8. SecondOfDay(b) = due
  BY <1>5, <1>6, SMT DEF SecondOfDay
<1>9. PICK start \in Nat : start = SecondOfDay(now) /\ start < DAY
  BY SecondOfDayIs, SMT DEF Types
<1>10. Quiet = (IF due > start THEN due ELSE DAY) - 1 - start
  BY <1>3, <1>8, <1>9, Zenon DEF Quiet
<1>11. Quiet \in Nat /\ start + Quiet \in Nat /\ start + Quiet < DAY
  BY <1>7, <1>9, <1>10, SMT DEF DAY
<1>12. QED
  BY <1>9, <1>11, Zenon DEF MayWait

\* different numbers have different digits
LEMMA DigitsAreUnique ==
  ASSUME NEW i \in Nat, NEW j \in Nat
  PROVE  Digits(i) = Digits(j) <=> i = j
BY BcdIsInverse, Zenon

\* the alarm matches at its time of day only
LEMMA MatchesIs ==
  ASSUME NEW d \in Date, NEW a, a.sec \in Second, a.min \in Second, a.hour \in Hour,
         alarm = [sec |-> Digits(a.sec), min |-> Digits(a.min), hour |-> Digits(a.hour)]
  PROVE  Matches(d) <=> SecondOfDay(d) = SecondOfDay(a)
<1>1. PICK u : u = [r \in DOMAIN alarm |-> Registers(d)[r]]
  OBVIOUS
<1>2. u = [sec |-> Digits(d.sec), min |-> Digits(d.min), hour |-> Digits(d.hour)]
  BY <1>1 DEF Registers
<1>3. Matches(d) <=> /\ Digits(a.sec) = Digits(d.sec) /\ Digits(a.min) = Digits(d.min)
                     /\ Digits(a.hour) = Digits(d.hour)
  BY <1>1, <1>2 DEF Matches
<1>4. /\ a.sec \in Nat /\ a.min \in Nat /\ a.hour \in Nat
      /\ d.sec \in Nat /\ d.min \in Nat /\ d.hour \in Nat
  BY DateFields, SMT DEF Second, Hour
<1>5. Matches(d) <=> a.sec = d.sec /\ a.min = d.min /\ a.hour = d.hour
  BY <1>3, <1>4, DigitsAreUnique, Zenon
<1>6. PICK i \in Second, j \in Second, h \in Hour : i = a.sec /\ j = a.min /\ h = a.hour
  BY Zenon
<1>7. PICK x \in Second, y \in Second, z \in Hour : x = d.sec /\ y = d.min /\ z = d.hour
  BY DateFields, Zenon
<1>8. PICK m, n : m = i + 60 * j + 3600 * h /\ n = x + 60 * y + 3600 * z
  OBVIOUS
<1>9. m % 60 = i /\ (m \div 60) % 60 = j /\ m \div 3600 = h
  BY <1>8, SecondsFromParts, SMT
<1>10. n % 60 = x /\ (n \div 60) % 60 = y /\ n \div 3600 = z
  BY <1>8, SecondsFromParts, SMT
<1>11. m = n <=> i = x /\ j = y /\ h = z
  BY <1>8, <1>9, <1>10, SMT
<1>12. SecondOfDay(a) = m /\ SecondOfDay(d) = n
  BY <1>6, <1>7, <1>8, SMT DEF SecondOfDay
<1>13. QED
  BY <1>5, <1>6, <1>7, <1>11, <1>12, SMT

\* a time of day comes again after a day, and not before
LEMMA DueOnce ==
  ASSUME NEW n0 \in Nat, NEW n1 \in Nat, n0 < DAY, n1 < DAY, NEW c \in Int,
         NEW i \in Nat, NEW j \in Nat, i >= 1, i <= j, j <= DAY, n0 + i = DAY * c + n1
  PROVE  n1 = (n0 + j) % DAY <=> i = j
<1>1. n0 < 86400 /\ n1 < 86400 /\ j <= 86400 /\ n0 + i = 86400 * c + n1
  BY SMT DEF DAY
<1>2. PICK q \in Nat : q = (n0 + j) % 86400
  BY SMT
<1>3. PICK e \in Nat : n0 + j = 86400 * e + q
  <2>1. PICK e \in Nat : e = (n0 + j) \div 86400
    BY SMT
  <2>2. QED
    BY <1>2, <2>1, SMT
<1>4. q < 86400
  BY <1>2, SMT
<1>5. n1 = q <=> i = j
  <2>1. CASE i = j
    <3>1. 86400 * c + n1 = 86400 * e + q
      BY <1>1, <1>3, <2>1, SMT
    <3>2. QED
      BY <1>1, <1>4, <2>1, <3>1, SMT
  <2>2. CASE i # j
    <3>1. j - i >= 1 /\ j - i < 86400
      BY <1>1, <2>2, SMT
    <3>2. ASSUME n1 = q PROVE FALSE
      <4>1. j - i = 86400 * (e - c)
        BY <1>1, <1>3, <3>2, SMT
      <4>2. QED
        BY <3>1, <4>1, SMT
    <3>3. QED
      BY <2>2, <3>2, Zenon
  <2>3. QED
    BY <2>1, <2>2, Zenon
<1>6. QED
  BY <1>2, <1>5, SMT DEF DAY

\* the alarm that is set matches when its seconds have passed
LEMMA AlarmMatches ==
  ASSUME Types, Requests, HasRead, Registered, IsSet,
         NEW d \in Date, NEW k \in Nat, k >= 1, since + k <= request.secs,
         SecondsSince1970(d) = SecondsSince1970(now) + k
  PROVE  Matches(d) <=> since + k = request.secs
<1>0. PICK r \in Date : \E a :
          /\ SecondsSince1970(r) + since = SecondsSince1970(now)
          /\ a.sec \in Second /\ a.min \in Second /\ a.hour \in Hour
          /\ SecondOfDay(a) = (SecondOfDay(r) + request.secs) % DAY
          /\ alarm = [sec |-> Digits(a.sec), min |-> Digits(a.min), hour |-> Digits(a.hour)]
  BY SetAlarm, Zenon
<1>1. PICK a :
        /\ SecondsSince1970(r) + since = SecondsSince1970(now)
        /\ a.sec \in Second /\ a.min \in Second /\ a.hour \in Hour
        /\ SecondOfDay(a) = (SecondOfDay(r) + request.secs) % DAY
        /\ alarm = [sec |-> Digits(a.sec), min |-> Digits(a.min), hour |-> Digits(a.hour)]
  BY <1>0, Zenon
<1>2. Matches(d) <=> SecondOfDay(d) = SecondOfDay(a)
  BY <1>1, MatchesIs, Zenon
<1>3. PICK n0 \in Nat : n0 = SecondOfDay(r) /\ n0 < DAY
  BY SecondOfDayIs, SMT
<1>4. PICK n1 \in Nat : n1 = SecondOfDay(d) /\ n1 < DAY
  BY SecondOfDayIs, SMT
<1>5. PICK i \in Nat : i = since + k
  BY SMT DEF Types
<1>6. PICK j \in Nat : j = request.secs /\ j <= DAY
  BY SMT DEF Types, Request, Requests, IsSet
<1>7. PICK x \in Int : x = SecondsSince1970(r)
  BY SecondsSinceAreInt, Zenon
<1>8. SecondsSince1970(d) = x + i
  <2>1. PICK y \in Int : y = SecondsSince1970(now)
    BY SecondsSinceAreInt, Zenon DEF Types
  <2>2. x + since = y /\ SecondsSince1970(d) = y + k
    BY <1>1, <1>7, <2>1, Zenon
  <2>3. QED
    BY <1>5, <2>2, SMT DEF Types
<1>9. PICK u \in Int : u = Days(r) /\ x = DAY * u + n0
  BY <1>3, <1>7, DaysAre, Zenon
<1>10. PICK v \in Int : v = Days(d) /\ x + i = DAY * v + n1
  BY <1>4, <1>8, DaysAre, Zenon
<1>11. PICK c \in Int : c = v - u
  BY SMT
<1>12. n0 + i = DAY * c + n1
  BY <1>9, <1>10, <1>11, SMT DEF DAY
<1>13. i >= 1 /\ i <= j
  BY <1>5, <1>6, SMT DEF Types
<1>14. n1 = (n0 + j) % DAY <=> i = j
  BY <1>3, <1>4, <1>6, <1>12, <1>13, DueOnce, SMT
<1>15. QED
  BY <1>1, <1>2, <1>3, <1>4, <1>5, <1>6, <1>14, Zenon

\* less than a minute passes while a call runs
LEMMA BusyBound == MaxBusy \in Nat /\ MaxBusy <= 59
<1>1. MaxBusy \in 0 .. 59
  BY BoundsAssumption
<1>2. QED
  BY <1>1, SMT

\* what a tick or a wait does
LEMMA TimePasses ==
  ASSUME IInv, Tick \/ Wait
  PROVE  \E d \in Date, k \in Nat :
           /\ k >= 1 /\ Show(d) /\ since' = since + k /\ d.year >= now.year
           /\ SecondsSince1970(d) = SecondsSince1970(now) + k
           /\ pc # "idle" => k = 1 /\ d.sec = (now.sec + 1) % 60 /\ since + 1 <= MaxBusy
           /\ k = 1 \/ since + k < request.secs
<1>1. now \in Date /\ since \in Nat
  BY Zenon DEF IInv, Types
<1>2. CASE Tick
  <2>1. PICK d : d = NextSecond(now)
    OBVIOUS
  <2>2. /\ d \in Date /\ d.sec = (now.sec + 1) % 60 /\ d.year >= now.year
        /\ SecondsSince1970(d) = SecondsSince1970(now) + 1
    BY <1>1, <2>1, NextSecondIs, SMT
  <2>3. Show(d) /\ since' = since + 1
    BY <1>2, <2>1, Zenon DEF Tick
  <2>4. pc # "idle" => since + 1 <= MaxBusy
    BY <1>1, <1>2, BusyBound, SMT DEF Tick
  <2>5. PICK k \in Nat : k = 1
    BY SMT
  <2>6. k >= 1 /\ since' = since + k /\ SecondsSince1970(d) = SecondsSince1970(now) + k
    BY <2>2, <2>3, <2>5, SMT
  <2>7. QED
    BY <2>2, <2>3, <2>4, <2>5, <2>6, Zenon
<1>3. CASE Wait
  <2>1. MayWait
    BY <1>3, Zenon DEF Wait
  <2>2. PICK k \in Nat : k = Quiet /\ k > 0
    BY <2>1, QuietIs, Zenon DEF IInv
  <2>3. PICK m \in Nat : m = SecondOfDay(now) + k /\ m < DAY
    BY <2>1, <2>2, QuietIs, Zenon DEF IInv
  <2>4. PICK d : d = AtSecond(now, m)
    OBVIOUS
  <2>5. /\ d \in Date /\ d.year = now.year /\ SecondOfDay(d) = m /\ Days(d) = Days(now)
    BY <1>1, <2>3, <2>4, AtSecondIs, Zenon
  <2>6. Show(d) /\ since' = since + k
    BY <1>3, <2>2, <2>3, <2>4, Zenon DEF Wait
  <2>7. SecondsSince1970(d) = SecondsSince1970(now) + k
    <3>1. PICK u \in Int : u = DAY * Days(now)
      BY <1>1, DaysAre, SMT DEF DAY
    <3>2. SecondsSince1970(now) = u + SecondOfDay(now)
      BY <1>1, <3>1, DaysAre, Zenon
    <3>3. SecondsSince1970(d) = u + m
      BY <2>5, <3>1, DaysAre, Zenon
    <3>4. PICK n \in Nat : n = SecondOfDay(now)
      BY <1>1, SecondOfDayIs, SMT
    <3>5. QED
      BY <2>3, <3>2, <3>3, <3>4, SMT
  <2>8. pc = "idle" /\ since + k < request.secs
    BY <2>1, <2>2, Zenon DEF MayWait
  <2>9. d.year >= now.year /\ k >= 1
    <3>1. now.year \in Nat
      BY <1>1, DateFields, SMT DEF Year
    <3>2. QED
      BY <2>2, <2>5, <3>1, SMT
  <2>10. QED
    BY <2>5, <2>6, <2>7, <2>8, <2>9, Zenon
<1>4. QED
  BY <1>2, <1>3, Zenon

\* the registers in the order they are read
LEMMA OrderIs ==
  /\ Order[1] = "sec" /\ Order[2] = "min" /\ Order[3] = "hour" /\ Order[4] = "wday"
  /\ Order[5] = "mday" /\ Order[6] = "mon" /\ Order[7] = "year" /\ Order[8] = "century"
  /\ Order[9] = "again"
BY DEF Order

\* the code is reading while it is at one of them
LEMMA OrderReads ==
  ASSUME NEW i \in 1 .. 9
  PROVE  Order[i] \in Read /\ Order[i] \notin Free /\ Order[i] \notin Write
<1>1. \/ i = 1 \/ i = 2 \/ i = 3 \/ i = 4 \/ i = 5 \/ i = 6 \/ i = 7 \/ i = 8 \/ i = 9
  OBVIOUS
<1>2. QED
  BY <1>1, OrderIs DEF Read, Free, Write

\* after a tick the seconds that were read lag by one more
LEMMA LagGrows ==
  ASSUME NEW x \in Second, NEW k \in Nat
  PROVE  (((x + 1) % 60) - (k + 1)) % 60 = (x - k) % 60
<1>1. x \in Nat /\ x <= 59
  BY SMT DEF Second
<1>2. CASE x = 59
  <2>1. (x + 1) % 60 = 0
    BY <1>2, SMT
  <2>2. (0 - (k + 1)) % 60 = (59 - k) % 60
    BY SMT
  <2>3. QED
    BY <1>2, <2>1, <2>2, SMT
<1>3. CASE x < 59
  <2>1. (x + 1) % 60 = x + 1
    BY <1>1, <1>3, SMT
  <2>2. (x + 1) - (k + 1) = x - k
    BY <1>1, SMT
  <2>3. QED
    BY <2>1, <2>2, SMT
<1>4. QED
  BY <1>1, <1>2, <1>3, SMT

\* the invariant holds after a tick or a wait
LEMMA TickKeeps ==
  ASSUME IInv, Tick \/ Wait
  PROVE  IInv'
<1>1. PICK d \in Date, k \in Nat :
        /\ k >= 1 /\ Show(d) /\ since' = since + k /\ d.year >= now.year
        /\ SecondsSince1970(d) = SecondsSince1970(now) + k
        /\ pc # "idle" => k = 1 /\ d.sec = (now.sec + 1) % 60 /\ since + 1 <= MaxBusy
        /\ k = 1 \/ since + k < request.secs
  BY TimePasses, Zenon
<1>2. /\ now' = d /\ since' = since + k
      /\ UNCHANGED <<alarm, B_alarm, pc, tm, request, startup_time, late>>
      /\ serving' = serving /\ unmasked' = unmasked
  BY <1>1, Zenon DEF Show, code
<1>3. /\ flag' = (flag \/ (B_alarm /\ Matches(d)))
      /\ requested' = requested \cup (IF flag' /\ ~ flag THEN {IRQ_RTC} ELSE {})
  BY <1>1, Zenon DEF Show
<1>4. Types /\ Requests /\ HasRead /\ Registered /\ now \in Date /\ since \in Nat
  BY Zenon DEF IInv, Types
<1>5. Types'
  <2>1. flag' \in BOOLEAN
    BY <1>3, <1>4, Zenon DEF Types
  <2>2. since' \in Nat
    BY <1>2, <1>4, SMT
  <2>3. QED
    BY <1>2, <1>4, <2>1, <2>2, Zenon DEF Types
<1>6. Requests'
  <2>1. pc \notin Free => since' <= MaxBusy
    <3>1. ASSUME pc \notin Free PROVE since' <= MaxBusy
      <4>1. k = 1 /\ since + 1 <= MaxBusy
        BY <1>1, <3>1, Zenon DEF Free
      <4>2. QED
        BY <1>2, <4>1, Zenon
    <3>2. QED
      BY <3>1, Zenon
  <2>2. QED
    BY <1>2, <1>4, <2>1, Zenon DEF Requests
<1>7. Controllers'
  BY <1>2, Zenon DEF IInv, Controllers
<1>8. Reading'
  <2> SUFFICES ASSUME NEW i \in 2 .. 9, pc = Order[i] PROVE \E j \in 1 .. since' : Lags(j)'
    BY <1>2, Zenon DEF Reading
  <2>1. pc # "idle"
    <3>1. i \in 1 .. 9
      OBVIOUS
    <3>2. QED
      BY <3>1, OrderReads, Zenon DEF Free
  <2>2. d.sec = (now.sec + 1) % 60 /\ since' = since + 1
    BY <1>1, <2>1, Zenon
  <2>3. PICK x \in Second : x = now.sec
    BY <1>4, DateFields, Zenon
  <2>4. PICK j \in Nat : j <= since /\ tm.sec = Digits((x - j) % 60)
    <3>1. CASE IsCurrent(i)
      <4>1. tm.sec = Digits(x)
        <5>1. 1 \in 1 .. i - 1
          OBVIOUS
        <5>2. tm[Order[1]] = Registers(now)[Order[1]]
          BY <3>1, <5>1, Zenon DEF IsCurrent
        <5>3. QED
          BY <2>3, <5>2, OrderIs DEF Registers
      <4>2. (x - 0) % 60 = x
        BY SMT DEF Second
      <4>3. 0 \in Nat /\ 0 <= since
        BY <1>4, SMT
      <4>4. QED
        BY <4>1, <4>2, <4>3, Zenon
    <3>2. CASE \E j \in 1 .. since : Lags(j)
      <4>1. PICK j \in 1 .. since : Lags(j)
        BY <3>2
      <4>2. j \in Nat /\ j <= since
        BY <1>4, <4>1, SMT
      <4>3. QED
        BY <2>3, <4>1, <4>2, Zenon DEF Lags
    <3>3. QED
      BY <3>1, <3>2, Zenon DEF IInv, Reading
  <2>5. (d.sec - (j + 1)) % 60 = (x - j) % 60
    BY <2>2, <2>3, LagGrows, Zenon
  <2>6. Lags(j + 1)'
    BY <1>2, <2>4, <2>5, Zenon DEF Lags
  <2>7. j + 1 \in 1 .. since'
    BY <1>4, <2>2, <2>4, SMT
  <2>8. QED
    BY <2>6, <2>7, Zenon
<1>9. HasRead'
  <2>1. ASSUME NEW t, IsWhole(t, now, since) PROVE IsWhole(t, d, since + k)
    BY <1>1, <1>4, <2>1, WholeMoves, Zenon
  <2>2. QED
    BY <1>2, <1>4, <2>1, Zenon DEF HasRead
<1>10. Started'
  BY <1>2, Zenon DEF IInv, Started
<1>11. Registered'
  BY <1>2, <1>4, Zenon DEF Registered, IsSet, Target
<1>12. Rings'
  <2> SUFFICES ASSUME IsSet, ~ late
               PROVE  (flag' <=> since' >= request.secs) /\ (IRQ_RTC \in requested' <=> flag')
    BY <1>2, Zenon DEF Rings, IsSet
  <2>1. (flag <=> since >= request.secs) /\ (IRQ_RTC \in requested <=> flag)
    BY Zenon DEF IInv, Rings
  <2>2. IRQ_RTC \in requested' <=> flag'
    BY <1>3, <2>1, Zenon
  <2>3. B_alarm
    BY <1>4, Zenon DEF Registered
  <2>4. request.secs \in Nat
    BY <1>4 DEF Types, Request
  <2>5. CASE since + k <= request.secs
    <3>1. Matches(d) <=> since + k = request.secs
      BY <1>1, <1>4, <2>5, AlarmMatches, SMT
    <3>2. ~ (since >= request.secs)
      BY <1>1, <1>4, <2>4, <2>5, SMT
    <3>3. since' >= request.secs <=> since + k = request.secs
      BY <1>2, <1>4, <2>4, <2>5, SMT
    <3>4. QED
      BY <1>3, <2>1, <2>2, <2>3, <3>1, <3>2, <3>3, Zenon
  <2>6. CASE ~ (since + k <= request.secs)
    <3>1. since >= request.secs /\ since' >= request.secs
      BY <1>1, <1>2, <1>4, <2>4, <2>6, SMT
    <3>2. QED
      BY <1>3, <2>1, <2>2, <3>1, Zenon
  <2>7. QED
    BY <2>5, <2>6, Zenon
<1>13. QED
  BY <1>5, <1>6, <1>7, <1>8, <1>9, <1>10, <1>11, <1>12, Zenon DEF IInv

-----------------------------------------------------------------------------
(* The code runs.                                                            *)

\* no call runs, before and after
LEMMA IdleKeeps ==
  ASSUME IInv, pc \in Free, pc' \in Free,
         UNCHANGED <<now, alarm, B_alarm, flag, tm, request, startup_time, since, late>>,
         IRQ_RTC \in requested' <=> IRQ_RTC \in requested, Controllers'
  PROVE  IInv'
<1>1. /\ now' = now /\ alarm' = alarm /\ B_alarm' = B_alarm /\ flag' = flag /\ tm' = tm
      /\ request' = request /\ startup_time' = startup_time /\ since' = since /\ late' = late
  BY Zenon
<1>2. Types' /\ Requests'
  BY <1>1, Zenon DEF IInv, Types, Requests, Write, Free
<1>3. pc' \notin Write /\ pc' # "convert" /\ pc' \notin Read
  BY DEF Write, Free, Read
<1>4. pc' \notin {"write_minute", "write_second", "write_B", "read_C"}
  BY <1>3, Zenon DEF Write
<1>5. Reading'
  <2>1. ASSUME NEW i \in 2 .. 9 PROVE pc' # Order[i]
    <3>1. i \in 1 .. 9
      OBVIOUS
    <3>2. QED
      BY <1>3, <3>1, OrderReads, Zenon
  <2>2. QED
    BY <2>1, Zenon DEF Reading
<1>6. HasRead'
  BY <1>1, <1>3, Zenon DEF IInv, HasRead
<1>7. Started'
  BY <1>1, Zenon DEF IInv, Started
<1>8. Registered'
  <2>1. (IsSet' <=> IsSet) /\ Target' = Target
    BY <1>1, Zenon DEF IsSet, Target
  <2>2. pc' # "read_C" /\ pc' \notin {"write_B", "read_C"}
        /\ pc' \notin {"write_second", "write_B", "read_C"}
    BY <1>4
  <2>3. Registered
    BY DEF IInv
  <2>4. /\ bin_to_bcd(Target.hour)' = bin_to_bcd(Target.hour)
        /\ bin_to_bcd(Target.min)' = bin_to_bcd(Target.min)
        /\ bin_to_bcd(Target.sec)' = bin_to_bcd(Target.sec)
    BY <2>1, Zenon
  <2>5. B_alarm' <=> B_alarm
    BY <1>1, SMT
  <2>6. QED
    BY <1>1, <1>4, <2>1, <2>2, <2>3, <2>4, <2>5, Zenon DEF Registered
<1>9. Rings'
  <2>1. IsSet' <=> IsSet
    BY <1>1, Zenon DEF IsSet
  <2>2. Rings
    BY DEF IInv
  <2>3. since' >= request'.secs <=> since >= request.secs
    BY <1>1, Zenon
  <2>4. flag' <=> flag
    BY <1>1, SMT
  <2>5. late' <=> late
    BY <1>1, SMT
  <2>6. QED
    BY <2>1, <2>2, <2>3, <2>4, <2>5, Zenon DEF Rings
<1>10. QED
  BY <1>2, <1>5, <1>6, <1>7, <1>8, <1>9, Zenon DEF IInv

\* the first of one line
LEMMA FirstIs ==
  ASSUME NEW i \in Int
  PROVE  First({i}) = {i}
<1>1. Min({i}) = i
  BY DEF Min
<1>2. QED
  BY <1>1 DEF First

\* the end of the timer's interrupt leaves nothing served
LEMMA ClockIsServed ==
  ASSUME serving = {IRQ_CLOCK}
  PROVE  Served(32) = {}
<1>1. serving \cap Master = {IRQ_CLOCK}
  BY DEF Master, IRQ_CLOCK
<1>2. First({IRQ_CLOCK}) = {IRQ_CLOCK}
  BY FirstIs DEF IRQ_CLOCK
<1>3. QED
  BY <1>1, <1>2 DEF Served

\* the end of the alarm's interrupt, in both controllers, leaves nothing served
LEMMA AlarmIsServed ==
  ASSUME serving = {IRQ_CASCADE, IRQ_RTC}
  PROVE  Served(40) = {}
<1>1. serving \cap Master = {IRQ_CASCADE} /\ serving \cap Slave = {IRQ_RTC}
  BY DEF Master, Slave, IRQ_CASCADE, IRQ_RTC
<1>2. First({IRQ_CASCADE}) = {IRQ_CASCADE} /\ First({IRQ_RTC}) = {IRQ_RTC}
  BY FirstIs DEF IRQ_CASCADE, IRQ_RTC
<1>3. QED
  BY <1>1, <1>2 DEF Served

\* steps while no call runs, and steps that change nothing
LEMMA OtherCodeKeeps ==
  ASSUME IInv,
         rtc_init \/ Timer \/ clock_handler \/ send_eoi(32, "clock", "idle") \/ UNCHANGED vars
  PROVE  IInv'
<1>1. CASE rtc_init
  <2>1. /\ pc = "idle" /\ pc' = pc /\ requested' = requested /\ serving' = serving
        /\ unmasked' = unmasked \cup {IRQ_RTC, Through(IRQ_RTC)}
        /\ UNCHANGED <<now, alarm, B_alarm, flag, tm, request, startup_time, since, late>>
    BY <1>1, Zenon DEF rtc_init, set_interrupt_mask, chip, code
  <2>2. Through(IRQ_RTC) = IRQ_CASCADE
    BY DEF Through, IRQ_RTC, Slave
  <2>3. Controllers'
    BY <2>1, <2>2, Zenon DEF IInv, Controllers
  <2>4. pc \in Free /\ pc' \in Free
    BY <2>1, Zenon DEF Free
  <2>5. QED
    BY <2>1, <2>3, <2>4, IdleKeeps, Zenon
<1>2. CASE Timer
  <2>1. /\ pc = "idle" /\ pc' = pc /\ serving' = serving /\ unmasked' = unmasked
        /\ requested' = requested \cup {IRQ_CLOCK}
        /\ UNCHANGED <<now, alarm, B_alarm, flag, tm, request, startup_time, since, late>>
    BY <1>2, Zenon DEF Timer, chip, code
  <2>2. IRQ_RTC # IRQ_CLOCK
    BY DEF IRQ_RTC, IRQ_CLOCK
  <2>3. IRQ_RTC \in requested' <=> IRQ_RTC \in requested
    BY <2>1, <2>2, Zenon
  <2>4. Controllers'
    BY <2>1, Zenon DEF IInv, Controllers
  <2>5. pc \in Free /\ pc' \in Free
    BY <2>1, Zenon DEF Free
  <2>6. QED
    BY <2>1, <2>3, <2>4, <2>5, IdleKeeps, Zenon
<1>3. CASE clock_handler
  <2>1. /\ pc = "idle" /\ pc' = "clock" /\ unmasked' = unmasked
        /\ requested' = requested \ {IRQ_CLOCK}
        /\ serving' = serving \cup {IRQ_CLOCK, Through(IRQ_CLOCK)}
        /\ UNCHANGED <<now, alarm, B_alarm, flag, tm, request, startup_time, since, late>>
    BY <1>3, Zenon DEF clock_handler, Interrupted, Accept, chip
  <2>2. IRQ_RTC # IRQ_CLOCK /\ Through(IRQ_CLOCK) = IRQ_CLOCK
    BY DEF IRQ_RTC, IRQ_CLOCK, Through, Slave
  <2>3. IRQ_RTC \in requested' <=> IRQ_RTC \in requested
    BY <2>1, <2>2, Zenon
  <2>4. Controllers'
    <3>1. serving = {}
      BY <2>1 DEF IInv, Controllers
    <3>2. serving' = {IRQ_CLOCK}
      BY <2>1, <2>2, <3>1
    <3>3. QED
      BY <2>1, <3>2, Zenon DEF IInv, Controllers
  <2>5. pc \in Free /\ pc' \in Free
    BY <2>1, Zenon DEF Free
  <2>6. QED
    BY <2>1, <2>3, <2>4, <2>5, IdleKeeps, Zenon
<1>4. CASE send_eoi(32, "clock", "idle")
  <2>1. /\ pc = "clock" /\ pc' = "idle" /\ unmasked' = unmasked /\ requested' = requested
        /\ serving' = Served(32)
        /\ UNCHANGED <<now, alarm, B_alarm, flag, tm, request, startup_time, since, late>>
    BY <1>4, Zenon DEF send_eoi, chip
  <2>2. Controllers'
    <3>1. serving = {IRQ_CLOCK}
      BY <2>1 DEF IInv, Controllers
    <3>2. serving' = {}
      BY <2>1, <3>1, ClockIsServed, Zenon
    <3>3. QED
      BY <2>1, <3>2 DEF IInv, Controllers
  <2>3. pc \in Free /\ pc' \in Free
    BY <2>1, Zenon DEF Free
  <2>4. QED
    BY <2>1, <2>2, <2>3, IdleKeeps, Zenon
<1>5. CASE UNCHANGED vars
  <2>1. /\ now' = now /\ alarm' = alarm /\ B_alarm' = B_alarm /\ flag' = flag /\ tm' = tm
        /\ request' = request /\ startup_time' = startup_time /\ since' = since /\ late' = late
        /\ pc' = pc /\ requested' = requested /\ serving' = serving /\ unmasked' = unmasked
    BY <1>5, Zenon DEF vars, chip, interrupts, code
  <2>2. Types' /\ Requests' /\ Controllers'
    BY <2>1, Zenon DEF IInv, Types, Requests, Controllers
  <2>3. Reading'
    BY <2>1, Zenon DEF IInv, Reading, IsCurrent, Lags
  <2>4. HasRead' /\ Started'
    BY <2>1, Zenon DEF IInv, HasRead, Started
  <2>5. (IsSet' <=> IsSet) /\ Target' = Target
    BY <2>1, Zenon DEF IsSet, Target
  <2>6. Registered'
    BY <2>1, <2>5, Zenon DEF IInv, Registered
  <2>7. Rings'
    BY <2>1, <2>5, Zenon DEF IInv, Rings
  <2>8. QED
    BY <2>2, <2>3, <2>4, <2>6, <2>7, Zenon DEF IInv
<1>6. QED
  BY <1>1, <1>2, <1>3, <1>4, <1>5, Zenon

Entry == {"handler", "handler_C"}

\* while a call reads the time, what is known of the last one does not matter
LEMMA ReadingNeeds ==
  ASSUME pc' \in Entry \cup Read
  PROVE  HasRead' /\ Started' /\ Registered' /\ Rings'
<1>1. pc' \notin Free /\ pc' \notin Write /\ pc' # "convert" /\ pc' # "read_C"
  BY DEF Entry, Read, Free, Write
<1>2. /\ pc' \notin {"write_minute", "write_second", "write_B", "read_C"}
      /\ pc' \notin {"write_second", "write_B", "read_C"} /\ pc' \notin {"write_B", "read_C"}
  BY <1>1, Zenon DEF Write
<1>3. ~ IsSet'
  BY <1>1, Zenon DEF IsSet
<1>4. HasRead' /\ Started'
  BY <1>1, Zenon DEF HasRead, Started
<1>5. Registered' /\ Rings'
  BY <1>1, <1>2, <1>3, Zenon DEF Registered, Rings
<1>6. QED
  BY <1>4, <1>5

\* nothing has been read
LEMMA NothingRead ==
  ASSUME pc' \notin Read \/ pc' = "sec"
  PROVE  Reading'
<1>1. ASSUME NEW i \in 2 .. 9 PROVE Order[i] \in Read /\ Order[i] # "sec"
  <2>1. \/ i = 2 \/ i = 3 \/ i = 4 \/ i = 5 \/ i = 6 \/ i = 7 \/ i = 8 \/ i = 9
    OBVIOUS
  <2>2. QED
    BY <2>1, OrderIs DEF Read
<1>2. QED
  BY <1>1, Zenon DEF Reading

\* set_alarm is called for at least a second and at most a day
LEMMA SecsAreADay ==
  ASSUME NEW secs \in Secs \cup {1}
  PROVE  secs \in Nat /\ secs >= 1 /\ secs <= DAY
<1>1. DAY \in Nat /\ 1 <= DAY
  BY SMT DEF DAY
<1>2. secs \in 1 .. DAY
  <2>1. 1 \in 1 .. DAY
    BY <1>1, SMT
  <2>2. QED
    BY <2>1, SecsAssumption, Zenon
<1>3. QED
  BY <1>1, <1>2, SMT

\* a call begins
LEMMA CallKeeps ==
  ASSUME IInv, time_init \/ (\E secs \in Secs : set_alarm(secs)) \/ rtc_handler
  PROVE  IInv'
<1>1. PICK what, secs :
        /\ what \in {"time_init", "set_alarm"} /\ secs \in Nat
        /\ what = "set_alarm" => secs >= 1 /\ secs <= DAY
        /\ request' = [what |-> what, secs |-> secs]
  <2>1. CASE time_init
    <3>1. request' = [what |-> "time_init", secs |-> 0]
      BY <2>1, Zenon DEF time_init, Call
    <3>2. 0 \in Nat /\ "time_init" # "set_alarm"
      OBVIOUS
    <3>3. QED
      BY <3>1, <3>2, Zenon
  <2>2. CASE \E secs \in Secs : set_alarm(secs)
    <3>1. PICK secs \in Secs : request' = [what |-> "set_alarm", secs |-> secs]
      BY <2>2, Zenon DEF set_alarm, Call
    <3>2. secs \in Nat /\ secs >= 1 /\ secs <= DAY
      BY SecsAreADay, Zenon
    <3>3. QED
      BY <3>1, <3>2, Zenon
  <2>3. CASE rtc_handler
    <3>1. request' = [what |-> "set_alarm", secs |-> 1]
      BY <2>3, Zenon DEF rtc_handler, Call
    <3>2. 1 \in Nat /\ 1 >= 1 /\ 1 <= DAY
      BY SecsAreADay, Zenon
    <3>3. QED
      BY <3>1, <3>2, Zenon
  <2>4. QED
    BY <2>1, <2>2, <2>3, Zenon
<1>2. request' \in Request /\ request'.what # "none"
      /\ (request'.what = "set_alarm" => request'.secs >= 1 /\ request'.secs <= DAY)
  BY <1>1 DEF Request
<1>3. /\ pc = "idle" /\ (pc' = "sec" \/ pc' = "handler") /\ since' = 0 /\ late' = FALSE
      /\ now' = now /\ alarm' = alarm /\ B_alarm' = B_alarm /\ flag' = flag /\ tm' = tm
      /\ unmasked' = unmasked
  BY Zenon DEF time_init, set_alarm, rtc_handler, Interrupted, chip, interrupts
<1>4. pc' \in Entry \cup Read /\ pc' \notin Write /\ pc' # "clock"
      /\ (pc' \notin Read \/ pc' = "sec")
  BY <1>3 DEF Entry, Read, Write
<1>5. since' \in Nat /\ since' <= MaxBusy
  BY <1>3, BusyBound, SMT
<1>6. Types'
  <2>1. late' \in BOOLEAN
    BY <1>3, Zenon
  <2>2. pc' \in Free \cup {"handler", "handler_C"} \cup Read \cup {"convert"} \cup Write
    BY <1>4, Zenon DEF Entry
  <2>3. QED
    BY <1>2, <1>3, <1>5, <2>1, <2>2, Zenon DEF IInv, Types
<1>7. Requests'
  BY <1>2, <1>4, <1>5, Zenon DEF Requests
<1>8. Controllers'
  <2>1. serving = {}
    BY <1>3 DEF IInv, Controllers
  <2>2. CASE rtc_handler
    <3>1. Through(IRQ_RTC) = IRQ_CASCADE
      BY DEF Through, IRQ_RTC, Slave
    <3>2. serving' = serving \cup {IRQ_RTC, Through(IRQ_RTC)} /\ pc' = "handler"
      BY <2>2, Zenon DEF rtc_handler, Interrupted, Accept
    <3>3. serving' = {IRQ_CASCADE, IRQ_RTC}
      BY <2>1, <3>1, <3>2
    <3>4. QED
      BY <1>3, <3>2, <3>3 DEF IInv, Controllers
  <2>3. CASE ~ rtc_handler
    <3>1. serving' = serving /\ pc' = "sec"
      BY <2>3, Zenon DEF time_init, set_alarm, interrupts
    <3>2. QED
      BY <1>3, <2>1, <3>1 DEF IInv, Controllers
  <2>4. QED
    BY <2>2, <2>3, Zenon
<1>9. Reading'
  BY <1>4, NothingRead, Zenon
<1>10. QED
  BY <1>4, <1>6, <1>7, <1>8, <1>9, ReadingNeeds, Zenon DEF IInv

\* rtc_handler before it sets the next alarm
LEMMA HandlerKeeps ==
  ASSUME IInv, send_eoi(40, "handler", "handler_C") \/ HandlerReadsC
  PROVE  IInv'
<1>1. /\ (pc = "handler" /\ pc' = "handler_C") \/ (pc = "handler_C" /\ pc' = "sec")
      /\ since' = since /\ late' = late /\ request' = request /\ now' = now /\ alarm' = alarm
      /\ B_alarm' = B_alarm /\ tm' = tm /\ unmasked' = unmasked
      /\ flag' = flag \/ flag' = FALSE
  BY Zenon DEF send_eoi, HandlerReadsC, ReadC, chip
<1>2. pc' \in Entry \cup Read /\ pc' \notin Write /\ (pc' \notin Read \/ pc' = "sec")
      /\ pc \notin Free
  BY <1>1 DEF Entry, Read, Write, Free
<1>3. Types'
  <2>1. flag' \in BOOLEAN
    BY <1>1 DEF IInv, Types
  <2>2. pc' \in Free \cup {"handler", "handler_C"} \cup Read \cup {"convert"} \cup Write
    BY <1>2, Zenon DEF Entry
  <2>3. QED
    BY <1>1, <2>1, <2>2, Zenon DEF IInv, Types
<1>4. Requests'
  BY <1>1, <1>2, Zenon DEF IInv, Requests
<1>5. Controllers'
  <2>1. CASE send_eoi(40, "handler", "handler_C")
    <3>1. pc = "handler" /\ pc' = "handler_C" /\ serving' = Served(40)
      BY <2>1, Zenon DEF send_eoi
    <3>2. serving = {IRQ_CASCADE, IRQ_RTC}
      BY <3>1 DEF IInv, Controllers
    <3>3. serving' = {}
      BY <3>1, <3>2, AlarmIsServed, Zenon
    <3>4. QED
      BY <1>1, <3>1, <3>3 DEF IInv, Controllers
  <2>2. CASE HandlerReadsC
    <3>1. pc = "handler_C" /\ pc' = "sec" /\ serving' = serving
      BY <2>2, Zenon DEF HandlerReadsC, ReadC
    <3>2. QED
      BY <1>1, <3>1 DEF IInv, Controllers
  <2>3. QED
    BY <2>1, <2>2, Zenon
<1>6. Reading'
  BY <1>2, NothingRead, Zenon
<1>7. QED
  BY <1>2, <1>3, <1>4, <1>5, <1>6, ReadingNeeds, Zenon DEF IInv

\* what stays when a call makes an access that is not the last
LEMMA StepFrame ==
  ASSUME IInv, pc \notin Free, pc # "handler", pc' \notin Free, pc' # "handler",
         pc' \in Read \cup {"convert"} \cup Write, pc' \in Write => request.what = "set_alarm",
         UNCHANGED <<now, flag, interrupts, request, late>>,
         alarm' \in AlarmRegisters, B_alarm' \in BOOLEAN, tm' \in TimeRegisters,
         since' = since \/ since' = 0
  PROVE  Types' /\ Requests' /\ Controllers'
<1>1. since' \in Nat /\ since' <= MaxBusy
  BY BusyBound, SMT DEF IInv, Types, Requests
<1>2. now' = now /\ flag' = flag /\ request' = request /\ late' = late
      /\ serving' = serving /\ unmasked' = unmasked
  BY Zenon DEF interrupts
<1>3. Types'
  BY <1>1, <1>2, Zenon DEF IInv, Types
<1>4. Requests'
  BY <1>1, <1>2, Zenon DEF IInv, Requests
<1>5. Controllers'
  <2>1. pc # "clock" /\ pc' # "clock"
    BY DEF Free
  <2>2. serving' = {}
    BY <1>2, <2>1 DEF IInv, Controllers
  <2>3. QED
    BY <1>2, <2>1, <2>2 DEF IInv, Controllers
<1>6. QED
  BY <1>3, <1>4, <1>5

TimeNames == {"sec", "min", "hour", "wday", "mday", "mon", "year", "century"}

\* the chip's registers are numbers
LEMMA RegistersAre ==
  ASSUME NEW d \in Date
  PROVE  \A f \in TimeNames : Registers(d)[f] \in Nat
<1>1. /\ d.sec \in Nat /\ d.min \in Nat /\ d.hour \in Nat /\ d.wday \in Nat /\ d.mday \in Nat
      /\ d.mon \in Nat /\ d.year \in Nat
  BY DateFields, SMT DEF Second, Hour, WeekDay, MonthDay, Month, Year
<1>2. PICK u \in Nat, v \in Nat : u = d.year % 100 /\ v = d.year \div 100
  BY <1>1, SMT
<1>3. /\ Digits(d.sec) \in Nat /\ Digits(d.min) \in Nat /\ Digits(d.hour) \in Nat
      /\ Digits(d.wday) \in Nat /\ Digits(d.mday) \in Nat /\ Digits(d.mon) \in Nat
      /\ Digits(d.year % 100) \in Nat /\ Digits(d.year \div 100) \in Nat
  BY <1>1, <1>2, BcdIsInverse, Zenon
<1>4. QED
  BY <1>3 DEF Registers, TimeNames

IsWith(u, t, f, v) == u = [t EXCEPT ![f] = v]

Differs(u, t, f, v) ==
  u \in TimeRegisters /\ u[f] = v /\ \A g \in TimeNames : g # f => u[g] = t[g]

\* one field of a time changes
LEMMA OneIsRead ==
  ASSUME NEW f \in TimeNames, NEW t \in TimeRegisters, NEW v \in Nat, NEW u, IsWith(u, t, f, v)
  PROVE  Differs(u, t, f, v)
<1>1. u = [t EXCEPT ![f] = v]
  BY DEF IsWith
<1>2. CASE f = "sec"
  BY <1>1, <1>2 DEF TimeRegisters, TimeNames, Differs
<1>3. CASE f = "min"
  BY <1>1, <1>3 DEF TimeRegisters, TimeNames, Differs
<1>4. CASE f = "hour"
  BY <1>1, <1>4 DEF TimeRegisters, TimeNames, Differs
<1>5. CASE f = "wday"
  BY <1>1, <1>5 DEF TimeRegisters, TimeNames, Differs
<1>6. CASE f = "mday"
  BY <1>1, <1>6 DEF TimeRegisters, TimeNames, Differs
<1>7. CASE f = "mon"
  BY <1>1, <1>7 DEF TimeRegisters, TimeNames, Differs
<1>8. CASE f = "year"
  BY <1>1, <1>8 DEF TimeRegisters, TimeNames, Differs
<1>9. CASE f = "century"
  BY <1>1, <1>9 DEF TimeRegisters, TimeNames, Differs
<1>10. QED
  BY <1>2, <1>3, <1>4, <1>5, <1>6, <1>7, <1>8, <1>9, Zenon DEF TimeNames

\* the registers read first are those of the time
LEMMA OrderNames ==
  ASSUME NEW i \in 1 .. 8
  PROVE  Order[i] \in TimeNames
<1>1. \/ i = 1 \/ i = 2 \/ i = 3 \/ i = 4 \/ i = 5 \/ i = 6 \/ i = 7 \/ i = 8
  OBVIOUS
<1>2. QED
  BY <1>1, OrderIs DEF TimeNames

\* each is read once
LEMMA OrderIsUnique ==
  ASSUME NEW i \in 1 .. 9, NEW j \in 1 .. 9, Order[i] = Order[j]
  PROVE  i = j
<1>1. \/ i = 1 \/ i = 2 \/ i = 3 \/ i = 4 \/ i = 5 \/ i = 6 \/ i = 7 \/ i = 8 \/ i = 9
  OBVIOUS
<1>2. \/ j = 1 \/ j = 2 \/ j = 3 \/ j = 4 \/ j = 5 \/ j = 6 \/ j = 7 \/ j = 8 \/ j = 9
  OBVIOUS
<1>3. QED
  BY <1>1, <1>2, OrderIs

\* a register is read
LEMMA ReadKeeps ==
  ASSUME IInv, NEW i \in 1 .. 8, ReadRegister(i)
  PROVE  IInv'
<1>1. i \in 1 .. 9 /\ i + 1 \in 1 .. 9 /\ i + 1 \in 2 .. 9
  OBVIOUS
<1>2. /\ pc = Order[i] /\ pc' = Order[i + 1]
      /\ tm' = [tm EXCEPT ![Order[i]] = Registers(now)[Order[i]]]
      /\ UNCHANGED <<now, flag, interrupts, request, late>>
      /\ alarm' = alarm /\ B_alarm' = B_alarm /\ since' = since
  BY Zenon DEF ReadRegister, chip
<1>3. /\ pc \in Read /\ pc' \in Read /\ pc \notin Free /\ pc' \notin Free /\ pc' \notin Write
  BY <1>1, <1>2, OrderReads, Zenon
<1>4. pc # "handler" /\ pc' # "handler"
  BY <1>3 DEF Read
<1>5. PICK v \in Nat : v = Registers(now)[Order[i]]
  BY OrderNames, RegistersAre, Zenon DEF IInv, Types
<1>6. /\ tm' \in TimeRegisters /\ tm'[Order[i]] = v
      /\ \A g \in TimeNames : g # Order[i] => tm'[g] = tm[g]
  <2>1. IsWith(tm', tm, Order[i], v)
    BY <1>2, <1>5, Zenon DEF IsWith
  <2>2. tm \in TimeRegisters /\ Order[i] \in TimeNames
    BY OrderNames, Zenon DEF IInv, Types
  <2>3. Differs(tm', tm, Order[i], v)
    BY <2>1, <2>2, OneIsRead, Zenon
  <2>4. QED
    BY <2>3, Zenon DEF Differs
<1>7. Types' /\ Requests' /\ Controllers'
  <2>1. alarm' \in AlarmRegisters /\ B_alarm' \in BOOLEAN
    BY <1>2, Zenon DEF IInv, Types
  <2>2. QED
    BY <1>2, <1>3, <1>4, <1>6, <2>1, StepFrame, Zenon
<1>8. Reading'
  <2> SUFFICES ASSUME NEW n \in 2 .. 9, pc' = Order[n]
               PROVE  IsCurrent(n)' \/ \E k \in 1 .. since' : Lags(k)'
    BY Zenon DEF Reading
  <2>1. n = i + 1
    <3>1. n \in 1 .. 9
      OBVIOUS
    <3>2. QED
      BY <1>1, <1>2, <3>1, OrderIsUnique, Zenon
  <2>2. CASE i = 1 \/ IsCurrent(i)
    <3>1. ASSUME NEW j \in 1 .. n - 1 PROVE tm'[Order[j]] = Registers(now')[Order[j]]
      <4>1. CASE j = i
        BY <1>2, <1>5, <1>6, <4>1, Zenon
      <4>2. CASE j # i
        <5>1. j \in 1 .. i - 1 /\ j \in 1 .. 8 /\ j \in 1 .. 9 /\ i # 1
          BY <2>1, <4>2, SMT
        <5>2. Order[j] \in TimeNames /\ Order[j] # Order[i]
          BY <1>1, <4>2, <5>1, OrderNames, OrderIsUnique, Zenon
        <5>3. tm[Order[j]] = Registers(now)[Order[j]]
          BY <2>2, <5>1, Zenon DEF IsCurrent
        <5>4. QED
          BY <1>2, <1>6, <5>2, <5>3, Zenon
      <4>3. QED
        BY <4>1, <4>2
    <3>2. QED
      BY <3>1, Zenon DEF IsCurrent
  <2>3. CASE i # 1 /\ ~ IsCurrent(i)
    <3>1. i \in 2 .. 9
      BY <2>3
    <3>2. PICK k \in 1 .. since : Lags(k)
      BY <1>2, <2>3, <3>1, Zenon DEF IInv, Reading
    <3>3. tm'["sec"] = tm["sec"]
      <4>1. "sec" \in TimeNames /\ 1 \in 1 .. 9
        BY DEF TimeNames
      <4>2. "sec" # Order[i]
        BY <1>1, <2>3, <4>1, OrderIs, OrderIsUnique, Zenon
      <4>3. QED
        BY <1>6, <4>1, <4>2, Zenon
    <3>4. tm'.sec = tm.sec
      BY <3>3, SMT
    <3>5. Lags(k)'
      BY <1>2, <3>2, <3>4, Zenon DEF Lags
    <3>6. QED
      BY <1>2, <3>2, <3>5, Zenon
  <2>4. QED
    BY <2>2, <2>3, Zenon
<1>9. QED
  BY <1>3, <1>7, <1>8, ReadingNeeds, Zenon DEF IInv

\* the seconds have changed, and everything is read again
LEMMA ReadAgainKeeps ==
  ASSUME IInv, TimeHasChanged
  PROVE  IInv'
<1>1. /\ pc = "again" /\ pc' = "sec"
      /\ UNCHANGED <<now, flag, interrupts, request, late>>
      /\ alarm' = alarm /\ B_alarm' = B_alarm /\ since' = since /\ tm' = tm
  BY Zenon DEF TimeHasChanged, chip
<1>2. /\ pc' \in Read /\ pc \notin Free /\ pc' \notin Free /\ pc # "handler" /\ pc' # "handler"
      /\ pc' \notin Write
  BY <1>1 DEF Read, Free, Write
<1>3. alarm' \in AlarmRegisters /\ B_alarm' \in BOOLEAN /\ tm' \in TimeRegisters
  BY <1>1, Zenon DEF IInv, Types
<1>4. Types' /\ Requests' /\ Controllers'
  BY <1>1, <1>2, <1>3, StepFrame, Zenon
<1>5. Reading'
  BY <1>1, NothingRead, Zenon
<1>6. QED
  BY <1>2, <1>4, <1>5, ReadingNeeds, Zenon DEF IInv

\* the fields of a time converted from BCD
LEMMA PlainIs ==
  ASSUME NEW t \in TimeRegisters
  PROVE  /\ Plain(t) \in TimeRegisters
         /\ Plain(t).sec = bcd_to_bin(t.sec) /\ Plain(t).min = bcd_to_bin(t.min)
         /\ Plain(t).hour = bcd_to_bin(t.hour) /\ Plain(t).wday = bcd_to_bin(t.wday)
         /\ Plain(t).mday = bcd_to_bin(t.mday) /\ Plain(t).mon = bcd_to_bin(t.mon)
         /\ Plain(t).year = bcd_to_bin(t.year) /\ Plain(t).century = bcd_to_bin(t.century)
<1>1. \A n \in Nat : bcd_to_bin(n) \in Nat
  BY SMT DEF bcd_to_bin
<1>2. QED
  BY <1>1 DEF Plain, TimeRegisters

\* once the registers are read they are the chip's, which have not moved
LEMMA ReadIsWhole ==
  ASSUME IInv, TimeIsRead
  PROVE  IsWhole(Plain(tm), now, 0)
<1>1. now \in Date /\ tm \in TimeRegisters /\ since \in Nat
  BY Zenon DEF IInv, Types
<1>2. pc = Order[9] /\ tm.sec = Digits(now.sec)
  BY OrderIs, SMT DEF TimeIsRead, Registers
<1>3. PICK x \in Second : x = now.sec
  BY <1>1, DateFields, Zenon
<1>4. since <= 59
  BY <1>1, <1>2, BusyBound, OrderIs, SMT DEF IInv, Requests, Free
<1>5. IsCurrent(9)
  <2>1. ASSUME NEW k \in 1 .. since, Lags(k) PROVE FALSE
    <3>1. k \in Nat /\ k >= 1 /\ k <= 59 /\ x \in Nat /\ x <= 59
      BY <1>1, <1>4, SMT DEF Second
    <3>2. PICK y \in Nat : y = (x - k) % 60
      BY <3>1, SMT
    <3>3. Digits(y) = Digits(x)
      BY <1>2, <1>3, <2>1, <3>2, Zenon DEF Lags
    <3>4. y = x
      BY <3>1, <3>3, DigitsAreUnique, Zenon
    <3>5. QED
      BY <3>1, <3>2, <3>4, SMT
  <2>2. 9 \in 2 .. 9
    OBVIOUS
  <2>3. QED
    BY <1>2, <2>1, <2>2, Zenon DEF IInv, Reading
<1>6. \A j \in 1 .. 8 : tm[Order[j]] = Registers(now)[Order[j]]
  <2>1. 9 - 1 = 8
    OBVIOUS
  <2>2. QED
    BY <1>5, <2>1 DEF IsCurrent
<1>7. /\ tm.sec = Digits(now.sec) /\ tm.min = Digits(now.min) /\ tm.hour = Digits(now.hour)
      /\ tm.wday = Digits(now.wday) /\ tm.mday = Digits(now.mday) /\ tm.mon = Digits(now.mon)
      /\ tm.year = Digits(now.year % 100) /\ tm.century = Digits(now.year \div 100)
  <2>1. /\ tm["sec"] = Registers(now)["sec"] /\ tm["min"] = Registers(now)["min"]
        /\ tm["hour"] = Registers(now)["hour"] /\ tm["wday"] = Registers(now)["wday"]
        /\ tm["mday"] = Registers(now)["mday"] /\ tm["mon"] = Registers(now)["mon"]
        /\ tm["year"] = Registers(now)["year"] /\ tm["century"] = Registers(now)["century"]
    <3>1. 1 \in 1 .. 8 /\ 2 \in 1 .. 8 /\ 3 \in 1 .. 8 /\ 4 \in 1 .. 8 /\ 5 \in 1 .. 8
          /\ 6 \in 1 .. 8 /\ 7 \in 1 .. 8 /\ 8 \in 1 .. 8
      OBVIOUS
    <3>2. QED
      BY <1>6, <3>1, OrderIs, Zenon
  <2>2. QED
    BY <2>1 DEF Registers
<1>8. PICK p : p = Plain(tm)
  OBVIOUS
<1>9. PICK u \in Nat, v \in Nat, y \in Nat :
        u = now.year % 100 /\ v = now.year \div 100 /\ y = now.year
  BY <1>1, DateFields, SMT DEF Year
<1>10. u <= 99 /\ 100 * v + u = y
  BY <1>9, SMT
<1>11. /\ p.sec = now.sec /\ p.min = now.min /\ p.hour = now.hour /\ p.wday = now.wday
       /\ p.mday = now.mday /\ p.mon = now.mon /\ p.year = u /\ p.century = v
  <2>1. /\ now.sec \in Nat /\ now.min \in Nat /\ now.hour \in Nat /\ now.wday \in Nat
        /\ now.mday \in Nat /\ now.mon \in Nat
    BY <1>1, DateFields, SMT DEF Second, Hour, WeekDay, MonthDay, Month
  <2>2. /\ bcd_to_bin(tm.sec) = now.sec /\ bcd_to_bin(tm.min) = now.min
        /\ bcd_to_bin(tm.hour) = now.hour /\ bcd_to_bin(tm.wday) = now.wday
        /\ bcd_to_bin(tm.mday) = now.mday /\ bcd_to_bin(tm.mon) = now.mon
        /\ bcd_to_bin(tm.year) = u /\ bcd_to_bin(tm.century) = v
    BY <1>7, <1>9, <2>1, BcdIsInverse, Zenon
  <2>3. QED
    BY <1>1, <1>8, <2>2, PlainIs, Zenon
<1>12. PICK r : r = DateOf(p)
  OBVIOUS
<1>13. r = [sec |-> now.sec, min |-> now.min, hour |-> now.hour, wday |-> now.wday,
            mday |-> now.mday, mon |-> now.mon, year |-> now.year]
  BY <1>9, <1>10, <1>11, <1>12, Zenon DEF DateOf
<1>14. r = now
  <2>1. now \in Calendar
    BY <1>1, DateFields, Zenon
  <2>2. QED
    BY <1>13, <2>1 DEF Calendar
<1>15. SecondsSince1970(now) + 0 = SecondsSince1970(now)
  BY <1>1, SecondsSinceAreInt, SMT
<1>16. r.year <= now.year /\ p.year <= 99
  BY <1>9, <1>10, <1>11, <1>14, SMT
<1>17. QED
  BY <1>1, <1>8, <1>12, <1>14, <1>15, <1>16, Zenon DEF IsWhole

\* the seconds are those read first
LEMMA TimeIsReadKeeps ==
  ASSUME IInv, TimeIsRead
  PROVE  IInv'
<1>1. /\ pc = "again" /\ pc' = "convert"
      /\ UNCHANGED <<now, flag, interrupts, request, late>>
      /\ alarm' = alarm /\ B_alarm' = B_alarm /\ since' = 0 /\ tm' = tm
  BY Zenon DEF TimeIsRead, chip
<1>2. /\ pc \notin Free /\ pc' \notin Free /\ pc # "handler" /\ pc' # "handler"
      /\ pc' \notin Write /\ pc' \notin Read
  BY <1>1 DEF Read, Free, Write
<1>3. alarm' \in AlarmRegisters /\ B_alarm' \in BOOLEAN /\ tm' \in TimeRegisters
  BY <1>1, Zenon DEF IInv, Types
<1>4. Types' /\ Requests' /\ Controllers'
  <2>1. pc' \in Read \cup {"convert"} \cup Write
    BY <1>1
  <2>2. QED
    BY <1>1, <1>2, <1>3, <2>1, StepFrame, Zenon
<1>5. Reading'
  BY <1>2, NothingRead, Zenon
<1>6. HasRead'
  <2>1. now' = now
    BY <1>1, Zenon
  <2>2. IsWhole(Plain(tm), now, since)'
    BY <1>1, <2>1, ReadIsWhole, Zenon
  <2>3. QED
    BY <1>2, <2>2, Zenon DEF HasRead
<1>7. Started'
  BY <1>2, Zenon DEF Started
<1>8. Registered' /\ Rings'
  <2>1. ~ IsSet'
    BY <1>2, Zenon DEF IsSet
  <2>2. /\ pc' \notin {"write_minute", "write_second", "write_B", "read_C"}
        /\ pc' \notin {"write_second", "write_B", "read_C"} /\ pc' \notin {"write_B", "read_C"}
        /\ pc' # "read_C"
    BY <1>1
  <2>3. QED
    BY <2>1, <2>2, Zenon DEF Registered, Rings
<1>9. QED
  BY <1>4, <1>5, <1>6, <1>7, <1>8, Zenon DEF IInv

\* the time is converted, and time_init ends with it
LEMMA ConvertKeeps ==
  ASSUME IInv, Convert
  PROVE  IInv'
<1>1. /\ pc = "convert" /\ tm' = Plain(tm)
      /\ now' = now /\ flag' = flag /\ request' = request /\ late' = late /\ since' = since
      /\ serving' = serving /\ unmasked' = unmasked /\ alarm' = alarm /\ B_alarm' = B_alarm
  BY Zenon DEF Convert, chip, interrupts, Plain
<1>2. pc \notin Free /\ pc # "clock" /\ pc # "handler" /\ tm \in TimeRegisters
  BY <1>1 DEF IInv, Types, Free
<1>3. request.what # "none" /\ request \in Request /\ since <= MaxBusy
      /\ (request.what = "set_alarm" => request.secs >= 1 /\ request.secs <= DAY)
  BY <1>2, Zenon DEF IInv, Types, Requests
<1>4. \/ request.what = "time_init" /\ pc' = "idle" /\ startup_time' = mktime(tm')
      \/ request.what # "time_init" /\ pc' = "write_hour"
  BY Zenon DEF Convert
<1>5. pc' \in Free \cup Write /\ pc' \notin Read /\ pc' # "clock" /\ pc' # "handler"
      /\ pc' # "convert" /\ (pc' \in Write <=> pc' = "write_hour")
      /\ (pc' \in Free <=> pc' = "idle")
  BY <1>4 DEF Free, Write, Read
<1>6. request.what # "time_init" => request.what = "set_alarm"
  BY <1>3 DEF Request
<1>7. Types'
  <2>1. tm' \in TimeRegisters
    BY <1>1, <1>2, PlainIs, Zenon
  <2>2. pc' \in Free \cup {"handler", "handler_C"} \cup Read \cup {"convert"} \cup Write
    BY <1>5, Zenon
  <2>3. QED
    BY <1>1, <2>1, <2>2, Zenon DEF IInv, Types
<1>8. Requests'
  BY <1>1, <1>3, <1>4, <1>5, <1>6, Zenon DEF Requests
<1>9. Controllers'
  BY <1>1, <1>2, <1>5, Zenon DEF IInv, Controllers
<1>10. Reading'
  BY <1>5, NothingRead, Zenon
<1>11. HasRead'
  <2>1. IsWhole(Plain(tm), now, since)
    BY <1>1, Zenon DEF IInv, HasRead
  <2>2. IsWhole(tm, now, since)'
    BY <1>1, <2>1, Zenon
  <2>3. QED
    BY <1>5, <2>2, Zenon DEF HasRead
<1>12. Started'
  <2>1. pc' \in Free => startup_time' = mktime(tm')
    BY <1>4, <1>5, Zenon
  <2>2. QED
    BY <2>1, Zenon DEF Started
<1>13. Registered' /\ Rings'
  <2>1. ~ IsSet'
    <3>1. ASSUME pc' = "idle" PROVE request'.what # "set_alarm"
      BY <1>1, <1>4, <3>1
    <3>2. QED
      BY <1>5, <3>1, Zenon DEF IsSet
  <2>2. /\ pc' \notin {"write_minute", "write_second", "write_B", "read_C"}
        /\ pc' \notin {"write_second", "write_B", "read_C"} /\ pc' \notin {"write_B", "read_C"}
        /\ pc' # "read_C"
    BY <1>4
  <2>3. QED
    BY <2>1, <2>2, Zenon DEF Registered, Rings
<1>14. QED
  BY <1>7, <1>8, <1>9, <1>10, <1>11, <1>12, <1>13, Zenon DEF IInv

\* the accesses that set the alarm leave the time that was read alone
LEMMA WriteKeeps ==
  ASSUME IInv, pc \in Write, pc' \in Write,
         UNCHANGED <<now, flag, interrupts, tm, request, startup_time, since, late>>,
         alarm' \in AlarmRegisters, B_alarm' \in BOOLEAN, Registered'
  PROVE  IInv'
<1>1. /\ pc \notin Free /\ pc' \notin Free /\ pc # "handler" /\ pc' # "handler"
      /\ pc' # "convert" /\ pc' \notin Read
  BY DEF Write, Free, Read
<1>2. tm' \in TimeRegisters /\ request.what = "set_alarm"
  BY Zenon DEF IInv, Types, Requests
<1>3. Types' /\ Requests' /\ Controllers'
  BY <1>1, <1>2, StepFrame, Zenon
<1>4. Reading'
  BY <1>1, NothingRead, Zenon
<1>5. HasRead'
  BY <1>1, Zenon DEF IInv, HasRead
<1>6. Started' /\ Rings'
  BY <1>1, Zenon DEF Started, Rings, IsSet
<1>7. QED
  BY <1>3, <1>4, <1>5, <1>6, Zenon DEF IInv

\* the time of day of the alarm has digits
LEMMA TargetIs ==
  ASSUME IInv, pc \in Write
  PROVE  /\ bin_to_bcd(Target.hour) \in Nat /\ bin_to_bcd(Target.min) \in Nat
         /\ bin_to_bcd(Target.sec) \in Nat
<1>1. IsWhole(tm, now, since) /\ tm \in TimeRegisters
  BY Zenon DEF IInv, Types, HasRead
<1>2. PICK d \in Date : d = DateOf(tm)
  BY <1>1, Zenon DEF IsWhole
<1>3. Shows(tm, d)
  BY <1>1, <1>2, WholeShows, Zenon
<1>4. request.secs \in Nat /\ request.secs <= DAY
  BY DEF IInv, Types, Request, Requests
<1>5. PICK a : a = Target
  OBVIOUS
<1>6. a.sec \in Second /\ a.min \in Second /\ a.hour \in Hour
  BY <1>3, <1>4, <1>5, AlarmTimeIs, Zenon DEF Target
<1>7. a.sec \in Nat /\ a.min \in Nat /\ a.hour \in Nat
  BY <1>6, SMT DEF Second, Hour
<1>8. QED
  BY <1>5, <1>7, BcdIsInverse, Zenon

\* one alarm register changes
LEMMA AlarmWritten ==
  ASSUME NEW t \in AlarmRegisters, NEW v \in Nat
  PROVE  /\ [t EXCEPT !.sec = v] \in AlarmRegisters
         /\ [t EXCEPT !.min = v] \in AlarmRegisters
         /\ [t EXCEPT !.hour = v] \in AlarmRegisters
BY DEF AlarmRegisters

\* the alarm registers and register B are written
LEMMA WritesKeep ==
  ASSUME IInv, WriteHour \/ WriteMinute \/ WriteSecond \/ WriteB
  PROVE  IInv'
<1>1. /\ UNCHANGED <<now, flag, interrupts, tm, request, startup_time, since, late>>
      /\ pc \in Write /\ pc' \in Write
  BY DEF WriteHour, WriteMinute, WriteSecond, WriteB, WriteAlarm, Write
<1>2. alarm \in AlarmRegisters /\ B_alarm \in BOOLEAN /\ Registered
  BY Zenon DEF IInv, Types
<1>3. pc \notin Free /\ pc' \notin Free
  BY <1>1 DEF Write, Free
<1>4. ~ IsSet /\ ~ IsSet' /\ Target' = Target
  BY <1>1, <1>3, Zenon DEF IsSet, Target
<1>5. PICK hour \in Nat, min \in Nat, sec \in Nat :
        /\ hour = bin_to_bcd(Target.hour) /\ min = bin_to_bcd(Target.min)
        /\ sec = bin_to_bcd(Target.sec)
  BY <1>1, TargetIs, Zenon
<1>6. /\ bin_to_bcd(Target.hour)' = hour /\ bin_to_bcd(Target.min)' = min
      /\ bin_to_bcd(Target.sec)' = sec
  BY <1>4, <1>5, Zenon
<1>7. CASE WriteHour
  <2>1. /\ pc' = "write_minute" /\ B_alarm' = B_alarm
        /\ alarm' = [alarm EXCEPT !.hour = hour]
    <3>1. AlarmTime(tm, request.secs)["hour"] = Target.hour
      BY DEF Target
    <3>2. QED
      BY <1>5, <1>7, <3>1, Zenon DEF WriteHour, WriteAlarm
  <2>2. alarm' \in AlarmRegisters
    BY <1>2, <2>1, AlarmWritten, Zenon
  <2>3. alarm'.hour = hour
    BY <1>2, <2>1 DEF AlarmRegisters
  <2>4. pc' \notin {"write_second", "write_B", "read_C"} /\ pc' \notin {"write_B", "read_C"}
        /\ pc' # "read_C"
    BY <2>1
  <2>5. Registered'
    BY <1>4, <1>6, <2>3, <2>4, Zenon DEF Registered
  <2>6. QED
    BY <1>1, <1>2, <2>1, <2>2, <2>5, WriteKeeps, Zenon
<1>8. CASE WriteMinute
  <2>1. /\ pc = "write_minute" /\ pc' = "write_second" /\ B_alarm' = B_alarm
        /\ alarm' = [alarm EXCEPT !.min = min]
    <3>1. AlarmTime(tm, request.secs)["min"] = Target.min
      BY DEF Target
    <3>2. QED
      BY <1>5, <1>8, <3>1, Zenon DEF WriteMinute, WriteAlarm
  <2>2. alarm' \in AlarmRegisters
    BY <1>2, <2>1, AlarmWritten, Zenon
  <2>3. alarm'.min = min /\ alarm'.hour = alarm.hour
    BY <1>2, <2>1 DEF AlarmRegisters
  <2>4. alarm.hour = hour
    BY <1>2, <1>5, <2>1, Zenon DEF Registered
  <2>5. pc' \notin {"write_B", "read_C"} /\ pc' # "read_C"
    BY <2>1
  <2>6. Registered'
    BY <1>4, <1>6, <2>3, <2>4, <2>5, Zenon DEF Registered
  <2>7. QED
    BY <1>1, <1>2, <2>1, <2>2, <2>6, WriteKeeps, Zenon
<1>9. CASE WriteSecond
  <2>1. /\ pc = "write_second" /\ pc' = "write_B" /\ B_alarm' = B_alarm
        /\ alarm' = [alarm EXCEPT !.sec = sec]
    <3>1. AlarmTime(tm, request.secs)["sec"] = Target.sec
      BY DEF Target
    <3>2. QED
      BY <1>5, <1>9, <3>1, Zenon DEF WriteSecond, WriteAlarm
  <2>2. alarm' \in AlarmRegisters
    BY <1>2, <2>1, AlarmWritten, Zenon
  <2>3. alarm'.sec = sec /\ alarm'.min = alarm.min /\ alarm'.hour = alarm.hour
    BY <1>2, <2>1 DEF AlarmRegisters
  <2>4. alarm.hour = hour /\ alarm.min = min
    BY <1>2, <1>5, <2>1, Zenon DEF Registered
  <2>5. pc' # "read_C"
    BY <2>1
  <2>6. Registered'
    BY <1>4, <1>6, <2>3, <2>4, <2>5, Zenon DEF Registered
  <2>7. QED
    BY <1>1, <1>2, <2>1, <2>2, <2>6, WriteKeeps, Zenon
<1>10. CASE WriteB
  <2>1. pc = "write_B" /\ pc' = "read_C" /\ alarm' = alarm /\ B_alarm' = TRUE
    BY <1>10, Zenon DEF WriteB
  <2>2. alarm.hour = hour /\ alarm.min = min /\ alarm.sec = sec
    BY <1>2, <1>5, <2>1, Zenon DEF Registered
  <2>3. Registered'
    BY <1>6, <2>1, <2>2, Zenon DEF Registered
  <2>4. B_alarm' \in BOOLEAN
    BY <2>1, Zenon
  <2>5. QED
    BY <1>1, <1>2, <2>1, <2>3, <2>4, WriteKeeps, Zenon
<1>11. QED
  BY <1>7, <1>8, <1>9, <1>10, Zenon

\* set_alarm ends: what an alarm set before has asked for is gone
LEMMA FinishKeeps ==
  ASSUME IInv, FinishAlarm
  PROVE  IInv'
<1>1. /\ pc = "read_C" /\ pc' = "idle" /\ flag' = FALSE /\ requested' = requested \ {IRQ_RTC}
      /\ late' = (since >= request.secs)
      /\ now' = now /\ alarm' = alarm /\ B_alarm' = B_alarm /\ serving' = serving
      /\ unmasked' = unmasked /\ tm' = tm /\ request' = request /\ startup_time' = startup_time
      /\ since' = since
  BY Zenon DEF FinishAlarm, ReadC
<1>2. pc \in Write /\ pc # "clock" /\ pc # "handler"
  BY <1>1 DEF Write
<1>3. pc' \in Free /\ pc' \notin Write /\ pc' \notin Read /\ pc' # "convert"
      /\ pc' # "clock" /\ pc' # "handler"
  BY <1>1 DEF Write, Free, Read
<1>4. request.what = "set_alarm"
  BY <1>2, Zenon DEF IInv, Requests
<1>5. Types'
  <2>1. flag' \in BOOLEAN
    BY <1>1, Zenon
  <2>2. late' \in BOOLEAN
    BY <1>1
  <2>3. QED
    BY <1>1, <1>3, <2>1, <2>2, Zenon DEF IInv, Types
<1>6. Requests'
  BY <1>1, <1>3, Zenon DEF IInv, Requests
<1>7. Controllers'
  BY <1>1, <1>2, <1>3, Zenon DEF IInv, Controllers
<1>8. Reading'
  BY <1>3, NothingRead, Zenon
<1>9. HasRead'
  BY <1>1, <1>2, <1>3, Zenon DEF IInv, HasRead
<1>10. Started'
  BY <1>1, <1>4 DEF Started
<1>11. Registered'
  <2>1. Target' = Target
    BY <1>1, Zenon DEF Target
  <2>2. /\ alarm.hour = bin_to_bcd(Target.hour) /\ alarm.min = bin_to_bcd(Target.min)
        /\ alarm.sec = bin_to_bcd(Target.sec) /\ B_alarm
    BY <1>1, Zenon DEF IInv, Registered
  <2>3. B_alarm'
    BY <1>1, <2>2, SMT
  <2>4. QED
    BY <1>1, <2>1, <2>2, <2>3, Zenon DEF Registered
<1>12. Rings'
  <2>1. ~ late' => ~ (since' >= request'.secs)
    <3>1. since' >= request'.secs <=> since >= request.secs
      BY <1>1, Zenon
    <3>2. late' <=> since >= request.secs
      BY <1>1
    <3>3. QED
      BY <3>1, <3>2, Zenon
  <2>2. ~ flag' /\ IRQ_RTC \notin requested'
    BY <1>1, Zenon
  <2>3. QED
    BY <2>1, <2>2, Zenon DEF Rings
<1>13. QED
  BY <1>5, <1>6, <1>7, <1>8, <1>9, <1>10, <1>11, <1>12, Zenon DEF IInv

-----------------------------------------------------------------------------
(* The theorems.                                                             *)

\* the machine starts at a date
LEMMA StartIsADate ==
  ASSUME NEW d \in Starts
  PROVE  d \in Date
<1>1. d \in [sec : 0 .. 59, min : 0 .. 59, hour : 0 .. 23, wday : 1 .. 7,
            mday : 1 .. 31, mon : 1 .. 12, year : 1970 .. 2069]
  BY StartsAssumption, SMT
<1>2. \A y \in 1970 .. 2069 : y \in Year
  BY SMT DEF Year
<1>3. d \in Calendar
  BY <1>1, <1>2, SMT DEF Calendar, Second, Hour, WeekDay, MonthDay, Month
<1>4. QED
  BY <1>3, StartsAssumption, SMT DEF Date

\* the invariant holds in every initial state
LEMMA InitHolds ==
  ASSUME Init
  PROVE  IInv
<1>1. /\ now \in Date /\ pc = "idle" /\ request.what = "none" /\ serving = {}
      /\ unmasked = {IRQ_CLOCK}
  BY StartIsADate, SMT DEF Init, NoRequest, interrupt_init
<1>2. pc \in Free /\ pc \notin Read /\ pc \notin Write /\ pc # "convert"
  BY <1>1 DEF Free, Read, Write
<1>3. Types
  <2>1. alarm \in AlarmRegisters /\ tm \in TimeRegisters /\ request \in Request /\ since \in Nat
    BY DEF Init, AlarmRegisters, TimeRegisters, NoTime, NoRequest, Request
  <2>2. B_alarm \in BOOLEAN /\ flag \in BOOLEAN /\ late \in BOOLEAN
    BY Zenon DEF Init
  <2>3. QED
    BY <1>1, <1>2, <2>1, <2>2, Zenon DEF Types
<1>4. Requests
  BY <1>1, <1>2 DEF Requests
<1>5. Controllers
  BY <1>1 DEF Controllers, IRQ_CLOCK, IRQ_RTC
<1>6. Reading
  <2>1. ASSUME NEW i \in 2 .. 9 PROVE pc # Order[i]
    <3>1. i \in 1 .. 9
      OBVIOUS
    <3>2. QED
      BY <1>2, <3>1, OrderReads, Zenon
  <2>2. QED
    BY <2>1, Zenon DEF Reading
<1>7. HasRead
  BY <1>1, <1>2, Zenon DEF HasRead
<1>8. Started
  BY <1>1 DEF Started
<1>9. Registered /\ Rings
  <2>1. ~ IsSet
    BY <1>1 DEF IsSet
  <2>2. /\ pc \notin {"write_minute", "write_second", "write_B", "read_C"}
        /\ pc \notin {"write_second", "write_B", "read_C"} /\ pc \notin {"write_B", "read_C"}
        /\ pc # "read_C"
    BY <1>1
  <2>3. QED
    BY <2>1, <2>2, Zenon DEF Registered, Rings
<1>10. QED
  BY <1>3, <1>4, <1>5, <1>6, <1>7, <1>8, <1>9, Zenon DEF IInv

\* every step keeps the invariant
LEMMA StepHolds ==
  ASSUME IInv, [Next]_vars
  PROVE  IInv'
<1>1. CASE Tick \/ Wait
  BY <1>1, TickKeeps, Zenon
<1>2. CASE time_init \/ (\E secs \in Secs : set_alarm(secs)) \/ rtc_handler
  BY <1>2, CallKeeps, Zenon
<1>3. CASE rtc_init \/ Timer \/ clock_handler \/ send_eoi(32, "clock", "idle") \/ UNCHANGED vars
  BY <1>3, OtherCodeKeeps, Zenon
<1>4. CASE send_eoi(40, "handler", "handler_C") \/ HandlerReadsC
  BY <1>4, HandlerKeeps, Zenon
<1>5. CASE \E i \in 1 .. 8 : ReadRegister(i)
  BY <1>5, ReadKeeps, Zenon
<1>6. CASE TimeIsRead \/ TimeHasChanged \/ Convert
  BY <1>6, TimeIsReadKeeps, ReadAgainKeeps, ConvertKeeps, Zenon
<1>7. CASE WriteHour \/ WriteMinute \/ WriteSecond \/ WriteB
  BY <1>7, WritesKeep, Zenon
<1>8. CASE FinishAlarm
  BY <1>8, FinishKeeps, Zenon
<1>9. CASE Rest
  BY <1>9, OtherCodeKeeps, Zenon DEF Rest
<1>10. QED
  BY <1>1, <1>2, <1>3, <1>4, <1>5, <1>6, <1>7, <1>8, <1>9, Zenon DEF Next

\* everything the invariant says holds of every state of the clock, its code and the
\* controllers
THEOREM RtcInvariant == Spec => []IInv
<1>1. Init => IInv
  BY InitHolds, Zenon
<1>2. IInv /\ [Next]_vars => IInv'
  BY StepHolds, Zenon
<1>3. QED
  BY <1>1, <1>2, PTL DEF Spec

\* time_read: the time it returns is one the chip has shown, whatever carries between
\* its reads
THEOREM ReadsAreWhole == Spec => []TimeReadIsWhole
<1>1. IInv => TimeReadIsWhole
  <2> SUFFICES ASSUME IInv, pc \in Write
               PROVE  SecondsSince1970(ReadDate) + since = SecondsSince1970(now)
    BY Zenon DEF TimeReadIsWhole, Write
  <2>1. ReadDate = DateOf(tm)
    BY Zenon DEF ReadDate, DateOf
  <2>2. IsWhole(tm, now, since)
    BY Zenon DEF IInv, HasRead
  <2>3. QED
    BY <2>1, <2>2, Zenon DEF IsWhole
<1>2. QED
  BY <1>1, RtcInvariant, PTL

\* time_init and mktime: until the end of 2069, the last year the two digits of a year
\* are taken for, startup_time counts the seconds since 1970
THEOREM StartupIsRight == Spec => [](now.year <= LastYear => StartupTimeIsRight)
<1>1. IInv => (now.year <= LastYear => StartupTimeIsRight)
  <2> SUFFICES ASSUME IInv, now.year <= LastYear, pc = "idle", request.what = "time_init"
               PROVE  startup_time + since = SecondsSince1970(now)
    BY Zenon DEF StartupTimeIsRight
  <2>1. pc \in Free /\ request.what # "none"
    BY DEF Free
  <2>2. IsWhole(tm, now, since) /\ startup_time = mktime(tm) /\ tm \in TimeRegisters
        /\ now \in Date
    BY <2>1, Zenon DEF IInv, Types, HasRead, Started
  <2>3. PICK d \in Date : d = DateOf(tm)
    BY <2>2, Zenon DEF IsWhole
  <2>4. d.year <= LastYear
    <3>1. d.year <= now.year
      BY <2>2, <2>3, Zenon DEF IsWhole
    <3>2. d.year \in Nat /\ now.year \in Nat
      BY <2>2, DateFields, SMT DEF Year
    <3>3. QED
      BY <3>1, <3>2, SMT DEF LastYear
  <2>5. Shows(tm, d)
    BY <2>2, <2>3, WholeShows, Zenon
  <2>6. mktime(tm) = SecondsSince1970(d)
    BY <2>4, <2>5, MktimeIs, Zenon
  <2>7. SecondsSince1970(d) + since = SecondsSince1970(now)
    BY <2>2, <2>3, Zenon DEF IsWhole
  <2>8. QED
    BY <2>2, <2>6, <2>7, Zenon
<1>2. QED
  BY <1>1, RtcInvariant, PTL

\* set_alarm: the alarm rings after the seconds it was set for and not before, and its
\* interrupt finds nothing that keeps it from the CPU
THEOREM AlarmsAreInTime == Spec => []AlarmInTime
<1>1. IInv => AlarmInTime
  <2> SUFFICES ASSUME IInv, pc = "idle", request.what = "set_alarm", ~ late
               PROVE  /\ IRQ_RTC \in requested <=> since >= request.secs
                      /\ IRQ_RTC \in requested /\ IRQ_RTC \in unmasked => Delivers(IRQ_RTC)
    BY Zenon DEF AlarmInTime
  <2>1. IsSet
    BY DEF IsSet, Free
  <2>2. IRQ_RTC \in requested <=> since >= request.secs
    BY <2>1, Zenon DEF IInv, Rings
  <2>3. serving = {}
    BY DEF IInv, Controllers
  <2>4. Through(IRQ_RTC) = IRQ_CASCADE
    BY DEF Through, IRQ_RTC, Slave
  <2>5. IRQ_RTC \in unmasked => {IRQ_RTC, Through(IRQ_RTC)} \subseteq unmasked
    BY <2>4, Zenon DEF IInv, Controllers
  <2>6. QED
    BY <2>2, <2>3, <2>5, Zenon DEF Delivers
<1>2. QED
  BY <1>1, RtcInvariant, PTL
=============================================================================
