--------------------------------- MODULE Rtc ---------------------------------
(***************************************************************************)
(* The time of day and the alarm of the real-time clock (time.c, rtc.c and *)
(* the BCD conversions of stdlib.c), whose interrupt comes through both    *)
(* controllers of Interrupts.  The CMOS chip runs beside the code: it may  *)
(* tick between any two accesses to its registers, which the code makes    *)
(* one by one.                                                             *)
(*                                                                         *)
(* set_alarm and time_init are called by code that has interrupts off, so  *)
(* one call runs at a time and interrupts wait for its end.                *)
(***************************************************************************)
EXTENDS Interrupts, Sequences, FiniteSets

CONSTANTS
  Starts,    \* the dates the machine is started at
  Secs,      \* the arguments set_alarm is called with
  MaxCalls,  \* bound: calls of time_init, set_alarm and rtc_handler
  MaxBusy,   \* bound: ticks while the time is read, and while the alarm is set
  MaxLate    \* bound: ticks after the time an alarm is set for

DAY == 86400
IsLeap(y) == y % 4 = 0 /\ (y % 100 # 0 \/ y % 400 = 0)
LastDay(m, y) == IF m = 2 THEN IF IsLeap(y) THEN 29 ELSE 28
                 ELSE IF m \in {4, 6, 9, 11} THEN 30 ELSE 31

ASSUME StartsAssumption ==
  /\ Starts \subseteq [sec : 0 .. 59, min : 0 .. 59, hour : 0 .. 23, wday : 1 .. 7,
                       mday : 1 .. 31, mon : 1 .. 12, year : 1970 .. 2069]
  /\ \A d \in Starts : d.mday <= LastDay(d.mon, d.year)
ASSUME SecsAssumption == Secs \subseteq 1 .. DAY
\* a pass over the registers takes less than a minute
ASSUME BoundsAssumption == MaxCalls \in Nat /\ MaxLate \in Nat /\ MaxBusy \in 0 .. 59

VARIABLES
  now,           \* the chip: the date its registers show
  alarm,         \* the chip: the alarm registers, in BCD
  B_alarm,       \* the chip: the alarm interrupt is enabled in register B
  flag,          \* the chip: the alarm flag of register C, its interrupt line
  pc,            \* the register access the code makes next
  tm,            \* the time the call has read
  request,       \* the call that runs or ran last, and its argument
  startup_time,
  calls,         \* for the bound MaxCalls
  since,         \* history: the seconds since tm was read
  late           \* history: these were too many when set_alarm ended

chip == <<now, alarm, B_alarm, flag>>
code == <<pc, tm, request, startup_time, calls>>
vars == <<chip, interrupts, code, since, late>>

-----------------------------------------------------------------------------
(* The chip's calendar.                                                     *)

SecondOfDay(d) == d.sec + 60 * d.min + 3600 * d.hour

AtSecond(d, s) ==
  [d EXCEPT !.sec = s % 60, !.min = (s \div 60) % 60, !.hour = s \div 3600]

Tomorrow(d) ==
  LET last == d.mday = LastDay(d.mon, d.year)
  IN [AtSecond(d, 0) EXCEPT
        !.wday = (@ % 7) + 1,
        !.mday = IF last THEN 1 ELSE @ + 1,
        !.mon  = IF last THEN (@ % 12) + 1 ELSE @,
        !.year = IF last /\ d.mon = 12 THEN @ + 1 ELSE @]

NextSecond(d) ==
  IF SecondOfDay(d) = DAY - 1 THEN Tomorrow(d) ELSE AtSecond(d, SecondOfDay(d) + 1)

\* two decimal digits in the two halves of a byte
Digits(n) == 16 * (n \div 10) + (n % 10)

Registers(d) ==
  [sec |-> Digits(d.sec), min |-> Digits(d.min), hour |-> Digits(d.hour),
   wday |-> Digits(d.wday), mday |-> Digits(d.mday), mon |-> Digits(d.mon),
   year |-> Digits(d.year % 100), century |-> Digits(d.year \div 100)]

-----------------------------------------------------------------------------
(* The conversions.  tm_yday, which nothing reads, is left out.             *)

bcd_to_bin(v) == (v % 16) + (v \div 16) * 10
bin_to_bcd(v) == (v \div 10) * 16 + (v % 10)

\* the days before each month of a leap year
month == <<0, 31, 60, 91, 121, 152, 182, 213, 244, 274, 305, 335>>

YearsSince1970(t) == IF t.year >= 70 THEN t.year - 70 ELSE t.year - 70 + 100

\* mutant: in a leap year February has 28 days, too
FebruaryIsShort_Always(t) == t.mon > 2

FebruaryIsShort(t) == t.mon > 2 /\ (YearsSince1970(t) + 2) % 4 # 0

mktime(t) ==
  LET year == YearsSince1970(t)
  IN 365 * DAY * year + DAY * ((year + 1) \div 4) + month[t.mon] * DAY
       - (IF FebruaryIsShort(t) THEN DAY ELSE 0)
       + DAY * (t.mday - 1) + 3600 * t.hour + 60 * t.min + t.sec

\* the time set_alarm computes from the time it has read: carry by carry
AlarmTime(t, secs) ==
  LET sec == t.sec + (secs % 60)
      min == t.min + (IF sec >= 60 THEN 1 ELSE 0) + ((secs \div 60) % 60)
      hour == t.hour + (IF min >= 60 THEN 1 ELSE 0) + secs \div 3600
  IN [sec |-> sec % 60, min |-> min % 60, hour |-> hour % 24]

-----------------------------------------------------------------------------
NoTime == [sec |-> 0, min |-> 0, hour |-> 0, wday |-> 0, mday |-> 0, mon |-> 0,
           year |-> 0, century |-> 0]
NoRequest == [what |-> "none", secs |-> 0]

Init ==
  /\ now \in Starts
  /\ alarm = [sec |-> 0, min |-> 0, hour |-> 0]
  /\ B_alarm = FALSE /\ flag = FALSE
  /\ interrupt_init
  /\ pc = "idle" /\ tm = NoTime /\ request = NoRequest
  /\ startup_time = 0 /\ calls = 0
  /\ since = 0 /\ late = FALSE

-----------------------------------------------------------------------------
(* The chip runs.                                                           *)

Matches(d) == alarm = [r \in DOMAIN alarm |-> Registers(d)[r]]

\* the chip asks for an interrupt when its line rises: C has been read before
Show(d) ==
  /\ now' = d
  /\ flag' = (flag \/ (B_alarm /\ Matches(d)))
  /\ requested' = requested \cup (IF flag' /\ ~ flag THEN {IRQ_RTC} ELSE {})
  /\ UNCHANGED <<alarm, B_alarm, serving, unmasked, handler_table, code, late>>

\* while no call runs, time passes at once up to the second before the next
\* alarm or midnight
Quiet ==
  LET start == SecondOfDay(now)
      due == SecondOfDay([r \in DOMAIN alarm |-> bcd_to_bin(alarm[r])])
  IN (IF due > start THEN due ELSE DAY) - 1 - start
MayWait ==
  /\ pc = "idle" /\ request.what = "set_alarm" /\ ~ late
  /\ Quiet > 0 /\ since + Quiet < request.secs

Wait ==
  /\ MayWait
  /\ since' = since + Quiet
  /\ Show(AtSecond(now, SecondOfDay(now) + Quiet))

Tick ==
  /\ ~ MayWait
  /\ since < IF pc = "idle" THEN request.secs + MaxLate ELSE MaxBusy
  /\ since' = since + 1
  /\ Show(NextSecond(now))

-----------------------------------------------------------------------------
(* The code: every action makes one access to a register of the chip.       *)

Call(what, secs) ==
  /\ calls < MaxCalls
  /\ calls' = calls + 1
  /\ request' = [what |-> what, secs |-> secs]

time_init ==
  /\ pc = "idle" /\ Call("time_init", 0)
  /\ pc' = "sec" /\ since' = 0 /\ late' = FALSE
  /\ UNCHANGED <<chip, interrupts, tm, startup_time>>

set_alarm(secs) ==
  /\ pc = "idle" /\ Call("set_alarm", secs)
  /\ pc' = "sec" /\ since' = 0 /\ late' = FALSE
  /\ UNCHANGED <<chip, interrupts, tm, startup_time>>

\* the handler is installed and the interrupt unmasked in both controllers, which lets
\* a latched request through
rtc_init ==
  /\ pc = "idle" /\ IRQ_RTC \notin unmasked
  /\ set_interrupt_handler(IRQ_RTC, "rtc_handler")
  /\ set_interrupt_mask(IRQ_RTC)
  /\ UNCHANGED <<chip, requested, serving, code, since, late>>

\* other code has interrupts on when no call runs
Interrupted(irq, handler) ==
  /\ pc = "idle" /\ Accept(irq)
  /\ handler_table[irq] = handler
  /\ UNCHANGED <<unmasked, handler_table>>

\* the timer, whose handler only ends its interrupt here.  Bound: it asks when the chip
\* has asked and no call runs; alone its interrupt would leave everything as it was, and
\* a request that comes while a call runs is one that is there at its end
Timer ==
  /\ pc = "idle" /\ IRQ_CLOCK \notin requested /\ IRQ_RTC \in requested
  /\ requested' = requested \cup {IRQ_CLOCK}
  /\ UNCHANGED <<chip, serving, unmasked, handler_table, code, since, late>>

clock_handler ==
  /\ Interrupted(IRQ_CLOCK, "clock_handler")
  /\ pc' = "clock"
  /\ UNCHANGED <<chip, tm, request, startup_time, calls, since, late>>

rtc_handler ==
  /\ Interrupted(IRQ_RTC, "rtc_handler")
  /\ Call("set_alarm", 1)
  /\ pc' = "handler" /\ since' = 0 /\ late' = FALSE
  /\ UNCHANGED <<chip, tm, startup_time>>

send_eoi(vector, from, to) ==
  /\ pc = from /\ pc' = to
  /\ serving' = Served(vector)
  /\ UNCHANGED <<chip, requested, unmasked, handler_table, tm, request, startup_time,
                 calls, since, late>>

\* reading C clears the flag and lowers the line
ReadC ==
  /\ flag' = FALSE /\ requested' = requested \ {IRQ_RTC}
  /\ UNCHANGED <<now, alarm, B_alarm, serving, unmasked, handler_table>>

HandlerReadsC ==
  /\ pc = "handler_C" /\ pc' = "sec"
  /\ ReadC
  /\ UNCHANGED <<tm, request, startup_time, calls, since, late>>

\* the registers in the order time_read_bcd reads them
Order == <<"sec", "min", "hour", "wday", "mday", "mon", "year", "century", "again">>

ReadRegister(i) ==
  /\ pc = Order[i] /\ pc' = Order[i + 1]
  /\ tm' = [tm EXCEPT ![Order[i]] = Registers(now)[Order[i]]]
  /\ UNCHANGED <<chip, interrupts, request, startup_time, calls, since, late>>

\* mutant: the time is taken as read, whatever the seconds are now
TimeIsRead_Once ==
  /\ pc = "again" /\ pc' = "convert" /\ since' = 0
  /\ UNCHANGED <<chip, interrupts, tm, request, startup_time, calls, late>>

\* the seconds are read again: if they have changed, everything is
TimeIsRead ==
  /\ pc = "again" /\ tm.sec = Registers(now).sec
  /\ pc' = "convert" /\ since' = 0
  /\ UNCHANGED <<chip, interrupts, tm, request, startup_time, calls, late>>

TimeHasChanged ==
  /\ pc = "again" /\ tm.sec # Registers(now).sec
  /\ pc' = "sec"
  /\ UNCHANGED <<chip, interrupts, tm, request, startup_time, calls, since, late>>

\* the rest of time_read, and what its caller does with the time
Convert ==
  /\ pc = "convert"
  /\ tm' = [r \in DOMAIN tm |-> bcd_to_bin(tm[r])]
  /\ IF request.what = "time_init"
     THEN startup_time' = mktime(tm') /\ pc' = "idle"
     ELSE pc' = "write_hour" /\ UNCHANGED startup_time
  /\ UNCHANGED <<chip, interrupts, request, calls, since, late>>

WriteAlarm(r, next) ==
  /\ alarm' = [alarm EXCEPT ![r] = bin_to_bcd(AlarmTime(tm, request.secs)[r])]
  /\ pc' = next
  /\ UNCHANGED <<now, B_alarm, flag, interrupts, tm, request, startup_time,
                 calls, since, late>>

WriteHour == pc = "write_hour" /\ WriteAlarm("hour", "write_minute")
WriteMinute == pc = "write_minute" /\ WriteAlarm("min", "write_second")
WriteSecond == pc = "write_second" /\ WriteAlarm("sec", "write_B")

WriteB ==
  /\ pc = "write_B" /\ pc' = "read_C"
  /\ B_alarm' = TRUE
  /\ UNCHANGED <<now, alarm, flag, interrupts, tm, request, startup_time,
                 calls, since, late>>

FinishAlarm ==
  /\ pc = "read_C" /\ pc' = "idle"
  /\ ReadC
  /\ late' = (since >= request.secs)
  /\ UNCHANGED <<tm, request, startup_time, calls, since>>

\* a machine that has used its calls only shows the time
Rest == pc = "idle" /\ calls = MaxCalls /\ UNCHANGED vars

Next ==
  \/ Tick \/ Wait
  \/ time_init \/ \E secs \in Secs : set_alarm(secs)
  \/ rtc_init \/ Timer \/ clock_handler \/ send_eoi(32, "clock", "idle")
  \/ rtc_handler \/ send_eoi(40, "handler", "handler_C") \/ HandlerReadsC
  \/ \E i \in 1 .. 8 : ReadRegister(i)
  \/ TimeIsRead \/ TimeHasChanged \/ Convert
  \/ WriteHour \/ WriteMinute \/ WriteSecond \/ WriteB \/ FinishAlarm
  \/ Rest

Spec == Init /\ [][Next]_vars

-----------------------------------------------------------------------------
(* Properties.                                                              *)

\* What a date is in seconds, counted over the years and months themselves.
DaysOfYears(y) == 365 * (y - 1970) + Cardinality({l \in 1970 .. y - 1 : IsLeap(l)})
DayOfYear(d) ==
  LET before[m \in 1 .. 12] == IF m = 1 THEN 0 ELSE before[m - 1] + LastDay(m - 1, d.year)
  IN before[d.mon] + d.mday
SecondsSince1970(d) ==
  DAY * (DaysOfYears(d.year) + DayOfYear(d) - 1) + SecondOfDay(d)

\* A time that has been read is a time the chip has shown, not the fields of two:
\* the chip has moved on from it by the seconds that have passed, also when a tick
\* between two reads carries into minutes, days, months or the year.
ReadDate == [sec |-> tm.sec, min |-> tm.min, hour |-> tm.hour, wday |-> tm.wday,
             mday |-> tm.mday, mon |-> tm.mon, year |-> 100 * tm.century + tm.year]
TimeReadIsWhole ==
  pc \in {"write_hour", "write_minute", "write_second", "write_B", "read_C"} =>
    SecondsSince1970(ReadDate) + since = SecondsSince1970(now)

\* time_init: startup_time counts the seconds since 1970 up to the date it has read,
\* over leap years and the turn of the century.
StartupTimeIsRight ==
  pc = "idle" /\ request.what = "time_init" =>
    startup_time + since = SecondsSince1970(now)

\* set_alarm: the interrupt is asked for secs seconds after the time set_alarm has read,
\* not earlier and not later, whatever alarm was set before and whatever it matched
\* meanwhile, unless these seconds had passed before set_alarm was done; and nothing
\* that was served before keeps it from the CPU.
AlarmInTime ==
  pc = "idle" /\ request.what = "set_alarm" /\ ~ late =>
    /\ IRQ_RTC \in requested <=> since >= request.secs
    /\ IRQ_RTC \in requested /\ IRQ_RTC \in unmasked => Delivers(IRQ_RTC)
=============================================================================
