------------------------------ MODULE Calendar ------------------------------
(***************************************************************************)
(* The date and time functions PostgreSQL has and DataFusion does not:     *)
(* age, the justify family, make_timestamp and make_interval               *)
(* (vairedb-common, pg_datetime).  A moment is a civil date with the time  *)
(* of day as one count, UsecsPerSec to the second; an interval is months,  *)
(* days and a time, NanosPerUsec nanoseconds to its unit.  IntSpan and     *)
(* LongSpan are how many values an i32 and an i64 have.                    *)
(***************************************************************************)
EXTENDS Integers, Sequences

CONSTANTS Refused, UsecsPerSec, NanosPerUsec, IntSpan, LongSpan

UsecsPerDay == 86400 * UsecsPerSec
DaysPerMonth == 30

Interval(months, days, time) == [months |-> months, days |-> days, time |-> time]

\* Rust's division and remainder, which truncate towards zero.
Quot(a, b) == IF a >= 0 THEN a \div b ELSE -((-a) \div b)
Rem(a, b) == a - b * Quot(a, b)

Fits(x, span) == x \in -(span \div 2) .. (span \div 2) - 1

\* The arithmetic of a release build, and an `as` cast.
WrappedTo(x, span) == ((x + span \div 2) % span) - span \div 2
Wrapped(x) == WrappedTo(x, LongSpan)

\* interval: the components fit, the time as nanoseconds.
IntervalFrom(months, days, time) ==
  IF Fits(months, IntSpan) /\ Fits(days, IntSpan) /\ Fits(time * NanosPerUsec, LongSpan)
  THEN Interval(months, days, time) ELSE Refused

-----------------------------------------------------------------------------
(* The calendar, chrono's.                                                 *)

IsLeap(y) == y % 4 = 0 /\ (y % 100 = 0 => y % 400 = 0)

LengthOf(y, m) == IF m = 2 THEN IF IsLeap(y) THEN 29 ELSE 28
                  ELSE IF m \in {4, 6, 9, 11} THEN 30 ELSE 31

IsDate(y, m, d) == m \in 1 .. 12 /\ d \in 1 .. LengthOf(y, m)

\* Days of a non-leap year before a month.
Before == <<0, 31, 59, 90, 120, 151, 181, 212, 243, 273, 304, 334>>

\* Days since the day before 1 January of year 1.
DayNumber(y, m, d) ==
  365 * (y - 1) + (y - 1) \div 4 - (y - 1) \div 100 + (y - 1) \div 400
  + Before[m] + (IF m > 2 /\ IsLeap(y) THEN 1 ELSE 0) + d

Instant(c) == DayNumber(c.year, c.month, c.day) * UsecsPerDay + c.time

-----------------------------------------------------------------------------
(* age.                                                                    *)

DaysInMonth(y, m) ==
  IF m = 12 THEN DayNumber(y + 1, 1, 1) - DayNumber(y, 12, 1)
  ELSE DayNumber(y, m + 1, 1) - DayNumber(y, m, 1)

Difference(later, earlier, sign) ==
  [year |-> sign * (later.year - earlier.year), month |-> sign * (later.month - earlier.month),
   day |-> sign * (later.day - earlier.day), time |-> sign * (later.time - earlier.time)]

\* A time of day borrows one whole day, as its fields do one by one.
BorrowTime(d) ==
  IF d.time < 0 THEN [d EXCEPT !.time = d.time + UsecsPerDay, !.day = d.day - 1] ELSE d

RECURSIVE BorrowDays(_, _)
BorrowDays(d, length) ==
  IF d.day < 0 THEN BorrowDays([d EXCEPT !.day = d.day + length, !.month = d.month - 1], length) ELSE d

RECURSIVE BorrowMonths(_)
BorrowMonths(d) ==
  IF d.month < 0 THEN BorrowMonths([d EXCEPT !.month = d.month + 12, !.year = d.year - 1]) ELSE d

BorrowFrom(d, monthOf) ==
  BorrowMonths(BorrowDays(BorrowTime(d), DaysInMonth(monthOf.year, monthOf.month)))

Aged(sign, d) == IntervalFrom(sign * (d.year * 12 + d.month), sign * d.day, sign * d.time)

AgeOf(later, earlier) ==
  IF Instant(later) < Instant(earlier)
  THEN Aged(-1, BorrowFrom(Difference(later, earlier, -1), later))
  ELSE Aged(1, BorrowFrom(Difference(later, earlier, 1), earlier))

-----------------------------------------------------------------------------
(* justify_hours, justify_days and justify_interval.                       *)

HoursMoved(i) ==
  Interval(i.months, i.days + Quot(i.time, UsecsPerDay), Rem(i.time, UsecsPerDay))

DaysMoved(i) ==
  Interval(i.months + Quot(i.days, DaysPerMonth), Rem(i.days, DaysPerMonth), i.time)

MonthAgrees(i) ==
  IF i.months > 0 /\ (i.days < 0 \/ (i.days = 0 /\ i.time < 0))
  THEN Interval(i.months - 1, i.days + DaysPerMonth, i.time)
  ELSE IF i.months < 0 /\ (i.days > 0 \/ (i.days = 0 /\ i.time > 0))
       THEN Interval(i.months + 1, i.days - DaysPerMonth, i.time)
       ELSE i

DayAgrees(i) ==
  IF i.days > 0 /\ i.time < 0 THEN Interval(i.months, i.days - 1, i.time + UsecsPerDay)
  ELSE IF i.days < 0 /\ i.time > 0 THEN Interval(i.months, i.days + 1, i.time - UsecsPerDay)
  ELSE i

AgreeInSign(i) == DayAgrees(MonthAgrees(i))

Narrowed(i) == Interval(WrappedTo(i.months, IntSpan), WrappedTo(i.days, IntSpan), i.time)

Justify(i, unit) ==
  Narrowed(CASE unit = "hours" -> HoursMoved(i)
             [] unit = "days" -> DaysMoved(i)
             [] unit = "interval" -> AgreeInSign(DaysMoved(HoursMoved(i))))

-----------------------------------------------------------------------------
(* make_timestamp and make_interval; seconds are counts, so that a         *)
(* fraction of one can be given.                                           *)

\* PostgreSQL's calendar has no year zero.
Astronomical(y) == IF y < 0 THEN y + 1 ELSE y

Date(f) ==
  IF f.year = 0 \/ ~IsDate(Astronomical(f.year), f.month, f.day) THEN Refused
  ELSE <<DayNumber(Astronomical(f.year), f.month, f.day)>>

TimeOfDay(f) ==
  IF \/ f.hour \notin 0 .. 24
     \/ f.hour = 24 /\ (f.min > 0 \/ Quot(f.sec, UsecsPerSec) > 0)
     \/ f.min \notin 0 .. 59
     \/ Quot(f.sec, UsecsPerSec) \notin 0 .. 60
  THEN Refused
  ELSE <<((f.hour * 60 + f.min) * 60 + Quot(f.sec, UsecsPerSec)) * UsecsPerSec + Rem(f.sec, UsecsPerSec)>>

\* The instant of six fields, none of them NULL.
ToMicros(f) ==
  IF Date(f) = Refused \/ TimeOfDay(f) = Refused THEN Refused
  ELSE <<Date(f)[1] * UsecsPerDay + TimeOfDay(f)[1]>>

\* The fields a call left out are zero; those given are years, months, weeks,
\* days, hours, minutes and seconds.
FieldsAt(given) == [i \in 1 .. 7 |-> IF i <= Len(given) THEN given[i] ELSE 0]

IntervalOf(f) ==
  IntervalFrom(Wrapped(f[1] * 12 + f[2]), Wrapped(f[3] * 7 + f[4]),
               Wrapped((f[5] * 60 + f[6]) * 60 * UsecsPerSec + f[7]))
=============================================================================
