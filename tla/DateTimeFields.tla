--------------------------- MODULE DateTimeFields ---------------------------
(***************************************************************************)
(* The values of src/date_time.c and the parts of the sum of a dateTime    *)
(* and a duration, which exess_add_date_time_duration computes before its  *)
(* loop: DateTime adds that loop step by step, Comparison as a function.   *)
(***************************************************************************)
EXTENDS Integers, CArithmetic, Calendar

CONSTANTS
  MinYear, MaxYear,   \* INT16_MIN and INT16_MAX
  Zones               \* Time zones of the values read, in quarter hours

Local == 127          \* EXESS_LOCAL
Utc == 0              \* EXESS_UTC
Giga == 1000000000
UInt8Max == 255

(* UINT32_MAX in the nanoseconds of the infinite future, in the two's      *)
(* complement form in which the conversion to int32_t reads it.            *)
NanoMax == -1

ASSUME YearAssumption ==
  MinYear \in Int /\ MaxYear \in Int /\ MinYear <= MaxYear

ASSUME ZoneAssumption == Zones \subseteq (-56..56) \cup {Local}

AllZones == Zones \cup {Utc}

(* What a field can hold.  The bounds of minute, second, hour and          *)
(* nanosecond are one above those of a value that was read: a borrow of    *)
(* exactly one unit leaves the whole unit in the field (FieldOf).          *)
Finite ==
  [year: MinYear..MaxYear, month: 1..12, day: 1..31, zone: AllZones,
   hour: 0..24, minute: 0..60, second: 0..60, nanosecond: 0..Giga]

(* The same during the loop, which sets the day last.                      *)
Dayless ==
  [year: MinYear..MaxYear, month: 1..12, day: {0}, zone: AllZones,
   hour: 0..24, minute: 0..60, second: 0..60, nanosecond: 0..Giga]

IsDate(v) == v.day <= DaysInMonth(v.year, v.month)

(* What exess_read_date_time returns: 24 only as 24:00:00.                 *)
IsReadable(v) ==
  /\ v \in Finite
  /\ v.zone \in Zones
  /\ IsDate(v)
  /\ v.minute <= 59 /\ v.second <= 59 /\ v.nanosecond < Giga
  /\ v.hour = 24 => (v.minute = 0 /\ v.second = 0 /\ v.nanosecond = 0)

(* A duration has one sign, and less than a second in its nanoseconds.     *)
IsDuration(d) ==
  /\ d \in [months: Int, seconds: Int, nanoseconds: (1 - Giga)..(Giga - 1)]
  /\ \/ d.months >= 0 /\ d.seconds >= 0 /\ d.nanoseconds >= 0
     \/ d.months <= 0 /\ d.seconds <= 0 /\ d.nanoseconds <= 0

Duration(m, s, n) == [months |-> m, seconds |-> s, nanoseconds |-> n]

InfiniteFuture(zone) ==
  [year |-> MaxYear, month |-> UInt8Max, day |-> UInt8Max, zone |-> zone,
   hour |-> UInt8Max, minute |-> UInt8Max, second |-> UInt8Max,
   nanosecond |-> NanoMax]

(* Mistake: the infinite past as the first day of the first year.          *)
EarliestDay(zone) ==
  [year |-> MinYear, month |-> 1, day |-> 1, zone |-> zone,
   hour |-> 0, minute |-> 0, second |-> 0, nanosecond |-> 0]

InfinitePast(zone) ==
  [year |-> MinYear, month |-> 0, day |-> 0, zone |-> zone,
   hour |-> 0, minute |-> 0, second |-> 0, nanosecond |-> 0]

Futures == {InfiniteFuture(z) : z \in AllZones}
Pasts == {InfinitePast(z) : z \in AllZones}

DateTimes == Finite \cup Futures \cup Pasts

-----------------------------------------------------------------------------
(* The parts of the sum.                                                   *)

(* modulo and quotient of the code, with its low and high 1 and 13.        *)
MonthModulo(a) == CRem(a - 1, 12) + 1
MonthQuotient(a) == CDiv(a - 1, 12)

(* Mistake: a month of zero or less is not brought back into the year.     *)
SumMonthUnborrowed(v, d) == MonthModulo(v.month + CRem(d.months, 12))

SumMonth(v, d) ==
  LET temp == v.month + CRem(d.months, 12)
  IN  IF temp <= 0 THEN 12 + MonthModulo(temp) ELSE MonthModulo(temp)

CarryMonths(v, d) ==
  LET temp == v.month + CRem(d.months, 12)
  IN  IF temp <= 0 THEN MonthQuotient(temp) - 1 ELSE MonthQuotient(temp)

SumYear(v, d) == v.year + CDiv(d.months, 12) + CarryMonths(v, d)

(* Mistakes in add_field: a sum of zero taken as negative, a borrow of one *)
(* unit forgotten.                                                         *)
FieldOfZeroBorrows(temp, max) ==
  IF temp <= 0 THEN max + CRem(temp, max) ELSE CRem(temp, max)

CarryOfForgotten(temp, max) == CDiv(temp, max)

(* add_field: what a sum of two fields and a carry leaves in the field,    *)
(* and what it carries to the next one.                                    *)
FieldOf(temp, max) ==
  IF temp < 0 THEN max + CRem(temp, max) ELSE CRem(temp, max)

CarryOf(temp, max) ==
  IF temp < 0 THEN CDiv(temp, max) - 1 ELSE CDiv(temp, max)

NanosecondSum(v, d) == v.nanosecond + d.nanoseconds

SecondSum(v, d) ==
  v.second + CRem(d.seconds, 60) + CarryOf(NanosecondSum(v, d), Giga)

MinuteSum(v, d) ==
  v.minute + CRem(CDiv(d.seconds, 60), 60) + CarryOf(SecondSum(v, d), 60)

HourSum(v, d) ==
  v.hour + CRem(CDiv(CDiv(d.seconds, 60), 60), 24) + CarryOf(MinuteSum(v, d), 60)

DaySum(v, d) == v.day + CDiv(d.seconds, 86400) + CarryOf(HourSum(v, d), 24)

(* The fields other than the day, before carry_set_day.                    *)
SumFields(v, d) ==
  [year |-> SumYear(v, d), month |-> SumMonth(v, d), day |-> 0,
   zone |-> v.zone,
   hour |-> FieldOf(HourSum(v, d), 24),
   minute |-> FieldOf(MinuteSum(v, d), 60),
   second |-> FieldOf(SecondSum(v, d), 60),
   nanosecond |-> FieldOf(NanosecondSum(v, d), Giga)]

UtcOffset(v) == Duration(0, -v.zone * 15 * 60, 0)

-----------------------------------------------------------------------------
(* The reference: the duration is added to the linear time of the value,   *)
(* whose months have been moved without changing the day of the month.     *)

MonthNumber(v, d) == 12 * v.year + v.month - 1 + d.months

ShiftedDay(v, d) ==
  DayNumber(MonthNumber(v, d) \div 12, (MonthNumber(v, d) % 12) + 1, v.day)

SecondOfDay(v) == v.hour * 3600 + v.minute * 60 + v.second

(* Day number n and the time of day of w are exactly d after v.            *)
Reaches(v, d, n, w) ==
  LET nanos == w.nanosecond - v.nanosecond - d.nanoseconds
  IN  /\ nanos % Giga = 0
      /\ SecondOfDay(w) - SecondOfDay(v) + nanos \div Giga
           = d.seconds - 86400 * (n - ShiftedDay(v, d))

(* The day that v + d falls on, had the calendar no limits.                *)
DayReached(v, d) ==
  ShiftedDay(v, d)
    + (SecondOfDay(v) + d.seconds + (v.nanosecond + d.nanoseconds) \div Giga)
        \div 86400

(* The fields of a normal value: those of a value that was read, with no   *)
(* midnight at the end of the day.                                         *)
IsNormal(v) ==
  v.hour <= 23 /\ v.minute <= 59 /\ v.second <= 59 /\ v.nanosecond < Giga

=============================================================================
