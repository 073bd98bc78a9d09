----------------------------- MODULE Comparison -----------------------------
(***************************************************************************)
(* The order of dateTimes (src/date_time.c), and the orders derived from   *)
(* it: of dates (src/date.c), times (src/time.c) and durations             *)
(* (src/duration.c), which are compared by adding them to four dateTimes.  *)
(*                                                                         *)
(* A client compares two values, then the same two the other way round.    *)
(***************************************************************************)
EXTENDS DateTimeSum, FiniteSetsExt

CONSTANTS
  Values,      \* The dateTimes compared, whole or only their dates or times
  Lengths,     \* The durations compared
  Starts       \* DateTimes that durations are added to, to judge their order

ASSUME ValuesAssumption ==
  \A v \in Values : IsReadable(v) \/ v \in Futures \cup Pasts

ASSUME LengthsAssumption == \A d \in Lengths : IsDuration(d)

ASSUME StartsAssumption == \A v \in Starts : IsReadable(v) /\ v.zone = Local

(* The years that the code names are years, and there are local values.    *)
ASSUME LimitsAssumption == MinYear <= 1696 /\ 1972 <= MaxYear /\ Local \in Zones

(* ExessOrder: the sign, doubled when the order is strict.                 *)
StrictlyLess == -2
MaybeLess == -1
Equal == 0
MaybeGreater == 1
StrictlyGreater == 2

-----------------------------------------------------------------------------
ToUtcBy(v, offset) == [Sum(v, offset) EXCEPT !.zone = Utc]

ToUtc(v) == ToUtcBy(v, UtcOffset(v))

-----------------------------------------------------------------------------
CompareField(l, r) ==
  IF l < r THEN StrictlyLess ELSE IF l = r THEN Equal ELSE StrictlyGreater

FieldNames == <<"month", "day", "hour", "minute", "second", "nanosecond">>

(* The first field in which they differ decides.  The nanoseconds of an    *)
(* infinity, unsigned here, are never reached except by another one.       *)
CompareFields(l, r) ==
  LET differing == {i \in DOMAIN FieldNames : l[FieldNames[i]] # r[FieldNames[i]]}
      first == FieldNames[Min(differing)]
  IN  IF differing = {} THEN Equal ELSE CompareField(l[first], r[first])

(* Mistake: the zones are ignored.                                         *)
CompareWithoutZones(lhs, rhs) ==
  IF lhs.year # rhs.year THEN CompareField(lhs.year, rhs.year)
  ELSE CompareFields(lhs, rhs)

(* compare_date_time_total.                                                *)
CompareTotal(lhs, rhs) ==
  IF lhs.year # rhs.year THEN CompareField(lhs.year, rhs.year)
  ELSE CompareFields(ToUtc(lhs), ToUtc(rhs))

FourteenHours(sign) == Duration(0, sign * 14 * 60 * 60, 0)

(* Mistake: the first of two incomparable values is put first.             *)
ComparePartialInOrder(lhs, rhs) ==
  LET below == CompareTotal(lhs, ToUtcBy(rhs, FourteenHours(-1)))
      above == CompareTotal(lhs, ToUtcBy(rhs, FourteenHours(1)))
  IN  IF below < 0 THEN below ELSE IF above > 0 THEN above ELSE MaybeLess

(* compare_date_time_partial: one is local, and takes every zone.          *)
ComparePartial(lhs, rhs) ==
  IF lhs.zone # Local
  THEN LET below == CompareTotal(lhs, ToUtcBy(rhs, FourteenHours(-1)))
           above == CompareTotal(lhs, ToUtcBy(rhs, FourteenHours(1)))
       IN  IF below < 0 THEN below ELSE IF above > 0 THEN above ELSE MaybeGreater
  ELSE LET below == CompareTotal(ToUtcBy(lhs, FourteenHours(1)), rhs)
           above == CompareTotal(ToUtcBy(lhs, FourteenHours(-1)), rhs)
       IN  IF below < 0 THEN below ELSE IF above > 0 THEN above ELSE MaybeLess

CompareDateTimes(lhs, rhs) ==
  IF (lhs.zone = Local) = (rhs.zone = Local)
  THEN CompareTotal(lhs, rhs)
  ELSE ComparePartial(lhs, rhs)

(* exess_compare_date and exess_compare_time.                              *)
OfDate(v) == [v EXCEPT !.hour = 0, !.minute = 0, !.second = 0, !.nanosecond = 0]
OfTime(v) == [v EXCEPT !.year = 1972, !.month = 12, !.day = 31]

-----------------------------------------------------------------------------
Start(y, mo) ==
  [year |-> y, month |-> mo, day |-> 1, zone |-> Local,
   hour |-> 0, minute |-> 0, second |-> 0, nanosecond |-> 0]

References == <<Start(1696, 9), Start(1697, 2), Start(1903, 3), Start(1903, 7)>>

OrderAt(v, l, r) == CompareDateTimes(Sum(v, l), Sum(v, r))

CompareLarger(l, r) ==
  IF l.months < r.months THEN MaybeLess
  ELSE IF r.months < l.months THEN MaybeGreater
  ELSE IF l.seconds < r.seconds THEN MaybeLess
  ELSE MaybeGreater

(* Mistake: only the first reference is tried.                             *)
CompareAtOne(l, r) == OrderAt(References[1], l, r)

(* compare_duration_partial.                                               *)
CompareDurationsPartial(l, r) ==
  LET orders == {OrderAt(References[i], l, r) : i \in DOMAIN References}
  IN  IF Cardinality(orders) = 1 THEN OrderAt(References[1], l, r)
                                 ELSE CompareLarger(l, r)

CompareDurations(l, r) ==
  IF l = r THEN Equal
  ELSE IF l.seconds = 0 /\ l.nanoseconds = 0 /\ r.seconds = 0 /\ r.nanoseconds = 0
  THEN CompareField(l.months, r.months)
  ELSE IF l.months = 0 /\ r.months = 0
  THEN IF l.seconds # r.seconds THEN CompareField(l.seconds, r.seconds)
                                ELSE CompareField(l.nanoseconds, r.nanoseconds)
  ELSE CompareDurationsPartial(l, r)

-----------------------------------------------------------------------------
VARIABLES
  kind,       \* What is compared: "dateTime", "date", "time" or "duration"
  lhs, rhs,   \* The values compared
  order,      \* The order found, or Unknown
  reversed    \* The order of rhs and lhs

vars == <<kind, lhs, rhs, order, reversed>>

Unknown == 99

Result(l, r) ==
  IF kind = "duration" THEN CompareDurations(l, r) ELSE CompareDateTimes(l, r)

Init ==
  /\ \/ kind = "dateTime" /\ lhs \in Values /\ rhs \in Values
     \/ kind = "date" /\ lhs \in {OfDate(v) : v \in Values \cap Finite}
                      /\ rhs \in {OfDate(v) : v \in Values \cap Finite}
     \/ kind = "time" /\ lhs \in {OfTime(v) : v \in Values \cap Finite}
                      /\ rhs \in {OfTime(v) : v \in Values \cap Finite}
     \/ kind = "duration" /\ lhs \in Lengths /\ rhs \in Lengths
  /\ order = Unknown
  /\ reversed = Unknown

Compare ==
  /\ order = Unknown
  /\ order' = Result(lhs, rhs)
  /\ UNCHANGED <<kind, lhs, rhs, reversed>>

CompareReversed ==
  /\ order # Unknown
  /\ reversed = Unknown
  /\ reversed' = Result(rhs, lhs)
  /\ UNCHANGED <<kind, lhs, rhs, order>>

Next == Compare \/ CompareReversed

Spec == Init /\ [][Next]_vars

-----------------------------------------------------------------------------
(* Where the references disagree about two durations, the months and the   *)
(* seconds decide, but these durations have the same months and seconds.   *)
Undecided ==
  /\ kind = "duration" /\ lhs # rhs
  /\ lhs.months = rhs.months /\ lhs.months # 0 /\ lhs.seconds = rhs.seconds
  /\ \E i \in DOMAIN References :
       OrderAt(References[i], lhs, rhs) # OrderAt(References[1], lhs, rhs)

(* Comparing the other way round gives the opposite order, of the same     *)
(* strictness: what a sort relies on.                                      *)
Antisymmetric ==
  (order # Unknown /\ reversed # Unknown /\ ~Undecided) => reversed = -order

(* The reference: the day and the second at which a value with an offset   *)
(* of so many seconds from UTC falls, and its nanosecond.                  *)
Moment(v, offset) ==
  LET second == v.hour * 3600 + v.minute * 60 + v.second - offset
  IN  IF v \in Futures THEN <<DayNumber(MaxYear + 1, 12, 31), 0, 0>>
      ELSE IF v \in Pasts THEN <<DayNumber(MinYear - 1, 1, 1), 0, 0>>
      ELSE <<DayNumber(v.year, v.month, v.day) + second \div 86400,
             second % 86400, v.nanosecond>>

Before(m, n) ==
  \/ m[1] < n[1]
  \/ m[1] = n[1] /\ m[2] < n[2]
  \/ m[1] = n[1] /\ m[2] = n[2] /\ m[3] < n[3]

(* A local value is taken to be in the zone with the given offset.         *)
MomentIn(v, offset) == Moment(v, IF v.zone = Local THEN offset ELSE v.zone * 900)

Precedes(l, r) ==
  IF (l.zone = Local) = (r.zone = Local)
  THEN Before(MomentIn(l, 0), MomentIn(r, 0))
  ELSE \A z \in {-56, 56} : Before(MomentIn(l, z * 900), MomentIn(r, z * 900))

(* What the order of two values should be.                                 *)
IsOrderInTime(o) ==
  IF Precedes(lhs, rhs) THEN o = StrictlyLess
  ELSE IF Precedes(rhs, lhs) THEN o = StrictlyGreater
  ELSE IF (lhs.zone = Local) = (rhs.zone = Local) THEN o = Equal
  ELSE o = IF lhs.zone = Local THEN MaybeLess ELSE MaybeGreater

(* What v is converted to when the two values are compared.                *)
Converted(v) ==
  IF v.zone = Local /\ lhs.zone # rhs.zone
  THEN {ToUtcBy(v, FourteenHours(1)), ToUtcBy(v, FourteenHours(-1))}
  ELSE {ToUtc(v)}

(* No conversion overflows, or leaves the year that was compared before.   *)
KeptByConversion ==
  \A v \in {lhs, rhs} : \A u \in Converted(v) :
    /\ v \in Finite => u \in Finite
    /\ u.year = v.year \/ (v.zone = Local /\ lhs.zone # rhs.zone)

(* Where no conversion leaves the year, values are in the order of time,   *)
(* and a local and a zoned value are comparable only if they are in that   *)
(* order in every zone.                                                    *)
InTimeWithinYear ==
  (kind # "duration" /\ order # Unknown /\ KeptByConversion) => IsOrderInTime(order)

(* The lesser sum with a dateTime is before the greater one.  Beyond the   *)
(* ends of the calendar they may be the same infinity, and a negative      *)
(* duration may reach the infinite past a day early, where a borrow leaves *)
(* a whole day in the hours.                                               *)
IsOrderedSum(v, lesser, greater) ==
  LET l == Sum(v, lesser)
      g == Sum(v, greater)
  IN  \/ Before(Moment(l, 0), Moment(g, 0))
      \/ l = g /\ l \notin Finite
      \/ g \in Pasts

(* A strict order of durations is the order of their sums with a dateTime. *)
IsOrderOfSums(v) ==
  /\ order = StrictlyLess => IsOrderedSum(v, lhs, rhs)
  /\ order = StrictlyGreater => IsOrderedSum(v, rhs, lhs)

(* Two sums with a reference are in the same year, but only one of them is *)
(* still in that year when they are converted to have their fields         *)
(* compared: the other one, now at the end of the year before, is taken to *)
(* be the later one.                                                       *)
NewYearBetween ==
  \E i \in DOMAIN References :
    LET l == Sum(References[i], lhs)
        r == Sum(References[i], rhs)
    IN  l.year = r.year /\ ToUtc(l).year # ToUtc(r).year

(* No reference comes before nine months of 276 days, as the first of May  *)
(* does: they are found less than, say, 275.5 days.                        *)
LessByNineMonths ==
  \/ order = StrictlyLess /\ lhs.months % 12 = 9
  \/ order = StrictlyGreater /\ rhs.months % 12 = 9

(* A strict order holds whatever the durations are added to, leap days and *)
(* short months included, if only one of the two has months and they are   *)
(* not negative (compare_duration_partial): then the four references stand *)
(* for all dateTimes, but for the two exceptions above.                    *)
StrictFromOneMonths ==
  (/\ kind = "duration" /\ order # Unknown
   /\ lhs.months >= 0 /\ rhs.months >= 0 /\ (lhs.months = 0 \/ rhs.months = 0)
   /\ ~NewYearBetween /\ ~LessByNineMonths)
     => \A v \in Starts : IsOrderOfSums(v)

-----------------------------------------------------------------------------
(* What the documentation says and the code does not do.                   *)

(* exess.h, exess_compare_date_time: "Less than, equal to, or greater than *)
(* zero if `lhs` is less than, equal to, or greater than `rhs`".           *)
InTime ==
  (/\ kind # "duration" /\ order # Unknown
   /\ \A v \in {lhs, rhs} : {v} \cup Converted(v) \subseteq Finite)
     => IsOrderInTime(order)

=============================================================================
