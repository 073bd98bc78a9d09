--------------------------- MODULE CalendarProofs ---------------------------
(***************************************************************************)
(* Lemmas about the division of C, the calendar and the sum of the fields: *)
(* the days that days_in_month counts add up to the linear day number, the *)
(* fields and carries of a sum to the time of the reference, and months in *)
(* a row to the fewest and the most days from some months that are known.  *)
(***************************************************************************)
EXTENDS DateTimeFields, TLAPS

-----------------------------------------------------------------------------
(* Quotient and remainder by each divisor the date arithmetic uses: the    *)
(* remainder has the sign of the dividend and is smaller than the divisor. *)

(* Division in C by 12: quotient and remainder account for the whole, and  *)
(* have the sign of the dividend.                                          *)
LEMMA DivRem12 ==
  ASSUME NEW a \in Int
  PROVE  /\ CDiv(a, 12) \in Int /\ CRem(a, 12) \in Int
         /\ CRem(a, 12) = a - 12 * CDiv(a, 12)
         /\ a >= 0 => 0 <= CRem(a, 12) /\ CRem(a, 12) < 12 /\ CDiv(a, 12) >= 0
         /\ a <= 0 => -12 < CRem(a, 12) /\ CRem(a, 12) <= 0 /\ CDiv(a, 12) <= 0
BY DEF CDiv, CRem

(* The same by 24.                                                         *)
LEMMA DivRem24 ==
  ASSUME NEW a \in Int
  PROVE  /\ CDiv(a, 24) \in Int /\ CRem(a, 24) \in Int
         /\ CRem(a, 24) = a - 24 * CDiv(a, 24)
         /\ a >= 0 => 0 <= CRem(a, 24) /\ CRem(a, 24) < 24 /\ CDiv(a, 24) >= 0
         /\ a <= 0 => -24 < CRem(a, 24) /\ CRem(a, 24) <= 0 /\ CDiv(a, 24) <= 0
BY DEF CDiv, CRem

(* The same by 60.                                                         *)
LEMMA DivRem60 ==
  ASSUME NEW a \in Int
  PROVE  /\ CDiv(a, 60) \in Int /\ CRem(a, 60) \in Int
         /\ CRem(a, 60) = a - 60 * CDiv(a, 60)
         /\ a >= 0 => 0 <= CRem(a, 60) /\ CRem(a, 60) < 60 /\ CDiv(a, 60) >= 0
         /\ a <= 0 => -60 < CRem(a, 60) /\ CRem(a, 60) <= 0 /\ CDiv(a, 60) <= 0
BY DEF CDiv, CRem

(* The same by the seconds of a day.                                       *)
LEMMA DivRemDay ==
  ASSUME NEW a \in Int
  PROVE  /\ CDiv(a, 86400) \in Int /\ CRem(a, 86400) \in Int
         /\ CRem(a, 86400) = a - 86400 * CDiv(a, 86400)
         /\ a >= 0 => 0 <= CRem(a, 86400) /\ CRem(a, 86400) < 86400 /\ CDiv(a, 86400) >= 0
         /\ a <= 0 => -86400 < CRem(a, 86400) /\ CRem(a, 86400) <= 0 /\ CDiv(a, 86400) <= 0
BY DEF CDiv, CRem

(* The same by the nanoseconds of a second.                                *)
LEMMA DivRemGiga ==
  ASSUME NEW a \in Int
  PROVE  /\ CDiv(a, 1000000000) \in Int /\ CRem(a, 1000000000) \in Int
         /\ CRem(a, 1000000000) = a - 1000000000 * CDiv(a, 1000000000)
         /\ a >= 0 => 0 <= CRem(a, 1000000000) /\ CRem(a, 1000000000) < 1000000000 /\ CDiv(a, 1000000000) >= 0
         /\ a <= 0 => -1000000000 < CRem(a, 1000000000) /\ CRem(a, 1000000000) <= 0 /\ CDiv(a, 1000000000) <= 0
BY DEF CDiv, CRem

(* Quotients and remainders are integers.                                  *)
LEMMA DivRemInts ==
  ASSUME NEW a \in Int
  PROVE  /\ CDiv(a, 12) \in Int /\ CRem(a, 12) \in Int
         /\ CDiv(a, 24) \in Int /\ CRem(a, 24) \in Int
         /\ CDiv(a, 60) \in Int /\ CRem(a, 60) \in Int
         /\ CDiv(a, 86400) \in Int
BY DEF CDiv, CRem

(* The day, hour, minute and second that the code takes out of a number of *)
(* seconds, of either sign, are that number again: both splits of it into  *)
(* days leave less than a day, with the sign of the number.                *)
LEMMA SplitSeconds ==
  ASSUME NEW s \in Int
  PROVE  s - 86400 * CDiv(s, 86400)
           = 3600 * CRem(CDiv(CDiv(s, 60), 60), 24)
               + 60 * CRem(CDiv(s, 60), 60) + CRem(s, 60)
<1> DEFINE q1 == CDiv(s, 60)
           q2 == CDiv(q1, 60)
           q3 == CDiv(q2, 24)
           r1 == CRem(s, 60)
           r2 == CRem(q1, 60)
           r3 == CRem(q2, 24)
<1>1. q1 \in Int /\ r1 \in Int /\ r1 = s - 60 * q1
  BY DivRem60
<1>2. q2 \in Int /\ r2 \in Int /\ r2 = q1 - 60 * q2
  BY <1>1, DivRem60
<1>3. q3 \in Int /\ r3 \in Int /\ r3 = q2 - 24 * q3
  BY <1>2, DivRem24
<1>4. s - 86400 * q3 = 3600 * r3 + 60 * r2 + r1
  BY <1>1, <1>2, <1>3
<1>5. CDiv(s, 86400) \in Int /\ q3 \in Int
  BY <1>3, DivRemDay
<1>6. CASE s >= 0
  <2>1. q1 >= 0 /\ 0 <= r1 /\ r1 < 60
    BY <1>6, DivRem60
  <2>2. q2 >= 0 /\ 0 <= r2 /\ r2 < 60
    BY <1>1, <2>1, DivRem60
  <2>3. 0 <= r3 /\ r3 < 24
    BY <1>2, <2>2, DivRem24
  <2>4. 0 <= s - 86400 * CDiv(s, 86400) /\ s - 86400 * CDiv(s, 86400) < 86400
    BY <1>6, DivRemDay
  <2>5. 0 <= s - 86400 * q3 /\ s - 86400 * q3 < 86400
    BY <1>1, <1>2, <1>3, <1>4, <2>1, <2>2, <2>3
  <2>6. CDiv(s, 86400) = q3
    BY <1>5, <2>4, <2>5
  <2> QED
    BY <1>4, <2>6
<1>7. CASE s <= 0
  <2>1. q1 <= 0 /\ -60 < r1 /\ r1 <= 0
    BY <1>7, DivRem60
  <2>2. q2 <= 0 /\ -60 < r2 /\ r2 <= 0
    BY <1>1, <2>1, DivRem60
  <2>3. -24 < r3 /\ r3 <= 0
    BY <1>2, <2>2, DivRem24
  <2>4. -86400 < s - 86400 * CDiv(s, 86400) /\ s - 86400 * CDiv(s, 86400) <= 0
    BY <1>7, DivRemDay
  <2>5. -86400 < s - 86400 * q3 /\ s - 86400 * q3 <= 0
    BY <1>1, <1>2, <1>3, <1>4, <2>1, <2>2, <2>3
  <2>6. CDiv(s, 86400) = q3
    BY <1>5, <2>4, <2>5
  <2> QED
    BY <1>4, <2>6
<1> QED
  BY <1>6, <1>7

(* The parts of that split are integers.                                   *)
LEMMA SplitInts ==
  ASSUME NEW s \in Int
  PROVE  /\ CRem(s, 60) \in Int
         /\ CRem(CDiv(s, 60), 60) \in Int
         /\ CRem(CDiv(CDiv(s, 60), 60), 24) \in Int
         /\ CDiv(s, 86400) \in Int
<1>1. CDiv(s, 60) \in Int /\ CRem(s, 60) \in Int
  BY DivRemInts
<1>2. CDiv(CDiv(s, 60), 60) \in Int /\ CRem(CDiv(s, 60), 60) \in Int
  BY <1>1, DivRemInts
<1>3. CRem(CDiv(CDiv(s, 60), 60), 24) \in Int
  BY <1>2, DivRemInts
<1>4. CDiv(s, 86400) \in Int
  BY DivRemInts
<1> QED
  BY <1>1, <1>2, <1>3, <1>4

-----------------------------------------------------------------------------
(* The calendar.                                                           *)

(* Every month has 28 to 31 days.                                          *)
LEMMA DaysInMonthRange ==
  ASSUME NEW year \in Int, NEW month \in 1..12
  PROVE  DaysInMonth(year, month) \in 28..31
BY DEF DaysInMonth

(* The days before a year and before a month are integers.                 *)
LEMMA DaysBeforeInts ==
  ASSUME NEW year \in Int, NEW month \in 1..12
  PROVE  DaysBeforeYear(year) \in Int /\ DaysBeforeMonth(year, month) \in Int
<1>1. DaysBeforeYear(year) \in Int
  BY DEF DaysBeforeYear
<1>2. DaysBeforeMonth(year, month) \in Int
  BY DEF DaysBeforeMonth
<1> QED BY <1>1, <1>2

(* The next month begins after as many days as this one has.               *)
LEMMA MonthStep ==
  ASSUME NEW year \in Int, NEW month \in 1..11
  PROVE  DaysBeforeMonth(year, month + 1)
           = DaysBeforeMonth(year, month) + DaysInMonth(year, month)
<1>1. CASE month \in {1, 2}
  BY <1>1 DEF DaysBeforeMonth, DaysInMonth
<1>2. CASE month \in {3, 4, 5, 6, 7}
  BY <1>2 DEF DaysBeforeMonth, DaysInMonth
<1>3. CASE month \in {8, 9, 10, 11}
  BY <1>3 DEF DaysBeforeMonth, DaysInMonth
<1> QED BY <1>1, <1>2, <1>3

(* And the next year after December: this is where the rule for leap years *)
(* in the code meets the count of leap years in the reference.             *)
LEMMA YearStep ==
  ASSUME NEW year \in Int
  PROVE  /\ DaysBeforeYear(year + 1)
              = DaysBeforeYear(year) + DaysBeforeMonth(year, 12)
                  + DaysInMonth(year, 12)
         /\ DaysBeforeMonth(year + 1, 1) = 0
<1> DEFINE four == (year + 4) \div 4 - (year + 3) \div 4
           hundred == (year + 100) \div 100 - (year + 99) \div 100
           fourHundred == (year + 400) \div 400 - (year + 399) \div 400
<1>1. four = IF year % 4 = 0 THEN 1 ELSE 0
  OBVIOUS
<1>2. hundred = IF year % 100 = 0 THEN 1 ELSE 0
  OBVIOUS
<1>3. fourHundred = IF year % 400 = 0 THEN 1 ELSE 0
  OBVIOUS
<1>4. (year % 400 = 0 => year % 100 = 0) /\ (year % 100 = 0 => year % 4 = 0)
  OBVIOUS
<1>5. DaysBeforeYear(year + 1) - DaysBeforeYear(year)
        = 365 + four - hundred + fourHundred
  BY DEF DaysBeforeYear
<1>6. DaysBeforeMonth(year, 12) = 334 + IF IsLeapYear(year) THEN 1 ELSE 0
  BY DEF DaysBeforeMonth
<1>7. DaysInMonth(year, 12) = 31
  BY DEF DaysInMonth
<1>8. four - hundred + fourHundred = IF IsLeapYear(year) THEN 1 ELSE 0
  BY <1>1, <1>2, <1>3, <1>4 DEF IsLeapYear
<1>9. DaysBeforeMonth(year + 1, 1) = 0
  BY DEF DaysBeforeMonth
<1>10. DaysBeforeYear(year + 1) \in Int /\ DaysBeforeYear(year) \in Int
  BY DEF DaysBeforeYear
<1> QED
  BY <1>5, <1>6, <1>7, <1>8, <1>9, <1>10

(* Carrying or borrowing the days of a month does not change the day       *)
(* meant: the four ways in which carry_set_day moves to another month.     *)
LEMMA CarrySame ==
  ASSUME NEW year \in Int, NEW day \in Int, NEW month \in 1..11
  PROVE  DayNumber(year, month + 1, day - DaysInMonth(year, month))
           = DayNumber(year, month, day)
<1>1. DaysInMonth(year, month) \in Int
  <2>1. month \in 1..12
    OBVIOUS
  <2> QED BY <2>1, DaysInMonthRange
<1>2. DaysBeforeYear(year) \in Int /\ DaysBeforeMonth(year, month) \in Int
  <2>1. month \in 1..12
    OBVIOUS
  <2> QED BY <2>1, DaysBeforeInts
<1> QED BY <1>1, <1>2, MonthStep DEF DayNumber

(* To borrow the month before, in the same year, stays on the same day.    *)
LEMMA BorrowSame ==
  ASSUME NEW year \in Int, NEW day \in Int, NEW month \in 2..12
  PROVE  DayNumber(year, month - 1, day + DaysInMonth(year, month - 1))
           = DayNumber(year, month, day)
<1> DEFINE days == DaysInMonth(year, month - 1)
<1>1. month - 1 \in 1..11 /\ (month - 1) + 1 = month
  OBVIOUS
<1>2. days \in Int
  <2>1. month - 1 \in 1..12
    BY <1>1
  <2> QED BY <2>1, DaysInMonthRange
<1>3. day + days \in Int /\ (day + days) - days = day
  BY <1>2
<1>4. DayNumber(year, (month - 1) + 1, (day + days) - days)
        = DayNumber(year, month - 1, day + days)
  BY <1>1, <1>3, CarrySame
<1> QED BY <1>1, <1>3, <1>4

(* To carry December into the next year stays on the same day.             *)
LEMMA CarrySameYear ==
  ASSUME NEW year \in Int, NEW day \in Int
  PROVE  DayNumber(year + 1, 1, day - DaysInMonth(year, 12))
           = DayNumber(year, 12, day)
<1>1. DaysInMonth(year, 12) \in Int
  <2>1. 12 \in 1..12
    OBVIOUS
  <2> QED BY <2>1, DaysInMonthRange
<1>2. DaysBeforeYear(year) \in Int /\ DaysBeforeMonth(year, 12) \in Int
  <2>1. 12 \in 1..12
    OBVIOUS
  <2> QED BY <2>1, DaysBeforeInts
<1> QED BY <1>1, <1>2, YearStep DEF DayNumber

(* To borrow December of the year before stays on the same day.            *)
LEMMA BorrowSameYear ==
  ASSUME NEW year \in Int, NEW day \in Int
  PROVE  DayNumber(year - 1, 12, day + DaysInMonth(year - 1, 12))
           = DayNumber(year, 1, day)
<1> DEFINE days == DaysInMonth(year - 1, 12)
<1>1. year - 1 \in Int /\ (year - 1) + 1 = year
  OBVIOUS
<1>2. days \in Int
  <2>1. 12 \in 1..12
    OBVIOUS
  <2> QED BY <1>1, <2>1, DaysInMonthRange
<1>3. day + days \in Int /\ (day + days) - days = day
  BY <1>2
<1>4. DayNumber((year - 1) + 1, 1, (day + days) - days)
        = DayNumber(year - 1, 12, day + days)
  BY <1>1, <1>3, CarrySameYear
<1> QED BY <1>1, <1>3, <1>4

(* A later year begins on a later day.                                     *)
LEMMA YearsInOrder ==
  ASSUME NEW y \in Int, NEW z \in Int, y <= z
  PROVE  DaysBeforeYear(y) <= DaysBeforeYear(z)
<1>1. /\ (y + 3) \div 4 <= (z + 3) \div 4
      /\ (y + 399) \div 400 <= (z + 399) \div 400
  OBVIOUS
<1>2. (z + 99) \div 100 - (y + 99) \div 100 <= z - y
  OBVIOUS
<1>3. /\ (y + 3) \div 4 \in Int /\ (y + 99) \div 100 \in Int
      /\ (y + 399) \div 400 \in Int /\ (z + 3) \div 4 \in Int
      /\ (z + 99) \div 100 \in Int /\ (z + 399) \div 400 \in Int
  OBVIOUS
<1> QED BY <1>1, <1>2, <1>3 DEF DaysBeforeYear

(* The months of a year follow each other: no month begins before January, *)
(* and none begins after December.                                         *)
LEMMA MonthsInOrder ==
  ASSUME NEW year \in Int, NEW month \in 1..12
  PROVE  /\ 0 <= DaysBeforeMonth(year, month)
         /\ DaysBeforeMonth(year, month) <= DaysBeforeMonth(year, 12)
BY DEF DaysBeforeMonth

(* A day of a month that comes after a year is after the last day of the   *)
(* year.                                                                   *)
LEMMA AfterYear ==
  ASSUME NEW limit \in Int, NEW year \in Int, limit < year,
         NEW month \in 1..12, NEW day \in Int, 1 <= day
  PROVE  DayNumber(limit, 12, 31) < DayNumber(year, month, day)
<1>1. DaysBeforeYear(limit + 1) <= DaysBeforeYear(year)
  BY YearsInOrder
<1>2. 0 <= DaysBeforeMonth(year, month)
  BY MonthsInOrder
<1>3. DaysBeforeYear(limit + 1)
        = DaysBeforeYear(limit) + DaysBeforeMonth(limit, 12) + 31
  BY YearStep DEF DaysInMonth
<1>4. /\ DaysBeforeYear(limit) \in Int /\ DaysBeforeMonth(limit, 12) \in Int
      /\ DaysBeforeYear(limit + 1) \in Int
      /\ DaysBeforeYear(year) \in Int /\ DaysBeforeMonth(year, month) \in Int
  <2>1. 12 \in 1..12 /\ limit + 1 \in Int
    OBVIOUS
  <2> QED BY <2>1, DaysBeforeInts
<1> QED BY <1>1, <1>2, <1>3, <1>4 DEF DayNumber

(* And a day, up to the 31st, of a month that comes before a year is       *)
(* before the first day of the year, whether or not the month has the day. *)
LEMMA BeforeYear ==
  ASSUME NEW limit \in Int, NEW year \in Int, year < limit,
         NEW month \in 1..12, NEW day \in Int, day <= 31
  PROVE  DayNumber(year, month, day) < DayNumber(limit, 1, 1)
<1>1. DaysBeforeYear(year + 1) <= DaysBeforeYear(limit)
  BY YearsInOrder
<1>2. DaysBeforeMonth(year, month) <= DaysBeforeMonth(year, 12)
  BY MonthsInOrder
<1>3. DaysBeforeYear(year + 1)
        = DaysBeforeYear(year) + DaysBeforeMonth(year, 12) + 31
  BY YearStep DEF DaysInMonth
<1>4. DaysBeforeMonth(limit, 1) = 0
  BY DEF DaysBeforeMonth
<1>5. /\ DaysBeforeYear(limit) \in Int /\ DaysBeforeMonth(year, 12) \in Int
      /\ DaysBeforeYear(year + 1) \in Int
      /\ DaysBeforeYear(year) \in Int /\ DaysBeforeMonth(year, month) \in Int
  <2>1. 12 \in 1..12 /\ year + 1 \in Int
    OBVIOUS
  <2> QED BY <2>1, DaysBeforeInts
<1> QED BY <1>1, <1>2, <1>3, <1>4, <1>5 DEF DayNumber

(* The number of a day is an integer, whether or not the month has the day. *)
LEMMA DayNumberInt ==
  ASSUME NEW year \in Int, NEW month \in 1..12, NEW day \in Int
  PROVE  DayNumber(year, month, day) \in Int
<1>1. DaysBeforeYear(year) \in Int /\ DaysBeforeMonth(year, month) \in Int
  BY DaysBeforeInts
<1> QED BY <1>1 DEF DayNumber

-----------------------------------------------------------------------------
(* The sum of one field: what is in the field and what is carried out of   *)
(* it make the whole sum.  The field may hold a whole unit (60 or 24),     *)
(* when the sum is a negative multiple of the unit.                        *)

(* add_field for seconds and minutes: field and carry account for the      *)
(* whole sum, and the field is 0 to 60, the limit included.                *)
LEMMA Field60 ==
  ASSUME NEW t \in Int
  PROVE  /\ FieldOf(t, 60) \in Int
         /\ 0 <= FieldOf(t, 60) /\ FieldOf(t, 60) <= 60
         /\ CarryOf(t, 60) \in Int
         /\ FieldOf(t, 60) = t - 60 * CarryOf(t, 60)
<1>1. CASE t < 0
  <2>1. /\ CDiv(t, 60) \in Int /\ CRem(t, 60) \in Int
        /\ CRem(t, 60) = t - 60 * CDiv(t, 60)
        /\ -60 < CRem(t, 60) /\ CRem(t, 60) <= 0
    BY <1>1, DivRem60
  <2> QED BY <1>1, <2>1 DEF FieldOf, CarryOf
<1>2. CASE t >= 0
  <2>1. /\ CDiv(t, 60) \in Int /\ CRem(t, 60) \in Int
        /\ CRem(t, 60) = t - 60 * CDiv(t, 60)
        /\ 0 <= CRem(t, 60) /\ CRem(t, 60) < 60
    BY <1>2, DivRem60
  <2> QED BY <1>2, <2>1 DEF FieldOf, CarryOf
<1> QED BY <1>1, <1>2

(* add_field for hours, with 24 included.                                  *)
LEMMA Field24 ==
  ASSUME NEW t \in Int
  PROVE  /\ FieldOf(t, 24) \in Int
         /\ 0 <= FieldOf(t, 24) /\ FieldOf(t, 24) <= 24
         /\ CarryOf(t, 24) \in Int
         /\ FieldOf(t, 24) = t - 24 * CarryOf(t, 24)
<1>1. CASE t < 0
  <2>1. /\ CDiv(t, 24) \in Int /\ CRem(t, 24) \in Int
        /\ CRem(t, 24) = t - 24 * CDiv(t, 24)
        /\ -24 < CRem(t, 24) /\ CRem(t, 24) <= 0
    BY <1>1, DivRem24
  <2> QED BY <1>1, <2>1 DEF FieldOf, CarryOf
<1>2. CASE t >= 0
  <2>1. /\ CDiv(t, 24) \in Int /\ CRem(t, 24) \in Int
        /\ CRem(t, 24) = t - 24 * CDiv(t, 24)
        /\ 0 <= CRem(t, 24) /\ CRem(t, 24) < 24
    BY <1>2, DivRem24
  <2> QED BY <1>2, <2>1 DEF FieldOf, CarryOf
<1> QED BY <1>1, <1>2

(* add_field for nanoseconds, with a whole second included.                *)
LEMMA FieldGiga ==
  ASSUME NEW t \in Int
  PROVE  /\ FieldOf(t, Giga) \in Int
         /\ 0 <= FieldOf(t, Giga) /\ FieldOf(t, Giga) <= Giga
         /\ CarryOf(t, Giga) \in Int
         /\ FieldOf(t, Giga) = t - Giga * CarryOf(t, Giga)
<1>1. CASE t < 0
  <2>1. /\ CDiv(t, Giga) \in Int /\ CRem(t, Giga) \in Int
        /\ CRem(t, Giga) = t - Giga * CDiv(t, Giga)
        /\ -Giga < CRem(t, Giga) /\ CRem(t, Giga) <= 0
    BY <1>1, DivRemGiga DEF Giga
  <2> QED BY <1>1, <2>1 DEF FieldOf, CarryOf, Giga
<1>2. CASE t >= 0
  <2>1. /\ CDiv(t, Giga) \in Int /\ CRem(t, Giga) \in Int
        /\ CRem(t, Giga) = t - Giga * CDiv(t, Giga)
        /\ 0 <= CRem(t, Giga) /\ CRem(t, Giga) < Giga
    BY <1>2, DivRemGiga DEF Giga
  <2> QED BY <1>2, <2>1 DEF FieldOf, CarryOf, Giga
<1> QED BY <1>1, <1>2

-----------------------------------------------------------------------------
(* The limits of a field that are too large to expand everywhere.          *)
LEMMA GigaInt == Giga \in Int /\ 0 < Giga
BY DEF Giga

(* The fields of any value, an infinity included, are integers.            *)
LEMMA FieldInts ==
  ASSUME NEW v \in DateTimes
  PROVE  /\ v.year \in MinYear..MaxYear /\ v.year \in Int
         /\ v.month \in Int /\ v.day \in Int
         /\ v.zone \in AllZones /\ v.zone \in Int
         /\ v.hour \in Int /\ v.minute \in Int
         /\ v.second \in Int /\ v.nanosecond \in Int
<1>1. AllZones \subseteq Int
  BY ZoneAssumption DEF AllZones, Local, Utc
<1>2. CASE v \in Finite
  <2>1. /\ v.year \in MinYear..MaxYear /\ v.month \in 1..12 /\ v.day \in 1..31
        /\ v.zone \in AllZones /\ v.hour \in 0..24 /\ v.minute \in 0..60
        /\ v.second \in 0..60 /\ v.nanosecond \in 0..Giga
    BY <1>2 DEF Finite
  <2>2. v.zone \in Int
    BY <1>1, <2>1
  <2>3. v.year \in Int
    BY <2>1, YearAssumption
  <2>4. v.nanosecond \in Int
    BY <2>1, GigaInt
  <2>5. v.month \in Int /\ v.day \in Int
    BY <2>1
  <2>6. v.hour \in Int /\ v.minute \in Int /\ v.second \in Int
    BY <2>1
  <2> QED BY <2>1, <2>2, <2>3, <2>4, <2>5, <2>6
<1>3. CASE v \in Futures
  <2>1. PICK z \in AllZones : v = InfiniteFuture(z)
    BY <1>3 DEF Futures
  <2>2. /\ v.year = MaxYear /\ v.month = 255 /\ v.day = 255 /\ v.zone = z
        /\ v.hour = 255 /\ v.minute = 255 /\ v.second = 255
        /\ v.nanosecond = -1
    BY <2>1 DEF InfiniteFuture, UInt8Max, NanoMax
  <2>3. v.year \in MinYear..MaxYear /\ v.year \in Int
    BY <2>2, YearAssumption
  <2>4. v.zone \in AllZones /\ v.zone \in Int
    BY <1>1, <2>2
  <2> QED BY <2>2, <2>3, <2>4
<1>4. CASE v \in Pasts
  <2>1. PICK z \in AllZones : v = InfinitePast(z)
    BY <1>4 DEF Pasts
  <2>2. /\ v.year = MinYear /\ v.month = 0 /\ v.day = 0 /\ v.zone = z
        /\ v.hour = 0 /\ v.minute = 0 /\ v.second = 0 /\ v.nanosecond = 0
    BY <2>1 DEF InfinitePast
  <2>3. v.year \in MinYear..MaxYear /\ v.year \in Int
    BY <2>2, YearAssumption
  <2>4. v.zone \in AllZones /\ v.zone \in Int
    BY <1>1, <2>2
  <2> QED BY <2>2, <2>3, <2>4
<1> QED BY <1>2, <1>3, <1>4 DEF DateTimes

(* The sums of the fields, from the nanoseconds up.                        *)
LEMMA SumInts ==
  ASSUME NEW v \in DateTimes, NEW d, IsDuration(d)
  PROVE  /\ NanosecondSum(v, d) \in Int /\ SecondSum(v, d) \in Int
         /\ MinuteSum(v, d) \in Int /\ HourSum(v, d) \in Int
         /\ DaySum(v, d) \in Int
<1>1. d.seconds \in Int /\ d.nanoseconds \in Int
  BY GigaInt DEF IsDuration
<1>2. /\ CRem(d.seconds, 60) \in Int
      /\ CRem(CDiv(d.seconds, 60), 60) \in Int
      /\ CRem(CDiv(CDiv(d.seconds, 60), 60), 24) \in Int
      /\ CDiv(d.seconds, 86400) \in Int
  BY <1>1, SplitInts
<1>5. NanosecondSum(v, d) \in Int
  BY <1>1, FieldInts DEF NanosecondSum
<1>6. SecondSum(v, d) \in Int
  BY <1>2, <1>5, FieldInts, FieldGiga DEF SecondSum
<1>7. MinuteSum(v, d) \in Int
  BY <1>2, <1>6, FieldInts, Field60 DEF MinuteSum
<1>8. HourSum(v, d) \in Int
  BY <1>2, <1>7, FieldInts, Field60 DEF HourSum
<1>9. DaySum(v, d) \in Int
  BY <1>2, <1>8, FieldInts, Field24 DEF DaySum
<1> QED
  BY <1>5, <1>6, <1>7, <1>8, <1>9

(* The sum of the months: month and carry are a division of it by twelve,  *)
(* rounded down, except that a month of 13 comes out for a sum of -11.     *)
LEMMA MonthParts ==
  ASSUME NEW v \in DateTimes, NEW d, IsDuration(d)
  PROVE  /\ SumMonth(v, d) \in Int /\ CarryMonths(v, d) \in Int
         /\ SumMonth(v, d) + 12 * CarryMonths(v, d)
              = v.month + CRem(d.months, 12)
         /\ SumMonth(v, d) \in 1..13
         /\ SumMonth(v, d) = 13 => v.month + CRem(d.months, 12) <= -11
<1> DEFINE t == v.month + CRem(d.months, 12)
           q == CDiv(t - 1, 12)
           r == CRem(t - 1, 12)
<1>1. t \in Int
  <2>1. d.months \in Int
    BY DEF IsDuration
  <2>2. CRem(d.months, 12) \in Int
    BY <2>1, DivRemInts
  <2> QED BY <2>2, FieldInts
<1>2. t - 1 \in Int
  BY <1>1
<1>3. q \in Int /\ r \in Int /\ r = (t - 1) - 12 * q
  BY <1>2, DivRem12
<1>4. CASE t <= 0
  <2>1. SumMonth(v, d) = 12 + (r + 1) /\ CarryMonths(v, d) = q - 1
    BY <1>4 DEF SumMonth, CarryMonths, MonthModulo, MonthQuotient
  <2>2. -12 < r /\ r <= 0
    <3>1. t - 1 <= 0
      BY <1>1, <1>4
    <3> QED BY <1>2, <3>1, DivRem12
  <2>3. r = 0 => t <= -11
    <3>1. r = 0 => t - 1 = 12 * q
      BY <1>1, <1>3
    <3> QED BY <1>1, <1>3, <1>4, <3>1
  <2> QED BY <1>1, <1>3, <2>1, <2>2, <2>3
<1>5. CASE t > 0
  <2>1. SumMonth(v, d) = r + 1 /\ CarryMonths(v, d) = q
    BY <1>1, <1>5 DEF SumMonth, CarryMonths, MonthModulo, MonthQuotient
  <2>2. 0 <= r /\ r < 12
    <3>1. t - 1 >= 0
      BY <1>1, <1>5
    <3> QED BY <1>2, <3>1, DivRem12
  <2> QED BY <1>1, <1>3, <2>1, <2>2
<1> QED BY <1>1, <1>4, <1>5

(* When the year of the sum can be stored, its month is a month: the only  *)
(* sum of -11 is eleven months before the infinite past, and that is a     *)
(* year too early.                                                         *)
LEMMA MonthInRange ==
  ASSUME NEW v \in DateTimes, NEW d, IsDuration(d),
         SumYear(v, d) \in MinYear..MaxYear
  PROVE  SumMonth(v, d) \in 1..12
<1>1. /\ d.months \in Int /\ CDiv(d.months, 12) \in Int
      /\ CRem(d.months, 12) \in Int
  <2>1. d.months \in Int
    BY DEF IsDuration
  <2> QED BY <2>1, DivRemInts
<1>2. CASE d.months >= 0
  <2>1. 0 <= CRem(d.months, 12)
    BY <1>1, <1>2, DivRem12
  <2>2. v.month \in Int
    BY FieldInts
  <2>3. v.month + CRem(d.months, 12) > -11
    <3>1. v.month >= 0
      BY DEF DateTimes, Finite, Futures, Pasts, InfiniteFuture, InfinitePast, UInt8Max
    <3> QED BY <1>1, <2>1, <2>2, <3>1
  <2> QED BY <1>1, <2>2, <2>3, MonthParts
<1>3. d.months < 0 => CDiv(d.months, 12) <= 0 /\ -12 < CRem(d.months, 12)
  <2>1. SUFFICES ASSUME d.months < 0
                 PROVE CDiv(d.months, 12) <= 0 /\ -12 < CRem(d.months, 12)
    OBVIOUS
  <2>2. d.months <= 0
    BY <1>1, <2>1
  <2> QED BY <1>1, <2>2, DivRem12
<1> SUFFICES ASSUME SumMonth(v, d) = 13, d.months < 0 PROVE FALSE
  BY <1>1, <1>2, MonthParts
<1>4. v.month + CRem(d.months, 12) <= -11
  BY MonthParts
<1>5. v.month \in Int
  BY FieldInts
<1>6. v.month <= 0
  BY <1>1, <1>3, <1>4, <1>5
<1>7. v = InfinitePast(v.zone)
  BY <1>6 DEF DateTimes, Finite, Futures, Pasts, InfiniteFuture, InfinitePast, UInt8Max
<1>8. v.month = 0 /\ v.year = MinYear
  BY <1>7 DEF InfinitePast
<1>9. CDiv(d.months, 12) <= 0
  BY <1>3
<1>10. CarryMonths(v, d) \in Int /\ CarryMonths(v, d) < 0
  <2>1. CarryMonths(v, d) \in Int /\ 13 + 12 * CarryMonths(v, d) <= -11
    BY <1>4, MonthParts
  <2> QED BY <2>1
<1> QED BY <1>1, <1>8, <1>9, <1>10, YearAssumption DEF SumYear

(* The fields that the loop starts from.                                   *)
LEMMA SumFieldsDayless ==
  ASSUME NEW v \in DateTimes, NEW d, IsDuration(d),
         SumYear(v, d) \in MinYear..MaxYear
  PROVE  SumFields(v, d) \in Dayless /\ DaySum(v, d) \in Int
<1>1. SumMonth(v, d) \in 1..12
  BY MonthInRange
<1> DEFINE Within(x, max) == x \in Int /\ 0 <= x /\ x <= max
<1>2. FieldOf(HourSum(v, d), 24) \in 0..24
  <2>1. HourSum(v, d) \in Int
    BY SumInts
  <2>2. Within(FieldOf(HourSum(v, d), 24), 24)
    BY <2>1, Field24
  <2> QED BY <2>2
<1>3. FieldOf(MinuteSum(v, d), 60) \in 0..60
  <2>1. MinuteSum(v, d) \in Int
    BY SumInts
  <2>2. Within(FieldOf(MinuteSum(v, d), 60), 60)
    BY <2>1, Field60
  <2> QED BY <2>2
<1>4. FieldOf(SecondSum(v, d), 60) \in 0..60
  <2>1. SecondSum(v, d) \in Int
    BY SumInts
  <2>2. Within(FieldOf(SecondSum(v, d), 60), 60)
    BY <2>1, Field60
  <2> QED BY <2>2
<1>5. FieldOf(NanosecondSum(v, d), Giga) \in 0..Giga
  <2>1. NanosecondSum(v, d) \in Int
    BY SumInts
  <2>2. Within(FieldOf(NanosecondSum(v, d), Giga), Giga)
    BY <2>1, FieldGiga
  <2> QED BY <2>2, GigaInt
<1>6. v.zone \in AllZones
  BY FieldInts
<1>7. SumFields(v, d) \in Dayless
  BY <1>1, <1>2, <1>3, <1>4, <1>5, <1>6 DEF SumFields, Dayless
<1> QED BY <1>7, SumInts

(* The reference moves the months by the same amount, even outside the     *)
(* years of the type; a sum of twelve months or less leaves a month, since *)
(* no finite value has the month 0.                                        *)
LEMMA ShiftedDayAnywhere ==
  ASSUME NEW v \in Finite, NEW d, IsDuration(d)
  PROVE  /\ SumYear(v, d) \in Int /\ SumMonth(v, d) \in 1..12
         /\ MonthNumber(v, d) = 12 * SumYear(v, d) + (SumMonth(v, d) - 1)
         /\ ShiftedDay(v, d) = DayNumber(SumYear(v, d), SumMonth(v, d), v.day)
<1>1. v \in DateTimes
  BY DEF DateTimes
<1>2. /\ d.months \in Int /\ CDiv(d.months, 12) \in Int
      /\ CRem(d.months, 12) \in Int
      /\ CRem(d.months, 12) = d.months - 12 * CDiv(d.months, 12)
      /\ -12 < CRem(d.months, 12)
  <2>1. d.months \in Int
    BY DEF IsDuration
  <2>2. /\ CDiv(d.months, 12) \in Int /\ CRem(d.months, 12) \in Int
        /\ CRem(d.months, 12) = d.months - 12 * CDiv(d.months, 12)
    BY <2>1, DivRem12
  <2>3. d.months >= 0 => 0 <= CRem(d.months, 12)
    BY <2>1, DivRem12
  <2>4. d.months <= 0 => -12 < CRem(d.months, 12)
    BY <2>1, DivRem12
  <2> QED BY <2>1, <2>2, <2>3, <2>4
<1>3. v.year \in Int /\ v.month \in Int
  BY <1>1, FieldInts
<1>4. 1 <= v.month
  BY DEF Finite
<1>5. /\ SumMonth(v, d) \in Int /\ CarryMonths(v, d) \in Int
      /\ SumMonth(v, d) + 12 * CarryMonths(v, d) = v.month + CRem(d.months, 12)
      /\ SumMonth(v, d) \in 1..13
      /\ SumMonth(v, d) = 13 => v.month + CRem(d.months, 12) <= -11
  BY <1>1, MonthParts
<1>6. SumMonth(v, d) \in 1..12
  BY <1>2, <1>3, <1>4, <1>5
<1>7. SumYear(v, d) \in Int
  BY <1>2, <1>3, <1>5 DEF SumYear
<1>8. MonthNumber(v, d) = 12 * SumYear(v, d) + (SumMonth(v, d) - 1)
  BY <1>2, <1>3, <1>5 DEF SumYear, MonthNumber
<1>9. /\ MonthNumber(v, d) \div 12 = SumYear(v, d)
      /\ (MonthNumber(v, d) % 12) + 1 = SumMonth(v, d)
  BY <1>6, <1>7, <1>8
<1> QED BY <1>6, <1>7, <1>8, <1>9 DEF ShiftedDay

LEMMA ShiftedDayIs ==
  ASSUME NEW v \in Finite, NEW d, IsDuration(d),
         SumYear(v, d) \in MinYear..MaxYear
  PROVE  ShiftedDay(v, d) = DayNumber(SumYear(v, d), SumMonth(v, d), v.day)
BY ShiftedDayAnywhere

(* The sum is exact when the loop begins.                                  *)
LEMMA SumReaches ==
  ASSUME NEW v \in Finite, NEW d, IsDuration(d),
         SumYear(v, d) \in MinYear..MaxYear
  PROVE  Reaches(v, d, DayNumber(SumYear(v, d), SumMonth(v, d), DaySum(v, d)),
                 SumFields(v, d))
<1> DEFINE n == DayNumber(SumYear(v, d), SumMonth(v, d), DaySum(v, d))
           w == SumFields(v, d)
           cn == CarryOf(NanosecondSum(v, d), Giga)
           cs == CarryOf(SecondSum(v, d), 60)
           cm == CarryOf(MinuteSum(v, d), 60)
           ch == CarryOf(HourSum(v, d), 24)
           ds == CRem(d.seconds, 60)
           dm == CRem(CDiv(d.seconds, 60), 60)
           dh == CRem(CDiv(CDiv(d.seconds, 60), 60), 24)
           dd == CDiv(d.seconds, 86400)
<1>1. v \in DateTimes
  BY DEF DateTimes
<1>2. /\ v.day \in Int /\ v.hour \in Int /\ v.minute \in Int
      /\ v.second \in Int /\ v.nanosecond \in Int
  BY <1>1, FieldInts
<1>3. d.seconds \in Int /\ d.nanoseconds \in Int
  BY GigaInt DEF IsDuration
<1>4. ds \in Int /\ dm \in Int /\ dh \in Int /\ dd \in Int
  BY <1>3, SplitInts
<1>5. cn \in Int /\ cs \in Int /\ cm \in Int /\ ch \in Int
  BY <1>1, SumInts, Field60, Field24, FieldGiga
<1>6. w.nanosecond = v.nanosecond + d.nanoseconds - Giga * cn
  <2>1. NanosecondSum(v, d) \in Int
    BY <1>1, SumInts
  <2>2. w.nanosecond = NanosecondSum(v, d) - Giga * cn
    BY <2>1, FieldGiga DEF SumFields
  <2>3. NanosecondSum(v, d) = v.nanosecond + d.nanoseconds
    BY DEF NanosecondSum
  <2> QED BY <1>2, <1>3, <1>5, <2>1, <2>2, <2>3, GigaInt
<1>7. w.second = (v.second + ds + cn) - 60 * cs
  <2>1. SecondSum(v, d) \in Int
    BY <1>1, SumInts
  <2>2. w.second = SecondSum(v, d) - 60 * cs
    BY <2>1, Field60 DEF SumFields
  <2> QED BY <2>2 DEF SecondSum
<1>8. w.minute = (v.minute + dm + cs) - 60 * cm
  <2>1. MinuteSum(v, d) \in Int
    BY <1>1, SumInts
  <2>2. w.minute = MinuteSum(v, d) - 60 * cm
    BY <2>1, Field60 DEF SumFields
  <2> QED BY <2>2 DEF MinuteSum
<1>9. w.hour = (v.hour + dh + cm) - 24 * ch
  <2>1. HourSum(v, d) \in Int
    BY <1>1, SumInts
  <2>2. w.hour = HourSum(v, d) - 24 * ch
    BY <2>1, Field24 DEF SumFields
  <2> QED BY <2>2 DEF HourSum
<1>10. d.seconds - 86400 * dd = 3600 * dh + 60 * dm + ds
  BY <1>3, SplitSeconds
<1>11. n - ShiftedDay(v, d) = dd + ch
  <2>1. SumYear(v, d) \in Int /\ SumMonth(v, d) \in 1..12 /\ DaySum(v, d) \in Int
    BY <1>1, MonthInRange, SumInts, YearAssumption
  <2>2. n - DayNumber(SumYear(v, d), SumMonth(v, d), v.day) = DaySum(v, d) - v.day
    <3>1. /\ DaysBeforeYear(SumYear(v, d)) \in Int
          /\ DaysBeforeMonth(SumYear(v, d), SumMonth(v, d)) \in Int
      BY <2>1, DaysBeforeInts
    <3> QED BY <1>2, <2>1, <3>1 DEF DayNumber
  <2>3. DaySum(v, d) - v.day = dd + ch
    BY <1>2, <1>4, <1>5 DEF DaySum
  <2> QED BY <2>2, <2>3, ShiftedDayIs
<1>12. SecondOfDay(w) - SecondOfDay(v) - cn = 3600 * dh + 60 * dm + ds - 86400 * ch
  BY <1>2, <1>4, <1>5, <1>7, <1>8, <1>9 DEF SecondOfDay
<1>13. w.nanosecond - v.nanosecond - d.nanoseconds = Giga * (-cn)
  BY <1>2, <1>3, <1>5, <1>6, GigaInt
<1>14. /\ (Giga * (-cn)) % Giga = 0
       /\ (Giga * (-cn)) \div Giga = -cn
  BY <1>5 DEF Giga
<1>15. SecondOfDay(w) - SecondOfDay(v) + (-cn)
         = d.seconds - 86400 * (n - ShiftedDay(v, d))
  <2>1. SecondOfDay(w) \in Int /\ SecondOfDay(v) \in Int
    BY <1>2, <1>4, <1>5, <1>7, <1>8, <1>9 DEF SecondOfDay
  <2>2. d.seconds - 86400 * (dd + ch) = 3600 * dh + 60 * dm + ds - 86400 * ch
    BY <1>3, <1>4, <1>5, <1>10
  <2> QED BY <1>5, <1>11, <1>12, <2>1, <2>2
<1> QED BY <1>13, <1>14, <1>15 DEF Reaches
-----------------------------------------------------------------------------
(* An infinity is outside the years as soon as the sum is made, when no    *)
(* months are added: the month 255 carries years out, the month 0 borrows  *)
(* one.                                                                    *)
LEMMA FutureOverflows ==
  ASSUME NEW v \in Futures, NEW d, IsDuration(d), d.months = 0
  PROVE  SumYear(v, d) > MaxYear
<1>1. v.year = MaxYear /\ v.month = 255
  BY DEF Futures, InfiniteFuture, UInt8Max
<1>2. CDiv(d.months, 12) = 0 /\ CRem(d.months, 12) = 0
  BY DEF CDiv, CRem
<1>3. CarryMonths(v, d) = 21
  BY <1>1, <1>2 DEF CarryMonths, MonthQuotient, CDiv
<1> QED BY <1>1, <1>2, <1>3, YearAssumption DEF SumYear

(* A duration without months that is added to the infinite past leaves the *)
(* years of the type: the month 0 borrows one.                             *)
LEMMA PastUnderflows ==
  ASSUME NEW v \in Pasts, NEW d, IsDuration(d), d.months = 0
  PROVE  SumYear(v, d) < MinYear
<1>1. v.year = MinYear /\ v.month = 0
  BY DEF Pasts, InfinitePast
<1>2. CDiv(d.months, 12) = 0 /\ CRem(d.months, 12) = 0
  BY DEF CDiv, CRem
<1>3. CarryMonths(v, d) = -1
  BY <1>1, <1>2 DEF CarryMonths, MonthQuotient, CDiv
<1> QED BY <1>1, <1>2, <1>3, YearAssumption DEF SumYear

(* The infinities are not finite values, and no value is both of them.     *)
LEMMA InfinitiesApart ==
  /\ Futures \cap Finite = {} /\ Pasts \cap Finite = {} /\ Futures \cap Pasts = {}
<1>1. \A v \in Futures : v.month = 255
  BY DEF Futures, InfiniteFuture, UInt8Max
<1>2. \A v \in Pasts : v.month = 0
  BY DEF Pasts, InfinitePast
<1>3. \A v \in Finite : v.month \in 1..12
  BY DEF Finite
<1> QED BY <1>1, <1>2, <1>3

-----------------------------------------------------------------------------
(* Only the time of day and the day meant matter to the sum.               *)
LEMMA ReachesSame ==
  ASSUME NEW v, NEW d, NEW n, NEW w, NEW n2, NEW w2,
         Reaches(v, d, n, w), n2 = n,
         w2.hour = w.hour, w2.minute = w.minute, w2.second = w.second,
         w2.nanosecond = w.nanosecond
  PROVE  Reaches(v, d, n2, w2)
<1>1. SecondOfDay(w2) = SecondOfDay(w)
  BY DEF SecondOfDay
<1> QED BY <1>1 DEF Reaches

(* A field whose sum is not below zero, or above the negative of its unit, *)
(* is left below the unit.                                                 *)
LEMMA NormalField ==
  /\ \A t \in Int : -60 < t => FieldOf(t, 60) <= 59
  /\ \A t \in Int : -24 < t => FieldOf(t, 24) <= 23
  /\ \A t \in Int : 0 <= t => FieldOf(t, Giga) < Giga
  /\ \A t \in Int : 0 <= t => CarryOf(t, Giga) >= 0 /\ CarryOf(t, 60) >= 0
  /\ \A t \in Int : -60 < t => CarryOf(t, 60) >= -1
<1>1. ASSUME NEW t \in Int, -60 < t
      PROVE  FieldOf(t, 60) <= 59 /\ CarryOf(t, 60) >= -1
  <2>1. CASE t < 0
    <3>1. CDiv(t, 60) = 0 /\ CRem(t, 60) = t
      BY <1>1, <2>1 DEF CDiv, CRem
    <3> QED BY <1>1, <2>1, <3>1 DEF FieldOf, CarryOf
  <2>2. CASE t >= 0
    BY <1>1, <2>2, DivRem60 DEF FieldOf, CarryOf
  <2> QED BY <1>1, <2>1, <2>2
<1>2. ASSUME NEW t \in Int, -24 < t
      PROVE  FieldOf(t, 24) <= 23
  <2>1. CASE t < 0
    <3>1. CDiv(t, 24) = 0 /\ CRem(t, 24) = t
      BY <1>2, <2>1 DEF CDiv, CRem
    <3> QED BY <1>2, <2>1, <3>1 DEF FieldOf
  <2>2. CASE t >= 0
    BY <1>2, <2>2, DivRem24 DEF FieldOf
  <2> QED BY <1>2, <2>1, <2>2
<1>3. ASSUME NEW t \in Int, 0 <= t
      PROVE  /\ FieldOf(t, Giga) < Giga
             /\ CarryOf(t, Giga) >= 0 /\ CarryOf(t, 60) >= 0
  <2>1. CDiv(t, 60) >= 0
    BY <1>3, DivRem60
  <2>2. CRem(t, Giga) < Giga /\ CDiv(t, Giga) >= 0
    BY <1>3, DivRemGiga, SMT DEF Giga
  <2> QED BY <1>3, <2>1, <2>2 DEF FieldOf, CarryOf
<1> QED BY <1>1, <1>2, <1>3

(* The zones that a value is converted from or taken to be in.             *)
Offsets == (-56..56) \cup {Local}

ZoneOffset(z) == Duration(0, -z * 15 * 60, 0)

LEMMA ZonesAreOffsets == AllZones \subseteq Offsets
BY ZoneAssumption DEF AllZones, Offsets, Utc

(* What the offset of a zone adds to the fields.                           *)
LEMMA OffsetParts ==
  ASSUME NEW z \in Offsets
  PROVE  LET s == -z * 15 * 60
         IN  /\ s \in Int /\ CRem(s, 60) = 0
             /\ CRem(CDiv(s, 60), 60) \in Int
             /\ -45 <= CRem(CDiv(s, 60), 60)
             /\ CRem(CDiv(CDiv(s, 60), 60), 24) \in Int
             /\ -22 <= CRem(CDiv(CDiv(s, 60), 60), 24)
<1> DEFINE q == -(15 * z)
<1>1. z \in -56..56 \/ z = 127
  BY DEF Offsets, Local
<1>2. z \in Int /\ q \in Int /\ -z * 15 * 60 = 60 * q
  BY <1>1
<1>3. CDiv(60 * q, 60) = q /\ CRem(60 * q, 60) = 0
  <2> HIDE DEF q
  <2> QED BY <1>2 DEF CDiv, CRem
<1>4. CRem(q, 60) \in Int /\ -45 <= CRem(q, 60)
  BY <1>1, <1>2 DEF CDiv, CRem
<1>5. CDiv(q, 60) \in Int /\ -31 <= CDiv(q, 60) /\ CDiv(q, 60) <= 14
      /\ (CDiv(q, 60) >= -14 \/ CDiv(q, 60) = -31)
  BY <1>1, <1>2 DEF CDiv
<1>6. CRem(CDiv(q, 60), 24) \in Int /\ -22 <= CRem(CDiv(q, 60), 24)
  BY <1>5 DEF CDiv, CRem
<1> HIDE DEF q
<1> QED BY <1>2, <1>3, <1>4, <1>6

(* So the fields that the loop starts from are normal.                     *)
LEMMA SumNormal ==
  ASSUME NEW v \in Finite, NEW z \in Offsets
  PROVE  IsDuration(ZoneOffset(z)) /\ IsNormal(SumFields(v, ZoneOffset(z)))
<1> DEFINE d == ZoneOffset(z)
           s == -z * 15 * 60
<1>1. v \in DateTimes
  BY DEF DateTimes, Finite
<1>2. d.nanoseconds = 0 /\ d.seconds = s /\ IsDuration(d)
  <2>1. d.months = 0 /\ d.nanoseconds = 0 /\ d.seconds = s
    BY DEF ZoneOffset, Duration
  <2>2. s \in Int
    BY OffsetParts
  <2> QED BY <2>1, <2>2, GigaInt DEF IsDuration, ZoneOffset, Duration
<1>3. /\ v.hour \in Int /\ 0 <= v.hour /\ v.minute \in Int /\ 0 <= v.minute
      /\ v.second \in Int /\ 0 <= v.second
      /\ v.nanosecond \in Int /\ 0 <= v.nanosecond
  BY <1>1, FieldInts DEF Finite
<1>4. /\ CRem(s, 60) = 0
      /\ CRem(CDiv(s, 60), 60) \in Int /\ -45 <= CRem(CDiv(s, 60), 60)
      /\ CRem(CDiv(CDiv(s, 60), 60), 24) \in Int
      /\ -22 <= CRem(CDiv(CDiv(s, 60), 60), 24)
  BY OffsetParts
<1>5. /\ NanosecondSum(v, d) \in Int /\ SecondSum(v, d) \in Int
      /\ MinuteSum(v, d) \in Int /\ HourSum(v, d) \in Int
  BY <1>1, <1>2, SumInts
<1> HIDE DEF d, s
<1>6. 0 <= NanosecondSum(v, d)
  BY <1>2, <1>3 DEF NanosecondSum
<1>7. 0 <= SecondSum(v, d)
  <2>1. CarryOf(NanosecondSum(v, d), Giga) >= 0
    BY <1>5, <1>6, NormalField
  <2>2. CarryOf(NanosecondSum(v, d), Giga) \in Int
    BY <1>5, FieldGiga
  <2> QED BY <1>2, <1>3, <1>4, <2>1, <2>2 DEF SecondSum
<1>8. -60 < MinuteSum(v, d)
  <2>1. CarryOf(SecondSum(v, d), 60) >= 0
    BY <1>5, <1>7, NormalField
  <2>2. CarryOf(SecondSum(v, d), 60) \in Int
    BY <1>5, Field60
  <2> QED BY <1>2, <1>3, <1>4, <2>1, <2>2 DEF MinuteSum
<1>9. -24 < HourSum(v, d)
  <2>1. CarryOf(MinuteSum(v, d), 60) >= -1
    BY <1>5, <1>8, NormalField
  <2>2. CarryOf(MinuteSum(v, d), 60) \in Int
    BY <1>5, Field60
  <2> QED BY <1>2, <1>3, <1>4, <2>1, <2>2 DEF HourSum
<1>10. /\ FieldOf(HourSum(v, d), 24) <= 23
       /\ FieldOf(NanosecondSum(v, d), Giga) < Giga
  BY <1>5, <1>6, <1>9, NormalField
<1>11. FieldOf(MinuteSum(v, d), 60) <= 59
  BY <1>5, <1>8, NormalField
<1>12. FieldOf(SecondSum(v, d), 60) <= 59
  <2>1. -60 < SecondSum(v, d)
    BY <1>5, <1>7
  <2> QED BY <1>5, <2>1, NormalField
<1>13. IsNormal(SumFields(v, d))
  BY <1>10, <1>11, <1>12 DEF IsNormal, SumFields
<1> QED BY <1>2, <1>13 DEF d

-----------------------------------------------------------------------------
(***************************************************************************)
(* How many days some months have, by the day that they begin on: months   *)
(* are counted from January of the year 0, and years here from March, so   *)
(* that a leap day is the last of its year.                                *)
(***************************************************************************)

MonthStart(k) == DayNumber(k \div 12, (k % 12) + 1, 1)

DaysOfMonths(k, n) == MonthStart(k + n) - MonthStart(k)

DaysFromMarch == <<0, 31, 61, 92, 122, 153, 184, 214, 245, 275, 306, 337>>

LeapDays(year) == year \div 4 - year \div 100 + year \div 400

LEMMA LeapDaysInt == \A y \in Int : LeapDays(y) \in Int
BY DEF LeapDays

(* The leap days before a year and that of the year itself.                *)
LEMMA LeapDaysAre ==
  ASSUME NEW y \in Int
  PROVE  /\ DaysBeforeYear(y) + (IF IsLeapYear(y) THEN 1 ELSE 0) = 365 * y + LeapDays(y) + 1
         /\ DaysBeforeYear(y + 1) = 365 * y + LeapDays(y) + 366
<1> DEFINE Extra(p) == IF y % p = 0 THEN 0 ELSE 1
<1>1. /\ (y + 3) \div 4 = y \div 4 + Extra(4)
      /\ (y + 99) \div 100 = y \div 100 + Extra(100)
      /\ (y + 399) \div 400 = y \div 400 + Extra(400)
  OBVIOUS
<1>2. (y % 400 = 0 => y % 100 = 0) /\ (y % 100 = 0 => y % 4 = 0)
  OBVIOUS
<1>3. /\ ((y + 1) + 3) \div 4 = y \div 4 + 1
      /\ ((y + 1) + 99) \div 100 = y \div 100 + 1
      /\ ((y + 1) + 399) \div 400 = y \div 400 + 1
  OBVIOUS
<1>4. y \div 4 \in Int /\ y \div 100 \in Int /\ y \div 400 \in Int
  OBVIOUS
<1> QED BY <1>1, <1>2, <1>3, <1>4 DEF DaysBeforeYear, LeapDays, IsLeapYear

(* The first day of month m of the year that begins in March of year y.    *)
LEMMA MonthStartIs ==
  ASSUME NEW y \in Int, NEW m \in 1..12
  PROVE  MonthStart(12 * y + m + 1) = 365 * y + LeapDays(y) + DaysFromMarch[m] + 61
<1> DEFINE k == 12 * y + m + 1
<1>1. LeapDays(y) \in Int /\ DaysBeforeYear(y) \in Int /\ DaysBeforeYear(y + 1) \in Int
  BY LeapDaysInt DEF DaysBeforeYear
<1>2. CASE m <= 10
  <2>1. k \div 12 = y /\ (k % 12) + 1 = m + 2
    BY <1>2
  <2>2. MonthStart(k) = DayNumber(y, m + 2, 1)
    BY <2>1 DEF MonthStart
  <2>3. DaysBeforeMonth(y, m + 2)
          = DaysFromMarch[m] + 59 + (IF IsLeapYear(y) THEN 1 ELSE 0)
    BY <1>2 DEF DaysBeforeMonth, DaysFromMarch
  <2>4. DaysFromMarch[m] \in Int
    BY DEF DaysFromMarch
  <2>5. DaysBeforeYear(y) + (IF IsLeapYear(y) THEN 1 ELSE 0) = 365 * y + LeapDays(y) + 1
    BY LeapDaysAre
  <2>6. MonthStart(k) = DaysBeforeYear(y)
                          + (DaysFromMarch[m] + 59 + (IF IsLeapYear(y) THEN 1 ELSE 0)) + 1
    BY <2>2, <2>3 DEF DayNumber
  <2> HIDE DEF k
  <2>7. MonthStart(k) = 365 * y + LeapDays(y) + DaysFromMarch[m] + 61
    BY <1>1, <2>4, <2>5, <2>6
  <2> QED BY <2>7 DEF k
<1>3. CASE m \in {11, 12}
  <2>1. k \div 12 = y + 1 /\ (k % 12) + 1 = m - 10
    BY <1>3
  <2>2. MonthStart(k) = DayNumber(y + 1, m - 10, 1)
    BY <2>1 DEF MonthStart
  <2>3. DaysBeforeMonth(y + 1, m - 10) = DaysFromMarch[m] - 306
    BY <1>3 DEF DaysBeforeMonth, DaysFromMarch
  <2>4. DaysFromMarch[m] \in Int
    BY DEF DaysFromMarch
  <2>5. DaysBeforeYear(y + 1) = 365 * y + LeapDays(y) + 366
    BY LeapDaysAre
  <2>6. MonthStart(k) = DaysBeforeYear(y + 1) + (DaysFromMarch[m] - 306) + 1
    BY <2>2, <2>3 DEF DayNumber
  <2> HIDE DEF k
  <2>7. MonthStart(k) = 365 * y + LeapDays(y) + DaysFromMarch[m] + 61
    BY <1>1, <2>4, <2>5, <2>6
  <2> QED BY <2>7 DEF k
<1> QED BY <1>2, <1>3

(* The leap days in w years from March of year y.                          *)
LeapSpan(y, w) == LeapDays(y + w) - LeapDays(y)

LEMMA LeapSpanInt == \A y, w \in Int : LeapSpan(y, w) \in Int
<1> SUFFICES ASSUME NEW y \in Int, NEW w \in Int PROVE LeapSpan(y, w) \in Int
  OBVIOUS
<1>1. LeapDays(y) \in Int /\ LeapDays(y + w) \in Int
  BY LeapDaysInt
<1> QED BY <1>1 DEF LeapSpan

(* One year more has one leap day more, or none.                           *)
LEMMA LeapSpanStep ==
  ASSUME NEW y \in Int, NEW w \in Int
  PROVE  LeapSpan(y, w + 1) = LeapSpan(y, w) \/ LeapSpan(y, w + 1) = LeapSpan(y, w) + 1
<1>1. ASSUME NEW z \in Int
      PROVE  LeapDays(z + 1) = LeapDays(z) \/ LeapDays(z + 1) = LeapDays(z) + 1
  <2> DEFINE Step(p) == IF z % p = p - 1 THEN 1 ELSE 0
  <2>1. /\ (z + 1) \div 4 = z \div 4 + Step(4)
        /\ (z + 1) \div 100 = z \div 100 + Step(100)
        /\ (z + 1) \div 400 = z \div 400 + Step(400)
    OBVIOUS
  <2>2. (z % 400 = 399 => z % 100 = 99) /\ (z % 100 = 99 => z % 4 = 3)
    OBVIOUS
  <2>3. z \div 4 \in Int /\ z \div 100 \in Int /\ z \div 400 \in Int
    OBVIOUS
  <2> QED BY <2>1, <2>2, <2>3 DEF LeapDays
<1>2. y + (w + 1) = (y + w) + 1 /\ y + w \in Int
  OBVIOUS
<1>3. LeapDays(y + w) \in Int /\ LeapDays(y) \in Int /\ LeapDays((y + w) + 1) \in Int
  BY <1>2, LeapDaysInt
<1> QED BY <1>1, <1>2, <1>3 DEF LeapSpan

(* Whether a multiple of p is passed on the way.                           *)
Passed(y, w, p) == IF (y % p) + (w % p) >= p THEN 1 ELSE 0

LEMMA LeapSpanIs ==
  ASSUME NEW y \in Int, NEW w \in Int
  PROVE  LeapSpan(y, w) = LeapDays(w) + Passed(y, w, 4) - Passed(y, w, 100) + Passed(y, w, 400)
<1>1. (y + w) \div 4 = y \div 4 + w \div 4 + Passed(y, w, 4)
  BY DEF Passed
<1>3. (y + w) \div 100 = y \div 100 + w \div 100 + Passed(y, w, 100)
  BY DEF Passed
<1>4. (y + w) \div 400 = y \div 400 + w \div 400 + Passed(y, w, 400)
  BY DEF Passed
<1>2. /\ y \div 4 \in Int /\ y \div 100 \in Int /\ y \div 400 \in Int
      /\ w \div 4 \in Int /\ w \div 100 \in Int /\ w \div 400 \in Int
      /\ Passed(y, w, 4) \in Int /\ Passed(y, w, 100) \in Int /\ Passed(y, w, 400) \in Int
  BY DEF Passed
<1> QED BY <1>1, <1>2, <1>3, <1>4 DEF LeapSpan, LeapDays

(* A year by its place in a century and among four centuries.              *)
HasDigits(y, c, d, e) ==
  y % 4 = e /\ y % 100 = 4 * d + e /\ y % 400 = 100 * c + 4 * d + e

LEMMA YearDigits ==
  ASSUME NEW y \in Int
  PROVE  \E c \in 0..3, d \in 0..24, e \in 0..3 : HasDigits(y, c, d, e)
<1> DEFINE q == y \div 400
           r == y % 400
           c == r \div 100
           s == r % 100
           d == s \div 4
           e == s % 4
<1>1. q \in Int /\ r \in 0..399 /\ y = 400 * q + r
  OBVIOUS
<1> HIDE DEF q, r
<1>2. c \in 0..3 /\ s \in 0..99 /\ r = 100 * c + s
  BY <1>1
<1> HIDE DEF c, s
<1>3. d \in 0..24 /\ e \in 0..3 /\ s = 4 * d + e
  BY <1>2
<1> HIDE DEF d, e
<1>4. y = 4 * (100 * q + 25 * c + d) + e
  BY <1>1, <1>2, <1>3
<1>5. y = 100 * (4 * q + c) + s
  BY <1>1, <1>2
<1>6. y % 4 = e
  BY <1>1, <1>2, <1>3, <1>4
<1>7. y % 100 = s
  BY <1>1, <1>2, <1>5
<1>8. y % 400 = r
  BY <1>1
<1>9. HasDigits(y, c, d, e)
  BY <1>1, <1>2, <1>3, <1>6, <1>7, <1>8 DEF HasDigits
<1> QED BY <1>2, <1>3, <1>9

(* No years have less leap days than those from 1696, just before a year   *)
(* of a century that is none, or more than those from 1903.                *)
LEMMA LeapSpanBounds ==
  ASSUME NEW y \in Int, NEW w \in Int
  PROVE  LeapSpan(1696, w) <= LeapSpan(y, w) /\ LeapSpan(y, w) <= LeapSpan(1903, w)
<1> DEFINE Turns(z) == Passed(z, w, 4) - Passed(z, w, 100) + Passed(z, w, 400)
<1>1. PICK c \in 0..3, d \in 0..24, e \in 0..3 : HasDigits(y, c, d, e)
  BY YearDigits, Zenon
<1>2. PICK f \in 0..3, g \in 0..24, h \in 0..3 : HasDigits(w, f, g, h)
  BY YearDigits, Zenon
<1>3. /\ 1696 % 4 = 0 /\ 1696 % 100 = 96 /\ 1696 % 400 = 96
      /\ 1903 % 4 = 3 /\ 1903 % 100 = 3 /\ 1903 % 400 = 303
  OBVIOUS
<1>4. Turns(1696) <= Turns(y) /\ Turns(y) <= Turns(1903)
  BY <1>1, <1>2, <1>3 DEF Passed, HasDigits
<1>5. /\ LeapDays(w) \in Int
      /\ \A z \in Int : Turns(z) \in Int
  BY LeapDaysInt DEF Passed
<1>6. \A z \in Int : LeapSpan(z, w) = LeapDays(w) + Turns(z)
  <2> SUFFICES ASSUME NEW z \in Int PROVE LeapSpan(z, w) = LeapDays(w) + Turns(z)
    OBVIOUS
  <2>1. Passed(z, w, 4) \in Int /\ Passed(z, w, 100) \in Int /\ Passed(z, w, 400) \in Int
    BY DEF Passed
  <2> QED BY <1>5, <2>1, LeapSpanIs
<1> HIDE DEF Turns
<1> QED BY <1>4, <1>5, <1>6

(* The days of i months from month m, but for those of whole years; u is 1 *)
(* if the last year in which they end has a leap day that others have not. *)
MonthRun(m, i, u) ==
  IF m + i <= 12 THEN DaysFromMarch[m + i] - DaysFromMarch[m]
                 ELSE 365 + u + DaysFromMarch[m + i - 12] - DaysFromMarch[m]

LEMMA MonthRunInt ==
  \A m \in 1..12, i \in 0..11, u \in 0..1 : MonthRun(m, i, u) \in Int
BY DEF MonthRun, DaysFromMarch

(* No months have less days than those from September or from February, or *)
(* more than those from March or from July, but nine from May.             *)
LEMMA MonthRunBounds ==
  ASSUME NEW m \in 1..12, NEW i \in 0..11
  PROVE  /\ \/ \A u \in 0..1 : MonthRun(7, i, u) <= MonthRun(m, i, u)
            \/ \A u \in 0..1 : MonthRun(12, i, u) <= MonthRun(m, i, u)
         /\ \/ i = 9
            \/ \A u \in 0..1 : MonthRun(m, i, u) <= MonthRun(1, i, u)
            \/ \A u \in 0..1 : MonthRun(m, i, u) <= MonthRun(5, i, u)
<1>1. /\ \/ MonthRun(7, i, 0) <= MonthRun(m, i, 0) /\ MonthRun(7, i, 1) <= MonthRun(m, i, 1)
         \/ MonthRun(12, i, 0) <= MonthRun(m, i, 0) /\ MonthRun(12, i, 1) <= MonthRun(m, i, 1)
      /\ \/ i = 9
         \/ MonthRun(m, i, 0) <= MonthRun(1, i, 0) /\ MonthRun(m, i, 1) <= MonthRun(1, i, 1)
         \/ MonthRun(m, i, 0) <= MonthRun(5, i, 0) /\ MonthRun(m, i, 1) <= MonthRun(5, i, 1)
  BY DEF MonthRun, DaysFromMarch
<1>2. \A u \in 0..1 : u = 0 \/ u = 1
  OBVIOUS
<1> QED BY <1>1, <1>2, Zenon

(* The days of w years and i months from month m of the year from March y. *)
HasDays(y, m, w, i, u) ==
  /\ LeapSpan(y, w + 1) = LeapSpan(y, w) + u
  /\ DaysOfMonths(12 * y + m + 1, 12 * w + i) = 365 * w + LeapSpan(y, w) + MonthRun(m, i, u)

LEMMA DaysOfMonthsAre ==
  ASSUME NEW y \in Int, NEW m \in 1..12, NEW w \in Int, NEW i \in 0..11
  PROVE  \E u \in 0..1 : HasDays(y, m, w, i, u)
<1> DEFINE k == 12 * y + m + 1
           n == 12 * w + i
           Days(z, j) == 365 * z + LeapDays(z) + DaysFromMarch[j] + 61
<1>1. \A z \in Int, j \in 1..12 : MonthStart(12 * z + j + 1) = Days(z, j)
  BY MonthStartIs, Zenon
<1>2. /\ LeapSpan(y, w) \in Int /\ LeapSpan(y, w + 1) \in Int
      /\ LeapDays(y) \in Int /\ LeapDays(y + w) \in Int /\ LeapDays(y + (w + 1)) \in Int
      /\ LeapSpan(y, w) = LeapDays(y + w) - LeapDays(y)
      /\ LeapSpan(y, w + 1) = LeapDays(y + (w + 1)) - LeapDays(y)
  BY LeapDaysInt, LeapSpanInt DEF LeapSpan
<1>3. PICK u \in 0..1 : LeapSpan(y, w + 1) = LeapSpan(y, w) + u
  <2>1. LeapSpan(y, w + 1) = LeapSpan(y, w) \/ LeapSpan(y, w + 1) = LeapSpan(y, w) + 1
    BY LeapSpanStep
  <2>2. 0 \in 0..1 /\ 1 \in 0..1 /\ LeapSpan(y, w) = LeapSpan(y, w) + 0
    BY <1>2
  <2> QED BY <2>1, <2>2, Zenon
<1>4. \A j \in 1..12 : DaysFromMarch[j] \in Int
  BY DEF DaysFromMarch
<1> HIDE DEF Days
<1>5. MonthStart(k) = Days(y, m)
  BY <1>1, Zenon
<1> HIDE DEF k, n
<1>6. CASE m + i <= 12
  <2>1. m + i \in 1..12 /\ y + w \in Int /\ k + n = 12 * (y + w) + (m + i) + 1
    BY <1>6 DEF k, n
  <2>2. MonthStart(k + n) = Days(y + w, m + i)
    BY <1>1, <2>1, Zenon
  <2>3. MonthRun(m, i, u) = DaysFromMarch[m + i] - DaysFromMarch[m]
    BY <1>6 DEF MonthRun
  <2>4. MonthStart(k + n) - MonthStart(k) = 365 * w + LeapSpan(y, w) + MonthRun(m, i, u)
    BY <1>2, <1>4, <1>5, <2>1, <2>2, <2>3 DEF Days
  <2>6. HasDays(y, m, w, i, u)
    BY <1>3, <2>4, Zenon DEF HasDays, DaysOfMonths, k, n
  <2> QED BY <2>6
<1>7. CASE m + i > 12
  <2>1. /\ m + i - 12 \in 1..12 /\ y + (w + 1) \in Int
        /\ k + n = 12 * (y + (w + 1)) + (m + i - 12) + 1
    BY <1>7 DEF k, n
  <2>2. MonthStart(k + n) = Days(y + (w + 1), m + i - 12)
    BY <1>1, <2>1, Zenon
  <2>3. MonthRun(m, i, u) = 365 + u + DaysFromMarch[m + i - 12] - DaysFromMarch[m]
    BY <1>7 DEF MonthRun
  <2>5. DaysFromMarch[m] \in Int /\ DaysFromMarch[m + i - 12] \in Int
    BY <1>4, <2>1, Zenon
  <2>4. MonthStart(k + n) - MonthStart(k) = 365 * w + LeapSpan(y, w) + MonthRun(m, i, u)
    BY <1>2, <1>3, <1>5, <2>1, <2>2, <2>3, <2>5 DEF Days
  <2>6. HasDays(y, m, w, i, u)
    BY <1>3, <2>4, Zenon DEF HasDays, DaysOfMonths, k, n
  <2> QED BY <2>6
<1> QED BY <1>6, <1>7

(* Some months from one month have no less days than from another if their *)
(* years have no less leap days and the months of the last year no less    *)
(* days.                                                                   *)
LEMMA DaysOfMonthsGrow ==
  ASSUME NEW y \in Int, NEW m \in 1..12, NEW z \in Int, NEW j \in 1..12,
         NEW w \in Int, NEW i \in 0..11,
         LeapSpan(y, w) <= LeapSpan(z, w), LeapSpan(y, w + 1) <= LeapSpan(z, w + 1),
         \A u \in 0..1 : MonthRun(m, i, u) <= MonthRun(j, i, u)
  PROVE  DaysOfMonths(12 * y + m + 1, 12 * w + i) <= DaysOfMonths(12 * z + j + 1, 12 * w + i)
<1>1. PICK u \in 0..1 : HasDays(y, m, w, i, u)
  BY DaysOfMonthsAre, Zenon
<1>2. PICK v \in 0..1 : HasDays(z, j, w, i, v)
  BY DaysOfMonthsAre, Zenon
<1>3. LeapSpan(y, w) \in Int /\ LeapSpan(z, w) \in Int
  BY LeapSpanInt
<1>4. LeapSpan(y, w) + MonthRun(j, i, u) <= LeapSpan(z, w) + MonthRun(j, i, v)
  <2>1. \A x \in 0..1 : MonthRun(j, i, x) = MonthRun(j, i, 0) + (IF j + i <= 12 THEN 0 ELSE x)
    BY DEF MonthRun, DaysFromMarch
  <2>2. MonthRun(j, i, 0) \in Int
    BY MonthRunInt
  <2> QED BY <1>1, <1>2, <1>3, <2>1, <2>2 DEF HasDays
<1>5. MonthRun(m, i, u) \in Int /\ MonthRun(j, i, u) \in Int /\ MonthRun(j, i, v) \in Int
  BY MonthRunInt
<1>6. MonthRun(m, i, u) <= MonthRun(j, i, u)
  OBVIOUS
<1> HIDE DEF MonthRun
<1> QED BY <1>1, <1>2, <1>3, <1>4, <1>5, <1>6 DEF HasDays

(* A month by the month of the year from March, a number of months by the  *)
(* years in it.                                                            *)
LEMMA MonthParted ==
  ASSUME NEW k \in Int
  PROVE  /\ \E y \in Int, m \in 1..12 : k = 12 * y + m + 1
         /\ \E w \in Int : k = 12 * w + (k % 12)
<1>1. /\ (k - 2) \div 12 \in Int /\ ((k - 2) % 12) + 1 \in 1..12
      /\ k = 12 * ((k - 2) \div 12) + (((k - 2) % 12) + 1) + 1
  OBVIOUS
<1>2. k \div 12 \in Int /\ k = 12 * (k \div 12) + (k % 12)
  OBVIOUS
<1> QED BY <1>1, <1>2, Zenon

(* However many months are added, they have no less days than from         *)
(* September 1696 or from February 1697 on, and unless they are nine more  *)
(* than whole years, no more than from March or July 1903 on.              *)
LEMMA DaysOfMonthsBounds ==
  ASSUME NEW k \in Int, NEW n \in Int
  PROVE  /\ \/ DaysOfMonths(12 * 1696 + 8, n) <= DaysOfMonths(k, n)
            \/ DaysOfMonths(12 * 1697 + 1, n) <= DaysOfMonths(k, n)
         /\ \/ n % 12 = 9
            \/ DaysOfMonths(k, n) <= DaysOfMonths(12 * 1903 + 2, n)
            \/ DaysOfMonths(k, n) <= DaysOfMonths(12 * 1903 + 6, n)
<1> DEFINE D(y, m) == DaysOfMonths(12 * y + m + 1, n)
<1>1. PICK y \in Int, m \in 1..12 : k = 12 * y + m + 1
  BY MonthParted, Zenon
<1>2. PICK w \in Int : n = 12 * w + (n % 12)
  BY MonthParted, Zenon
<1> DEFINE i == n % 12
<1>3. i \in 0..11 /\ n = 12 * w + i
  BY <1>2
<1> HIDE DEF i
<1> DEFINE few == 1696
           many == 1903
<1>4. w + 1 \in Int /\ few \in Int /\ many \in Int
  OBVIOUS
<1>5. /\ LeapSpan(few, w) <= LeapSpan(y, w) /\ LeapSpan(few, w + 1) <= LeapSpan(y, w + 1)
      /\ LeapSpan(y, w) <= LeapSpan(many, w) /\ LeapSpan(y, w + 1) <= LeapSpan(many, w + 1)
  <2>1. \A x \in Int : LeapSpan(few, x) <= LeapSpan(y, x) /\ LeapSpan(y, x) <= LeapSpan(many, x)
    BY LeapSpanBounds
  <2> HIDE DEF few, many
  <2> QED BY <1>4, <2>1, Zenon
<1> HIDE DEF few, many
<1>6. /\ 1 \in 1..12 /\ 5 \in 1..12 /\ 7 \in 1..12 /\ 12 \in 1..12
  OBVIOUS
<1>7. ASSUME NEW z \in Int, NEW j \in 1..12, NEW x \in Int, NEW l \in 1..12,
             LeapSpan(z, w) <= LeapSpan(x, w), LeapSpan(z, w + 1) <= LeapSpan(x, w + 1),
             \A u \in 0..1 : MonthRun(j, i, u) <= MonthRun(l, i, u)
      PROVE  D(z, j) <= D(x, l)
  BY <1>3, <1>7, DaysOfMonthsGrow, Zenon
<1> HIDE DEF D
<1>8. D(few, 7) <= D(y, m) \/ D(few, 12) <= D(y, m)
  <2>1. \/ \A u \in 0..1 : MonthRun(7, i, u) <= MonthRun(m, i, u)
        \/ \A u \in 0..1 : MonthRun(12, i, u) <= MonthRun(m, i, u)
    BY <1>3, MonthRunBounds
  <2> QED BY <1>4, <1>5, <1>6, <1>7, <2>1, Zenon
<1>9. i = 9 \/ D(y, m) <= D(many, 1) \/ D(y, m) <= D(many, 5)
  <2>1. \/ i = 9
        \/ \A u \in 0..1 : MonthRun(m, i, u) <= MonthRun(1, i, u)
        \/ \A u \in 0..1 : MonthRun(m, i, u) <= MonthRun(5, i, u)
    BY <1>3, MonthRunBounds
  <2> QED BY <1>4, <1>5, <1>6, <1>7, <2>1, Zenon
<1>10. /\ D(few, 7) = DaysOfMonths(12 * 1696 + 8, n)
       /\ D(few, 12) = DaysOfMonths(12 * 1697 + 1, n)
       /\ D(many, 1) = DaysOfMonths(12 * 1903 + 2, n)
       /\ D(many, 5) = DaysOfMonths(12 * 1903 + 6, n)
  <2>1. /\ 12 * few + 7 + 1 = 12 * 1696 + 8 /\ 12 * few + 12 + 1 = 12 * 1697 + 1
        /\ 12 * many + 1 + 1 = 12 * 1903 + 2 /\ 12 * many + 5 + 1 = 12 * 1903 + 6
    BY DEF few, many
  <2> QED BY <2>1 DEF D
<1>11. D(y, m) = DaysOfMonths(k, n)
  BY <1>1, Zenon DEF D
<1> QED BY <1>8, <1>9, <1>10, <1>11 DEF i

=============================================================================
