------------------------------ MODULE Calendar ------------------------------
(***************************************************************************)
(* The calendar of src/date_utils.h, and a linear count of days to compare *)
(* it with: the number of days from a fixed day to each date of the        *)
(* proleptic Gregorian calendar, which has a year 0.                       *)
(***************************************************************************)
EXTENDS Integers, Sequences

IsLeapYear(year) == year % 4 = 0 /\ (year % 100 # 0 \/ year % 400 = 0)

DaysInMonth(year, month) ==
  IF month = 2 THEN IF IsLeapYear(year) THEN 29 ELSE 28
               ELSE 30 + ((month + (month \div 8)) % 2)

-----------------------------------------------------------------------------
(* The reference: days before a year, by the number of leap years before   *)
(* it, and days before a month of it, by the lengths every child learns.   *)

DaysBeforeYear(year) ==
  365 * year + (year + 3) \div 4 - (year + 99) \div 100 + (year + 399) \div 400

DaysBeforeMonth(year, month) ==
  <<0, 31, 59, 90, 120, 151, 181, 212, 243, 273, 304, 334>>[month]
    + (IF month > 2 /\ IsLeapYear(year) THEN 1 ELSE 0)

DayNumber(year, month, day) ==
  DaysBeforeYear(year) + DaysBeforeMonth(year, month) + day

=============================================================================
