---------------------------- MODULE DateTimeText ----------------------------
(***************************************************************************)
(* Reading a date, a time or a dateTime, item by item, and writing it:     *)
(* src/date.c, src/time.c, src/date_utils.c, src/year.c, src/timezone.c    *)
(* and the readers of src/date_time.c.                                     *)
(*                                                                         *)
(* Writing is the text alone: Writers has the buffers.  A year is read     *)
(* with the digits that an integer holds: ReadInteger has the others.      *)
(***************************************************************************)
EXTENDS Text, DateTimeSum

VARIABLES
  datatype,   \* The type of the value that is read
  text,       \* The text that is read
  at,         \* How much of it is read
  left,       \* The items that are still to be read
  value,      \* The value, with the fields read so far
  status

readerVars == <<datatype, text, at, left, value, status>>

(* A value before it is read, cleared by memset.                           *)
Cleared ==
  [year |-> 0, month |-> 0, day |-> 0, zone |-> 0,
   hour |-> 0, minute |-> 0, second |-> 0, nanosecond |-> 0]

DateItems == <<"year", "dash", "month", "dash", "day">>
TimeItems == <<"hour", "colon", "minute", "colon", "second", "fraction", "zone">>

Items(type) ==
  CASE type = "date" -> DateItems \o <<"zone">>
    [] type = "time" -> TimeItems
    [] type = "dateTime" -> DateItems \o <<"separator">> \o TimeItems
    [] OTHER -> <<>>

At(items) == status = "SUCCESS" /\ left # <<>> /\ Head(left) \in items

(* An item leaves its result in the fields, whatever its status is.        *)
Read(fields, st, i) ==
  /\ value' = fields
  /\ status' = st
  /\ at' = i
  /\ left' = IF st = "SUCCESS" THEN Tail(left) ELSE <<>>
  /\ UNCHANGED <<datatype, text>>

-----------------------------------------------------------------------------
(* read_year_number, of a year no digit of which is lost in a uint64_t.    *)
ReadYear ==
  /\ At({"year"})
  /\ LET start == skip_whitespace(text, at)
         negative == CharAt(text, start) = Minus
         i == IF negative THEN start + 1 ELSE start
         end == Scan(Digits, text, i)
         magnitude == NumberOf[Chars(text, i, end - i)]
         year == IF negative THEN -magnitude ELSE magnitude
     IN  IF year \notin MinYear..MaxYear
         THEN Read(value, "OUT_OF_RANGE", end)
         ELSE Read([value EXCEPT !.year = year],
                   IF end - i >= 4 THEN "SUCCESS" ELSE "EXPECTED_DIGIT", end)

Delimiters ==
  [dash |-> [char |-> Minus, status |-> "EXPECTED_DASH"],
   colon |-> [char |-> Colon, status |-> "EXPECTED_COLON"],
   separator |-> [char |-> TimeSep, status |-> "EXPECTED_TIME_SEP"]]

(* A delimiter; the time of a dateTime begins without a zone.              *)
ReadDelimiter ==
  /\ At(DOMAIN Delimiters)
  /\ LET delimiter == Delimiters[Head(left)]
     IN  IF CharAt(text, at) = delimiter.char
         THEN Read(IF Head(left) = "separator" THEN [value EXCEPT !.zone = Local] ELSE value,
                   "SUCCESS", at + 1)
         ELSE Read(value, delimiter.status, at)

(* The time starts after whitespace, as a date does.                       *)
ReadTwoDigits ==
  /\ At({"month", "day", "hour", "minute", "second"})
  /\ LET field == Head(left)
         start == IF datatype = "time" /\ field = "hour" THEN skip_whitespace(text, at) ELSE at
         last == CASE field = "month" -> 12
                   [] field = "day" -> 31
                   [] field = "hour" -> 24
                   [] OTHER -> IF value.hour = 24 THEN 0 ELSE 59
         first == IF field \in {"month", "day"} THEN 1 ELSE 0
         r == read_two_digit_number(text, start, first, last)
         inMonth == field = "day" => r.value <= DaysInMonth(value.year, value.month)
     IN  Read([value EXCEPT ![field] = r.value],
              IF r.status = "SUCCESS" /\ ~inMonth THEN "OUT_OF_RANGE" ELSE r.status, r.at)

(* Mistake: the digits are a number of nanoseconds.                        *)
NanosecondsUnscaled(digits) == NumberOf[digits]

(* The digits of a fraction, with the zeros imagined after them.           *)
Nanoseconds(digits) == NumberOf[digits \o Zeros(9 - Len(digits))]

(* read_nanoseconds after a point; midnight has none.                      *)
ReadFraction ==
  /\ At({"fraction"})
  /\ IF CharAt(text, at) # Point
     THEN Read(value, "SUCCESS", at)
     ELSE LET digits == Scan(Digits, text, at + 1) - (at + 1)
              kept == IF digits > 9 THEN 9 ELSE digits
              nanos == Nanoseconds(Chars(text, at + 1, kept))
          IN  Read([value EXCEPT !.nanosecond = nanos],
                   CASE digits = 0 -> "EXPECTED_DIGIT"
                     [] digits > 9 -> "OUT_OF_RANGE"
                     [] OTHER -> IF value.hour = 24 /\ nanos # 0
                                 THEN "OUT_OF_RANGE" ELSE "SUCCESS",
                   at + 1 + kept)

(* read_optional_timezone.                                                 *)
ReadZone ==
  /\ At({"zone"})
  /\ LET local == [value EXCEPT !.zone = Local]
         hh == read_two_digit_number(text, at + 1, 0, 14)
         mm == read_two_digit_number(text, at + 4, 0, 59)
         quarters == 4 * hh.value + mm.value \div 15
     IN  IF CharAt(text, at) = Zulu THEN Read([value EXCEPT !.zone = Utc], "SUCCESS", at + 1)
         ELSE IF CharAt(text, at) \notin {Minus, Plus} THEN Read(local, "SUCCESS", at)
         ELSE IF hh.status # "SUCCESS" THEN Read(local, hh.status, hh.at)
         ELSE IF CharAt(text, at + 3) # Colon THEN Read(local, "EXPECTED_COLON", at + 3)
         ELSE IF mm.status # "SUCCESS" THEN Read(local, mm.status, mm.at)
         ELSE IF mm.value % 15 # 0 THEN Read(local, "UNSUPPORTED", at + 6)
         ELSE IF quarters > 56 THEN Read(local, "OUT_OF_RANGE", at + 6)
         ELSE Read([value EXCEPT !.zone = IF CharAt(text, at) = Minus
                                          THEN -quarters ELSE quarters],
                   "SUCCESS", at + 6)

ReadItem == ReadYear \/ ReadDelimiter \/ ReadTwoDigits \/ ReadFraction \/ ReadZone

(* The end of exess_read_time, whether all of it could be read or not:     *)
(* midnight at the end of the day is that of the same day, or not a time.  *)
EndTime(v, st) ==
  IF v.hour # 24 THEN [value |-> v, status |-> st]
  ELSE IF v.minute # 0 \/ v.second # 0 \/ v.nanosecond # 0
  THEN [value |-> v, status |-> "OUT_OF_RANGE"]
  ELSE [value |-> [v EXCEPT !.hour = 0], status |-> st]

-----------------------------------------------------------------------------
(* The texts that are written.                                             *)

YearText(year) ==
  (IF year < 0 THEN <<Minus>> ELSE <<>>) \o Padded(IF year < 0 THEN -year ELSE year, 4)

DateText(v) ==
  YearText(v.year) \o <<Minus>> \o Padded(v.month, 2) \o <<Minus>> \o Padded(v.day, 2)

(* The digits of the nanoseconds, up to the last that is not zero.         *)
FractionText(nanosecond) ==
  LET digits == Padded(nanosecond, 9)
      last == CHOOSE n \in 1..9 : digits[n] # 0 /\ \A m \in (n + 1)..9 : digits[m] = 0
  IN  IF nanosecond = 0 THEN <<>> ELSE <<Point>> \o SubSeq(digits, 1, last)

TimeText(v) ==
  Padded(v.hour, 2) \o <<Colon>> \o Padded(v.minute, 2) \o <<Colon>> \o Padded(v.second, 2)
    \o FractionText(v.nanosecond)

ZoneText(zone) ==
  LET quarters == IF zone < 0 THEN -zone ELSE zone
  IN  CASE zone = Local -> <<>>
        [] zone = Utc -> <<Zulu>>
        [] OTHER -> <<IF zone < 0 THEN Minus ELSE Plus>> \o Padded(quarters \div 4, 2)
                      \o <<Colon>> \o Padded(15 * (quarters % 4), 2)

(* What exess_write_date_time and the others refuse; the infinities are    *)
(* refused for their months.                                               *)
IsWritable(type, v) ==
  /\ type # "time" => v.month \in 1..12 /\ v.day \in 1..31
  /\ type # "date" => v.hour \in 0..24 /\ v.minute \in 0..59 /\ v.second \in 0..59
                        /\ v.nanosecond < Giga
  /\ type = "time" => v.hour # 24
  /\ type = "dateTime" /\ v.hour = 24 => v.minute = 0 /\ v.second = 0 /\ v.nanosecond = 0

ValueText(type, v) ==
  CASE type = "date" -> DateText(v) \o ZoneText(v.zone)
    [] type = "time" -> TimeText(v) \o ZoneText(v.zone)
    [] type = "dateTime" -> DateText(v) \o <<TimeSep>> \o TimeText(v) \o ZoneText(v.zone)

=============================================================================
