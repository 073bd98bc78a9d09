------------------------------ MODULE Duration ------------------------------
(***************************************************************************)
(* Durations, src/duration.c: the reader, which takes a string field by    *)
(* field (exess_read_duration, read_duration_date, read_duration_time,     *)
(* set_field), and the writer (exess_write_duration), whose strings the    *)
(* reader is also given.                                                   *)
(*                                                                         *)
(* A string is a sequence of tokens: a letter, or a run of digits with the *)
(* number it denotes.  The string that is read is either what the writer   *)
(* made of a duration, or any string, its tokens chosen as the reader      *)
(* reaches them.  Leading whitespace, which is skipped, is left out, and a *)
(* token the reader never accepts stands for the end of the string too.    *)
(***************************************************************************)
EXTENDS Integers, Sequences

CONSTANTS
  IntMax,      \* INT32_MAX
  Numbers,     \* What the runs of digits may denote
  Fractions,   \* The same after a decimal point, in nanoseconds
  Durations    \* The values written

Giga == 1000000000

ASSUME IntMaxAssumption == IntMax \in Nat /\ IntMax > 86400

ASSUME NumbersAssumption == Numbers \subseteq Nat /\ Fractions \subseteq 0..(Giga - 1)

(* Members of either sign, INT32_MIN included.                             *)
ASSUME DurationsAssumption ==
  Durations \subseteq
    [months: (-IntMax - 1)..IntMax, seconds: (-IntMax - 1)..IntMax,
     nanoseconds: (1 - Giga)..(Giga - 1)]

-----------------------------------------------------------------------------
Letter(c) == [kind |-> c, value |-> 0]
Number(n) == [kind |-> "number", value |-> n]
Fraction(n) == [kind |-> "fraction", value |-> n]

Letters == {Letter(c) : c \in {"-", "P", "T", "Y", "M", "D", "H", "S", ".", "end"}}

(* A number beyond uint64_t, which read_digits rejects or wraps to one     *)
(* beyond INT32_MAX (ExactOrLarge of ReadInteger), and more than the nine  *)
(* digits of a fraction that read_nanoseconds takes.                       *)
Huge == Letter("huge")
Long == Letter("long")

NumberTokens == {Number(n) : n \in Numbers} \cup {Huge}
FractionTokens == {Fraction(n) : n \in Fractions} \cup {Long}

Kinds ==
  {"-", "P", "T", "Y", "M", "D", "H", "S", ".", "end",
   "number", "huge", "fraction", "long"}

Tokens == {t \in [kind: Kinds, value: Nat] : t.kind = "fraction" => t.value < Giga}

(* Field, in the order of the enumeration; 0 is NONE.                      *)
Year == 1
Month == 2
Day == 3
Hour == 4
Minute == 5
Second == 6
Fields == Year..Second

Factor(field) == <<12, 1, 86400, 3600, 60, 1>>[field]

Absent == -1

-----------------------------------------------------------------------------
(* The writer.                                                             *)

Abs(n) == IF n < 0 THEN -n ELSE n

Segment(n, tag) == IF n = 0 THEN <<>> ELSE <<Number(n), Letter(tag)>>

Seconds(s, n) ==
  IF s = 0 /\ n = 0 THEN <<>>
  ELSE <<Number(s)>> \o (IF n = 0 THEN <<>> ELSE <<Letter("."), Fraction(n)>>)
         \o <<Letter("S")>>

(* Mistake: the hours of whole days are written again.                     *)
TimeSegmentsOfAllHours(s, n) ==
  Segment(s \div 3600, "H") \o Segment((s \div 60) % 60, "M") \o Seconds(s % 60, n)

TimeSegments(s, n) ==
  Segment((s \div 3600) % 24, "H") \o Segment((s \div 60) % 60, "M")
    \o Seconds(s % 60, n)

DateSegments(m, s) ==
  Segment(m \div 12, "Y") \o Segment(m % 12, "M") \o Segment(s \div 86400, "D")

IsZero(d) == d.months = 0 /\ d.seconds = 0 /\ d.nanoseconds = 0
IsNegative(d) == d.months < 0 \/ d.seconds < 0 \/ d.nanoseconds < 0
IsPositive(d) == d.months > 0 \/ d.seconds > 0 \/ d.nanoseconds > 0

Written(d) ==
  LET m == Abs(d.months)
      s == Abs(d.seconds)
      n == Abs(d.nanoseconds)
      time == TimeSegments(s, n)
  IN  IF IsZero(d) THEN <<Letter("P"), Number(0), Letter("Y")>>
      ELSE (IF IsNegative(d) THEN <<Letter("-")>> ELSE <<>>) \o <<Letter("P")>>
             \o DateSegments(m, s)
             \o (IF time = <<>> THEN <<>> ELSE <<Letter("T")>> \o time)

WriteStatus(d) ==
  IF d.months = -IntMax - 1 \/ d.seconds = -IntMax - 1 THEN "OUT_OF_RANGE"
  ELSE IF IsNegative(d) /\ IsPositive(d) THEN "BAD_VALUE"
  ELSE "SUCCESS"

-----------------------------------------------------------------------------
VARIABLES
  given,         \* The duration written, if one is
  isWritten,     \* Whether the string is what the writer made of it
  rest,          \* The tokens of such a string that were not reached yet
  pc,            \* Where the reader is
  tok,           \* The token it looks at
  part,          \* "date" or "time": which of the two loops runs
  begun,         \* Whether this loop has moved past a token
  last,          \* last_field of this loop
  number,        \* The number before a tag
  fraction,      \* The nanoseconds after it, if it has a fraction
  negative,      \* is_negative
  months, seconds, nanoseconds,   \* The members of *out
  status,        \* Status of the result
  fields         \* History: the number stored for each field

out == <<months, seconds, nanoseconds>>

vars == <<given, isWritten, rest, pc, tok, part, begun, last, number, fraction, negative,
          out, status, fields>>

string == <<given, isWritten>>

Sites ==
  {"write", "sign", "prefix", "part", "number", "tag", "fraction", "second",
   "between", "finish", "done"}

Statuses ==
  {"SUCCESS", "EXPECTED_DURATION", "EXPECTED_DIGIT", "EXPECTED_DATE_TAG",
   "EXPECTED_TIME_TAG", "EXPECTED_SECOND_TAG", "BAD_ORDER", "OUT_OF_RANGE",
   "BAD_VALUE"}

Init ==
  /\ \/ /\ isWritten = TRUE
        /\ given \in Durations
        /\ pc = "write"
        /\ tok = Letter("end")
     \/ /\ isWritten = FALSE
        /\ given = [months |-> 0, seconds |-> 0, nanoseconds |-> 0]
        /\ pc = "sign"
        /\ tok \in Letters \cup NumberTokens
  /\ rest = <<>>
  /\ part = "date"
  /\ begun = FALSE
  /\ last = 0
  /\ number = 0
  /\ fraction = 0
  /\ negative = FALSE
  /\ months = 0 /\ seconds = 0 /\ nanoseconds = 0
  /\ status = "SUCCESS"
  /\ fields = [f \in Fields |-> Absent]

(* Move to the next token, one of choice if the string is not written.     *)
Advance(choice) ==
  IF isWritten
  THEN /\ tok' = IF rest = <<>> THEN Letter("end") ELSE Head(rest)
       /\ rest' = IF rest = <<>> THEN <<>> ELSE Tail(rest)
  ELSE tok' \in choice /\ UNCHANGED rest

Stay == UNCHANGED <<tok, rest>>

Fail(st) == pc' = "done" /\ status' = st

WriteDuration ==
  /\ pc = "write"
  /\ IF WriteStatus(given) = "SUCCESS"
     THEN /\ pc' = "sign"
          /\ tok' = Head(Written(given))
          /\ rest' = Tail(Written(given))
          /\ UNCHANGED status
     ELSE Fail(WriteStatus(given)) /\ Stay
  /\ UNCHANGED <<string, part, begun, last, number, fraction, negative, out, fields>>

-----------------------------------------------------------------------------
(* exess_read_duration up to the first field.                              *)

ReadSign ==
  /\ pc = "sign"
  /\ pc' = "prefix"
  /\ IF tok.kind = "-"
     THEN negative' = TRUE /\ Advance(Letters \cup NumberTokens)
     ELSE UNCHANGED negative /\ Stay
  /\ UNCHANGED <<string, part, begun, last, number, fraction, out, status, fields>>

ReadPrefix ==
  /\ pc = "prefix"
  /\ IF tok.kind = "P"
     THEN pc' = "part" /\ Advance(Letters \cup NumberTokens) /\ UNCHANGED status
     ELSE Fail("EXPECTED_DURATION") /\ Stay
  /\ UNCHANGED <<string, part, begun, last, number, fraction, negative, out, fields>>

BeginLoop(p) ==
  /\ pc' = "number"
  /\ part' = p
  /\ begun' = FALSE
  /\ last' = 0

BeginDate ==
  /\ pc = "part"
  /\ tok.kind # "T"
  /\ BeginLoop("date")
  /\ Stay
  /\ UNCHANGED <<string, number, fraction, negative, out, status, fields>>

BeginTime ==
  /\ pc \in {"part", "between"}
  /\ tok.kind = "T"
  /\ BeginLoop("time")
  /\ Advance(Letters \cup NumberTokens)
  /\ UNCHANGED <<string, number, fraction, negative, out, status, fields>>

NoTime ==
  /\ pc = "between"
  /\ tok.kind # "T"
  /\ pc' = "finish"
  /\ Stay
  /\ UNCHANGED <<string, part, begun, last, number, fraction, negative, out, status, fields>>

-----------------------------------------------------------------------------
(* The loops of read_duration_date and read_duration_time.                 *)

EndOfLoop ==
  IF part = "date" THEN last >= Day \/ tok.kind = "T" ELSE last >= Second

AfterLoop == IF part = "date" THEN "between" ELSE "finish"

(* Mistake: a token that is not a number does not end the loop.            *)
EndLoopByCondition ==
  /\ pc = "number"
  /\ EndOfLoop
  /\ IF begun THEN pc' = AfterLoop /\ UNCHANGED status ELSE Fail("EXPECTED_DIGIT")
  /\ Stay
  /\ UNCHANGED <<string, part, begun, last, number, fraction, negative, out, fields>>

(* The loop ends by its condition or at a token that is not a number;      *)
(* ending at once is an error.                                             *)
EndLoop ==
  /\ pc = "number"
  /\ EndOfLoop \/ tok.kind \notin {"number", "huge"}
  /\ IF begun THEN pc' = AfterLoop /\ UNCHANGED status ELSE Fail("EXPECTED_DIGIT")
  /\ Stay
  /\ UNCHANGED <<string, part, begun, last, number, fraction, negative, out, fields>>

ReadNumber ==
  /\ pc = "number"
  /\ ~EndOfLoop
  /\ tok.kind = "number"
  /\ pc' = "tag"
  /\ number' = tok.value
  /\ begun' = TRUE
  /\ Advance(Letters)
  /\ UNCHANGED <<string, part, last, fraction, negative, out, status, fields>>

ReadHugeNumber ==
  /\ pc = "number"
  /\ ~EndOfLoop
  /\ tok.kind = "huge"
  /\ Fail("OUT_OF_RANGE")
  /\ Stay
  /\ UNCHANGED <<string, part, begun, last, number, fraction, negative, out, fields>>

(* NONE if the token is no tag of a field in this part.                    *)
FieldOfTag(c) ==
  CASE part = "date" /\ c = "Y" -> Year
    [] part = "date" /\ c = "M" -> Month
    [] part = "date" /\ c = "D" -> Day
    [] part = "time" /\ c = "H" -> Hour
    [] part = "time" /\ c = "M" -> Minute
    [] part = "time" /\ c = "S" -> Second
    [] OTHER -> 0

Target(field) == IF field < Day THEN months ELSE seconds

(* Mistakes: the largest value let through, a repeated field let through.  *)
FitsUpToMax(target, factor) == number <= (IntMax - target) \div factor

(* target + factor * number < INT32_MAX, which the code computes with 64   *)
(* bits.                                                                   *)
Fits(target, factor) == number <= (IntMax - 1 - target) \div factor

InOrderOrRepeated(field) == field >= last

InOrder(field) == field > last

(* What set_field returns.                                                 *)
SetStatus(field) ==
  IF number >= IntMax THEN "OUT_OF_RANGE"
  ELSE IF ~InOrder(field) THEN "BAD_ORDER"
  ELSE IF ~Fits(Target(field), Factor(field)) THEN "OUT_OF_RANGE"
  ELSE "SUCCESS"

SetField(field) ==
  IF SetStatus(field) = "SUCCESS"
  THEN /\ pc' = "number"
       /\ last' = field
       /\ fields' = [fields EXCEPT ![field] = number]
       /\ IF field < Day
          THEN months' = months + Factor(field) * number /\ UNCHANGED seconds
          ELSE seconds' = seconds + Factor(field) * number /\ UNCHANGED months
       /\ Advance(Letters \cup NumberTokens)
       /\ UNCHANGED status
  ELSE /\ Fail(SetStatus(field))
       /\ Stay
       /\ UNCHANGED <<last, months, seconds, fields>>

(* A whole number and its tag.                                             *)
ReadTag ==
  /\ pc = "tag"
  /\ FieldOfTag(tok.kind) # 0
  /\ SetField(FieldOfTag(tok.kind))
  /\ UNCHANGED <<string, part, begun, number, fraction, negative, nanoseconds>>

BadTag ==
  /\ pc = "tag"
  /\ FieldOfTag(tok.kind) = 0
  /\ ~(part = "time" /\ tok.kind = ".")
  /\ Fail(IF part = "date" THEN "EXPECTED_DATE_TAG" ELSE "EXPECTED_TIME_TAG")
  /\ Stay
  /\ UNCHANGED <<string, part, begun, last, number, fraction, negative, out, fields>>

(* A fraction, which only seconds have.                                    *)
ReadPoint ==
  /\ pc = "tag"
  /\ part = "time"
  /\ tok.kind = "."
  /\ pc' = "fraction"
  /\ Advance(Letters \cup FractionTokens)
  /\ UNCHANGED <<string, part, begun, last, number, fraction, negative, out, status, fields>>

ReadFraction ==
  /\ pc = "fraction"
  /\ tok.kind = "fraction"
  /\ pc' = "second"
  /\ fraction' = tok.value
  /\ Advance(Letters)
  /\ UNCHANGED <<string, part, begun, last, number, negative, out, status, fields>>

(* More than nine digits fail at the tenth, which is not the tag.          *)
BadFraction ==
  /\ pc = "fraction"
  /\ tok.kind # "fraction"
  /\ Fail(IF tok.kind = "long" THEN "EXPECTED_SECOND_TAG" ELSE "EXPECTED_DIGIT")
  /\ Stay
  /\ UNCHANGED <<string, part, begun, last, number, fraction, negative, out, fields>>

(* The fraction is stored before the seconds are found to be in range.     *)
ReadSecondTag ==
  /\ pc = "second"
  /\ tok.kind = "S"
  /\ nanoseconds' = fraction
  /\ SetField(Second)
  /\ UNCHANGED <<string, part, begun, number, fraction, negative>>

NoSecondTag ==
  /\ pc = "second"
  /\ tok.kind # "S"
  /\ Fail("EXPECTED_SECOND_TAG")
  /\ Stay
  /\ UNCHANGED <<string, part, begun, last, number, fraction, negative, out, fields>>

(* Mistake: the sign is given to the first two members only.               *)
FinishWithoutNanoseconds ==
  /\ pc = "finish"
  /\ pc' = "done"
  /\ months' = IF negative THEN -months ELSE months
  /\ seconds' = IF negative THEN -seconds ELSE seconds
  /\ Stay
  /\ UNCHANGED <<string, part, begun, last, number, fraction, negative, nanoseconds,
                 status, fields>>

Finish ==
  /\ pc = "finish"
  /\ pc' = "done"
  /\ months' = IF negative THEN -months ELSE months
  /\ seconds' = IF negative THEN -seconds ELSE seconds
  /\ nanoseconds' = IF negative THEN -nanoseconds ELSE nanoseconds
  /\ Stay
  /\ UNCHANGED <<string, part, begun, last, number, fraction, negative, status, fields>>

-----------------------------------------------------------------------------
Done == pc = "done" /\ UNCHANGED vars

Next ==
  \/ WriteDuration
  \/ ReadSign \/ ReadPrefix \/ BeginDate \/ BeginTime \/ NoTime
  \/ EndLoop \/ ReadNumber \/ ReadHugeNumber
  \/ ReadTag \/ BadTag \/ ReadPoint \/ ReadFraction \/ BadFraction
  \/ ReadSecondTag \/ NoSecondTag
  \/ Finish
  \/ Done

(* A call runs to its end.                                                 *)
Spec == Init /\ [][Next]_vars /\ WF_vars(Next)

-----------------------------------------------------------------------------
Sign == IF negative THEN -1 ELSE 1

ValueOf(field) == IF fields[field] = Absent THEN 0 ELSE fields[field]

MonthsRead == 12 * ValueOf(Year) + ValueOf(Month)

SecondsRead ==
  86400 * ValueOf(Day) + 3600 * ValueOf(Hour) + 60 * ValueOf(Minute) + ValueOf(Second)

(* Types; the members never reach INT32_MAX, so that negating them and     *)
(* the arithmetic on their fields stay in 32 bits.                         *)
TypeOK ==
  /\ given \in [months: Int, seconds: Int, nanoseconds: Int]
  /\ isWritten \in BOOLEAN
  /\ isWritten => given \in Durations
  /\ pc = "write" => isWritten
  /\ rest \in Seq(Tokens)
  /\ pc \in Sites
  /\ tok \in Tokens
  /\ part \in {"date", "time"}
  /\ begun \in BOOLEAN
  /\ last \in 0..Second
  /\ number \in Nat
  /\ fraction \in 0..(Giga - 1)
  /\ negative \in BOOLEAN
  /\ months \in (1 - IntMax)..(IntMax - 1)
  /\ seconds \in (1 - IntMax)..(IntMax - 1)
  /\ nanoseconds \in (1 - Giga)..(Giga - 1)
  /\ status \in Statuses
  /\ fields \in [Fields -> Nat \cup {Absent}]

(* A duration that is read is the sum of the fields of the string, all of  *)
(* one sign, with at least one field, and a whole number of seconds before *)
(* any fraction.                                                           *)
ReadExact ==
  (pc = "done" /\ status = "SUCCESS")
    => /\ months = Sign * MonthsRead
       /\ seconds = Sign * SecondsRead
       /\ nanoseconds # 0 => (nanoseconds = Sign * fraction /\ fields[Second] # Absent)
       /\ \E f \in Fields : fields[f] # Absent

(* No field is stored twice or after a later one, although each of the two *)
(* loops only knows the fields of its own part.                            *)
FieldsInOrder ==
  [][\A f \in Fields :
       fields'[f] # fields[f] => \A g \in f..Second : fields[g] = Absent]_vars

(* A duration that is written is read as it was, unless a member is        *)
(* INT32_MAX, which the writer writes and the reader rejects.              *)
RoundTrip ==
  (pc = "done" /\ isWritten /\ WriteStatus(given) = "SUCCESS")
    => IF Abs(given.months) = IntMax \/ Abs(given.seconds) = IntMax
       THEN status = "OUT_OF_RANGE"
       ELSE /\ status = "SUCCESS"
            /\ out = <<given.months, given.seconds, given.nanoseconds>>

(* Every call returns.                                                     *)
Terminates == <>(pc = "done")

=============================================================================
