------------------------------- MODULE Writers -------------------------------
(***************************************************************************)
(* Writing strings to a buffer of limited size: the primitives of          *)
(* src/write_utils.c and the writers built from them, all called through   *)
(* exess_write_value (src/value.c).                                        *)
(*                                                                         *)
(* A client first measures a value, with no buffer, then writes it to a    *)
(* buffer of some size.  A writer is the sequence of pieces it writes, and *)
(* every piece decides by itself whether it fits.                          *)
(*                                                                         *)
(* A value is what its length depends on: its sign, which fields it has    *)
(* and their digits.  A cell of the buffer, or behind its end, holds a     *)
(* character of the text, a terminating null, or what it held before.      *)
(***************************************************************************)
EXTENDS Integers, Sequences

CONSTANTS
  Values,      \* The values written
  Slack,       \* Bound on the size of the buffer, beyond the measured length
  Top          \* Bound on the cells that are observed

ASSUME BoundsAssumption == Slack \in Nat /\ Top \in Nat

Classes == {"nan", "-inf", "inf", "-0", "0", "-", "+"}

Zones == {"local", "utc", "offset", "bad"}

(* The digits of a field of a duration, which is left out when it is zero. *)
Shown(digits) == IF digits > 0 THEN <<digits>> ELSE <<>>

(* The values that the C types can hold: a double has up to 17 digits and  *)
(* an exponent of 3, a float 9 and 2, a year is 16 bits wide.  The months  *)
(* of a duration are 32 bits, at most 9 digits of years, and so are its    *)
(* seconds, at most 5 digits of days; only seconds have nanoseconds.       *)
IsValue(v) ==
  \/ v.kind = "nothing"
  \/ v.kind = "boolean" /\ v.true \in BOOLEAN
  \/ /\ v.kind = "integer"
     /\ v.negative \in BOOLEAN /\ v.lowest \in BOOLEAN
     /\ v.digits \in 1..(IF v.negative THEN 19 ELSE 20)
  \/ v.kind = "decimal" /\ v.class \in Classes /\ v.digits \in Nat \ {0} /\ v.expt \in Int
  \/ /\ v.kind = "double" /\ v.class \in Classes
     /\ v.digits \in 1..17 /\ v.expt \in Int /\ v.exptDigits \in 1..3
  \/ /\ v.kind = "float" /\ v.class \in Classes
     /\ v.digits \in 1..9 /\ v.expt \in Int /\ v.exptDigits \in 1..2
  \/ /\ v.kind = "duration"
     /\ v.valid \in BOOLEAN /\ v.zero \in BOOLEAN /\ v.negative \in BOOLEAN
     /\ \E y \in 0..9, m \in 0..2, d \in 0..5 : v.date = Shown(y) \o Shown(m) \o Shown(d)
     /\ \E h \in 0..2, m \in 0..2 : v.time = Shown(h) \o Shown(m)
     /\ v.second \in 0..2 /\ v.fraction \in 0..(IF v.second > 0 THEN 9 ELSE 0)
  \/ /\ v.kind \in {"date", "time", "dateTime"}
     /\ v.valid \in BOOLEAN /\ v.negative \in BOOLEAN
     /\ v.yearDigits \in 1..5 /\ v.fraction \in 0..9 /\ v.zone \in Zones
  \/ v.kind \in {"hex", "base64"} /\ v.size \in Nat

ASSUME ValuesAssumption == \A v \in Values : IsValue(v)

Piece(op, n) == [op |-> op, n |-> n]

Char == Piece("char", 1)          \* write_char
String(n) == Piece("string", n)   \* write_string
Two == Piece("two", 2)            \* write_two_digit_number
Digits(n) == Piece("digits", n)   \* write_digits
Number(n) == Piece("number", n)   \* exess_write_uint on the rest of the buffer
Field(n) == Piece("field", n)     \* The same and a tag, write_int_field
Raw(n) == Piece("raw", n)         \* Characters stored without a check
Null == Piece("null", 0)          \* A null stored without a check
IfOk(n) == Piece("ifOk", n)       \* Skip the next n pieces after an error
Length(n) == Piece("length", n)   \* What is returned without a buffer
Fail == Piece("fail", 0)          \* An error in the value: EXESS_BAD_VALUE
End == Piece("end", 0)            \* end_write

(* Leave with EXESS_NO_SPACE unless there is room for n more: through      *)
(* end_write, or after storing a null, or at once.                         *)
Need(n) == Piece("need", n)
NeedMarked(n) == Piece("needMarked", n)
NeedBare(n) == Piece("needBare", n)

-----------------------------------------------------------------------------
(* The writers.  Some work out the length of the text and return it when   *)
(* there is no buffer.                                                     *)

If(condition, pieces) == IF condition THEN pieces ELSE <<>>

Ones(condition) == IF condition THEN 1 ELSE 0

(* Mistake: the sign of INT64_MIN counted twice.                           *)
LongLengthSigned(v) == Ones(v.negative) + (IF v.lowest THEN 20 ELSE v.digits)

(* long_string_length.                                                     *)
LongLength(v) == IF v.lowest THEN 20 ELSE Ones(v.negative) + v.digits

(* exess_write_long and, never negative, exess_write_ulong.                *)
Integer(v, measuring) ==
  IF measuring THEN <<Length(LongLength(v))>>
  ELSE IF v.lowest THEN <<String(20), End>>
  ELSE If(v.negative, <<Char>>) \o <<Digits(v.digits), End>>

Boolean(v) == <<String(IF v.true THEN 4 ELSE 5), End>>

(* write_special.                                                          *)
Special(length) == <<Need(length + 1), Raw(length), Null>>

(* decimal_metrics: the zeros added on either side of the digits.          *)
DecimalZeros(v) ==
  CASE v.expt >= v.digits - 1 -> v.expt - (v.digits - 1) + 1
    [] v.expt < 0 -> 1 + (-v.expt - 1)
    [] OTHER -> 0

(* decimal_string_length, zero for what is only refused when writing.      *)
DecimalLength(v) ==
  CASE v.class \in {"nan", "-inf", "inf"} -> 0
    [] v.class = "-0" -> 4
    [] v.class = "0" -> 3
    [] OTHER -> Ones(v.class = "-") + v.digits + 1 + DecimalZeros(v)

(* The parts of a decimal: the digits, split or extended by zeros.         *)
DecimalParts(v) ==
  CASE v.expt >= v.digits - 1 -> <<Raw(v.digits), Raw(v.expt - (v.digits - 1)), Raw(2)>>
    [] v.expt < 0 -> <<Raw(2), Raw(-v.expt - 1), Raw(v.digits)>>
    [] OTHER -> <<Raw(v.expt + 1), Raw(1), Raw(v.digits - (v.expt + 1))>>

(* exess_write_decimal.                                                    *)
Decimal(v, measuring) ==
  IF measuring THEN <<Length(DecimalLength(v))>>
  ELSE <<Need(3)>> \o
         CASE v.class \in {"nan", "-inf", "inf"} -> <<Fail>>
           [] v.class = "-0" -> Special(4)
           [] v.class = "0" -> Special(3)
           [] OTHER ->
                If(v.class = "-", <<Raw(1)>>)
                  \o <<Need(v.digits + 1 + DecimalZeros(v) + 1)>>
                  \o DecimalParts(v) \o <<End>>

SpecialLength(class) ==
  CASE class \in {"nan", "inf"} -> 3
    [] class = "-inf" -> 4
    [] class = "-0" -> 6
    [] class = "0" -> 5

(* Mistake: the zero after the point of a single digit not counted.        *)
ScientificLengthPlain(v) ==
  IF v.class \notin {"-", "+"} THEN SpecialLength(v.class)
  ELSE Ones(v.class = "-") + v.digits + 1 + 1 + Ones(v.expt < 0) + v.exptDigits

(* scientific_string_length.                                               *)
ScientificLength(v) ==
  IF v.class \notin {"-", "+"} THEN SpecialLength(v.class)
  ELSE Ones(v.class = "-") + v.digits + 1 + Ones(v.digits <= 1) + 1
         + Ones(v.expt < 0) + v.exptDigits

(* write_scientific; the pieces of a number are stored once there is room. *)
Scientific(v, measuring) ==
  IF measuring THEN <<Length(ScientificLength(v))>>
  ELSE IF v.class \notin {"-", "+"}
  THEN <<NeedMarked(2)>> \o Special(SpecialLength(v.class))
  ELSE LET exponent == Ones(v.expt < 0) + v.exptDigits
       IN  <<NeedMarked(Ones(v.class = "-") + v.digits + 2),
             Raw(Ones(v.class = "-") + 2),
             Raw(IF v.digits > 1 THEN v.digits - 1 ELSE 1),
             NeedMarked(1 + exponent + 1),
             Raw(1 + exponent), Null>>

(* write_timezone.                                                         *)
Zone(zone, measuring) ==
  CASE zone = "local" -> <<>>
    [] zone = "bad" -> <<Fail>>
    [] zone = "utc" -> IF measuring THEN <<Length(1)>> ELSE <<Char>>
    [] zone = "offset" -> IF measuring THEN <<Length(6)>> ELSE <<Char, Two, Char, Two>>

(* write_year_number, with at least four digits.                           *)
Year(v, measuring) ==
  LET padding == IF v.yearDigits < 4 THEN 4 - v.yearDigits ELSE 0
  IN  IF measuring
      THEN <<Length(Ones(v.negative) + (IF v.yearDigits < 4 THEN 4 ELSE v.yearDigits))>>
      ELSE If(v.negative, <<Char>>) \o [k \in 1..padding |-> Char]
             \o <<Number(v.yearDigits), End>>

(* exess_write_date.                                                       *)
Date(v, zone, measuring) ==
  Year(v, measuring) \o <<Char, Two, Char, Two>> \o Zone(zone, measuring) \o <<End>>

(* write_nanoseconds, whose trailing zeros are left out.                   *)
Nanoseconds(n) == If(n > 0, <<Char, String(n)>>)

(* write_time.                                                             *)
Time(v, measuring) ==
  <<Two, Char, Two, Char, Two>> \o Nanoseconds(v.fraction) \o Zone(v.zone, measuring)

(* write_seconds, whose fraction is skipped if the digits did not fit.     *)
Seconds(v) ==
  <<Digits(v.second)>>
    \o If(v.fraction > 0, <<IfOk(2)>> \o Nanoseconds(v.fraction))
    \o <<Char>>

Fields(digits) == [k \in 1..Len(digits) |-> Field(digits[k])]

(* exess_write_duration: the digits of the date and time fields that are   *)
(* not zero.  Its two errors in the value are one here.                    *)
Duration(v) ==
  LET time == <<Char>> \o Fields(v.time) \o If(v.second > 0, Seconds(v))
  IN  IF v.zero THEN <<String(3), End>>
      ELSE If(v.negative, <<Char>>) \o <<Char>> \o Fields(v.date)
             \o If(v.time # <<>> \/ v.second > 0, <<IfOk(Len(time))>> \o time)
             \o <<End>>

(* exess_write_hex and exess_write_base64.                                 *)
Blob(length, measuring) ==
  IF measuring THEN <<Length(length)>> ELSE <<NeedBare(length + 1), Raw(length), End>>

(* exess_write_value.                                                      *)
Program(v, measuring) ==
  CASE v.kind = "nothing" -> <<Fail>>
    [] v.kind = "boolean" -> Boolean(v)
    [] v.kind = "integer" -> Integer(v, measuring)
    [] v.kind = "decimal" -> Decimal(v, measuring)
    [] v.kind = "double" -> Scientific(v, measuring) \o <<End>>
    [] v.kind = "float" -> Scientific(v, measuring)
    [] v.kind = "duration" -> IF v.valid THEN Duration(v) ELSE <<Fail>>
    [] v.kind = "date" -> IF v.valid THEN Date(v, v.zone, measuring) ELSE <<Fail>>
    [] v.kind = "time" -> IF v.valid THEN Time(v, measuring) \o <<End>> ELSE <<Fail>>
    [] v.kind = "dateTime" ->
         IF v.valid
         THEN Date(v, "local", measuring) \o <<Char>> \o Time(v, measuring) \o <<End>>
         ELSE <<Fail>>
    [] v.kind = "hex" -> Blob(2 * v.size, measuring)
    [] v.kind = "base64" -> Blob(((v.size + 2) \div 3) * 4, measuring)

-----------------------------------------------------------------------------
VARIABLES
  value,      \* The value
  pc,         \* "idle", "measure", "measured", "write" or "done"
  size,       \* buf_size
  pieces,     \* What is still to be written
  i,          \* The offset, at the end the count
  status,     \* Status so far
  cells,      \* The buffer and what lies behind it
  measured    \* Status and count of the measuring call

vars == <<value, pc, size, pieces, i, status, cells, measured>>

Running == pc \in {"measure", "write"}
HasBuffer == pc = "write"

Untouched == [j \in 0..Top |-> "before"]

(* Store n times mark, from offset a on.                                   *)
Put(c, a, n, mark) == [j \in 0..Top |-> IF j \in a..(a + n - 1) THEN mark ELSE c[j]]

NullAt(c, a) == Put(c, a, 1, "null")

Init ==
  /\ value \in Values
  /\ pc = "idle"
  /\ size = 0
  /\ pieces = <<>>
  /\ i = 0
  /\ status = "SUCCESS"
  /\ cells = Untouched
  /\ measured = [status |-> "SUCCESS", count |-> 0]

Measure ==
  /\ pc = "idle"
  /\ pc' = "measure"
  /\ pieces' = Program(value, TRUE)
  /\ UNCHANGED <<value, size, i, status, cells, measured>>

(* exess_write_value clears the string before anything else.               *)
Write ==
  /\ pc = "measured"
  /\ pc' = "write"
  /\ size' \in 0..(measured.count + Slack)
  /\ pieces' = Program(value, FALSE)
  /\ cells' = IF size' > 0 THEN NullAt(cells, 0) ELSE cells
  /\ UNCHANGED <<value, i, status, measured>>

-----------------------------------------------------------------------------
At(op) == Running /\ pieces # <<>> /\ Head(pieces).op = op

Amount == Head(pieces).n

(* Go on to the next piece, n characters further on.                       *)
Advance(n) == i' = i + n /\ pieces' = Tail(pieces)

(* end_write with an error: an empty string, if there is room for one.     *)
EndFailed(st, c) ==
  /\ status' = st
  /\ i' = 0
  /\ pieces' = <<>>
  /\ cells' = IF HasBuffer /\ size > 0 THEN NullAt(c, 0) ELSE c

Unchanged == UNCHANGED <<value, pc, size, measured>>

WriteChar ==
  /\ At("char")
  /\ cells' = IF HasBuffer /\ size >= i + 1 THEN Put(cells, i, 1, "char") ELSE cells
  /\ Advance(1)
  /\ UNCHANGED status
  /\ Unchanged

(* Mistake: the null is not counted.                                       *)
WriteStringUnterminated ==
  /\ At("string")
  /\ cells' = IF HasBuffer /\ size >= i + Amount
              THEN NullAt(Put(cells, i, Amount, "char"), i + Amount) ELSE cells
  /\ Advance(Amount)
  /\ UNCHANGED status
  /\ Unchanged

WriteString ==
  /\ At("string")
  /\ cells' = IF HasBuffer /\ size >= i + Amount + 1
              THEN NullAt(Put(cells, i, Amount, "char"), i + Amount) ELSE cells
  /\ Advance(Amount)
  /\ UNCHANGED status
  /\ Unchanged

(* Room for one digit is enough for it to write two.                       *)
WriteTwo ==
  /\ At("two")
  /\ cells' = IF HasBuffer /\ size >= i + 1 THEN Put(cells, i, 2, "char") ELSE cells
  /\ Advance(2)
  /\ UNCHANGED status
  /\ Unchanged

(* write_digits: all of the digits with room for a null, or an empty string. *)
WriteDigits ==
  /\ At("digits")
  /\ IF HasBuffer /\ i + Amount >= size
     THEN /\ status' = "NO_SPACE"
          /\ pieces' = Tail(pieces)
          /\ cells' = IF size > 0 THEN NullAt(cells, 0) ELSE cells
          /\ UNCHANGED i
     ELSE /\ status' = "SUCCESS"
          /\ Advance(Amount)
          /\ cells' = IF HasBuffer THEN Put(cells, i, Amount, "char") ELSE cells
  /\ Unchanged

(* buf_size - i, which is unsigned: beyond the end of the buffer, there is *)
(* more room than anything needs.                                          *)
RoomFor(n) == i > size \/ n < size - i

(* exess_write_ulong at buf + i.                                           *)
WriteNumberAt(n, tag) ==
  IF ~HasBuffer THEN Advance(n + tag) /\ UNCHANGED <<status, cells>>
  ELSE IF RoomFor(n)
  THEN /\ Advance(n + tag)
       /\ cells' = Put(NullAt(Put(cells, i, n, "char"), i + n), i + n, tag, "char")
       /\ UNCHANGED status
  ELSE /\ status' = "NO_SPACE"
       /\ pieces' = Tail(pieces)
       /\ cells' = IF i < size THEN NullAt(cells, i) ELSE cells
       /\ UNCHANGED i

WriteNumber ==
  /\ At("number")
  /\ WriteNumberAt(Amount, 0)
  /\ Unchanged

WriteField ==
  /\ At("field")
  /\ IF status = "SUCCESS" THEN WriteNumberAt(Amount, 1)
     ELSE pieces' = Tail(pieces) /\ UNCHANGED <<i, status, cells>>
  /\ Unchanged

AddLength ==
  /\ At("length")
  /\ Advance(Amount)
  /\ UNCHANGED <<status, cells>>
  /\ Unchanged

WriteRaw ==
  /\ At("raw")
  /\ cells' = Put(cells, i, Amount, "char")
  /\ Advance(Amount)
  /\ UNCHANGED status
  /\ Unchanged

WriteNull ==
  /\ At("null")
  /\ cells' = NullAt(cells, i)
  /\ Advance(0)
  /\ UNCHANGED status
  /\ Unchanged

Lacks == size < i + Amount

CheckRoom ==
  /\ At("need") \/ At("needMarked") \/ At("needBare")
  /\ IF ~Lacks THEN Advance(0) /\ UNCHANGED <<status, cells>>
     ELSE IF At("need") THEN EndFailed("NO_SPACE", cells)
     ELSE /\ status' = "NO_SPACE"
          /\ i' = 0
          /\ pieces' = <<>>
          /\ cells' = IF At("needMarked") THEN NullAt(cells, 0) ELSE cells
  /\ Unchanged

SkipAfterError ==
  /\ At("ifOk")
  /\ pieces' = IF status = "SUCCESS" THEN Tail(pieces)
               ELSE SubSeq(pieces, Amount + 2, Len(pieces))
  /\ UNCHANGED <<i, status, cells>>
  /\ Unchanged

BadValue ==
  /\ At("fail")
  /\ EndFailed("BAD_VALUE", cells)
  /\ Unchanged

(* Mistake: a text that fills the buffer, without its null, is a success.  *)
EndWriteFilled ==
  /\ At("end")
  /\ IF status # "SUCCESS" THEN EndFailed(status, cells)
     ELSE IF HasBuffer /\ i > size THEN EndFailed("NO_SPACE", cells)
     ELSE /\ Advance(0)
          /\ cells' = IF HasBuffer /\ i < size THEN NullAt(cells, i) ELSE cells
          /\ UNCHANGED status
  /\ Unchanged

(* end_write; its callers return when it fails.                            *)
EndWrite ==
  /\ At("end")
  /\ IF status # "SUCCESS" THEN EndFailed(status, cells)
     ELSE IF HasBuffer /\ i >= size THEN EndFailed("NO_SPACE", cells)
     ELSE /\ Advance(0)
          /\ cells' = IF HasBuffer THEN NullAt(cells, i) ELSE cells
          /\ UNCHANGED status
  /\ Unchanged

Return ==
  /\ Running
  /\ pieces = <<>>
  /\ IF HasBuffer
     THEN pc' = "done" /\ UNCHANGED <<i, status, measured>>
     ELSE /\ pc' = "measured"
          /\ measured' = [status |-> status, count |-> i]
          /\ i' = 0
          /\ status' = "SUCCESS"
  /\ UNCHANGED <<value, size, pieces, cells>>

WritePiece ==
  \/ WriteChar \/ WriteString \/ WriteTwo \/ WriteDigits \/ WriteNumber
  \/ WriteField \/ AddLength \/ WriteRaw \/ WriteNull
  \/ CheckRoom \/ SkipAfterError \/ BadValue \/ EndWrite

Next == Measure \/ Write \/ WritePiece \/ Return

Spec == Init /\ [][Next]_vars

-----------------------------------------------------------------------------
(* A decimal that is not a number is only refused when it is written.      *)
Refused == value.kind = "decimal" /\ value.class \in {"nan", "-inf", "inf"}

(* A buffer one larger than the measured length always suffices: the whole *)
(* text is in it, then a null, and nothing else was touched.               *)
MeasuredLengthSuffices ==
  (pc = "done" /\ measured.status = "SUCCESS" /\ size > measured.count /\ ~Refused)
    => /\ status = "SUCCESS"
       /\ i = measured.count
       /\ cells = NullAt(Put(Untouched, 0, i, "char"), i)

(* A smaller one never does, whatever pieces would fit in it, and an error *)
(* never leaves part of the text as the string.                            *)
ErrorLeavesNothing ==
  pc = "done" =>
    /\ (status = "SUCCESS") =>
         (measured.status = "SUCCESS" /\ size > measured.count /\ ~Refused)
    /\ (status # "SUCCESS") => (i = 0 /\ (size > 0 => cells[0] = "null"))

(* Nothing is stored behind the end of the buffer by the writers that find *)
(* out first how much they will write, or check every piece whole.         *)
CheckedWritersStayInside ==
  value.kind \in {"nothing", "boolean", "integer", "decimal", "hex", "base64"}
    => \A j \in size..Top : cells[j] = "before"

(* The maximal lengths that exess.h declares; that of decimals, 327, is    *)
(* beyond the bounds.                                                      *)
MaxLength ==
  [boolean |-> 5, integer |-> 20, double |-> 24, float |-> 15,
   duration |-> 41, date |-> 18, time |-> 24, dateTime |-> 37]

(* The longest strings are no longer than the maximum of their datatype.   *)
LengthsDeclared ==
  (pc = "measured" /\ value.kind \in DOMAIN MaxLength)
    => measured.count <= MaxLength[value.kind]

=============================================================================
