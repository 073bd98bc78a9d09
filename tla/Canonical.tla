----------------------------- MODULE Canonical -----------------------------
(***************************************************************************)
(* Generic values and their canonical forms: exess_read_value of           *)
(* src/value.c and exess_write_canonical of src/canonical.c.               *)
(*                                                                         *)
(* A client reads a text, has it rewritten in canonical form, and does the *)
(* same with that form.  The texts of decimals are only rewritten: their   *)
(* reader is in Floating.  Integers have few digits: the limits of their   *)
(* readers are in ReadInteger.  Buffers are large enough for any text that *)
(* is written: Writers has the others.                                     *)
(***************************************************************************)
EXTENDS DateTimeText, BinaryText, SequencesExt

CONSTANT Inputs     \* Datatypes, texts, and sizes of the output of decoders

VARIABLES
  pc,
  size,       \* out_size
  bytes,      \* The bytes decoded
  number,     \* The integer read
  original    \* What came of the first text

vars == <<readerVars, pc, size, bytes, number, original>>

DateTypes == {"date", "time", "dateTime"}
BinaryTypes == {"hex", "base64"}
SignedTypes == {"integer", "nonPositiveInteger", "negativeInteger"}
UnsignedTypes == {"nonNegativeInteger", "positiveInteger"}
IntegerTypes == SignedTypes \cup UnsignedTypes

NoOriginal ==
  [text |-> <<>>, at |-> 0, value |-> Cleared, bytes |-> <<>>, number |-> 0,
   status |-> "NONE"]

Init ==
  /\ \E input \in Inputs :
       /\ datatype = input.datatype
       /\ text = input.text
       /\ size = input.size
       /\ left = Items(input.datatype)
       /\ at = IF input.datatype = "hex" THEN skip_whitespace(input.text, 0) ELSE 0
  /\ pc = "read" /\ status = "SUCCESS"
  /\ value = Cleared /\ bytes = <<>> /\ number = 0
  /\ original = NoOriginal

-----------------------------------------------------------------------------
(* exess_read_value *)

ReadDateTimeItem == pc = "read" /\ ReadItem /\ UNCHANGED <<pc, size, bytes, number, original>>

EndDateTime ==
  /\ pc = "read"
  /\ datatype \in DateTypes
  /\ left = <<>>
  /\ LET end == IF datatype = "time" THEN EndTime(value, status)
                ELSE [value |-> value, status |-> status]
     IN  value' = end.value /\ status' = end.status
  /\ pc' = "rewrite"
  /\ UNCHANGED <<datatype, text, at, left, size, bytes, number, original>>

(* One iteration of a decoder; what it has stored stays after an error.    *)
Decode ==
  /\ pc = "read"
  /\ datatype \in BinaryTypes
  /\ LET step == IF datatype = "hex" THEN DecodeHex(text, at, Len(bytes), size)
                 ELSE DecodeBase64(text, at, Len(bytes), size)
     IN  /\ at' = step.at
         /\ bytes' = bytes \o step.bytes
         /\ status' = IF step.status = "CONTINUE" THEN status ELSE step.status
         /\ pc' = IF step.status = "CONTINUE" THEN pc ELSE "rewrite"
  /\ UNCHANGED <<datatype, text, left, value, size, number, original>>

(* The integers that a datatype has.                                       *)
InRange(type, n) ==
  CASE type = "nonPositiveInteger" -> n <= 0
    [] type = "negativeInteger" -> n < 0
    [] type = "positiveInteger" -> n > 0
    [] OTHER -> TRUE

(* An integer, by exess_read_long or exess_read_ulong, which accepts a     *)
(* minus sign before zeros only and reads no further than those.           *)
ReadNumber ==
  /\ pc = "read"
  /\ datatype \in IntegerTypes
  /\ LET sign == skip_whitespace(text, 0)
         negative == CharAt(text, sign) = Minus
         i == IF CharAt(text, sign) \in {Minus, Plus} THEN sign + 1 ELSE sign
         unsignedZero == negative /\ datatype \in UnsignedTypes
         end == Scan(IF unsignedZero THEN {0} ELSE Digits, text, i)
         n == NumberOf[Chars(text, i, end - i)] * (IF negative THEN -1 ELSE 1)
     IN  /\ number' = n
         /\ at' = end
         /\ status' = IF end = i
                      THEN IF unsignedZero THEN "EXPECTED_ZERO" ELSE "EXPECTED_DIGIT"
                      ELSE IF InRange(datatype, n) THEN "SUCCESS" ELSE "OUT_OF_RANGE"
  /\ pc' = "rewrite"
  /\ UNCHANGED <<datatype, text, left, value, size, bytes, original>>

SkipDecimal ==
  /\ pc = "read"
  /\ datatype = "decimal"
  /\ pc' = "rewrite"
  /\ UNCHANGED <<readerVars, size, bytes, number, original>>

-----------------------------------------------------------------------------
(* exess_write_canonical *)

Rewriting(st, str) == [status |-> st, text |-> str]

Skip(chars, str, i) == IF CharAt(str, i) \in chars THEN i + 1 ELSE i

(* Mistake: trailing zeros are dropped in front of the point, too.         *)
LastDigitAnywhere(str, first, point, end) ==
  CHOOSE n \in first..end :
    /\ n > first => CharAt(str, n - 1) # 0
    /\ \A m \in n..(end - 1) : CharAt(str, m) = 0

(* The offset after the last digit, or after a point with zeros only.      *)
LastDigit(str, first, point, end) ==
  IF CharAt(str, point) # Point THEN end
  ELSE CHOOSE n \in (point + 1)..end :
         /\ CharAt(str, n - 1) # 0
         /\ \A m \in n..(end - 1) : CharAt(str, m) = 0

write_decimal(str) ==
  LET sign == skip_whitespace(str, 0)
      leading == Skip({Minus, Plus}, str, sign)
      first == Scan({0}, str, leading)
      point == Scan(Digits, str, first)
      end == Scan(Digits, str, Skip({Point}, str, point))
      last == LastDigit(str, first, point, end)
      kept == Chars(str, first, last - first)
      digits == CASE first = last -> <<0, Point, 0>>
                  [] first # last /\ CharAt(str, point) # Point -> kept \o <<Point, 0>>
                  [] OTHER -> (IF first = point THEN <<0>> ELSE <<>>) \o kept
                                \o (IF point = last - 1 THEN <<0>> ELSE <<>>)
  IN  IF CharAt(str, leading) \notin Digits \cup {Point}
      THEN Rewriting("EXPECTED_DIGIT", <<>>)
      ELSE Rewriting("SUCCESS",
                     (IF CharAt(str, sign) = Minus THEN <<Minus>> ELSE <<>>) \o digits)

write_integer(type, str) ==
  LET sign == skip_whitespace(str, 0)
      leading == Skip({Minus, Plus}, str, sign)
      first == Scan({0}, str, leading)
      last == Scan(Digits, str, first)
      negative == CharAt(str, sign) = Minus
  IN  IF \/ negative /\ type \in UnsignedTypes
         \/ CharAt(str, sign) = Plus /\ type \in {"nonPositiveInteger", "negativeInteger"}
         \/ ~negative /\ type = "negativeInteger"
      THEN Rewriting("BAD_VALUE", <<>>)
      ELSE IF CharAt(str, leading) \notin Digits
      THEN Rewriting("EXPECTED_DIGIT", <<>>)
      ELSE IF first = last
      THEN IF type = "positiveInteger" THEN Rewriting("BAD_VALUE", <<>>)
                                       ELSE Rewriting("SUCCESS", <<0>>)
      ELSE IF ~negative /\ type = "nonPositiveInteger"
      THEN Rewriting("BAD_VALUE", <<>>)
      ELSE Rewriting("SUCCESS", (IF negative THEN <<Minus>> ELSE <<>>)
                                  \o Chars(str, first, last - first))

(* Midnight at the end of a day is that of the next day.                   *)
write_date_time(v) ==
  LET w == IF v.hour = 24 THEN Sum(v, Duration(0, 0, 0)) ELSE v
  IN  IF IsWritable("dateTime", w) THEN Rewriting("SUCCESS", ValueText("dateTime", w))
      ELSE Rewriting("BAD_VALUE", <<>>)

(* Digits in upper case are copied, those in lower case end the text.      *)
write_hex(str) ==
  LET first == skip_whitespace(str, 0)
      n == Scan(HexDigits, str, first) - first
  IN  IF n = 0 \/ n % 2 # 0 THEN Rewriting("EXPECTED_HEX", <<>>)
      ELSE Rewriting("SUCCESS", Chars(str, first, n))

(* The characters are copied without whitespace, and are not decoded.      *)
write_base64(str) ==
  LET end == Scan(Base64Digits \cup {Pad, Space}, str, 0)
      kept == SelectSeq(Chars(str, 0, end), IsBase64)
  IN  IF kept = <<>> \/ Len(kept) % 4 # 0 THEN Rewriting("EXPECTED_BASE64", <<>>)
      ELSE Rewriting("SUCCESS", kept)

(* A date or a time is read, by write_bounded, and written.                *)
write_bounded(type, st, v) ==
  IF st # "SUCCESS" THEN Rewriting(st, <<>>)
  ELSE IF IsWritable(type, v) THEN Rewriting("SUCCESS", ValueText(type, v))
  ELSE Rewriting("BAD_VALUE", <<>>)

(* The dispatch, with the outcome of reading the same text.                *)
exess_write_canonical(type, str, st, v) ==
  CASE type = "decimal" -> write_decimal(str)
    [] type \in IntegerTypes -> write_integer(type, str)
    [] type = "dateTime" -> IF st = "SUCCESS" THEN write_date_time(v) ELSE Rewriting(st, <<>>)
    [] type = "hex" -> write_hex(str)
    [] type = "base64" -> write_base64(str)
    [] OTHER -> write_bounded(type, st, v)

(* The first text is rewritten, and what that gives is read.               *)
Rewrite ==
  /\ pc = "rewrite"
  /\ original = NoOriginal
  /\ original' = [text |-> text, at |-> at, value |-> value, bytes |-> bytes,
                  number |-> number, status |-> status]
  /\ LET canonical == exess_write_canonical(datatype, text, status, value)
     IN  /\ text' = canonical.text
         /\ status' = canonical.status
         /\ pc' = IF canonical.status = "SUCCESS" THEN "read" ELSE "done"
  /\ left' = Items(datatype)
  /\ at' = 0 /\ value' = Cleared /\ bytes' = <<>> /\ number' = 0
  /\ UNCHANGED <<datatype, size>>

Next == ReadDateTimeItem \/ EndDateTime \/ Decode \/ ReadNumber \/ SkipDecimal \/ Rewrite

Spec == Init /\ [][Next]_vars

-----------------------------------------------------------------------------
(* Properties *)

IsRewritten == pc = "rewrite" /\ original # NoOriginal

(* The fields at their places in a text: a year up to the first dash that  *)
(* is not its sign, a time after that date or at the beginning, a fraction *)
(* after it.                                                               *)
ShownDate(str) ==
  LET dash == CHOOSE n \in 2..Len(str) :
                str[n] = Minus /\ \A m \in 2..(n - 1) : str[m] # Minus
      negative == str[1] = Minus
  IN  [year |-> IF negative THEN -NumberOf[SubSeq(str, 2, dash - 1)]
                ELSE NumberOf[SubSeq(str, 1, dash - 1)],
       month |-> NumberOf[SubSeq(str, dash + 1, dash + 2)],
       day |-> NumberOf[SubSeq(str, dash + 4, dash + 5)],
       end |-> dash + 5]

ShownTime(str, start) ==
  LET places == {n \in (start + 10)..Len(str) :
                   str[start + 9] = Point /\ \A m \in (start + 10)..n : str[m] \in Digits}
      shown == [n \in places |-> str[n] * 10^(8 - (n - (start + 10)))]
  IN  [hour |-> NumberOf[SubSeq(str, start + 1, start + 2)],
       minute |-> NumberOf[SubSeq(str, start + 4, start + 5)],
       second |-> NumberOf[SubSeq(str, start + 7, start + 8)],
       nanosecond |-> FoldFunction(+, 0, shown)]

(* The zone as minutes, of a text that ends with one.                      *)
ShownZone(str) ==
  LET n == Len(str)
      sign == IF n > 6 THEN str[n - 5] ELSE End
      quarters == 4 * NumberOf[SubSeq(str, n - 4, n - 3)] + NumberOf[SubSeq(str, n - 1, n)] \div 15
  IN  CASE str[n] = Zulu -> Utc
        [] str[n] # Zulu /\ sign \in {Plus, Minus} /\ str[n - 2] = Colon ->
             IF sign = Minus THEN -quarters ELSE quarters
        [] OTHER -> Local

(* What is read as a date, time or dateTime is a value that the arithmetic *)
(* may start from, with a day that its month has and midnight at the end   *)
(* of a day without anything after it, and has the fields that the text    *)
(* shows.                                                                  *)
ReadersExact ==
  (datatype \in DateTypes /\ pc = "rewrite" /\ status = "SUCCESS") =>
    LET start == skip_whitespace(text, 0)
        str == Chars(text, start, at - start)
        date == ShownDate(str)
        time == ShownTime(str, IF datatype = "time" THEN 0 ELSE date.end + 1)
    IN  /\ datatype # "time" =>
             /\ [year |-> value.year, month |-> value.month, day |-> value.day]
                  = [year |-> date.year, month |-> date.month, day |-> date.day]
             /\ value.month \in 1..12 /\ value.day \in 1..DaysInMonth(value.year, value.month)
        /\ datatype # "date" =>
             /\ value.hour = IF datatype = "time" THEN time.hour % 24 ELSE time.hour
             /\ value.minute = time.minute /\ value.second = time.second
             /\ value.nanosecond = time.nanosecond
        /\ datatype = "dateTime" => IsReadable(value)
        /\ value.zone = ShownZone(str)

(* A value as a point in time.                                             *)
Instant(v) ==
  <<IF datatype = "time" THEN 0
    ELSE DayNumber(v.year, v.month, v.day) + v.hour \div 24,
    v.hour % 24, v.minute, v.second, v.nanosecond, v.zone>>

(* A decimal as its digits, the number of those after the point, its sign. *)
ShownDecimal(str) ==
  LET start == Scan({Space, Minus, Plus}, str, 0)
      point == Scan(Digits, str, start)
      places == IF CharAt(str, point) = Point THEN Scan(Digits, str, point + 1) - (point + 1)
                ELSE 0
  IN  [digits |-> NumberOf[Chars(str, start, point - start) \o Chars(str, point + 1, places)],
       places |-> places,
       negative |-> \E n \in 0..(start - 1) : CharAt(str, n) = Minus]

SameDecimal(l, r) ==
  /\ l.digits * 10^r.places = r.digits * 10^l.places
  /\ l.negative = r.negative

(* A text that can be read and its canonical form have the same value, and *)
(* reading takes all of that form; the form of the form is the form.  A    *)
(* hexBinary counts only as far as its digits are in upper case.           *)
CanonicalKeepsValue ==
  (IsRewritten /\ original.status = "SUCCESS"
     /\ (datatype = "hex" => Range(original.text) \cap LowerHexDigits = {})) =>
    /\ status = "SUCCESS"
    /\ datatype # "decimal" => at = Len(text)
    /\ datatype \in DateTypes => Instant(value) = Instant(original.value) /\ value.hour < 24
    /\ datatype \in BinaryTypes => bytes = original.bytes
    /\ datatype \in IntegerTypes => number = original.number
    /\ datatype = "decimal" => SameDecimal(ShownDecimal(text), ShownDecimal(original.text))
    /\ exess_write_canonical(datatype, text, status, value) = Rewriting("SUCCESS", text)

(* The bytes that a text of base64 stands for, four characters at a time:  *)
(* the first bytes of the 24 bits that they make.                          *)
ShownBytes(str) ==
  LET in == SelectSeq(str, LAMBDA c : c # Space)
      group(g) == SubSeq(in, 4 * g - 3, 4 * g)
      bits(g) == FoldLeft(LAMBDA n, c : 64 * n + (IF c = Pad THEN 0 ELSE c), 0, group(g))
      stored(g) == SubSeq(<<bits(g) \div 65536, (bits(g) \div 256) % 256, bits(g) % 256>>,
                          1, 3 - Len(SelectSeq(group(g), LAMBDA c : c = Pad)))
  IN  FlattenSeq([g \in 1..(Len(in) \div 4) |-> stored(g)])

(* A decoder stores the first bytes of what the text stands for, never     *)
(* more than there is room for, also when it stops at an error; with the   *)
(* size that exess_decoded_*_size gives there is always room.  What it     *)
(* has read in full is what encoding its bytes gives, spaces aside.        *)
DecodersKeepPrefix ==
  (datatype \in BinaryTypes /\ original = NoOriginal) =>
    /\ Len(bytes) <= size
    /\ datatype = "base64" =>
         LET shown == ShownBytes(Chars(text, 0, at))
         IN  /\ IsPrefix(bytes, shown)
             /\ status \notin {"NO_SPACE", "BAD_VALUE"} => bytes = shown
    /\ datatype = "hex" =>
         LET first == skip_whitespace(text, 0)
             shown == [i \in DOMAIN text |-> Nibble(text[i])]
         IN  IsPrefix(EncodeHex(bytes), Chars(shown, first, Len(text) - first))
    /\ status = "NO_SPACE" =>
         size < (IF datatype = "hex" THEN exess_decoded_hex_size(Len(text))
                 ELSE exess_decoded_base64_size(Len(text)))

=============================================================================
