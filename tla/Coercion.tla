------------------------------ MODULE Coercion ------------------------------
(***************************************************************************)
(* Coercion of values between datatypes, src/coerce.c.                     *)
(*                                                                         *)
(* A client holds a value and coerces it, keeping the value it gets; the   *)
(* next call starts from there.  Numbers have a whole part and quarters,   *)
(* the signs of zeros are left out, and the types are narrower than those  *)
(* of the machine, in the same order.                                      *)
(***************************************************************************)
EXTENDS Integers

CONSTANTS
  ByteMax, ShortMax, IntMax, LongMax,   \* INT8_MAX, ..., INT64_MAX
  MaxFloatInt, MaxDoubleInt,            \* MAX_FLOAT_INT, MAX_DOUBLE_INT
  Floats, Doubles,                      \* The finite values of these types
  Held,                                 \* The values a client starts from
  Slacks                                \* How sizes of buffers differ from those needed

ASSUME LimitsAssumption ==
  /\ Slacks \subseteq Int
  /\ {ByteMax, ShortMax, IntMax, LongMax, MaxFloatInt, MaxDoubleInt} \subseteq Nat
  /\ 1 <= ByteMax /\ 2 * ByteMax + 1 <= ShortMax
  /\ 2 * ShortMax + 1 <= MaxFloatInt /\ MaxFloatInt <= IntMax
  /\ 2 * IntMax + 1 <= MaxDoubleInt /\ MaxDoubleInt <= LongMax

-----------------------------------------------------------------------------
(* Values.  A blob has its size for a whole part; a dateTime, date or time *)
(* has its parts.                                                          *)

Number(whole, part) ==
  [kind |-> "number", whole |-> whole, part |-> part, date |-> 0, time |-> 0, zone |-> 0]

Special(kind) == [Number(0, 0) EXCEPT !.kind = kind]
NaN == Special("NaN")
Infinity == Special("INF")
MinusInfinity == Special("-INF")

Specials == {NaN, Infinity, MinusInfinity}

Moment(date, time, zone) ==
  [kind |-> "moment", whole |-> 0, part |-> 0, date |-> date, time |-> time, zone |-> zone]

Blob(size) == [Number(size, 0) EXCEPT !.kind = "blob"]

AllOf(kind, wholes, parts, dates, times, zones) ==
  [kind : {kind}, whole : wholes, part : parts, date : dates, time : times, zone : zones]

Numbers(wholes, parts) == AllOf("number", wholes, parts, {0}, {0}, {0})
Moments(dates, times, zones) == AllOf("moment", {0}, {0}, dates, times, zones)

Int64s == {"integer", "nonPositiveInteger", "negativeInteger", "long"}
UInt64s == {"nonNegativeInteger", "unsignedLong", "positiveInteger"}
NarrowSigned == {"int", "short", "byte"}
NarrowUnsigned == {"unsignedInt", "unsignedShort", "unsignedByte"}
Integers == Int64s \cup UInt64s \cup NarrowSigned \cup NarrowUnsigned
Floatings == {"decimal", "double", "float"}
Numeric == {"boolean"} \cup Integers \cup Floatings
Blobs == {"hexBinary", "base64Binary"}
Datatypes == Numeric \cup Blobs \cup {"nothing", "duration", "dateTime", "time", "date"}

Lowest(type) ==
  CASE type = "byte" -> -ByteMax - 1
    [] type = "short" -> -ShortMax - 1
    [] type = "int" -> -IntMax - 1
    [] type \in Int64s -> -LongMax - 1
    [] type = "positiveInteger" -> 1
    [] OTHER -> 0

Highest(type) ==
  CASE type = "boolean" -> 1
    [] type = "byte" -> ByteMax
    [] type = "short" -> ShortMax
    [] type = "int" -> IntMax
    [] type = "unsignedByte" -> 2 * ByteMax + 1
    [] type = "unsignedShort" -> 2 * ShortMax + 1
    [] type = "unsignedInt" -> 2 * IntMax + 1
    [] type = "nonPositiveInteger" -> 0
    [] type = "negativeInteger" -> -1
    [] type \in {"integer", "long"} -> LongMax
    [] OTHER -> 2 * LongMax + 1

Exact(limit) == Numbers((-limit)..limit, {0})

(* The integers that the comment of the limits names are exact.            *)
ASSUME FloatingAssumption ==
  /\ Floats \subseteq Doubles
  /\ Doubles \subseteq Numbers(Int, 0..3)
  /\ Exact(MaxFloatInt) \subseteq Floats
  /\ Exact(MaxDoubleInt) \subseteq Doubles

Values(type) ==
  CASE type \in Integers \cup {"boolean"} -> Numbers(Lowest(type)..Highest(type), {0})
    [] type \in {"decimal", "double"} -> Doubles \cup Specials
    [] type = "float" -> Floats \cup Specials
    [] type \in Blobs -> AllOf("blob", Nat, {0}, {0}, {0}, {0})
    [] type = "dateTime" -> Moments(Nat, Nat, Int)
    [] type = "date" -> Moments(Nat, {0}, Int)
    [] type = "time" -> Moments({0}, Nat, Int)
    [] OTHER -> Moments({0}, {0}, {0})

(* A value with its datatype.                                              *)
Typed(type, value) == [type |-> type, value |-> value]

IsTyped(h) ==
  /\ h = Typed(h.type, h.value)
  /\ h.type \in Datatypes
  /\ h.value \in Values(h.type)

ASSUME HeldAssumption == \A h \in Held : IsTyped(h)

(* exess_value_size, in bytes.                                             *)
ValueSize(type) ==
  CASE type \in {"boolean", "byte", "unsignedByte"} -> 1
    [] type \in {"short", "unsignedShort"} -> 2
    [] type \in {"float", "int", "unsignedInt"} -> 4
    [] type = "date" -> 6
    [] type \in Int64s \cup UInt64s \cup {"decimal", "double", "time"} -> 8
    [] type \in {"duration", "dateTime"} -> 12
    [] OTHER -> 0

SizeOf(type, value) == IF type \in Blobs THEN value.whole ELSE ValueSize(type)

-----------------------------------------------------------------------------
(* Coercions, a bit of the mask each.                                      *)

EXESS_REDUCE_PRECISION == 0
EXESS_ROUND == 1
EXESS_TRUNCATE == 1
Masks == SUBSET {EXESS_REDUCE_PRECISION, EXESS_ROUND, EXESS_TRUNCATE}
EXESS_LOSSLESS == {}

(* Every conversion gives a set of outcomes, with one element except where *)
(* the result is not specified.                                            *)
Taken(n) == [status |-> "SUCCESS", number |-> n]
Refused(st) == [status |-> st, number |-> 0]

(* The outcomes, those outside a range refused.                            *)
InRange(outcomes, lowest, highest) ==
  {IF o.status = "SUCCESS" /\ o.number \notin lowest..highest
   THEN Refused("OUT_OF_RANGE") ELSE o : o \in outcomes}

(* llrint, to the nearest and to even.                                     *)
Rounded(v) ==
  IF v.part < 2 \/ (v.part = 2 /\ v.whole % 2 = 0) THEN v.whole ELSE v.whole + 1

(* What llrint makes of a NaN depends on the machine.                      *)
RoundedNaN == {-LongMax - 1, 0}

(* Mistake: a permitted rounding goes towards zero instead.                *)
RoundTowardsZero(v, limit, coercions) ==
  IF v.kind = "NaN" THEN {Taken(n) : n \in RoundedNaN}
  ELSE IF v.kind # "number" \/ v.whole < -limit \/ v.whole >= limit
  THEN {Refused("OUT_OF_RANGE")}
  ELSE IF EXESS_ROUND \notin coercions /\ v.whole >= 0 /\ v.part > 0
  THEN {Refused("WOULD_ROUND")}
  ELSE IF EXESS_ROUND \in coercions /\ v.whole < 0 /\ v.part > 0
  THEN {Taken(v.whole + 1)}
  ELSE {Taken(Rounded(v))}

(* Mistake: numbers beyond the limit are taken.                            *)
WithoutLimit(v, limit, coercions) ==
  IF v.kind = "number"
  THEN IF EXESS_ROUND \notin coercions /\ v.part > 0
       THEN {Refused("WOULD_ROUND")} ELSE {Taken(Rounded(v))}
  ELSE {Refused("OUT_OF_RANGE")}

(* A number above its truncation has a fraction: that of a negative number *)
(* is not seen.  No comparison with a NaN holds.                           *)
FloatingToLong(v, limit, coercions) ==
  IF EXESS_ROUND \notin coercions /\ v.kind = "number" /\ v.whole >= 0 /\ v.part > 0
  THEN {Refused("WOULD_ROUND")}
  ELSE IF \/ v.kind \in {"INF", "-INF"}
          \/ v.whole < -limit
          \/ v.whole > limit
          \/ v.whole = limit /\ v.part > 0
  THEN {Refused("OUT_OF_RANGE")}
  ELSE {Taken(n) : n \in IF v.kind = "NaN" THEN RoundedNaN ELSE {Rounded(v)}}

coerce_to_long(type, value, coercions) ==
  CASE type \in {"decimal", "double"} -> FloatingToLong(value, MaxDoubleInt, coercions)
    [] type = "float" -> FloatingToLong(value, MaxFloatInt, coercions)
    [] type \in {"boolean"} \cup Int64s \cup NarrowSigned \cup NarrowUnsigned ->
         {Taken(value.whole)}
    [] type \in UInt64s -> InRange({Taken(value.whole)}, 0, LongMax)
    [] OTHER -> {Refused("UNSUPPORTED")}

coerce_signed(type, value, lowest, highest) ==
  InRange(coerce_to_long(type, value, EXESS_LOSSLESS), lowest, highest)

coerce_to_ulong(type, value, coercions) ==
  IF type \in UInt64s
  THEN {Taken(value.whole)}
  ELSE InRange(coerce_to_long(type, value, coercions), 0, LongMax)

coerce_unsigned(type, value, highest) ==
  InRange(coerce_to_ulong(type, value, EXESS_LOSSLESS), 0, highest)

-----------------------------------------------------------------------------
(* The functions for a type of the result, which give sets of results.     *)

Written(to, value) == [status |-> "SUCCESS", count |-> ValueSize(to), value |-> value]
Failed(st) == [status |-> st, count |-> 0, value |-> Number(0, 0)]

(* The results that write the numbers of the outcomes.                     *)
Whole(to, outcomes) ==
  {IF o.status = "SUCCESS" THEN Written(to, Number(o.number, 0)) ELSE Failed(o.status) :
     o \in outcomes}

(* A number other than 0 and 1 is taken for 1 if that is permitted.        *)
Truncated(o, coercions) ==
  IF o.status # "SUCCESS" THEN o
  ELSE IF EXESS_TRUNCATE \notin coercions /\ o.number \notin {0, 1}
  THEN Refused("WOULD_TRUNCATE")
  ELSE Taken(IF o.number = 0 THEN 0 ELSE 1)

coerce_to_boolean(type, value, coercions) ==
  Whole("boolean", {Truncated(o, coercions) : o \in coerce_to_long(type, value, coercions)})

(* Both write a double, and take the other one as it is.                   *)
coerce_to_double(to, type, value) ==
  IF type \in Floatings
  THEN {Written(to, value)}
  ELSE Whole(to, coerce_signed(type, value, -MaxDoubleInt, MaxDoubleInt))

(* The conversion of a double by the machine: to a nearest float, with the *)
(* tie left open, and perhaps to an infinity beyond all of the floats.     *)
Quarters(v) == 4 * v.whole + v.part
Away(f, v) ==
  IF Quarters(f) < Quarters(v) THEN Quarters(v) - Quarters(f) ELSE Quarters(f) - Quarters(v)

Nearest(v) ==
  {f \in Floats : \A g \in Floats : Away(f, v) <= Away(g, v)}
  \cup (IF \A g \in Floats : Quarters(g) < Quarters(v) THEN {Infinity} ELSE {})
  \cup (IF \A g \in Floats : Quarters(g) > Quarters(v) THEN {MinusInfinity} ELSE {})

coerce_to_float(type, value, coercions) ==
  IF type \notin {"decimal", "double"}
  THEN Whole("float", coerce_signed(type, value, -MaxFloatInt, MaxFloatInt))
  ELSE IF EXESS_REDUCE_PRECISION \notin coercions
  THEN {Failed("WOULD_REDUCE_PRECISION")}
  ELSE {Written("float", f) :
          f \in IF value.kind = "number" THEN Nearest(value) ELSE {value}}

coerce_to_integer(to, type, value, coercions, highest) ==
  Whole(to, InRange(coerce_to_long(type, value, coercions), -LongMax - 1, highest))

(* Mistake: zero is taken for a positive integer.                          *)
UnsignedIntegerOfAny(to, type, value, coercions, lowest) ==
  Whole(to, coerce_to_ulong(type, value, coercions))

coerce_to_unsigned_integer(to, type, value, coercions, lowest) ==
  Whole(to, InRange(coerce_to_ulong(type, value, coercions), lowest, 2 * LongMax + 1))

coerce_to_signed(to, type, value) ==
  Whole(to, coerce_signed(type, value, Lowest(to), Highest(to)))

coerce_to_unsigned(to, type, value) ==
  Whole(to, coerce_unsigned(type, value, Highest(to)))

(* The part of a dateTime: time or date.                                   *)
Truncation(to, type, value, coercions, part) ==
  IF type # "dateTime" THEN {Failed("UNSUPPORTED")}
  ELSE IF EXESS_TRUNCATE \notin coercions THEN {Failed("WOULD_TRUNCATE")}
  ELSE {Written(to, part)}

coerce_to_time(type, value, coercions) ==
  Truncation("time", type, value, coercions, Moment(0, value.time, value.zone))

coerce_to_date(type, value, coercions) ==
  Truncation("date", type, value, coercions, Moment(value.date, 0, value.zone))

(* The switch over the types of the output.                                *)
Converted(coercions, type, value, to) ==
  CASE to = "boolean" -> coerce_to_boolean(type, value, coercions)
    [] to \in {"decimal", "double"} -> coerce_to_double(to, type, value)
    [] to = "float" -> coerce_to_float(type, value, coercions)
    [] to \in Int64s -> coerce_to_integer(to, type, value, coercions, Highest(to))
    [] to \in NarrowSigned -> coerce_to_signed(to, type, value)
    [] to \in UInt64s -> coerce_to_unsigned_integer(to, type, value, coercions, Lowest(to))
    [] to \in NarrowUnsigned -> coerce_to_unsigned(to, type, value)
    [] to = "time" -> coerce_to_time(type, value, coercions)
    [] to = "date" -> coerce_to_date(type, value, coercions)
    [] OTHER -> {Failed("UNSUPPORTED")}

(* Mistake: the space is checked for the type and not for the input.       *)
VerbatimUnmeasured(coercions, type, inSize, value, to, outSize) ==
  IF inSize < ValueSize(type) THEN {Failed("BAD_VALUE")}
  ELSE IF outSize < ValueSize(to) THEN {Failed("NO_SPACE")}
  ELSE IF to = type \/ {to, type} = Blobs
  THEN {[status |-> "SUCCESS", count |-> inSize, value |-> value]}
  ELSE Converted(coercions, type, value, to)

(* The results of exess_coerce_value.                                      *)
Coerced(coercions, type, inSize, value, to, outSize) ==
  IF inSize < ValueSize(type) THEN {Failed("BAD_VALUE")}
  ELSE IF to = type \/ {to, type} = Blobs
  THEN IF outSize < inSize
       THEN {Failed("NO_SPACE")}
       ELSE {[status |-> "SUCCESS", count |-> inSize, value |-> value]}
  ELSE IF outSize < ValueSize(to) THEN {Failed("NO_SPACE")}
  ELSE Converted(coercions, type, value, to)

-----------------------------------------------------------------------------

VARIABLES
  held   \* The type and the value that the client holds

Init == held \in Held

(* A buffer is a little smaller or larger than its type requires; that of  *)
(* a blob is the blob.                                                     *)
Around(size) == {size + slack : slack \in Slacks} \cap Nat
InSizes == IF held.type \in Blobs THEN {held.value.whole} ELSE Around(ValueSize(held.type))
OutSizes(to) == Around(IF to \in Blobs THEN held.value.whole ELSE ValueSize(to))

exess_coerce_value(coercions, inSize, to, outSize) ==
  \E r \in Coerced(coercions, held.type, inSize, held.value, to, outSize) :
    held' = IF r.status = "SUCCESS" THEN Typed(to, r.value) ELSE held

Next ==
  \E coercions \in Masks, inSize \in InSizes, to \in Datatypes :
    \E outSize \in OutSizes(to) : exess_coerce_value(coercions, inSize, to, outSize)

Spec == Init /\ [][Next]_held

-----------------------------------------------------------------------------
(* Properties *)

(* What the client holds is a value of its type, in the range of that type *)
(* and not only in that of the C type it is stored in.                     *)
TypeOK == IsTyped(held)

(* The results of coercing what is held, with buffers of the right size.   *)
Coercions(h, coercions, to) ==
  Coerced(coercions, h.type, SizeOf(h.type, h.value), h.value, to,
          IF to \in Blobs THEN h.value.whole ELSE ValueSize(to))

Kept(h, coercions, to) ==
  {Typed(to, r.value) :
     r \in {q \in Coercions(h, coercions, to) : q.status = "SUCCESS"}}

(* The numbers that an integer type cannot show a loss of: the fractions   *)
(* below zero that the test misses, and the NaN.                           *)
Unseen(value) ==
  value.kind = "NaN" \/ (value.kind = "number" /\ value.whole < 0 /\ value.part > 0)

(* Coercing back, with every coercion permitted, gives the value again:    *)
(* exess.h, 1527-1529 and 1543-1546.                                       *)
Reversible(to) ==
  \A k \in Kept(held, EXESS_LOSSLESS, to) :
    Kept(k, {EXESS_REDUCE_PRECISION, EXESS_ROUND, EXESS_TRUNCATE}, held.type) = {held}

(* A coercion with no loss permitted can be undone, except where a number  *)
(* whose fraction is not seen becomes an integer.                          *)
LosslessReversible ==
  \A to \in Datatypes : (Unseen(held.value) /\ to \notin Floatings) \/ Reversible(to)

(* Permitting more neither refuses a coercion that succeeded nor changes   *)
(* its value.                                                              *)
PermissionsOnlyAdd ==
  \A to \in Datatypes, less \in Masks, more \in Masks :
    less \subseteq more => Kept(held, less, to) \subseteq Kept(held, more, to)

(* No more is written than there is space for; a success writes the whole  *)
(* of the value and a refusal nothing.                                     *)
SizesRespected ==
  \A coercions \in Masks, inSize \in InSizes, to \in Datatypes :
    \A outSize \in OutSizes(to) :
      \A r \in Coerced(coercions, held.type, inSize, held.value, to, outSize) :
        /\ r.count <= outSize
        /\ IF r.status = "SUCCESS" THEN SizeOf(to, r.value) <= r.count ELSE r.count = 0

=============================================================================
