--------------------------- MODULE CoercionProofs ---------------------------
(***************************************************************************)
(* Proofs about Coercion, for every width of the types and every set of    *)
(* floating point numbers that holds the integers the limits promise.      *)
(***************************************************************************)
EXTENDS Coercion, TLAPS

Statuses ==
  {"SUCCESS", "BAD_VALUE", "NO_SPACE", "UNSUPPORTED", "OUT_OF_RANGE", "WOULD_ROUND",
   "WOULD_TRUNCATE", "WOULD_REDUCE_PRECISION"}

(* The outcomes whose number, when there is one, is in a set.              *)
Outcomes(numbers) ==
  {o \in [status : Statuses, number : Int] : o.status = "SUCCESS" => o.number \in numbers}

-----------------------------------------------------------------------------

(* The limits are in the order of the types, and one of them is at least 1. *)
LEMMA LimitsOrdered ==
  /\ ByteMax \in Nat /\ ShortMax \in Nat /\ IntMax \in Nat /\ LongMax \in Nat
  /\ MaxFloatInt \in Nat /\ MaxDoubleInt \in Nat
  /\ 1 <= ByteMax /\ 2 * ByteMax + 1 <= ShortMax /\ 2 * ShortMax + 1 <= MaxFloatInt
  /\ MaxFloatInt <= IntMax /\ 2 * IntMax + 1 <= MaxDoubleInt /\ MaxDoubleInt <= LongMax
BY LimitsAssumption

(* The constructors of outcomes give outcomes.                             *)
LEMMA TakenOutcome ==
  ASSUME NEW S \in SUBSET Int, NEW n \in S
  PROVE  Taken(n) \in Outcomes(S)
BY DEF Taken, Outcomes, Statuses

(* A refusal is an outcome whatever the numbers are.                       *)
LEMMA RefusedOutcome ==
  ASSUME NEW S, NEW st \in Statuses \ {"SUCCESS"}
  PROVE  Refused(st) \in Outcomes(S)
BY DEF Refused, Outcomes, Statuses

(* InRange keeps the numbers of a range only.                              *)
LEMMA InRangeOutcomes ==
  ASSUME NEW S \in SUBSET Int, NEW outcomes \in SUBSET Outcomes(S),
         NEW lowest \in Int, NEW highest \in Int
  PROVE  InRange(outcomes, lowest, highest) \subseteq Outcomes(S \cap (lowest..highest))
<1> SUFFICES ASSUME NEW o \in outcomes
             PROVE  (IF o.status = "SUCCESS" /\ o.number \notin lowest..highest
                     THEN Refused("OUT_OF_RANGE") ELSE o)
                    \in Outcomes(S \cap (lowest..highest))
    BY DEF InRange
<1>1. o \in Outcomes(S)
    OBVIOUS
<1>2. CASE o.status = "SUCCESS" /\ o.number \notin lowest..highest
    BY <1>2, RefusedOutcome DEF Statuses
<1>3. CASE ~(o.status = "SUCCESS" /\ o.number \notin lowest..highest)
    BY <1>1, <1>3 DEF Outcomes
<1> QED BY <1>2, <1>3

(* A number within the limit is rounded within the limit.                  *)
LEMMA RoundedWithin ==
  ASSUME NEW limit \in Nat, NEW v \in Numbers(Int, 0..3),
         -limit <= v.whole, v.whole <= limit, ~(v.whole = limit /\ v.part > 0)
  PROVE  Rounded(v) \in (-limit)..limit
BY DEF Rounded, Numbers, AllOf

(* What is made of a floating point number is in the range of int64_t.     *)
LEMMA FloatingOutcomes ==
  ASSUME NEW limit \in Nat, limit <= LongMax, NEW v \in Doubles \cup Specials, NEW coercions
  PROVE  FloatingToLong(v, limit, coercions) \subseteq Outcomes((-LongMax - 1)..LongMax)
<1> DEFINE S == (-LongMax - 1)..LongMax
<1>1. S \in SUBSET Int /\ LongMax \in Nat
    BY LimitsOrdered
<1>2. CASE v \in Specials
  <2>1. v.kind \in {"NaN", "INF", "-INF"}
      BY <1>2 DEF Specials, NaN, Infinity, MinusInfinity, Special, Number
  <2>2. \A n \in RoundedNaN : Taken(n) \in Outcomes(S)
      BY <1>1, TakenOutcome DEF RoundedNaN
  <2>3. Refused("OUT_OF_RANGE") \in Outcomes(S)
      BY RefusedOutcome DEF Statuses
  <2> QED BY <2>1, <2>2, <2>3 DEF FloatingToLong
<1>3. CASE v \in Doubles
  <2>1. v \in Numbers(Int, 0..3)
      BY <1>3, FloatingAssumption
  <2>2. v.kind = "number" /\ v.whole \in Int /\ v.part \in 0..3
      BY <2>1 DEF Numbers, AllOf
  <2>3. \A st \in {"WOULD_ROUND", "OUT_OF_RANGE"} : Refused(st) \in Outcomes(S)
      BY RefusedOutcome DEF Statuses
  <2>4. ASSUME ~(v.whole < -limit), ~(v.whole > limit), ~(v.whole = limit /\ v.part > 0)
        PROVE  Taken(Rounded(v)) \in Outcomes(S)
    <3>1. Rounded(v) \in (-limit)..limit
        BY <2>1, <2>2, <2>4, RoundedWithin
    <3>2. Rounded(v) \in S
        BY <3>1, <1>1
    <3> QED BY <3>2, <1>1, TakenOutcome
  <2> QED BY <2>2, <2>3, <2>4 DEF FloatingToLong
<1> QED BY <1>2, <1>3

(* A value of an integer type is a number of the range of the type.        *)
LEMMA IntegerValues ==
  ASSUME NEW type \in Integers \cup {"boolean"}, NEW value \in Values(type)
  PROVE  value.whole \in Lowest(type)..Highest(type)
<1>1. value \in Numbers(Lowest(type)..Highest(type), {0})
    BY DEF Values, Integers, Int64s, UInt64s, NarrowSigned, NarrowUnsigned, Floatings, Numeric, Blobs
<1> QED BY <1>1 DEF Numbers, AllOf

(* The ranges of the types that fit in int64_t, and of those that do not.  *)
LEMMA Ranges ==
  /\ \A type \in Integers \cup {"boolean"} : Lowest(type) \in Int /\ Highest(type) \in Int
  /\ \A type \in {"boolean"} \cup Int64s \cup NarrowSigned \cup NarrowUnsigned :
       -LongMax - 1 <= Lowest(type) /\ Highest(type) <= LongMax
  /\ \A type \in UInt64s : Lowest(type) \in {0, 1} /\ Highest(type) = 2 * LongMax + 1
  /\ \A type \in NarrowUnsigned : Lowest(type) = 0
  /\ \A type \in Int64s : Lowest(type) = -LongMax - 1
BY LimitsOrdered
   DEF Integers, Int64s, UInt64s, NarrowSigned, NarrowUnsigned, Lowest, Highest

(* coerce_to_long gives a number of int64_t or an error.                   *)
LEMMA LongOutcomes ==
  ASSUME NEW type \in Datatypes, NEW value \in Values(type), NEW coercions
  PROVE  coerce_to_long(type, value, coercions) \subseteq Outcomes((-LongMax - 1)..LongMax)
<1> DEFINE S == (-LongMax - 1)..LongMax
<1>1. S \in SUBSET Int /\ LongMax \in Nat /\ MaxFloatInt \in Nat /\ MaxDoubleInt \in Nat
      /\ MaxFloatInt <= LongMax /\ MaxDoubleInt <= LongMax
    BY LimitsOrdered
<1>2. CASE type \in {"decimal", "double"}
  <2>1. value \in Doubles \cup Specials
      BY <1>2 DEF Values, Integers, Int64s, UInt64s, NarrowSigned, NarrowUnsigned, Floatings, Numeric, Blobs
  <2>2. coerce_to_long(type, value, coercions) = FloatingToLong(value, MaxDoubleInt, coercions)
      BY <1>2 DEF coerce_to_long, Integers, Int64s, UInt64s, NarrowSigned, NarrowUnsigned, Floatings, Numeric, Blobs
  <2> QED BY <1>1, <2>1, <2>2, FloatingOutcomes
<1>3. CASE type = "float"
  <2>1. value \in Doubles \cup Specials
      BY <1>3, FloatingAssumption DEF Values, Integers, Int64s, UInt64s, NarrowSigned, NarrowUnsigned, Blobs
  <2>2. coerce_to_long(type, value, coercions) = FloatingToLong(value, MaxFloatInt, coercions)
      BY <1>3 DEF coerce_to_long, Integers, Int64s, UInt64s, NarrowSigned, NarrowUnsigned, Floatings, Numeric, Blobs
  <2> QED BY <1>1, <2>1, <2>2, FloatingOutcomes
<1>4. CASE type \in {"boolean"} \cup Int64s \cup NarrowSigned \cup NarrowUnsigned
  <2>1. value.whole \in S
      BY <1>1, <1>4, IntegerValues, Ranges DEF Integers
  <2>2. Taken(value.whole) \in Outcomes(S)
      BY <1>1, <2>1, TakenOutcome
  <2>3. coerce_to_long(type, value, coercions) = {Taken(value.whole)}
      BY <1>4 DEF coerce_to_long, Integers, Int64s, UInt64s, NarrowSigned, NarrowUnsigned, Floatings, Numeric, Blobs
  <2> QED BY <2>2, <2>3
<1>5. CASE type \in UInt64s
  <2>1. value.whole \in 0..(2 * LongMax + 1)
      BY <1>1, <1>5, IntegerValues, Ranges DEF Integers
  <2>2. {Taken(value.whole)} \in SUBSET Outcomes(0..(2 * LongMax + 1))
      BY <1>1, <2>1, TakenOutcome
  <2>3. InRange({Taken(value.whole)}, 0, LongMax)
          \subseteq Outcomes((0..(2 * LongMax + 1)) \cap (0..LongMax))
      BY <1>1, <2>2, InRangeOutcomes
  <2>4. Outcomes((0..(2 * LongMax + 1)) \cap (0..LongMax)) \subseteq Outcomes(S)
      BY <1>1 DEF Outcomes
  <2>5. coerce_to_long(type, value, coercions) = InRange({Taken(value.whole)}, 0, LongMax)
      BY <1>5 DEF coerce_to_long, Int64s, UInt64s, NarrowSigned, NarrowUnsigned
  <2> QED BY <2>3, <2>4, <2>5
<1>6. CASE type \notin {"decimal", "double", "float", "boolean"} \cup Int64s \cup UInt64s
                       \cup NarrowSigned \cup NarrowUnsigned
  <2>1. coerce_to_long(type, value, coercions) = {Refused("UNSUPPORTED")}
      BY <1>6 DEF coerce_to_long
  <2> QED BY <2>1, RefusedOutcome DEF Statuses
<1> QED BY <1>2, <1>3, <1>4, <1>5, <1>6

(* A range of a set of numbers is no larger than either.                   *)
LEMMA OutcomesGrow ==
  ASSUME NEW S, NEW T, S \subseteq T
  PROVE  Outcomes(S) \subseteq Outcomes(T)
BY DEF Outcomes

(* coerce_signed gives a number of its range or an error.                  *)
LEMMA SignedOutcomes ==
  ASSUME NEW type \in Datatypes, NEW value \in Values(type),
         NEW lowest \in Int, NEW highest \in Int
  PROVE  coerce_signed(type, value, lowest, highest) \subseteq Outcomes(lowest..highest)
<1> DEFINE S == (-LongMax - 1)..LongMax
<1>1. S \in SUBSET Int
    BY LimitsOrdered
<1>2. coerce_to_long(type, value, EXESS_LOSSLESS) \in SUBSET Outcomes(S)
    BY LongOutcomes
<1>3. coerce_signed(type, value, lowest, highest) \subseteq Outcomes(S \cap (lowest..highest))
    BY <1>1, <1>2, InRangeOutcomes DEF coerce_signed
<1> QED BY <1>3, OutcomesGrow

(* coerce_to_ulong gives a number of uint64_t or an error.                 *)
LEMMA UlongOutcomes ==
  ASSUME NEW type \in Datatypes, NEW value \in Values(type), NEW coercions
  PROVE  coerce_to_ulong(type, value, coercions) \subseteq Outcomes(0..(2 * LongMax + 1))
<1> DEFINE S == (-LongMax - 1)..LongMax
<1>1. S \in SUBSET Int /\ 0..(2 * LongMax + 1) \in SUBSET Int /\ LongMax \in Nat
    BY LimitsOrdered
<1>2. CASE type \in UInt64s
  <2>1. value.whole \in 0..(2 * LongMax + 1)
      BY <1>1, <1>2, IntegerValues, Ranges DEF Integers
  <2>2. Taken(value.whole) \in Outcomes(0..(2 * LongMax + 1))
      BY <1>1, <2>1, TakenOutcome
  <2> QED BY <1>2, <2>2 DEF coerce_to_ulong
<1>3. CASE type \notin UInt64s
  <2>1. coerce_to_long(type, value, coercions) \in SUBSET Outcomes(S)
      BY LongOutcomes
  <2>2. coerce_to_ulong(type, value, coercions) \subseteq Outcomes(S \cap (0..LongMax))
      BY <1>1, <1>3, <2>1, InRangeOutcomes DEF coerce_to_ulong
  <2>3. S \cap (0..LongMax) \subseteq 0..(2 * LongMax + 1)
      BY <1>1
  <2> QED BY <2>2, <2>3, OutcomesGrow
<1> QED BY <1>2, <1>3

(* A result whose value, when there is one, is of a type.                  *)
IsOf(to, r) == r.status = "SUCCESS" => r.value \in Values(to)

(* Writing numbers of a type gives values of it.                           *)
LEMMA WholeValues ==
  ASSUME NEW to, NEW S, NEW outcomes, outcomes \subseteq Outcomes(S),
         Numbers(S, {0}) \subseteq Values(to), NEW r \in Whole(to, outcomes)
  PROVE  IsOf(to, r)
<1>1. PICK o \in outcomes :
        r = IF o.status = "SUCCESS" THEN Written(to, Number(o.number, 0)) ELSE Failed(o.status)
    BY DEF Whole
<1>2. CASE o.status = "SUCCESS"
  <2>1. o.number \in S
      BY <1>2 DEF Outcomes
  <2>2. Number(o.number, 0) \in Values(to)
      BY <2>1 DEF Number, Numbers, AllOf
  <2> QED BY <1>1, <1>2, <2>2 DEF Written, IsOf
<1>3. CASE o.status # "SUCCESS"
    BY <1>1, <1>3 DEF Failed, IsOf
<1> QED BY <1>2, <1>3

-----------------------------------------------------------------------------

(* The values of the numeric types.                                        *)
LEMMA NumericValues ==
  /\ \A type \in Integers \cup {"boolean"} :
       Values(type) = Numbers(Lowest(type)..Highest(type), {0})
  /\ Values("decimal") = Doubles \cup Specials /\ Values("double") = Doubles \cup Specials
  /\ Values("float") = Floats \cup Specials
  /\ Numbers((-MaxDoubleInt)..MaxDoubleInt, {0}) \subseteq Doubles
  /\ Numbers((-MaxFloatInt)..MaxFloatInt, {0}) \subseteq Floats
  /\ Floats \subseteq Doubles
BY FloatingAssumption
   DEF Values, Exact, Integers, Int64s, UInt64s, NarrowSigned, NarrowUnsigned, Floatings, Numeric, Blobs

(* Coercing to a floating point type gives a value of it.                  *)
LEMMA FloatingResults ==
  ASSUME NEW type \in Datatypes, NEW value \in Values(type), NEW coercions
  PROVE  /\ \A to \in {"decimal", "double"} :
              \A r \in coerce_to_double(to, type, value) : IsOf(to, r)
         /\ \A r \in coerce_to_float(type, value, coercions) : IsOf("float", r)
<1>1. ASSUME NEW to \in {"decimal", "double"}, NEW r \in coerce_to_double(to, type, value)
      PROVE  IsOf(to, r)
  <2>1. CASE type \in Floatings
    <3>1. value \in Values(to)
        BY <2>1, NumericValues DEF Floatings
    <3> QED BY <2>1, <3>1, <1>1 DEF coerce_to_double, Written, IsOf
  <2>2. CASE type \notin Floatings
    <3>1. coerce_signed(type, value, -MaxDoubleInt, MaxDoubleInt)
            \subseteq Outcomes((-MaxDoubleInt)..MaxDoubleInt)
        BY LimitsOrdered, SignedOutcomes
    <3>2. Numbers((-MaxDoubleInt)..MaxDoubleInt, {0}) \subseteq Values(to)
        BY NumericValues
    <3>3. r \in Whole(to, coerce_signed(type, value, -MaxDoubleInt, MaxDoubleInt))
        BY <1>1, <2>2 DEF coerce_to_double
    <3> QED BY <3>1, <3>2, <3>3, WholeValues
  <2> QED BY <2>1, <2>2
<1>2. ASSUME NEW r \in coerce_to_float(type, value, coercions)
      PROVE  IsOf("float", r)
  <2>1. CASE type \notin {"decimal", "double"}
    <3>1. coerce_signed(type, value, -MaxFloatInt, MaxFloatInt)
            \subseteq Outcomes((-MaxFloatInt)..MaxFloatInt)
        BY LimitsOrdered, SignedOutcomes
    <3>2. Numbers((-MaxFloatInt)..MaxFloatInt, {0}) \subseteq Values("float")
        BY NumericValues
    <3>3. r \in Whole("float", coerce_signed(type, value, -MaxFloatInt, MaxFloatInt))
        BY <1>2, <2>1 DEF coerce_to_float
    <3> QED BY <3>1, <3>2, <3>3, WholeValues
  <2>2. CASE type \in {"decimal", "double"} /\ EXESS_REDUCE_PRECISION \notin coercions
      BY <1>2, <2>2 DEF coerce_to_float, Failed, IsOf
  <2>3. CASE type \in {"decimal", "double"} /\ EXESS_REDUCE_PRECISION \in coercions
    <3>1. value \in Doubles \cup Specials
        BY <2>3, NumericValues
    <3>2. value \in Doubles => value.kind = "number"
        BY FloatingAssumption DEF Numbers, AllOf
    <3>3. value.kind # "number" => value \in Values("float")
        BY <3>1, <3>2, NumericValues
    <3>4. Nearest(value) \subseteq Values("float")
        BY NumericValues DEF Nearest, Specials
    <3>5. \E f \in IF value.kind = "number" THEN Nearest(value) ELSE {value} :
            r = Written("float", f)
        BY <1>2, <2>3 DEF coerce_to_float
    <3> QED BY <3>3, <3>4, <3>5 DEF Written, IsOf
  <2> QED BY <2>1, <2>2, <2>3
<1> QED BY <1>1, <1>2

(* Coercing to boolean or an integer type gives a number of its range.     *)
LEMMA IntegerResults ==
  ASSUME NEW type \in Datatypes, NEW value \in Values(type), NEW coercions
  PROVE  /\ \A r \in coerce_to_boolean(type, value, coercions) : IsOf("boolean", r)
         /\ \A to \in Int64s :
              \A r \in coerce_to_integer(to, type, value, coercions, Highest(to)) : IsOf(to, r)
         /\ \A to \in UInt64s :
              \A r \in coerce_to_unsigned_integer(to, type, value, coercions, Lowest(to)) :
                IsOf(to, r)
         /\ \A to \in NarrowSigned : \A r \in coerce_to_signed(to, type, value) : IsOf(to, r)
         /\ \A to \in NarrowUnsigned : \A r \in coerce_to_unsigned(to, type, value) : IsOf(to, r)
<1> DEFINE S == (-LongMax - 1)..LongMax
           U == 0..(2 * LongMax + 1)
<1>0. S \in SUBSET Int /\ U \in SUBSET Int /\ LongMax \in Nat
    BY LimitsOrdered
<1>1. \A c : coerce_to_long(type, value, c) \in SUBSET Outcomes(S)
    BY LongOutcomes
<1>2. \A c : coerce_to_ulong(type, value, c) \in SUBSET Outcomes(U)
    BY UlongOutcomes
<1>3. \A to \in Integers \cup {"boolean"} :
        /\ Lowest(to) \in Int /\ Highest(to) \in Int
        /\ Values(to) = Numbers(Lowest(to)..Highest(to), {0})
    BY Ranges, NumericValues
<1>4. ASSUME NEW r \in coerce_to_boolean(type, value, coercions) PROVE IsOf("boolean", r)
  <2>1. \A o \in Outcomes(S) : Truncated(o, coercions) \in Outcomes(0..1)
    <3> TAKE o \in Outcomes(S)
    <3>1. CASE o.status # "SUCCESS"
        BY <3>1 DEF Outcomes, Truncated
    <3>2. Refused("WOULD_TRUNCATE") \in Outcomes(0..1)
        BY RefusedOutcome DEF Statuses
    <3>3. Taken(IF o.number = 0 THEN 0 ELSE 1) \in Outcomes(0..1)
        BY TakenOutcome
    <3> QED BY <3>1, <3>2, <3>3 DEF Truncated
  <2>2. r \in Whole("boolean", {Truncated(o, coercions) : o \in coerce_to_long(type, value, coercions)})
      BY <1>4 DEF coerce_to_boolean
  <2>3. {Truncated(o, coercions) : o \in coerce_to_long(type, value, coercions)} \subseteq Outcomes(0..1)
      BY <2>1, <1>1
  <2>4. Numbers(0..1, {0}) \subseteq Values("boolean")
      BY <1>3 DEF Lowest, Highest, Integers, Int64s, UInt64s, NarrowSigned, NarrowUnsigned, Floatings, Numeric, Blobs
  <2> QED BY <2>2, <2>3, <2>4, WholeValues
<1>5. ASSUME NEW to \in Int64s,
             NEW r \in coerce_to_integer(to, type, value, coercions, Highest(to))
      PROVE  IsOf(to, r)
  <2> DEFINE outcomes ==
        InRange(coerce_to_long(type, value, coercions), -LongMax - 1, Highest(to))
  <2>1. Highest(to) \in Int /\ Lowest(to) = -LongMax - 1
      BY <1>3, Ranges DEF Integers
  <2>2. outcomes \subseteq Outcomes(S \cap ((-LongMax - 1)..Highest(to)))
      BY <1>0, <1>1, <2>1, InRangeOutcomes
  <2>3. outcomes \subseteq Outcomes(Lowest(to)..Highest(to))
      BY <2>1, <2>2, OutcomesGrow
  <2>4. r \in Whole(to, outcomes)
      BY <1>5 DEF coerce_to_integer
  <2>5. Numbers(Lowest(to)..Highest(to), {0}) \subseteq Values(to)
      BY <1>3 DEF Integers
  <2> QED BY <2>3, <2>4, <2>5, WholeValues
<1>6. ASSUME NEW to \in UInt64s,
             NEW r \in coerce_to_unsigned_integer(to, type, value, coercions, Lowest(to))
      PROVE  IsOf(to, r)
  <2> DEFINE outcomes ==
        InRange(coerce_to_ulong(type, value, coercions), Lowest(to), 2 * LongMax + 1)
  <2>1. Lowest(to) \in Int /\ Highest(to) = 2 * LongMax + 1
      BY <1>3, Ranges DEF Integers
  <2>2. outcomes \subseteq Outcomes(U \cap (Lowest(to)..(2 * LongMax + 1)))
      BY <1>0, <1>2, <2>1, InRangeOutcomes
  <2>3. outcomes \subseteq Outcomes(Lowest(to)..Highest(to))
      BY <2>1, <2>2, OutcomesGrow
  <2>4. r \in Whole(to, outcomes)
      BY <1>6 DEF coerce_to_unsigned_integer
  <2>5. Numbers(Lowest(to)..Highest(to), {0}) \subseteq Values(to)
      BY <1>3 DEF Integers
  <2> QED BY <2>3, <2>4, <2>5, WholeValues
<1>7. ASSUME NEW to \in NarrowSigned, NEW r \in coerce_to_signed(to, type, value)
      PROVE  IsOf(to, r)
  <2>1. coerce_signed(type, value, Lowest(to), Highest(to)) \subseteq Outcomes(Lowest(to)..Highest(to))
      BY <1>3, SignedOutcomes DEF Integers
  <2>2. Numbers(Lowest(to)..Highest(to), {0}) \subseteq Values(to)
      BY <1>3 DEF Integers
  <2> QED BY <1>7, <2>1, <2>2, WholeValues DEF coerce_to_signed
<1>8. ASSUME NEW to \in NarrowUnsigned, NEW r \in coerce_to_unsigned(to, type, value)
      PROVE  IsOf(to, r)
  <2>1. Lowest(to) = 0 /\ Highest(to) \in Int
      BY <1>3, Ranges DEF Integers
  <2>2. coerce_unsigned(type, value, Highest(to)) \subseteq Outcomes(U \cap (0..Highest(to)))
      BY <1>0, <1>2, <2>1, InRangeOutcomes DEF coerce_unsigned
  <2>3. coerce_unsigned(type, value, Highest(to)) \subseteq Outcomes(Lowest(to)..Highest(to))
      BY <2>1, <2>2, OutcomesGrow
  <2>4. Numbers(Lowest(to)..Highest(to), {0}) \subseteq Values(to)
      BY <1>3 DEF Integers
  <2> QED BY <1>8, <2>3, <2>4, WholeValues DEF coerce_to_unsigned
<1> QED BY <1>4, <1>5, <1>6, <1>7, <1>8

(* A part of a dateTime is a value of the type of the part.                *)
LEMMA TruncationResults ==
  ASSUME NEW type \in Datatypes, NEW value \in Values(type), NEW coercions
  PROVE  /\ \A r \in coerce_to_time(type, value, coercions) : IsOf("time", r)
         /\ \A r \in coerce_to_date(type, value, coercions) : IsOf("date", r)
<1>1. CASE type # "dateTime"
    BY <1>1 DEF coerce_to_time, coerce_to_date, Truncation, Failed, IsOf
<1>2. CASE EXESS_TRUNCATE \notin coercions
    BY <1>2 DEF coerce_to_time, coerce_to_date, Truncation, Failed, IsOf
<1>3. CASE type = "dateTime" /\ EXESS_TRUNCATE \in coercions
  <2>1. value \in Moments(Nat, Nat, Int)
      BY <1>3 DEF Values, Integers, Int64s, UInt64s, NarrowSigned, NarrowUnsigned, Floatings, Numeric, Blobs
  <2>2. Moment(0, value.time, value.zone) \in Values("time")
      BY <2>1 DEF Values, Moments, Moment, AllOf, Integers, Int64s, UInt64s, NarrowSigned, NarrowUnsigned, Floatings, Numeric, Blobs
  <2>3. Moment(value.date, 0, value.zone) \in Values("date")
      BY <2>1 DEF Values, Moments, Moment, AllOf, Integers, Int64s, UInt64s, NarrowSigned, NarrowUnsigned, Floatings, Numeric, Blobs
  <2> QED BY <1>3, <2>2, <2>3 DEF coerce_to_time, coerce_to_date, Truncation, Written, IsOf
<1> QED BY <1>1, <1>2, <1>3

(* Any coercion that succeeds gives a value of the type asked for.         *)
LEMMA CoercedValues ==
  ASSUME NEW type \in Datatypes, NEW value \in Values(type), NEW coercions,
         NEW to \in Datatypes, NEW inSize, NEW outSize,
         NEW r \in Coerced(coercions, type, inSize, value, to, outSize)
  PROVE  IsOf(to, r)
<1>1. CASE to = type \/ {to, type} = Blobs
  <2>1. value \in Values(to)
      BY <1>1 DEF Values, Integers, Int64s, UInt64s, NarrowSigned, NarrowUnsigned, Floatings, Numeric, Blobs
  <2>2. r.status = "SUCCESS" => r.value = value
      BY <1>1 DEF Coerced, Failed
  <2> QED BY <2>1, <2>2 DEF IsOf
<1>2. CASE r \in Converted(coercions, type, value, to)
  <2>1. CASE to = "boolean"
      BY <1>2, <2>1, IntegerResults DEF Converted, Integers, Int64s, UInt64s, NarrowSigned, NarrowUnsigned, Floatings, Numeric, Blobs
  <2>2. CASE to \in {"decimal", "double"}
      BY <1>2, <2>2, FloatingResults DEF Converted, Integers, Int64s, UInt64s, NarrowSigned, NarrowUnsigned, Floatings, Numeric, Blobs
  <2>3. CASE to = "float"
      BY <1>2, <2>3, FloatingResults DEF Converted, Integers, Int64s, UInt64s, NarrowSigned, NarrowUnsigned, Floatings, Numeric, Blobs
  <2>4. CASE to \in Int64s
      BY <1>2, <2>4, IntegerResults DEF Converted, Integers, Int64s, UInt64s, NarrowSigned, NarrowUnsigned, Floatings, Numeric, Blobs
  <2>5. CASE to \in UInt64s
      BY <1>2, <2>5, IntegerResults DEF Converted, Integers, Int64s, UInt64s, NarrowSigned, NarrowUnsigned, Floatings, Numeric, Blobs
  <2>6. CASE to \in NarrowSigned
      BY <1>2, <2>6, IntegerResults DEF Converted, Integers, Int64s, UInt64s, NarrowSigned, NarrowUnsigned, Floatings, Numeric, Blobs
  <2>7. CASE to \in NarrowUnsigned
      BY <1>2, <2>7, IntegerResults DEF Converted, Integers, Int64s, UInt64s, NarrowSigned, NarrowUnsigned, Floatings, Numeric, Blobs
  <2>8. CASE to \in {"time", "date"}
      BY <1>2, <2>8, TruncationResults DEF Converted, Integers, Int64s, UInt64s, NarrowSigned, NarrowUnsigned, Floatings, Numeric, Blobs
  <2>9. CASE to \notin {"boolean", "decimal", "double", "float", "time", "date"} \cup Integers
    <3>1. r = Failed("UNSUPPORTED")
        BY <1>2, <2>9 DEF Converted, Integers, Int64s, UInt64s, NarrowSigned, NarrowUnsigned, Floatings, Numeric, Blobs
    <3> QED BY <3>1 DEF Failed, IsOf
  <2> QED BY <2>1, <2>2, <2>3, <2>4, <2>5, <2>6, <2>7, <2>8, <2>9 DEF Integers
<1>3. CASE ~(to = type \/ {to, type} = Blobs) /\ r \notin Converted(coercions, type, value, to)
    BY <1>3 DEF Coerced, Failed, IsOf
<1> QED BY <1>1, <1>2, <1>3

(* What the client holds is always a value of its type, in its range: no   *)
(* sequence of coercions leaves a value that its type does not have.       *)
THEOREM TypeCorrect == Spec => []TypeOK
<1>1. Init => TypeOK
    BY HeldAssumption DEF Init, TypeOK
<1>2. TypeOK /\ [Next]_held => TypeOK'
  <2> SUFFICES ASSUME TypeOK, [Next]_held PROVE TypeOK'
      OBVIOUS
  <2>1. CASE Next
    <3>1. PICK coercions \in Masks, inSize \in InSizes, to \in Datatypes :
            \E outSize \in OutSizes(to) : exess_coerce_value(coercions, inSize, to, outSize)
        BY <2>1 DEF Next
    <3>2. PICK outSize \in OutSizes(to) : exess_coerce_value(coercions, inSize, to, outSize)
        BY <3>1
    <3>3. PICK r \in Coerced(coercions, held.type, inSize, held.value, to, outSize) :
            held' = IF r.status = "SUCCESS" THEN Typed(to, r.value) ELSE held
        BY <3>2 DEF exess_coerce_value
    <3>4. IsOf(to, r)
        BY <3>3, CoercedValues DEF TypeOK, IsTyped
    <3> QED BY <3>3, <3>4 DEF TypeOK, IsTyped, Typed, IsOf
  <2>2. CASE UNCHANGED held
      BY <2>2 DEF TypeOK
  <2> QED BY <2>1, <2>2
<1> QED BY <1>1, <1>2, PTL DEF Spec

-----------------------------------------------------------------------------
(* Sizes.                                                                  *)

(* A result that writes the whole of a type that has a size, or nothing.   *)
WritesAll(to, r) ==
  /\ r.status = "SUCCESS" => r.count = ValueSize(to) /\ to \notin Blobs
  /\ r.status # "SUCCESS" => r.count = 0

(* The sizes of the types are natural numbers; a blob of no octets has one. *)
LEMMA SizesNat == \A type : ValueSize(type) \in Nat /\ (type \in Blobs => ValueSize(type) = 0)
BY DEF ValueSize, Int64s, UInt64s, Blobs

(* Writing numbers writes all of them or nothing.                          *)
LEMMA WholeSizes ==
  ASSUME NEW to, to \notin Blobs, NEW outcomes, NEW r \in Whole(to, outcomes)
  PROVE  WritesAll(to, r)
<1>1. PICK o \in outcomes :
        r = IF o.status = "SUCCESS" THEN Written(to, Number(o.number, 0)) ELSE Failed(o.status)
    BY DEF Whole
<1> QED BY <1>1 DEF Written, Failed, WritesAll

(* Each function for a type of the result writes all of it or nothing.     *)
LEMMA ConvertedSizes ==
  ASSUME NEW type, NEW value, NEW coercions, NEW to,
         NEW r \in Converted(coercions, type, value, to)
  PROVE  WritesAll(to, r)
<1>1. CASE to \in {"boolean"} \cup Integers
  <2>1. to \notin Blobs
      BY <1>1 DEF Integers, Int64s, UInt64s, NarrowSigned, NarrowUnsigned, Blobs
  <2>2. \E outcomes : r \in Whole(to, outcomes)
    <3>1. CASE to = "boolean"
      <4>1. r \in coerce_to_boolean(type, value, coercions)
          BY <3>1 DEF Converted, Int64s, UInt64s, NarrowSigned, NarrowUnsigned
      <4> DEFINE outcomes ==
            {Truncated(o, coercions) : o \in coerce_to_long(type, value, coercions)}
      <4>2. r \in Whole(to, outcomes)
          BY <3>1, <4>1 DEF coerce_to_boolean
      <4> HIDE DEF outcomes
      <4> QED BY <4>2
    <3>2. CASE to \in Int64s
        BY <3>2 DEF Converted, coerce_to_integer, Int64s, UInt64s, NarrowSigned, NarrowUnsigned
    <3>3. CASE to \in NarrowSigned
        BY <3>3 DEF Converted, coerce_to_signed, Int64s, UInt64s, NarrowSigned, NarrowUnsigned
    <3>4. CASE to \in UInt64s
        BY <3>4
           DEF Converted, coerce_to_unsigned_integer, Int64s, UInt64s, NarrowSigned, NarrowUnsigned
    <3>5. CASE to \in NarrowUnsigned
        BY <3>5 DEF Converted, coerce_to_unsigned, Int64s, UInt64s, NarrowSigned, NarrowUnsigned
    <3> QED BY <1>1, <3>1, <3>2, <3>3, <3>4, <3>5 DEF Integers
  <2> QED BY <2>1, <2>2, WholeSizes
<1>2. CASE to \in Floatings
  <2>1. to \notin Blobs
      BY <1>2 DEF Floatings, Blobs
  <2>2. \/ \E outcomes : r \in Whole(to, outcomes)
        \/ \E v : r = Written(to, v)
        \/ r = Failed("WOULD_REDUCE_PRECISION")
    <3>1. CASE to = "float"
        BY <3>1 DEF Converted, coerce_to_float, Int64s, UInt64s, NarrowSigned, NarrowUnsigned
    <3>2. CASE to \in {"decimal", "double"}
        BY <3>2 DEF Converted, coerce_to_double, Int64s, UInt64s, NarrowSigned, NarrowUnsigned
    <3> QED BY <1>2, <3>1, <3>2 DEF Floatings
  <2> QED BY <2>1, <2>2, WholeSizes DEF Written, Failed, WritesAll
<1>3. CASE to \in {"time", "date"}
    BY <1>3
       DEF Converted, coerce_to_time, coerce_to_date, Truncation, Written, Failed, WritesAll,
           Int64s, UInt64s, NarrowSigned, NarrowUnsigned, Blobs
<1>4. CASE to \notin {"boolean", "time", "date"} \cup Integers \cup Floatings
  <2>1. r = Failed("UNSUPPORTED")
      BY <1>4 DEF Converted, Integers, Int64s, UInt64s, NarrowSigned, NarrowUnsigned, Floatings
  <2> QED BY <2>1 DEF Failed, WritesAll
<1> QED BY <1>1, <1>2, <1>3, <1>4

(* A blob has a number of octets.                                          *)
LEMMA BlobSizes ==
  ASSUME NEW type \in Blobs, NEW value \in Values(type)
  PROVE  value.whole \in Nat
<1>1. value \in AllOf("blob", Nat, {0}, {0}, {0}, {0})
    BY DEF Values, Integers, Int64s, UInt64s, NarrowSigned, NarrowUnsigned, Blobs
<1> QED BY <1>1 DEF AllOf

(* No coercion of what a client may hold, with any permissions and sizes,  *)
(* writes more than there is space for, and none succeeds with a part of   *)
(* the value or fails with one.                                            *)
THEOREM SizesAreRespected == Spec => []SizesRespected
<1>1. TypeOK => SizesRespected
  <2> SUFFICES ASSUME TypeOK, NEW coercions \in Masks, NEW inSize \in InSizes,
                      NEW to \in Datatypes, NEW outSize \in OutSizes(to),
                      NEW r \in Coerced(coercions, held.type, inSize, held.value, to, outSize)
               PROVE  /\ r.count <= outSize
                      /\ IF r.status = "SUCCESS"
                         THEN SizeOf(to, r.value) <= r.count ELSE r.count = 0
      BY DEF SizesRespected
  <2>1. held.type \in Datatypes /\ held.value \in Values(held.type)
      BY DEF TypeOK, IsTyped
  <2>2. inSize \in Nat /\ outSize \in Nat
      BY <2>1, BlobSizes DEF InSizes, OutSizes, Around
  <2>3. ValueSize(to) \in Nat /\ ValueSize(held.type) \in Nat
      BY SizesNat
  <2>4. CASE r.status # "SUCCESS" /\ r.count = 0
      BY <2>2, <2>4
  <2>5. CASE \/ inSize < ValueSize(held.type)
             \/ (to = held.type \/ {to, held.type} = Blobs) /\ outSize < inSize
             \/ ~(to = held.type \/ {to, held.type} = Blobs) /\ outSize < ValueSize(to)
      BY <2>4, <2>5 DEF Coerced, Failed
  <2>6. CASE /\ ~(inSize < ValueSize(held.type))
             /\ to = held.type \/ {to, held.type} = Blobs
             /\ ~(outSize < inSize)
    <3>1. r = [status |-> "SUCCESS", count |-> inSize, value |-> held.value]
        BY <2>6 DEF Coerced
    <3>2. CASE to \in Blobs
      <4>1. held.type \in Blobs
          BY <2>6, <3>2 DEF Blobs
      <4>2. inSize = held.value.whole
          BY <4>1 DEF InSizes
      <4> QED BY <2>2, <2>6, <3>1, <3>2, <4>2 DEF SizeOf
    <3>3. CASE to \notin Blobs
      <4>1. to = held.type
          BY <2>6, <3>3 DEF Blobs
      <4> QED BY <2>2, <2>3, <2>6, <3>1, <3>3, <4>1 DEF SizeOf
    <3> QED BY <3>2, <3>3
  <2>7. CASE /\ ~(inSize < ValueSize(held.type))
             /\ ~(to = held.type \/ {to, held.type} = Blobs)
             /\ ~(outSize < ValueSize(to))
    <3>1. r \in Converted(coercions, held.type, held.value, to)
        BY <2>7 DEF Coerced
    <3>2. WritesAll(to, r)
        BY <3>1, ConvertedSizes
    <3> QED BY <2>2, <2>3, <2>7, <3>2 DEF WritesAll, SizeOf
  <2> QED BY <2>5, <2>6, <2>7
<1> QED BY <1>1, TypeCorrect, PTL

-----------------------------------------------------------------------------
(* Permissions.                                                            *)

(* The successes among outcomes or results are found among others.         *)
SuccessesIn(some, others) == \A o \in some : o.status = "SUCCESS" => o \in others

(* A floating point number that is taken is taken with more permissions.   *)
LEMMA MoreFloating ==
  ASSUME NEW v, NEW limit, NEW less, NEW more, less \subseteq more
  PROVE  SuccessesIn(FloatingToLong(v, limit, less), FloatingToLong(v, limit, more))
<1> SUFFICES ASSUME NEW o \in FloatingToLong(v, limit, less), o.status = "SUCCESS"
             PROVE  o \in FloatingToLong(v, limit, more)
    BY DEF SuccessesIn
<1>1. ~(EXESS_ROUND \notin less /\ v.kind = "number" /\ v.whole >= 0 /\ v.part > 0)
    BY DEF FloatingToLong, Refused
<1>2. ~(EXESS_ROUND \notin more /\ v.kind = "number" /\ v.whole >= 0 /\ v.part > 0)
    BY <1>1
<1> QED BY <1>1, <1>2 DEF FloatingToLong

(* The successes stay within a range together.                             *)
LEMMA MoreInRange ==
  ASSUME NEW some, NEW others, SuccessesIn(some, others), NEW lowest, NEW highest
  PROVE  SuccessesIn(InRange(some, lowest, highest), InRange(others, lowest, highest))
<1> SUFFICES ASSUME NEW r \in InRange(some, lowest, highest), r.status = "SUCCESS"
             PROVE  r \in InRange(others, lowest, highest)
    BY DEF SuccessesIn
<1>1. PICK o \in some : r = IF o.status = "SUCCESS" /\ o.number \notin lowest..highest
                            THEN Refused("OUT_OF_RANGE") ELSE o
    BY DEF InRange
<1>2. r = o /\ ~(o.status = "SUCCESS" /\ o.number \notin lowest..highest)
    BY <1>1 DEF Refused
<1>3. o \in others
    BY <1>2 DEF SuccessesIn
<1> QED BY <1>2, <1>3 DEF InRange

(* Numbers that are taken are written.                                     *)
LEMMA MoreWhole ==
  ASSUME NEW some, NEW others, SuccessesIn(some, others), NEW to
  PROVE  SuccessesIn(Whole(to, some), Whole(to, others))
<1> SUFFICES ASSUME NEW r \in Whole(to, some), r.status = "SUCCESS"
             PROVE  r \in Whole(to, others)
    BY DEF SuccessesIn
<1>1. PICK o \in some :
        r = IF o.status = "SUCCESS" THEN Written(to, Number(o.number, 0)) ELSE Failed(o.status)
    BY DEF Whole
<1>2. o.status = "SUCCESS"
    BY <1>1 DEF Failed
<1>3. o \in others
    BY <1>2 DEF SuccessesIn
<1> QED BY <1>1, <1>2, <1>3 DEF Whole

(* The conversions to the widest types take no less with more permissions. *)
LEMMA MoreLong ==
  ASSUME NEW type, NEW value, NEW less, NEW more, less \subseteq more
  PROVE  /\ SuccessesIn(coerce_to_long(type, value, less), coerce_to_long(type, value, more))
         /\ SuccessesIn(coerce_to_ulong(type, value, less), coerce_to_ulong(type, value, more))
<1>1. SuccessesIn(coerce_to_long(type, value, less), coerce_to_long(type, value, more))
  <2>1. CASE type \in {"decimal", "double"}
    <3>1. \A c : coerce_to_long(type, value, c) = FloatingToLong(value, MaxDoubleInt, c)
        BY <2>1 DEF coerce_to_long, Int64s, UInt64s, NarrowSigned, NarrowUnsigned
    <3> QED BY <3>1, MoreFloating
  <2>2. CASE type = "float"
    <3>1. \A c : coerce_to_long(type, value, c) = FloatingToLong(value, MaxFloatInt, c)
        BY <2>2 DEF coerce_to_long, Int64s, UInt64s, NarrowSigned, NarrowUnsigned
    <3> QED BY <3>1, MoreFloating
  <2>3. CASE type \notin Floatings
    <3>1. coerce_to_long(type, value, less) = coerce_to_long(type, value, more)
        BY <2>3 DEF coerce_to_long, Floatings
    <3> QED BY <3>1 DEF SuccessesIn
  <2> QED BY <2>1, <2>2, <2>3 DEF Floatings
<1>2. CASE type \in UInt64s
    BY <1>1, <1>2 DEF coerce_to_ulong, SuccessesIn
<1>3. CASE type \notin UInt64s
    BY <1>1, <1>3, MoreInRange DEF coerce_to_ulong
<1> QED BY <1>1, <1>2, <1>3

(* What becomes a boolean still does.                                      *)
LEMMA MoreTruncated ==
  ASSUME NEW type, NEW value, NEW less, NEW more, less \subseteq more
  PROVE  SuccessesIn(coerce_to_boolean(type, value, less), coerce_to_boolean(type, value, more))
<1> DEFINE Outs(c) == {Truncated(o, c) : o \in coerce_to_long(type, value, c)}
<1>1. SuccessesIn(Outs(less), Outs(more))
  <2> SUFFICES ASSUME NEW o \in coerce_to_long(type, value, less),
                      Truncated(o, less).status = "SUCCESS"
               PROVE  Truncated(o, less) \in Outs(more)
      BY DEF SuccessesIn
  <2>1. o.status = "SUCCESS" /\ Truncated(o, more) = Truncated(o, less)
      BY DEF Truncated, Refused
  <2>2. o \in coerce_to_long(type, value, more)
      BY <2>1, MoreLong DEF SuccessesIn
  <2> QED BY <2>1, <2>2
<1> HIDE DEF Outs
<1>2. SuccessesIn(Whole("boolean", Outs(less)), Whole("boolean", Outs(more)))
    BY <1>1, MoreWhole
<1> QED BY <1>2 DEF coerce_to_boolean, Outs

(* What succeeds with some permissions does so with more, whatever types   *)
(* the value passes through on the way.                                    *)
LEMMA MoreConverted ==
  ASSUME NEW type, NEW value, NEW less, NEW more, less \subseteq more, NEW to
  PROVE  SuccessesIn(Converted(less, type, value, to), Converted(more, type, value, to))
<1>1. CASE to = "boolean"
  <2>1. \A c : Converted(c, type, value, to) = coerce_to_boolean(type, value, c)
      BY <1>1 DEF Converted, Int64s, UInt64s, NarrowSigned, NarrowUnsigned
  <2> QED BY <2>1, MoreTruncated
<1>2. CASE to \in Int64s
  <2>1. \A c : Converted(c, type, value, to)
                 = coerce_to_integer(to, type, value, c, Highest(to))
      BY <1>2 DEF Converted, Int64s, UInt64s, NarrowSigned, NarrowUnsigned
  <2> QED BY <2>1, MoreLong, MoreInRange, MoreWhole DEF coerce_to_integer
<1>3. CASE to \in UInt64s
  <2>1. \A c : Converted(c, type, value, to)
                 = coerce_to_unsigned_integer(to, type, value, c, Lowest(to))
      BY <1>3 DEF Converted, Int64s, UInt64s, NarrowSigned, NarrowUnsigned
  <2> QED BY <2>1, MoreLong, MoreInRange, MoreWhole DEF coerce_to_unsigned_integer
<1>4. CASE to = "float"
  <2>1. \A c : Converted(c, type, value, to) = coerce_to_float(type, value, c)
      BY <1>4 DEF Converted, Int64s, UInt64s, NarrowSigned, NarrowUnsigned
  <2>2. SuccessesIn(coerce_to_float(type, value, less), coerce_to_float(type, value, more))
    <3>1. CASE type \notin {"decimal", "double"}
        BY <3>1 DEF coerce_to_float, SuccessesIn
    <3>2. CASE type \in {"decimal", "double"} /\ EXESS_REDUCE_PRECISION \in less
        BY <3>2 DEF coerce_to_float, SuccessesIn
    <3>3. CASE type \in {"decimal", "double"} /\ EXESS_REDUCE_PRECISION \notin less
        BY <3>3 DEF coerce_to_float, SuccessesIn, Failed
    <3> QED BY <3>1, <3>2, <3>3
  <2> QED BY <2>1, <2>2
<1>5. CASE to \in {"time", "date"}
  <2>1. CASE EXESS_TRUNCATE \in less
      BY <1>5, <2>1
         DEF Converted, coerce_to_time, coerce_to_date, Truncation, SuccessesIn,
             Int64s, UInt64s, NarrowSigned, NarrowUnsigned
  <2>2. CASE EXESS_TRUNCATE \notin less
      BY <1>5, <2>2
         DEF Converted, coerce_to_time, coerce_to_date, Truncation, Failed, SuccessesIn,
             Int64s, UInt64s, NarrowSigned, NarrowUnsigned
  <2> QED BY <2>1, <2>2
<1>6. CASE to \notin {"boolean", "float", "time", "date"} \cup Int64s \cup UInt64s
  <2>1. Converted(less, type, value, to) = Converted(more, type, value, to)
      BY <1>6 DEF Converted
  <2> QED BY <2>1 DEF SuccessesIn
<1> QED BY <1>1, <1>2, <1>3, <1>4, <1>5, <1>6

(* For every value a client may hold, permitting more never takes away a   *)
(* coercion that succeeds, nor changes what it gives.                      *)
THEOREM PermissionsAdd == Spec => []PermissionsOnlyAdd
<1>1. PermissionsOnlyAdd
  <2> SUFFICES ASSUME NEW to \in Datatypes, NEW less \in Masks, NEW more \in Masks,
                      less \subseteq more, NEW k \in Kept(held, less, to)
               PROVE  k \in Kept(held, more, to)
      BY DEF PermissionsOnlyAdd
  <2>1. PICK r \in Coercions(held, less, to) : r.status = "SUCCESS" /\ k = Typed(to, r.value)
      BY DEF Kept
  <2>2. r \in Coercions(held, more, to)
      BY <2>1, MoreConverted DEF Coercions, Coerced, Failed, SuccessesIn
  <2> QED BY <2>1, <2>2 DEF Kept
<1> QED BY <1>1, PTL

-----------------------------------------------------------------------------
(* Reversibility.                                                          *)

(* With any permissions, a value is taken for the integer n by every type  *)
(* that has n.                                                             *)
Stands(type, value, n) ==
  \A c : /\ n \in (-LongMax - 1)..LongMax => coerce_to_long(type, value, c) = {Taken(n)}
         /\ n \in 0..(2 * LongMax + 1) => coerce_to_ulong(type, value, c) = {Taken(n)}

(* The largest integer that coercions take from a floating point type.     *)
LimitOf(type) == IF type = "float" THEN MaxFloatInt ELSE MaxDoubleInt

(* A number of a range passes the test of the range.                       *)
LEMMA TakenInRange ==
  ASSUME NEW lowest, NEW highest, NEW n \in lowest..highest
  PROVE  InRange({Taken(n)}, lowest, highest) = {Taken(n)}
BY DEF InRange, Taken

(* A number that is taken is written.                                      *)
LEMMA TakenWhole ==
  ASSUME NEW to, NEW n
  PROVE  Whole(to, {Taken(n)}) = {Written(to, Number(n, 0))}
BY DEF Whole, Taken

(* A value of an integer type stands for its number.                       *)
LEMMA IntegerStands ==
  ASSUME NEW type \in Integers \cup {"boolean"}, NEW value \in Values(type)
  PROVE  Stands(type, value, value.whole)
<1> DEFINE n == value.whole
<1>1. LongMax \in Nat /\ n \in Lowest(type)..Highest(type)
    BY LimitsOrdered, IntegerValues
<1>2. Lowest(type) \in Int /\ Highest(type) \in Int
    BY Ranges
<1>3. CASE type \in UInt64s
  <2>1. ASSUME NEW c PROVE coerce_to_ulong(type, value, c) = {Taken(n)}
      BY <1>3 DEF coerce_to_ulong
  <2>2. ASSUME NEW c, n \in (-LongMax - 1)..LongMax
        PROVE  coerce_to_long(type, value, c) = {Taken(n)}
    <3>1. coerce_to_long(type, value, c) = InRange({Taken(n)}, 0, LongMax)
        BY <1>3 DEF coerce_to_long, Int64s, UInt64s, NarrowSigned, NarrowUnsigned
    <3>2. n \in 0..LongMax
        BY <1>1, <1>2, <1>3, <2>2, Ranges
    <3> QED BY <3>1, <3>2, TakenInRange
  <2> QED BY <2>1, <2>2 DEF Stands
<1>4. CASE type \notin UInt64s
  <2>1. type \in {"boolean"} \cup Int64s \cup NarrowSigned \cup NarrowUnsigned
      BY <1>4 DEF Integers
  <2>2. n \in (-LongMax - 1)..LongMax
      BY <1>1, <1>2, <2>1, Ranges
  <2>3. \A c : coerce_to_long(type, value, c) = {Taken(n)}
      BY <2>1 DEF coerce_to_long, Int64s, UInt64s, NarrowSigned, NarrowUnsigned
  <2>4. ASSUME NEW c, n \in 0..(2 * LongMax + 1)
        PROVE  coerce_to_ulong(type, value, c) = {Taken(n)}
    <3>1. n \in 0..LongMax
        BY <1>1, <2>2, <2>4
    <3> QED BY <1>4, <2>3, <3>1, TakenInRange DEF coerce_to_ulong
  <2> QED BY <2>3, <2>4 DEF Stands
<1> QED BY <1>3, <1>4

(* An integer up to the limit of a floating point type stands for itself.  *)
LEMMA FloatingStands ==
  ASSUME NEW type \in Floatings, NEW n \in (-LimitOf(type))..LimitOf(type)
  PROVE  Stands(type, Number(n, 0), n)
<1> DEFINE v == Number(n, 0)
<1>1. LongMax \in Nat /\ LimitOf(type) \in Nat /\ LimitOf(type) <= LongMax
    BY LimitsOrdered DEF LimitOf
<1>2. v.kind = "number" /\ v.whole = n /\ v.part = 0
    BY DEF Number
<1>3. \A c : FloatingToLong(v, LimitOf(type), c) = {Taken(n)}
  <2>1. Rounded(v) = n
      BY <1>2 DEF Rounded
  <2> QED BY <1>1, <1>2, <2>1 DEF FloatingToLong
<1>4. \A c : coerce_to_long(type, v, c) = FloatingToLong(v, LimitOf(type), c)
    BY DEF coerce_to_long, LimitOf, Floatings, Int64s, UInt64s, NarrowSigned, NarrowUnsigned
<1>5. ASSUME NEW c, n \in 0..(2 * LongMax + 1)
      PROVE  coerce_to_ulong(type, v, c) = {Taken(n)}
  <2>1. n \in 0..LongMax
      BY <1>1, <1>5
  <2>2. type \notin UInt64s
      BY DEF Floatings, UInt64s
  <2> QED BY <1>3, <1>4, <2>1, <2>2, TakenInRange DEF coerce_to_ulong
<1> QED BY <1>3, <1>4, <1>5 DEF Stands

(* A value that stands for n becomes n in every type that has n.           *)
LEMMA StandsConverted ==
  ASSUME NEW type, NEW value, NEW n, Stands(type, value, n), NEW c, NEW to,
         \/ to \in Integers \cup {"boolean"} /\ n \in Lowest(to)..Highest(to)
         \/ /\ to \in Floatings /\ type \notin Floatings
            /\ n \in (-LimitOf(to))..LimitOf(to)
  PROVE  Converted(c, type, value, to) = {Written(to, Number(n, 0))}
<1> DEFINE S == (-LongMax - 1)..LongMax
<1>0. LongMax \in Nat
    BY LimitsOrdered
<1>1. n \in S => coerce_to_long(type, value, c) = {Taken(n)}
                 /\ coerce_to_long(type, value, EXESS_LOSSLESS) = {Taken(n)}
    BY DEF Stands
<1>2. n \in 0..(2 * LongMax + 1) => coerce_to_ulong(type, value, c) = {Taken(n)}
                 /\ coerce_to_ulong(type, value, EXESS_LOSSLESS) = {Taken(n)}
    BY DEF Stands
<1>3. CASE to = "boolean"
  <2>1. n \in {0, 1}
      BY <1>3 DEF Lowest, Highest, Floatings, Int64s
  <2>2. n \in S
      BY <2>1, LimitsOrdered
  <2>3. coerce_to_long(type, value, c) = {Taken(n)}
      BY <1>1, <2>2
  <2>4. Truncated(Taken(n), c) = Taken(n)
      BY <2>1 DEF Truncated, Taken
  <2>5. coerce_to_boolean(type, value, c) = {Written(to, Number(n, 0))}
      BY <1>3, <2>3, <2>4, TakenWhole DEF coerce_to_boolean
  <2> QED BY <1>3, <2>5 DEF Converted, Int64s, UInt64s, NarrowSigned, NarrowUnsigned
<1>4. CASE to \in Int64s
  <2>1. /\ Lowest(to) = -LongMax - 1 /\ Highest(to) \in Int /\ Highest(to) <= LongMax
        /\ n \in Lowest(to)..Highest(to)
      BY <1>4, Ranges DEF Integers, Floatings, Int64s
  <2>2. n \in S
      BY <1>0, <2>1
  <2>3. coerce_to_integer(to, type, value, c, Highest(to)) = {Written(to, Number(n, 0))}
      BY <1>1, <2>1, <2>2, TakenInRange, TakenWhole DEF coerce_to_integer
  <2> QED BY <1>4, <2>3 DEF Converted, Int64s, UInt64s, NarrowSigned, NarrowUnsigned
<1>5. CASE to \in UInt64s
  <2>1. /\ Lowest(to) \in {0, 1} /\ Highest(to) = 2 * LongMax + 1
        /\ n \in Lowest(to)..Highest(to)
      BY <1>5, Ranges DEF Integers, Floatings, UInt64s
  <2>2. n \in 0..(2 * LongMax + 1)
      BY <1>0, <2>1
  <2>3. coerce_to_unsigned_integer(to, type, value, c, Lowest(to)) = {Written(to, Number(n, 0))}
      BY <1>2, <2>1, <2>2, TakenInRange, TakenWhole DEF coerce_to_unsigned_integer
  <2> QED BY <1>5, <2>3 DEF Converted, Int64s, UInt64s, NarrowSigned, NarrowUnsigned
<1>6. CASE to \in NarrowSigned
  <2>1. /\ -LongMax - 1 <= Lowest(to) /\ Highest(to) <= LongMax
        /\ Lowest(to) \in Int /\ Highest(to) \in Int
        /\ n \in Lowest(to)..Highest(to)
      BY <1>6, Ranges DEF Integers, Floatings, NarrowSigned
  <2>2. n \in S
      BY <1>0, <2>1
  <2>3. coerce_to_signed(to, type, value) = {Written(to, Number(n, 0))}
      BY <1>1, <2>1, <2>2, TakenInRange, TakenWhole DEF coerce_to_signed, coerce_signed
  <2> QED BY <1>6, <2>3 DEF Converted, Int64s, UInt64s, NarrowSigned, NarrowUnsigned
<1>7. CASE to \in NarrowUnsigned
  <2>1. /\ Lowest(to) = 0 /\ Highest(to) <= LongMax /\ Highest(to) \in Int
        /\ n \in Lowest(to)..Highest(to)
      BY <1>7, Ranges DEF Integers, Floatings, NarrowUnsigned
  <2>2. n \in 0..(2 * LongMax + 1)
      BY <1>0, <2>1
  <2>3. coerce_to_unsigned(to, type, value) = {Written(to, Number(n, 0))}
      BY <1>2, <2>1, <2>2, TakenInRange, TakenWhole DEF coerce_to_unsigned, coerce_unsigned
  <2> QED BY <1>7, <2>3 DEF Converted, Int64s, UInt64s, NarrowSigned, NarrowUnsigned
<1>8. CASE to \in Floatings
  <2>1. n \in (-LimitOf(to))..LimitOf(to) /\ type \notin Floatings
      BY <1>8 DEF Floatings, Integers, Int64s, UInt64s, NarrowSigned, NarrowUnsigned
  <2>2. n \in S
      BY <2>1, LimitsOrdered DEF LimitOf
  <2>3. Whole(to, coerce_signed(type, value, -LimitOf(to), LimitOf(to)))
          = {Written(to, Number(n, 0))}
      BY <1>1, <2>1, <2>2, TakenInRange, TakenWhole DEF coerce_signed
  <2> QED BY <1>8, <2>1, <2>3
          DEF Converted, coerce_to_float, coerce_to_double, LimitOf, Floatings,
              Int64s, UInt64s, NarrowSigned, NarrowUnsigned
<1> QED BY <1>3, <1>4, <1>5, <1>6, <1>7, <1>8 DEF Integers

(* What is taken with no permission, unless a loss is not seen, is exactly *)
(* the number that the value is, within the limit of its type.             *)
LEMMA TakenExact ==
  ASSUME NEW type \in Datatypes, NEW value \in Values(type), NEW n,
         ~Unseen(value) \/ type \notin Floatings,
         \/ Taken(n) \in coerce_to_long(type, value, EXESS_LOSSLESS)
         \/ Taken(n) \in coerce_to_ulong(type, value, EXESS_LOSSLESS)
  PROVE  /\ type \in Numeric /\ value = Number(n, 0)
         /\ type \in Floatings => n \in (-LimitOf(type))..LimitOf(type)
<1>1. CASE type \in Integers \cup {"boolean"}
  <2>1. value \in Numbers(Lowest(type)..Highest(type), {0})
      BY <1>1, NumericValues
  <2>2. value = Number(value.whole, 0)
      BY <2>1 DEF Numbers, AllOf, Number
  <2>3. \A c : coerce_to_long(type, value, c) \subseteq {Taken(value.whole), Refused("OUT_OF_RANGE")}
      BY <1>1 DEF coerce_to_long, InRange, Integers, Int64s, UInt64s, NarrowSigned, NarrowUnsigned
  <2>4. \A c : coerce_to_ulong(type, value, c) \subseteq {Taken(value.whole), Refused("OUT_OF_RANGE")}
      BY <2>3 DEF coerce_to_ulong, InRange
  <2>5. n = value.whole
      BY <2>3, <2>4 DEF Taken, Refused
  <2> QED BY <1>1, <2>2, <2>5 DEF Numeric, Floatings, Integers, Int64s, UInt64s, NarrowSigned, NarrowUnsigned
<1>2. CASE type \in Floatings
  <2>1. coerce_to_long(type, value, EXESS_LOSSLESS)
          = FloatingToLong(value, LimitOf(type), EXESS_LOSSLESS)
      BY <1>2 DEF coerce_to_long, LimitOf, Floatings, Int64s, UInt64s, NarrowSigned, NarrowUnsigned
  <2>2. Taken(n) \in FloatingToLong(value, LimitOf(type), EXESS_LOSSLESS)
    <3>1. type \notin UInt64s
        BY <1>2 DEF Floatings, UInt64s
    <3> QED BY <2>1, <3>1 DEF coerce_to_ulong, InRange, Taken, Refused
  <2>3. CASE value \in Specials
    <3>1. value.kind \in {"INF", "-INF"}
        BY <1>2, <2>3 DEF Unseen, Specials, NaN, Infinity, MinusInfinity, Special, Number
    <3> QED BY <2>2, <3>1 DEF FloatingToLong, Taken, Refused
  <2>4. CASE value \in Doubles
    <3>1. value \in Numbers(Int, 0..3)
        BY <2>4, FloatingAssumption
    <3>2. value.kind = "number" /\ value.whole \in Int /\ value.part \in 0..3
        BY <3>1 DEF Numbers, AllOf
    <3>3. value.part = 0
        BY <1>2, <2>2, <3>2
           DEF Unseen, FloatingToLong, Taken, Refused, EXESS_LOSSLESS
    <3>4. n = Rounded(value) /\ ~(value.whole < -LimitOf(type)) /\ ~(value.whole > LimitOf(type))
        BY <2>2, <3>2 DEF FloatingToLong, Taken, Refused
    <3>5. n = value.whole
        BY <3>3, <3>4 DEF Rounded
    <3>6. value = Number(n, 0)
        BY <3>1, <3>3, <3>5 DEF Numbers, AllOf, Number
    <3>7. LimitOf(type) \in Nat
        BY LimitsOrdered DEF LimitOf
    <3> QED BY <1>2, <3>2, <3>4, <3>5, <3>6, <3>7 DEF Numeric
  <2>5. value \in Doubles \cup Specials
      BY <1>2, NumericValues DEF Floatings
  <2> QED BY <2>3, <2>4, <2>5
<1>3. CASE type \notin Numeric
  <2>1. \A c : coerce_to_long(type, value, c) = {Refused("UNSUPPORTED")}
      BY <1>3 DEF coerce_to_long, Numeric, Floatings, Integers
  <2>2. \A c : coerce_to_ulong(type, value, c) = {Refused("UNSUPPORTED")}
      BY <1>3, <2>1 DEF coerce_to_ulong, InRange, Refused, Numeric, Integers
  <2> QED BY <2>1, <2>2 DEF Taken, Refused
<1> QED BY <1>1, <1>2, <1>3 DEF Numeric

(* A success of Whole writes a number that was taken.                      *)
LEMMA WholeTaken ==
  ASSUME NEW S, NEW outcomes, outcomes \subseteq Outcomes(S), NEW to,
         NEW r \in Whole(to, outcomes), r.status = "SUCCESS"
  PROVE  \E n \in S : Taken(n) \in outcomes /\ r = Written(to, Number(n, 0))
<1>1. PICK o \in outcomes :
        r = IF o.status = "SUCCESS" THEN Written(to, Number(o.number, 0)) ELSE Failed(o.status)
    BY DEF Whole
<1>2. o.status = "SUCCESS"
    BY <1>1 DEF Failed
<1>3. o = Taken(o.number) /\ o.number \in S
    BY <1>2 DEF Outcomes, Taken
<1> QED BY <1>1, <1>2, <1>3

(* A coercion to an integer type with no permission writes a number that   *)
(* coerce_to_long or coerce_to_ulong takes, and so does one of a number    *)
(* that is not floating point to a floating point type, within its limit.  *)
LEMMA LosslessTaken ==
  ASSUME NEW type \in Datatypes, NEW value \in Values(type), NEW to,
         \/ to \in Integers \cup {"boolean"}
         \/ to \in Floatings /\ type \notin Floatings,
         NEW r \in Converted(EXESS_LOSSLESS, type, value, to), r.status = "SUCCESS"
  PROVE  \E n \in Int :
           /\ r = Written(to, Number(n, 0))
           /\ \/ Taken(n) \in coerce_to_long(type, value, EXESS_LOSSLESS)
              \/ Taken(n) \in coerce_to_ulong(type, value, EXESS_LOSSLESS)
           /\ to \in Floatings => n \in (-LimitOf(to))..LimitOf(to)
<1> DEFINE S == (-LongMax - 1)..LongMax
           U == 0..(2 * LongMax + 1)
           longs == coerce_to_long(type, value, EXESS_LOSSLESS)
           ulongs == coerce_to_ulong(type, value, EXESS_LOSSLESS)
<1>1. S \in SUBSET Int /\ U \in SUBSET Int /\ LongMax \in Nat
    BY LimitsOrdered
<1>2. longs \in SUBSET Outcomes(S) /\ ulongs \in SUBSET Outcomes(U)
    BY LongOutcomes, UlongOutcomes
<1>3. \A A, lowest, highest : \A o \in InRange(A, lowest, highest) : o.status = "SUCCESS" => o \in A
    BY DEF InRange, Refused
<1>4. \A n : Taken(n).status = "SUCCESS"
    BY DEF Taken
<1>5. CASE to = "boolean"
  <2> DEFINE outs == {Truncated(o, EXESS_LOSSLESS) : o \in longs}
  <2>1. r \in Whole("boolean", outs)
      BY <1>5 DEF Converted, coerce_to_boolean, Int64s, UInt64s, NarrowSigned, NarrowUnsigned
  <2>2. \A o \in longs : Truncated(o, EXESS_LOSSLESS).status = "SUCCESS"
                         => Truncated(o, EXESS_LOSSLESS) = o
    <3> SUFFICES ASSUME NEW o \in longs, Truncated(o, EXESS_LOSSLESS).status = "SUCCESS"
                 PROVE  Truncated(o, EXESS_LOSSLESS) = o
        OBVIOUS
    <3>1. o.status = "SUCCESS" /\ o.number \in {0, 1}
        BY DEF Truncated, Refused, EXESS_LOSSLESS
    <3>2. o = Taken(o.number)
        BY <1>2, <3>1 DEF Outcomes, Taken
    <3> QED BY <3>1, <3>2 DEF Truncated
  <2>3. PICK o \in outs :
          r = IF o.status = "SUCCESS" THEN Written("boolean", Number(o.number, 0)) ELSE Failed(o.status)
      BY <2>1 DEF Whole
  <2>4. o.status = "SUCCESS"
      BY <2>3 DEF Failed
  <2>5. o \in longs
      BY <2>2, <2>4
  <2>6. o = Taken(o.number) /\ o.number \in S
      BY <1>2, <2>4, <2>5 DEF Outcomes, Taken
  <2> HIDE DEF outs
  <2> QED BY <1>1, <1>5, <2>3, <2>4, <2>5, <2>6 DEF Floatings
<1>6. ASSUME NEW A, A \in {longs, ulongs}, NEW lowest \in Int, NEW highest \in Int,
             r \in Whole(to, InRange(A, lowest, highest))
      PROVE  \E n \in lowest..highest : r = Written(to, Number(n, 0)) /\ Taken(n) \in A
  <2>1. PICK T \in SUBSET Int : A \in SUBSET Outcomes(T)
      BY <1>1, <1>2, <1>6
  <2>2. InRange(A, lowest, highest) \subseteq Outcomes(T \cap (lowest..highest))
      BY <2>1, InRangeOutcomes
  <2>3. PICK n \in T \cap (lowest..highest) :
          Taken(n) \in InRange(A, lowest, highest) /\ r = Written(to, Number(n, 0))
      BY <1>6, <2>2, WholeTaken
  <2> QED BY <1>3, <1>4, <2>3
<1>7. CASE to \in Integers
  <2>1. Lowest(to) \in Int /\ Highest(to) \in Int /\ to \notin Floatings
      BY <1>7, Ranges DEF Integers, Floatings, Int64s, UInt64s, NarrowSigned, NarrowUnsigned
  <2>2. CASE to \in Int64s
    <3>1. r \in Whole(to, InRange(longs, -LongMax - 1, Highest(to)))
        BY <2>2 DEF Converted, coerce_to_integer, Int64s, UInt64s, NarrowSigned, NarrowUnsigned
    <3> QED BY <1>1, <1>6, <2>1, <3>1
  <2>3. CASE to \in UInt64s
    <3>1. r \in Whole(to, InRange(ulongs, Lowest(to), 2 * LongMax + 1))
        BY <2>3
           DEF Converted, coerce_to_unsigned_integer, Int64s, UInt64s, NarrowSigned, NarrowUnsigned
    <3> QED BY <1>1, <1>6, <2>1, <3>1
  <2>4. CASE to \in NarrowSigned
    <3>1. r \in Whole(to, InRange(longs, Lowest(to), Highest(to)))
        BY <2>4
           DEF Converted, coerce_to_signed, coerce_signed, Int64s, UInt64s, NarrowSigned, NarrowUnsigned
    <3> QED BY <1>1, <1>6, <2>1, <3>1
  <2>5. CASE to \in NarrowUnsigned
    <3>1. r \in Whole(to, InRange(ulongs, 0, Highest(to)))
        BY <2>5
           DEF Converted, coerce_to_unsigned, coerce_unsigned, Int64s, UInt64s, NarrowSigned, NarrowUnsigned
    <3> QED BY <1>1, <1>6, <2>1, <3>1
  <2> QED BY <1>7, <2>2, <2>3, <2>4, <2>5 DEF Integers
<1>8. CASE to \in Floatings
  <2>1. LimitOf(to) \in Nat
      BY LimitsOrdered DEF LimitOf
  <2>2. type \notin Floatings
      BY <1>8 DEF Floatings, Integers, Int64s, UInt64s, NarrowSigned, NarrowUnsigned
  <2>3. r \in Whole(to, InRange(longs, -LimitOf(to), LimitOf(to)))
      BY <1>8, <2>2
         DEF Converted, coerce_to_float, coerce_to_double, coerce_signed, LimitOf, Floatings,
             Int64s, UInt64s, NarrowSigned, NarrowUnsigned
  <2> QED BY <1>1, <1>6, <2>1, <2>3
<1> QED BY <1>5, <1>7, <1>8

(* The nearest float of a float is the float itself.                       *)
LEMMA NearestFloat ==
  ASSUME NEW v \in Floats
  PROVE  Nearest(v) = {v}
<1>1. \A f \in Floats : /\ f \in Numbers(Int, 0..3)
                        /\ f.whole \in Int /\ f.part \in 0..3 /\ Quarters(f) \in Int
    BY FloatingAssumption DEF Numbers, AllOf, Quarters
<1>2. Away(v, v) = 0
    BY <1>1 DEF Away
<1>3. \A f \in Floats : Away(f, v) \in Nat
    BY <1>1 DEF Away
<1>4. ASSUME NEW f \in Floats, Away(f, v) <= 0
      PROVE  f = v
  <2>1. Quarters(f) = Quarters(v)
      BY <1>1, <1>4 DEF Away
  <2>2. f.whole = v.whole /\ f.part = v.part
      BY <1>1, <2>1 DEF Quarters
  <2> QED BY <1>1, <2>2 DEF Numbers, AllOf
<1>5. {f \in Floats : \A g \in Floats : Away(f, v) <= Away(g, v)} = {v}
    BY <1>2, <1>3, <1>4
<1>6. ~(\A g \in Floats : Quarters(g) < Quarters(v)) /\ ~(\A g \in Floats : Quarters(g) > Quarters(v))
    BY <1>1
<1> QED BY <1>5, <1>6 DEF Nearest

(* Coercing what is held to another numeric type, with buffers of the      *)
(* right sizes, comes to the function for the type.                        *)
LEMMA CoercionsConverted ==
  ASSUME NEW h, IsTyped(h), NEW c, NEW to, to # h.type, {to, h.type} # Blobs
  PROVE  /\ to \notin Blobs => Coercions(h, c, to) = Converted(c, h.type, h.value, to)
         /\ \A r \in Coercions(h, c, to) :
              r.status = "SUCCESS" => r \in Converted(c, h.type, h.value, to)
<1>1. ~(SizeOf(h.type, h.value) < ValueSize(h.type))
    BY SizesNat, BlobSizes DEF SizeOf, IsTyped
<1>2. ~(ValueSize(to) < ValueSize(to))
    BY SizesNat
<1> QED BY <1>1, <1>2 DEF Coercions, Coerced, Failed

AnyLoss == {EXESS_REDUCE_PRECISION, EXESS_ROUND, EXESS_TRUNCATE}

(* A coercion to another type with no permission, of a value whose loss    *)
(* would be seen, gives a value that becomes the first one when it is      *)
(* coerced back.                                                           *)
LEMMA ConvertedBack ==
  ASSUME NEW type \in Datatypes, NEW value \in Values(type), NEW to \in Datatypes,
         to # type, ~Unseen(value) \/ to \in Floatings,
         NEW r \in Converted(EXESS_LOSSLESS, type, value, to), r.status = "SUCCESS"
  PROVE  /\ type \in Numeric /\ r.value \in Values(to)
         /\ Converted(AnyLoss, to, r.value, type) = {Written(type, value)}
<1>1. r.value \in Values(to)
  <2>1. type \in Blobs => to \notin Blobs
    <3>1. CASE type \in Blobs /\ to \in Blobs
        BY <3>1 DEF Converted, Failed, Blobs, Int64s, UInt64s, NarrowSigned, NarrowUnsigned
    <3> QED BY <3>1
  <2>2. ~(to = type \/ {to, type} = Blobs)
      BY <2>1 DEF Blobs
  <2>3. ~(ValueSize(type) < ValueSize(type)) /\ ~(ValueSize(to) < ValueSize(to))
      BY SizesNat
  <2>4. r \in Coerced(EXESS_LOSSLESS, type, ValueSize(type), value, to, ValueSize(to))
      BY <2>2, <2>3 DEF Coerced
  <2> QED BY <2>4, CoercedValues DEF IsOf
<1>2. CASE \/ to \in Integers \cup {"boolean"}
           \/ to \in Floatings /\ type \notin Floatings
  <2>1. PICK n \in Int :
          /\ r = Written(to, Number(n, 0))
          /\ \/ Taken(n) \in coerce_to_long(type, value, EXESS_LOSSLESS)
             \/ Taken(n) \in coerce_to_ulong(type, value, EXESS_LOSSLESS)
          /\ to \in Floatings => n \in (-LimitOf(to))..LimitOf(to)
      BY <1>2, LosslessTaken
  <2>2. r.value = Number(n, 0)
      BY <2>1 DEF Written
  <2>3. ~Unseen(value) \/ type \notin Floatings
      BY <1>2 DEF Floatings, Integers, Int64s, UInt64s, NarrowSigned, NarrowUnsigned
  <2>4. /\ type \in Numeric /\ value = Number(n, 0)
        /\ type \in Floatings => n \in (-LimitOf(type))..LimitOf(type)
      BY <2>1, <2>3, TakenExact
  <2>5. Number(n, 0).whole = n
      BY DEF Number
  <2>6. Stands(to, Number(n, 0), n)
    <3>1. CASE to \in Integers \cup {"boolean"}
        BY <1>1, <2>2, <2>5, <3>1, IntegerStands
    <3>2. CASE to \in Floatings
        BY <2>1, <3>2, FloatingStands
    <3> QED BY <1>2, <3>1, <3>2
  <2>7. type \in Integers \cup {"boolean"} => n \in Lowest(type)..Highest(type)
      BY <2>4, <2>5, IntegerValues
  <2>8. type \in Floatings => to \notin Floatings
      BY <1>2 DEF Floatings, Integers, Int64s, UInt64s, NarrowSigned, NarrowUnsigned
  <2>9. Converted(AnyLoss, to, Number(n, 0), type) = {Written(type, Number(n, 0))}
      BY <2>4, <2>6, <2>7, <2>8, StandsConverted DEF Numeric
  <2> QED BY <1>1, <2>2, <2>4, <2>9
<1>3. CASE to \in Floatings /\ type \in Floatings
  <2>1. to # "float"
    <3>1. CASE to = "float"
      <4>1. type \in {"decimal", "double"}
          BY <1>3, <3>1 DEF Floatings
      <4> QED BY <3>1, <4>1
              DEF Converted, coerce_to_float, Failed, EXESS_LOSSLESS,
                  Int64s, UInt64s, NarrowSigned, NarrowUnsigned
    <3> QED BY <3>1
  <2>2. to \in {"decimal", "double"}
      BY <1>3, <2>1 DEF Floatings
  <2>3. r = Written(to, value)
      BY <1>3, <2>2 DEF Converted, coerce_to_double, Int64s, UInt64s, NarrowSigned, NarrowUnsigned
  <2>4. r.value = value
      BY <2>3 DEF Written
  <2>5. Converted(AnyLoss, to, value, type) = {Written(type, value)}
    <3>1. CASE type \in {"decimal", "double"}
        BY <1>3, <3>1 DEF Converted, coerce_to_double, Int64s, UInt64s, NarrowSigned, NarrowUnsigned
    <3>2. CASE type = "float"
      <4>1. value \in Floats \cup Specials
          BY <3>2, NumericValues
      <4>2. value \in Floats => value.kind = "number"
          BY FloatingAssumption DEF Numbers, AllOf
      <4>3. value \in Specials => value.kind # "number"
          BY DEF Specials, NaN, Infinity, MinusInfinity, Special, Number
      <4>4. (IF value.kind = "number" THEN Nearest(value) ELSE {value}) = {value}
          BY <4>1, <4>2, <4>3, NearestFloat
      <4>5. Converted(AnyLoss, to, value, type) = coerce_to_float(to, value, AnyLoss)
          BY <3>2 DEF Converted, Int64s, UInt64s, NarrowSigned, NarrowUnsigned
      <4>6. coerce_to_float(to, value, AnyLoss)
              = {Written("float", f) :
                   f \in IF value.kind = "number" THEN Nearest(value) ELSE {value}}
          BY <2>2 DEF coerce_to_float, AnyLoss
      <4> QED BY <3>2, <4>4, <4>5, <4>6
    <3> QED BY <1>3, <3>1, <3>2 DEF Floatings
  <2> QED BY <1>1, <1>3, <2>4, <2>5 DEF Numeric
<1>4. CASE to \notin Numeric
    BY <1>4
       DEF Converted, coerce_to_time, coerce_to_date, Truncation, Failed, EXESS_LOSSLESS,
           Numeric, Floatings, Integers
<1> QED BY <1>2, <1>3, <1>4 DEF Numeric

(* For every width of the types, what a coercion with no permission gives  *)
(* can be coerced back to exactly what it was made from, except for the    *)
(* fractions below zero and the NaN that become integers.                  *)
THEOREM LosslessIsReversible == Spec => []LosslessReversible
<1>1. TypeOK => LosslessReversible
  <2> SUFFICES ASSUME TypeOK, NEW to \in Datatypes,
                      ~(Unseen(held.value) /\ to \notin Floatings),
                      NEW k \in Kept(held, EXESS_LOSSLESS, to)
               PROVE  Kept(k, AnyLoss, held.type) = {held}
      BY DEF LosslessReversible, Reversible, AnyLoss
  <2>1. /\ held = Typed(held.type, held.value)
        /\ held.type \in Datatypes /\ held.value \in Values(held.type)
      BY DEF TypeOK, IsTyped
  <2>2. PICK r \in Coercions(held, EXESS_LOSSLESS, to) :
          r.status = "SUCCESS" /\ k = Typed(to, r.value)
      BY DEF Kept
  <2>3. k.type = to /\ k.value = r.value
      BY <2>2 DEF Typed
  <2>4. CASE to = held.type \/ {to, held.type} = Blobs
    <3> DEFINE back == [status |-> "SUCCESS", count |-> SizeOf(to, held.value), value |-> held.value]
    <3>1. r.value = held.value
        BY <2>2, <2>4 DEF Coercions, Coerced, Failed
    <3>2. held.type = to \/ {held.type, to} = Blobs
        BY <2>4
    <3>3. ~(SizeOf(to, held.value) < ValueSize(to))
      <4>1. held.value \in Values(to)
          BY <2>1, <2>4 DEF Values, Integers, Int64s, UInt64s, NarrowSigned, NarrowUnsigned, Blobs
      <4> QED BY <4>1, SizesNat, BlobSizes DEF SizeOf
    <3>4. ~((IF held.type \in Blobs THEN held.value.whole ELSE ValueSize(held.type))
              < SizeOf(to, held.value))
      <4>1. SizeOf(to, held.value)
              = IF held.type \in Blobs THEN held.value.whole ELSE ValueSize(held.type)
          BY <2>4 DEF SizeOf, Blobs
      <4>2. SizeOf(to, held.value) \in Int
          BY <2>1, <4>1, SizesNat, BlobSizes
      <4> QED BY <4>1, <4>2
    <3>5. Coercions(k, AnyLoss, held.type) = {back}
        BY <2>3, <3>1, <3>2, <3>3, <3>4 DEF Coercions, Coerced
    <3>6. Kept(k, AnyLoss, held.type) = {Typed(held.type, back.value)}
        BY <3>5 DEF Kept
    <3> QED BY <2>1, <3>6
  <2>5. CASE to # held.type /\ {to, held.type} # Blobs
    <3>1. r \in Converted(EXESS_LOSSLESS, held.type, held.value, to)
        BY <2>2, <2>5, CoercionsConverted DEF TypeOK
    <3>2. /\ held.type \in Numeric /\ r.value \in Values(to)
          /\ Converted(AnyLoss, to, r.value, held.type) = {Written(held.type, held.value)}
        BY <2>1, <2>2, <2>5, <3>1, ConvertedBack
    <3>3. IsTyped(k)
        BY <2>2, <2>3, <3>2 DEF IsTyped
    <3>4. held.type \notin Blobs
        BY <3>2
           DEF Blobs, Numeric, Floatings, Integers, Int64s, UInt64s, NarrowSigned, NarrowUnsigned
    <3>5. Coercions(k, AnyLoss, held.type) = {Written(held.type, held.value)}
        BY <2>3, <2>5, <3>2, <3>3, <3>4, CoercionsConverted
    <3> DEFINE back == Written(held.type, held.value)
    <3>6. back.status = "SUCCESS" /\ back.value = held.value
        BY DEF Written
    <3> HIDE DEF back
    <3>7. {q \in {back} : q.status = "SUCCESS"} = {back}
        BY <3>6
    <3>8. Kept(k, AnyLoss, held.type) = {Typed(held.type, held.value)}
        BY <3>5, <3>6, <3>7 DEF Kept, back
    <3> QED BY <2>1, <3>8
  <2> QED BY <2>4, <2>5
<1> QED BY <1>1, TypeCorrect, PTL

=============================================================================
