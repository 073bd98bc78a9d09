------------------------- MODULE ReadIntegerProofs -------------------------
(***************************************************************************)
(* Proofs about the integer readers, for every width of the accumulator,   *)
(* every narrow type that the assumptions allow and strings of any length. *)
(***************************************************************************)
EXTENDS ReadInteger, TLAPS

-----------------------------------------------------------------------------
(* What the steps keep besides the types: where a status other than        *)
(* SUCCESS can be found, what has not been stored yet, and which readers   *)
(* can have seen a minus sign.                                             *)
Progress ==
  /\ pc \notin {"return", "done"} => status = "SUCCESS"
  /\ pc \notin {"digits", "return", "done"} => value = 0 /\ acc = 0
  /\ pc \in {"space", "sign"} => sign = 1
  /\ pc = "zeroOnly" => reader \in {"ulong", "unarrow"}
  /\ (pc \in {"first", "zeros", "digits", "return"} /\ reader \in {"ulong", "unarrow"})
       => sign = 1
  /\ pc # "done" => out = 0
  /\ (pc = "return" /\ status = "OUT_OF_RANGE") => value >= Modulus

(* The answer of a call that has returned.                                 *)
Answered ==
  pc = "done" =>
    /\ RejectionJustified
    /\ reader \in {"narrow", "unarrow", "year"} => Exact

IInv == TypeOK /\ Progress /\ ExactOrLarge /\ Answered

-----------------------------------------------------------------------------
(* An accumulator below Modulus, multiplied by ten, plus a digit: if the   *)
(* wrapped sum is not below the accumulator, either nothing was lost or    *)
(* the accumulator had no room for one more digit.                         *)
LEMMA WrappedSum ==
  ASSUME NEW a \in 0..(Modulus - 1), NEW c \in Digits
  PROVE  /\ Append10(a, c) \in 0..(Modulus - 1)
         /\ a * 10 + DigitValue(c) < Modulus
              => Append10(a, c) = a * 10 + DigitValue(c)
         /\ DigitValue(c) \in 0..9
<1> DEFINE n == a * 10 + DigitValue(c)
<1>1. DigitValue(c) \in 0..9
  BY DEF Digits, DigitValue, Zero
<1>2. n \in Nat
  BY <1>1
<1>3. Modulus \in Nat \ {0}
  BY ModulusAssumption
<1>4. n % Modulus \in 0..(Modulus - 1) /\ (n < Modulus => n % Modulus = n)
  BY <1>2, <1>3
<1> QED
  BY <1>1, <1>4 DEF Append10

(* A number as large as the accumulator's range is in no type's range, and *)
(* a magnitude held exactly is accepted when the number is in the range.   *)
LEMMA LargeOutOfRange ==
  ASSUME value \in Nat, value >= Modulus, sign \in {-1, 1},
         reader \in Readers, reader \in {"ulong", "unarrow"} => sign = 1
  PROVE  Denoted \notin MinOf(reader)..MaxOf(reader)
<1>1. Modulus >= 20 * NarrowHalf /\ LongHalf < Modulus
  BY ModulusAssumption, NarrowAssumption DEF LongHalf
<1>2. CASE sign = 1
  BY <1>1, <1>2, ModulusAssumption, NarrowAssumption
     DEF Denoted, MaxOf, LongHalf, Readers
<1>3. CASE sign = -1
  BY <1>1, <1>3, ModulusAssumption, NarrowAssumption
     DEF Denoted, MinOf, LongHalf, Readers
<1> QED BY <1>2, <1>3

(* If the accumulator is the number of the string, the last tests of a     *)
(* reader decide whether the number fits its type.                         *)
LEMMA InRangeExact ==
  ASSUME TypeOK, acc = value,
         reader \in {"ulong", "unarrow"} => sign = 1
  PROVE  InRange <=> Denoted \in MinOf(reader)..MaxOf(reader)
<1> USE ModulusAssumption, NarrowAssumption DEF TypeOK, Denoted, InRange
<1>1. LongHalf \in Nat /\ LongHalf >= 10 * NarrowHalf
  BY DEF LongHalf
<1>2. CASE reader = "long"
  BY <1>1, <1>2 DEF MagnitudeFits, MinOf, MaxOf
<1>3. CASE reader = "year"
  BY <1>1, <1>3 DEF MagnitudeFits, MinOf, MaxOf
<1>4. CASE reader = "narrow"
  BY <1>1, <1>4 DEF MagnitudeFits, MinOf, MaxOf
<1>5. CASE reader = "ulong"
  BY <1>1, <1>5 DEF MinOf, MaxOf
<1>6. CASE reader = "unarrow"
  BY <1>1, <1>6 DEF MinOf, MaxOf
<1> QED BY <1>2, <1>3, <1>4, <1>5, <1>6 DEF Readers

(* The strengthened invariant holds initially.                             *)
LEMMA InitIInv == Init => IInv
<1> SUFFICES ASSUME Init PROVE IInv
  OBVIOUS
<1> USE MaxLenAssumption, ModulusAssumption, NarrowAssumption
<1>1. TypeOK
  BY DEF Init, TypeOK, Chars, Sites, Statuses, Readers
<1>2. Progress /\ ExactOrLarge /\ Answered
  BY DEF Init, Progress, ExactOrLarge, Answered
<1> QED
  BY <1>1, <1>2 DEF IInv

(* Moving on keeps the index inside the string.                            *)
LEMMA AdvanceInside ==
  ASSUME TypeOK, Advance, ch # Nul
  PROVE  /\ i' \in 0..MaxLen /\ ch' \in Chars
         /\ i' = MaxLen => ch' = Nul
         /\ i' = i + 1
BY MaxLenAssumption DEF TypeOK, Advance

(* Every step keeps the strengthened invariant.                            *)
LEMMA StepIInv == IInv /\ [Next]_vars => IInv'
<1> SUFFICES ASSUME IInv, [Next]_vars PROVE IInv'
  OBVIOUS
<1> USE DEF IInv
<1>1. CASE SkipWhitespace
  <2>1. TypeOK'
    BY <1>1, AdvanceInside DEF SkipWhitespace, TypeOK, Nul, Space
  <2>2. (Progress /\ ExactOrLarge /\ Answered)'
    BY <1>1 DEF SkipWhitespace, Progress, ExactOrLarge, Answered
  <2> QED BY <2>1, <2>2
<1>2. CASE EndWhitespace
  <2>1. TypeOK'
    BY <1>2 DEF EndWhitespace, Stay, TypeOK, Sites
  <2>2. (Progress /\ ExactOrLarge /\ Answered)'
    BY <1>2 DEF EndWhitespace, Progress, ExactOrLarge, Answered, TypeOK
  <2> QED BY <2>1, <2>2
<1>3. CASE ReadSign
  <2>1. TypeOK'
    BY <1>3, AdvanceInside DEF ReadSign, IsSign, AfterSign, TypeOK, Sites, Nul, Plus, Minus
  <2>2. (Progress /\ ExactOrLarge /\ Answered)'
    BY <1>3 DEF ReadSign, AfterSign, Progress, ExactOrLarge, Answered, TypeOK,
                Readers, SignedReaders
  <2> QED BY <2>1, <2>2
<1>4. CASE NoSign
  <2>1. TypeOK'
    BY <1>4 DEF NoSign, Stay, TypeOK, Sites
  <2>2. (Progress /\ ExactOrLarge /\ Answered)'
    BY <1>4 DEF NoSign, Progress, ExactOrLarge, Answered, TypeOK
  <2> QED BY <2>1, <2>2
<1>5. CASE ReadNegativeZero
  <2>1. TypeOK'
    BY <1>5, AdvanceInside DEF ReadNegativeZero, TypeOK, Nul, Zero
  <2>2. (Progress /\ ExactOrLarge /\ Answered)'
    BY <1>5 DEF ReadNegativeZero, Progress, ExactOrLarge, Answered
  <2> QED BY <2>1, <2>2
<1>6. CASE EndNegativeZero
  <2>1. TypeOK'
    BY <1>6 DEF EndNegativeZero, Stay, TypeOK, Sites, Statuses
  <2>2. (Progress /\ ExactOrLarge)'
    BY <1>6 DEF EndNegativeZero, Progress, ExactOrLarge, TypeOK
  <2>3. value' = 0 /\ out' = 0 /\ reader' = reader /\ status' # "OUT_OF_RANGE"
    BY <1>6 DEF EndNegativeZero, Progress
  <2>4. Denoted' = 0
    <3>1. CASE sign' = 1
      BY <2>3, <3>1 DEF Denoted
    <3>2. CASE sign' = -1
      BY <2>3, <3>2 DEF Denoted
    <3> QED BY <2>1, <3>1, <3>2 DEF TypeOK
  <2>5. 0 \in MinOf(reader)..MaxOf(reader)
    BY <1>6, NarrowAssumption, ModulusAssumption
       DEF EndNegativeZero, Progress, MinOf, MaxOf
  <2>6. Answered'
    BY <2>3, <2>4, <2>5 DEF Answered, Exact, RejectionJustified
  <2> QED BY <2>1, <2>2, <2>6
<1>7. CASE CheckFirst
  <2>1. TypeOK'
    BY <1>7 DEF CheckFirst, Stay, TypeOK, Sites, Statuses
  <2>2. (Progress /\ ExactOrLarge /\ Answered)'
    BY <1>7 DEF CheckFirst, Progress, ExactOrLarge, Answered, TypeOK
  <2> QED BY <2>1, <2>2
<1>8. CASE SkipZero
  <2>1. TypeOK'
    BY <1>8, AdvanceInside DEF SkipZero, TypeOK, Nul, Zero
  <2>2. (Progress /\ ExactOrLarge /\ Answered)'
    BY <1>8 DEF SkipZero, Progress, ExactOrLarge, Answered
  <2> QED BY <2>1, <2>2
<1>9. CASE EndZeros
  <2>1. TypeOK'
    BY <1>9 DEF EndZeros, Stay, TypeOK, Sites
  <2>2. (Progress /\ ExactOrLarge /\ Answered)'
    BY <1>9 DEF EndZeros, Progress, ExactOrLarge, Answered, TypeOK
  <2> QED BY <2>1, <2>2
<1>10. CASE ReadDigit
  <2> DEFINE next == Append10(acc, ch)
  <2>1. acc \in 0..(Modulus - 1) /\ ch \in Digits
    BY <1>10 DEF ReadDigit, TypeOK
  <2>2. /\ next \in 0..(Modulus - 1)
        /\ acc * 10 + DigitValue(ch) < Modulus
             => next = acc * 10 + DigitValue(ch)
        /\ DigitValue(ch) \in 0..9
    BY <2>1, WrappedSum
  <2>3. next >= acc /\ acc' = next /\ value' = value * 10 + DigitValue(ch)
    BY <1>10, <2>1, <2>2 DEF ReadDigit, SeemsToOverflow
  <2>4. TypeOK'
    <3>1. value' \in Nat /\ acc' \in 0..(Modulus - 1)
      BY <2>2, <2>3 DEF TypeOK
    <3>2. i' \in 0..MaxLen /\ ch' \in Chars /\ (i' = MaxLen => ch' = Nul)
            /\ start' \in 0..i'
      BY <1>10, AdvanceInside DEF ReadDigit, TypeOK, Nul, Digits
    <3> QED
      BY <1>10, <3>1, <3>2 DEF ReadDigit, TypeOK
  <2>5. ExactOrLarge'
    <3>1. CASE acc = value /\ acc * 10 + DigitValue(ch) < Modulus
      BY <2>2, <2>3, <3>1 DEF ExactOrLarge
    <3>2. CASE acc = value /\ ~(acc * 10 + DigitValue(ch) < Modulus)
      <4>1. value' >= Modulus /\ 10 * acc + 9 >= Modulus
        BY <2>1, <2>2, <2>3, <3>2, ModulusAssumption
      <4>2. 10 * acc' + 9 >= Modulus
        BY <2>1, <2>2, <2>3, <4>1, ModulusAssumption
      <4> QED BY <4>1, <4>2 DEF ExactOrLarge
    <3>3. CASE value >= Modulus /\ 10 * acc + 9 >= Modulus
      <4>1. value' >= Modulus
        BY <2>2, <2>3, <3>3, ModulusAssumption DEF TypeOK
      <4>2. 10 * acc' + 9 >= Modulus
        BY <2>1, <2>2, <2>3, <3>3, ModulusAssumption
      <4> QED BY <4>1, <4>2 DEF ExactOrLarge
    <3> QED
      BY <1>10, <3>1, <3>2, <3>3 DEF ReadDigit, ExactOrLarge
  <2>6. (Progress /\ Answered)'
    BY <1>10 DEF ReadDigit, Progress, Answered
  <2> QED BY <2>4, <2>5, <2>6
<1>11. CASE DigitOverflow
  <2>1. acc \in 0..(Modulus - 1) /\ ch \in Digits
    BY <1>11 DEF DigitOverflow, TypeOK
  <2>2. DigitValue(ch) \in 0..9 /\ Append10(acc, ch) < acc
    BY <1>11, <2>1, WrappedSum DEF DigitOverflow, SeemsToOverflow
  <2>3. acc * 10 + DigitValue(ch) >= Modulus
    BY <2>1, <2>2, WrappedSum, ModulusAssumption
  <2>4. value' \in Nat /\ value' >= Modulus
    <3>1. value' = value * 10 + DigitValue(ch)
      BY <1>11 DEF DigitOverflow
    <3>2. acc = value \/ value >= Modulus
      BY <1>11 DEF DigitOverflow, ExactOrLarge
    <3> QED
      BY <2>1, <2>2, <2>3, <3>1, <3>2, ModulusAssumption DEF TypeOK
  <2>5. TypeOK'
    BY <1>11, <2>4, ModulusAssumption
       DEF DigitOverflow, Stay, TypeOK, Sites, Statuses
  <2>6. (Progress /\ ExactOrLarge /\ Answered)'
    BY <1>11, <2>4 DEF DigitOverflow, Progress, ExactOrLarge, Answered
  <2> QED BY <2>5, <2>6
<1>12. CASE EndDigits
  <2>1. TypeOK'
    BY <1>12 DEF EndDigits, Stay, TypeOK, Sites
  <2>2. (Progress /\ ExactOrLarge /\ Answered)'
    BY <1>12 DEF EndDigits, Progress, ExactOrLarge, Answered, TypeOK
  <2> QED BY <2>1, <2>2
<1>13. CASE ReturnError
  <2>1. TypeOK'
    BY <1>13 DEF ReturnError, Stay, TypeOK, Sites
  <2>2. (Progress /\ ExactOrLarge)'
    BY <1>13 DEF ReturnError, Progress, ExactOrLarge, TypeOK
  <2>3. status # "SUCCESS" /\ (status = "OUT_OF_RANGE" => value >= Modulus)
    BY <1>13 DEF ReturnError, Progress
  <2>4. value >= Modulus => Denoted \notin MinOf(reader)..MaxOf(reader)
    BY <1>13, LargeOutOfRange DEF ReturnError, Progress, TypeOK
  <2>5. Answered'
    BY <1>13, <2>3, <2>4
       DEF ReturnError, Answered, Exact, RejectionJustified, Denoted
  <2> QED BY <2>1, <2>2, <2>5
<1>14. CASE ReturnOutOfRange
  <2>1. TypeOK'
    BY <1>14 DEF ReturnOutOfRange, Stay, TypeOK, Sites, Statuses
  <2>2. (Progress /\ ExactOrLarge)'
    BY <1>14 DEF ReturnOutOfRange, Progress, ExactOrLarge
  <2>3. Denoted \notin MinOf(reader)..MaxOf(reader)
    <3>1. acc = value \/ value >= Modulus
      BY <1>14 DEF ReturnOutOfRange, ExactOrLarge
    <3>2. CASE value >= Modulus
      BY <1>14, <3>2, LargeOutOfRange DEF ReturnOutOfRange, Progress, TypeOK
    <3>3. CASE acc = value
      BY <1>14, <3>3, InRangeExact DEF ReturnOutOfRange, Progress
    <3> QED BY <3>1, <3>2, <3>3
  <2>4. Answered'
    BY <1>14, <2>3
       DEF ReturnOutOfRange, Answered, Exact, RejectionJustified, Denoted
  <2> QED BY <2>1, <2>2, <2>4
<1>15. CASE ReturnValue
  <2>1. TypeOK'
    BY <1>15 DEF ReturnValue, Stay, TypeOK, Sites, Statuses
  <2>2. (Progress /\ ExactOrLarge)'
    BY <1>15 DEF ReturnValue, Progress, ExactOrLarge
  <2>3. ASSUME reader \in {"narrow", "unarrow", "year"}
        PROVE  acc = value /\ Denoted \in MinOf(reader)..MaxOf(reader)
    <3>1. 10 * acc + 9 < Modulus
      <4>1. InRange /\ acc \in Nat
        BY <1>15, ModulusAssumption DEF ReturnValue, TypeOK
      <4>2. CASE reader = "narrow"
        <5>1. sign * acc \in -NarrowHalf..NarrowHalf
          BY <4>1, <4>2, NarrowAssumption DEF InRange, TypeOK
        <5>2. acc <= NarrowHalf
          <6>1. CASE sign = 1
            BY <4>1, <5>1, <6>1, NarrowAssumption
          <6>2. CASE sign = -1
            BY <4>1, <5>1, <6>2, NarrowAssumption
          <6> QED BY <6>1, <6>2 DEF TypeOK
        <5> QED BY <4>1, <5>2, NarrowAssumption, ModulusAssumption
      <4>3. CASE reader = "unarrow"
        <5>1. acc <= 2 * NarrowHalf - 1
          BY <4>1, <4>3 DEF InRange
        <5> QED BY <4>1, <5>1, NarrowAssumption, ModulusAssumption
      <4>4. CASE reader = "year"
        <5>1. acc <= NarrowHalf
          BY <4>1, <4>4, NarrowAssumption DEF InRange, MagnitudeFits
        <5> QED BY <4>1, <5>1, NarrowAssumption, ModulusAssumption
      <4> QED BY <2>3, <4>2, <4>3, <4>4
    <3>2. acc = value
      BY <1>15, <3>1, ModulusAssumption DEF ReturnValue, ExactOrLarge, TypeOK
    <3> QED
      BY <1>15, <3>2, InRangeExact DEF ReturnValue, Progress
  <2>4. Answered'
    BY <1>15, <2>3
       DEF ReturnValue, Answered, Exact, RejectionJustified, Denoted
  <2> QED BY <2>1, <2>2, <2>4
<1>16. CASE UNCHANGED vars
  BY <1>16 DEF vars, TypeOK, Progress, ExactOrLarge, Answered,
               RejectionJustified, Exact, Denoted
<1> QED
  BY <1>1, <1>2, <1>3, <1>4, <1>5, <1>6, <1>7, <1>8, <1>9, <1>10, <1>11,
     <1>12, <1>13, <1>14, <1>15, <1>16 DEF Next, Done

(* The strengthened invariant of the readers.                              *)
THEOREM SpecIInv == Spec => []IInv
BY InitIInv, StepIInv, PTL DEF Spec

(* Type correctness.                                                       *)
THEOREM TypeCorrect == Spec => []TypeOK
BY SpecIInv, PTL DEF IInv

(* At every point of a call the accumulator is the number read, or it has  *)
(* wrapped to a number with no room for one more digit, or the overflow is *)
(* reported: what the loop of read_digits misses is never small.           *)
THEOREM AccumulatorExactOrLarge == Spec => []ExactOrLarge
BY SpecIInv, PTL DEF IInv

(* The readers of the narrow types and of years return the number that was *)
(* written, or OUT_OF_RANGE exactly when it does not fit.                  *)
THEOREM NarrowReadersExact == Spec => []NarrowExact
<1>1. IInv => NarrowExact
  BY DEF IInv, Answered, NarrowExact
<1> QED BY SpecIInv, <1>1, PTL

(* No reader rejects a number that its type can hold.                      *)
THEOREM RejectionsJustified == Spec => []RejectionJustified
<1>1. IInv => RejectionJustified
  BY DEF IInv, Answered, RejectionJustified
<1> QED BY SpecIInv, <1>1, PTL

(* The accumulator steps down only to report an overflow.                  *)
THEOREM AccumulatorMonotone == Spec => AccumulatorGrows
<1> DEFINE Grow == acc' >= acc \/ (acc' = 0 /\ status' = "OUT_OF_RANGE")
<1>1. IInv /\ [Next]_vars => [Grow]_vars
  <2> SUFFICES ASSUME IInv, [Next]_vars PROVE [Grow]_vars
    OBVIOUS
  <2>1. acc \in 0..(Modulus - 1)
    BY DEF IInv, TypeOK
  <2>2. CASE ReadDigit
    <3>1. ch \in Digits
      BY <2>2 DEF ReadDigit
    <3>2. Append10(acc, ch) \in 0..(Modulus - 1)
      BY <2>1, <3>1, WrappedSum
    <3> QED BY <2>1, <2>2, <3>2, ModulusAssumption DEF ReadDigit, SeemsToOverflow
  <2>3. CASE DigitOverflow
    BY <2>3 DEF DigitOverflow
  <2>4. CASE UNCHANGED acc
    BY <2>1, <2>4
  <2> QED
    BY <2>2, <2>3, <2>4
       DEF Next, vars, SkipWhitespace, EndWhitespace, ReadSign, NoSign,
           ReadNegativeZero, EndNegativeZero, CheckFirst, SkipZero, EndZeros,
           EndDigits, ReturnError, ReturnOutOfRange, ReturnValue, Done
<1> QED
  BY SpecIInv, <1>1, PTL DEF Spec, AccumulatorGrows

=============================================================================
