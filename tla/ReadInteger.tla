---------------------------- MODULE ReadInteger ----------------------------
(***************************************************************************)
(* The integer readers of exess: read_digits (src/ulong.c), the two        *)
(* readers that call it directly (exess_read_long, exess_read_ulong), the  *)
(* readers of the narrow types that call one of those and check a range    *)
(* (int, short, byte, uint, ushort, ubyte), and read_year_number, which    *)
(* has its own sign and range handling.                                    *)
(*                                                                         *)
(* The string is revealed one character at a time: ch is str[i], and       *)
(* moving past it chooses the next one.  A behaviour is thus one call on   *)
(* one string, and the behaviours cover every string of at most MaxLen     *)
(* characters.  The accumulator is an unsigned word with Modulus values    *)
(* (2^64 in the code).                                                     *)
(***************************************************************************)
EXTENDS Integers

CONSTANTS
  Modulus,      \* Number of values of uint64_t: 2^64 in the code
  NarrowHalf,   \* Half the number of values of a narrow type: 2^31, 2^15, 2^7
  MaxLen        \* Bound on the length of the strings read

ASSUME ModulusAssumption ==
  /\ Modulus \in Nat
  /\ Modulus % 2 = 0

(* The narrow types are so much narrower than the accumulator that one     *)
(* more decimal digit than they can hold still fits: 20 * 2^31 <= 2^64.    *)
ASSUME NarrowAssumption ==
  /\ NarrowHalf \in Nat \ {0}
  /\ 20 * NarrowHalf <= Modulus

ASSUME MaxLenAssumption == MaxLen \in Nat

-----------------------------------------------------------------------------
(* Characters, by their codes, and the classes the readers tell apart.     *)

Nul == 0
Space == 32
Plus == 43
Minus == 45
Zero == 48
Digits == 48..57
Other == 65   \* Any character that is none of the above

Chars == {Nul, Space, Plus, Minus, Other} \cup Digits

DigitValue(c) == c - Zero

Statuses ==
  {"SUCCESS", "EXPECTED_DIGIT", "EXPECTED_ZERO", "OUT_OF_RANGE"}

(* The readers.  "narrow" stands for int, short and byte, "unarrow" for    *)
(* uint, ushort and ubyte: six copies of two functions.                    *)
Readers == {"long", "narrow", "ulong", "unarrow", "year"}
SignedReaders == {"long", "narrow", "year"}

LongHalf == Modulus \div 2

MaxOf(r) == CASE r = "long"    -> LongHalf - 1
              [] r = "ulong"   -> Modulus - 1
              [] r = "unarrow" -> 2 * NarrowHalf - 1
              [] OTHER         -> NarrowHalf - 1

MinOf(r) == CASE r = "long"               -> -LongHalf
              [] r \in {"narrow", "year"} -> -NarrowHalf
              [] OTHER                    -> 0

-----------------------------------------------------------------------------
VARIABLES
  reader,   \* The function called
  pc,       \* Where the call is
  i,        \* Index of the next character to look at
  ch,       \* That character, str[i]
  start,    \* Index where read_digits was called
  sign,     \* 1 or -1
  acc,      \* *out of read_digits
  status,   \* Status in the result
  count,    \* Count in the result
  out,      \* *out of the reader, once it has returned
  value     \* History: the number the consumed digits denote

vars == <<reader, pc, i, ch, start, sign, acc, status, count, out, value>>

Sites == {"space", "sign", "first", "zeros", "digits", "zeroOnly",
          "return", "done"}

Init ==
  /\ reader \in Readers
  /\ pc = IF reader = "year" THEN "sign" ELSE "space"
  /\ i = 0
  /\ ch \in Chars
  /\ MaxLen = 0 => ch = Nul
  /\ start = 0
  /\ sign = 1
  /\ acc = 0
  /\ status = "SUCCESS"
  /\ count = 0
  /\ out = 0
  /\ value = 0

(* Move past the current character.  The string ends after MaxLen.         *)
Advance ==
  /\ i' = i + 1
  /\ ch' \in Chars
  /\ i + 1 >= MaxLen => ch' = Nul

Stay == UNCHANGED <<i, ch>>

-----------------------------------------------------------------------------
(* The callers, up to the call of read_digits.                             *)

SkipWhitespace ==
  /\ pc = "space"
  /\ ch = Space
  /\ Advance
  /\ UNCHANGED <<reader, pc, start, sign, acc, status, count, out, value>>

EndWhitespace ==
  /\ pc = "space"
  /\ ch # Space
  /\ pc' = "sign"
  /\ Stay
  /\ UNCHANGED <<reader, start, sign, acc, status, count, out, value>>

(* read_sign; a year may have a leading '-' but no '+'.                    *)
IsSign(c) == c = Minus \/ (c = Plus /\ reader # "year")

(* The unsigned readers accept a '-' before zeros only, which they count   *)
(* themselves, without read_digits.                                        *)
AfterSign(s) ==
  IF s = -1 /\ reader \notin SignedReaders THEN "zeroOnly" ELSE "first"

ReadSign ==
  /\ pc = "sign"
  /\ IsSign(ch)
  /\ sign' = IF ch = Minus THEN -1 ELSE 1
  /\ pc' = AfterSign(sign')
  /\ start' = i + 1
  /\ Advance
  /\ UNCHANGED <<reader, acc, status, count, out, value>>

(* Mistake: read_sign counts a sign that is not there.                     *)
NoSignCounted ==
  /\ pc = "sign"
  /\ ~IsSign(ch)
  /\ pc' = "first"
  /\ start' = i + 1
  /\ Stay
  /\ UNCHANGED <<reader, sign, acc, status, count, out, value>>

NoSign ==
  /\ pc = "sign"
  /\ ~IsSign(ch)
  /\ pc' = "first"
  /\ start' = i
  /\ Stay
  /\ UNCHANGED <<reader, sign, acc, status, count, out, value>>

(* The narrow unsigned readers check the range of 0 after this, to no      *)
(* effect.                                                                 *)
ReadNegativeZero ==
  /\ pc = "zeroOnly"
  /\ ch = Zero
  /\ Advance
  /\ UNCHANGED <<reader, pc, start, sign, acc, status, count, out, value>>

EndNegativeZero ==
  /\ pc = "zeroOnly"
  /\ ch # Zero
  /\ pc' = "done"
  /\ status' = IF i = start THEN "EXPECTED_ZERO" ELSE "SUCCESS"
  /\ count' = i
  /\ Stay
  /\ UNCHANGED <<reader, start, sign, acc, out, value>>

-----------------------------------------------------------------------------
(* read_digits.                                                            *)

CheckFirst ==
  /\ pc = "first"
  /\ IF ch \in Digits
     THEN pc' = "zeros" /\ UNCHANGED status
     ELSE pc' = "return" /\ status' = "EXPECTED_DIGIT"
  /\ Stay
  /\ UNCHANGED <<reader, start, sign, acc, count, out, value>>

(* Mistake: the index is not moved.                                        *)
SkipZeroInPlace ==
  /\ pc = "zeros"
  /\ ch = Zero
  /\ Stay
  /\ UNCHANGED <<reader, pc, start, sign, acc, status, count, out, value>>

SkipZero ==
  /\ pc = "zeros"
  /\ ch = Zero
  /\ Advance
  /\ UNCHANGED <<reader, pc, start, sign, acc, status, count, out, value>>

EndZeros ==
  /\ pc = "zeros"
  /\ ch # Zero
  /\ pc' = "digits"
  /\ Stay
  /\ UNCHANGED <<reader, start, sign, acc, status, count, out, value>>

(* The unsigned sum, which wraps, and the test for overflow the code makes *)
(* of it: only a sum below the previous one is taken as an overflow.       *)
Append10(a, c) == (a * 10 + DigitValue(c)) % Modulus

(* Mistake: a sum that wraps is not noticed at all.                        *)
NeverOverflows(a, next) == FALSE

SeemsToOverflow(a, next) == next < a

ReadDigit ==
  /\ pc = "digits"
  /\ ch \in Digits
  /\ ~SeemsToOverflow(acc, Append10(acc, ch))
  /\ acc' = Append10(acc, ch)
  /\ value' = value * 10 + DigitValue(ch)
  /\ Advance
  /\ UNCHANGED <<reader, pc, start, sign, status, count, out>>

DigitOverflow ==
  /\ pc = "digits"
  /\ ch \in Digits
  /\ SeemsToOverflow(acc, Append10(acc, ch))
  /\ acc' = 0
  /\ value' = value * 10 + DigitValue(ch)
  /\ status' = "OUT_OF_RANGE"
  /\ pc' = "return"
  /\ Stay
  /\ UNCHANGED <<reader, start, sign, count, out>>

EndDigits ==
  /\ pc = "digits"
  /\ ch \notin Digits
  /\ pc' = "return"
  /\ Stay
  /\ UNCHANGED <<reader, start, sign, acc, status, count, out, value>>

-----------------------------------------------------------------------------
(* The callers, from the return of read_digits.                            *)

(* Mistakes: one limit for both signs, one too large or one too small.     *)
MagnitudeFitsMin(m, limit) == m <= limit
MagnitudeFitsMax(m, limit) == m <= limit - 1

(* exess_read_long and read_year_number check the magnitude against the    *)
(* limit of its sign.                                                      *)
MagnitudeFits(m, limit) == IF sign > 0 THEN m <= limit - 1 ELSE m <= limit

(* The exess_read_long of the narrow readers, then their range check:      *)
(* together they let through what passes both.                             *)
InRange ==
  CASE reader = "long"    -> MagnitudeFits(acc, LongHalf)
    [] reader = "year"    -> MagnitudeFits(acc, NarrowHalf)
    [] reader = "narrow"  -> /\ MagnitudeFits(acc, LongHalf)
                             /\ sign * acc >= -NarrowHalf
                             /\ sign * acc <= NarrowHalf - 1
    [] reader = "ulong"   -> TRUE
    [] reader = "unarrow" -> acc <= 2 * NarrowHalf - 1

(* read_year_number has already added the digits to its index when it      *)
(* returns an error of read_digits, and adds them again.                   *)
ReturnError ==
  /\ pc = "return"
  /\ status # "SUCCESS"
  /\ pc' = "done"
  /\ count' = IF reader = "year" THEN i + (i - start) ELSE i
  /\ Stay
  /\ UNCHANGED <<reader, start, sign, acc, status, out, value>>

ReturnOutOfRange ==
  /\ pc = "return"
  /\ status = "SUCCESS"
  /\ ~InRange
  /\ pc' = "done"
  /\ status' = "OUT_OF_RANGE"
  /\ count' = i
  /\ Stay
  /\ UNCHANGED <<reader, start, sign, acc, out, value>>

(* A year needs four digits, leading zeros included; it is stored before   *)
(* they are counted.                                                       *)
ReturnValue ==
  /\ pc = "return"
  /\ status = "SUCCESS"
  /\ InRange
  /\ pc' = "done"
  /\ out' = sign * acc
  /\ status' = IF reader = "year" /\ i - start < 4
               THEN "EXPECTED_DIGIT"
               ELSE "SUCCESS"
  /\ count' = i
  /\ Stay
  /\ UNCHANGED <<reader, start, sign, acc, value>>

-----------------------------------------------------------------------------
Done == pc = "done" /\ UNCHANGED vars

Next ==
  \/ SkipWhitespace \/ EndWhitespace \/ ReadSign \/ NoSign
  \/ ReadNegativeZero \/ EndNegativeZero
  \/ CheckFirst \/ SkipZero \/ EndZeros
  \/ ReadDigit \/ DigitOverflow \/ EndDigits
  \/ ReturnError \/ ReturnOutOfRange \/ ReturnValue
  \/ Done

(* A call runs to its end.                                                 *)
Spec == Init /\ [][Next]_vars /\ WF_vars(Next)

-----------------------------------------------------------------------------
(* Types of the variables, with the bounds of the word and of the string.  *)
TypeOK ==
  /\ reader \in Readers
  /\ pc \in Sites
  /\ i \in 0..MaxLen
  /\ ch \in Chars
  /\ i = MaxLen => ch = Nul
  /\ start \in 0..i
  /\ sign \in {-1, 1}
  /\ acc \in 0..(Modulus - 1)
  /\ status \in Statuses
  /\ count \in Nat
  /\ out \in Int
  /\ value \in Nat

(* What the overflow test guarantees: the accumulator is the number read,  *)
(* or it has wrapped, and then either it is too large for one more digit   *)
(* or the overflow has been reported.                                      *)
ExactOrLarge ==
  \/ acc = value
  \/ value >= Modulus /\ 10 * acc + 9 >= Modulus
  \/ value >= Modulus /\ status = "OUT_OF_RANGE" /\ pc \in {"return", "done"}

Denoted == sign * value

Exact ==
  /\ (status = "SUCCESS") => (out = Denoted /\ Denoted \in MinOf(reader)..MaxOf(reader))
  /\ (status = "OUT_OF_RANGE") => Denoted \notin MinOf(reader)..MaxOf(reader)

(* The readers of the narrow types and of years are exact: whatever the    *)
(* length of the string, a success returns the number written and          *)
(* OUT_OF_RANGE is returned only for a number outside the type.  It holds  *)
(* although the overflow test of read_digits lets wrapped sums through:    *)
(* those are never small enough to pass the range check.                   *)
NarrowExact ==
  (pc = "done" /\ reader \in {"narrow", "unarrow", "year"}) => Exact

(* exess_read_long and exess_read_ulong reject a number only when it is    *)
(* outside the type.                                                       *)
RejectionJustified ==
  (pc = "done" /\ status = "OUT_OF_RANGE")
    => Denoted \notin MinOf(reader)..MaxOf(reader)

(* exess.h: OUT_OF_RANGE is "Value out of range for datatype", and         *)
(* doc/description.rst promises it for a value that does not fit.  The     *)
(* long and ulong readers break it.                                        *)
LongExact == (pc = "done" /\ reader \in {"long", "ulong"}) => Exact

(* The accumulator never steps down while digits are read, except to be    *)
(* cleared by the report of an overflow.                                   *)
AccumulatorGrows ==
  [][acc' >= acc \/ (acc' = 0 /\ status' = "OUT_OF_RANGE")]_vars

(* Every call returns.                                                     *)
Terminates == <>(pc = "done")

=============================================================================
