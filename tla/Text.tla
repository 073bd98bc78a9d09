-------------------------------- MODULE Text --------------------------------
(***************************************************************************)
(* Strings, as sequences of characters, and the scanners that the readers  *)
(* of exess share: src/string_utils.h and src/read_utils.c.  A character   *)
(* is a number: a digit of decimal, hexadecimal or base64 text its value,  *)
(* the others a number above 63.  A hexadecimal digit in lower case is 16  *)
(* more than its value.                                                    *)
(***************************************************************************)
EXTENDS Integers, Sequences

Digits == 0..9
HexDigits == 0..15            \* is_hexdig: in upper case
LowerHexDigits == 26..31
Base64Digits == 0..63

Space == 64         \* Any whitespace
Minus == 65
Plus == 66
Point == 67
Colon == 68
TimeSep == 69       \* T
Zulu == 70          \* Z
Exponent == 71      \* e or E
NaN == 72           \* The letters of a word, as one
INF == 73
Pad == 74           \* The = of base64
Other == 75         \* A character that no reader accepts
End == 76           \* The null that ends a string

CharAt(str, i) == IF i < Len(str) THEN str[i + 1] ELSE End

(* The offset of the first character from an offset on that is not one of  *)
(* chars.                                                                  *)
Scan(chars, str, i) ==
  CHOOSE n \in i..(i + Len(str)) :
    CharAt(str, n) \notin chars /\ \A m \in i..(n - 1) : CharAt(str, m) \in chars

skip_whitespace(str, i) == Scan({Space}, str, i)

(* n characters from an offset on.                                         *)
Chars(str, i, n) == SubSeq(str, i + 1, i + n)

(* The number that digits show.                                            *)
NumberOf[digits \in Seq(Digits)] ==
  IF digits = <<>> THEN 0
  ELSE 10 * NumberOf[SubSeq(digits, 1, Len(digits) - 1)] + digits[Len(digits)]

(* A digit or two, as a number.                                            *)
read_two_digit_number(str, i, min, max) ==
  LET n == IF CharAt(str, i) \notin Digits THEN 0
           ELSE IF CharAt(str, i + 1) \notin Digits THEN 1 ELSE 2
      value == NumberOf[Chars(str, i, n)]
  IN  [value |-> value, at |-> i + n,
       status |-> IF n # 2 THEN "EXPECTED_DIGIT"
                  ELSE IF value \notin min..max THEN "OUT_OF_RANGE" ELSE "SUCCESS"]

(* The digits of a number, without leading zeros, and at least n of them.  *)
DigitsOf[n \in Nat] ==
  IF n < 10 THEN <<n>> ELSE DigitsOf[n \div 10] \o <<n % 10>>

Zeros(n) == [i \in 1..n |-> 0]

Padded(n, width) ==
  LET digits == DigitsOf[n]
  IN  IF Len(digits) >= width THEN digits ELSE Zeros(width - Len(digits)) \o digits

=============================================================================
