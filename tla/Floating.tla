------------------------------ MODULE Floating ------------------------------
(***************************************************************************)
(* Floating point numbers as text: the digits of src/digits.c, the forms   *)
(* of src/decimal.c and src/scientific.c, the parser of src/strtod.c.      *)
(*                                                                         *)
(* A task writes a number and reads the text again, or reads a text given. *)
(***************************************************************************)
EXTENDS SoftFloat, SequencesExt, Text

CONSTANTS
  FloatMantDig, FloatSubnormalExpt, FloatMaxExpt,   \* The format of a float
  FloatDecimalDig,      \* FLT_DECIMAL_DIG: 9
  IntBits,              \* Bits of an int: 32
  BigitBits,            \* Bits of a digit of a big integer: 32
  Numbers,              \* The numbers that are written
  Texts                 \* The texts that are read, with their formats

(* The kinds of number, by their order in the source.                      *)
Kinds == {"NAN", "NEGATIVE_INFINITY", "POSITIVE_INFINITY", "NEGATIVE_ZERO", "POSITIVE_ZERO",
          "NEGATIVE", "POSITIVE"}

Special(kind) == [kind |-> kind, f |-> 0, e |-> 0]

(* The number of a magnitude with a sign.                                  *)
Signed(negative, v) ==
  CASE v = Infinite -> Special(IF negative THEN "NEGATIVE_INFINITY" ELSE "POSITIVE_INFINITY")
    [] v.f = 0 -> Special(IF negative THEN "NEGATIVE_ZERO" ELSE "POSITIVE_ZERO")
    [] OTHER -> [kind |-> IF negative THEN "NEGATIVE" ELSE "POSITIVE", f |-> v.f, e |-> v.e]

IsFinite(kind) == kind \in {"NEGATIVE", "POSITIVE"}

(* The conversion of a double to a float.                                  *)
ToFloat(d) ==
  LET num == IF d.e > 0 THEN d.f * 2^d.e ELSE d.f
      den == IF d.e < 0 THEN 2^(-d.e) ELSE 1
      v == Nearest(num, den, FloatMantDig, FloatSubnormalExpt, FloatMaxExpt)
  IN  IF IsFinite(d.kind)
      THEN Signed(d.kind = "NEGATIVE", IF v = Infinite THEN v ELSE soft_float_to_double(v))
      ELSE d

VARIABLES
  format,   \* decimal, double or float
  written,  \* The number written, or a NaN when a text was given
  ratio,    \* The rational that digits are generated from
  text,     \* The text
  at,       \* How much of the text is read
  in,       \* ExessFloatingDecimal: written, then read
  reading,  \* What the parser remembers
  status,
  out,      \* The number read
  overlooked,   \* History: a carry was overlooked while digits were generated
  pc

vars == <<format, written, ratio, text, at, in, reading, status, out, overlooked, pc>>

NoRatio == [numer |-> 0, denom |-> 1, lower |-> 0, upper |-> 0, even |-> FALSE]
NoDecimal == [kind |-> "NAN", expt |-> 0, digits |-> <<>>]
NotReading == [negative |-> FALSE, afterPoint |-> FALSE, exptSign |-> 1, absExpt |-> 0]

Init ==
  /\ \/ /\ pc = "write"
        /\ \E n \in Numbers : format = n.format /\ written = n.number
        /\ text = <<>>
     \/ /\ pc = "start"
        /\ \E t \in Texts : format = t.format /\ text = t.text
        /\ written = Special("NAN")
  /\ ratio = NoRatio /\ at = 0 /\ in = NoDecimal /\ reading = NotReading
  /\ status = "SUCCESS" /\ out = Special("NAN") /\ overlooked = FALSE

-----------------------------------------------------------------------------
(* digits.c *)

(* Mistake: the power is not undershot.                                    *)
PowerAbove(v) == -((-(WordBits - LeadingZeros(v.f) + v.e) * 30103) \div 100000)

(* ceil((msb + e) * log10(2) - 0.69), with log10(2) to five digits.        *)
approximate_power(v) ==
  -((69000 - (WordBits - LeadingZeros(v.f) + v.e) * 30103) \div 100000)

(* Its comment leaves out the smallest normal number, the code does not.   *)
double_lower_boundary_is_closer(v) == v.f = 2^(MantDig - 1)

(* The digits of a big integer.                                            *)
Bigits[n \in Nat] == IF n = 0 THEN 0 ELSE 1 + Bigits[n \div 2^BigitBits]

(* exess_bigint_plus_compare: the sign of l + p - c, unless one of l and p *)
(* has more digits than the other, and c more than both.  Then c is taken  *)
(* to be the greater one, though a carry may make the sum as long.         *)
exess_bigint_plus_compare(l, p, c) ==
  CASE Bigits[l] # Bigits[p] /\ Bigits[l] < Bigits[c] /\ Bigits[p] < Bigits[c] -> -1
    [] OTHER -> IF l + p < c THEN -1 ELSE IF l + p = c THEN 0 ELSE 1

(* The numerator, denominator and distances to the boundaries.             *)
calculate_initial_values(v, power, closer) ==
  LET lgDenom == IF closer THEN 2 ELSE 1
      delta == CASE v.e >= 0 -> 2^v.e
                 [] v.e < 0 /\ power >= 0 -> 1
                 [] OTHER -> 10^(-power)
      numer == IF v.e < 0 /\ power >= 0 THEN v.f ELSE v.f * delta
      denom == CASE v.e >= 0 -> 10^power
                 [] v.e < 0 /\ power >= 0 -> 10^power * 2^(-v.e)
                 [] OTHER -> 2^(-v.e)
  IN  [numer |-> numer * 2^lgDenom, denom |-> denom * 2^lgDenom, lower |-> delta,
       upper |-> IF closer THEN 2 * delta ELSE delta, even |-> v.f % 2 = 0]

(* Mistake: a boundary is taken for the number on either side.             *)
WithinOrAtLower(r) == r.numer <= r.lower

within_lower(r) == IF r.even THEN r.numer <= r.lower ELSE r.numer < r.lower

(* Mistake: a boundary is never taken for the number.                      *)
WithinBelowUpper(r) == r.numer + r.upper > r.denom

within_upper(r) ==
  LET cmp == exess_bigint_plus_compare(r.numer, r.upper, r.denom)
  IN  IF r.even THEN cmp >= 0 ELSE cmp > 0

(* The sum is not less than the denominator, but found to be.              *)
Overlooks(r) ==
  r.numer + r.upper >= r.denom /\ exess_bigint_plus_compare(r.numer, r.upper, r.denom) < 0

TimesTen(r) ==
  [r EXCEPT !.numer = 10 * @, !.lower = 10 * @, !.upper = 10 * @]

MaxDigits == IF format = "float" THEN FloatDecimalDig ELSE DecimalDig

(* measure_decimal: the kind, and the beginning of generate_digits.        *)
Measure ==
  /\ pc = "write"
  /\ IF IsFinite(written.kind)
     THEN LET v == [f |-> written.f, e |-> written.e]
              power == approximate_power(v)
              r == calculate_initial_values(v, power, double_lower_boundary_is_closer(v))
              high == within_upper(r)
          IN  /\ ratio' = IF high THEN r ELSE TimesTen(r)
              /\ in' = [kind |-> written.kind, expt |-> IF high THEN power ELSE power - 1,
                        digits |-> <<>>]
              /\ overlooked' = Overlooks(r)
              /\ pc' = "emit"
     ELSE /\ in' = [NoDecimal EXCEPT !.kind = written.kind]
          /\ pc' = "print"
          /\ UNCHANGED <<ratio, overlooked>>
  /\ UNCHANGED <<format, written, text, at, reading, status, out>>

(* Trailing zeros are trimmed, but for the first digit.                    *)
Trimmed(digits) ==
  LET kept == {n \in 1..Len(digits) : n = 1 \/ digits[n] # 0}
  IN  SubSeq(digits, 1, CHOOSE n \in kept : \A m \in kept : m <= n)

(* One step of the loop of emit_digits.                                    *)
EmitDigit ==
  /\ pc = "emit"
  /\ LET digit == ratio.numer \div ratio.denom
         rest == [ratio EXCEPT !.numer = @ % ratio.denom]
         low == within_lower(rest)
         high == within_upper(rest)
         up == ~low \/ (high /\ exess_bigint_plus_compare(rest.numer, rest.numer, rest.denom) >= 0)
         digits == Append(in.digits, IF (low \/ high) /\ up THEN digit + 1 ELSE digit)
     IN  /\ overlooked' = (overlooked \/ Overlooks(rest))
         /\ IF low \/ high \/ Len(digits) = MaxDigits
            THEN /\ in' = [in EXCEPT !.digits = Trimmed(digits)]
                 /\ ratio' = NoRatio
                 /\ pc' = "print"
            ELSE /\ in' = [in EXCEPT !.digits = digits]
                 /\ ratio' = TimesTen(rest)
                 /\ UNCHANGED pc
  /\ UNCHANGED <<format, written, text, at, reading, status, out>>

-----------------------------------------------------------------------------
(* decimal.c and scientific.c *)

Sign(kind) == IF kind \in {"NEGATIVE", "NEGATIVE_ZERO", "NEGATIVE_INFINITY"}
              THEN <<Minus>> ELSE <<>>

(* The digits with the point after, before or between them.                *)
DecimalText(d) ==
  LET n == Len(d.digits)
  IN  CASE ~IsFinite(d.kind) -> <<0, Point, 0>>
        [] IsFinite(d.kind) /\ d.expt >= n - 1 ->
             d.digits \o Zeros(d.expt - (n - 1)) \o <<Point, 0>>
        [] IsFinite(d.kind) /\ d.expt < n - 1 /\ d.expt < 0 ->
             <<0, Point>> \o Zeros(-d.expt - 1) \o d.digits
        [] OTHER -> SubSeq(d.digits, 1, d.expt + 1) \o <<Point>>
                      \o SubSeq(d.digits, d.expt + 2, n)

ScientificText(d) ==
  CASE d.kind = "NAN" -> <<NaN>>
    [] d.kind \in {"NEGATIVE_INFINITY", "POSITIVE_INFINITY"} -> <<INF>>
    [] d.kind \in {"NEGATIVE_ZERO", "POSITIVE_ZERO"} -> <<0, Point, 0, Exponent, 0>>
    [] OTHER -> <<d.digits[1], Point>>
                  \o (IF Len(d.digits) > 1 THEN Tail(d.digits) ELSE <<0>>)
                  \o <<Exponent>>
                  \o (IF d.expt < 0 THEN <<Minus>> ELSE <<>>)
                  \o DigitsOf[IF d.expt < 0 THEN -d.expt ELSE d.expt]

(* Writing the text that is read next; only numbers have a decimal form.   *)
WriteText ==
  /\ pc = "print"
  /\ IF format = "decimal" /\ in.kind \in {"NAN", "NEGATIVE_INFINITY", "POSITIVE_INFINITY"}
     THEN /\ status' = "BAD_VALUE"
          /\ pc' = "done"
          /\ UNCHANGED <<text, in>>
     ELSE /\ text' = Sign(in.kind)
                       \o (IF format = "decimal" THEN DecimalText(in) ELSE ScientificText(in))
          /\ in' = NoDecimal
          /\ pc' = "start"
          /\ UNCHANGED status
  /\ UNCHANGED <<format, written, ratio, at, reading, out, overlooked>>

-----------------------------------------------------------------------------
(* strtod.c *)

Char(i) == CharAt(text, i)

(* An int, which wraps where the code overflows.                           *)
ToInt(n) == ((n + 2^(IntBits - 1)) % 2^IntBits) - 2^(IntBits - 1)

(* The words of parse_double.                                              *)
Words == {<<NaN>>, <<Minus, INF>>, <<INF>>, <<Plus, INF>>}

KindOf(word) ==
  CASE word = <<NaN>> -> "NAN"
    [] word = <<Minus, INF>> -> "NEGATIVE_INFINITY"
    [] OTHER -> "POSITIVE_INFINITY"

(* Whitespace, and then a word or a sign.                                  *)
ReadStart ==
  /\ pc = "start"
  /\ LET i == skip_whitespace(text, 0)
         rest == SubSeq(text, i + 1, Len(text))
     IN  IF format # "decimal" /\ rest \in Words
         THEN /\ in' = [in EXCEPT !.kind = KindOf(rest)]
              /\ at' = Len(text)
              /\ pc' = "convert"
              /\ UNCHANGED reading
         ELSE /\ reading' = [reading EXCEPT !.negative = Char(i) = Minus]
              /\ at' = IF Char(i) \in {Minus, Plus} THEN i + 1 ELSE i
              /\ pc' = "zeros"
              /\ UNCHANGED in
  /\ UNCHANGED <<format, written, ratio, text, status, out, overlooked>>

(* One step of skip_leading_zeros, or its end.                             *)
SkipZero ==
  /\ pc = "zeros"
  /\ CASE Char(at) = Point /\ ~reading.afterPoint ->
            /\ reading' = [reading EXCEPT !.afterPoint = TRUE]
            /\ at' = at + 1
            /\ UNCHANGED <<in, status, pc>>
       [] Char(at) = 0 ->
            /\ in' = [in EXCEPT !.expt = IF reading.afterPoint THEN @ - 1 ELSE @]
            /\ at' = at + 1
            /\ UNCHANGED <<reading, status, pc>>
       [] OTHER ->
            /\ IF ~reading.afterPoint /\ Char(at) \notin Digits
               THEN status' = "EXPECTED_DIGIT" /\ pc' = "done"
               ELSE UNCHANGED status /\ pc' = "mantissa"
            /\ UNCHANGED <<in, at, reading>>
  /\ UNCHANGED <<format, written, ratio, text, out, overlooked>>

(* Mistake: digits that do not matter count after the point as well.       *)
WithEveryDigit(d, digit, afterPoint) ==
  IF Len(d.digits) < DecimalDig + 1
  THEN [d EXCEPT !.digits = Append(@, digit), !.expt = IF afterPoint THEN @ - 1 ELSE @]
  ELSE [d EXCEPT !.expt = @ + 1]

(* A decimal with one more digit of the mantissa.                          *)
WithDigit(d, digit, afterPoint) ==
  IF Len(d.digits) < DecimalDig + 1
  THEN [d EXCEPT !.digits = Append(@, digit), !.expt = IF afterPoint THEN @ - 1 ELSE @]
  ELSE [d EXCEPT !.expt = IF afterPoint THEN @ ELSE @ + 1]

ReadMantissa ==
  /\ pc = "mantissa"
  /\ CASE Char(at) \in Digits ->
            /\ in' = WithDigit(in, Char(at), reading.afterPoint)
            /\ at' = at + 1
            /\ UNCHANGED <<reading, pc>>
       [] Char(at) = Point /\ ~reading.afterPoint ->
            /\ reading' = [reading EXCEPT !.afterPoint = TRUE]
            /\ at' = at + 1
            /\ UNCHANGED <<in, pc>>
       [] OTHER ->
            /\ in' = [in EXCEPT !.kind =
                        CASE reading.negative /\ in.digits # <<>> -> "NEGATIVE"
                          [] reading.negative /\ in.digits = <<>> -> "NEGATIVE_ZERO"
                          [] ~reading.negative /\ in.digits # <<>> -> "POSITIVE"
                          [] OTHER -> "POSITIVE_ZERO"]
            /\ pc' = IF format = "decimal" THEN "convert" ELSE "exponent"
            /\ UNCHANGED <<at, reading>>
  /\ UNCHANGED <<format, written, ratio, text, status, out, overlooked>>

ReadExponentSign ==
  /\ pc = "exponent"
  /\ LET next == Char(at + 1)
     IN  CASE Char(at) # Exponent ->
                /\ pc' = "convert"
                /\ UNCHANGED <<at, reading, status>>
           [] Char(at) = Exponent /\ next \notin Digits \cup {Minus, Plus} ->
                /\ status' = "EXPECTED_DIGIT"
                /\ at' = at + 1
                /\ pc' = "done"
                /\ UNCHANGED reading
           [] OTHER ->
                /\ reading' = [reading EXCEPT !.exptSign = IF next = Minus THEN -1 ELSE 1]
                /\ at' = IF next \in Digits THEN at + 1 ELSE at + 2
                /\ pc' = "exponent digits"
                /\ UNCHANGED status
  /\ UNCHANGED <<format, written, ratio, text, in, out, overlooked>>

ReadExponent ==
  /\ pc = "exponent digits"
  /\ IF Char(at) \in Digits
     THEN /\ reading' = [reading EXCEPT !.absExpt = ToInt(10 * @ + Char(at))]
          /\ at' = at + 1
          /\ UNCHANGED <<in, pc>>
     ELSE /\ in' = [in EXCEPT !.expt = ToInt(@ + reading.exptSign * reading.absExpt)]
          /\ pc' = "convert"
          /\ UNCHANGED <<at, reading>>
  /\ UNCHANGED <<format, written, ratio, text, status, out, overlooked>>

(* decimal_to_double, and for a float the conversion.                      *)
Convert ==
  /\ pc = "convert"
  /\ LET d == IF IsFinite(in.kind)
              THEN Signed(in.kind = "NEGATIVE",
                          decimal_to_double(NumberOf[in.digits], in.expt, Len(in.digits)))
              ELSE Special(in.kind)
     IN  out' = IF format = "float" THEN ToFloat(d) ELSE d
  /\ pc' = "done"
  /\ UNCHANGED <<format, written, ratio, text, at, in, reading, status, overlooked>>

Next ==
  \/ Measure
  \/ EmitDigit
  \/ WriteText
  \/ ReadStart
  \/ SkipZero
  \/ ReadMantissa
  \/ ReadExponentSign
  \/ ReadExponent
  \/ Convert

Spec == Init /\ [][Next]_vars

-----------------------------------------------------------------------------
(* Properties *)

IsDigit(c) == c \in Digits

(* The parts of a text: spaces and a sign, then the digits around at most  *)
(* one point, then anything else.                                          *)
Leading(t) ==
  CHOOSE n \in 0..Len(t) : /\ \A m \in 1..n : t[m] \in {Space, Plus, Minus}
                           /\ n < Len(t) => t[n + 1] \notin {Space, Plus, Minus}

Mantissa(t) ==
  LET IsMantissa(n) ==
        LET m == SubSeq(t, Leading(t) + 1, n)
        IN  \A k \in DOMAIN m :
              m[k] \in Digits \/ (m[k] = Point /\ \A l \in 1..(k - 1) : m[l] # Point)
      end == CHOOSE n \in Leading(t)..Len(t) :
               IsMantissa(n) /\ (n < Len(t) => ~IsMantissa(n + 1))
  IN  SubSeq(t, Leading(t) + 1, end)

FractionDigits(m) ==
  LET points == {n \in 1..Len(m) : m[n] = Point}
  IN  IF points = {} THEN 0 ELSE Len(m) - CHOOSE n \in points : TRUE

ShownExponent(t) ==
  LET mark == Leading(t) + Len(Mantissa(t)) + 1
      sign == IF mark < Len(t) THEN t[mark + 1] ELSE End
      first == IF sign \in {Minus, Plus} THEN mark + 2 ELSE mark + 1
      last == CHOOSE n \in (first - 1)..Len(t) :
                (\A m \in first..n : t[m] \in Digits) /\ (n < Len(t) => t[n + 1] \notin Digits)
  IN  IF format = "decimal" \/ mark > Len(t) THEN 0
      ELSE IF t[mark] # Exponent THEN 0
      ELSE NumberOf[SubSeq(t, first, last)] * (IF sign = Minus THEN -1 ELSE 1)

(* The digits that matter of a text are those read, and no others: the     *)
(* number read is the number shown, cut off after as many digits as are    *)
(* kept, however zeros and the point are placed, where the exponent fits   *)
(* an int.                                                                 *)
ParseExact ==
  LET shown == Mantissa(text)
      significand == NumberOf[SelectSeq(shown, IsDigit)]
      length == CHOOSE n \in 0..Len(text) :
                  significand < 10^n /\ (n > 0 => significand >= 10^(n - 1))
      dropped == IF length > DecimalDig + 1 THEN length - (DecimalDig + 1) ELSE 0
      negative == \E n \in 1..Leading(text) : text[n] = Minus
  IN  /\ pc = "convert" /\ in.kind \notin {"NAN", "NEGATIVE_INFINITY", "POSITIVE_INFINITY"}
      /\ ShownExponent(text) <= 2^(IntBits - 2) /\ -ShownExponent(text) <= 2^(IntBits - 2)
      => /\ negative <=> in.kind \in {"NEGATIVE", "NEGATIVE_ZERO"}
         /\ IsFinite(in.kind) <=> significand # 0
         /\ NumberOf[in.digits] = significand \div 10^dropped
         /\ IsFinite(in.kind) =>
              in.expt = ShownExponent(text) - FractionDigits(shown) + dropped

(* A decimal too small for a double, but just above a power of two.        *)
AbovePowerOfTwo(significand, expt) ==
  \E n \in (2 - SubnormalExpt)..(4 * (1 - MinPower)) :
    LET power == 10^(-expt) \div 2^n
    IN  power < significand /\ (significand - power) * 2^MantDig < power

(* The double nearest to a decimal is the middle between two floats: it has *)
(* one bit more than they have.                                            *)
BetweenFloats(v) ==
  LET finer == Nearest(IF v.e > 0 THEN v.f * 2^v.e ELSE v.f, IF v.e < 0 THEN 2^(-v.e) ELSE 1,
                       FloatMantDig + 1, FloatSubnormalExpt - 1, FloatMaxExpt - 1)
  IN  /\ v # Infinite /\ finer # Infinite
      /\ finer.f % 2 = 1 /\ soft_float_to_double(finer) = v

(* The number read is the one of the format nearest to the decimal, however *)
(* it was found: exactly, by a guess known to be right, or by a guess that *)
(* big integers correct.  There are two exceptions.  A decimal less than   *)
(* half of the smallest double is read as that double and not as zero when *)
(* it is so close to a power of two that the guess has to be corrected.  A *)
(* float is rounded from a double, so that a decimal whose double is the   *)
(* middle between two floats may be read as either.                        *)
ReadsNearest ==
  pc = "done" /\ status = "SUCCESS" /\ IsFinite(in.kind) =>
    LET significand == NumberOf[in.digits]
        power == Len(in.digits) + in.expt
        Within(mantDig, minExpt, maxExpt) ==
          CASE power > MaxPower -> Infinite
            [] power < MinPower -> [f |-> 0, e |-> minExpt]
            [] OTHER -> Nearest(IF in.expt > 0 THEN significand * 10^in.expt ELSE significand,
                                IF in.expt < 0 THEN 10^(-in.expt) ELSE 1,
                                mantDig, minExpt, maxExpt)
        double == Within(MantDig, SubnormalExpt, MaxExpt)
        float == Within(FloatMantDig, FloatSubnormalExpt, FloatMaxExpt)
        As(v) == Signed(in.kind = "NEGATIVE", v)
    IN  IF format = "float"
        THEN \/ out = As(IF float = Infinite THEN float ELSE soft_float_to_double(float))
             \/ BetweenFloats(double) /\ out = ToFloat(As(double))
        ELSE \/ out = As(double)
             \/ /\ power \in MinPower..MaxPower /\ double.f = 0
                /\ AbovePowerOfTwo(significand, in.expt)
                /\ out = As([f |-> 1, e |-> SubnormalExpt])

(* No number of the range is above or below the limits on powers of ten.   *)
ASSUME PowersAssumption ==
  /\ NearestDecimal(1, MaxPower) = Infinite
  /\ NearestDecimal(1, MinPower).f = 0

(* What is written is read back as the same number; a decimal is not       *)
(* written when it is not finite.                                          *)
WritesExactly ==
  pc = "done" /\ written.kind # "NAN" =>
    IF format = "decimal" /\ written.kind \in {"NEGATIVE_INFINITY", "POSITIVE_INFINITY"}
    THEN status = "BAD_VALUE"
    ELSE status = "SUCCESS" /\ at = Len(text) /\ out = written

(* What is written is read back as the same number, however close the next *)
(* one is, unless a carry was overlooked while its digits were generated.  *)
RoundTrip == ~overlooked => WritesExactly

(* The digits of a decimal or double are the fewest that show it: no       *)
(* decimal with one digit less is read as it.  Not so when a carry was     *)
(* overlooked, nor for the smallest normal number, whose lower boundary is *)
(* taken to be closer than it is.                                          *)
ShortestDigits ==
  LET v == [f |-> written.f, e |-> written.e]
      n == Len(in.digits) - 1
  IN  /\ pc = "print" /\ IsFinite(in.kind) /\ format # "float" /\ n > 0
      /\ ~overlooked /\ v # [f |-> 2^(MantDig - 1), e |-> SubnormalExpt]
      => \A significand \in 10^(n - 1)..(10^n) :
           NearestDecimal(significand, in.expt - (n - 1)) # v

(* The assertions of the code hold: the ratio that digits are generated    *)
(* from is at least 1 and less than 10 with its upper boundary, and a nine *)
(* is not rounded up, unless a carry was overlooked; the digits fit and do *)
(* not end with a zero, and the exponents converted have a cached power.   *)
AssertionsHold ==
  /\ ~overlooked =>
       /\ pc = "emit" /\ in.digits = <<>> =>
            (ratio.numer + ratio.upper) \div ratio.denom \in 1..9
       /\ \A n \in DOMAIN in.digits : in.digits[n] \in Digits
  /\ Len(in.digits) <= DecimalDig + 1
  /\ pc = "print" /\ IsFinite(in.kind) =>
       Len(in.digits) = 1 \/ Last(in.digits) # 0
  /\ pc = "convert" /\ IsFinite(in.kind) /\ Len(in.digits) + in.expt \in MinPower..MaxPower =>
       PowerIndex(in.expt) + 1 \in DOMAIN SoftPow10

=============================================================================
