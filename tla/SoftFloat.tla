----------------------------- MODULE SoftFloat -----------------------------
(***************************************************************************)
(* Decimal to binary conversion: src/soft_float.c, and the conversion of   *)
(* src/strtod.c, for floating point numbers and machine words of any width. *)
(*                                                                         *)
(* A magnitude is f * 2^e, as in ExessSoftFloat.  Those of the doubles     *)
(* have the smallest e that their f allows, and big integers are exact.    *)
(***************************************************************************)
EXTENDS Integers, Sequences

CONSTANTS
  WordBits,             \* Bits of a significand: 64
  MantDig,              \* DBL_MANT_DIG: 53
  SubnormalExpt,        \* dbl_subnormal_expt: -1074
  MaxExpt,              \* The largest e of a double: 971
  DecimalDig,           \* DBL_DECIMAL_DIG: 17
  WordDigits10,         \* uint64_digits10: 19
  ExactPowers,          \* n_exact_pow10: 20
  ExactIntDigits,       \* max_exact_int_digits: 15
  MaxPower, MinPower,   \* max_decimal_power: 309, min_decimal_power: -324
  MinDecExpt,           \* min_dec_expt: -348
  DecExptStep,          \* dec_expt_step: 8
  SoftPow10,            \* soft_pow10, the cached powers
  ExactPow10            \* The table of soft_float_exact_pow10

Word == 2^WordBits

ASSUME WidthAssumption ==
  /\ WordBits % 2 = 0 /\ 10^(DecimalDig + 1) < Word /\ 10^WordDigits10 < Word
  /\ MantDig < WordBits /\ 10^(ExactIntDigits - 1) <= 2^MantDig
  /\ 2^MantDig < 10^(DecimalDig - 1)
  /\ MinDecExpt % DecExptStep = 0 /\ DecExptStep = Len(ExactPow10) + 1

Infinite == [f |-> -1, e |-> 0]

-----------------------------------------------------------------------------
(* Rounding by the machine.                                                *)

(* The magnitude of a format nearest to num / den, the even one of two: what *)
(* C gives for a quotient of exact numbers, and for a conversion.          *)
Nearest(num, den, mantDig, minExpt, maxExpt) ==
  LET Num(e) == IF e < 0 THEN num * 2^(-e) ELSE num
      Den(e) == IF e > 0 THEN den * 2^e ELSE den
      fitting == {e \in minExpt..maxExpt : Num(e) \div Den(e) < 2^mantDig}
  IN  IF fitting = {}
      THEN Infinite
      ELSE LET e == CHOOSE e \in fitting : \A g \in fitting : e <= g
               whole == Num(e) \div Den(e)
               rest == 2 * (Num(e) % Den(e))
               f == IF rest > Den(e) \/ (rest = Den(e) /\ whole % 2 = 1)
                    THEN whole + 1 ELSE whole
           IN  CASE f < 2^mantDig -> [f |-> f, e |-> e]
                 [] f = 2^mantDig /\ e < maxExpt -> [f |-> f \div 2, e |-> e + 1]
                 [] OTHER -> Infinite

NearestDouble(num, den) == Nearest(num, den, MantDig, SubnormalExpt, MaxExpt)

(* A decimal, significand * 10^expt.                                       *)
NearestDecimal(significand, expt) ==
  IF expt < 0
  THEN NearestDouble(significand, 10^(-expt))
  ELSE NearestDouble(significand * 10^expt, 1)

(* nextafter, upwards.                                                     *)
NextAfter(v) ==
  CASE v = Infinite -> v
    [] v # Infinite /\ v.f + 1 < 2^MantDig -> [v EXCEPT !.f = @ + 1]
    [] v.f + 1 = 2^MantDig /\ v.e < MaxExpt -> [f |-> 2^(MantDig - 1), e |-> v.e + 1]
    [] OTHER -> Infinite

(* soft_float_to_double, by ldexp.                                         *)
soft_float_to_double(v) ==
  IF v.e < 0 THEN NearestDouble(v.f, 2^(-v.e)) ELSE NearestDouble(v.f * 2^v.e, 1)

-----------------------------------------------------------------------------
(* soft_float.c *)

(* exess_clz64 of a number that is not 0.                                  *)
LeadingZeros(f) == CHOOSE n \in 0..(WordBits - 1) : f * 2^n \in (Word \div 2)..(Word - 1)

soft_float_normalize(v) ==
  LET amount == LeadingZeros(v.f) IN [f |-> v.f * 2^amount, e |-> v.e - amount]

(* The upper word of the product, by halves of words, rounded.             *)
soft_float_multiply(l, r) ==
  LET half == 2^(WordBits \div 2)
      l0 == l.f \div half
      l1 == l.f % half
      r0 == r.f \div half
      r1 == r.f % half
      mid == (l1 * r1) \div half + ((l0 * r1) % half) + ((l1 * r0) % half) + half \div 2
  IN  [f |-> l0 * r0 + (l0 * r1) \div half + (l1 * r0) \div half + mid \div half,
       e |-> l.e + r.e + WordBits]

(* The cached power with an exponent not greater than another.             *)
PowerIndex(expt) == (expt - MinDecExpt) \div DecExptStep
PowerUnder(expt) == MinDecExpt + PowerIndex(expt) * DecExptStep
soft_float_pow10_under(expt) == SoftPow10[PowerIndex(expt) + 1]

-----------------------------------------------------------------------------
(* strtod.c *)

LgDenom == 3
HalfUlp == 4

product_error(lerror, rerror) ==
  lerror + rerror + (lerror * rerror) \div (Word \div 2) + HalfUlp

(* normalize: the error is shifted as the significand is.                  *)
NormalizedError(v, error) == error * 2^LeadingZeros(v.f)

(* The guess, and whether it is known to be correct.                       *)
Guess(v, error) ==
  LET realMagnitude == WordBits + v.e - SubnormalExpt
      significant == CASE realMagnitude < 0 -> 0
                       [] realMagnitude > MantDig -> MantDig
                       [] OTHER -> realMagnitude
      extra == WordBits - significant
      amount == IF extra + LgDenom >= WordBits THEN extra + LgDenom - (WordBits - 1) ELSE 0
      f == v.f \div 2^amount
      slack == IF amount = 0
               THEN error
               ELSE product_error(error \div 2^amount + 1, HalfUlp)
      bits == extra - amount
      extraBits == ((f % 2^bits) * 2^LgDenom) % Word
      middle == 2^(bits - 1 + LgDenom) % Word
      low == (middle - slack) % Word
      high == (middle + slack) % Word
  IN  [f |-> f \div 2^bits + (IF extraBits >= high THEN 1 ELSE 0),
       e |-> v.e + extra,
       exact |-> extraBits <= low \/ extraBits >= high]

(* Mistake: the rounding of the cached power is not counted.               *)
SftodWithoutCacheError(significand, expt, nDigits) ==
  LET power == PowerUnder(expt)
      input == soft_float_normalize([f |-> significand, e |-> 0])
      fixed == IF expt = power
               THEN input
               ELSE soft_float_multiply(input, ExactPow10[expt - power])
      product == soft_float_multiply(fixed, soft_float_pow10_under(expt))
  IN  Guess(soft_float_normalize(product), 0)

(* The significand multiplied by a cached power and, when that is not the  *)
(* one needed, by an exact power first, with the error this has at most.   *)
sftod(significand, expt, nDigits) ==
  LET power == PowerUnder(expt)
      input == soft_float_normalize([f |-> significand, e |-> 0])
      fixed == IF expt = power
               THEN input
               ELSE soft_float_multiply(input, ExactPow10[expt - power])
      error == IF expt - power > WordDigits10 - nDigits THEN HalfUlp ELSE 0
      product == soft_float_multiply(fixed, soft_float_pow10_under(expt))
  IN  Guess(soft_float_normalize(product),
            NormalizedError(product, product_error(error, HalfUlp)))

(* Whether significand * 10^expt is above the middle between a guess and   *)
(* its successor, 0 for neither and -1 for below.                          *)
compare_buffer(significand, expt, guess) ==
  LET Scale(n, power, base) == IF power > 0 THEN n * base^power ELSE n
      buf == Scale(Scale(significand, expt, 10), -(guess.e - 1), 2)
      upper == Scale(Scale(2 * guess.f + 1, -expt, 10), guess.e - 1, 2)
  IN  CASE buf < upper -> -1
        [] buf = upper -> 0
        [] buf > upper -> 1

(* decimal_to_double, of a number that is not 0, without its sign.         *)
decimal_to_double(significand, expt, nDigits) ==
  LET power == nDigits + expt
      guess == sftod(significand, expt, nDigits)
      cmp == compare_buffer(significand, expt, guess)
      g == soft_float_to_double([f |-> guess.f, e |-> guess.e])
  IN  IF power > MaxPower THEN Infinite
      ELSE IF power < MinPower THEN [f |-> 0, e |-> SubnormalExpt]
      ELSE IF nDigits < ExactIntDigits /\ expt < ExactPowers /\ -expt < ExactPowers
      THEN NearestDecimal(significand, expt)
      ELSE IF guess.exact \/ cmp < 0 \/ (cmp = 0 /\ guess.f % 2 = 0)
      THEN g
      ELSE NextAfter(g)

=============================================================================
