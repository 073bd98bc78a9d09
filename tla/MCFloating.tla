----------------------------- MODULE MCFloating -----------------------------
(* Floating with a double of 6 bits in words of 14, and a float of 2 bits.  *)
(* The numbers of digits are in the proportion of the real ones: 3 digits   *)
(* show every double, 2 every float, and a word holds any 4.                *)
EXTENDS Floating

MCSubnormalExpt == -10
MCFloatSubnormalExpt == -5
MCMinPower == -4
MCMinDecExpt == -9

MCSoftPow10 ==
  <<[f |-> 8796, e |-> -43], [f |-> 8590, e |-> -33], [f |-> 8389, e |-> -23],
    [f |-> 8192, e |-> -13], [f |-> 16000, e |-> -4]>>

MCExactPow10 == <<[f |-> 10240, e |-> -10], [f |-> 12800, e |-> -7]>>

Magnitudes ==
  {[f |-> f, e |-> SubnormalExpt] : f \in 1..(2^MantDig - 1)}
  \cup [f : 2^(MantDig - 1)..(2^MantDig - 1), e : (SubnormalExpt + 1)..MaxExpt]

Specials == {Special(k) : k \in Kinds \ {"NAN", "NEGATIVE", "POSITIVE"}}

Doubles ==
  Specials \cup {Signed(FALSE, v) : v \in Magnitudes}
  \cup {Signed(TRUE, v) : v \in {w \in Magnitudes : w.f \in {1, 32, 33, 63}}}

FloatsOf == {ToFloat(d) : d \in Doubles}

MCNumbers ==
  {[format |-> form, number |-> d] : form \in {"decimal", "double"}, d \in Doubles}
  \cup {[format |-> "float", number |-> d] : d \in FloatsOf}

(* Every text of a few characters.                                         *)
Short == UNION {[1..n -> {0, 9, Point, Minus, Exponent}] : n \in 0..4}

Long == {<<Plus, 0, 0, 1, 2, 3, 4, 5>>, <<1, 2, Point, 3, 4, 5, 6>>, <<0, Point, 0, 9, 9, 9, 9, 9>>,
         <<Space, Space, Minus, 1, Point, 5>>, <<9, 9, 9, 9, 9, Exponent, Minus, 3>>,
         <<1, Exponent, Plus, 2>>, <<1, Exponent, Plus>>, <<7, Exponent, 2, 5, 7>>,
         <<7, Exponent, Minus, 2, 5, 7>>, <<Plus, INF>>, <<INF>>, <<Minus, INF>>, <<NaN>>,
         <<Space, INF, 0>>, <<Minus, NaN>>, <<1, Exponent, 9>>, <<1, Exponent, Minus, 9>>}

FourDigits(n) == <<n \div 1000, (n \div 100) % 10, (n \div 10) % 10, n % 10>>

(* The numbers of four digits next to the middle between v and the next.   *)
Middle(v) ==
  LET Tenfold(k) == IF v.e > 0
                    THEN (2 * v.f + 1) * 2^(v.e - 1) * 10^k
                    ELSE ((2 * v.f + 1) * 10^k) \div 2^(1 - v.e)
      k == CHOOSE k \in 0..9 : Tenfold(k) >= 1000 /\ (k > 0 => Tenfold(k - 1) < 1000)
  IN  {FourDigits(n) \o <<Exponent, Minus, k>> : n \in {Tenfold(k), Tenfold(k) + 1}}

(* Middles below the smallest number, beyond the largest, and of floats.   *)
Tiny == [f : {0}, e : (SubnormalExpt - 5)..SubnormalExpt]
Huge == [f : 2^(MantDig - 1)..(2^MantDig - 2), e : {MaxExpt + 1}]
FloatMagnitudes ==
  [f : 1..(2^FloatMantDig - 1), e : FloatSubnormalExpt..FloatMaxExpt]

MCTexts ==
  {[format |-> form, text |-> t] : form \in {"decimal", "double", "float"}, t \in Short \cup Long}
  \cup {[format |-> "double", text |-> t] : t \in UNION {Middle(v) : v \in Magnitudes \cup Huge}}
  \cup {[format |-> form, text |-> t] : form \in {"double", "float"},
                                       t \in UNION {Middle(v) : v \in Tiny \cup FloatMagnitudes}}
=============================================================================
