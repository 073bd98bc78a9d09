------------------------------- MODULE Bigint -------------------------------
(***************************************************************************)
(* The big natural numbers of src/bigint.c: an array of digits ("bigits")  *)
(* and a length.  Every operation relies on two things it never checks:    *)
(* the highest digit is not zero, and all digits above the length are.     *)
(*                                                                         *)
(* A client holds two numbers and calls one operation after another on     *)
(* them.  A call is a list of primitive operations still to do, todo, and  *)
(* one iteration of a loop is a step.  BigitBits is 32 and MaxBigits 40 in *)
(* the code; the constants that depend on the width are scaled with it.    *)
(***************************************************************************)
EXTENDS Powers, Sequences

CONSTANTS
  BigitBits,          \* Width of a digit
  MaxBigits,          \* Number of digits in the array
  WordPow5,           \* Exponent of the largest power of 5 in one digit
  HugitPow5,          \* The same, in two
  WordDigits,         \* Number of decimal digits that fit in one digit
  Initial,            \* The natural numbers the client starts from
  Calls,              \* The calls it may make
  MaxCalls            \* Bound on their number

Base == Power(2, BigitBits)

ASSUME WidthAssumption ==
  /\ BigitBits \in Nat \ {0}
  /\ MaxBigits \in Nat \ {0, 1}

ASSUME ScaleAssumption ==
  /\ WordPow5 \in Nat \ {0} /\ Power(5, WordPow5) < Base
  /\ HugitPow5 \in Nat \ {0} /\ Power(5, HugitPow5) < Power(Base, 2)
  /\ WordDigits \in Nat \ {0} /\ Power(10, WordDigits) < Base

(* A call has an argument of the type of the parameter, if it has any.     *)
Typed(c) ==
  \/ c \in [op : {"zero", "set", "add", "subtract", "divmod"}, arg : {0}]
  \/ c \in [op : {"set_u32", "multiply_u32", "add_u32"}, arg : 0..(Base - 1)]
  \/ c \in [op : {"set_u64", "multiply_u64"}, arg : 0..(Power(Base, 2) - 1)]
  \/ c \in [op : {"set_pow10", "set_decimal_string", "shift_left", "multiply_pow10",
                  "subtract_left_shifted"}, arg : Nat]

ASSUME CallsAssumption == \A c \in Calls : Typed(c)

ASSUME InitialAssumption == \A v \in Initial : v \in 0..(Power(Base, MaxBigits) - 1)

-----------------------------------------------------------------------------
(* Numbers.                                                                *)

Indices == 0..(MaxBigits - 1)

Bigits == 0..(Base - 1)

Numbers == [bigits : [Indices -> Bigits], n : 0..MaxBigits]

Zero == [bigits |-> [j \in Indices |-> 0], n |-> 0]

(* set_u32 and set_u64.                                                    *)
SetU64(v) ==
  [bigits |-> [j \in Indices |-> CASE j = 0 -> v % Base
                                   [] j = 1 -> (v \div Base) % Base
                                   [] OTHER -> 0],
   n |-> IF v \div Base > 0 THEN 2 ELSE IF v > 0 THEN 1 ELSE 0]

Clamped(x) == x.n > 0 => x.bigits[x.n - 1] > 0

ZeroAbove(x) == \A j \in Indices : j >= x.n => x.bigits[j] = 0

WellFormed(x) == Clamped(x) /\ ZeroAbove(x)

(* The reference: the natural number that the digits below the n-th stand  *)
(* for, that all below its length do, and back.                            *)
Upto(x, n) ==
  LET v[j \in 0..MaxBigits] ==
        IF j = 0 THEN 0 ELSE v[j - 1] + x.bigits[j - 1] * Power(Base, j - 1)
  IN  v[n]

Value(x) == Upto(x, x.n)

(* The number of digits that v has in a base.                              *)
IsLength(k, v, base) == v < Power(base, k) /\ (k > 0 => v >= Power(base, k - 1))

OfValue(v) ==
  [bigits |-> [j \in Indices |-> (v \div Power(Base, j)) % Base],
   n |-> CHOOSE k \in 0..MaxBigits : IsLength(k, v, Base)]

(* exess_bigint_left_shifted_bigit_i: the low bits of one digit and the    *)
(* high bits of the one below it, which never overlap.                     *)
LeftShiftedBigit(x, amount, j) ==
  LET low  == j - amount \div BigitBits
      unit == Power(2, amount % BigitBits)
  IN  (IF low >= 0 THEN (x.bigits[low] * unit) % Base ELSE 0)
        + (IF low >= 1 THEN (x.bigits[low - 1] * unit) \div Base ELSE 0)

ShiftedLength(x, amount) ==
  x.n + amount \div BigitBits + (IF amount % BigitBits > 0 THEN 1 ELSE 0)

(* exess_bigint_shift_left before it clamps.  Its loop runs from the top,  *)
(* so that every digit is computed from digits that are still the old.     *)
ShiftLeft(x, amount) ==
  IF amount = 0 \/ x.n = 0
  THEN x
  ELSE [bigits |-> [j \in Indices |-> IF j < ShiftedLength(x, amount)
                                      THEN LeftShiftedBigit(x, amount, j)
                                      ELSE x.bigits[j]],
        n |-> ShiftedLength(x, amount)]

(* The highest index below n at which P holds.                             *)
Highest(n, P(_)) == CHOOSE j \in 0..(n - 1) :
                      P(j) /\ \A k \in (j + 1)..(n - 1) : ~P(k)

(* exess_bigint_compare                                                    *)
Compare(l, r) ==
  LET Differs(j) == l.bigits[j] # r.bigits[j]
  IN  IF l.n < r.n THEN -1
      ELSE IF l.n > r.n THEN 1
      ELSE IF ~\E j \in 0..(l.n - 1) : Differs(j) THEN 0
      ELSE LET j == Highest(l.n, Differs)
           IN  IF l.bigits[j] < r.bigits[j] THEN -1 ELSE 1

(* Mistake: whatever is left is taken as too much for the digits below.    *)
OutOfReachAny(rest) == rest > 0

OutOfReach(rest) == rest > 1

(* exess_bigint_plus_compare_internal: rest[j] is what c is ahead of the   *)
(* sum in the digits from j on, and the first digit from the top where it  *)
(* is negative, or too large for the digits below to make up, decides.     *)
PlusCompareLonger(l, p, c) ==
  LET rest[j \in 0..c.n] ==
        IF j = c.n THEN 0
        ELSE rest[j + 1] * Base + c.bigits[j] - l.bigits[j] - p.bigits[j]
      Decides(j) == rest[j] < 0 \/ OutOfReach(rest[j])
  IN  IF l.n + 1 < c.n THEN -1
      ELSE IF l.n > c.n THEN 1
      ELSE IF p.n < l.n /\ l.n < c.n THEN -1
      ELSE IF \E j \in 0..(c.n - 1) : Decides(j)
           THEN IF rest[Highest(c.n, Decides)] < 0 THEN 1 ELSE -1
      ELSE IF rest[0] > 0 THEN -1 ELSE 0

PlusCompare(l, p, c) ==
  IF l.n < p.n THEN PlusCompareLonger(p, l, c) ELSE PlusCompareLonger(l, p, c)

(* exess_bigint_leading_zeros and exess_clz32.                             *)
LeadingZeros(x) ==
  LET top == x.bigits[x.n - 1]
  IN  BigitBits * (MaxBigits - x.n)
        + (CHOOSE z \in 0..(BigitBits - 1) : IsLength(BigitBits, top * Power(2, z), 2))

-----------------------------------------------------------------------------
VARIABLES
  lhs, rhs,           \* The client's two numbers
  pc,                 \* "idle", "next" or the loop a primitive is in
  called,             \* The call the client made last
  todo,               \* The operations left of it, the current first
  i, carry,           \* Locals of the loops; a borrow is a carry, too
  quotient,           \* Result of divmod so far
  held,               \* lhs as it was when the client made the call
  calls               \* Number of calls made

vars == <<lhs, rhs, pc, called, todo, i, carry, quotient, held, calls>>

Primitive(op, arg) == [op |-> op, arg |-> arg]

NoCall == Primitive("none", 0)

(* exess_bigint_set_decimal_string: as many digits as fit in a word, then  *)
(* the next ones.  The strings have no leading zeros.                      *)
DecimalString(v) ==
  LET digits == CHOOSE d \in 0..(MaxBigits * BigitBits) : IsLength(d, v, 10)
      words  == (digits + WordDigits - 1) \div WordDigits
      End(k) == IF k * WordDigits < digits THEN k * WordDigits ELSE digits
      Scale(k) == Power(10, End(k) - End(k - 1))
      Word(k)  == (v \div Power(10, digits - End(k))) % Scale(k)
  IN  <<Primitive("zero", 0)>>
        \o [k \in 1..(2 * words) |->
             IF k % 2 = 1 THEN Primitive("multiply_u32", Scale((k + 1) \div 2))
                          ELSE Primitive("add_u32", Word(k \div 2))]
        \o <<Primitive("clamp", 0)>>

Times(n, c) == [k \in 1..n |-> c]

(* exess_bigint_multiply_pow10, of a number that is not zero.              *)
MultiplyPow10(exponent) ==
  LET left == exponent % HugitPow5
  IN  Times(exponent \div HugitPow5, Primitive("multiply_u64", Power(5, HugitPow5)))
        \o Times(left \div WordPow5, Primitive("multiply_u32", Power(5, WordPow5)))
        \o <<Primitive("multiply_u32", Power(5, left % WordPow5)),
             Primitive("shift_left", exponent)>>

(* The assertions of the functions that more than one caller has to meet.  *)
Shiftable(x, amount) ==
  amount = 0 \/ x.n = 0 \/ x.n + amount \div BigitBits < MaxBigits

(* Of zero, any shift meets the assertions; the loop is over the digits of *)
(* the shifted number all the same.                                        *)
Subtractable(x, amount) ==
  /\ Shiftable(rhs, amount)
  /\ ShiftedLength(rhs, amount) <= MaxBigits
  /\ Value(rhs) * Power(2, amount) <= Value(x)

(* What the callers see to: the assertions, and results that fit, with a   *)
(* digit to spare where a shift or a carry may need it.                    *)
Fits(v) == v < Power(Base, MaxBigits)

FitsWithRoom(v) == v < Power(Base, MaxBigits - 1)

Allowed(c, x) ==
  CASE c.op \in {"zero", "set", "set_u32", "set_u64"} -> TRUE
    [] c.op = "set_pow10" -> FitsWithRoom(Power(10, c.arg))
    [] c.op = "set_decimal_string" -> Fits(c.arg)
    [] c.op = "shift_left" -> Shiftable(x, c.arg)
    [] c.op \in {"multiply_u32", "multiply_u64"} -> Fits(Value(x) * c.arg)
    [] c.op = "multiply_pow10" -> FitsWithRoom(Value(x) * Power(10, c.arg))
    [] c.op = "add_u32" -> Fits(Value(x) + c.arg)
    [] c.op = "add" -> x.n < MaxBigits /\ rhs.n < MaxBigits
    [] c.op = "subtract" -> Subtractable(x, 0)
    [] c.op = "subtract_left_shifted" -> Subtractable(x, c.arg)
    [] c.op = "divmod" -> /\ rhs.n > 0
                          /\ x.n < MaxBigits
                          /\ Value(x) \div Value(rhs) < Base

-----------------------------------------------------------------------------
Init ==
  /\ lhs \in {OfValue(v) : v \in Initial}
  /\ rhs \in {OfValue(v) : v \in Initial}
  /\ pc = "idle"
  /\ called = NoCall
  /\ todo = <<>>
  /\ i = 0
  /\ carry = 0
  /\ quotient = 0
  /\ held = lhs
  /\ calls = 0

Call ==
  /\ pc = "idle"
  /\ calls < MaxCalls
  /\ called' \in Calls
  /\ Allowed(called', lhs)
  /\ todo' = <<called'>>
  /\ pc' = "next"
  /\ quotient' = 0
  /\ calls' = calls + 1
  /\ UNCHANGED <<lhs, rhs, i, carry, held>>

Exchange ==
  /\ pc = "idle"
  /\ lhs' = rhs
  /\ rhs' = lhs
  /\ held' = rhs
  /\ UNCHANGED <<pc, called, todo, i, carry, quotient, calls>>

Return ==
  /\ pc = "next"
  /\ todo = <<>>
  /\ pc' = "idle"
  /\ held' = lhs
  /\ UNCHANGED <<lhs, rhs, called, todo, i, carry, quotient, calls>>

-----------------------------------------------------------------------------
(* Primitives.  Arg is the argument of the current one.                    *)

Doing(op) == pc = "next" /\ todo # <<>> /\ Head(todo).op = op

Arg == Head(todo).arg

(* The current one returns, having set lhs.                                *)
Finish(x) ==
  /\ lhs' = x
  /\ pc' = "next"
  /\ todo' = Tail(todo)
  /\ i' = 0
  /\ carry' = 0
  /\ UNCHANGED <<rhs, called, quotient, held, calls>>

(* The current one goes on in a loop, or in the next iteration of one.     *)
Go(site, x, index, c) ==
  /\ lhs' = x
  /\ pc' = site
  /\ i' = index
  /\ carry' = c
  /\ UNCHANGED <<rhs, called, todo, quotient, held, calls>>

Set ==
  \/ Doing("zero") /\ Finish(Zero)
  \/ Doing("set") /\ Finish(rhs)
  \/ Doing("set_u32") /\ Finish(SetU64(Arg))
  \/ Doing("set_u64") /\ Finish(SetU64(Arg))

(* The current one is done by others.                                      *)
DoInstead(ops) ==
  /\ todo' = ops \o Tail(todo)
  /\ UNCHANGED <<lhs, rhs, pc, called, i, carry, quotient, held, calls>>

SetPow10 ==
  /\ Doing("set_pow10")
  /\ DoInstead(<<Primitive("set_u32", 1), Primitive("multiply_pow10", Arg)>>)

SetDecimalString ==
  /\ Doing("set_decimal_string")
  /\ DoInstead(DecimalString(Arg))

CallMultiplyPow10 ==
  /\ Doing("multiply_pow10")
  /\ DoInstead(IF Arg = 0 \/ lhs.n = 0 THEN <<>> ELSE MultiplyPow10(Arg))

CallShiftLeft ==
  /\ Doing("shift_left")
  /\ Go("clamp", ShiftLeft(lhs, Arg), 0, 0)

CallClamp ==
  /\ Doing("clamp")
  /\ Go("clamp", lhs, 0, 0)

ClampBigit ==
  /\ pc = "clamp"
  /\ ~Clamped(lhs)
  /\ Go("clamp", [lhs EXCEPT !.n = lhs.n - 1], 0, 0)

EndClamp ==
  /\ pc = "clamp"
  /\ Clamped(lhs)
  /\ Finish(lhs)

(* exess_bigint_multiply_u32 and exess_bigint_multiply_u64: the same loop, *)
(* with a high word of zero in the former.                                 *)
CallMultiply ==
  /\ Doing("multiply_u32") \/ Doing("multiply_u64")
  /\ \/ Arg = 0 /\ Finish(Zero)
     \/ Arg = 1 /\ Finish(lhs)
     \/ Arg > 1 /\ Go("multiply", lhs, 0, 0)

(* Mistake: the high word of the carry is lost.                            *)
MultiplyCarryLow(low, high, c) == high + low \div Base

MultiplyCarry(low, high, c) == (high + low \div Base + c \div Base) % Power(Base, 2)

MultiplyBigit ==
  /\ pc = "multiply"
  /\ i < lhs.n
  /\ LET low  == (Arg % Base) * lhs.bigits[i] + (carry % Base)
         high == (Arg \div Base) * lhs.bigits[i]
     IN  Go("multiply", [lhs EXCEPT !.bigits[i] = low % Base], i + 1,
            MultiplyCarry(low, high, carry))

EndMultiply ==
  /\ pc = "multiply"
  /\ i >= lhs.n
  /\ Go("push", lhs, 0, carry)

PushCarry ==
  /\ pc = "push"
  /\ carry > 0
  /\ Go("push", [bigits |-> [lhs.bigits EXCEPT ![lhs.n] = carry % Base],
                 n |-> lhs.n + 1], 0, carry \div Base)

EndPush ==
  /\ pc = "push"
  /\ carry = 0
  /\ Finish(lhs)

Longer(x, n) == [x EXCEPT !.n = IF n > x.n THEN n ELSE x.n]

(* exess_bigint_add_u32, to its call of exess_bigint_add_carry.            *)
CallAddU32 ==
  /\ Doing("add_u32")
  /\ IF lhs.n = 0
     THEN Finish(SetU64(Arg))
     ELSE LET sum == lhs.bigits[0] + Arg
          IN  Go("carry", [lhs EXCEPT !.bigits[0] = sum % Base], 1, sum \div Base)

CallAdd ==
  /\ Doing("add")
  /\ Go("add", lhs, 0, 0)

AddBigit ==
  /\ pc = "add"
  /\ i < rhs.n
  /\ LET sum == lhs.bigits[i] + rhs.bigits[i] + carry
     IN  Go("add", [lhs EXCEPT !.bigits[i] = sum % Base], i + 1, sum \div Base)

EndAdd ==
  /\ pc = "add"
  /\ i >= rhs.n
  /\ Go("carry", lhs, i, carry)

AddCarry ==
  /\ pc = "carry"
  /\ carry > 0
  /\ LET sum == lhs.bigits[i] + carry
     IN  Go("carry", [lhs EXCEPT !.bigits[i] = sum % Base], i + 1, sum \div Base)

EndCarry ==
  /\ pc = "carry"
  /\ carry = 0
  /\ Finish(Longer(lhs, i))

(* exess_bigint_subtract is exess_bigint_subtract_left_shifted by nothing. *)
CallSubtract ==
  /\ Doing("subtract") \/ Doing("subtract_left_shifted")
  /\ Go("subtract", lhs, 0, 0)

SubtractBigit ==
  /\ pc = "subtract"
  /\ i < ShiftedLength(rhs, Arg)
  /\ LET l == lhs.bigits[i]
         r == LeftShiftedBigit(rhs, Arg, i)
     IN  Go("subtract", [lhs EXCEPT !.bigits[i] = (l - r - carry) % Base], i + 1,
            IF l < r \/ (l = r /\ carry > 0) THEN 1 ELSE 0)

EndSubtract ==
  /\ pc = "subtract"
  /\ i >= ShiftedLength(rhs, Arg)
  /\ Go("borrow", lhs, i, carry)

SubtractBorrow ==
  /\ pc = "borrow"
  /\ carry > 0
  /\ Go("borrow", [lhs EXCEPT !.bigits[i] = (lhs.bigits[i] - carry) % Base], i + 1,
        IF lhs.bigits[i] = 0 THEN 1 ELSE 0)

(* Mistake: the digits that cancelled are still counted.                   *)
EndBorrowUnclamped ==
  /\ pc = "borrow"
  /\ carry = 0
  /\ Finish(lhs)

EndBorrow ==
  /\ pc = "borrow"
  /\ carry = 0
  /\ Go("clamp", lhs, 0, 0)

-----------------------------------------------------------------------------
(* exess_bigint_divmod: the multiples of rhs by powers of two are taken    *)
(* away until less than rhs is left.                                       *)

(* Mistake: the power that makes both as long, which may be too large.     *)
DivmodShiftFull == LeadingZeros(rhs) - LeadingZeros(lhs)

DivmodShift == LeadingZeros(rhs) - LeadingZeros(lhs) - 1

DivmodByWord == Compare(lhs, rhs) > 0 /\ lhs.n = 1

SubtractFirst(c, ops) ==
  /\ todo' = <<c>> \o ops
  /\ UNCHANGED <<lhs, rhs, pc, called, i, carry, held, calls>>

DivmodLess ==
  /\ Doing("divmod")
  /\ Compare(lhs, rhs) < 0
  /\ Finish(lhs)

DivmodWord ==
  /\ Doing("divmod")
  /\ DivmodByWord
  /\ LET rest == lhs.bigits[0] % rhs.bigits[0]
     IN  lhs' = [bigits |-> [lhs.bigits EXCEPT ![0] = rest],
                 n |-> IF rest = 0 THEN 0 ELSE 1]
  /\ quotient' = quotient + lhs.bigits[0] \div rhs.bigits[0]
  /\ todo' = Tail(todo)
  /\ UNCHANGED <<rhs, pc, called, i, carry, held, calls>>

DivmodSubtractShifted ==
  /\ Doing("divmod")
  /\ Compare(lhs, rhs) >= 0
  /\ ~DivmodByWord
  /\ LeadingZeros(lhs) < LeadingZeros(rhs)
  /\ quotient' = quotient + Power(2, DivmodShift)
  /\ SubtractFirst(Primitive("subtract_left_shifted", DivmodShift), todo)

DivmodSubtractLast ==
  /\ Doing("divmod")
  /\ Compare(lhs, rhs) >= 0
  /\ ~DivmodByWord
  /\ LeadingZeros(lhs) = LeadingZeros(rhs)
  /\ quotient' = quotient + 1
  /\ SubtractFirst(Primitive("subtract", 0), Tail(todo))

-----------------------------------------------------------------------------
Step ==
  \/ Return \/ Set \/ SetPow10 \/ SetDecimalString
  \/ CallMultiplyPow10 \/ CallMultiply \/ MultiplyBigit \/ EndMultiply
  \/ PushCarry \/ EndPush
  \/ CallShiftLeft \/ CallClamp \/ ClampBigit \/ EndClamp
  \/ CallAddU32 \/ CallAdd \/ AddBigit \/ EndAdd \/ AddCarry \/ EndCarry
  \/ CallSubtract \/ SubtractBigit \/ EndSubtract
  \/ SubtractBorrow \/ EndBorrow
  \/ DivmodLess \/ DivmodWord \/ DivmodSubtractShifted \/ DivmodSubtractLast

Next == Call \/ Exchange \/ Step

(* A call, once made, runs to its end; the client need not call.           *)
Spec == Init /\ [][Next]_vars /\ WF_vars(Step)

-----------------------------------------------------------------------------
Loops == {"multiply", "push", "clamp", "add", "carry", "subtract", "borrow"}

(* Types: no digit is ever wider than its word, and no carry than two.     *)
TypeOK ==
  /\ lhs \in Numbers
  /\ rhs \in Numbers
  /\ held \in Numbers
  /\ pc \in {"idle", "next"} \cup Loops
  /\ pc \in Loops => todo # <<>>
  /\ i \in Nat
  /\ carry \in 0..(Power(Base, 2) - 1)
  /\ quotient \in Nat
  /\ calls \in Nat

(* Between operations, the highest digit of a number is not zero and all   *)
(* digits above its length are: shifts, additions and comparisons of       *)
(* numbers of unlike lengths read those digits.                            *)
NumbersWellFormed ==
  /\ TypeOK
  /\ WellFormed(rhs)
  /\ pc \in {"idle", "next"} => WellFormed(lhs)

(* The assertions of the functions that exess calls by itself, on the way  *)
(* through an operation whose own assertions held, and the bounds of the   *)
(* array, which carries and borrows do not check.                          *)
AssertionsHold ==
  /\ Doing("shift_left") => Shiftable(lhs, Arg)
  /\ Doing("subtract") => Subtractable(lhs, 0)
  /\ Doing("subtract_left_shifted") => Subtractable(lhs, Arg)
  /\ pc = "push" => (carry > 0 => lhs.n < MaxBigits)
  /\ pc \in {"carry", "borrow"} => (carry > 0 => i < MaxBigits)

SignOf(d) == IF d < 0 THEN -1 ELSE IF d > 0 THEN 1 ELSE 0

(* Numbers at and next to the sum of the two.                              *)
AroundSum ==
  LET sum == Value(lhs) + Value(rhs)
  IN  {v \in (sum - 1)..(sum + 1) : v >= 0 /\ Fits(v)}

PlusCompareAgrees(v) ==
  PlusCompare(lhs, rhs, OfValue(v)) = SignOf(Value(lhs) + Value(rhs) - v)

(* No carry makes the sum of operands of unlike lengths longer than both.  *)
SumInLength ==
  \/ lhs.n = rhs.n
  \/ Value(lhs) + Value(rhs) < Power(Base, IF lhs.n > rhs.n THEN lhs.n ELSE rhs.n)

(* Two numbers compare as the natural numbers they stand for, and so does  *)
(* their sum with a third, although it is never computed: unless it is     *)
(* longer than the operands, which a comparison of lengths overlooks.      *)
ComparisonsExact ==
  pc = "idle" =>
    /\ Compare(lhs, rhs) = SignOf(Value(lhs) - Value(rhs))
    /\ SumInLength => \A v \in AroundSum : PlusCompareAgrees(v)

Natural == INSTANCE NaturalNumber WITH
  x <- Value(held),
  y <- Value(rhs),
  call <- IF pc = "idle" THEN NoCall ELSE called,
  quotient <- IF pc = "idle" THEN quotient ELSE 0

(* Every operation on digits is the operation on natural numbers, and      *)
(* returns.                                                                *)
ImplementsNaturals == Natural!Spec

=============================================================================
