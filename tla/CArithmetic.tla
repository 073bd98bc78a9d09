---------------------------- MODULE CArithmetic ----------------------------
(***************************************************************************)
(* The integer division of C, which rounds towards zero where TLA+ rounds  *)
(* down.  Divisors are positive wherever exess divides signed numbers.     *)
(***************************************************************************)
EXTENDS Integers

CDiv(a, b) == IF a >= 0 THEN a \div b ELSE (a + b - 1) \div b

CRem(a, b) == a - b * CDiv(a, b)

=============================================================================
