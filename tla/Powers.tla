------------------------------- MODULE Powers -------------------------------
(***************************************************************************)
(* Powers of natural numbers, by repeated multiplication: the definition   *)
(* from which their laws follow.                                           *)
(***************************************************************************)
EXTENDS Integers

Power(b, n) ==
  LET p[k \in Nat] == IF k = 0 THEN 1 ELSE b * p[k - 1]
  IN  p[n]

=============================================================================
