--------------------------- MODULE NaturalNumber ---------------------------
(***************************************************************************)
(* What src/bigint.c promises: a client holds two natural numbers, x and   *)
(* y, and each call replaces x by the result of its operation in one step. *)
(* Nothing is said of digits, carries or lengths.                          *)
(***************************************************************************)
EXTENDS Powers

CONSTANTS
  Initial,            \* The numbers the client starts from
  Calls               \* The calls it may make: an operation and an argument

VARIABLES
  x, y,               \* The two numbers
  call,               \* The call not yet answered
  quotient            \* What the last division returned, otherwise 0

vars == <<x, y, call, quotient>>

NoCall == [op |-> "none", arg |-> 0]

Init ==
  /\ x \in Initial
  /\ y \in Initial
  /\ call = NoCall
  /\ quotient = 0

Result ==
  CASE call.op = "zero" -> 0
    [] call.op = "set" -> y
    [] call.op \in {"set_u32", "set_u64", "set_decimal_string"} -> call.arg
    [] call.op = "set_pow10" -> Power(10, call.arg)
    [] call.op = "shift_left" -> x * Power(2, call.arg)
    [] call.op \in {"multiply_u32", "multiply_u64"} -> x * call.arg
    [] call.op = "multiply_pow10" -> x * Power(10, call.arg)
    [] call.op = "add_u32" -> x + call.arg
    [] call.op = "add" -> x + y
    [] call.op = "subtract" -> x - y
    [] call.op = "subtract_left_shifted" -> x - y * Power(2, call.arg)
    [] call.op = "divmod" -> x % y

Request ==
  /\ call = NoCall
  /\ call' \in Calls
  /\ quotient' = 0
  /\ UNCHANGED <<x, y>>

Reply ==
  /\ call # NoCall
  /\ x' = Result
  /\ quotient' = IF call.op = "divmod" THEN x \div y ELSE 0
  /\ call' = NoCall
  /\ UNCHANGED y

(* The client works on either of its numbers.                              *)
Exchange ==
  /\ call = NoCall
  /\ x' = y
  /\ y' = x
  /\ UNCHANGED <<call, quotient>>

Next == Request \/ Reply \/ Exchange

(* Every call is answered.                                                 *)
Spec == Init /\ [][Next]_vars /\ WF_vars(Reply)

=============================================================================
