------------------------------ MODULE MCBigint ------------------------------
(***************************************************************************)
(* Values for the constants of Bigint: three digits of four bits, with the *)
(* powers of 5 and 10 that fit in one and in two of them, and numbers with *)
(* digits of zeros and of ones in every place.                             *)
(***************************************************************************)
EXTENDS Bigint

MCInitial == {0, 1, 15, 16, 137, 240, 255, 256, 2048, 4080, 4095}

MCCalls ==
  {Primitive(op, 0) : op \in {"zero", "set", "add", "subtract", "divmod"}}
    \cup {Primitive("set_u32", v) : v \in {0, 15}}
    \cup {Primitive("set_u64", v) : v \in {0, 15, 240}}
    \cup {Primitive("set_decimal_string", v) : v \in {7, 30, 1049, 4000}}
    \cup {Primitive("set_pow10", e) : e \in 0..2}
    \cup {Primitive("shift_left", k) : k \in {0, 1, 3, 4, 7, 8}}
    \cup {Primitive("multiply_u32", f) : f \in {0, 1, 10, 15}}
    \cup {Primitive("multiply_u64", f) : f \in {0, 1, 16, 31, 255}}
    \cup {Primitive("multiply_pow10", e) : e \in 0..2}
    \cup {Primitive("add_u32", v) : v \in {0, 1, 15}}
    \cup {Primitive("subtract_left_shifted", k) : k \in {1, 4, 5}}

=============================================================================
