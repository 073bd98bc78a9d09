----------------------------- MODULE MCCoercion -----------------------------
(* A small instance of Coercion: the limits are in the order of the real    *)
(* ones, each one less than a power of two, and the values start around     *)
(* every limit.                                                             *)
EXTENDS Coercion

MCByteMax == 1
MCShortMax == 3
MCMaxFloatInt == 15
MCIntMax == 31
MCMaxDoubleInt == 127
MCLongMax == 255

(* Integers up to a power of two, then every second one, and small         *)
(* fractions.                                                              *)
Grid(limit, beyond) ==
  Exact(limit)
  \cup {Number(2 * n, 0) : n \in (-beyond \div 2)..(beyond \div 2)}

Fractions(limit, parts) ==
  {Number(n, q) : n \in (-limit)..(limit - 1), q \in parts}

MCFloats == Grid(MCMaxFloatInt + 1, 32) \cup Fractions(2, {2})
MCDoubles == Grid(MCMaxDoubleInt + 1, 256) \cup Fractions(16, 0..3) \cup Fractions(128, {2})

(* The integers at the limits and next to them.                            *)
Limits == {MCByteMax, MCShortMax, MCMaxFloatInt, MCIntMax, MCMaxDoubleInt, MCLongMax,
           2 * MCByteMax + 1, 2 * MCShortMax + 1, 2 * MCIntMax + 1, 2 * MCLongMax + 1}
NearLimits == UNION {{l - 1, l, l + 1, -l - 1, -l, -l - 2} : l \in Limits} \cup -2..2

MCHeld ==
  UNION {{[type |-> t, value |-> Number(n, 0)] :
            n \in NearLimits \cap Lowest(t)..Highest(t)} :
         t \in {"integer", "positiveInteger"}}
  \cup {[type |-> "double", value |-> v] :
          v \in Specials}
  \cup {[type |-> "double", value |-> v] :
          v \in {Number(n, q) : n \in {-128, -17, -16, -3, -2, -1, 0, 1, 2, 15, 16, 127},
                           q \in 0..3} \cap MCDoubles}
  \cup {[type |-> "float", value |-> v] : v \in Fractions(2, {2})}
  \cup {[type |-> "hexBinary", value |-> Blob(n)] : n \in 0..3}
  \cup {[type |-> "dateTime", value |-> Moment(2, 3, -1)],
        [type |-> "duration", value |-> Moment(0, 0, 0)],
        [type |-> "nothing", value |-> Moment(0, 0, 0)]}

MCSlacks == {-1, 0, 1}
=============================================================================
