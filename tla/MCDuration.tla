----------------------------- MODULE MCDuration -----------------------------
(***************************************************************************)
(* Values for the constants of Duration: numbers on both sides of what a   *)
(* field and a sum of fields can hold, and durations with every            *)
(* combination of fields.                                                  *)
(***************************************************************************)
EXTENDS Duration

MCIntMax == 2147483647

(* 178956970 years and 24855 days are the most that fit alone.             *)
MCNumbers == {7, 24855, 178956970, MCIntMax}

MCFractions == {500000000}

Parts(a, b) == {a, -a, b, -b, 0}

MCDurations ==
  [months: Parts(1, 25) \cup {MCIntMax, MCIntMax - 1, -MCIntMax, -MCIntMax - 1},
   seconds: Parts(59, 86400) \cup Parts(7200, 90061)
              \cup {MCIntMax, MCIntMax - 1, -MCIntMax, -MCIntMax - 1},
   nanoseconds: Parts(1, 999999999)]

=============================================================================
