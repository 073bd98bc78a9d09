------------------------------ MODULE MCWriters ------------------------------
(***************************************************************************)
(* Values for the constants of Writers: for each datatype its shortest and *)
(* longest strings, and those with every combination of optional parts.    *)
(***************************************************************************)
EXTENDS Writers

Integers == [kind: {"integer"}, negative: BOOLEAN, digits: {1, 3, 19}, lowest: BOOLEAN]
              \cup [kind: {"integer"}, negative: {FALSE}, digits: {20}, lowest: {FALSE}]

Decimals ==
  [kind: {"decimal"}, class: Classes, digits: {1, 3}, expt: {-4, -1, 0, 1, 2, 5}]

Scientifics ==
  { v \in [kind: {"double", "float"}, class: Classes, digits: {1, 2, 9, 17},
           expt: {-1, 1}, exptDigits: 1..3] :
      v.kind = "float" => v.digits <= 9 /\ v.exptDigits <= 2 }

(* Digits of the fields that are not zero.                                 *)
Durations ==
  [kind: {"duration"}, valid: {TRUE}, zero: {FALSE}, negative: BOOLEAN,
   date: {<<>>, <<1>>, <<9, 1>>, <<9, 1, 5>>}, time: {<<>>, <<1>>, <<2, 2>>},
   second: {1, 2}, fraction: {0, 1, 9}]
  \cup
  [kind: {"duration"}, valid: {TRUE}, zero: {FALSE}, negative: {FALSE},
   date: {<<1>>, <<1, 2, 5>>}, time: {<<>>, <<2>>}, second: {0}, fraction: {0}]
  \cup
  [kind: {"duration"}, valid: BOOLEAN, zero: {TRUE}, negative: {FALSE},
   date: {<<>>}, time: {<<>>}, second: {0}, fraction: {0}]

DateTimes ==
  { v \in [kind: {"date", "time", "dateTime"}, valid: BOOLEAN, negative: BOOLEAN,
           yearDigits: {1, 4, 5}, fraction: {0, 9},
           zone: {"local", "utc", "offset", "bad"}] :
      ~v.valid => v.zone = "local" /\ v.yearDigits = 4 }

MCValues ==
  Integers \cup Decimals \cup Scientifics \cup Durations \cup DateTimes
    \cup [kind: {"boolean"}, true: BOOLEAN]
    \cup [kind: {"hex", "base64"}, size: 0..4]
    \cup {[kind |-> "nothing"]}

=============================================================================
