---------------------------- MODULE MCComparison ----------------------------
(***************************************************************************)
(* Values for the constants of Comparison: dateTimes a zone apart, within  *)
(* a year, on both sides of its end and at the limits of the type, and     *)
(* durations around the lengths that some months, quarters and years have. *)
(***************************************************************************)
EXTENDS Comparison

At(y, mo, d, z, h, mi, s, n) ==
  [year |-> y, month |-> mo, day |-> d, zone |-> z,
   hour |-> h, minute |-> mi, second |-> s, nanosecond |-> n]

MCMinYear == -32768
MCMaxYear == 32767
MCZones == {-56, -3, 0, 56, Local}

MCValues ==
  { At(2000, 2, 28, 0, 23, 59, 59, 0), At(2000, 2, 28, -3, 23, 45, 0, 0),
    At(2000, 2, 29, Local, 0, 0, 0, 0), At(2000, 3, 1, Local, 4, 0, 0, 1),
    At(2000, 2, 29, 56, 14, 0, 0, 0), At(2000, 2, 28, -56, 10, 0, 0, 0),
    At(2000, 2, 28, Local, 24, 0, 0, 0), At(2000, 2, 29, 0, 14, 0, 0, 0),
    At(2000, 2, 28, Local, 9, 59, 59, 999999999), At(2001, 2, 28, 0, 23, 59, 59, 0),
    At(2000, 12, 31, -3, 23, 30, 0, 0), At(2001, 1, 1, 0, 0, 0, 0, 0),
    At(2001, 1, 1, 56, 0, 0, 0, 0), At(2001, 1, 1, Local, 0, 0, 0, 0),
    At(2000, 12, 31, Local, 12, 0, 0, 0),
    At(MCMinYear, 1, 1, 0, 0, 0, 0, 0), At(MCMinYear, 1, 1, 56, 0, 0, 0, 0),
    At(MCMaxYear, 12, 31, 0, 23, 59, 59, 999999999),
    At(MCMaxYear, 12, 31, Local, 23, 0, 0, 0),
    InfiniteFuture(0), InfiniteFuture(Local), InfinitePast(-3), InfinitePast(Local) }

Days(n) == n * 86400

(* Back to the new year of a conversion, from a month after a reference.   *)
BackToNewYear ==
  {Duration(-1, -Days(29) - 58500, -n) : n \in {0, 500000000}}

(* Nine months and what they last from May, and four months to a new year. *)
Exceptions ==
  { Duration(9, 0, 0), Duration(0, Days(275) + 43200, 0), Duration(0, Days(276), 0),
    Duration(4, Days(214), 0), Duration(0, Days(335) + 43200, 0),
    Duration(0, -Days(3) - 82801, 0) }

MCLengths ==
  UNION { {Duration(m, s, n), Duration(-m, -s, -n)} :
            m \in {0, 1, 3, 4},
            s \in {0, 1} \cup {Days(n) : n \in {4, 27, 28, 29, 31, 89, 92, 123}},
            n \in {0, 500000000} } \cup BackToNewYear \cup Exceptions

MCStarts ==
  { At(1696, 12, 1, Local, 0, 0, 0, 0), At(1999, 12, 31, Local, 23, 59, 59, 999999999),
    At(1900, 2, 28, Local, 12, 0, 0, 0), At(2000, 1, 31, Local, 0, 0, 0, 0),
    At(2003, 7, 31, Local, 24, 0, 0, 0), At(0, 3, 1, Local, 0, 0, 30, 0),
    At(2003, 5, 1, Local, 0, 0, 0, 0), At(2023, 2, 1, Local, 0, 0, 0, 0),
    At(MCMinYear, 1, 5, Local, 0, 0, 0, 0), At(MCMaxYear, 12, 31, Local, 23, 59, 59, 0) }

=============================================================================
