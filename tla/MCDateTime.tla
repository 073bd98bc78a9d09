----------------------------- MODULE MCDateTime -----------------------------
(***************************************************************************)
(* Values for the constants of DateTime: dates on both sides of every      *)
(* boundary of the calendar and of the type, and durations that carry or   *)
(* borrow in each field.                                                   *)
(***************************************************************************)
EXTENDS DateTime

At(y, mo, d, z, h, mi, s, n) ==
  [year |-> y, month |-> mo, day |-> d, zone |-> z,
   hour |-> h, minute |-> mi, second |-> s, nanosecond |-> n]

MCMinYear == -32768
MCMaxYear == 32767
MCZones == {-56, -3, 0, 56, Local}

MCReadable ==
  { At(2000, 2, 28, 0, 23, 59, 59, 999999999),
    At(2001, 1, 31, -3, 0, 1, 0, 0),
    At(1900, 3, 1, 56, 0, 0, 30, 500000000),
    At(1999, 12, 31, Local, 24, 0, 0, 0),
    At(0, 1, 1, -56, 0, 0, 0, 0),
    At(-1, 12, 31, 0, 23, 59, 30, 0),
    At(MCMinYear, 1, 1, 56, 0, 0, 0, 0),
    At(MCMinYear, 1, 2, 0, 0, 0, 30, 0),
    At(MCMaxYear, 12, 31, -56, 23, 59, 59, 0),
    At(MCMaxYear, 12, 31, Local, 12, 0, 0, 1) }

(* Each amount forwards and backwards.                                     *)
BothWays(m, s, n) == {Duration(m, s, n), Duration(-m, -s, -n)}

MCDurations ==
  UNION { BothWays(0, 0, 1), BothWays(0, 59, 500000000),
          BothWays(0, 86370, 0), BothWays(0, 86400, 0), BothWays(0, 3661, 999999999),
          BothWays(0, 40000000, 0),
          BothWays(1, 0, 0), BothWays(11, 0, 0), BothWays(12, 86399, 0),
          BothWays(13, 0, 500000000), BothWays(4800, 0, 0), BothWays(786432, 0, 0) }

=============================================================================
