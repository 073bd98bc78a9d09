---------------------------- MODULE DateTimeSum ----------------------------
(***************************************************************************)
(* The sum of a dateTime and a duration as a function: what the steps of   *)
(* DateTime compute, for the modules that only need the result.            *)
(***************************************************************************)
EXTENDS DateTimeFields

(* The states of the loop: the fields, and the day not yet carried.        *)
Loop == Dayless \X Int

(* carry_set_day and exess_add_date_time_duration, the loop as a function. *)
Carried[p \in Loop] ==
  LET e == p[1]
      day == p[2]
  IN  CASE day < 1 /\ e.month > 1 ->
             Carried[<<[e EXCEPT !.month = e.month - 1],
                       day + DaysInMonth(e.year, e.month - 1)>>]
        [] day < 1 /\ e.month = 1 /\ e.year # MinYear ->
             Carried[<<[e EXCEPT !.year = e.year - 1, !.month = 12], day + 31>>]
        [] day < 1 /\ e.month = 1 /\ e.year = MinYear ->
             InfinitePast(e.zone)
        [] day \in 1..DaysInMonth(e.year, e.month) ->
             [e EXCEPT !.day = day]
        [] day > DaysInMonth(e.year, e.month) /\ e.month < 12 ->
             Carried[<<[e EXCEPT !.month = e.month + 1],
                       day - DaysInMonth(e.year, e.month)>>]
        [] day > DaysInMonth(e.year, e.month) /\ e.month = 12 /\ e.year # MaxYear ->
             Carried[<<[e EXCEPT !.year = e.year + 1, !.month = 1], day - 31>>]
        [] OTHER -> InfiniteFuture(e.zone)

Sum(v, d) ==
  IF SumYear(v, d) > MaxYear THEN InfiniteFuture(v.zone)
  ELSE IF SumYear(v, d) < MinYear THEN InfinitePast(v.zone)
  ELSE Carried[<<SumFields(v, d), DaySum(v, d)>>]

=============================================================================
