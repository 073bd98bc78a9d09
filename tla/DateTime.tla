------------------------------ MODULE DateTime ------------------------------
(***************************************************************************)
(* The arithmetic of src/date_time.c: exess_add_date_time_duration with    *)
(* its field sums and the loop of carry_set_day, and                       *)
(* exess_date_time_to_utc, which is that sum with the offset of the zone.  *)
(*                                                                         *)
(* A client holds one dateTime, at first one that exess_read_date_time     *)
(* returns, and replaces it by the result of each call.  A call is a few   *)
(* steps: its fields, the iterations of the loop, the return.              *)
(***************************************************************************)
EXTENDS DateTimeFields

CONSTANTS
  Readable,           \* The values the client may start from
  Durations,          \* The durations it may add
  MaxCalls            \* Bound on the number of calls

ASSUME ReadableAssumption == \A v \in Readable : IsReadable(v)

ASSUME DurationAssumption == \A d \in Durations : IsDuration(d)

-----------------------------------------------------------------------------
VARIABLES
  dt,       \* The value the client holds
  pc,       \* "idle", "called" or "carry"
  dur,      \* The duration of the call
  toUtc,    \* Whether the call is exess_date_time_to_utc
  e,        \* The result so far
  day,      \* The day not yet carried into months and years
  calls     \* Number of calls made

vars == <<dt, pc, dur, toUtc, e, day, calls>>

NoDuration == Duration(0, 0, 0)

Init ==
  /\ dt \in Readable
  /\ pc = "idle"
  /\ dur = NoDuration
  /\ toUtc = FALSE
  /\ e = dt
  /\ day = 0
  /\ calls = 0

Call(d, utc) ==
  /\ pc = "idle"
  /\ calls < MaxCalls
  /\ pc' = "called"
  /\ dur' = d
  /\ toUtc' = utc
  /\ calls' = calls + 1
  /\ UNCHANGED <<dt, e, day>>

CallAdd == \E d \in Durations : Call(d, FALSE)

CallToUtc == Call(UtcOffset(dt), TRUE)

(* to_utc overwrites the zone of whatever the sum returns.                 *)
Return(v) ==
  /\ pc' = "idle"
  /\ dt' = IF toUtc THEN [v EXCEPT !.zone = Utc] ELSE v
  /\ e' = dt'
  /\ day' = 0
  /\ dur' = NoDuration
  /\ toUtc' = FALSE
  /\ UNCHANGED calls

(* Mistake: the last year taken as an overflow.                            *)
YearOverflowEarly ==
  /\ pc = "called"
  /\ SumYear(dt, dur) >= MaxYear
  /\ Return(InfiniteFuture(dt.zone))

YearOverflow ==
  /\ pc = "called"
  /\ SumYear(dt, dur) > MaxYear
  /\ Return(InfiniteFuture(dt.zone))

YearUnderflow ==
  /\ pc = "called"
  /\ SumYear(dt, dur) < MinYear
  /\ Return(InfinitePast(dt.zone))

AddFields ==
  /\ pc = "called"
  /\ SumYear(dt, dur) \in MinYear..MaxYear
  /\ pc' = "carry"
  /\ e' = SumFields(dt, dur)
  /\ day' = DaySum(dt, dur)
  /\ UNCHANGED <<dt, dur, toUtc, calls>>

(* Mistake: the days of the month left, not of the one gone back to.       *)
BorrowThisMonth ==
  /\ pc = "carry"
  /\ day < 1
  /\ e.month > 1
  /\ e' = [e EXCEPT !.month = e.month - 1]
  /\ day' = day + DaysInMonth(e.year, e.month)
  /\ UNCHANGED <<dt, pc, dur, toUtc, calls>>

(* carry_set_day: one iteration, and the return from it.                   *)
BorrowMonth ==
  /\ pc = "carry"
  /\ day < 1
  /\ \/ /\ e.month > 1
        /\ e' = [e EXCEPT !.month = e.month - 1]
        /\ day' = day + DaysInMonth(e.year, e.month - 1)
     \/ /\ e.month = 1
        /\ e.year # MinYear
        /\ e' = [e EXCEPT !.year = e.year - 1, !.month = 12]
        /\ day' = day + DaysInMonth(e.year - 1, 12)
  /\ UNCHANGED <<dt, pc, dur, toUtc, calls>>

BorrowUnderflow ==
  /\ pc = "carry"
  /\ day < 1
  /\ e.month = 1
  /\ e.year = MinYear
  /\ Return(InfinitePast(e.zone))

CarryMonth ==
  /\ pc = "carry"
  /\ day > DaysInMonth(e.year, e.month)
  /\ day' = day - DaysInMonth(e.year, e.month)
  /\ \/ /\ e.month < 12
        /\ e' = [e EXCEPT !.month = e.month + 1]
     \/ /\ e.month = 12
        /\ e.year # MaxYear
        /\ e' = [e EXCEPT !.year = e.year + 1, !.month = 1]
  /\ UNCHANGED <<dt, pc, dur, toUtc, calls>>

CarryOverflow ==
  /\ pc = "carry"
  /\ day > DaysInMonth(e.year, e.month)
  /\ e.month = 12
  /\ e.year = MaxYear
  /\ Return(InfiniteFuture(e.zone))

(* Mistake: the last day of a month is neither carried nor set.            *)
SetDayBeforeLast ==
  /\ pc = "carry"
  /\ day \in 1..(DaysInMonth(e.year, e.month) - 1)
  /\ Return([e EXCEPT !.day = day])

SetDay ==
  /\ pc = "carry"
  /\ day \in 1..DaysInMonth(e.year, e.month)
  /\ Return([e EXCEPT !.day = day])

Finish ==
  \/ YearOverflow \/ YearUnderflow \/ BorrowUnderflow \/ CarryOverflow
  \/ SetDay

Step == AddFields \/ BorrowMonth \/ CarryMonth \/ Finish

Next == CallAdd \/ CallToUtc \/ Step

(* A call, once made, runs to its end; the client need not call.           *)
Spec == Init /\ [][Next]_vars /\ WF_vars(Step)

-----------------------------------------------------------------------------
(* Types.  The values between calls are dates that exist or one of the     *)
(* infinities; during the loop every field but the day is final.           *)
TypeOK ==
  /\ dt \in DateTimes
  /\ dt \in Finite => IsDate(dt)
  /\ pc \in {"idle", "called", "carry"}
  /\ IsDuration(dur)
  /\ toUtc \in BOOLEAN
  /\ pc = "carry" => e \in Dayless
  /\ day \in Int
  /\ calls \in Nat

Returns == pc # "idle" /\ pc' = "idle"

(* The loop of carry_set_day neither gains nor loses a day: the fields and *)
(* the day still to carry stay where the sum has put them.                 *)
CarryExact ==
  (pc = "carry" /\ dt \in Finite)
    => Reaches(dt, dur, DayNumber(e.year, e.month, day), e)

(* A finite result is exactly as far from the argument as the duration     *)
(* says, whatever fields were carried or borrowed on the way.              *)
SumExact ==
  [][(Returns /\ dt \in Finite /\ dt' \in Finite)
       => Reaches(dt, dur, DayNumber(dt'.year, dt'.month, dt'.day), dt')]_vars

(* An infinity is returned only for a sum outside the years that can be    *)
(* stored.  The first day of the first year counts as outside: a borrow of *)
(* a whole day can lose it.                                                *)
OverflowJustified ==
  [][(Returns /\ dt \in Finite)
       => /\ dt' \in Futures => DayReached(dt, dur) > DayNumber(MaxYear, 12, 31)
          /\ dt' \in Pasts => DayReached(dt, dur) <= DayNumber(MinYear, 1, 1)]_vars

(* An infinity stays where it is when a number of seconds is added to it,  *)
(* a change of zone included: exess.h says that the infinities are         *)
(* comparable with the values they came from, and comparing converts them. *)
InfinityAbsorbs ==
  [][(Returns /\ dur.months = 0)
       => /\ dt \in Futures => dt' \in Futures
          /\ dt \in Pasts => dt' \in Pasts]_vars

(* exess_date_time_to_utc always returns normal fields, so that comparing  *)
(* them one by one compares times: no offset of a zone can make a field    *)
(* borrow a whole unit.                                                    *)
ToUtcNormalizes ==
  [][(Returns /\ toUtc /\ dt' \in Finite) => dt'.zone = Utc /\ IsNormal(dt')]_vars

(* Every call returns: the loop ends.                                      *)
CallReturns == (pc # "idle") ~> (pc = "idle")

=============================================================================
