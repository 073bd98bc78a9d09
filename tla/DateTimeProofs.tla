--------------------------- MODULE DateTimeProofs ---------------------------
(***************************************************************************)
(* Proofs about adding durations to dateTimes, for every dateTime and      *)
(* every duration, and for any number of calls one after the other.        *)
(***************************************************************************)
EXTENDS DateTime, CalendarProofs

-----------------------------------------------------------------------------
(* The inductive invariant.  CarryExact alone is not inductive: the loop   *)
(* needs the months to be months; and the loop is only reached from an     *)
(* infinity when months were added.                                        *)
FiniteCarried == (pc = "carry" /\ dur.months = 0) => dt \in Finite

IInv == TypeOK /\ CarryExact /\ FiniteCarried

(* The invariant holds before the first call.                              *)
LEMMA InitIInv == Init => IInv
<1> SUFFICES ASSUME Init PROVE IInv
  OBVIOUS
<1>1. dt \in Finite /\ IsDate(dt)
  BY ReadableAssumption DEF Init, IsReadable
<1>2. IsDuration(dur)
  BY GigaInt DEF Init, NoDuration, Duration, IsDuration
<1>3. TypeOK
  <2>1. toUtc \in BOOLEAN
    BY DEF Init
  <2>2. pc = "idle" /\ day = 0 /\ calls = 0
    BY DEF Init
  <2> QED BY <1>1, <1>2, <2>1, <2>2 DEF TypeOK, DateTimes
<1> QED BY <1>3 DEF Init, IInv, CarryExact, FiniteCarried

(* A call is made with a duration: the offset of a zone is one.            *)
LEMMA CallIInv ==
  ASSUME IInv, CallAdd \/ CallToUtc
  PROVE  IInv'
<1>1. IsDuration(UtcOffset(dt))
  <2>1. dt.zone \in Int
    BY FieldInts DEF IInv, TypeOK
  <2>2. -dt.zone * 15 * 60 \in Int
    BY <2>1
  <2> QED BY <2>2, GigaInt DEF UtcOffset, Duration, IsDuration
<1>2. PICK d \in Durations \cup {UtcOffset(dt)}, utc \in BOOLEAN : Call(d, utc)
  BY DEF CallAdd, CallToUtc
<1>3. IsDuration(d)
  BY <1>1, DurationAssumption
<1>4. toUtc' \in BOOLEAN
  BY <1>2 DEF Call
<1> QED BY <1>2, <1>3, <1>4 DEF Call, IInv, TypeOK, CarryExact, FiniteCarried

(* What a call returns: the values between calls.                          *)
LEMMA ReturnIInv ==
  ASSUME IInv, NEW v, Return(v),
         v \in DateTimes, v \in Finite => IsDate(v)
  PROVE  IInv'
<1> DEFINE w == IF toUtc THEN [v EXCEPT !.zone = Utc] ELSE v
<1>1. Utc \in AllZones
  BY DEF AllZones
<1>2. w \in DateTimes /\ (w \in Finite => IsDate(w))
  <2>1. CASE v \in Finite
    BY <1>1, <2>1 DEF Finite, DateTimes, IsDate
  <2>2. CASE v \in Futures
    <3>1. w \in Futures
      BY <1>1, <2>2 DEF Futures, InfiniteFuture
    <3> QED BY <3>1, InfinitiesApart DEF DateTimes
  <2>3. CASE v \in Pasts
    <3>1. w \in Pasts
      BY <1>1, <2>3 DEF Pasts, InfinitePast
    <3> QED BY <3>1, InfinitiesApart DEF DateTimes
  <2> QED BY <2>1, <2>2, <2>3 DEF DateTimes
<1>3. IsDuration(NoDuration)
  BY GigaInt DEF NoDuration, Duration, IsDuration
<1>4. dt' = w
  BY DEF Return
<1>5. toUtc' \in BOOLEAN
  BY DEF Return
<1>6. pc' = "idle" /\ day' = 0 /\ dur' = NoDuration /\ calls' = calls
  BY DEF Return
<1>7. IsDate(dt)' <=> IsDate(dt')
  BY DEF IsDate
<1>8. TypeOK'
  <2> HIDE DEF w
  <2> QED BY <1>2, <1>3, <1>4, <1>5, <1>6, <1>7 DEF IInv, TypeOK, IsDuration
<1> QED BY <1>6, <1>8 DEF IInv, CarryExact, FiniteCarried

(* Both infinities, whatever the zone, are values a call may return.       *)
LEMMA InfinityReturned ==
  ASSUME NEW zone \in AllZones
  PROVE  /\ InfiniteFuture(zone) \in Futures /\ InfinitePast(zone) \in Pasts
         /\ InfiniteFuture(zone) \in DateTimes \ Finite
         /\ InfinitePast(zone) \in DateTimes \ Finite
<1>1. InfiniteFuture(zone) \in Futures /\ InfinitePast(zone) \in Pasts
  BY DEF Futures, Pasts
<1> QED BY <1>1, InfinitiesApart DEF DateTimes

(* The loop starts from the exact sum.                                     *)
LEMMA AddFieldsIInv ==
  ASSUME IInv, AddFields
  PROVE  IInv'
<1>1. dt \in DateTimes /\ IsDuration(dur) /\ SumYear(dt, dur) \in MinYear..MaxYear
  BY DEF IInv, TypeOK, AddFields
<1>2. e' \in Dayless /\ day' \in Int
  BY <1>1, SumFieldsDayless DEF AddFields
<1>3. TypeOK'
  BY <1>2 DEF IInv, TypeOK, AddFields
<1>4. dt \in Finite => Reaches(dt, dur, DayNumber(e'.year, e'.month, day'), e')
  <2>1. e'.year = SumYear(dt, dur) /\ e'.month = SumMonth(dt, dur)
    BY DEF AddFields, SumFields
  <2> QED BY <1>1, <2>1, SumReaches DEF AddFields
<1>5. CarryExact'
  BY <1>4 DEF CarryExact, AddFields
<1>6. FiniteCarried'
  <2>1. dur.months = 0 => dt \in Finite
    <3>1. ~(SumYear(dt, dur) > MaxYear) /\ ~(SumYear(dt, dur) < MinYear)
      BY <1>1, YearAssumption
    <3> QED BY <1>1, <3>1, FutureOverflows, PastUnderflows DEF DateTimes
  <2> QED BY <2>1 DEF AddFields, FiniteCarried
<1> QED BY <1>3, <1>5, <1>6 DEF IInv

(* An iteration of the loop is one of these moves to another month.        *)
LoopMove(year, month, d) ==
  /\ pc = "carry"
  /\ year \in MinYear..MaxYear /\ month \in 1..12 /\ d \in Int
  /\ DayNumber(year, month, d) = DayNumber(e.year, e.month, day)
  /\ e' = [e EXCEPT !.year = year, !.month = month]
  /\ day' = d
  /\ UNCHANGED <<dt, pc, dur, toUtc, calls>>

(* An iteration of the loop of carry_set_day that stays on the same day    *)
(* keeps the invariant.                                                    *)
LEMMA LoopIInv ==
  ASSUME IInv, NEW year, NEW month, NEW d, LoopMove(year, month, d)
  PROVE  IInv'
<1>1. e \in Dayless
  BY DEF LoopMove, IInv, TypeOK
<1>2. e' \in Dayless
  BY <1>1 DEF LoopMove, Dayless
<1>3. TypeOK'
  BY <1>2 DEF LoopMove, IInv, TypeOK
<1>4. /\ e'.year = year /\ e'.month = month /\ e'.hour = e.hour
      /\ e'.minute = e.minute /\ e'.second = e.second
      /\ e'.nanosecond = e.nanosecond
  BY <1>1 DEF LoopMove, Dayless
<1>5. CarryExact'
  <2>1. SUFFICES ASSUME dt \in Finite
                 PROVE  Reaches(dt, dur, DayNumber(e'.year, e'.month, day'), e')
    BY DEF CarryExact, LoopMove
  <2>2. Reaches(dt, dur, DayNumber(e.year, e.month, day), e)
    BY <2>1 DEF IInv, CarryExact, LoopMove
  <2>3. DayNumber(e'.year, e'.month, day') = DayNumber(e.year, e.month, day)
    BY <1>4 DEF LoopMove
  <2> QED BY <1>4, <2>2, <2>3, ReachesSame
<1>6. FiniteCarried'
  BY DEF LoopMove, IInv, FiniteCarried
<1> QED BY <1>3, <1>5, <1>6 DEF IInv

(* To borrow a month keeps the invariant.                                  *)
LEMMA BorrowIInv ==
  ASSUME IInv, BorrowMonth
  PROVE  IInv'
<1>1. pc = "carry" /\ e \in Dayless /\ day \in Int
  BY DEF BorrowMonth, IInv, TypeOK
<1>2. e.year \in MinYear..MaxYear /\ e.year \in Int /\ e.month \in 1..12
  BY <1>1, YearAssumption DEF Dayless
<1>3. CASE e.month > 1
  <2> DEFINE d == day + DaysInMonth(e.year, e.month - 1)
  <2>1. e.month \in 2..12 /\ e.month - 1 \in 1..12
    BY <1>2, <1>3
  <2>2. d \in Int
    BY <1>1, <1>2, <2>1, DaysInMonthRange
  <2>3. DayNumber(e.year, e.month - 1, d) = DayNumber(e.year, e.month, day)
    BY <1>1, <1>2, <2>1, BorrowSame
  <2>4. e' = [e EXCEPT !.year = e.year, !.month = e.month - 1] /\ day' = d
    <3>1. e' = [e EXCEPT !.month = e.month - 1] /\ day' = d
      BY <1>2, <1>3 DEF BorrowMonth
    <3>2. [e EXCEPT !.month = e.month - 1]
            = [e EXCEPT !.year = e.year, !.month = e.month - 1]
      BY <1>1 DEF Dayless
    <3> QED BY <3>1, <3>2
  <2>5. LoopMove(e.year, e.month - 1, d)
    BY <1>1, <1>2, <2>1, <2>2, <2>3, <2>4 DEF LoopMove, BorrowMonth
  <2> QED BY <2>5, LoopIInv
<1>4. CASE e.month = 1
  <2> DEFINE d == day + DaysInMonth(e.year - 1, 12)
  <2>1. e.year - 1 \in MinYear..MaxYear /\ e.year - 1 \in Int /\ 12 \in 1..12
    BY <1>2, <1>4, YearAssumption DEF BorrowMonth
  <2>2. d \in Int
    BY <1>1, <2>1, DaysInMonthRange
  <2>3. DayNumber(e.year - 1, 12, d) = DayNumber(e.year, e.month, day)
    BY <1>1, <1>2, <1>4, BorrowSameYear
  <2>4. e' = [e EXCEPT !.year = e.year - 1, !.month = 12] /\ day' = d
    BY <1>1, <1>2, <1>4 DEF BorrowMonth
  <2>5. LoopMove(e.year - 1, 12, d)
    BY <1>1, <2>1, <2>2, <2>3, <2>4 DEF LoopMove, BorrowMonth
  <2> QED BY <2>5, LoopIInv
<1> QED BY <1>2, <1>3, <1>4

(* To carry a month keeps the invariant.                                   *)
LEMMA CarryIInv ==
  ASSUME IInv, CarryMonth
  PROVE  IInv'
<1>1. pc = "carry" /\ e \in Dayless /\ day \in Int
  BY DEF CarryMonth, IInv, TypeOK
<1>2. e.year \in MinYear..MaxYear /\ e.year \in Int /\ e.month \in 1..12
  BY <1>1, YearAssumption DEF Dayless
<1> DEFINE d == day - DaysInMonth(e.year, e.month)
<1>3. d \in Int /\ day' = d
  BY <1>1, <1>2, DaysInMonthRange DEF CarryMonth
<1>4. CASE e.month < 12
  <2>1. e.month \in 1..11 /\ e.month + 1 \in 1..12
    BY <1>2, <1>4
  <2>2. DayNumber(e.year, e.month + 1, d) = DayNumber(e.year, e.month, day)
    BY <1>1, <1>2, <2>1, CarrySame
  <2>3. e' = [e EXCEPT !.year = e.year, !.month = e.month + 1]
    <3>1. e' = [e EXCEPT !.month = e.month + 1]
      BY <1>2, <1>4 DEF CarryMonth
    <3>2. [e EXCEPT !.month = e.month + 1]
            = [e EXCEPT !.year = e.year, !.month = e.month + 1]
      BY <1>1 DEF Dayless
    <3> QED BY <3>1, <3>2
  <2>4. LoopMove(e.year, e.month + 1, d)
    BY <1>1, <1>2, <1>3, <2>1, <2>2, <2>3 DEF LoopMove, CarryMonth
  <2> QED BY <2>4, LoopIInv
<1>5. CASE e.month = 12
  <2>1. e.year + 1 \in MinYear..MaxYear /\ 1 \in 1..12
    BY <1>2, <1>5, YearAssumption DEF CarryMonth
  <2>2. DayNumber(e.year + 1, 1, d) = DayNumber(e.year, e.month, day)
    BY <1>1, <1>2, <1>5, CarrySameYear
  <2>3. e' = [e EXCEPT !.year = e.year + 1, !.month = 1]
    BY <1>1, <1>2, <1>5 DEF CarryMonth
  <2>4. LoopMove(e.year + 1, 1, d)
    BY <1>1, <1>3, <2>1, <2>2, <2>3 DEF LoopMove, CarryMonth
  <2> QED BY <2>4, LoopIInv
<1> QED BY <1>2, <1>4, <1>5

(* The ways to return.  Only SetDay returns a finite value, the date that  *)
(* the fields and the day make.                                            *)
LEMMA SetDayValue ==
  ASSUME IInv, SetDay
  PROVE  /\ Return([e EXCEPT !.day = day])
         /\ [e EXCEPT !.day = day] \in Finite
         /\ IsDate([e EXCEPT !.day = day])
<1>1. pc = "carry" /\ e \in Dayless /\ day \in Int
  BY DEF SetDay, IInv, TypeOK
<1>2. e.year \in Int /\ e.month \in 1..12
  BY <1>1, YearAssumption DEF Dayless
<1>3. DaysInMonth(e.year, e.month) \in 28..31
  BY <1>2, DaysInMonthRange
<1>4. day \in 1..31 /\ day <= DaysInMonth(e.year, e.month)
  BY <1>1, <1>3 DEF SetDay
<1>5. [e EXCEPT !.day = day] \in Finite
  BY <1>1, <1>4 DEF Dayless, Finite
<1>6. IsDate([e EXCEPT !.day = day])
  BY <1>1, <1>4 DEF IsDate, Dayless
<1> QED BY <1>5, <1>6 DEF SetDay

(* The loop ends with an infinity or with the day set.                     *)
LEMMA FinishValue ==
  ASSUME IInv, Finish
  PROVE  \/ \E v \in Futures \cup Pasts : Return(v)
         \/ SetDay
<1>1. dt.zone \in AllZones
  BY FieldInts DEF IInv, TypeOK
<1>2. pc = "carry" => e.zone \in AllZones
  BY DEF IInv, TypeOK, Dayless
<1>3. CASE YearOverflow
  BY <1>1, <1>3, InfinityReturned DEF YearOverflow
<1>4. CASE YearUnderflow
  BY <1>1, <1>4, InfinityReturned DEF YearUnderflow
<1>5. CASE BorrowUnderflow
  BY <1>2, <1>5, InfinityReturned DEF BorrowUnderflow
<1>6. CASE CarryOverflow
  BY <1>2, <1>6, InfinityReturned DEF CarryOverflow
<1> QED BY <1>3, <1>4, <1>5, <1>6 DEF Finish

(* The end of the loop keeps the invariant.                                *)
LEMMA FinishIInv ==
  ASSUME IInv, Finish
  PROVE  IInv'
<1>1. CASE SetDay
  BY <1>1, SetDayValue, ReturnIInv DEF DateTimes
<1>2. CASE \E v \in Futures \cup Pasts : Return(v)
  BY <1>2, ReturnIInv, InfinitiesApart DEF DateTimes
<1> QED BY <1>1, <1>2, FinishValue

(* Every step keeps the invariant.                                         *)
LEMMA StepIInv == IInv /\ [Next]_vars => IInv'
<1> SUFFICES ASSUME IInv, [Next]_vars PROVE IInv'
  OBVIOUS
<1>1. CASE CallAdd \/ CallToUtc
  BY <1>1, CallIInv
<1>2. CASE AddFields
  BY <1>2, AddFieldsIInv
<1>3. CASE BorrowMonth
  BY <1>3, BorrowIInv
<1>4. CASE CarryMonth
  BY <1>4, CarryIInv
<1>5. CASE Finish
  BY <1>5, FinishIInv
<1>6. CASE UNCHANGED vars
  BY <1>6 DEF vars, IInv, TypeOK, CarryExact, FiniteCarried, IsDate, Reaches, SecondOfDay, ShiftedDay, MonthNumber, IsDuration
<1> QED BY <1>1, <1>2, <1>3, <1>4, <1>5, <1>6 DEF Next, Step

(* Everything below follows from this invariant.                           *)
THEOREM SpecIInv == Spec => []IInv
<1> QED BY InitIInv, StepIInv, PTL DEF Spec

(* The values between calls are dates that exist or infinities, however    *)
(* many calls of exess_add_date_time_duration and exess_date_time_to_utc   *)
(* made them.                                                              *)
THEOREM TypeCorrect == Spec => []TypeOK
<1>1. IInv => TypeOK
  BY DEF IInv
<1> QED BY <1>1, SpecIInv, PTL

(* The loop of carry_set_day never gains or loses a day.                   *)
THEOREM CarryIsExact == Spec => []CarryExact
<1>1. IInv => CarryExact
  BY DEF IInv
<1> QED BY <1>1, SpecIInv, PTL

(* A call that returns is one of the ways to finish.                       *)
LEMMA ReturnsFinish ==
  ASSUME IInv, [Next]_vars, Returns
  PROVE  Finish
<1>1. ~(CallAdd \/ CallToUtc)
  BY DEF CallAdd, CallToUtc, Call, Returns
<1>2. ~AddFields /\ ~BorrowMonth /\ ~CarryMonth
  BY DEF AddFields, BorrowMonth, CarryMonth, Returns
<1>3. ~UNCHANGED vars
  BY DEF vars, Returns
<1> QED BY <1>1, <1>2, <1>3 DEF Next, Step

(* A finite result is exactly as far from the argument as the duration     *)
(* says, for every dateTime and every duration.                            *)
THEOREM SumIsExact == Spec => SumExact
<1>1. ASSUME IInv, [Next]_vars, Returns, dt \in Finite, dt' \in Finite
      PROVE  Reaches(dt, dur, DayNumber(dt'.year, dt'.month, dt'.day), dt')
  <2>1. Finish
    BY <1>1, ReturnsFinish
  <2>2. SetDay
    <3>1. ASSUME NEW v \in Futures \cup Pasts, Return(v) PROVE dt' \notin Finite
      <4>1. dt'.month = v.month
        BY <3>1 DEF Return, Futures, Pasts, InfiniteFuture, InfinitePast
      <4>2. v.month = 255 \/ v.month = 0
        BY <3>1 DEF Futures, Pasts, InfiniteFuture, InfinitePast, UInt8Max
      <4> QED BY <4>1, <4>2 DEF Finite
    <3> QED BY <1>1, <2>1, <3>1, FinishValue
  <2>3. pc = "carry" /\ e \in Dayless
    BY <1>1, <2>2 DEF SetDay, IInv, TypeOK
  <2>4. Reaches(dt, dur, DayNumber(e.year, e.month, day), e)
    BY <1>1, <2>3 DEF IInv, CarryExact
  <2>5. dt' = IF toUtc THEN [[e EXCEPT !.day = day] EXCEPT !.zone = Utc]
                       ELSE [e EXCEPT !.day = day]
    BY <1>1, <2>2, SetDayValue DEF Return
  <2>6. /\ dt'.year = e.year /\ dt'.month = e.month /\ dt'.day = day
        /\ dt'.hour = e.hour /\ dt'.minute = e.minute /\ dt'.second = e.second
        /\ dt'.nanosecond = e.nanosecond
    BY <2>3, <2>5 DEF Dayless
  <2>7. DayNumber(dt'.year, dt'.month, dt'.day) = DayNumber(e.year, e.month, day)
    BY <2>6
  <2> QED BY <2>4, <2>6, <2>7, ReachesSame
<1>2. IInv /\ [Next]_vars
        => [(Returns /\ dt \in Finite /\ dt' \in Finite)
              => Reaches(dt, dur, DayNumber(dt'.year, dt'.month, dt'.day), dt')]_vars
  BY <1>1
<1> QED BY <1>2, SpecIInv, PTL DEF Spec, SumExact

(* An infinity to which only seconds are added stays where it is, the      *)
(* conversion of it to UTC included.                                       *)
THEOREM InfinitiesAbsorb == Spec => InfinityAbsorbs
<1>1. ASSUME IInv, [Next]_vars, Returns, dur.months = 0
      PROVE  /\ dt \in Futures => dt' \in Futures
             /\ dt \in Pasts => dt' \in Pasts
  <2>1. Finish
    BY <1>1, ReturnsFinish
  <2>2. dt.zone \in AllZones /\ IsDuration(dur) /\ Utc \in AllZones
    BY <1>1, FieldInts DEF IInv, TypeOK, AllZones
  <2>3. ASSUME dt \in Futures PROVE dt' \in Futures
    <3>1. SumYear(dt, dur) > MaxYear /\ pc # "carry"
      BY <1>1, <2>2, <2>3, FutureOverflows, InfinitiesApart DEF IInv, FiniteCarried
    <3>2. ~(SumYear(dt, dur) < MinYear)
      <4>1. SumYear(dt, dur) \in Int
        <5>1. dt.year \in Int /\ CarryMonths(dt, dur) \in Int
          BY <1>1, <2>2, FieldInts, MonthParts DEF IInv, TypeOK
        <5>2. CDiv(dur.months, 12) \in Int
          BY <1>1 DEF CDiv
        <5> QED BY <5>1, <5>2 DEF SumYear
      <4> QED BY <3>1, <4>1, YearAssumption
    <3>3. Return(InfiniteFuture(dt.zone))
      BY <2>1, <3>1, <3>2 DEF Finish, YearOverflow, YearUnderflow, BorrowUnderflow, CarryOverflow, SetDay
    <3> QED BY <2>2, <3>3 DEF Return, Futures, InfiniteFuture
  <2>4. ASSUME dt \in Pasts PROVE dt' \in Pasts
    <3>1. SumYear(dt, dur) < MinYear /\ pc # "carry"
      BY <1>1, <2>2, <2>4, PastUnderflows, InfinitiesApart DEF IInv, FiniteCarried
    <3>2. ~(SumYear(dt, dur) > MaxYear)
      <4>1. SumYear(dt, dur) \in Int
        <5>1. dt.year \in Int /\ CarryMonths(dt, dur) \in Int
          BY <1>1, <2>2, FieldInts, MonthParts DEF IInv, TypeOK
        <5>2. CDiv(dur.months, 12) \in Int
          BY <1>1 DEF CDiv
        <5> QED BY <5>1, <5>2 DEF SumYear
      <4> QED BY <3>1, <4>1, YearAssumption
    <3>3. Return(InfinitePast(dt.zone))
      BY <2>1, <3>1, <3>2 DEF Finish, YearOverflow, YearUnderflow, BorrowUnderflow, CarryOverflow, SetDay
    <3> QED BY <2>2, <3>3 DEF Return, Pasts, InfinitePast
  <2> QED BY <2>3, <2>4
<1>2. IInv /\ [Next]_vars
        => [(Returns /\ dur.months = 0)
              => /\ dt \in Futures => dt' \in Futures
                 /\ dt \in Pasts => dt' \in Pasts]_vars
  BY <1>1
<1> QED BY <1>2, SpecIInv, PTL DEF Spec, InfinityAbsorbs

-----------------------------------------------------------------------------
(* When an infinity is returned for a finite value.                        *)

(* The nanoseconds of a sum, x in the field and y in all, are apart by     *)
(* whole seconds: those carried, or one less when x is a whole second.     *)
LEMMA WholeSeconds ==
  ASSUME NEW x \in Int, 0 <= x, x <= Giga, NEW y \in Int, (x - y) % Giga = 0
  PROVE  /\ (x - y) \div Giga \in Int /\ y \div Giga \in Int
         /\ 0 <= (x - y) \div Giga + y \div Giga
         /\ (x - y) \div Giga + y \div Giga <= 1
BY SMTT(30) DEF Giga

(* The whole seconds of a sum of nanoseconds.                              *)
LEMMA GigaQuotient ==
  ASSUME NEW x \in Int, NEW y \in Int
  PROVE  /\ (x + y) \div Giga \in Int
         /\ 0 <= x /\ 0 <= y => 0 <= (x + y) \div Giga
         /\ x <= Giga /\ y <= 0 => (x + y) \div Giga <= 1
BY SMTT(30) DEF Giga

(* The second of the day, when the fields can hold a whole unit.           *)
LEMMA SecondOfDayRange ==
  ASSUME NEW w \in Finite \cup Dayless
  PROVE  /\ SecondOfDay(w) \in Int
         /\ 0 <= SecondOfDay(w) /\ SecondOfDay(w) <= 90060
<1>1. /\ w.hour \in Int /\ 0 <= w.hour /\ w.hour <= 24
      /\ w.minute \in Int /\ 0 <= w.minute /\ w.minute <= 60
      /\ w.second \in Int /\ 0 <= w.second /\ w.second <= 60
  BY DEF Finite, Dayless
<1>2. ASSUME NEW h \in Int, NEW m \in Int, NEW s \in Int,
             0 <= h, h <= 24, 0 <= m, m <= 60, 0 <= s, s <= 60
      PROVE  /\ h * 3600 + m * 60 + s \in Int
             /\ 0 <= h * 3600 + m * 60 + s /\ h * 3600 + m * 60 + s <= 90060
  BY <1>2
<1>3. /\ w.hour * 3600 + w.minute * 60 + w.second \in Int
      /\ 0 <= w.hour * 3600 + w.minute * 60 + w.second
      /\ w.hour * 3600 + w.minute * 60 + w.second <= 90060
  BY <1>1, <1>2
<1> QED BY <1>3 DEF SecondOfDay

(* Seconds sw of day n are sv + s + c seconds after day sd began; those of *)
(* a day and of the part of the next one that a field may hold.            *)
LEMMA DayOfSeconds ==
  ASSUME NEW sw \in Int, NEW sv \in Int, NEW s \in Int, NEW k \in Int,
         NEW c \in Int, NEW n \in Int, NEW sd \in Int,
         0 <= sw, sw <= 90060, 0 <= k + c, k + c <= 1,
         sw - sv + k = s - 86400 * (n - sd)
  PROVE  /\ n <= sd + (sv + s + c) \div 86400
         /\ sd + (sv + s + c) \div 86400 <= n + 1
<1>1. sv + s + c = 86400 * (n - sd) + (sw + (k + c))
  OBVIOUS
<1>2. ASSUME NEW m \in Int, NEW r \in Int, 0 <= r, r <= 90061
      PROVE  m <= (86400 * m + r) \div 86400 /\ (86400 * m + r) \div 86400 <= m + 1
  BY <1>2
<1>3. /\ n - sd <= (86400 * (n - sd) + (sw + (k + c))) \div 86400
      /\ (86400 * (n - sd) + (sw + (k + c))) \div 86400 <= (n - sd) + 1
  BY <1>2
<1>4. (sv + s + c) \div 86400 \in Int
  OBVIOUS
<1> QED BY <1>1, <1>3, <1>4

(* A value whose time of day is found on day n is on day n or, when a      *)
(* field holds a whole unit that was not carried, on the day after.        *)
LEMMA ReachedWithinDay ==
  ASSUME NEW v \in Finite, NEW d, IsDuration(d), NEW n \in Int,
         NEW w \in Dayless, ShiftedDay(v, d) \in Int, Reaches(v, d, n, w)
  PROVE  n <= DayReached(v, d) /\ DayReached(v, d) <= n + 1
<1> DEFINE y == v.nanosecond + d.nanoseconds
<1>1. v.nanosecond \in Int
  BY FieldInts DEF DateTimes
<1>2. d.seconds \in Int /\ d.nanoseconds \in Int
  BY GigaInt DEF IsDuration
<1>3. w.nanosecond \in Int /\ 0 <= w.nanosecond /\ w.nanosecond <= Giga
  BY GigaInt DEF Dayless
<1>4. w.nanosecond - v.nanosecond - d.nanoseconds = w.nanosecond - y /\ y \in Int
  BY <1>1, <1>2, <1>3
<1>5. /\ (w.nanosecond - y) % Giga = 0
      /\ SecondOfDay(w) - SecondOfDay(v) + (w.nanosecond - y) \div Giga
           = d.seconds - 86400 * (n - ShiftedDay(v, d))
  BY <1>4 DEF Reaches
<1>6. DayReached(v, d)
        = ShiftedDay(v, d) + (SecondOfDay(v) + d.seconds + y \div Giga) \div 86400
  BY DEF DayReached
<1> HIDE DEF y
<1>7. /\ (w.nanosecond - y) \div Giga \in Int /\ y \div Giga \in Int
      /\ 0 <= (w.nanosecond - y) \div Giga + y \div Giga
      /\ (w.nanosecond - y) \div Giga + y \div Giga <= 1
  BY <1>3, <1>4, <1>5, WholeSeconds
<1>8. /\ SecondOfDay(v) \in Int /\ SecondOfDay(w) \in Int
      /\ 0 <= SecondOfDay(w) /\ SecondOfDay(w) <= 90060
  BY SecondOfDayRange
<1> QED BY <1>2, <1>5, <1>6, <1>7, <1>8, DayOfSeconds

(* A sum whose year is above the last one is after its last day: it takes  *)
(* a duration that is not negative.                                        *)
LEMMA YearOverflowJustified ==
  ASSUME NEW v \in Finite, NEW d, IsDuration(d), SumYear(v, d) > MaxYear
  PROVE  DayReached(v, d) > DayNumber(MaxYear, 12, 31)
<1> DEFINE more == SecondOfDay(v) + d.seconds
                     + (v.nanosecond + d.nanoseconds) \div Giga
<1>1. /\ v.year \in Int /\ v.year <= MaxYear /\ MaxYear \in Int
      /\ v.month \in 1..12 /\ v.day \in 1..31
      /\ v.nanosecond \in Int /\ 0 <= v.nanosecond /\ v.nanosecond <= Giga
  BY YearAssumption, GigaInt DEF Finite
<1>2. /\ SumYear(v, d) \in Int /\ SumMonth(v, d) \in 1..12
      /\ MonthNumber(v, d) = 12 * SumYear(v, d) + (SumMonth(v, d) - 1)
      /\ ShiftedDay(v, d) = DayNumber(SumYear(v, d), SumMonth(v, d), v.day)
  BY ShiftedDayAnywhere
<1>3. /\ d.months \in Int /\ d.seconds \in Int /\ d.nanoseconds \in Int
  BY GigaInt DEF IsDuration
<1>4. d.months > 0
  BY <1>1, <1>2, <1>3 DEF MonthNumber
<1>5. d.seconds >= 0 /\ d.nanoseconds >= 0
  BY <1>3, <1>4 DEF IsDuration
<1>6. more \in Int /\ more >= 0
  <2>1. SecondOfDay(v) \in Int /\ SecondOfDay(v) >= 0
    BY SecondOfDayRange
  <2>2. /\ (v.nanosecond + d.nanoseconds) \div Giga \in Int
        /\ (v.nanosecond + d.nanoseconds) \div Giga >= 0
    BY <1>1, <1>3, <1>5, GigaQuotient
  <2> QED BY <1>3, <1>5, <2>1, <2>2
<1>7. more \div 86400 \in Int /\ more \div 86400 >= 0
  <2> HIDE DEF more
  <2> QED BY <1>6
<1>8. ShiftedDay(v, d) \in Int /\ ShiftedDay(v, d) > DayNumber(MaxYear, 12, 31)
      /\ DayNumber(MaxYear, 12, 31) \in Int
  <2>1. v.day \in Int /\ 1 <= v.day /\ 12 \in 1..12
    BY <1>1
  <2>2. DayNumber(MaxYear, 12, 31) < ShiftedDay(v, d)
    BY <1>1, <1>2, <2>1, AfterYear
  <2>3. ShiftedDay(v, d) \in Int
    BY <1>2, <2>1, DayNumberInt
  <2>4. DayNumber(MaxYear, 12, 31) \in Int
    BY <1>1, <2>1, DayNumberInt
  <2> QED BY <2>2, <2>3, <2>4
<1>9. DayReached(v, d) = ShiftedDay(v, d) + more \div 86400
  BY DEF DayReached
<1> QED BY <1>7, <1>8, <1>9

(* And a sum whose year is below the first one comes, at the latest, on    *)
(* its first day: a time of 24:00:00 can be left of the last day before.   *)
LEMMA YearUnderflowJustified ==
  ASSUME NEW v \in Finite, NEW d, IsDuration(d), SumYear(v, d) < MinYear
  PROVE  DayReached(v, d) <= DayNumber(MinYear, 1, 1)
<1> DEFINE more == SecondOfDay(v) + d.seconds
                     + (v.nanosecond + d.nanoseconds) \div Giga
<1>1. /\ v.year \in Int /\ MinYear <= v.year /\ MinYear \in Int
      /\ v.month \in 1..12 /\ v.day \in 1..31
      /\ v.nanosecond \in Int /\ 0 <= v.nanosecond /\ v.nanosecond <= Giga
  BY YearAssumption, GigaInt DEF Finite
<1>2. /\ SumYear(v, d) \in Int /\ SumMonth(v, d) \in 1..12
      /\ MonthNumber(v, d) = 12 * SumYear(v, d) + (SumMonth(v, d) - 1)
      /\ ShiftedDay(v, d) = DayNumber(SumYear(v, d), SumMonth(v, d), v.day)
  BY ShiftedDayAnywhere
<1>3. /\ d.months \in Int /\ d.seconds \in Int /\ d.nanoseconds \in Int
  BY GigaInt DEF IsDuration
<1>4. d.months < 0
  BY <1>1, <1>2, <1>3 DEF MonthNumber
<1>5. d.seconds <= 0 /\ d.nanoseconds <= 0
  BY <1>3, <1>4 DEF IsDuration
<1>6. more \in Int /\ more <= 90061
  <2>1. SecondOfDay(v) \in Int /\ SecondOfDay(v) <= 90060
    BY SecondOfDayRange
  <2>2. /\ (v.nanosecond + d.nanoseconds) \div Giga \in Int
        /\ (v.nanosecond + d.nanoseconds) \div Giga <= 1
    BY <1>1, <1>3, <1>5, GigaQuotient
  <2> QED BY <1>3, <1>5, <2>1, <2>2
<1>7. more \div 86400 \in Int /\ more \div 86400 <= 1
  <2> HIDE DEF more
  <2> QED BY <1>6
<1>8. ShiftedDay(v, d) \in Int /\ ShiftedDay(v, d) < DayNumber(MinYear, 1, 1)
      /\ DayNumber(MinYear, 1, 1) \in Int
  <2>1. v.day \in Int /\ v.day <= 31 /\ 1 \in 1..12
    BY <1>1
  <2>2. ShiftedDay(v, d) < DayNumber(MinYear, 1, 1)
    BY <1>1, <1>2, <2>1, BeforeYear
  <2>3. ShiftedDay(v, d) \in Int
    BY <1>2, <2>1, DayNumberInt
  <2>4. DayNumber(MinYear, 1, 1) \in Int
    BY <1>1, <2>1, DayNumberInt
  <2> QED BY <2>2, <2>3, <2>4
<1>9. DayReached(v, d) = ShiftedDay(v, d) + more \div 86400
  BY DEF DayReached
<1> QED BY <1>7, <1>8, <1>9
(* The loop gives up in the last December with a day after its 31st, or in *)
(* the first January with a day before its 1st; it has lost no day so far. *)
LEMMA LoopOverflowJustified ==
  ASSUME IInv, dt \in Finite
  PROVE  /\ CarryOverflow => DayReached(dt, dur) > DayNumber(MaxYear, 12, 31)
         /\ BorrowUnderflow => DayReached(dt, dur) <= DayNumber(MinYear, 1, 1)
<1>1. IsDuration(dur) /\ day \in Int /\ MinYear \in Int /\ MaxYear \in Int
  BY YearAssumption DEF IInv, TypeOK
<1>2. ShiftedDay(dt, dur) \in Int
  <2>1. SumYear(dt, dur) \in Int /\ SumMonth(dt, dur) \in 1..12 /\ dt.day \in Int
    BY <1>1, ShiftedDayAnywhere DEF Finite
  <2>2. ShiftedDay(dt, dur) = DayNumber(SumYear(dt, dur), SumMonth(dt, dur), dt.day)
    BY <1>1, ShiftedDayAnywhere
  <2> QED BY <2>1, <2>2, DayNumberInt
<1>3. ASSUME pc = "carry", NEW year \in Int, NEW month \in 1..12,
             e.year = year, e.month = month
      PROVE  /\ DayNumber(year, month, day) \in Int
             /\ DayNumber(year, month, day) <= DayReached(dt, dur)
             /\ DayReached(dt, dur) <= DayNumber(year, month, day) + 1
             /\ DayReached(dt, dur) \in Int
  <2>1. e \in Dayless /\ Reaches(dt, dur, DayNumber(year, month, day), e)
    BY <1>3 DEF IInv, TypeOK, CarryExact
  <2>2. DayNumber(year, month, day) \in Int
    BY <1>1, <1>3, DayNumberInt
  <2>3. /\ DayNumber(year, month, day) <= DayReached(dt, dur)
        /\ DayReached(dt, dur) <= DayNumber(year, month, day) + 1
    BY <1>1, <1>2, <2>1, <2>2, ReachedWithinDay
  <2>4. DayReached(dt, dur) \in Int
    <3>1. /\ SecondOfDay(dt) \in Int /\ dur.seconds \in Int
          /\ dt.nanosecond \in Int /\ dur.nanoseconds \in Int
      BY <1>1, SecondOfDayRange, FieldInts, GigaInt DEF IsDuration, DateTimes
    <3>2. (dt.nanosecond + dur.nanoseconds) \div Giga \in Int
      BY <3>1, GigaQuotient
    <3> QED BY <1>2, <3>1, <3>2 DEF DayReached
  <2> QED BY <2>2, <2>3, <2>4
<1>4. ASSUME CarryOverflow
      PROVE  DayReached(dt, dur) > DayNumber(MaxYear, 12, 31)
  <2>1. /\ pc = "carry" /\ e.year = MaxYear /\ e.month = 12 /\ day > 31
        /\ 12 \in 1..12
    BY <1>4 DEF CarryOverflow, DaysInMonth
  <2>2. DayNumber(MaxYear, 12, day) > DayNumber(MaxYear, 12, 31)
    BY <1>1, <2>1, DaysBeforeInts DEF DayNumber
  <2>3. DayNumber(MaxYear, 12, 31) \in Int
    BY <1>1, <2>1, DayNumberInt
  <2>4. /\ DayNumber(MaxYear, 12, day) \in Int /\ DayReached(dt, dur) \in Int
        /\ DayNumber(MaxYear, 12, day) <= DayReached(dt, dur)
    BY <1>1, <1>3, <2>1
  <2> QED BY <2>2, <2>3, <2>4
<1>5. ASSUME BorrowUnderflow
      PROVE  DayReached(dt, dur) <= DayNumber(MinYear, 1, 1)
  <2>1. /\ pc = "carry" /\ e.year = MinYear /\ e.month = 1 /\ day < 1
        /\ 1 \in 1..12
    BY <1>5 DEF BorrowUnderflow
  <2>2. DayNumber(MinYear, 1, day) + 1 <= DayNumber(MinYear, 1, 1)
    BY <1>1, <2>1, DaysBeforeInts DEF DayNumber
  <2>3. DayNumber(MinYear, 1, 1) \in Int
    BY <1>1, <2>1, DayNumberInt
  <2>4. /\ DayNumber(MinYear, 1, day) \in Int /\ DayReached(dt, dur) \in Int
        /\ DayReached(dt, dur) <= DayNumber(MinYear, 1, day) + 1
    BY <1>1, <1>3, <2>1
  <2> QED BY <2>2, <2>3, <2>4
<1> QED BY <1>4, <1>5

(* What is returned is an infinity of the kind that the step names,        *)
(* whatever the conversion to UTC does to its zone.                        *)
LEMMA ReturnedInfinity ==
  ASSUME NEW zone \in AllZones
  PROVE  /\ Return(InfiniteFuture(zone)) => dt' \in Futures
         /\ Return(InfinitePast(zone)) => dt' \in Pasts
<1>1. Utc \in AllZones
  BY DEF AllZones
<1>2. [InfiniteFuture(zone) EXCEPT !.zone = Utc] = InfiniteFuture(Utc)
  BY DEF InfiniteFuture
<1>3. [InfinitePast(zone) EXCEPT !.zone = Utc] = InfinitePast(Utc)
  BY DEF InfinitePast
<1> QED BY <1>1, <1>2, <1>3 DEF Return, Futures, Pasts

(* A finite value becomes an infinity only when the sum is outside the     *)
(* years of the type, or on the first day of the first of them.            *)
THEOREM OverflowsAreJustified == Spec => OverflowJustified
<1>1. ASSUME IInv, [Next]_vars, Returns, dt \in Finite
      PROVE  /\ dt' \in Futures => DayReached(dt, dur) > DayNumber(MaxYear, 12, 31)
             /\ dt' \in Pasts => DayReached(dt, dur) <= DayNumber(MinYear, 1, 1)
  <2>1. Finish
    BY <1>1, ReturnsFinish
  <2>2. dt.zone \in AllZones /\ IsDuration(dur)
    BY <1>1, FieldInts DEF IInv, TypeOK
  <2>3. pc = "carry" => e.zone \in AllZones
    BY <1>1 DEF IInv, TypeOK, Dayless
  <2>4. CASE YearOverflow
    <3>1. DayReached(dt, dur) > DayNumber(MaxYear, 12, 31)
      BY <1>1, <2>2, <2>4, YearOverflowJustified DEF YearOverflow
    <3>2. dt' \in Futures
      BY <2>2, <2>4, ReturnedInfinity DEF YearOverflow
    <3> QED BY <3>1, <3>2, InfinitiesApart
  <2>5. CASE YearUnderflow
    <3>1. DayReached(dt, dur) <= DayNumber(MinYear, 1, 1)
      BY <1>1, <2>2, <2>5, YearUnderflowJustified DEF YearUnderflow
    <3>2. dt' \in Pasts
      BY <2>2, <2>5, ReturnedInfinity DEF YearUnderflow
    <3> QED BY <3>1, <3>2, InfinitiesApart
  <2>6. CASE BorrowUnderflow
    <3>1. DayReached(dt, dur) <= DayNumber(MinYear, 1, 1)
      BY <1>1, <2>6, LoopOverflowJustified
    <3>2. dt' \in Pasts
      BY <2>3, <2>6, ReturnedInfinity DEF BorrowUnderflow
    <3> QED BY <3>1, <3>2, InfinitiesApart
  <2>7. CASE CarryOverflow
    <3>1. DayReached(dt, dur) > DayNumber(MaxYear, 12, 31)
      BY <1>1, <2>7, LoopOverflowJustified
    <3>2. dt' \in Futures
      BY <2>3, <2>7, ReturnedInfinity DEF CarryOverflow
    <3> QED BY <3>1, <3>2, InfinitiesApart
  <2>8. CASE SetDay
    <3>1. Return([e EXCEPT !.day = day]) /\ [e EXCEPT !.day = day] \in Finite
      BY <1>1, <2>8, SetDayValue
    <3>2. dt' \in Finite
      BY <3>1 DEF Return, Finite, AllZones
    <3> QED BY <3>2, InfinitiesApart
  <2> QED BY <2>1, <2>4, <2>5, <2>6, <2>7, <2>8 DEF Finish
<1>2. IInv /\ [Next]_vars
        => [(Returns /\ dt \in Finite)
              => /\ dt' \in Futures => DayReached(dt, dur) > DayNumber(MaxYear, 12, 31)
                 /\ dt' \in Pasts => DayReached(dt, dur) <= DayNumber(MinYear, 1, 1)]_vars
  BY <1>1
<1> QED BY <1>2, SpecIInv, PTL DEF Spec, OverflowJustified

-----------------------------------------------------------------------------
(* The conversion to UTC.  What it adds is a multiple of a quarter of an   *)
(* hour and less than a day, and no field of a finite value is negative,   *)
(* so that no sum of two fields is a negative multiple of the unit.        *)
UtcNormal ==
  /\ (pc # "idle" /\ toUtc) => dur = UtcOffset(dt)
  /\ (pc = "carry" /\ toUtc) => IsNormal(e)

(* No step of a conversion leaves a field that is not normal.              *)
LEMMA UtcNormalStep == IInv /\ IInv' /\ UtcNormal /\ [Next]_vars => UtcNormal'
<1> SUFFICES ASSUME IInv, IInv', UtcNormal, [Next]_vars PROVE UtcNormal'
  OBVIOUS
<1>1. CASE CallAdd
  BY <1>1 DEF CallAdd, Call, UtcNormal
<1>2. CASE CallToUtc
  BY <1>2 DEF CallToUtc, Call, UtcNormal
<1>3. CASE AddFields
  <2>1. UNCHANGED <<dt, dur, toUtc>> /\ pc = "called" /\ pc' = "carry"
    BY <1>3 DEF AddFields
  <2>2. SUFFICES ASSUME toUtc PROVE IsNormal(e')
    BY <2>1 DEF UtcNormal, IsNormal
  <2>3. dur = UtcOffset(dt)
    BY <2>1, <2>2 DEF UtcNormal
  <2>4. dt \in Finite
    <3>1. dur.months = 0
      BY <2>3 DEF UtcOffset, Duration
    <3> QED BY <2>1, <3>1 DEF IInv, FiniteCarried
  <2>5. e' = SumFields(dt, UtcOffset(dt))
    BY <1>3, <2>3 DEF AddFields
  <2>6. dt.zone \in Offsets /\ UtcOffset(dt) = ZoneOffset(dt.zone)
    BY <2>4, ZonesAreOffsets DEF Finite, UtcOffset, ZoneOffset
  <2> QED BY <2>4, <2>5, <2>6, SumNormal
<1>4. CASE BorrowMonth \/ CarryMonth
  <2>1. UNCHANGED <<dt, dur, toUtc, pc>> /\ pc = "carry" /\ e \in Dayless
    BY <1>4 DEF BorrowMonth, CarryMonth, IInv, TypeOK
  <2>2. /\ e'.hour = e.hour /\ e'.minute = e.minute /\ e'.second = e.second
        /\ e'.nanosecond = e.nanosecond
    BY <1>4, <2>1 DEF BorrowMonth, CarryMonth, Dayless
  <2> QED BY <2>1, <2>2 DEF UtcNormal, IsNormal
<1>5. CASE Finish
  BY <1>5 DEF Finish, YearOverflow, YearUnderflow, BorrowUnderflow, CarryOverflow, SetDay, Return, UtcNormal
<1>6. CASE UNCHANGED vars
  BY <1>6 DEF vars, UtcNormal, IsNormal
<1> QED BY <1>1, <1>2, <1>3, <1>4, <1>5, <1>6 DEF Next, Step

(* Every finite result of exess_date_time_to_utc has normal fields, so     *)
(* that comparing them one by one compares times.                          *)
THEOREM ToUtcIsNormal == Spec => ToUtcNormalizes
<1>1. Init => UtcNormal
  BY DEF Init, UtcNormal
<1>2. Spec => []UtcNormal
  BY <1>1, SpecIInv, UtcNormalStep, PTL DEF Spec
<1>3. ASSUME IInv, UtcNormal, [Next]_vars, Returns, toUtc, dt' \in Finite
      PROVE  dt'.zone = Utc /\ IsNormal(dt')
  <2>1. Finish
    BY <1>3, ReturnsFinish
  <2>2. SetDay
    <3>1. ASSUME NEW v \in Futures \cup Pasts, Return(v) PROVE dt' \notin Finite
      <4>1. dt'.month = v.month
        BY <3>1 DEF Return, Futures, Pasts, InfiniteFuture, InfinitePast
      <4>2. v.month = 255 \/ v.month = 0
        BY <3>1 DEF Futures, Pasts, InfiniteFuture, InfinitePast, UInt8Max
      <4> QED BY <4>1, <4>2 DEF Finite
    <3> QED BY <1>3, <2>1, <3>1, FinishValue
  <2>3. pc = "carry" /\ e \in Dayless /\ IsNormal(e)
    BY <1>3, <2>2 DEF SetDay, IInv, TypeOK, UtcNormal
  <2>4. dt' = [[e EXCEPT !.day = day] EXCEPT !.zone = Utc]
    BY <1>3, <2>2, SetDayValue DEF Return
  <2>5. /\ dt'.zone = Utc /\ dt'.hour = e.hour /\ dt'.minute = e.minute
        /\ dt'.second = e.second /\ dt'.nanosecond = e.nanosecond
    BY <2>3, <2>4 DEF Dayless
  <2> QED BY <2>3, <2>5 DEF IsNormal
<1>4. IInv /\ UtcNormal /\ [Next]_vars
        => [(Returns /\ toUtc /\ dt' \in Finite)
              => dt'.zone = Utc /\ IsNormal(dt')]_vars
  BY <1>3
<1> QED BY <1>2, <1>4, SpecIInv, PTL DEF Spec, ToUtcNormalizes

=============================================================================
