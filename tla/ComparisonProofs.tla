--------------------------- MODULE ComparisonProofs ---------------------------
(***************************************************************************)
(* Proofs about the order of dateTimes and of durations.                   *)
(***************************************************************************)
EXTENDS Comparison, CalendarProofs, WellFoundedInduction, FiniteSetTheorems

-----------------------------------------------------------------------------
(***************************************************************************)
(* Induction over a measure, and functions that are defined by iterating   *)
(* a move until there is none.                                             *)
(***************************************************************************)

(* A set of natural numbers has a least one.                               *)
LEMMA LeastNumber ==
  ASSUME NEW T \in SUBSET Nat, T # {}
  PROVE  \E n \in T : \A m \in T : n <= m
<1> DEFINE R == {p \in Nat \X Nat : p[1] < p[2]}
<1>1. IsWellFoundedOn(R, Nat)
  BY NatLessThanWellFounded, Zenon DEF OpToRel
<1>2. PICK n \in T : \A m \in T : <<m, n>> \notin R
  BY <1>1, WFMin, Zenon
<1>3. ASSUME NEW m \in T PROVE n <= m
  <2>1. n \in Nat /\ m \in Nat
    OBVIOUS
  <2>2. <<m, n>> \in Nat \X Nat /\ <<m, n>>[1] = m /\ <<m, n>>[2] = n
    BY <2>1
  <2>3. ~(m < n)
    BY <1>2, <2>2, Zenon
  <2> QED BY <2>1, <2>3
<1> QED BY <1>3

(* What holds of x whenever it holds of everything smaller holds of all.   *)
LEMMA MeasureInduction ==
  ASSUME NEW D, NEW size \in [D -> Nat], NEW Good,
         \A x \in D : (\A y \in D : size[y] < size[x] => y \in Good) => x \in Good
  PROVE  D \subseteq Good
<1> SUFFICES ASSUME NEW z \in D, z \notin Good PROVE FALSE
  OBVIOUS
<1> DEFINE T == {size[x] : x \in D \ Good}
<1>1. T \in SUBSET Nat /\ T # {}
  OBVIOUS
<1>2. PICK n \in T : \A m \in T : n <= m
  BY <1>1, LeastNumber, Zenon
<1>3. PICK x \in D \ Good : n = size[x]
  BY <1>2
<1>4. ASSUME NEW y \in D, size[y] < size[x], y \notin Good PROVE FALSE
  <2>1. size[y] \in T /\ size[y] \in Nat /\ size[x] \in Nat
    BY <1>4
  <2>2. size[x] <= size[y]
    BY <1>2, <1>3, <2>1
  <2> QED BY <1>4, <2>1, <2>2
<1> QED BY <1>3, <1>4

(* The function that moves on from x as long as there is a move.           *)
Iterates(g, D, More, move, last) ==
  g = [x \in D |-> IF x \in More THEN g[move[x]] ELSE last[x]]

(* Moving on from x as long as there is a move is a function of x, whether *)
(* or not the moves end: the last of the states that every closed set with *)
(* x in it contains.                                                       *)
LEMMA Iteration ==
  ASSUME NEW D, NEW More, NEW move, NEW last,
         \A x \in More : x \in D /\ move[x] \in D
  PROVE  \E g : Iterates(g, D, More, move, last)
<1> DEFINE Closed(H) == \A x \in H : x \in More => move[x] \in H
           Path(x) == {y \in D : \A H \in SUBSET D : x \in H /\ Closed(H) => y \in H}
           g == [x \in D |-> last[CHOOSE y : y \in Path(x) \ More]]
<1>1. ASSUME NEW x \in D, x \in More
      PROVE  Path(x) \ More = Path(move[x]) \ More
  <2>1. ASSUME NEW y \in Path(x) \ More PROVE y \in Path(move[x])
    <3>1. ASSUME NEW H \in SUBSET D, move[x] \in H, Closed(H) PROVE y \in H
      <4>1. H \cup {x} \in SUBSET D /\ x \in H \cup {x} /\ Closed(H \cup {x})
        BY <3>1
      <4>2. y \in H \cup {x} /\ y # x
        BY <1>1, <2>1, <4>1
      <4> QED BY <4>2
    <3> QED BY <3>1
  <2>2. ASSUME NEW y \in Path(move[x]) PROVE y \in Path(x)
    <3>1. ASSUME NEW H \in SUBSET D, x \in H, Closed(H) PROVE y \in H
      <4>1. move[x] \in H
        BY <1>1, <3>1
      <4> QED BY <2>2, <3>1, <4>1
    <3> QED BY <3>1
  <2> QED BY <2>1, <2>2
<1>2. ASSUME NEW x \in D, x \notin More
      PROVE  (CHOOSE y : y \in Path(x) \ More) = x
  <2>1. {x} \in SUBSET D /\ x \in {x} /\ Closed({x})
    BY <1>2
  <2>2. ASSUME NEW y \in Path(x) PROVE y = x
    BY <2>1
  <2>3. x \in Path(x)
    OBVIOUS
  <2>4. \E y : y \in Path(x) \ More
    BY <1>2, <2>3
  <2> HIDE DEF Path
  <2>5. (CHOOSE y : y \in Path(x) \ More) \in Path(x)
    BY <2>4
  <2> QED BY <2>2, <2>5
<1> DEFINE End(x) == CHOOSE y : y \in Path(x) \ More
           h == [x \in D |-> IF x \in More THEN g[move[x]] ELSE last[x]]
<1>3. ASSUME NEW x \in D
      PROVE  g[x] = h[x]
  <2>1. \A y \in D : g[y] = last[End(y)]
    OBVIOUS
  <2>2. CASE x \in More
    <3>1. move[x] \in D /\ End(x) = End(move[x])
      BY <1>1, <2>2
    <3> HIDE DEF End, g
    <3> QED BY <2>1, <2>2, <3>1
  <2>3. CASE x \notin More
    <3>1. End(x) = x
      BY <1>2, <2>3
    <3> HIDE DEF End, g
    <3> QED BY <2>1, <2>3, <3>1
  <2> QED BY <2>2, <2>3
<1>4. g = [x \in D |-> g[x]]
  OBVIOUS
<1>5. g = h
  <2> HIDE DEF g
  <2> QED BY <1>3, <1>4
<1> QED BY <1>5, Zenon DEF Iterates

-----------------------------------------------------------------------------
(***************************************************************************)
(* The loop of carry_set_day as a function.                                *)
(***************************************************************************)

(* The states of the loop that go on to another month.                     *)
Borrows(p) == p[2] < 1 /\ (p[1].month > 1 \/ p[1].year # MinYear)

Carries(p) ==
  p[2] > DaysInMonth(p[1].year, p[1].month) /\ (p[1].month < 12 \/ p[1].year # MaxYear)

GoesOn == {p \in Loop : Borrows(p) \/ Carries(p)}

NextMonth(e, day) ==
  CASE day < 1 /\ e.month > 1 ->
         <<[e EXCEPT !.month = e.month - 1], day + DaysInMonth(e.year, e.month - 1)>>
    [] day < 1 /\ e.month = 1 ->
         <<[e EXCEPT !.year = e.year - 1, !.month = 12], day + 31>>
    [] day >= 1 /\ e.month < 12 ->
         <<[e EXCEPT !.month = e.month + 1], day - DaysInMonth(e.year, e.month)>>
    [] OTHER ->
         <<[e EXCEPT !.year = e.year + 1, !.month = 1], day - 31>>

LastMonth(e, day) ==
  CASE day < 1 -> InfinitePast(e.zone)
    [] day \in 1..DaysInMonth(e.year, e.month) -> [e EXCEPT !.day = day]
    [] OTHER -> InfiniteFuture(e.zone)

Moves == [p \in Loop |-> NextMonth(p[1], p[2])]
Ends == [p \in Loop |-> LastMonth(p[1], p[2])]

(* The length of a month, in the year of one of its states.                *)
LEMMA LoopParts ==
  ASSUME NEW e \in Dayless, NEW day \in Int
  PROVE  /\ <<e, day>> \in Loop
         /\ e.year \in MinYear..MaxYear /\ e.year \in Int /\ e.month \in 1..12
         /\ DaysInMonth(e.year, e.month) \in 28..31
         /\ e.month > 1 => DaysInMonth(e.year, e.month - 1) \in 28..31
         /\ e.month = 12 => DaysInMonth(e.year, e.month) = 31
         /\ Moves[<<e, day>>] = NextMonth(e, day)
         /\ Ends[<<e, day>>] = LastMonth(e, day)
         /\ <<e, day>> \in GoesOn
              <=> \/ day < 1 /\ (e.month > 1 \/ e.year # MinYear)
                  \/ /\ day > DaysInMonth(e.year, e.month)
                     /\ e.month < 12 \/ e.year # MaxYear
<1>1. <<e, day>> \in Loop /\ <<e, day>>[1] = e /\ <<e, day>>[2] = day
  BY DEF Loop
<1>2. e.year \in MinYear..MaxYear /\ e.year \in Int /\ e.month \in 1..12
  BY YearAssumption DEF Dayless
<1>3. DaysInMonth(e.year, e.month) \in 28..31
  BY <1>2, DaysInMonthRange
<1>4. e.month > 1 => DaysInMonth(e.year, e.month - 1) \in 28..31
  BY <1>2, DaysInMonthRange
<1>5. e.month = 12 => DaysInMonth(e.year, e.month) = 31
  BY DEF DaysInMonth
<1>6. Moves[<<e, day>>] = NextMonth(e, day) /\ Ends[<<e, day>>] = LastMonth(e, day)
  BY <1>1, Zenon DEF Moves, Ends
<1>7. <<e, day>> \in GoesOn
         <=> \/ day < 1 /\ (e.month > 1 \/ e.year # MinYear)
             \/ /\ day > DaysInMonth(e.year, e.month)
                /\ e.month < 12 \/ e.year # MaxYear
  BY <1>1, Zenon DEF GoesOn, Borrows, Carries
<1> QED BY <1>1, <1>2, <1>3, <1>4, <1>5, <1>6, <1>7, Zenon

(* Another month, of another year perhaps, of the same zone and time.      *)
SameTime(f, e) ==
  /\ f.zone = e.zone /\ f.hour = e.hour /\ f.minute = e.minute
  /\ f.second = e.second /\ f.nanosecond = e.nanosecond

LEMMA MonthSet ==
  ASSUME NEW e \in Dayless, NEW year \in MinYear..MaxYear, NEW month \in 1..12
  PROVE  LET f == [e EXCEPT !.year = year, !.month = month]
         IN  f \in Dayless /\ f.year = year /\ f.month = month /\ SameTime(f, e)
BY Zenon DEF Dayless, SameTime

(* A move of the loop to n days in the month of f: on the same day, and    *)
(* nearer to the end.                                                      *)
MovesTo(e, day, f, n) ==
  /\ NextMonth(e, day) = <<f, n>>
  /\ f \in Dayless /\ n \in Int
  /\ DayNumber(f.year, f.month, n) = DayNumber(e.year, e.month, day)
  /\ SameTime(f, e)
  /\ day < 1 => n > day
  /\ day >= 1 => n >= 1 /\ n < day
  /\ day < 1 /\ n >= 1 => n <= 31

(* A move stays on the same day and changes nothing but the month.         *)
LEMMA MoveSame ==
  ASSUME NEW e \in Dayless, NEW day \in Int, <<e, day>> \in GoesOn
  PROVE  \E f, n : MovesTo(e, day, f, n)
<1>1. /\ e.year \in MinYear..MaxYear /\ e.year \in Int /\ e.month \in 1..12
      /\ DaysInMonth(e.year, e.month) \in 28..31
      /\ e.month > 1 => DaysInMonth(e.year, e.month - 1) \in 28..31
      /\ e.month = 12 => DaysInMonth(e.year, e.month) = 31
  BY LoopParts
<1>2. CASE day < 1 /\ e.month > 1
  <2> DEFINE f == [e EXCEPT !.year = e.year, !.month = e.month - 1]
             n == day + DaysInMonth(e.year, e.month - 1)
  <2>1. e.month \in 2..12 /\ e.month - 1 \in 1..12
    BY <1>1, <1>2
  <2>2. f \in Dayless /\ f.year = e.year /\ f.month = e.month - 1 /\ SameTime(f, e)
    BY <1>1, <2>1, MonthSet, Zenon
  <2>3. DayNumber(f.year, f.month, n) = DayNumber(e.year, e.month, day)
    BY <1>1, <2>1, <2>2, BorrowSame
  <2>4. f = [e EXCEPT !.month = e.month - 1]
    BY DEF Dayless
  <2>5. NextMonth(e, day) = <<f, n>>
    BY <1>2, <2>4 DEF NextMonth
  <2>6. n \in Int /\ n > day /\ (n >= 1 => n <= 31) /\ ~(day >= 1)
    BY <1>1, <1>2
  <2>7. MovesTo(e, day, f, n)
    BY <1>2, <2>2, <2>3, <2>5, <2>6, Zenon DEF MovesTo
  <2> QED BY <2>7, Zenon
<1>3. CASE day < 1 /\ e.month = 1
  <2> DEFINE f == [e EXCEPT !.year = e.year - 1, !.month = 12]
             n == day + 31
  <2>1. e.year - 1 \in MinYear..MaxYear /\ 12 \in 1..12
    BY <1>1, <1>3, LoopParts, YearAssumption
  <2>2. f \in Dayless /\ f.year = e.year - 1 /\ f.month = 12 /\ SameTime(f, e)
    <3>1. PICK y \in MinYear..MaxYear, m \in 1..12 : y = e.year - 1 /\ m = 12
      BY <2>1
    <3> DEFINE t == [e EXCEPT !.year = y, !.month = m]
    <3>2. t \in Dayless /\ t.year = y /\ t.month = m /\ SameTime(t, e)
      BY MonthSet, Zenon
    <3>3. f = t
      BY <3>1
    <3> HIDE DEF f, t
    <3> QED BY <3>1, <3>2, <3>3
  <2>3. DayNumber(f.year, f.month, n) = DayNumber(e.year, e.month, day)
    <3>1. DaysInMonth(e.year - 1, 12) = 31
      BY DEF DaysInMonth
    <3> QED BY <1>1, <1>3, <2>2, <3>1, BorrowSameYear
  <2>4. NextMonth(e, day) = <<f, n>>
    BY <1>3 DEF NextMonth
  <2>5. n \in Int /\ n > day /\ (n >= 1 => n <= 31) /\ ~(day >= 1)
    BY <1>3
  <2>6. MovesTo(e, day, f, n)
    BY <1>3, <2>2, <2>3, <2>4, <2>5, Zenon DEF MovesTo
  <2> QED BY <2>6, Zenon
<1>4. CASE day >= 1 /\ e.month < 12
  <2>1. e.month \in 1..11 /\ e.month + 1 \in 1..12
    BY <1>1, <1>4
  <2> DEFINE f == [e EXCEPT !.year = e.year, !.month = e.month + 1]
             n == day - DaysInMonth(e.year, e.month)
  <2>2. f \in Dayless /\ f.year = e.year /\ f.month = e.month + 1 /\ SameTime(f, e)
    BY <1>1, <2>1, MonthSet, Zenon
  <2>3. DayNumber(f.year, f.month, n) = DayNumber(e.year, e.month, day)
    BY <1>1, <2>1, <2>2, CarrySame
  <2>4. f = [e EXCEPT !.month = e.month + 1]
    BY DEF Dayless
  <2>5. NextMonth(e, day) = <<f, n>>
    BY <1>4, <2>4 DEF NextMonth
  <2>6. n \in Int /\ n < day /\ n >= 1 /\ ~(day < 1)
    BY <1>1, <1>4, LoopParts
  <2>7. MovesTo(e, day, f, n)
    BY <1>4, <2>2, <2>3, <2>5, <2>6, Zenon DEF MovesTo
  <2> QED BY <2>7, Zenon
<1>5. CASE day >= 1 /\ e.month = 12
  <2>1. e.year + 1 \in MinYear..MaxYear /\ 1 \in 1..12
    <3>1. e.year # MaxYear
      BY <1>1, <1>5, LoopParts
    <3> QED BY <1>1, <3>1, YearAssumption
  <2> DEFINE f == [e EXCEPT !.year = e.year + 1, !.month = 1]
             n == day - 31
  <2>2. f \in Dayless /\ f.year = e.year + 1 /\ f.month = 1 /\ SameTime(f, e)
    BY <2>1, MonthSet, Zenon
  <2>3. DayNumber(f.year, f.month, n) = DayNumber(e.year, e.month, day)
    <3>1. DaysInMonth(e.year, 12) = 31
      BY DEF DaysInMonth
    <3> QED BY <1>1, <1>5, <2>2, <3>1, CarrySameYear
  <2>4. NextMonth(e, day) = <<f, n>>
    BY <1>5 DEF NextMonth
  <2>5. n \in Int /\ n < day /\ n >= 1 /\ ~(day < 1)
    BY <1>1, <1>5, LoopParts
  <2>6. MovesTo(e, day, f, n)
    BY <1>5, <2>2, <2>3, <2>4, <2>5, Zenon DEF MovesTo
  <2> QED BY <2>6, Zenon
<1> QED BY <1>1, <1>2, <1>3, <1>4, <1>5

(* The month that follows or precedes, or the result, as Carried has it.   *)
CarriedFrom(g, p) ==
  LET e == p[1]
      day == p[2]
  IN  CASE day < 1 /\ e.month > 1 ->
             g[<<[e EXCEPT !.month = e.month - 1],
                 day + DaysInMonth(e.year, e.month - 1)>>]
        [] day < 1 /\ e.month = 1 /\ e.year # MinYear ->
             g[<<[e EXCEPT !.year = e.year - 1, !.month = 12], day + 31>>]
        [] day < 1 /\ e.month = 1 /\ e.year = MinYear ->
             InfinitePast(e.zone)
        [] day \in 1..DaysInMonth(e.year, e.month) ->
             [e EXCEPT !.day = day]
        [] day > DaysInMonth(e.year, e.month) /\ e.month < 12 ->
             g[<<[e EXCEPT !.month = e.month + 1],
                 day - DaysInMonth(e.year, e.month)>>]
        [] day > DaysInMonth(e.year, e.month) /\ e.month = 12 /\ e.year # MaxYear ->
             g[<<[e EXCEPT !.year = e.year + 1, !.month = 1], day - 31>>]
        [] OTHER -> InfiniteFuture(e.zone)

(* It is a move or an end of the loop.                                     *)
LEMMA CarriedFromIs ==
  ASSUME NEW g, NEW e \in Dayless, NEW day \in Int
  PROVE  CarriedFrom(g, <<e, day>>)
           = IF <<e, day>> \in GoesOn THEN g[NextMonth(e, day)] ELSE LastMonth(e, day)
<1>1. /\ e.month \in 1..12 /\ DaysInMonth(e.year, e.month) \in 28..31
      /\ <<e, day>> \in GoesOn
           <=> \/ day < 1 /\ (e.month > 1 \/ e.year # MinYear)
               \/ /\ day > DaysInMonth(e.year, e.month)
                  /\ e.month < 12 \/ e.year # MaxYear
  BY LoopParts
<1> DEFINE days == DaysInMonth(e.year, e.month)
           onward == <<e, day>> \in GoesOn
<1> HIDE DEF days, onward
<1>2. days \in 28..31 /\ e.month \in 1..12
  BY <1>1 DEF days
<1>3. onward <=> \/ day < 1 /\ (e.month > 1 \/ e.year # MinYear)
                 \/ day > days /\ (e.month < 12 \/ e.year # MaxYear)
  BY <1>1 DEF days, onward
<1> QED BY <1>2, <1>3 DEF CarriedFrom, NextMonth, LastMonth, days, onward

(* Carried is what iterating the moves gives.                              *)
LEMMA CarriedIs ==
  Carried = [p \in Loop |-> IF p \in GoesOn THEN Carried[Moves[p]] ELSE Ends[p]]
<1> DEFINE Body(g) == [p \in Loop |-> IF p \in GoesOn THEN g[Moves[p]] ELSE Ends[p]]
<1>1. \A p \in GoesOn : p \in Loop /\ Moves[p] \in Loop
  <2> SUFFICES ASSUME NEW p \in GoesOn PROVE p \in Loop /\ Moves[p] \in Loop
    OBVIOUS
  <2>1. p \in Loop
    BY DEF GoesOn
  <2>2. PICK e \in Dayless, day \in Int : p = <<e, day>>
    BY <2>1 DEF Loop
  <2>3. \E f, n : MovesTo(e, day, f, n)
    BY <2>2, MoveSame
  <2>4. NextMonth(e, day) \in Loop
    BY <2>3 DEF MovesTo, Loop
  <2> QED BY <2>1, <2>2, <2>4, LoopParts
<1>2. \E g : Iterates(g, Loop, GoesOn, Moves, Ends)
  BY <1>1, Iteration, Zenon
<1> PICK g : Iterates(g, Loop, GoesOn, Moves, Ends)
  BY <1>2, Zenon
<1>7. g = Body(g)
  BY Zenon DEF Iterates
<1>3. ASSUME NEW h PROVE Body(h) = [p \in Loop |-> CarriedFrom(h, p)]
  <2>1. ASSUME NEW p \in Loop
        PROVE  CarriedFrom(h, p) = IF p \in GoesOn THEN h[Moves[p]] ELSE Ends[p]
    <3>1. PICK e \in Dayless, day \in Int : p = <<e, day>>
      BY DEF Loop
    <3> QED BY <3>1, CarriedFromIs, LoopParts
  <2> QED BY <2>1
<1>4. Carried = CHOOSE h : h = [p \in Loop |-> CarriedFrom(h, p)]
  BY Zenon DEF Carried, CarriedFrom
<1>5. g = [p \in Loop |-> CarriedFrom(g, p)]
  <2> HIDE DEF Body
  <2> QED BY <1>7, <1>3
<1>6. Carried = [p \in Loop |-> CarriedFrom(Carried, p)]
  BY <1>4, <1>5, Zenon
<1> QED BY <1>3, <1>6, Zenon

-----------------------------------------------------------------------------
(***************************************************************************)
(* What the loop results in: the same day, or an infinity if the calendar  *)
(* of the type ends before it.                                             *)
(***************************************************************************)

DayOf(v) == DayNumber(v.year, v.month, v.day)

FirstDay == DayNumber(MinYear, 1, 1)
LastDay == DayNumber(MaxYear, 12, 31)

(* v is day number n at the time and in the zone of e.                     *)
Lands(v, n, e) ==
  \/ v \in Finite /\ IsDate(v) /\ SameTime(v, e) /\ DayOf(v) = n
  \/ v = InfiniteFuture(e.zone) /\ LastDay < n
  \/ v = InfinitePast(e.zone) /\ n < FirstDay

LEMMA LandsSame ==
  ASSUME NEW v, NEW n, NEW e, NEW f, Lands(v, n, f), SameTime(f, e)
  PROVE  Lands(v, n, e)
<1>1. f.zone = e.zone
  BY DEF SameTime
<1>2. SameTime(v, f) => SameTime(v, e)
  BY DEF SameTime
<1> QED BY <1>1, <1>2, Zenon DEF Lands

(* The last month of the loop.                                             *)
LEMMA LastLands ==
  ASSUME NEW e \in Dayless, NEW day \in Int, <<e, day>> \notin GoesOn
  PROVE  Lands(LastMonth(e, day), DayNumber(e.year, e.month, day), e)
<1>1. /\ e.year \in MinYear..MaxYear /\ e.year \in Int /\ e.month \in 1..12
      /\ DaysInMonth(e.year, e.month) \in 28..31
      /\ e.month = 12 => DaysInMonth(e.year, e.month) = 31
      /\ ~\/ day < 1 /\ (e.month > 1 \/ e.year # MinYear)
          \/ /\ day > DaysInMonth(e.year, e.month)
             /\ e.month < 12 \/ e.year # MaxYear
  BY LoopParts
<1>2. CASE day < 1
  <2>1. e.month = 1 /\ e.year = MinYear
    BY <1>1, <1>2
  <2>2. DayNumber(e.year, e.month, day) < FirstDay
    <3>1. 1 \in 1..12 /\ MinYear \in Int
      BY YearAssumption
    <3>2. DaysBeforeYear(MinYear) \in Int /\ DaysBeforeMonth(MinYear, 1) \in Int
      BY <3>1, DaysBeforeInts, Zenon
    <3> QED BY <1>2, <2>1, <3>2 DEF DayNumber, FirstDay
  <2>3. LastMonth(e, day) = InfinitePast(e.zone)
    BY <1>2 DEF LastMonth
  <2> QED BY <2>2, <2>3 DEF Lands
<1>3. CASE day \in 1..DaysInMonth(e.year, e.month)
  <2> DEFINE f == [e EXCEPT !.day = day]
  <2>1. LastMonth(e, day) = f
    BY <1>1, <1>3 DEF LastMonth
  <2>2. day \in 1..31
    BY <1>1, <1>3
  <2>3. /\ f \in Finite /\ f.year = e.year /\ f.month = e.month /\ f.day = day
        /\ SameTime(f, e)
    BY <2>2 DEF Dayless, Finite, SameTime
  <2>4. IsDate(f)
    BY <1>1, <1>3, <2>3 DEF IsDate
  <2>5. DayOf(f) = DayNumber(e.year, e.month, day)
    BY <2>3, Zenon DEF DayOf
  <2> QED BY <2>1, <2>3, <2>4, <2>5, Zenon DEF Lands
<1>4. CASE day > DaysInMonth(e.year, e.month)
  <2>1. e.month = 12 /\ e.year = MaxYear /\ day > 31
    BY <1>1, <1>4
  <2>2. LastDay < DayNumber(e.year, e.month, day)
    <3>1. 12 \in 1..12 /\ MaxYear \in Int
      BY YearAssumption
    <3>2. DaysBeforeYear(MaxYear) \in Int /\ DaysBeforeMonth(MaxYear, 12) \in Int
      BY <3>1, DaysBeforeInts, Zenon
    <3> QED BY <2>1, <3>2 DEF DayNumber, LastDay
  <2>3. LastMonth(e, day) = InfiniteFuture(e.zone)
    BY <1>1, <1>4 DEF LastMonth
  <2> QED BY <2>2, <2>3 DEF Lands
<1> QED BY <1>1, <1>2, <1>3, <1>4

(* The loop keeps the day.                                                 *)
LEMMA CarriedLands ==
  ASSUME NEW e \in Dayless, NEW day \in Int
  PROVE  Lands(Carried[<<e, day>>], DayNumber(e.year, e.month, day), e)
<1> DEFINE Number(p) == DayNumber(p[1].year, p[1].month, p[2])
           Good == {p \in Loop : Lands(Carried[p], Number(p), p[1])}
           size == [p \in Loop |-> IF p[2] < 1 THEN 100 - p[2] ELSE p[2]]
<1>1. size \in [Loop -> Nat]
  BY DEF Loop
<1>2. ASSUME NEW x \in Loop, \A y \in Loop : size[y] < size[x] => y \in Good
      PROVE  x \in Good
  <2>1. PICK f \in Dayless, n \in Int : x = <<f, n>>
    BY DEF Loop
  <2>2. x[1] = f /\ x[2] = n /\ Number(x) = DayNumber(f.year, f.month, n)
    BY <2>1
  <2>3. Carried[x] = IF x \in GoesOn THEN Carried[Moves[x]] ELSE Ends[x]
    BY CarriedIs, Zenon
  <2>4. Moves[x] = NextMonth(f, n) /\ Ends[x] = LastMonth(f, n)
    BY <2>1, LoopParts
  <2>5. CASE x \notin GoesOn
    <3>1. Lands(LastMonth(f, n), DayNumber(f.year, f.month, n), f)
      BY <2>1, <2>5, LastLands
    <3> QED BY <2>2, <2>3, <2>4, <2>5, <3>1, Zenon
  <2>6. CASE x \in GoesOn
    <3>1. \E f2, n2 : MovesTo(f, n, f2, n2)
      BY <2>1, <2>6, MoveSame, Zenon
    <3>2. PICK f2, n2 : MovesTo(f, n, f2, n2)
      BY <3>1, Zenon
    <3> DEFINE y == <<f2, n2>>
    <3>3. /\ NextMonth(f, n) = y /\ f2 \in Dayless /\ n2 \in Int
          /\ DayNumber(f2.year, f2.month, n2) = DayNumber(f.year, f.month, n)
          /\ SameTime(f2, f)
      BY <3>2, Zenon DEF MovesTo
    <3>4. y \in Loop /\ y[1] = f2 /\ y[2] = n2
      BY <3>3 DEF Loop
    <3>5. size[y] < size[x]
      <4>1. size[y] = (IF n2 < 1 THEN 100 - n2 ELSE n2)
        BY <3>4, Zenon
      <4>2. size[x] = (IF n < 1 THEN 100 - n ELSE n)
        BY <2>2, Zenon
      <4>3. /\ n < 1 => n2 > n
            /\ n >= 1 => n2 >= 1 /\ n2 < n
            /\ n < 1 /\ n2 >= 1 => n2 <= 31
        BY <3>2, Zenon DEF MovesTo
      <4> QED BY <3>3, <4>1, <4>2, <4>3
    <3>6. y \in Good
      BY <1>2, <3>4, <3>5, Zenon
    <3>7. Lands(Carried[y], DayNumber(f2.year, f2.month, n2), f2)
      BY <3>4, <3>6, Zenon
    <3>8. Lands(Carried[y], DayNumber(f.year, f.month, n), f)
      BY <3>3, <3>7, LandsSame, Zenon
    <3> QED BY <2>2, <2>3, <2>4, <2>6, <3>3, <3>8, Zenon
  <2> QED BY <2>5, <2>6, Zenon
<1>3. Loop \subseteq Good
  <2> HIDE DEF Good, size
  <2> QED BY <1>1, <1>2, MeasureInduction, Zenon
<1>4. <<e, day>> \in Loop /\ <<e, day>>[1] = e /\ <<e, day>>[2] = day
  BY DEF Loop
<1> QED BY <1>3, <1>4, Zenon

-----------------------------------------------------------------------------
(***************************************************************************)
(* The order that compare_date_time_total finds, field by field.           *)
(***************************************************************************)

FieldsLess(l, r) ==
  \/ l.month < r.month
  \/ l.month = r.month /\ l.day < r.day
  \/ l.month = r.month /\ l.day = r.day /\ l.hour < r.hour
  \/ l.month = r.month /\ l.day = r.day /\ l.hour = r.hour /\ l.minute < r.minute
  \/ /\ l.month = r.month /\ l.day = r.day /\ l.hour = r.hour /\ l.minute = r.minute
     /\ l.second < r.second
  \/ /\ l.month = r.month /\ l.day = r.day /\ l.hour = r.hour /\ l.minute = r.minute
     /\ l.second = r.second /\ l.nanosecond < r.nanosecond

HasFields(v) ==
  /\ v.year \in Int /\ v.month \in Int /\ v.day \in Int /\ v.hour \in Int
  /\ v.minute \in Int /\ v.second \in Int /\ v.nanosecond \in Int

LEMMA DateTimesHaveFields ==
  ASSUME NEW v \in DateTimes
  PROVE  HasFields(v)
BY FieldInts DEF HasFields

Sign(less, greater) ==
  IF less THEN StrictlyLess ELSE IF greater THEN StrictlyGreater ELSE Equal

(* The first of the fields that differ is the least of their indices.      *)
LEMMA FirstDiffering ==
  ASSUME NEW S \in SUBSET (1..6), S # {}
  PROVE  Min(S) \in S /\ \A i \in S : Min(S) <= i
<1>1. S \in SUBSET Nat
  OBVIOUS
<1>2. \E n \in S : \A m \in S : n <= m
  BY <1>1, LeastNumber, Zenon
<1> QED BY <1>2, Zenon DEF Min

LEMMA CompareFieldsIs ==
  ASSUME NEW l, NEW r, HasFields(l), HasFields(r)
  PROVE  CompareFields(l, r) = Sign(FieldsLess(l, r), FieldsLess(r, l))
<1> DEFINE D == {i \in DOMAIN FieldNames : l[FieldNames[i]] # r[FieldNames[i]]}
           m == Min(D)
<1>1. /\ DOMAIN FieldNames = 1..6
      /\ FieldNames[1] = "month" /\ FieldNames[2] = "day" /\ FieldNames[3] = "hour"
      /\ FieldNames[4] = "minute" /\ FieldNames[5] = "second"
      /\ FieldNames[6] = "nanosecond"
  BY DEF FieldNames
<1>2. /\ 1 \in D <=> l.month # r.month
      /\ 2 \in D <=> l.day # r.day
      /\ 3 \in D <=> l.hour # r.hour
      /\ 4 \in D <=> l.minute # r.minute
      /\ 5 \in D <=> l.second # r.second
      /\ 6 \in D <=> l.nanosecond # r.nanosecond
  BY <1>1
<1>3. D \in SUBSET (1..6)
  BY <1>1
<1>4. CompareFields(l, r)
        = IF D = {} THEN Equal ELSE CompareField(l[FieldNames[m]], r[FieldNames[m]])
  BY Zenon DEF CompareFields
<1> HIDE DEF D, m
<1>5. CASE D = {}
  <2>1. ~FieldsLess(l, r) /\ ~FieldsLess(r, l)
    BY <1>2, <1>5 DEF FieldsLess, HasFields
  <2> QED BY <1>4, <1>5, <2>1 DEF Sign
<1>6. CASE D # {}
  <2>1. m \in D /\ \A i \in D : m <= i
    BY <1>3, <1>6, FirstDiffering, Zenon DEF m
  <2>2. CompareFields(l, r) = CompareField(l[FieldNames[m]], r[FieldNames[m]])
    BY <1>4, <1>6
  <2>3. CASE m = 1
    BY <1>1, <1>2, <2>1, <2>2, <2>3 DEF CompareField, FieldsLess, Sign, HasFields
  <2>4. CASE m = 2
    <3>1. 1 \notin D
      BY <2>1, <2>4
    <3> QED BY <1>1, <1>2, <2>1, <2>2, <2>4, <3>1 DEF CompareField, FieldsLess, Sign, HasFields
  <2>5. CASE m = 3
    <3>1. 1 \notin D /\ 2 \notin D
      BY <2>1, <2>5
    <3> QED BY <1>1, <1>2, <2>1, <2>2, <2>5, <3>1 DEF CompareField, FieldsLess, Sign, HasFields
  <2>6. CASE m = 4
    <3>1. 1 \notin D /\ 2 \notin D /\ 3 \notin D
      BY <2>1, <2>6
    <3> QED BY <1>1, <1>2, <2>1, <2>2, <2>6, <3>1 DEF CompareField, FieldsLess, Sign, HasFields
  <2>7. CASE m = 5
    <3>1. 1 \notin D /\ 2 \notin D /\ 3 \notin D /\ 4 \notin D
      BY <2>1, <2>7
    <3> QED BY <1>1, <1>2, <2>1, <2>2, <2>7, <3>1 DEF CompareField, FieldsLess, Sign, HasFields
  <2>8. CASE m = 6
    <3>1. 1 \notin D /\ 2 \notin D /\ 3 \notin D /\ 4 \notin D /\ 5 \notin D
      BY <2>1, <2>8
    <3> QED BY <1>1, <1>2, <2>1, <2>2, <2>8, <3>1 DEF CompareField, FieldsLess, Sign, HasFields
  <2> QED BY <1>3, <2>1, <2>3, <2>4, <2>5, <2>6, <2>7, <2>8
<1> QED BY <1>5, <1>6

(* The years as they are written come first.                               *)
Under(l, r) ==
  l.year < r.year \/ (l.year = r.year /\ FieldsLess(ToUtc(l), ToUtc(r)))

LEMMA CompareTotalIs ==
  ASSUME NEW l, NEW r, HasFields(l), HasFields(r),
         HasFields(ToUtc(l)), HasFields(ToUtc(r))
  PROVE  CompareTotal(l, r) = Sign(Under(l, r), Under(r, l))
<1>1. CompareFields(ToUtc(l), ToUtc(r))
        = Sign(FieldsLess(ToUtc(l), ToUtc(r)), FieldsLess(ToUtc(r), ToUtc(l)))
  BY CompareFieldsIs, Zenon
<1>2. l.year \in Int /\ r.year \in Int
  BY DEF HasFields
<1> DEFINE A == FieldsLess(ToUtc(l), ToUtc(r))
           B == FieldsLess(ToUtc(r), ToUtc(l))
           c == CompareFields(ToUtc(l), ToUtc(r))
<1> HIDE DEF A, B, c
<1>3. c = Sign(A, B)
  BY <1>1, Zenon DEF A, B, c
<1>4. /\ CompareTotal(l, r)
           = IF l.year # r.year THEN CompareField(l.year, r.year) ELSE c
      /\ Under(l, r) <=> (l.year < r.year \/ (l.year = r.year /\ A))
      /\ Under(r, l) <=> (r.year < l.year \/ (r.year = l.year /\ B))
  BY Zenon DEF CompareTotal, Under, A, B, c
<1> QED BY <1>2, <1>3, <1>4 DEF Sign, CompareField

(* It is a linear order of what is compared.                               *)
LEMMA FieldsLessLinear ==
  ASSUME NEW l, NEW m, NEW r, HasFields(l), HasFields(m), HasFields(r)
  PROVE  /\ ~(FieldsLess(l, r) /\ FieldsLess(r, l))
         /\ FieldsLess(l, m) /\ FieldsLess(m, r) => FieldsLess(l, r)
BY DEF FieldsLess, HasFields

LEMMA UnderLinear ==
  ASSUME NEW l, NEW m, NEW r, HasFields(l), HasFields(m), HasFields(r),
         HasFields(ToUtc(l)), HasFields(ToUtc(m)), HasFields(ToUtc(r))
  PROVE  /\ ~(Under(l, r) /\ Under(r, l))
         /\ Under(l, m) /\ Under(m, r) => Under(l, r)
<1>1. /\ ~(FieldsLess(ToUtc(l), ToUtc(r)) /\ FieldsLess(ToUtc(r), ToUtc(l)))
      /\ FieldsLess(ToUtc(l), ToUtc(m)) /\ FieldsLess(ToUtc(m), ToUtc(r))
           => FieldsLess(ToUtc(l), ToUtc(r))
  BY FieldsLessLinear, Zenon
<1>2. l.year \in Int /\ m.year \in Int /\ r.year \in Int
  BY DEF HasFields
<1> QED BY <1>1, <1>2 DEF Under

-----------------------------------------------------------------------------
(***************************************************************************)
(* The sum as a function.                                                  *)
(***************************************************************************)

LEMMA SumLands ==
  ASSUME NEW v \in DateTimes, NEW d, IsDuration(d),
         SumYear(v, d) \in MinYear..MaxYear
  PROVE  Lands(Sum(v, d), DayNumber(SumYear(v, d), SumMonth(v, d), DaySum(v, d)),
               SumFields(v, d))
<1> DEFINE e == SumFields(v, d)
           day == DaySum(v, d)
<1>1. e \in Dayless /\ day \in Int
  BY SumFieldsDayless
<1>2. e.year = SumYear(v, d) /\ e.month = SumMonth(v, d)
  BY DEF SumFields
<1>3. SumYear(v, d) \in Int /\ ~(SumYear(v, d) > MaxYear) /\ ~(SumYear(v, d) < MinYear)
  BY YearAssumption
<1>4. Sum(v, d) = Carried[<<e, day>>]
  BY <1>3, Zenon DEF Sum
<1>5. Lands(Carried[<<e, day>>], DayNumber(e.year, e.month, day), e)
  <2> HIDE DEF e, day
  <2> QED BY <1>1, CarriedLands, Zenon
<1> QED BY <1>2, <1>4, <1>5, Zenon

LEMMA SumYearInt ==
  ASSUME NEW v \in DateTimes, NEW d, IsDuration(d)
  PROVE  SumYear(v, d) \in Int
<1>1. v.year \in Int /\ CarryMonths(v, d) \in Int
  BY FieldInts, MonthParts
<1>2. d.months \in Int
  BY DEF IsDuration
<1>3. CDiv(d.months, 12) \in Int
  BY <1>2, DivRem12
<1> QED BY <1>1, <1>3 DEF SumYear

LEMMA SumType ==
  ASSUME NEW v \in DateTimes, NEW d, IsDuration(d)
  PROVE  Sum(v, d) \in DateTimes /\ Sum(v, d).zone = v.zone
<1>1. v.zone \in AllZones /\ SumYear(v, d) \in Int
  BY FieldInts, SumYearInt
<1>2. ASSUME NEW z \in AllZones
      PROVE  /\ InfiniteFuture(z) \in DateTimes /\ InfiniteFuture(z).zone = z
             /\ InfinitePast(z) \in DateTimes /\ InfinitePast(z).zone = z
  <2>1. InfiniteFuture(z).zone = z /\ InfinitePast(z).zone = z
    BY DEF InfiniteFuture, InfinitePast
  <2> QED BY <2>1 DEF DateTimes, Futures, Pasts
<1>3. CASE SumYear(v, d) > MaxYear
  <2>1. Sum(v, d) = InfiniteFuture(v.zone)
    BY <1>3, Zenon DEF Sum
  <2> QED BY <1>1, <1>2, <2>1
<1>4. CASE SumYear(v, d) < MinYear
  <2>1. ~(SumYear(v, d) > MaxYear)
    BY <1>1, <1>4, YearAssumption
  <2>2. Sum(v, d) = InfinitePast(v.zone)
    BY <1>4, <2>1, Zenon DEF Sum
  <2> QED BY <1>1, <1>2, <2>2
<1>5. CASE SumYear(v, d) \in MinYear..MaxYear
  <2>1. SumFields(v, d).zone = v.zone
    BY DEF SumFields
  <2>2. \/ Sum(v, d) \in Finite /\ SameTime(Sum(v, d), SumFields(v, d))
        \/ Sum(v, d) = InfiniteFuture(SumFields(v, d).zone)
        \/ Sum(v, d) = InfinitePast(SumFields(v, d).zone)
    BY <1>5, SumLands DEF Lands
  <2>3. CASE Sum(v, d) \in Finite /\ SameTime(Sum(v, d), SumFields(v, d))
    BY <2>1, <2>3 DEF DateTimes, SameTime
  <2>4. CASE \/ Sum(v, d) = InfiniteFuture(SumFields(v, d).zone)
             \/ Sum(v, d) = InfinitePast(SumFields(v, d).zone)
    BY <1>1, <1>2, <2>1, <2>4
  <2> QED BY <2>2, <2>3, <2>4
<1>6. \/ SumYear(v, d) > MaxYear \/ SumYear(v, d) < MinYear
      \/ SumYear(v, d) \in MinYear..MaxYear
  BY <1>1, YearAssumption
<1> QED BY <1>3, <1>4, <1>5, <1>6

(* A conversion.                                                           *)
LEMMA InUtc ==
  ASSUME NEW w \in DateTimes
  PROVE  LET u == [w EXCEPT !.zone = Utc]
         IN  /\ u \in DateTimes /\ u.zone = Utc
             /\ w \in Finite => u \in Finite
             /\ w \in Futures => u = InfiniteFuture(Utc)
             /\ w \in Pasts => u = InfinitePast(Utc)
             /\ /\ u.year = w.year /\ u.month = w.month /\ u.day = w.day
                /\ u.hour = w.hour /\ u.minute = w.minute /\ u.second = w.second
                /\ u.nanosecond = w.nanosecond
<1> DEFINE u == [w EXCEPT !.zone = Utc]
<1>1. Utc \in AllZones
  BY DEF AllZones
<1>2. ASSUME w \in Finite
      PROVE  /\ u \in Finite /\ u.zone = Utc
             /\ u.year = w.year /\ u.month = w.month /\ u.day = w.day
             /\ u.hour = w.hour /\ u.minute = w.minute /\ u.second = w.second
             /\ u.nanosecond = w.nanosecond
  BY <1>1, <1>2 DEF Finite
<1>3. ASSUME w \in Futures
      PROVE  /\ u = InfiniteFuture(Utc) /\ u.zone = Utc
             /\ u.year = w.year /\ u.month = w.month /\ u.day = w.day
             /\ u.hour = w.hour /\ u.minute = w.minute /\ u.second = w.second
             /\ u.nanosecond = w.nanosecond
  BY <1>3 DEF Futures, InfiniteFuture
<1>4. ASSUME w \in Pasts
      PROVE  /\ u = InfinitePast(Utc) /\ u.zone = Utc
             /\ u.year = w.year /\ u.month = w.month /\ u.day = w.day
             /\ u.hour = w.hour /\ u.minute = w.minute /\ u.second = w.second
             /\ u.nanosecond = w.nanosecond
  BY <1>4 DEF Pasts, InfinitePast
<1>5. InfiniteFuture(Utc) \in DateTimes /\ InfinitePast(Utc) \in DateTimes
  BY <1>1 DEF DateTimes, Futures, Pasts
<1>6. w \in Finite \/ w \in Futures \/ w \in Pasts
  BY DEF DateTimes
<1>7. Finite \subseteq DateTimes
  BY DEF DateTimes
<1> HIDE DEF u
<1>8. /\ u \in DateTimes /\ u.zone = Utc
      /\ w \in Finite => u \in Finite
      /\ w \in Futures => u = InfiniteFuture(Utc)
      /\ w \in Pasts => u = InfinitePast(Utc)
      /\ /\ u.year = w.year /\ u.month = w.month /\ u.day = w.day
         /\ u.hour = w.hour /\ u.minute = w.minute /\ u.second = w.second
         /\ u.nanosecond = w.nanosecond
  BY <1>2, <1>3, <1>4, <1>5, <1>6, <1>7, Zenon
<1> QED BY <1>8, Zenon DEF u

LEMMA ConvertedType ==
  ASSUME NEW v \in DateTimes, NEW d, IsDuration(d)
  PROVE  ToUtcBy(v, d) \in DateTimes /\ ToUtcBy(v, d).zone = Utc
BY SumType, InUtc, Zenon DEF ToUtcBy

(* The offset of a value is that of its zone, and fourteen hours are those *)
(* of the outermost zones.                                                 *)
LEMMA OffsetsAre ==
  /\ \A v : UtcOffset(v) = ZoneOffset(v.zone)
  /\ FourteenHours(-1) = ZoneOffset(56) /\ FourteenHours(1) = ZoneOffset(-56)
  /\ {-56, 56, 0} \subseteq Offsets
<1>1. \A v : UtcOffset(v) = ZoneOffset(v.zone)
  BY DEF UtcOffset, ZoneOffset
<1>2. FourteenHours(-1) = ZoneOffset(56) /\ FourteenHours(1) = ZoneOffset(-56)
  BY DEF FourteenHours, ZoneOffset
<1> QED BY <1>1, <1>2 DEF Offsets

(* The seconds from local time in a zone to UTC.                           *)
Shift(z) == -900 * z

LEMMA OffsetIsDuration ==
  ASSUME NEW z \in Offsets
  PROVE  /\ IsDuration(ZoneOffset(z)) /\ ZoneOffset(z).months = 0
         /\ ZoneOffset(z).nanoseconds = 0 /\ ZoneOffset(z).seconds = Shift(z)
         /\ z \in Int /\ Shift(z) \in Int
<1>1. z \in Int
  BY DEF Offsets, Local
<1>2. -z * 15 * 60 = Shift(z) /\ Shift(z) \in Int
  BY <1>1 DEF Shift
<1> QED BY <1>1, <1>2, GigaInt DEF ZoneOffset, Duration, IsDuration

LEMMA ToUtcType ==
  ASSUME NEW v \in DateTimes
  PROVE  /\ ToUtc(v) \in DateTimes /\ ToUtc(v).zone = Utc
         /\ HasFields(v) /\ HasFields(ToUtc(v))
<1>1. v.zone \in Offsets
  BY FieldInts, ZonesAreOffsets
<1>2. IsDuration(UtcOffset(v))
  BY <1>1, OffsetsAre, OffsetIsDuration
<1>3. ToUtc(v) \in DateTimes /\ ToUtc(v).zone = Utc
  BY <1>2, ConvertedType, Zenon DEF ToUtc
<1> QED BY <1>3, DateTimesHaveFields

-----------------------------------------------------------------------------
(***************************************************************************)
(* Where the values that are compared lie in time, as a single number of   *)
(* seconds, and where their conversions do.                                *)
(***************************************************************************)

DayLength == 86400

LEMMA DayLengthInt == DayLength \in Int /\ 0 < DayLength
BY DEF DayLength

Compared == {v \in Finite : IsReadable(v)} \cup Futures \cup Pasts

Seconds(v) == DayLength * DayOf(v) + SecondOfDay(v)

(* s seconds after v, where nothing is after the infinite future.          *)
Tick(v, s) ==
  IF v \in Futures THEN DayLength * DayNumber(MaxYear + 1, 12, 31)
  ELSE IF v \in Pasts THEN DayLength * DayNumber(MinYear - 1, 1, 1)
  ELSE Seconds(v) + s

Nano(v) == IF v \in Finite THEN v.nanosecond ELSE 0

(* u is the normal value in UTC with a number of seconds and nanoseconds.  *)
Placed(u, t, n) ==
  \/ /\ u \in Finite /\ IsDate(u) /\ IsNormal(u) /\ u.zone = Utc
     /\ Seconds(u) = t /\ u.nanosecond = n
  \/ u = InfiniteFuture(Utc) /\ DayLength * (LastDay + 1) <= t
  \/ u = InfinitePast(Utc) /\ t < DayLength * FirstDay

LEMMA DayInts ==
  /\ FirstDay \in Int /\ LastDay \in Int
  /\ DayNumber(MaxYear + 1, 12, 31) \in Int /\ DayNumber(MinYear - 1, 1, 1) \in Int
  /\ \A v \in Finite : DayOf(v) \in Int
<1>1. /\ MinYear \in Int /\ MaxYear \in Int /\ MinYear - 1 \in Int /\ MaxYear + 1 \in Int
      /\ 1 \in 1..12 /\ 12 \in 1..12 /\ 1 \in Int /\ 31 \in Int
  BY YearAssumption
<1>2. FirstDay \in Int /\ LastDay \in Int
  BY <1>1, DayNumberInt, Zenon DEF FirstDay, LastDay
<1>3. DayNumber(MaxYear + 1, 12, 31) \in Int /\ DayNumber(MinYear - 1, 1, 1) \in Int
  BY <1>1, DayNumberInt, Zenon
<1>4. ASSUME NEW v \in Finite PROVE DayOf(v) \in Int
  <2>1. v.year \in Int /\ v.month \in 1..12 /\ v.day \in Int
    BY YearAssumption DEF Finite
  <2> QED BY <2>1, DayNumberInt DEF DayOf
<1> QED BY <1>2, <1>3, <1>4

LEMMA SecondInts ==
  ASSUME NEW v \in Finite \cup Dayless
  PROVE  /\ SecondOfDay(v) \in Int /\ 0 <= SecondOfDay(v)
         /\ IsNormal(v) => SecondOfDay(v) < DayLength
<1>1. v.hour \in 0..24 /\ v.minute \in 0..60 /\ v.second \in 0..60
  BY DEF Finite, Dayless
<1> DEFINE Time(h, m, s) == h * 3600 + m * 60 + s
<1>2. \A h \in 0..24, m \in 0..60, s \in 0..60 :
        /\ Time(h, m, s) \in Int /\ 0 <= Time(h, m, s)
        /\ h <= 23 /\ m <= 59 /\ s <= 59 => Time(h, m, s) < DayLength
  BY DEF DayLength
<1>3. SecondOfDay(v) = Time(v.hour, v.minute, v.second)
  BY DEF SecondOfDay
<1> HIDE DEF Time
<1> QED BY <1>1, <1>2, <1>3, Zenon DEF IsNormal

(* The loop ends on day n, after t seconds in all.                         *)
Arrives(v, d, n, t) ==
  /\ Lands(Sum(v, d), n, SumFields(v, d))
  /\ SumFields(v, d) \in Dayless /\ IsNormal(SumFields(v, d))
  /\ SumFields(v, d).nanosecond = v.nanosecond
  /\ DayLength * n + SecondOfDay(SumFields(v, d)) = t

(* The time of a sum with the offset of a zone.                            *)
LEMMA OffsetSum ==
  ASSUME NEW v \in Finite, v.nanosecond < Giga, NEW z \in Offsets,
         NEW d, d = ZoneOffset(z)
  PROVE  \E n \in Int : Arrives(v, d, n, Seconds(v) + Shift(z))
<1> DEFINE e == SumFields(v, d)
           n == DayNumber(SumYear(v, d), SumMonth(v, d), DaySum(v, d))
<1>1. IsDuration(d) /\ d.months = 0 /\ d.nanoseconds = 0 /\ d.seconds = Shift(z) /\ Shift(z) \in Int
  BY OffsetIsDuration
<1>2. /\ v \in DateTimes /\ v.year \in MinYear..MaxYear /\ v.year \in Int
      /\ v.month \in 1..12 /\ v.nanosecond \in 0..Giga
  BY FieldInts DEF DateTimes, Finite
<1>3. SumYear(v, d) = v.year /\ SumMonth(v, d) = v.month
  <2>1. CDiv(d.months, 12) = 0 /\ CRem(d.months, 12) = 0
    BY <1>1 DEF CDiv, CRem
  <2>2. CDiv(v.month - 1, 12) = 0 /\ CRem(v.month - 1, 12) = v.month - 1
    BY <1>2 DEF CDiv, CRem
  <2> QED BY <1>2, <2>1, <2>2
          DEF SumYear, SumMonth, CarryMonths, MonthModulo, MonthQuotient
<1>4. Lands(Sum(v, d), n, e)
  BY <1>1, <1>2, <1>3, SumLands
<1>5. e \in Dayless /\ DaySum(v, d) \in Int
  BY <1>1, <1>2, <1>3, SumFieldsDayless
<1>6. n \in Int
  BY <1>2, <1>3, <1>5, DayNumberInt
<1>7. IsNormal(e)
  BY SumNormal
<1>8. e.nanosecond = v.nanosecond
  <2>1. NanosecondSum(v, d) = v.nanosecond
    BY <1>1, <1>2, GigaInt DEF NanosecondSum
  <2>2. v.nanosecond \in Int /\ 0 <= v.nanosecond
    BY <1>2, GigaInt
  <2>3. FieldOf(v.nanosecond, Giga) = v.nanosecond
    <3>1. CRem(v.nanosecond, Giga) = v.nanosecond
      BY <2>2, SMT DEF CRem, CDiv, Giga
    <3> QED BY <2>2, <3>1 DEF FieldOf
  <2> QED BY <2>1, <2>3 DEF SumFields
<1>9. Reaches(v, d, n, e)
  BY <1>1, <1>2, <1>3, SumReaches
<1>10. ShiftedDay(v, d) = DayOf(v)
  BY <1>1, <1>2, <1>3, ShiftedDayIs DEF DayOf
<1>11. SecondOfDay(e) - SecondOfDay(v) = d.seconds - DayLength * (n - DayOf(v))
  <2>1. e.nanosecond - v.nanosecond - d.nanoseconds = 0
    BY <1>1, <1>2, <1>8, GigaInt
  <2>2. 0 \div Giga = 0
    BY DEF Giga
  <2>3. SecondOfDay(e) - SecondOfDay(v) + 0 = d.seconds - DayLength * (n - DayOf(v))
    BY <1>9, <1>10, <2>1, <2>2 DEF Reaches, DayLength
  <2>4. SecondOfDay(e) \in Int /\ SecondOfDay(v) \in Int
    BY <1>5, SecondInts
  <2> QED BY <2>3, <2>4
<1>12. DayOf(v) \in Int /\ SecondOfDay(e) \in Int /\ SecondOfDay(v) \in Int
  BY <1>5, DayInts, SecondInts
<1>13. DayLength * n + SecondOfDay(e) = Seconds(v) + Shift(z)
  <2>1. d.seconds = Shift(z) /\ Shift(z) \in Int
    BY <1>1, Zenon
  <2> HIDE DEF n, e
  <2>2. DayLength * n + SecondOfDay(e) = DayLength * DayOf(v) + SecondOfDay(v) + Shift(z)
    BY <1>6, <1>11, <1>12, <2>1 DEF DayLength
  <2> QED BY <2>2, Zenon DEF Seconds
<1>14. Arrives(v, d, n, Seconds(v) + Shift(z))
  BY <1>4, <1>5, <1>7, <1>8, <1>13, Zenon DEF Arrives
<1> QED BY <1>6, <1>14, Zenon

(* A conversion is at its place, or an infinity if there is none.          *)
LEMMA FinitePlaced ==
  ASSUME NEW v \in Finite, v.nanosecond < Giga, NEW z \in Offsets
  PROVE  Placed(ToUtcBy(v, ZoneOffset(z)), Seconds(v) + Shift(z), v.nanosecond)
<1> DEFINE d == ZoneOffset(z)
           e == SumFields(v, d)
           w == Sum(v, d)
           u == ToUtcBy(v, d)
           t == Seconds(v) + Shift(z)
<1>0. PICK n \in Int : Arrives(v, d, n, t)
  BY OffsetSum, Zenon
<1>1. /\ Lands(w, n, e)
      /\ e \in Dayless /\ IsNormal(e) /\ e.nanosecond = v.nanosecond
      /\ DayLength * n + SecondOfDay(e) = t
  BY <1>0, Zenon DEF Arrives
<1>2. /\ SecondOfDay(e) \in Int /\ 0 <= SecondOfDay(e)
      /\ SecondOfDay(e) < DayLength
  BY <1>1, SecondInts, Zenon
<1>3. w \in DateTimes /\ u = [w EXCEPT !.zone = Utc]
  <2>1. v \in DateTimes
    BY DEF DateTimes
  <2>2. w \in DateTimes
    BY <2>1, OffsetIsDuration, SumType, Zenon
  <2> QED BY <2>2, Zenon DEF ToUtcBy
<1>4. /\ u.zone = Utc
      /\ w \in Finite => u \in Finite
      /\ w \in Futures => u = InfiniteFuture(Utc)
      /\ w \in Pasts => u = InfinitePast(Utc)
      /\ /\ u.year = w.year /\ u.month = w.month /\ u.day = w.day
         /\ u.hour = w.hour /\ u.minute = w.minute /\ u.second = w.second
         /\ u.nanosecond = w.nanosecond
  BY <1>3, InUtc, Zenon
<1>5. e.zone \in AllZones
  BY <1>1 DEF Dayless
<1>6. FirstDay \in Int /\ LastDay \in Int
  BY DayInts
<1> HIDE DEF e, w, u, t
<1>7. CASE w \in Finite /\ IsDate(w) /\ SameTime(w, e) /\ DayOf(w) = n
  <2>1. IsDate(u) /\ DayOf(u) = n
    BY <1>4, <1>7 DEF IsDate, DayOf
  <2>2. SecondOfDay(u) = SecondOfDay(e) /\ IsNormal(u) /\ u.nanosecond = v.nanosecond
    BY <1>1, <1>4, <1>7 DEF SameTime, SecondOfDay, IsNormal
  <2>3. Seconds(u) = t
    BY <1>1, <2>1, <2>2, Zenon DEF Seconds
  <2> QED BY <1>4, <1>7, <2>1, <2>2, <2>3, Zenon DEF Placed, u, t
<1>8. CASE w = InfiniteFuture(e.zone) /\ LastDay < n
  <2>1. u = InfiniteFuture(Utc)
    BY <1>4, <1>5, <1>8 DEF Futures
  <2>2. DayLength * (LastDay + 1) <= t
    BY <1>1, <1>2, <1>6, <1>8 DEF DayLength
  <2> QED BY <2>1, <2>2, Zenon DEF Placed, u, t
<1>9. CASE w = InfinitePast(e.zone) /\ n < FirstDay
  <2>1. u = InfinitePast(Utc)
    BY <1>4, <1>5, <1>9 DEF Pasts
  <2>2. t < DayLength * FirstDay
    BY <1>1, <1>2, <1>6, <1>9 DEF DayLength
  <2> QED BY <2>1, <2>2, Zenon DEF Placed, u, t
<1> QED BY <1>1, <1>7, <1>8, <1>9, Zenon DEF Lands

(* The infinities lie more than a year outside of the calendar.            *)
LEMMA YearsOutside ==
  /\ LastDay + 365 <= DayNumber(MaxYear + 1, 12, 31)
  /\ DayNumber(MinYear - 1, 1, 1) + 365 <= FirstDay
  /\ FirstDay <= LastDay
<1>1. /\ MinYear \in Int /\ MaxYear \in Int /\ MinYear <= MaxYear
      /\ MinYear - 1 \in Int /\ MaxYear + 1 \in Int /\ (MinYear - 1) + 1 = MinYear
  BY YearAssumption
<1>2. \A y \in Int : /\ DaysBeforeYear(y + 1) = DaysBeforeYear(y) + DaysBeforeMonth(y, 12) + 31
                     /\ DaysBeforeYear(y) \in Int
                     /\ DaysBeforeMonth(y, 12) \in 334..335 /\ DaysBeforeMonth(y, 1) = 0
  <2> SUFFICES ASSUME NEW y \in Int
               PROVE  /\ DaysBeforeYear(y + 1)
                           = DaysBeforeYear(y) + DaysBeforeMonth(y, 12) + 31
                      /\ DaysBeforeYear(y) \in Int
                      /\ DaysBeforeMonth(y, 12) \in 334..335 /\ DaysBeforeMonth(y, 1) = 0
    OBVIOUS
  <2>1. DaysInMonth(y, 12) = 31
    BY DEF DaysInMonth
  <2>2. DaysBeforeMonth(y, 12) \in 334..335 /\ DaysBeforeMonth(y, 1) = 0
    BY DEF DaysBeforeMonth
  <2>3. 1 \in 1..12 /\ DaysBeforeYear(y) \in Int
    BY DaysBeforeInts
  <2> QED BY <2>1, <2>2, <2>3, YearStep
<1>3. LastDay + 365 <= DayNumber(MaxYear + 1, 12, 31)
  BY <1>1, <1>2 DEF LastDay, DayNumber
<1>4. DayNumber(MinYear - 1, 1, 1) + 365 <= FirstDay
  BY <1>1, <1>2 DEF FirstDay, DayNumber
<1>5. FirstDay <= LastDay
  <2>1. DaysBeforeYear(MinYear) <= DaysBeforeYear(MaxYear)
    BY <1>1, YearsInOrder
  <2> QED BY <1>1, <1>2, <2>1 DEF FirstDay, LastDay, DayNumber
<1> QED BY <1>3, <1>4, <1>5

(* An infinity stays the same in every zone.                               *)
LEMMA InfinitePlaced ==
  ASSUME NEW v \in Futures \cup Pasts, NEW z \in Offsets
  PROVE  LET u == ToUtcBy(v, ZoneOffset(z))
         IN  /\ v \in Futures => u = InfiniteFuture(Utc)
             /\ v \in Pasts => u = InfinitePast(Utc)
             /\ Placed(u, Tick(v, Shift(z)), Nano(v))
<1> DEFINE d == ZoneOffset(z)
           u == ToUtcBy(v, d)
<1>1. IsDuration(d) /\ d.months = 0 /\ v \in DateTimes
  BY OffsetIsDuration DEF DateTimes
<1>2. v.zone \in AllZones /\ SumYear(v, d) \in Int
  BY <1>1, FieldInts, SumYearInt, Zenon
<1>3. FirstDay \in Int /\ LastDay \in Int
      /\ DayNumber(MaxYear + 1, 12, 31) \in Int /\ DayNumber(MinYear - 1, 1, 1) \in Int
  BY DayInts
<1> HIDE DEF d
<1>4. CASE v \in Futures
  <2>1. Sum(v, d) = InfiniteFuture(v.zone)
    BY <1>1, <1>4, FutureOverflows, Zenon DEF Sum
  <2>2. Sum(v, d) \in Futures /\ Sum(v, d) \in DateTimes
    BY <1>2, <2>1 DEF Futures, DateTimes
  <2>3. u = InfiniteFuture(Utc)
    BY <2>2, InUtc, Zenon DEF ToUtcBy
  <2>4. DayLength * (LastDay + 1) <= Tick(v, Shift(z))
    <3>1. Tick(v, Shift(z)) = DayLength * DayNumber(MaxYear + 1, 12, 31)
      BY <1>4, Zenon DEF Tick
    <3> QED BY <1>3, <3>1, YearsOutside DEF DayLength
  <2>5. v \notin Pasts
    BY <1>4, InfinitiesApart
  <2> QED BY <2>3, <2>4, <2>5, Zenon DEF Placed, d
<1>5. CASE v \in Pasts
  <2>1. SumYear(v, d) < MinYear
    BY <1>1, <1>5, PastUnderflows
  <2>2. ~(SumYear(v, d) > MaxYear)
    BY <1>2, <2>1, YearAssumption
  <2>3. Sum(v, d) = InfinitePast(v.zone)
    BY <2>1, <2>2, Zenon DEF Sum
  <2>4. Sum(v, d) \in Pasts /\ Sum(v, d) \in DateTimes
    BY <1>2, <2>3 DEF Pasts, DateTimes
  <2>5. u = InfinitePast(Utc)
    BY <2>4, InUtc, Zenon DEF ToUtcBy
  <2>6. v \notin Futures
    BY <1>5, InfinitiesApart
  <2>7. Tick(v, Shift(z)) < DayLength * FirstDay
    <3>1. Tick(v, Shift(z)) = DayLength * DayNumber(MinYear - 1, 1, 1)
      BY <1>5, <2>6, Zenon DEF Tick
    <3> QED BY <1>3, <3>1, YearsOutside DEF DayLength
  <2> QED BY <2>5, <2>6, <2>7, Zenon DEF Placed, d
<1> QED BY <1>4, <1>5

LEMMA ConvertedPlaced ==
  ASSUME NEW v \in Compared, NEW z \in Offsets
  PROVE  LET u == ToUtcBy(v, ZoneOffset(z))
         IN  /\ Placed(u, Tick(v, Shift(z)), Nano(v))
             /\ v \in Futures => u = InfiniteFuture(Utc)
             /\ v \in Pasts => u = InfinitePast(Utc)
<1>1. CASE v \in Finite
  <2>1. v \notin Futures /\ v \notin Pasts
    BY <1>1, InfinitiesApart
  <2>2. IsReadable(v)
    BY <2>1 DEF Compared
  <2>3. v.nanosecond < Giga
    BY <2>2, Zenon DEF IsReadable
  <2>4. Tick(v, Shift(z)) = Seconds(v) + Shift(z) /\ Nano(v) = v.nanosecond
    BY <1>1, <2>1, Zenon DEF Tick, Nano
  <2>5. Placed(ToUtcBy(v, ZoneOffset(z)), Seconds(v) + Shift(z), v.nanosecond)
    BY <1>1, <2>3, FinitePlaced, Zenon
  <2> QED BY <2>1, <2>4, <2>5, Zenon
<1>2. CASE v \in Futures \cup Pasts
  BY <1>2, InfinitePlaced, Zenon
<1> QED BY <1>1, <1>2 DEF Compared

-----------------------------------------------------------------------------
(***************************************************************************)
(* The order of the fields of values in UTC is the order of their places.  *)
(***************************************************************************)

DateLess(l, r) == l.year < r.year \/ (l.year = r.year /\ FieldsLess(l, r))

DayLess(l, r) ==
  \/ l.year < r.year
  \/ l.year = r.year /\ l.month < r.month
  \/ l.year = r.year /\ l.month = r.month /\ l.day < r.day

SameDay(l, r) == l.year = r.year /\ l.month = r.month /\ l.day = r.day

TimeLess(l, r) ==
  \/ l.hour < r.hour
  \/ l.hour = r.hour /\ l.minute < r.minute
  \/ l.hour = r.hour /\ l.minute = r.minute /\ l.second < r.second

SameClock(l, r) == l.hour = r.hour /\ l.minute = r.minute /\ l.second = r.second

(* A month ends before a later one begins.                                 *)
LEMMA MonthGap ==
  ASSUME NEW year \in Int, NEW m \in 1..12, NEW n \in 1..12, m < n
  PROVE  DaysBeforeMonth(year, m) + DaysInMonth(year, m) <= DaysBeforeMonth(year, n)
<1>1. m \in 1..11 /\ m + 1 \in 1..12 /\ m + 1 <= n
  OBVIOUS
<1>2. DaysBeforeMonth(year, m) + DaysInMonth(year, m) = DaysBeforeMonth(year, m + 1)
  BY <1>1, MonthStep
<1>3. \A k \in 1..12 : k <= n => DaysBeforeMonth(year, k) <= DaysBeforeMonth(year, n)
  BY DEF DaysBeforeMonth
<1> QED BY <1>1, <1>2, <1>3

(* A later day has a greater number.                                       *)
LEMMA LaterDay ==
  ASSUME NEW l \in Finite, NEW r \in Finite, IsDate(l), IsDate(r), DayLess(l, r)
  PROVE  DayOf(l) < DayOf(r)
<1>1. /\ l.year \in Int /\ l.month \in 1..12 /\ l.day \in 1..31
      /\ r.year \in Int /\ r.month \in 1..12 /\ r.day \in 1..31
      /\ l.day <= DaysInMonth(l.year, l.month)
  BY YearAssumption DEF Finite, IsDate
<1>2. /\ DaysBeforeYear(l.year) \in Int /\ DaysBeforeMonth(l.year, l.month) \in Int
      /\ DaysBeforeMonth(r.year, r.month) \in Int
      /\ DaysInMonth(l.year, l.month) \in 28..31
  BY <1>1, DaysBeforeInts, DaysInMonthRange
<1>3. CASE l.year < r.year
  <2>1. DayNumber(l.year, 12, 31) < DayOf(r)
    <3>1. r.day \in Int /\ 1 <= r.day
      BY <1>1
    <3> QED BY <1>1, <1>3, <3>1, AfterYear, Zenon DEF DayOf
  <2>2. DayOf(l) <= DayNumber(l.year, 12, 31)
    <3>1. DaysBeforeMonth(l.year, l.month) <= DaysBeforeMonth(l.year, 12)
      BY <1>1, MonthsInOrder
    <3>2. 12 \in 1..12
      OBVIOUS
    <3>3. DaysBeforeMonth(l.year, 12) \in Int
      BY <1>1, <3>2, DaysBeforeInts, Zenon
    <3> QED BY <1>1, <1>2, <3>1, <3>3 DEF DayOf, DayNumber
  <2>3. DayOf(l) \in Int /\ DayOf(r) \in Int /\ DayNumber(l.year, 12, 31) \in Int
    <3>1. 12 \in 1..12 /\ 31 \in Int
      OBVIOUS
    <3> QED BY <1>1, <3>1, DayInts, DayNumberInt, Zenon
  <2> QED BY <2>1, <2>2, <2>3
<1>4. CASE l.year = r.year /\ l.month < r.month
  <2>1. DaysBeforeMonth(l.year, l.month) + DaysInMonth(l.year, l.month)
          <= DaysBeforeMonth(l.year, r.month)
    BY <1>1, <1>4, MonthGap
  <2>2. DayOf(l) = DaysBeforeYear(l.year) + DaysBeforeMonth(l.year, l.month) + l.day
        /\ DayOf(r) = DaysBeforeYear(l.year) + DaysBeforeMonth(l.year, r.month) + r.day
    BY <1>4 DEF DayOf, DayNumber
  <2>3. DaysBeforeMonth(l.year, r.month) \in Int
    BY <1>2, <1>4
  <2> HIDE DEF DayLess
  <2> QED BY <1>1, <1>2, <2>1, <2>2, <2>3
<1>5. CASE l.year = r.year /\ l.month = r.month /\ l.day < r.day
  BY <1>1, <1>2, <1>5 DEF DayOf, DayNumber
<1> QED BY <1>3, <1>4, <1>5 DEF DayLess

LEMMA DayOrder ==
  ASSUME NEW l \in Finite, NEW r \in Finite, IsDate(l), IsDate(r)
  PROVE  /\ DayLess(l, r) <=> DayOf(l) < DayOf(r)
         /\ SameDay(l, r) <=> DayOf(l) = DayOf(r)
<1>1. /\ l.year \in Int /\ l.month \in Int /\ l.day \in Int
      /\ r.year \in Int /\ r.month \in Int /\ r.day \in Int
      /\ DayOf(l) \in Int /\ DayOf(r) \in Int
  BY YearAssumption, DayInts DEF Finite
<1>2. DayLess(l, r) \/ DayLess(r, l) \/ SameDay(l, r)
  BY <1>1 DEF DayLess, SameDay
<1>3. SameDay(l, r) => DayOf(l) = DayOf(r) /\ ~DayLess(l, r)
  BY <1>1 DEF SameDay, DayLess, DayOf
<1>4. /\ DayLess(l, r) => DayOf(l) < DayOf(r)
      /\ DayLess(r, l) => DayOf(r) < DayOf(l)
  BY LaterDay, Zenon
<1> QED BY <1>1, <1>2, <1>3, <1>4

LEMMA TimeOrder ==
  ASSUME NEW l \in Finite, NEW r \in Finite, IsNormal(l), IsNormal(r)
  PROVE  /\ TimeLess(l, r) <=> SecondOfDay(l) < SecondOfDay(r)
         /\ SameClock(l, r) <=> SecondOfDay(l) = SecondOfDay(r)
<1>1. /\ l.hour \in 0..23 /\ l.minute \in 0..59 /\ l.second \in 0..59
      /\ r.hour \in 0..23 /\ r.minute \in 0..59 /\ r.second \in 0..59
  BY DEF Finite, IsNormal
<1> DEFINE Time(h, m, s) == h * 3600 + m * 60 + s
           InOrder(h, m, s, h2, m2, s2) ==
             /\ (h < h2 \/ (h = h2 /\ m < m2) \/ (h = h2 /\ m = m2 /\ s < s2))
                  <=> Time(h, m, s) < Time(h2, m2, s2)
             /\ (h = h2 /\ m = m2 /\ s = s2) <=> Time(h, m, s) = Time(h2, m2, s2)
<1>2. \A h, h2 \in 0..23, m, m2 \in 0..59, s, s2 \in 0..59 :
        InOrder(h, m, s, h2, m2, s2)
  OBVIOUS
<1>3. /\ SecondOfDay(l) = Time(l.hour, l.minute, l.second)
      /\ SecondOfDay(r) = Time(r.hour, r.minute, r.second)
  BY DEF SecondOfDay
<1> HIDE DEF Time, InOrder
<1>4. InOrder(l.hour, l.minute, l.second, r.hour, r.minute, r.second)
  BY <1>1, <1>2, Zenon
<1> QED BY <1>3, <1>4, Zenon DEF TimeLess, SameClock, InOrder

LEMMA FiniteOrder ==
  ASSUME NEW l \in Finite, NEW r \in Finite,
         IsDate(l), IsDate(r), IsNormal(l), IsNormal(r)
  PROVE  DateLess(l, r)
           <=> \/ Seconds(l) < Seconds(r)
               \/ Seconds(l) = Seconds(r) /\ l.nanosecond < r.nanosecond
<1>1. DateLess(l, r)
        <=> \/ DayLess(l, r)
            \/ SameDay(l, r) /\ TimeLess(l, r)
            \/ SameDay(l, r) /\ SameClock(l, r) /\ l.nanosecond < r.nanosecond
  BY Zenon DEF DateLess, FieldsLess, DayLess, SameDay, TimeLess, SameClock
<1>2. /\ DayLess(l, r) <=> DayOf(l) < DayOf(r)
      /\ SameDay(l, r) <=> DayOf(l) = DayOf(r)
  BY DayOrder, Zenon
<1>3. /\ TimeLess(l, r) <=> SecondOfDay(l) < SecondOfDay(r)
      /\ SameClock(l, r) <=> SecondOfDay(l) = SecondOfDay(r)
  BY TimeOrder, Zenon
<1>4. /\ DayOf(l) \in Int /\ DayOf(r) \in Int
      /\ SecondOfDay(l) \in Int /\ 0 <= SecondOfDay(l) /\ SecondOfDay(l) < DayLength
      /\ SecondOfDay(r) \in Int /\ 0 <= SecondOfDay(r) /\ SecondOfDay(r) < DayLength
  BY DayInts, SecondInts
<1>5. /\ Seconds(l) < Seconds(r)
           <=> \/ DayOf(l) < DayOf(r)
               \/ DayOf(l) = DayOf(r) /\ SecondOfDay(l) < SecondOfDay(r)
      /\ Seconds(l) = Seconds(r)
           <=> DayOf(l) = DayOf(r) /\ SecondOfDay(l) = SecondOfDay(r)
  BY <1>4 DEF Seconds, DayLength
<1> QED BY <1>1, <1>2, <1>3, <1>5, Zenon

(* The days of the calendar.                                               *)
LEMMA InCalendar ==
  ASSUME NEW v \in Finite, IsDate(v)
  PROVE  FirstDay <= DayOf(v) /\ DayOf(v) <= LastDay
<1>1. /\ v.year \in Int /\ MinYear <= v.year /\ v.year <= MaxYear
      /\ v.month \in 1..12 /\ v.day \in Int /\ 1 <= v.day /\ v.day <= 31
      /\ MinYear \in Int /\ MaxYear \in Int
  BY YearAssumption DEF Finite
<1>2. FirstDay \in Int /\ LastDay \in Int /\ DayOf(v) \in Int
  BY DayInts
<1>3. \A y \in Int, m \in 1..12 :
        /\ 0 <= DaysBeforeMonth(y, m) /\ DaysBeforeMonth(y, m) <= DaysBeforeMonth(y, 12)
        /\ DaysBeforeYear(y) \in Int /\ DaysBeforeMonth(y, m) \in Int
        /\ DaysBeforeMonth(y, 1) = 0 /\ DaysBeforeMonth(y, 12) \in Int
  <2>1. \A y \in Int : DaysBeforeMonth(y, 1) = 0 /\ DaysBeforeMonth(y, 12) \in Int
    BY DEF DaysBeforeMonth
  <2> QED BY <2>1, MonthsInOrder, DaysBeforeInts, Zenon
<1>4. FirstDay <= DayOf(v)
  <2>1. CASE v.year = MinYear
    <3>1. /\ DaysBeforeMonth(MinYear, v.month) \in Int /\ 0 <= DaysBeforeMonth(MinYear, v.month)
          /\ DaysBeforeMonth(MinYear, 1) = 0 /\ DaysBeforeYear(MinYear) \in Int
      BY <1>1, <1>3, Zenon
    <3> QED BY <1>1, <2>1, <3>1 DEF FirstDay, DayOf, DayNumber
  <2>2. CASE MinYear < v.year
    <3>1. DayNumber(MinYear, 12, 31) < DayOf(v)
      BY <1>1, <2>2, AfterYear, Zenon DEF DayOf
    <3>2. FirstDay <= DayNumber(MinYear, 12, 31) /\ DayNumber(MinYear, 12, 31) \in Int
      <4>1. 12 \in 1..12
        OBVIOUS
      <4>2. DaysBeforeMonth(MinYear, 12) \in Int /\ 0 <= DaysBeforeMonth(MinYear, 12)
            /\ DaysBeforeMonth(MinYear, 1) = 0 /\ DaysBeforeYear(MinYear) \in Int
        BY <1>1, <1>3, <4>1, Zenon
      <4> QED BY <4>2 DEF FirstDay, DayNumber
    <3> QED BY <1>2, <3>1, <3>2
  <2> QED BY <1>1, <2>1, <2>2
<1>5. DayOf(v) <= LastDay
  <2>1. CASE v.year = MaxYear
    <3>1. /\ DaysBeforeMonth(MaxYear, v.month) \in Int /\ DaysBeforeMonth(MaxYear, 12) \in Int
          /\ DaysBeforeMonth(MaxYear, v.month) <= DaysBeforeMonth(MaxYear, 12)
          /\ DaysBeforeYear(MaxYear) \in Int
      BY <1>1, <1>3, Zenon
    <3> QED BY <1>1, <2>1, <3>1 DEF LastDay, DayOf, DayNumber
  <2>2. CASE v.year < MaxYear
    <3>1. DayOf(v) < DayNumber(MaxYear, 1, 1)
      BY <1>1, <2>2, BeforeYear, Zenon DEF DayOf
    <3>2. DayNumber(MaxYear, 1, 1) <= LastDay /\ DayNumber(MaxYear, 1, 1) \in Int
      <4>1. 12 \in 1..12
        OBVIOUS
      <4>2. DaysBeforeMonth(MaxYear, 12) \in Int /\ 0 <= DaysBeforeMonth(MaxYear, 12)
            /\ DaysBeforeMonth(MaxYear, 1) = 0 /\ DaysBeforeYear(MaxYear) \in Int
        BY <1>1, <1>3, <4>1, Zenon
      <4> QED BY <4>2 DEF LastDay, DayNumber
    <3> QED BY <1>2, <3>1, <3>2
  <2> QED BY <1>1, <2>1, <2>2
<1> QED BY <1>4, <1>5

LEMMA InfinityFields ==
  /\ InfiniteFuture(Utc).year = MaxYear /\ InfiniteFuture(Utc).month = 255
  /\ InfinitePast(Utc).year = MinYear /\ InfinitePast(Utc).month = 0
  /\ InfiniteFuture(Utc) \in DateTimes /\ InfinitePast(Utc) \in DateTimes
  /\ InfiniteFuture(Utc) \in Futures /\ InfinitePast(Utc) \in Pasts
<1>1. /\ InfiniteFuture(Utc).year = MaxYear /\ InfiniteFuture(Utc).month = 255
      /\ InfinitePast(Utc).year = MinYear /\ InfinitePast(Utc).month = 0
  BY DEF InfiniteFuture, InfinitePast, UInt8Max
<1>2. Utc \in AllZones
  BY DEF AllZones
<1>3. InfiniteFuture(Utc) \in Futures /\ InfinitePast(Utc) \in Pasts
  BY <1>2, Zenon DEF Futures, Pasts
<1> QED BY <1>1, <1>3, Zenon DEF DateTimes

(* Only two infinities, or none, need their fields compared to the end.    *)
LEMMA InfinitiesOrder ==
  ASSUME NEW v \in Finite
  PROVE  /\ DateLess(v, InfiniteFuture(Utc)) /\ ~DateLess(InfiniteFuture(Utc), v)
         /\ DateLess(InfinitePast(Utc), v) /\ ~DateLess(v, InfinitePast(Utc))
         /\ DateLess(InfinitePast(Utc), InfiniteFuture(Utc))
         /\ ~DateLess(InfiniteFuture(Utc), InfinitePast(Utc))
<1>1. /\ v.year \in Int /\ MinYear <= v.year /\ v.year <= MaxYear
      /\ v.month \in 1..12 /\ MinYear \in Int /\ MaxYear \in Int /\ MinYear <= MaxYear
  BY YearAssumption DEF Finite
<1>2. /\ InfiniteFuture(Utc).year = MaxYear /\ InfiniteFuture(Utc).month = 255
      /\ InfinitePast(Utc).year = MinYear /\ InfinitePast(Utc).month = 0
  BY InfinityFields
<1> QED BY <1>1, <1>2 DEF DateLess, FieldsLess

LEMMA DateLessIrreflexive ==
  ASSUME NEW v \in DateTimes
  PROVE  ~DateLess(v, v)
<1>1. HasFields(v)
  BY DateTimesHaveFields
<1> QED BY <1>1 DEF HasFields, DateLess, FieldsLess

(* What is placed no later is not found to be later.                       *)
LEMMA PlacedOrder ==
  ASSUME NEW a, NEW b, NEW t \in Int, NEW s \in Int, NEW m \in Int, NEW n \in Int,
         Placed(a, t, m), Placed(b, s, n), t < s \/ (t = s /\ m <= n)
  PROVE  ~DateLess(b, a)
<1>1. FirstDay \in Int /\ LastDay \in Int /\ FirstDay <= LastDay /\ DayLength \in Int
  BY DayInts, YearsOutside, DayLengthInt
<1>2. ASSUME NEW u \in Finite, IsDate(u), IsNormal(u)
      PROVE  DayLength * FirstDay <= Seconds(u) /\ Seconds(u) < DayLength * (LastDay + 1)
             /\ Seconds(u) \in Int
  <2>1. /\ DayOf(u) \in Int /\ SecondOfDay(u) \in Int
        /\ 0 <= SecondOfDay(u) /\ SecondOfDay(u) < DayLength
    BY <1>2, DayInts, SecondInts
  <2>2. FirstDay <= DayOf(u) /\ DayOf(u) <= LastDay
    BY <1>2, InCalendar
  <2> QED BY <1>1, <2>1, <2>2 DEF Seconds, DayLength
<1>3. DayLength * FirstDay < DayLength * (LastDay + 1)
      /\ DayLength * FirstDay \in Int /\ DayLength * (LastDay + 1) \in Int
  BY <1>1 DEF DayLength
<1> DEFINE At(u, i, j) == /\ u \in Finite /\ IsDate(u) /\ IsNormal(u) /\ u.zone = Utc
                          /\ Seconds(u) = i /\ u.nanosecond = j
<1>4. CASE At(a, t, m)
  <2>1. CASE At(b, s, n)
    <3>1. DateLess(b, a)
            <=> \/ Seconds(b) < Seconds(a)
                \/ Seconds(b) = Seconds(a) /\ b.nanosecond < a.nanosecond
      BY <1>4, <2>1, FiniteOrder, Zenon
    <3>2. DateLess(b, a) <=> s < t \/ (s = t /\ n < m)
      BY <1>4, <2>1, <3>1, Zenon
    <3> QED BY <3>2
  <2>2. CASE b = InfiniteFuture(Utc)
    BY <1>4, <2>2, InfinitiesOrder, Zenon
  <2>3. CASE b = InfinitePast(Utc) /\ s < DayLength * FirstDay
    <3>1. DayLength * FirstDay <= t
      BY <1>2, <1>4, Zenon
    <3> QED BY <1>3, <2>3, <3>1
  <2> QED BY <2>1, <2>2, <2>3, Zenon DEF Placed
<1>5. CASE a = InfiniteFuture(Utc) /\ DayLength * (LastDay + 1) <= t
  <2>1. CASE At(b, s, n)
    <3>1. s < DayLength * (LastDay + 1)
      BY <1>2, <2>1, Zenon
    <3> QED BY <1>3, <1>5, <3>1
  <2>2. CASE b = InfiniteFuture(Utc)
    BY <1>5, <2>2, DateLessIrreflexive, InfinityFields, Zenon
  <2>3. CASE b = InfinitePast(Utc) /\ s < DayLength * FirstDay
    BY <1>3, <1>5, <2>3
  <2> QED BY <2>1, <2>2, <2>3, Zenon DEF Placed
<1>6. CASE a = InfinitePast(Utc)
  <2>1. CASE At(b, s, n)
    BY <1>6, <2>1, InfinitiesOrder, Zenon
  <2>2. CASE b = InfiniteFuture(Utc)
    <3>1. \E v : v \in Finite
      <4>1. [year |-> MinYear, month |-> 1, day |-> 1, zone |-> Utc,
             hour |-> 0, minute |-> 0, second |-> 0, nanosecond |-> 0] \in Finite
        BY YearAssumption, GigaInt DEF Finite, AllZones
      <4> QED BY <4>1, Zenon
    <3> QED BY <1>6, <2>2, <3>1, InfinitiesOrder, Zenon
  <2>3. CASE b = InfinitePast(Utc)
    BY <1>6, <2>3, DateLessIrreflexive, InfinityFields, Zenon
  <2> QED BY <2>1, <2>2, <2>3, Zenon DEF Placed
<1> QED BY <1>4, <1>5, <1>6, Zenon DEF Placed

-----------------------------------------------------------------------------
(***************************************************************************)
(* Comparing dateTimes the other way round.                                *)
(***************************************************************************)

SameFields(l, r) ==
  /\ l.year = r.year /\ l.month = r.month /\ l.day = r.day
  /\ l.hour = r.hour /\ l.minute = r.minute /\ l.second = r.second
  /\ l.nanosecond = r.nanosecond

(* What neither is less nor greater has the same fields.                   *)
LEMMA DateLessTotal ==
  ASSUME NEW l, NEW r, HasFields(l), HasFields(r), ~DateLess(l, r), ~DateLess(r, l)
  PROVE  SameFields(l, r)
BY DEF HasFields, DateLess, FieldsLess, SameFields

(* A conversion is not changed by another one.                             *)
LEMMA Settled ==
  ASSUME NEW u, NEW t \in Int, NEW n, Placed(u, t, n)
  PROVE  u \in DateTimes /\ SameFields(ToUtc(u), u)
<1>0. Utc \in Offsets /\ Shift(Utc) = 0
  <2>1. ASSUME NEW i \in Int, i <= 0, 0 <= i PROVE -900 * i = 0
    BY <2>1
  <2>2. Utc \in Offsets
    BY DEF Offsets, Utc
  <2>3. Utc \in Int /\ Utc <= 0 /\ 0 <= Utc
    BY DEF Utc
  <2>4. Shift(Utc) = -900 * Utc
    BY Zenon DEF Shift
  <2>5. -900 * Utc = 0
    BY <2>1, <2>3
  <2> QED BY <2>2, <2>4, <2>5
<1>1. CASE u \in Finite /\ IsDate(u) /\ IsNormal(u) /\ u.zone = Utc
           /\ Seconds(u) = t /\ u.nanosecond = n
  <2>1. u \in DateTimes /\ n \in Int /\ u.nanosecond < Giga
    BY <1>1, GigaInt DEF DateTimes, Finite, IsNormal
  <2>2. ToUtc(u) = ToUtcBy(u, ZoneOffset(Utc))
    BY <1>1, OffsetsAre, Zenon DEF ToUtc
  <2>3. Placed(ToUtc(u), Seconds(u) + Shift(Utc), n)
    BY <1>0, <1>1, <2>1, <2>2, FinitePlaced, Zenon
  <2>4. Seconds(u) + Shift(Utc) = t
    BY <1>0, <1>1
  <2>5. Placed(ToUtc(u), t, n)
    BY <2>3, <2>4, Zenon
  <2>6. n <= n
    BY <2>1
  <2>7. ~DateLess(ToUtc(u), u) /\ ~DateLess(u, ToUtc(u))
    BY <2>1, <2>5, <2>6, PlacedOrder, Zenon
  <2>8. HasFields(u) /\ HasFields(ToUtc(u))
    BY <2>1, ToUtcType, Zenon
  <2> QED BY <2>1, <2>7, <2>8, DateLessTotal, Zenon
<1>2. ASSUME NEW i, i \in {InfiniteFuture(Utc), InfinitePast(Utc)}
      PROVE  i \in DateTimes /\ SameFields(ToUtc(i), i)
  <2>1. i \in Futures \cup Pasts /\ i \in DateTimes /\ i.zone = Utc
    BY <1>2, InfinityFields DEF InfiniteFuture, InfinitePast
  <2>2. ToUtc(i) = ToUtcBy(i, ZoneOffset(Utc))
    BY <2>1, OffsetsAre, Zenon DEF ToUtc
  <2>3. /\ i \in Futures => ToUtc(i) = InfiniteFuture(Utc)
        /\ i \in Pasts => ToUtc(i) = InfinitePast(Utc)
    BY <1>0, <2>1, <2>2, InfinitePlaced, Zenon
  <2>4. ToUtc(i) = i
    BY <1>2, <2>3, InfinityFields, Zenon
  <2> QED BY <2>1, <2>4, Zenon DEF SameFields
<1> QED BY <1>1, <1>2, Zenon DEF Placed

(* Where no conversion leaves the year, the order is that of conversions.  *)
LEMMA UnderIs ==
  ASSUME NEW l, NEW r, ToUtc(l).year = l.year, ToUtc(r).year = r.year
  PROVE  Under(l, r) <=> DateLess(ToUtc(l), ToUtc(r))
BY Zenon DEF Under, DateLess

LEMMA DateLessSame ==
  ASSUME NEW l, NEW r, NEW l2, NEW r2, SameFields(l, l2), SameFields(r, r2)
  PROVE  DateLess(l, r) <=> DateLess(l2, r2)
BY Zenon DEF SameFields, DateLess, FieldsLess

(* The places of what a value is compared by.                              *)
LEMMA TickInt ==
  ASSUME NEW v \in Compared, NEW s \in Int
  PROVE  Tick(v, s) \in Int /\ Nano(v) \in Int /\ v \in DateTimes
<1>1. /\ DayNumber(MaxYear + 1, 12, 31) \in Int /\ DayNumber(MinYear - 1, 1, 1) \in Int
  BY DayInts
<1>2. v \in DateTimes
  BY DEF Compared, DateTimes
<1>3. Nano(v) \in Int
  BY <1>2, FieldInts DEF Nano
<1>4. CASE v \in Finite
  <2>1. DayOf(v) \in Int /\ SecondOfDay(v) \in Int
    BY <1>4, DayInts, SecondInts
  <2>2. Seconds(v) + s \in Int
    BY <2>1, DayLengthInt DEF Seconds
  <2>3. v \notin Futures /\ v \notin Pasts
    BY <1>4, InfinitiesApart
  <2> QED BY <1>2, <1>3, <2>2, <2>3, Zenon DEF Tick
<1>5. CASE v \in Futures \cup Pasts
  <2>1. /\ DayLength * DayNumber(MaxYear + 1, 12, 31) \in Int
        /\ DayLength * DayNumber(MinYear - 1, 1, 1) \in Int
    BY <1>1, DayLengthInt
  <2> QED BY <1>2, <1>3, <1>5, <2>1, Zenon DEF Tick
<1> QED BY <1>4, <1>5 DEF Compared

(* A local value fourteen hours before UTC is not after itself fourteen    *)
(* hours behind it.                                                        *)
LEMMA ShiftOrdered ==
  ASSUME NEW v \in Compared
  PROVE  LET low == ToUtcBy(v, FourteenHours(-1))
             high == ToUtcBy(v, FourteenHours(1))
         IN  /\ low \in DateTimes /\ high \in DateTimes
             /\ SameFields(ToUtc(low), low) /\ SameFields(ToUtc(high), high)
             /\ ~Under(high, low)
<1> DEFINE low == ToUtcBy(v, FourteenHours(-1))
           high == ToUtcBy(v, FourteenHours(1))
<1>1. Placed(low, Tick(v, Shift(56)), Nano(v)) /\ Placed(high, Tick(v, Shift(-56)), Nano(v))
  <2>1. 56 \in Offsets /\ -56 \in Offsets
    BY DEF Offsets
  <2> QED BY <2>1, OffsetsAre, ConvertedPlaced, Zenon
<1>2. Shift(56) \in Int /\ Shift(-56) \in Int /\ Shift(56) <= Shift(-56)
  BY DEF Shift
<1>3. Tick(v, Shift(56)) \in Int /\ Tick(v, Shift(-56)) \in Int /\ Nano(v) \in Int
  BY <1>2, TickInt, Zenon
<1>4. Tick(v, Shift(56)) <= Tick(v, Shift(-56))
  <2>1. CASE v \in Finite
    <3>1. v \notin Futures /\ v \notin Pasts /\ DayOf(v) \in Int /\ SecondOfDay(v) \in Int
      BY <2>1, InfinitiesApart, DayInts, SecondInts
    <3>2. Seconds(v) \in Int
      BY <3>1, DayLengthInt DEF Seconds
    <3>3. \A s : Tick(v, s) = Seconds(v) + s
      BY <3>1, Zenon DEF Tick
    <3> QED BY <1>2, <3>2, <3>3
  <2>2. CASE v \notin Finite
    <3>1. Tick(v, Shift(56)) = Tick(v, Shift(-56))
      BY <2>2, Zenon DEF Tick, Compared
    <3> QED BY <1>3, <3>1
  <2> QED BY <2>1, <2>2
<1>5. Nano(v) <= Nano(v)
  BY <1>3
<1>6. Tick(v, Shift(56)) < Tick(v, Shift(-56)) \/ Tick(v, Shift(56)) = Tick(v, Shift(-56))
  BY <1>3, <1>4
<1> HIDE DEF low, high
<1>7. ~DateLess(high, low)
  BY <1>1, <1>3, <1>5, <1>6, PlacedOrder, Zenon
<1>8. /\ low \in DateTimes /\ SameFields(ToUtc(low), low)
      /\ high \in DateTimes /\ SameFields(ToUtc(high), high)
  BY <1>1, <1>3, Settled, Zenon
<1>9. ToUtc(low).year = low.year /\ ToUtc(high).year = high.year
  BY <1>8, Zenon DEF SameFields
<1>10. ~Under(high, low)
  BY <1>7, <1>8, <1>9, UnderIs, DateLessSame, Zenon
<1> QED BY <1>8, <1>10, Zenon DEF low, high

LEMMA TotalAntisymmetric ==
  ASSUME NEW l \in DateTimes, NEW r \in DateTimes
  PROVE  /\ CompareTotal(l, r) \in {StrictlyLess, Equal, StrictlyGreater}
         /\ CompareTotal(r, l) = -CompareTotal(l, r)
         /\ CompareTotal(l, r) < 0 <=> Under(l, r)
         /\ CompareTotal(l, r) > 0 <=> Under(r, l)
<1>1. HasFields(l) /\ HasFields(r) /\ HasFields(ToUtc(l)) /\ HasFields(ToUtc(r))
  BY ToUtcType, Zenon
<1>2. /\ CompareTotal(l, r) = Sign(Under(l, r), Under(r, l))
      /\ CompareTotal(r, l) = Sign(Under(r, l), Under(l, r))
  BY <1>1, CompareTotalIs, Zenon
<1>3. ~(Under(l, r) /\ Under(r, l))
  BY <1>1, UnderLinear, Zenon
<1> QED BY <1>2, <1>3 DEF Sign, StrictlyLess, StrictlyGreater, Equal

(* A zoned value is not before the earliest and after the latest.          *)
LEMMA PartialAntisymmetric ==
  ASSUME NEW l \in Compared, NEW r \in Compared, l.zone # Local, r.zone = Local
  PROVE  ComparePartial(r, l) = -ComparePartial(l, r)
<1> DEFINE low == ToUtcBy(r, FourteenHours(-1))
           high == ToUtcBy(r, FourteenHours(1))
           below == CompareTotal(l, low)
           above == CompareTotal(l, high)
           below2 == CompareTotal(high, l)
           above2 == CompareTotal(low, l)
<1>1. l \in DateTimes /\ low \in DateTimes /\ high \in DateTimes /\ ~Under(high, low)
  BY ShiftOrdered, Zenon DEF Compared, DateTimes
<1>2. /\ ComparePartial(l, r) = IF below < 0 THEN below
                                ELSE IF above > 0 THEN above ELSE MaybeGreater
      /\ ComparePartial(r, l) = IF below2 < 0 THEN below2
                                ELSE IF above2 > 0 THEN above2 ELSE MaybeLess
  BY Zenon DEF ComparePartial
<1>3. ~(Under(l, low) /\ Under(high, l))
  <2>1. /\ HasFields(l) /\ HasFields(low) /\ HasFields(high)
        /\ HasFields(ToUtc(l)) /\ HasFields(ToUtc(low)) /\ HasFields(ToUtc(high))
    BY <1>1, ToUtcType, Zenon
  <2> QED BY <1>1, <2>1, UnderLinear, Zenon
<1>4. /\ below \in {StrictlyLess, Equal, StrictlyGreater} /\ above2 = -below
      /\ below < 0 <=> Under(l, low)
      /\ above \in {StrictlyLess, Equal, StrictlyGreater} /\ below2 = -above
      /\ above > 0 <=> Under(high, l)
  BY <1>1, TotalAntisymmetric, Zenon
<1> HIDE DEF low, high, below, above, below2, above2
<1> QED BY <1>2, <1>3, <1>4
        DEF StrictlyLess, StrictlyGreater, Equal, MaybeLess, MaybeGreater

LEMMA DateTimesAntisymmetric ==
  ASSUME NEW l \in Compared, NEW r \in Compared
  PROVE  CompareDateTimes(r, l) = -CompareDateTimes(l, r)
<1>1. l \in DateTimes /\ r \in DateTimes
  BY DEF Compared, DateTimes
<1>2. CASE (l.zone = Local) = (r.zone = Local)
  BY <1>1, <1>2, TotalAntisymmetric, Zenon DEF CompareDateTimes
<1>3. CASE l.zone # Local /\ r.zone = Local
  BY <1>3, PartialAntisymmetric, Zenon DEF CompareDateTimes
<1>4. CASE l.zone = Local /\ r.zone # Local
  <2>1. ComparePartial(l, r) = -ComparePartial(r, l)
    BY <1>4, PartialAntisymmetric, Zenon
  <2>2. CompareDateTimes(l, r) = -CompareDateTimes(r, l)
    BY <1>4, <2>1, Zenon DEF CompareDateTimes
  <2>3. ComparePartial(r, l) \in Int
    <3> DEFINE low == ToUtcBy(l, FourteenHours(-1))
               high == ToUtcBy(l, FourteenHours(1))
    <3>1. low \in DateTimes /\ high \in DateTimes
      BY ShiftOrdered, Zenon
    <3>2. CompareTotal(r, low) \in {StrictlyLess, Equal, StrictlyGreater}
          /\ CompareTotal(r, high) \in {StrictlyLess, Equal, StrictlyGreater}
      BY <1>1, <3>1, TotalAntisymmetric, Zenon
    <3>3. {StrictlyLess, Equal, StrictlyGreater} \subseteq Int /\ MaybeGreater \in Int
      BY DEF StrictlyLess, StrictlyGreater, Equal, MaybeGreater
    <3>4. ComparePartial(r, l)
            = IF CompareTotal(r, low) < 0 THEN CompareTotal(r, low)
              ELSE IF CompareTotal(r, high) > 0 THEN CompareTotal(r, high)
              ELSE MaybeGreater
      BY <1>4, Zenon DEF ComparePartial
    <3> QED BY <3>2, <3>3, <3>4, Zenon
  <2>4. CompareDateTimes(r, l) = ComparePartial(r, l)
    BY <1>4, Zenon DEF CompareDateTimes
  <2> QED BY <2>2, <2>3, <2>4
<1> QED BY <1>2, <1>3, <1>4, Zenon

-----------------------------------------------------------------------------
(***************************************************************************)
(* Comparing durations the other way round.                                *)
(***************************************************************************)

LEMMA ReferencesAre ==
  /\ DOMAIN References = 1..4
  /\ \A i \in 1..4 : References[i] \in DateTimes /\ References[i].zone = Local
<1> DEFINE Fit(v) == v \in DateTimes /\ v.zone = Local
<1>1. /\ 1696 \in MinYear..MaxYear /\ 1697 \in MinYear..MaxYear
      /\ 1903 \in MinYear..MaxYear /\ Local \in AllZones /\ 0 \in 0..Giga
  BY YearAssumption, LimitsAssumption, GigaInt DEF AllZones
<1>2. /\ DOMAIN References = 1..4
      /\ References[1] = Start(1696, 9) /\ References[2] = Start(1697, 2)
      /\ References[3] = Start(1903, 3) /\ References[4] = Start(1903, 7)
  BY DEF References
<1>3. Fit(Start(1696, 9))
  BY <1>1 DEF Start, DateTimes, Finite
<1>4. Fit(Start(1697, 2))
  BY <1>1 DEF Start, DateTimes, Finite
<1>5. Fit(Start(1903, 3)) /\ Fit(Start(1903, 7))
  BY <1>1 DEF Start, DateTimes, Finite
<1>6. \A i \in 1..4 : i = 1 \/ i = 2 \/ i = 3 \/ i = 4
  OBVIOUS
<1> HIDE DEF Fit
<1>7. \A i \in 1..4 : Fit(References[i])
  BY <1>2, <1>3, <1>4, <1>5, <1>6
<1> QED BY <1>2, <1>7 DEF Fit

LEMMA OrderAtAntisymmetric ==
  ASSUME NEW l, NEW r, IsDuration(l), IsDuration(r), NEW i \in 1..4
  PROVE  /\ OrderAt(References[i], l, r) \in {StrictlyLess, Equal, StrictlyGreater}
         /\ OrderAt(References[i], r, l) = -OrderAt(References[i], l, r)
<1> DEFINE v == References[i]
<1>1. v \in DateTimes /\ v.zone = Local
  BY ReferencesAre
<1>2. /\ Sum(v, l) \in DateTimes /\ Sum(v, l).zone = Local
      /\ Sum(v, r) \in DateTimes /\ Sum(v, r).zone = Local
  BY <1>1, SumType, Zenon
<1>3. /\ OrderAt(v, l, r) = CompareTotal(Sum(v, l), Sum(v, r))
      /\ OrderAt(v, r, l) = CompareTotal(Sum(v, r), Sum(v, l))
  BY <1>2, Zenon DEF OrderAt, CompareDateTimes
<1> QED BY <1>2, <1>3, TotalAntisymmetric, Zenon

(* One element in all.                                                     *)
LEMMA OneElement ==
  ASSUME NEW S, IsFiniteSet(S), NEW x \in S
  PROVE  Cardinality(S) = 1 <=> \A y \in S : y = x
<1>1. Cardinality(S) = 1 <=> \E y : S = {y}
  BY FS_Singleton, Zenon
<1> QED BY <1>1

(* The references agree, or the months and the seconds decide.             *)
LEMMA PartialIs ==
  ASSUME NEW l, NEW r, IsDuration(l), IsDuration(r)
  PROVE  CompareDurationsPartial(l, r)
           = IF \A i \in 1..4 : OrderAt(References[i], l, r) = OrderAt(References[1], l, r)
             THEN OrderAt(References[1], l, r)
             ELSE CompareLarger(l, r)
<1> DEFINE o(i) == OrderAt(References[i], l, r)
           S == {o(i) : i \in 1..4}
<1>1. DOMAIN References = 1..4
  BY ReferencesAre
<1>2. S \subseteq {StrictlyLess, Equal, StrictlyGreater}
  BY OrderAtAntisymmetric
<1>3. IsFiniteSet(S)
  <2>1. IsFiniteSet({StrictlyLess, Equal, StrictlyGreater})
    <3>1. {StrictlyLess, Equal, StrictlyGreater} = -2..2 \ {-1, 1}
      BY DEF StrictlyLess, Equal, StrictlyGreater
    <3>2. -2 \in Int /\ 2 \in Int
      OBVIOUS
    <3>3. IsFiniteSet(-2..2)
      BY <3>2, FS_Interval, Zenon
    <3> QED BY <3>1, <3>3, FS_Subset
  <2> QED BY <1>2, <2>1, FS_Subset
<1>4. o(1) \in S
  <2>1. 1 \in 1..4
    OBVIOUS
  <2> QED BY <2>1, Zenon
<1>5. (\A y \in S : y = o(1)) <=> \A i \in 1..4 : o(i) = o(1)
  BY Zenon
<1>6. CompareDurationsPartial(l, r)
        = IF Cardinality(S) = 1 THEN o(1) ELSE CompareLarger(l, r)
  BY <1>1, Zenon DEF CompareDurationsPartial
<1> HIDE DEF S
<1>7. Cardinality(S) = 1 <=> \A y \in S : y = o(1)
  BY <1>3, <1>4, OneElement, Zenon
<1> QED BY <1>5, <1>6, <1>7, Zenon

LEMMA DurationsAntisymmetric ==
  ASSUME NEW l, NEW r, IsDuration(l), IsDuration(r),
         l # r /\ (\E i \in 1..4 : OrderAt(References[i], l, r) # OrderAt(References[1], l, r))
           => (l.months # r.months \/ l.months = 0 \/ l.seconds # r.seconds)
  PROVE  CompareDurations(r, l) = -CompareDurations(l, r)
<1>1. /\ l \in [months: Int, seconds: Int, nanoseconds: Int]
      /\ r \in [months: Int, seconds: Int, nanoseconds: Int]
  BY GigaInt DEF IsDuration
<1>2. /\ l.months \in Int /\ l.seconds \in Int /\ l.nanoseconds \in Int
      /\ r.months \in Int /\ r.seconds \in Int /\ r.nanoseconds \in Int
      /\ l = r <=> l.months = r.months /\ l.seconds = r.seconds
                     /\ l.nanoseconds = r.nanoseconds
  BY <1>1
<1>3. CASE l = r
  <2>1. CompareDurations(l, r) = Equal /\ CompareDurations(r, l) = Equal
    BY <1>3, Zenon DEF CompareDurations
  <2>2. ASSUME NEW i \in Int, i <= 0, 0 <= i PROVE i = -i
    BY <2>2
  <2>3. Equal \in Int /\ Equal <= 0 /\ 0 <= Equal
    BY DEF Equal
  <2>4. Equal = -Equal
    BY <2>2, <2>3
  <2> QED BY <2>1, <2>4, Zenon
<1> DEFINE plainMonths == l.seconds = 0 /\ l.nanoseconds = 0
                            /\ r.seconds = 0 /\ r.nanoseconds = 0
           plainSeconds == l.months = 0 /\ r.months = 0
<1>4. CASE l # r /\ plainMonths
  <2>1. /\ CompareDurations(l, r) = CompareField(l.months, r.months)
        /\ CompareDurations(r, l) = CompareField(r.months, l.months)
    BY <1>4 DEF CompareDurations
  <2> QED BY <1>2, <1>4, <2>1 DEF CompareField, StrictlyLess, StrictlyGreater, Equal
<1>5. CASE l # r /\ ~plainMonths /\ plainSeconds
  <2>1. /\ CompareDurations(l, r)
             = IF l.seconds # r.seconds THEN CompareField(l.seconds, r.seconds)
                                        ELSE CompareField(l.nanoseconds, r.nanoseconds)
        /\ CompareDurations(r, l)
             = IF l.seconds # r.seconds THEN CompareField(r.seconds, l.seconds)
                                        ELSE CompareField(r.nanoseconds, l.nanoseconds)
    BY <1>5 DEF CompareDurations
  <2> QED BY <1>2, <1>5, <2>1 DEF CompareField, StrictlyLess, StrictlyGreater, Equal
<1>6. CASE l # r /\ ~plainMonths /\ ~plainSeconds
  <2>1. /\ CompareDurations(l, r) = CompareDurationsPartial(l, r)
        /\ CompareDurations(r, l) = CompareDurationsPartial(r, l)
    BY <1>6 DEF CompareDurations
  <2> DEFINE o == [i \in 1..4 |-> OrderAt(References[i], l, r)]
             p == [i \in 1..4 |-> OrderAt(References[i], r, l)]
  <2>2. \A i \in 1..4 : o[i] \in Int /\ p[i] = -o[i]
    <3>1. {StrictlyLess, Equal, StrictlyGreater} \subseteq Int
      BY DEF StrictlyLess, Equal, StrictlyGreater
    <3> QED BY <3>1, OrderAtAntisymmetric
  <2>3. 1 \in 1..4
    OBVIOUS
  <2>4. /\ CompareDurationsPartial(l, r)
             = IF \A i \in 1..4 : o[i] = o[1] THEN o[1] ELSE CompareLarger(l, r)
        /\ CompareDurationsPartial(r, l)
             = IF \A i \in 1..4 : p[i] = p[1] THEN p[1] ELSE CompareLarger(r, l)
    BY <2>3, PartialIs, Zenon
  <2>5. ASSUME ~(\A i \in 1..4 : o[i] = o[1])
        PROVE  CompareLarger(r, l) = -CompareLarger(l, r)
    <3>0. \E i \in 1..4 : OrderAt(References[i], l, r) # OrderAt(References[1], l, r)
      BY <2>3, <2>5, Zenon
    <3>1. l.months # r.months \/ l.seconds # r.seconds
      BY <1>2, <1>6, <3>0
    <3> QED BY <1>2, <3>1 DEF CompareLarger, MaybeLess, MaybeGreater
  <2> HIDE DEF o, p
  <2>6. (\A i \in 1..4 : o[i] = o[1]) <=> (\A i \in 1..4 : p[i] = p[1])
    BY <2>2, <2>3
  <2>7. p[1] = -o[1]
    BY <2>2, <2>3, Zenon
  <2> QED BY <2>1, <2>4, <2>5, <2>6, <2>7, Zenon
<1> QED BY <1>3, <1>4, <1>5, <1>6, Zenon

-----------------------------------------------------------------------------
(***************************************************************************)
(* The invariant: the operands are values that are compared, and an order  *)
(* that is known is the one that the functions give.                       *)
(***************************************************************************)

Operands ==
  /\ kind = "duration" => IsDuration(lhs) /\ IsDuration(rhs)
  /\ kind # "duration" => lhs \in Compared /\ rhs \in Compared

IInv ==
  /\ Operands
  /\ order # Unknown => order = Result(lhs, rhs)
  /\ reversed # Unknown => reversed = Result(rhs, lhs)

LEMMA ValuesCompared == Values \subseteq Compared
<1> SUFFICES ASSUME NEW v \in Values PROVE v \in Compared
  OBVIOUS
<1>1. IsReadable(v) \/ v \in Futures \cup Pasts
  BY ValuesAssumption
<1>2. IsReadable(v) => v \in Finite
  BY Zenon DEF IsReadable
<1> QED BY <1>1, <1>2 DEF Compared

(* A time is compared on the last day of a year.                           *)
LEMMA MovedToNewYearsEve ==
  ASSUME NEW v \in Finite, NEW y \in MinYear..MaxYear
  PROVE  [v EXCEPT !.year = y, !.month = 12, !.day = 31] \in Finite
<1>1. /\ \A r \in Finite, z \in MinYear..MaxYear : [r EXCEPT !.year = z] \in Finite
      /\ \A r \in Finite : [r EXCEPT !.month = 12] \in Finite
      /\ \A r \in Finite : [r EXCEPT !.day = 31] \in Finite
  BY DEF Finite
<1>2. [v EXCEPT !.year = y] \in Finite
  BY <1>1, Zenon
<1>3. [[v EXCEPT !.year = y] EXCEPT !.month = 12] \in Finite
  BY <1>1, <1>2, Zenon
<1>4. [[[v EXCEPT !.year = y] EXCEPT !.month = 12] EXCEPT !.day = 31] \in Finite
  BY <1>1, <1>3, Zenon
<1> QED BY <1>4, Zenon

LEMMA PartsCompared ==
  ASSUME NEW v \in Values \cap Finite
  PROVE  OfDate(v) \in Compared /\ OfTime(v) \in Compared
<1>1. IsReadable(v)
  BY ValuesCompared, InfinitiesApart DEF Compared
<1>2. v \in Finite /\ v.zone \in Zones /\ IsDate(v)
      /\ v.minute <= 59 /\ v.second <= 59 /\ v.nanosecond < Giga
      /\ (v.hour = 24 => (v.minute = 0 /\ v.second = 0 /\ v.nanosecond = 0))
  BY <1>1, Zenon DEF IsReadable
<1>3. 0 \in 0..Giga /\ 0 < Giga
  BY GigaInt
<1>4. OfDate(v) \in Compared
  <2> DEFINE w == OfDate(v)
  <2>1. /\ w \in Finite /\ w.zone = v.zone /\ w.year = v.year /\ w.month = v.month
        /\ w.day = v.day /\ w.hour = 0 /\ w.minute = 0 /\ w.second = 0
        /\ w.nanosecond = 0
    <3>1. v \in Finite /\ 0 \in 0..Giga
      BY <1>2, <1>3, Zenon
    <3>2. w \in Finite
      <4>1. /\ \A r \in Finite : [r EXCEPT !.hour = 0] \in Finite
            /\ \A r \in Finite : [r EXCEPT !.minute = 0] \in Finite
            /\ \A r \in Finite : [r EXCEPT !.second = 0] \in Finite
            /\ \A r \in Finite : [r EXCEPT !.nanosecond = 0] \in Finite
        BY <3>1 DEF Finite
      <4> QED BY <3>1, <4>1, Zenon DEF OfDate
    <3>3. /\ w.zone = v.zone /\ w.year = v.year /\ w.month = v.month /\ w.day = v.day
          /\ w.hour = 0 /\ w.minute = 0 /\ w.second = 0 /\ w.nanosecond = 0
      BY <3>1 DEF OfDate, Finite
    <3> QED BY <3>2, <3>3, Zenon
  <2> HIDE DEF w
  <2>2. IsDate(w)
    BY <1>2, <2>1, Zenon DEF IsDate
  <2>3. IsReadable(w)
    BY <1>2, <1>3, <2>1, <2>2 DEF IsReadable
  <2> QED BY <2>1, <2>3 DEF Compared, w
<1>5. OfTime(v) \in Compared
  <2> DEFINE w == OfTime(v)
  <2>1. 1972 \in MinYear..MaxYear
    BY YearAssumption, LimitsAssumption
  <2>2. /\ w \in Finite /\ w.zone = v.zone /\ w.year = 1972 /\ w.month = 12
        /\ w.day = 31 /\ w.hour = v.hour /\ w.minute = v.minute /\ w.second = v.second
        /\ w.nanosecond = v.nanosecond
    <3>1. v \in Finite
      BY <1>2, Zenon
    <3>2. w \in Finite
      <4>1. \A y \in MinYear..MaxYear :
              [v EXCEPT !.year = y, !.month = 12, !.day = 31] \in Finite
        BY <3>1, MovedToNewYearsEve, Zenon
      <4>2. PICK y \in MinYear..MaxYear : y = 1972
        BY <2>1
      <4>3. OfTime(v) = [v EXCEPT !.year = y, !.month = 12, !.day = 31]
        BY <4>2 DEF OfTime
      <4> QED BY <4>1, <4>3, Zenon
    <3>3. /\ w.zone = v.zone /\ w.year = 1972 /\ w.month = 12 /\ w.day = 31
          /\ w.hour = v.hour /\ w.minute = v.minute /\ w.second = v.second
          /\ w.nanosecond = v.nanosecond
      BY <3>1 DEF OfTime, Finite
    <3> QED BY <3>2, <3>3
  <2> HIDE DEF w
  <2>3. IsDate(w)
    BY <2>2 DEF IsDate, DaysInMonth
  <2>4. IsReadable(w)
    BY <1>2, <2>2, <2>3 DEF IsReadable
  <2> QED BY <2>2, <2>4 DEF Compared, w
<1> QED BY <1>4, <1>5

LEMMA InitIInv == Init => IInv
<1> SUFFICES ASSUME Init PROVE IInv
  OBVIOUS
<1>1. order = Unknown /\ reversed = Unknown
  BY DEF Init
<1>2. ASSUME kind = "dateTime", lhs \in Values, rhs \in Values PROVE Operands
  <2>1. kind # "duration" /\ lhs \in Compared /\ rhs \in Compared
    BY <1>2, ValuesCompared
  <2> QED BY <2>1, Zenon DEF Operands
<1>3. ASSUME kind = "date", lhs \in {OfDate(v) : v \in Values \cap Finite},
             rhs \in {OfDate(v) : v \in Values \cap Finite}
      PROVE  Operands
  <2>1. kind # "duration" /\ lhs \in Compared /\ rhs \in Compared
    BY <1>3, PartsCompared
  <2> QED BY <2>1, Zenon DEF Operands
<1>4. ASSUME kind = "time", lhs \in {OfTime(v) : v \in Values \cap Finite},
             rhs \in {OfTime(v) : v \in Values \cap Finite}
      PROVE  Operands
  <2>1. kind # "duration" /\ lhs \in Compared /\ rhs \in Compared
    BY <1>4, PartsCompared
  <2> QED BY <2>1, Zenon DEF Operands
<1>5. ASSUME kind = "duration", lhs \in Lengths, rhs \in Lengths PROVE Operands
  <2>1. IsDuration(lhs) /\ IsDuration(rhs)
    BY <1>5, LengthsAssumption, Zenon
  <2> QED BY <1>5, <2>1, Zenon DEF Operands
<1>6. Operands
  BY <1>2, <1>3, <1>4, <1>5, Zenon DEF Init
<1> QED BY <1>1, <1>6 DEF IInv

LEMMA NextIInv == IInv /\ [Next]_vars => IInv'
<1> SUFFICES ASSUME IInv, [Next]_vars PROVE IInv'
  OBVIOUS
<1>1. UNCHANGED <<kind, lhs, rhs>> => UNCHANGED <<Operands, Result(lhs, rhs), Result(rhs, lhs)>>
  BY DEF Operands, Result
<1>2. CASE Compare
  <2>1. UNCHANGED <<kind, lhs, rhs>> /\ order' = Result(lhs, rhs) /\ reversed' = reversed
    BY <1>2 DEF Compare
  <2> QED BY <1>1, <2>1 DEF IInv
<1>3. CASE CompareReversed
  <2>1. UNCHANGED <<kind, lhs, rhs>> /\ reversed' = Result(rhs, lhs) /\ order' = order
    BY <1>3 DEF CompareReversed
  <2> QED BY <1>1, <2>1 DEF IInv
<1>4. CASE UNCHANGED vars
  BY <1>1, <1>4 DEF IInv, vars
<1> QED BY <1>2, <1>3, <1>4 DEF Next

LEMMA Invariance == Spec => []IInv
BY InitIInv, NextIInv, PTL DEF Spec

LEMMA ResultOpposite ==
  ASSUME Operands, ~Undecided
  PROVE  Result(rhs, lhs) = -Result(lhs, rhs)
<1>1. CASE kind = "duration"
  <2>1. IsDuration(lhs) /\ IsDuration(rhs)
    BY <1>1 DEF Operands
  <2>2. lhs # rhs /\ (\E i \in 1..4 : OrderAt(References[i], lhs, rhs)
                                        # OrderAt(References[1], lhs, rhs))
          => lhs.months # rhs.months \/ lhs.months = 0 \/ lhs.seconds # rhs.seconds
    <3>1. DOMAIN References = 1..4
      BY ReferencesAre
    <3> QED BY <1>1, <3>1, Zenon DEF Undecided
  <2>3. CompareDurations(rhs, lhs) = -CompareDurations(lhs, rhs)
    BY <2>1, <2>2, DurationsAntisymmetric, Zenon
  <2> QED BY <1>1, <2>3, Zenon DEF Result
<1>2. CASE kind # "duration"
  <2>1. lhs \in Compared /\ rhs \in Compared
    BY <1>2 DEF Operands
  <2>2. CompareDateTimes(rhs, lhs) = -CompareDateTimes(lhs, rhs)
    BY <2>1, DateTimesAntisymmetric, Zenon
  <2> QED BY <1>2, <2>2, Zenon DEF Result
<1> QED BY <1>1, <1>2

(* Comparing two values the other way round gives the opposite order of    *)
(* the same strictness, for all dateTimes, dates and times, infinite ones  *)
(* and local ones included, and all durations but those with the same      *)
(* months and seconds that its references disagree about.                  *)
THEOREM OrdersAreOpposite == Spec => []Antisymmetric
<1>1. IInv => Antisymmetric
  BY ResultOpposite, Zenon DEF IInv, Antisymmetric
<1> QED BY <1>1, Invariance, PTL

-----------------------------------------------------------------------------
(***************************************************************************)
(* The order found is that of time.                                        *)
(***************************************************************************)

(* l, moved by a seconds, is earlier than r, moved by b seconds.           *)
Earlier(l, a, r, b) ==
  Tick(l, a) < Tick(r, b) \/ (Tick(l, a) = Tick(r, b) /\ Nano(l) < Nano(r))

(* The moment of a value is its place, as a day and a second of the day.   *)
LEMMA MomentIs ==
  ASSUME NEW v \in DateTimes, NEW a \in Int
  PROVE  LET m == Moment(v, a)
         IN  /\ m[1] \in Int /\ m[2] \in Int /\ 0 <= m[2] /\ m[2] < DayLength
             /\ m[3] = Nano(v) /\ DayLength * m[1] + m[2] = Tick(v, -a)
<1> DEFINE m == Moment(v, a)
<1>1. /\ DayNumber(MaxYear + 1, 12, 31) \in Int /\ DayNumber(MinYear - 1, 1, 1) \in Int
  BY DayInts
<1>2. CASE v \in Finite
  <2>1. v \notin Futures /\ v \notin Pasts /\ DayOf(v) \in Int /\ SecondOfDay(v) \in Int
    BY <1>2, InfinitiesApart, DayInts, SecondInts
  <2> DEFINE s == SecondOfDay(v) - a
  <2>2. m = <<DayOf(v) + s \div DayLength, s % DayLength, v.nanosecond>>
    <3> DEFINE second == v.hour * 3600 + v.minute * 60 + v.second - a
    <3>1. m = <<DayNumber(v.year, v.month, v.day) + second \div 86400,
                second % 86400, v.nanosecond>>
      BY <2>1 DEF Moment
    <3>2. second = s
      <4>1. v.hour \in Int /\ v.minute \in Int /\ v.second \in Int
        BY <1>2 DEF Finite
      <4> QED BY <4>1 DEF SecondOfDay
    <3>3. m = <<DayOf(v) + second \div DayLength, second % DayLength, v.nanosecond>>
      <4> HIDE DEF second, m
      <4> QED BY <3>1 DEF DayOf, DayLength
    <3> HIDE DEF second, m, s
    <3> QED BY <3>2, <3>3, Zenon
  <2>3. s \in Int
    BY <2>1
  <2>4. Tick(v, -a) = Seconds(v) + (-a) /\ Nano(v) = v.nanosecond
    BY <1>2, <2>1, Zenon DEF Tick, Nano
  <2>5. Seconds(v) + (-a) = DayLength * DayOf(v) + s
    BY <2>1, DayLengthInt DEF Seconds
  <2> HIDE DEF s, m
  <2> DEFINE q == s \div DayLength
             t == s % DayLength
  <2>6. m = <<DayOf(v) + q, t, v.nanosecond>>
    BY <2>2, Zenon
  <2>7. q \in Int /\ t \in Int /\ 0 <= t /\ t < DayLength /\ s = DayLength * q + t
    BY <2>3 DEF DayLength
  <2> HIDE DEF q, t
  <2>8. m[1] = DayOf(v) + q /\ m[2] = t /\ m[3] = v.nanosecond
    BY <2>6
  <2>9. DayLength * m[1] + m[2] = Tick(v, -a)
    BY <2>1, <2>4, <2>5, <2>7, <2>8 DEF DayLength
  <2> QED BY <2>1, <2>4, <2>7, <2>8, <2>9 DEF m
<1>3. CASE v \in Futures
  <2>1. v \notin Finite /\ v \notin Pasts
    BY <1>3, InfinitiesApart
  <2>2. m = <<DayNumber(MaxYear + 1, 12, 31), 0, 0>>
    BY <1>3 DEF Moment
  <2>3. Tick(v, -a) = DayLength * DayNumber(MaxYear + 1, 12, 31) /\ Nano(v) = 0
    BY <1>3, <2>1, Zenon DEF Tick, Nano
  <2> QED BY <1>1, <2>2, <2>3, DayLengthInt
<1>4. CASE v \in Pasts
  <2>1. v \notin Finite /\ v \notin Futures
    BY <1>4, InfinitiesApart
  <2>2. m = <<DayNumber(MinYear - 1, 1, 1), 0, 0>>
    BY <1>4, <2>1 DEF Moment
  <2>3. Tick(v, -a) = DayLength * DayNumber(MinYear - 1, 1, 1) /\ Nano(v) = 0
    BY <1>4, <2>1, Zenon DEF Tick, Nano
  <2> QED BY <1>1, <2>2, <2>3, DayLengthInt
<1> QED BY <1>2, <1>3, <1>4 DEF DateTimes

LEMMA MomentOrder ==
  ASSUME NEW l \in DateTimes, NEW r \in DateTimes, NEW a \in Int, NEW b \in Int
  PROVE  Before(Moment(l, a), Moment(r, b)) <=> Earlier(l, -a, r, -b)
<1> DEFINE m == Moment(l, a)
           n == Moment(r, b)
<1>1. /\ m[1] \in Int /\ m[2] \in Int /\ 0 <= m[2] /\ m[2] < DayLength
      /\ m[3] = Nano(l) /\ DayLength * m[1] + m[2] = Tick(l, -a)
  BY MomentIs, Zenon
<1>2. /\ n[1] \in Int /\ n[2] \in Int /\ 0 <= n[2] /\ n[2] < DayLength
      /\ n[3] = Nano(r) /\ DayLength * n[1] + n[2] = Tick(r, -b)
  BY MomentIs, Zenon
<1> HIDE DEF m, n
<1>3. /\ Tick(l, -a) < Tick(r, -b) <=> m[1] < n[1] \/ (m[1] = n[1] /\ m[2] < n[2])
      /\ Tick(l, -a) = Tick(r, -b) <=> m[1] = n[1] /\ m[2] = n[2]
  BY <1>1, <1>2 DEF DayLength
<1>4. Before(m, n) <=> Earlier(l, -a, r, -b)
  BY <1>1, <1>2, <1>3, Zenon DEF Before, Earlier
<1> QED BY <1>4, Zenon DEF m, n

LEMMA ComparedOrder ==
  ASSUME NEW l \in Compared, NEW r \in Compared, NEW a \in Int, NEW b \in Int
  PROVE  Before(Moment(l, a), Moment(r, b)) <=> Earlier(l, -a, r, -b)
<1>1. l \in DateTimes /\ r \in DateTimes
  BY DEF Compared, DateTimes
<1> QED BY <1>1, MomentOrder, Zenon

(* The places of the values in Finite are in the calendar, the infinities  *)
(* more than a year outside of it: no more than two days bring them near.  *)
LEMMA CalendarTicks ==
  ASSUME NEW u \in Finite, IsDate(u), IsNormal(u), NEW k \in Int,
         0 <= k, k <= 2 * DayLength
  PROVE  /\ Seconds(u) \in Int
         /\ DayLength * DayNumber(MinYear - 1, 1, 1) < Seconds(u) + k
         /\ Seconds(u) + k < DayLength * DayNumber(MaxYear + 1, 12, 31)
         /\ DayLength * DayNumber(MinYear - 1, 1, 1)
              < DayLength * DayNumber(MaxYear + 1, 12, 31)
         /\ DayLength * DayNumber(MinYear - 1, 1, 1) \in Int
         /\ DayLength * DayNumber(MaxYear + 1, 12, 31) \in Int
<1> DEFINE future == DayNumber(MaxYear + 1, 12, 31)
           past == DayNumber(MinYear - 1, 1, 1)
           day == DayOf(u)
           second == SecondOfDay(u)
<1>1. /\ FirstDay \in Int /\ LastDay \in Int /\ FirstDay <= LastDay
      /\ future \in Int /\ past \in Int
      /\ LastDay + 365 <= future /\ past + 365 <= FirstDay
  BY DayInts, YearsOutside, Zenon
<1>2. /\ day \in Int /\ second \in Int /\ 0 <= second /\ second < DayLength
      /\ FirstDay <= day /\ day <= LastDay
  BY DayInts, SecondInts, InCalendar, Zenon
<1>3. Seconds(u) = DayLength * day + second
  BY Zenon DEF Seconds
<1> HIDE DEF future, past, day, second
<1>4. /\ Seconds(u) \in Int
      /\ DayLength * past < Seconds(u) + k /\ Seconds(u) + k < DayLength * future
      /\ DayLength * past < DayLength * future
      /\ DayLength * past \in Int /\ DayLength * future \in Int
  BY <1>1, <1>2, <1>3 DEF DayLength
<1> QED BY <1>4, Zenon DEF future, past

(* Where a conversion does not overflow, it is at the place of its value.  *)
Kept(v, z) == v \in Finite => ToUtcBy(v, ZoneOffset(z)) \in Finite

LEMMA KeptPlace ==
  ASSUME NEW v \in Compared, NEW z \in Offsets, Kept(v, z)
  PROVE  LET u == ToUtcBy(v, ZoneOffset(z))
         IN  \/ /\ v \in Finite /\ u \in Finite /\ IsDate(u) /\ IsNormal(u)
                /\ u.nanosecond = Nano(v)
                /\ Seconds(u) \in Int /\ Shift(z) \in Int
                /\ \A k \in Int : Tick(v, Shift(z) + k) = Seconds(u) + k
             \/ v \in Futures /\ u = InfiniteFuture(Utc)
             \/ v \in Pasts /\ u = InfinitePast(Utc)
<1> DEFINE u == ToUtcBy(v, ZoneOffset(z))
<1>1. /\ Placed(u, Tick(v, Shift(z)), Nano(v))
      /\ v \in Futures => u = InfiniteFuture(Utc)
      /\ v \in Pasts => u = InfinitePast(Utc)
  BY ConvertedPlaced, Zenon
<1>2. CASE v \in Finite
  <2>1. u \in Finite
    BY <1>2, Zenon DEF Kept
  <2>2. u \notin Futures /\ u \notin Pasts /\ v \notin Futures /\ v \notin Pasts
    BY <1>2, <2>1, InfinitiesApart
  <2>3. /\ IsDate(u) /\ IsNormal(u)
        /\ Seconds(u) = Tick(v, Shift(z)) /\ u.nanosecond = Nano(v)
    <3>1. InfiniteFuture(Utc) \in Futures /\ InfinitePast(Utc) \in Pasts
      BY InfinityFields
    <3> HIDE DEF u
    <3> QED BY <1>1, <2>2, <3>1, Zenon DEF Placed
  <2>4. /\ DayOf(v) \in Int /\ SecondOfDay(v) \in Int /\ Shift(z) \in Int
        /\ DayOf(u) \in Int /\ SecondOfDay(u) \in Int
    BY <1>2, <2>1, DayInts, SecondInts, OffsetIsDuration
  <2>5. Seconds(v) \in Int /\ Seconds(u) \in Int
    BY <2>4, DayLengthInt DEF Seconds
  <2>6. \A s : Tick(v, s) = Seconds(v) + s
    BY <2>2, Zenon DEF Tick
  <2> HIDE DEF u
  <2>7. \A k \in Int : Tick(v, Shift(z) + k) = Seconds(u) + k
    BY <2>3, <2>4, <2>5, <2>6
  <2> QED BY <1>2, <2>1, <2>3, <2>4, <2>5, <2>7, Zenon DEF u
<1>3. CASE v \in Futures
  BY <1>1, <1>3, Zenon
<1>4. CASE v \in Pasts
  BY <1>1, <1>4, Zenon
<1> QED BY <1>2, <1>3, <1>4 DEF Compared

(* The order of two such conversions is that of their values, which may    *)
(* both be moved by up to two days.                                        *)
LEMMA KeptOrder ==
  ASSUME NEW l \in Compared, NEW r \in Compared,
         NEW a \in Offsets, NEW b \in Offsets, Kept(l, a), Kept(r, b),
         NEW k \in Int, 0 <= k, k <= 2 * DayLength
  PROVE  DateLess(ToUtcBy(l, ZoneOffset(a)), ToUtcBy(r, ZoneOffset(b)))
           <=> Earlier(l, Shift(a) + k, r, Shift(b) + k)
<1> DEFINE u == ToUtcBy(l, ZoneOffset(a))
           w == ToUtcBy(r, ZoneOffset(b))
           i == Shift(a) + k
           j == Shift(b) + k
           future == DayLength * DayNumber(MaxYear + 1, 12, 31)
           past == DayLength * DayNumber(MinYear - 1, 1, 1)
           InFinite(v, z, x) == /\ v \in Finite /\ z \in Finite /\ IsDate(z) /\ IsNormal(z)
                                /\ z.nanosecond = Nano(v)
                                /\ Seconds(z) \in Int /\ Tick(v, x) = Seconds(z) + k
                                /\ past < Tick(v, x) /\ Tick(v, x) < future
           InFuture(v, z, x) == /\ v \in Futures /\ z = InfiniteFuture(Utc)
                                /\ Tick(v, x) = future /\ Nano(v) = 0
           InPast(v, z, x) == /\ v \in Pasts /\ z = InfinitePast(Utc)
                              /\ Tick(v, x) = past /\ Nano(v) = 0
<1>1. ASSUME NEW v \in Compared, NEW c \in Offsets, Kept(v, c)
      PROVE  LET z == ToUtcBy(v, ZoneOffset(c))
                 x == Shift(c) + k
             IN  InFinite(v, z, x) \/ InFuture(v, z, x) \/ InPast(v, z, x)
  <2> DEFINE z == ToUtcBy(v, ZoneOffset(c))
             x == Shift(c) + k
  <2>1. \/ /\ v \in Finite /\ z \in Finite /\ IsDate(z) /\ IsNormal(z)
           /\ z.nanosecond = Nano(v) /\ Seconds(z) \in Int
           /\ Tick(v, x) = Seconds(z) + k
        \/ v \in Futures /\ z = InfiniteFuture(Utc)
        \/ v \in Pasts /\ z = InfinitePast(Utc)
    BY <1>1, KeptPlace, Zenon
  <2>2. CASE v \in Finite /\ z \in Finite /\ IsDate(z) /\ IsNormal(z)
             /\ z.nanosecond = Nano(v) /\ Seconds(z) \in Int
             /\ Tick(v, x) = Seconds(z) + k
    <3>1. past < Seconds(z) + k /\ Seconds(z) + k < future
      <4> HIDE DEF z
      <4> QED BY <2>2, CalendarTicks
    <3>2. InFinite(v, z, x)
      BY <2>2, <3>1, Zenon
    <3> QED BY <3>2, Zenon
  <2>3. CASE v \in Futures /\ z = InfiniteFuture(Utc)
    <3>1. v \notin Finite
      BY <2>3, InfinitiesApart
    <3>2. InFuture(v, z, x)
      BY <2>3, <3>1, Zenon DEF Tick, Nano
    <3> QED BY <3>2, Zenon
  <2>4. CASE v \in Pasts /\ z = InfinitePast(Utc)
    <3>1. v \notin Finite /\ v \notin Futures
      BY <2>4, InfinitiesApart
    <3>2. InPast(v, z, x)
      BY <2>4, <3>1, Zenon DEF Tick, Nano
    <3> QED BY <3>2, Zenon
  <2> QED BY <2>1, <2>2, <2>3, <2>4, Zenon
<1>2. /\ InFinite(l, u, i) \/ InFuture(l, u, i) \/ InPast(l, u, i)
      /\ InFinite(r, w, j) \/ InFuture(r, w, j) \/ InPast(r, w, j)
  BY <1>1, Zenon
<1>3. past \in Int /\ future \in Int /\ past < future /\ Nano(l) \in Int /\ Nano(r) \in Int
  <2>1. DayNumber(MaxYear + 1, 12, 31) \in Int /\ DayNumber(MinYear - 1, 1, 1) \in Int
        /\ LastDay \in Int /\ FirstDay \in Int
    BY DayInts
  <2>2. past \in Int /\ future \in Int /\ past < future
    BY <2>1, YearsOutside DEF DayLength
  <2>3. Nano(l) \in Int /\ Nano(r) \in Int
    <3>1. 0 \in Int
      OBVIOUS
    <3> QED BY <3>1, TickInt, Zenon
  <2> QED BY <2>2, <2>3, Zenon
<1> HIDE DEF u, w, i, j, future, past
<1>4. CASE InFinite(l, u, i) /\ InFinite(r, w, j)
  <2>1. DateLess(u, w)
          <=> \/ Seconds(u) < Seconds(w)
              \/ Seconds(u) = Seconds(w) /\ u.nanosecond < w.nanosecond
    BY <1>4, FiniteOrder, Zenon
  <2>2. /\ Tick(l, i) < Tick(r, j) <=> Seconds(u) < Seconds(w)
        /\ Tick(l, i) = Tick(r, j) <=> Seconds(u) = Seconds(w)
    <3>1. /\ Tick(l, i) = Seconds(u) + k /\ Tick(r, j) = Seconds(w) + k
          /\ Seconds(u) \in Int /\ Seconds(w) \in Int
      BY <1>4, Zenon
    <3> DEFINE p == Seconds(u)
               q == Seconds(w)
    <3> HIDE DEF p, q
    <3>2. p \in Int /\ q \in Int => (p + k < q + k <=> p < q) /\ (p + k = q + k <=> p = q)
      OBVIOUS
    <3> QED BY <3>1, <3>2, Zenon DEF p, q
  <2>3. DateLess(u, w) <=> Earlier(l, i, r, j)
    BY <1>4, <2>1, <2>2, Zenon DEF Earlier
  <2> QED BY <2>3, Zenon DEF u, w, i, j
<1>5. CASE (InFinite(l, u, i) /\ InFuture(r, w, j)) \/ (InPast(l, u, i) /\ InFinite(r, w, j))
           \/ (InPast(l, u, i) /\ InFuture(r, w, j))
  <2>1. DateLess(u, w)
    <3>1. \E v : v \in Finite
      <4>1. [year |-> MinYear, month |-> 1, day |-> 1, zone |-> Utc,
             hour |-> 0, minute |-> 0, second |-> 0, nanosecond |-> 0] \in Finite
        BY YearAssumption, GigaInt DEF Finite, AllZones
      <4> QED BY <4>1, Zenon
    <3> QED BY <1>5, <3>1, InfinitiesOrder, Zenon
  <2>2. Tick(l, i) < Tick(r, j)
    BY <1>3, <1>5
  <2> QED BY <2>1, <2>2, Zenon DEF Earlier, u, w, i, j
<1>6. CASE (InFuture(l, u, i) /\ InFinite(r, w, j)) \/ (InFinite(l, u, i) /\ InPast(r, w, j))
           \/ (InFuture(l, u, i) /\ InPast(r, w, j))
  <2>1. ~DateLess(u, w)
    <3>1. \E v : v \in Finite
      <4>1. [year |-> MinYear, month |-> 1, day |-> 1, zone |-> Utc,
             hour |-> 0, minute |-> 0, second |-> 0, nanosecond |-> 0] \in Finite
        BY YearAssumption, GigaInt DEF Finite, AllZones
      <4> QED BY <4>1, Zenon
    <3> QED BY <1>6, <3>1, InfinitiesOrder, Zenon
  <2>2. ~(Tick(l, i) < Tick(r, j)) /\ Tick(l, i) # Tick(r, j)
    BY <1>3, <1>6
  <2> QED BY <2>1, <2>2, Zenon DEF Earlier, u, w, i, j
<1>7. CASE (InFuture(l, u, i) /\ InFuture(r, w, j)) \/ (InPast(l, u, i) /\ InPast(r, w, j))
  <2>1. ~DateLess(u, w)
    BY <1>7, InfinityFields, DateLessIrreflexive, Zenon
  <2>2. ~(Tick(l, i) < Tick(r, j)) /\ ~(Nano(l) < Nano(r))
    BY <1>3, <1>7
  <2> QED BY <2>1, <2>2, Zenon DEF Earlier, u, w, i, j
<1> QED BY <1>2, <1>4, <1>5, <1>6, <1>7, Zenon

(* A third value is after the first of two or before the second.           *)
LEMMA UnderWeak ==
  ASSUME NEW l, NEW m, NEW r, HasFields(l), HasFields(m), HasFields(r),
         HasFields(ToUtc(l)), HasFields(ToUtc(m)), HasFields(ToUtc(r)), Under(l, m)
  PROVE  Under(l, r) \/ Under(r, m)
<1>1. ASSUME NEW a, NEW b, NEW c, HasFields(a), HasFields(b), HasFields(c),
             FieldsLess(a, b)
      PROVE  FieldsLess(a, c) \/ FieldsLess(c, b)
  BY <1>1 DEF FieldsLess, HasFields
<1>2. FieldsLess(ToUtc(l), ToUtc(m))
        => FieldsLess(ToUtc(l), ToUtc(r)) \/ FieldsLess(ToUtc(r), ToUtc(m))
  BY <1>1, Zenon
<1>3. l.year \in Int /\ m.year \in Int /\ r.year \in Int
  BY DEF HasFields
<1> QED BY <1>2, <1>3 DEF Under

(* Two values with a zone, or two local ones.                              *)
LEMMA TotalInTime ==
  ASSUME NEW l \in Compared, NEW r \in Compared,
         (l.zone = Local) = (r.zone = Local),
         l \in Finite => ToUtc(l) \in Finite, ToUtc(l).year = l.year,
         r \in Finite => ToUtc(r) \in Finite, ToUtc(r).year = r.year
  PROVE  Under(l, r) <=> Before(MomentIn(l, 0), MomentIn(r, 0))
<1> DEFINE a == l.zone
           b == r.zone
<1>1. a \in Offsets /\ b \in Offsets /\ l \in DateTimes /\ r \in DateTimes
  <2>1. l \in DateTimes /\ r \in DateTimes
    BY DEF Compared, DateTimes
  <2> QED BY <2>1, FieldInts, ZonesAreOffsets
<1>2. ToUtc(l) = ToUtcBy(l, ZoneOffset(a)) /\ ToUtc(r) = ToUtcBy(r, ZoneOffset(b))
  BY OffsetsAre, Zenon DEF ToUtc
<1>3. Under(l, r) <=> DateLess(ToUtc(l), ToUtc(r))
  BY UnderIs, Zenon
<1>4. Kept(l, a) /\ Kept(r, b)
  BY <1>2, Zenon DEF Kept
<1>5. a \in Int /\ b \in Int /\ Shift(a) \in Int /\ Shift(b) \in Int
  BY <1>1, OffsetIsDuration
<1> HIDE DEF a, b
<1>6. ASSUME NEW k \in Int, 0 <= k, k <= 2 * DayLength
      PROVE  Under(l, r) <=> Earlier(l, Shift(a) + k, r, Shift(b) + k)
  BY <1>1, <1>2, <1>3, <1>4, <1>6, KeptOrder, Zenon
<1>7. CASE a = Local /\ b = Local
  <2>1. Shift(a) + 114300 = 0 /\ Shift(b) + 114300 = 0 /\ 114300 <= 2 * DayLength
    BY <1>7 DEF Local, Shift, DayLength
  <2>2. Under(l, r) <=> Earlier(l, 0, r, 0)
    <3>1. PICK k \in Int : k = 114300
      OBVIOUS
    <3>2. Shift(a) + k = 0 /\ Shift(b) + k = 0 /\ 0 <= k /\ k <= 2 * DayLength
      BY <2>1, <3>1
    <3>3. Under(l, r) <=> Earlier(l, Shift(a) + k, r, Shift(b) + k)
      BY <1>6, <3>2, Zenon
    <3> QED BY <3>2, <3>3, Zenon
  <2>3. MomentIn(l, 0) = Moment(l, 0) /\ MomentIn(r, 0) = Moment(r, 0)
    <3>1. l.zone = Local /\ r.zone = Local
      BY <1>7, Zenon DEF a, b
    <3> QED BY <3>1 DEF MomentIn
  <2>4. PICK c \in Int : c = 0 /\ -c = 0
    <3>1. \A i \in Int : 0 <= i /\ i <= 0 => -i = 0
      OBVIOUS
    <3> QED BY <3>1
  <2>5. Before(Moment(l, c), Moment(r, c)) <=> Earlier(l, -c, r, -c)
    BY ComparedOrder, Zenon
  <2> QED BY <2>2, <2>3, <2>4, <2>5, Zenon
<1>8. CASE a # Local /\ b # Local
  <2>1. MomentIn(l, 0) = Moment(l, a * 900) /\ MomentIn(r, 0) = Moment(r, b * 900)
    BY <1>8 DEF MomentIn, a, b
  <2>2. a * 900 \in Int /\ -(a * 900) = Shift(a) + 0
        /\ b * 900 \in Int /\ -(b * 900) = Shift(b) + 0
        /\ 0 \in Int /\ 0 <= 0 /\ 0 <= 2 * DayLength
    BY <1>5 DEF Shift, DayLength
  <2> DEFINE x == a * 900
             y == b * 900
  <2>3. /\ MomentIn(l, 0) = Moment(l, x) /\ MomentIn(r, 0) = Moment(r, y)
        /\ x \in Int /\ -x = Shift(a) + 0 /\ y \in Int /\ -y = Shift(b) + 0
    BY <2>1, <2>2
  <2> HIDE DEF x, y
  <2>4. Before(Moment(l, x), Moment(r, y)) <=> Earlier(l, Shift(a) + 0, r, Shift(b) + 0)
    BY <2>3, ComparedOrder, Zenon
  <2>5. Under(l, r) <=> Earlier(l, Shift(a) + 0, r, Shift(b) + 0)
    <3>1. PICK k \in Int : k = 0
      OBVIOUS
    <3>2. 0 <= k /\ k <= 2 * DayLength
      BY <2>2, <3>1
    <3>3. Under(l, r) <=> Earlier(l, Shift(a) + k, r, Shift(b) + k)
      BY <1>6, <3>2, Zenon
    <3> QED BY <3>1, <3>3, Zenon
  <2> QED BY <2>3, <2>4, <2>5, Zenon
<1> QED BY <1>7, <1>8, Zenon DEF a, b

(* A value with a zone, and a local one that is taken to be in a zone.     *)
LEMMA ZonedInTime ==
  ASSUME NEW l \in Compared, l.zone # Local,
         l \in Finite => ToUtc(l) \in Finite, ToUtc(l).year = l.year,
         NEW r \in Compared, r.zone = Local,
         NEW z \in -56..56, Kept(r, z),
         NEW u, u = ToUtcBy(r, ZoneOffset(z))
  PROVE  /\ Under(l, u) <=> Before(MomentIn(l, z * 900), MomentIn(r, z * 900))
         /\ Under(u, l) <=> Before(MomentIn(r, z * 900), MomentIn(l, z * 900))
<1> DEFINE a == l.zone
           x == a * 900
           y == z * 900
<1>1. a \in Offsets /\ z \in Offsets
  <2>1. l \in DateTimes
    BY DEF Compared, DateTimes
  <2> QED BY <2>1, FieldInts, ZonesAreOffsets DEF Offsets
<1>2. /\ ToUtc(l) = ToUtcBy(l, ZoneOffset(a)) /\ Kept(l, a)
  BY OffsetsAre, Zenon DEF ToUtc, Kept
<1>3. /\ x \in Int /\ -x = Shift(a) + 0 /\ y \in Int /\ -y = Shift(z) + 0
      /\ 0 \in Int /\ 0 <= 0 /\ 0 <= 2 * DayLength
  <2>1. a \in Int /\ z \in Int
    BY <1>1, OffsetIsDuration
  <2> HIDE DEF a
  <2> QED BY <2>1 DEF Shift, DayLength
<1>4. MomentIn(l, y) = Moment(l, x) /\ MomentIn(r, y) = Moment(r, y)
  <2> HIDE DEF y
  <2> QED BY DEF MomentIn
<1>5. SameFields(ToUtc(u), u) /\ u \in DateTimes
  <2>1. Placed(u, Tick(r, Shift(z)), Nano(r))
    BY <1>1, ConvertedPlaced, Zenon
  <2>2. Tick(r, Shift(z)) \in Int
    BY <1>1, OffsetIsDuration, TickInt, Zenon
  <2> QED BY <2>1, <2>2, Settled, Zenon
<1>6. ToUtc(u).year = u.year /\ SameFields(ToUtc(l), ToUtc(l))
  BY <1>5, Zenon DEF SameFields
<1>7. /\ Under(l, u) <=> DateLess(ToUtc(l), u)
      /\ Under(u, l) <=> DateLess(u, ToUtc(l))
  BY <1>5, <1>6, UnderIs, DateLessSame, Zenon
<1> HIDE DEF a, x, y
<1>8. /\ Under(l, u) <=> Earlier(l, Shift(a) + 0, r, Shift(z) + 0)
      /\ Under(u, l) <=> Earlier(r, Shift(z) + 0, l, Shift(a) + 0)
  BY <1>1, <1>2, <1>3, <1>7, KeptOrder, Zenon
<1>9. /\ Before(MomentIn(l, y), MomentIn(r, y)) <=> Earlier(l, -x, r, -y)
      /\ Before(MomentIn(r, y), MomentIn(l, y)) <=> Earlier(r, -y, l, -x)
  BY <1>3, <1>4, ComparedOrder, Zenon
<1>10. /\ Under(l, u) <=> Before(MomentIn(l, y), MomentIn(r, y))
       /\ Under(u, l) <=> Before(MomentIn(r, y), MomentIn(l, y))
  BY <1>3, <1>8, <1>9, Zenon
<1> QED BY <1>10, Zenon DEF y

(* Such a value is before a local one in every zone if it is before it in  *)
(* the zone where the local one is earliest, and likewise after it.        *)
LEMMA PartialInTime ==
  ASSUME NEW l \in Compared, l.zone # Local,
         l \in Finite => ToUtc(l) \in Finite, ToUtc(l).year = l.year,
         NEW r \in Compared, r.zone = Local,
         r \in Finite => /\ ToUtcBy(r, FourteenHours(-1)) \in Finite
                         /\ ToUtcBy(r, FourteenHours(1)) \in Finite
  PROVE  ComparePartial(l, r) = IF Precedes(l, r) THEN StrictlyLess
                                ELSE IF Precedes(r, l) THEN StrictlyGreater
                                ELSE MaybeGreater
<1> DEFINE low == ToUtcBy(r, FourteenHours(-1))
           high == ToUtcBy(r, FourteenHours(1))
           below == CompareTotal(l, low)
           above == CompareTotal(l, high)
<1>1. /\ l \in DateTimes /\ low \in DateTimes /\ high \in DateTimes
      /\ ~Under(high, low)
  BY ShiftOrdered, Zenon DEF Compared, DateTimes
<1>2. /\ HasFields(l) /\ HasFields(low) /\ HasFields(high)
      /\ HasFields(ToUtc(l)) /\ HasFields(ToUtc(low)) /\ HasFields(ToUtc(high))
  BY <1>1, ToUtcType, Zenon
<1>3. /\ low = ToUtcBy(r, ZoneOffset(56)) /\ high = ToUtcBy(r, ZoneOffset(-56))
      /\ Kept(r, 56) /\ Kept(r, -56)
  BY OffsetsAre, Zenon DEF Kept
<1>4. 56 \in -56..56 /\ -56 \in -56..56
  OBVIOUS
<1>5. /\ Under(l, low) <=> Before(MomentIn(l, 56 * 900), MomentIn(r, 56 * 900))
      /\ Under(low, l) <=> Before(MomentIn(r, 56 * 900), MomentIn(l, 56 * 900))
      /\ Under(l, high) <=> Before(MomentIn(l, -56 * 900), MomentIn(r, -56 * 900))
      /\ Under(high, l) <=> Before(MomentIn(r, -56 * 900), MomentIn(l, -56 * 900))
  BY <1>3, <1>4, ZonedInTime
<1>6. /\ Precedes(l, r) <=> Under(l, low) /\ Under(l, high)
      /\ Precedes(r, l) <=> Under(low, l) /\ Under(high, l)
  BY <1>5 DEF Precedes
<1> HIDE DEF low, high
<1>7. /\ Under(l, low) => Under(l, high)
      /\ Under(high, l) => Under(low, l)
      /\ ~(Under(l, low) /\ Under(high, l))
  BY <1>1, <1>2, UnderLinear, UnderWeak, Zenon
<1>8. /\ below \in {StrictlyLess, Equal, StrictlyGreater}
      /\ below < 0 <=> Under(l, low)
      /\ above \in {StrictlyLess, Equal, StrictlyGreater}
      /\ above > 0 <=> Under(high, l)
  BY <1>1, TotalAntisymmetric, Zenon
<1>9. ComparePartial(l, r) = IF below < 0 THEN below
                             ELSE IF above > 0 THEN above ELSE MaybeGreater
  BY Zenon DEF ComparePartial, low, high
<1> HIDE DEF below, above
<1>10. (below < 0 => below = StrictlyLess) /\ (above > 0 => above = StrictlyGreater)
  BY <1>8 DEF StrictlyLess, StrictlyGreater, Equal
<1> QED BY <1>6, <1>7, <1>8, <1>9, <1>10, Zenon

(* No value precedes one that precedes it.                                 *)
LEMMA PrecedesApart ==
  ASSUME NEW l \in Compared, NEW r \in Compared
  PROVE  ~(Precedes(l, r) /\ Precedes(r, l))
<1>1. ASSUME NEW a, NEW b, NEW i \in Int, NEW j \in Int, a \in Compared, b \in Compared
      PROVE  ~(Before(Moment(a, i), Moment(b, j)) /\ Before(Moment(b, j), Moment(a, i)))
  <2>1. /\ Before(Moment(a, i), Moment(b, j)) <=> Earlier(a, -i, b, -j)
        /\ Before(Moment(b, j), Moment(a, i)) <=> Earlier(b, -j, a, -i)
    BY <1>1, ComparedOrder, Zenon
  <2>2. /\ Tick(a, -i) \in Int /\ Tick(b, -j) \in Int
        /\ Nano(a) \in Int /\ Nano(b) \in Int
    <3>1. -i \in Int /\ -j \in Int
      OBVIOUS
    <3> QED BY <1>1, <3>1, TickInt, Zenon
  <2>3. ~(Earlier(a, -i, b, -j) /\ Earlier(b, -j, a, -i))
    BY <2>2 DEF Earlier
  <2> QED BY <2>1, <2>3, Zenon
<1>2. ASSUME NEW v \in Compared, NEW k \in Int
      PROVE  \E i \in Int : MomentIn(v, k) = Moment(v, i)
  <2>1. v \in DateTimes
    BY DEF Compared, DateTimes
  <2>2. v.zone \in Int
    BY <2>1, FieldInts, ZonesAreOffsets, OffsetIsDuration
  <2>3. v.zone * 900 \in Int
    BY <2>2
  <2>4. MomentIn(v, k) = Moment(v, k) \/ MomentIn(v, k) = Moment(v, v.zone * 900)
    BY DEF MomentIn
  <2> QED BY <2>3, <2>4
<1>3. ASSUME NEW k \in Int
      PROVE  ~(/\ Before(MomentIn(l, k), MomentIn(r, k))
               /\ Before(MomentIn(r, k), MomentIn(l, k)))
  <2>1. PICK i \in Int : MomentIn(l, k) = Moment(l, i)
    BY <1>2, Zenon
  <2>2. PICK j \in Int : MomentIn(r, k) = Moment(r, j)
    BY <1>2, Zenon
  <2> QED BY <1>1, <2>1, <2>2, Zenon
<1>4. 0 \in Int /\ 56 * 900 \in Int
  OBVIOUS
<1> QED BY <1>3, <1>4 DEF Precedes

(* The order of the values, as the code finds it.                          *)
LEMMA OrderInTime ==
  ASSUME lhs \in Compared, rhs \in Compared, KeptByConversion
  PROVE  IsOrderInTime(CompareDateTimes(lhs, rhs))
<1>1. /\ lhs.zone # Local \/ lhs.zone = rhs.zone
           => /\ lhs \in Finite => ToUtc(lhs) \in Finite
              /\ ToUtc(lhs).year = lhs.year
      /\ rhs.zone # Local \/ lhs.zone = rhs.zone
           => /\ rhs \in Finite => ToUtc(rhs) \in Finite
              /\ ToUtc(rhs).year = rhs.year
  BY DEF KeptByConversion, Converted
<1>2. /\ lhs.zone = Local /\ lhs.zone # rhs.zone /\ lhs \in Finite
           => /\ ToUtcBy(lhs, FourteenHours(-1)) \in Finite
              /\ ToUtcBy(lhs, FourteenHours(1)) \in Finite
      /\ rhs.zone = Local /\ lhs.zone # rhs.zone /\ rhs \in Finite
           => /\ ToUtcBy(rhs, FourteenHours(-1)) \in Finite
              /\ ToUtcBy(rhs, FourteenHours(1)) \in Finite
  BY DEF KeptByConversion, Converted
<1>3. CASE (lhs.zone = Local) = (rhs.zone = Local)
  <2>1. /\ lhs.zone # Local \/ lhs.zone = rhs.zone
        /\ rhs.zone # Local \/ lhs.zone = rhs.zone
    BY <1>3
  <2>2. /\ Under(lhs, rhs) <=> Precedes(lhs, rhs)
        /\ Under(rhs, lhs) <=> Precedes(rhs, lhs)
    BY <1>1, <1>3, <2>1, TotalInTime, Zenon DEF Precedes
  <2>3. lhs \in DateTimes /\ rhs \in DateTimes
    BY DEF Compared, DateTimes
  <2> DEFINE c == CompareTotal(lhs, rhs)
  <2>4. /\ c \in {StrictlyLess, Equal, StrictlyGreater}
        /\ c < 0 <=> Precedes(lhs, rhs)
        /\ c > 0 <=> Precedes(rhs, lhs)
    BY <2>2, <2>3, TotalAntisymmetric, Zenon
  <2>5. CompareDateTimes(lhs, rhs) = c
    BY <1>3, Zenon DEF CompareDateTimes
  <2> HIDE DEF c
  <2>6. /\ c < 0 => c = StrictlyLess
        /\ c > 0 => c = StrictlyGreater
        /\ ~(c < 0) /\ ~(c > 0) => c = Equal
    BY <2>4 DEF StrictlyLess, StrictlyGreater, Equal
  <2> QED BY <1>3, <2>4, <2>5, <2>6, Zenon DEF IsOrderInTime
<1>4. CASE lhs.zone # Local /\ rhs.zone = Local
  <2>1. ComparePartial(lhs, rhs) = IF Precedes(lhs, rhs) THEN StrictlyLess
                                   ELSE IF Precedes(rhs, lhs) THEN StrictlyGreater
                                   ELSE MaybeGreater
    BY <1>1, <1>2, <1>4, PartialInTime, Zenon
  <2>2. CompareDateTimes(lhs, rhs) = ComparePartial(lhs, rhs)
    BY <1>4, Zenon DEF CompareDateTimes
  <2> QED BY <1>4, <2>1, <2>2, Zenon DEF IsOrderInTime
<1>5. CASE lhs.zone = Local /\ rhs.zone # Local
  <2>1. ComparePartial(rhs, lhs) = IF Precedes(rhs, lhs) THEN StrictlyLess
                                   ELSE IF Precedes(lhs, rhs) THEN StrictlyGreater
                                   ELSE MaybeGreater
    BY <1>1, <1>2, <1>5, PartialInTime, Zenon
  <2>2. /\ CompareDateTimes(lhs, rhs) = -CompareDateTimes(rhs, lhs)
        /\ CompareDateTimes(rhs, lhs) = ComparePartial(rhs, lhs)
    BY <1>5, DateTimesAntisymmetric, Zenon DEF CompareDateTimes
  <2>3. ~(Precedes(rhs, lhs) /\ Precedes(lhs, rhs))
    BY PrecedesApart, Zenon
  <2>4. /\ -StrictlyLess = StrictlyGreater /\ -StrictlyGreater = StrictlyLess
        /\ -MaybeGreater = MaybeLess
    <3>1. \A i \in Int : (i = -2 => -i = 2) /\ (i = 2 => -i = -2) /\ (i = 1 => -i = -1)
      OBVIOUS
    <3>2. /\ StrictlyLess \in Int /\ StrictlyLess = -2
          /\ StrictlyGreater \in Int /\ StrictlyGreater = 2
          /\ MaybeGreater \in Int /\ MaybeGreater = 1 /\ MaybeLess = -1
      BY DEF StrictlyLess, StrictlyGreater, MaybeLess, MaybeGreater
    <3> QED BY <3>1, <3>2, Zenon
  <2> QED BY <1>5, <2>1, <2>2, <2>3, <2>4, Zenon DEF IsOrderInTime
<1> QED BY <1>3, <1>4, <1>5, Zenon

(* Dates, times and dateTimes are in the order of time wherever no         *)
(* conversion to UTC leaves the year or the range of the type, and a local *)
(* value is strictly before or after one with a zone exactly if it is so   *)
(* in every zone.                                                          *)
THEOREM OrderedInTime == Spec => []InTimeWithinYear
<1>1. ASSUME IInv PROVE InTimeWithinYear
  <2> SUFFICES ASSUME kind # "duration", order # Unknown, KeptByConversion
               PROVE  IsOrderInTime(order)
    BY Zenon DEF InTimeWithinYear
  <2>1. lhs \in Compared /\ rhs \in Compared
    BY <1>1, Zenon DEF IInv, Operands
  <2>2. order = CompareDateTimes(lhs, rhs)
    BY <1>1, Zenon DEF IInv, Result
  <2> QED BY <2>1, <2>2, OrderInTime, Zenon
<1> QED BY <1>1, Invariance, PTL

-----------------------------------------------------------------------------
(***************************************************************************)
(* Where the sum of a value and a duration lies, in nanoseconds, and that  *)
(* the two ends of the calendar change no order of two sums.               *)
(***************************************************************************)

Later(d) == 0 <= d.seconds /\ 0 <= d.nanoseconds

(* The fields of a sum with such a duration hold no whole unit.            *)
LEMMA LaterNormal ==
  ASSUME NEW v \in Finite, NEW d, IsDuration(d), Later(d)
  PROVE  IsNormal(SumFields(v, d))
<1>1. v \in DateTimes
  BY DEF DateTimes
<1>2. /\ v.hour \in Int /\ 0 <= v.hour /\ v.minute \in Int /\ 0 <= v.minute
      /\ v.second \in Int /\ 0 <= v.second
      /\ v.nanosecond \in Int /\ 0 <= v.nanosecond
  BY <1>1, FieldInts DEF Finite
<1>3. /\ d.seconds \in Int /\ 0 <= d.seconds
      /\ d.nanoseconds \in Int /\ 0 <= d.nanoseconds
  BY GigaInt DEF IsDuration, Later
<1>4. /\ CRem(d.seconds, 60) \in Int /\ 0 <= CRem(d.seconds, 60)
      /\ CDiv(d.seconds, 60) \in Int /\ 0 <= CDiv(d.seconds, 60)
  BY <1>3, DivRem60
<1>5. /\ CRem(CDiv(d.seconds, 60), 60) \in Int /\ 0 <= CRem(CDiv(d.seconds, 60), 60)
      /\ CDiv(CDiv(d.seconds, 60), 60) \in Int /\ 0 <= CDiv(CDiv(d.seconds, 60), 60)
  BY <1>4, DivRem60
<1>6. /\ CRem(CDiv(CDiv(d.seconds, 60), 60), 24) \in Int
      /\ 0 <= CRem(CDiv(CDiv(d.seconds, 60), 60), 24)
  BY <1>5, DivRem24
<1>7. /\ NanosecondSum(v, d) \in Int /\ SecondSum(v, d) \in Int
      /\ MinuteSum(v, d) \in Int /\ HourSum(v, d) \in Int
  BY <1>1, SumInts
<1>8. 0 <= NanosecondSum(v, d)
  BY <1>2, <1>3 DEF NanosecondSum
<1>9. 0 <= SecondSum(v, d)
  <2>1. CarryOf(NanosecondSum(v, d), Giga) >= 0 /\ CarryOf(NanosecondSum(v, d), Giga) \in Int
    BY <1>7, <1>8, NormalField, FieldGiga
  <2> QED BY <1>2, <1>4, <2>1 DEF SecondSum
<1>10. 0 <= MinuteSum(v, d)
  <2>1. CarryOf(SecondSum(v, d), 60) >= 0 /\ CarryOf(SecondSum(v, d), 60) \in Int
    BY <1>7, <1>9, NormalField, Field60
  <2> QED BY <1>2, <1>5, <2>1 DEF MinuteSum
<1>11. 0 <= HourSum(v, d)
  <2>1. CarryOf(MinuteSum(v, d), 60) >= 0 /\ CarryOf(MinuteSum(v, d), 60) \in Int
    BY <1>7, <1>10, NormalField, Field60
  <2> QED BY <1>2, <1>6, <2>1 DEF HourSum
<1>12. /\ FieldOf(HourSum(v, d), 24) <= 23 /\ FieldOf(MinuteSum(v, d), 60) <= 59
       /\ FieldOf(SecondSum(v, d), 60) <= 59 /\ FieldOf(NanosecondSum(v, d), Giga) < Giga
  BY <1>7, <1>8, <1>9, <1>10, <1>11, NormalField
<1> QED BY <1>12 DEF IsNormal, SumFields

(* And those of any other sum no whole second of nanoseconds.              *)
LEMMA NanosecondBelow ==
  ASSUME NEW v \in Finite, v.nanosecond < Giga, NEW d, IsDuration(d)
  PROVE  SumFields(v, d).nanosecond < Giga
<1> DEFINE x == NanosecondSum(v, d)
<1>1. v.nanosecond \in Int /\ 0 <= v.nanosecond
  BY GigaInt DEF Finite
<1>2. d.nanoseconds \in Int /\ -Giga < d.nanoseconds
  BY GigaInt DEF IsDuration
<1>3. x \in Int /\ -Giga < x
  BY <1>1, <1>2, GigaInt DEF NanosecondSum
<1> HIDE DEF x
<1>4. CASE 0 <= x
  <2>1. FieldOf(x, Giga) < Giga
    BY <1>3, <1>4, NormalField
  <2> QED BY <2>1 DEF SumFields, x
<1>5. CASE x < 0
  <2>1. CDiv(x, Giga) = 0
    BY <1>3, <1>5 DEF CDiv, Giga
  <2>2. CRem(x, Giga) = x
    BY <1>3, <2>1, GigaInt DEF CRem
  <2>3. FieldOf(x, Giga) < Giga
    BY <1>3, <1>5, <2>2, GigaInt DEF FieldOf
  <2> QED BY <2>3 DEF SumFields, x
<1> QED BY <1>3, <1>4, <1>5

Nanos(v) == Giga * Seconds(v) + v.nanosecond

(* The same for the sum, had the calendar no limits.                       *)
Exact(v, d) ==
  Giga * (DayLength * ShiftedDay(v, d) + SecondOfDay(v) + d.seconds)
    + v.nanosecond + d.nanoseconds

FirstNano == Giga * (DayLength * FirstDay)
LastNano == Giga * (DayLength * (LastDay + 1))

LEMMA ExactInts ==
  ASSUME NEW v \in Finite, NEW d, IsDuration(d)
  PROVE  /\ Exact(v, d) \in Int /\ FirstNano \in Int /\ LastNano \in Int
         /\ FirstNano < LastNano
         /\ ShiftedDay(v, d) \in Int /\ SecondOfDay(v) \in Int /\ 0 <= SecondOfDay(v)
         /\ v.nanosecond \in Int /\ 0 <= v.nanosecond
         /\ d.months \in Int /\ d.seconds \in Int /\ d.nanoseconds \in Int
<1>1. SecondOfDay(v) \in Int /\ 0 <= SecondOfDay(v)
  BY SecondInts
<1>2. v.nanosecond \in Int /\ 0 <= v.nanosecond
  BY GigaInt DEF Finite
<1>3. d.months \in Int /\ d.seconds \in Int /\ d.nanoseconds \in Int
  BY GigaInt DEF IsDuration
<1>4. ShiftedDay(v, d) \in Int
  <2>1. /\ SumYear(v, d) \in Int /\ SumMonth(v, d) \in 1..12
        /\ ShiftedDay(v, d) = DayNumber(SumYear(v, d), SumMonth(v, d), v.day)
    BY ShiftedDayAnywhere
  <2>2. v.day \in Int
    BY DEF Finite
  <2> QED BY <2>1, <2>2, DayNumberInt
<1>5. FirstDay \in Int /\ LastDay \in Int /\ FirstDay <= LastDay
  BY DayInts, YearsOutside
<1>6. FirstNano \in Int /\ LastNano \in Int /\ FirstNano < LastNano
  BY <1>5 DEF FirstNano, LastNano, Giga, DayLength
<1>7. Exact(v, d) \in Int
  BY <1>1, <1>2, <1>3, <1>4 DEF Exact, Giga, DayLength
<1> QED BY <1>1, <1>2, <1>3, <1>4, <1>6, <1>7

LEMMA NanosBounds ==
  ASSUME NEW d \in Int, NEW t \in Int, 0 <= t, NEW n \in Int, 0 <= n
  PROVE  /\ Giga * (DayLength * d + t) + n \in Int
         /\ Giga * (DayLength * d) <= Giga * (DayLength * d + t) + n
         /\ t < DayLength /\ n < Giga
              => Giga * (DayLength * d + t) + n < Giga * (DayLength * (d + 1))
BY DEF Giga, DayLength

(* The nanoseconds of a value are those of its day.                        *)
LEMMA NanosOfDay ==
  ASSUME NEW s \in Finite
  PROVE  /\ Nanos(s) \in Int /\ DayOf(s) \in Int
         /\ Giga * (DayLength * DayOf(s)) <= Nanos(s)
         /\ IsNormal(s) => Nanos(s) < Giga * (DayLength * (DayOf(s) + 1))
<1>1. /\ DayOf(s) \in Int /\ SecondOfDay(s) \in Int /\ 0 <= SecondOfDay(s)
      /\ IsNormal(s) => SecondOfDay(s) < DayLength
  BY DayInts, SecondInts
<1>2. /\ s.nanosecond \in Int /\ 0 <= s.nanosecond
      /\ IsNormal(s) => s.nanosecond < Giga
  BY GigaInt DEF Finite, IsNormal
<1> DEFINE x == Giga * (DayLength * DayOf(s) + SecondOfDay(s)) + s.nanosecond
<1>3. /\ x \in Int /\ Giga * (DayLength * DayOf(s)) <= x
      /\ SecondOfDay(s) < DayLength /\ s.nanosecond < Giga
           => x < Giga * (DayLength * (DayOf(s) + 1))
  BY <1>1, <1>2, NanosBounds, Zenon
<1>4. Nanos(s) = x
  BY Zenon DEF Nanos, Seconds
<1> HIDE DEF x
<1> QED BY <1>1, <1>2, <1>3, <1>4, Zenon

(* A sum is at its place, or at an end of the calendar.                    *)
SumPlaced(v, d) ==
  LET s == Sum(v, d)
  IN  \/ /\ s \in Finite /\ IsDate(s) /\ s.nanosecond < Giga /\ s.zone = v.zone
         /\ Nanos(s) = Exact(v, d)
         /\ Later(d) => IsNormal(s)
      \/ s = InfiniteFuture(v.zone) /\ LastNano <= Exact(v, d)
      \/ s = InfinitePast(v.zone) /\ (Later(d) => Exact(v, d) < FirstNano)

LEMMA SumIsPlaced ==
  ASSUME NEW v \in Finite, v.nanosecond < Giga, NEW d, IsDuration(d), 0 <= d.months
  PROVE  SumPlaced(v, d)
<1> DEFINE s == Sum(v, d)
           e == SumFields(v, d)
           n == DayNumber(SumYear(v, d), SumMonth(v, d), DaySum(v, d))
           x == Exact(v, d)
<1>1. v \in DateTimes /\ v.day \in Int /\ 1 <= v.day
      /\ v.month \in Int /\ v.year \in Int /\ v.year \in MinYear..MaxYear
      /\ MinYear \in Int /\ MaxYear \in Int /\ 1 <= v.month /\ v.month <= 12
  BY YearAssumption DEF DateTimes, Finite
<1>2. /\ x \in Int /\ FirstNano \in Int /\ LastNano \in Int
      /\ ShiftedDay(v, d) \in Int /\ SecondOfDay(v) \in Int /\ 0 <= SecondOfDay(v)
      /\ v.nanosecond \in Int /\ 0 <= v.nanosecond
      /\ d.months \in Int /\ d.seconds \in Int /\ d.nanoseconds \in Int
  BY ExactInts
<1>3. /\ SumYear(v, d) \in Int /\ SumMonth(v, d) \in 1..12
      /\ MonthNumber(v, d) = 12 * SumYear(v, d) + (SumMonth(v, d) - 1)
      /\ ShiftedDay(v, d) = DayNumber(SumYear(v, d), SumMonth(v, d), v.day)
  BY ShiftedDayAnywhere
<1>4. FirstDay \in Int /\ LastDay \in Int
  BY DayInts
<1>5. MinYear <= SumYear(v, d)
  BY <1>1, <1>2, <1>3 DEF MonthNumber
<1>6. CASE SumYear(v, d) > MaxYear
  <2>1. s = InfiniteFuture(v.zone)
    BY <1>6, Zenon DEF Sum
  <2>2. 0 < d.months
    BY <1>1, <1>2, <1>3, <1>6 DEF MonthNumber
  <2>3. 0 <= d.seconds /\ 0 <= d.nanoseconds
    BY <1>2, <2>2 DEF IsDuration
  <2>4. LastDay < ShiftedDay(v, d)
    BY <1>1, <1>3, <1>6, AfterYear DEF LastDay
  <2>5. LastNano <= x
    BY <1>2, <1>4, <2>3, <2>4 DEF Exact, LastNano, Giga, DayLength
  <2> QED BY <2>1, <2>5, Zenon DEF SumPlaced
<1>7. CASE SumYear(v, d) \in MinYear..MaxYear
  <2>1. Lands(s, n, e) /\ Reaches(v, d, n, e)
    BY <1>1, <1>7, SumLands, SumReaches, Zenon
  <2>2. e \in Dayless /\ e.zone = v.zone /\ e.nanosecond < Giga
    <3>1. e \in Dayless
      BY <1>1, <1>7, SumFieldsDayless
    <3>2. e.zone = v.zone
      BY DEF SumFields
    <3> QED BY <3>1, <3>2, NanosecondBelow
  <2>3. DaySum(v, d) \in Int
    BY <1>1, <1>7, SumFieldsDayless
  <2>4. n \in Int
    BY <1>3, <2>3, DayNumberInt
  <2>5. /\ SecondOfDay(e) \in Int /\ 0 <= SecondOfDay(e)
        /\ IsNormal(e) => SecondOfDay(e) < DayLength
        /\ e.nanosecond \in Int /\ 0 <= e.nanosecond
    BY <2>2, SecondInts, GigaInt DEF Dayless
  <2>6. Later(d) => IsNormal(e)
    BY LaterNormal
  <2> HIDE DEF n, e, x, s
  <2>7. Giga * (DayLength * n + SecondOfDay(e)) + e.nanosecond = x
    <3> DEFINE nanos == e.nanosecond - v.nanosecond - d.nanoseconds
               q == nanos \div Giga
    <3>1. nanos % Giga = 0 /\ SecondOfDay(e) - SecondOfDay(v) + q
            = d.seconds - 86400 * (n - ShiftedDay(v, d))
      BY <2>1 DEF Reaches
    <3>2. nanos \in Int
      BY <1>2, <2>5
    <3>3. q \in Int /\ nanos = Giga * q
      <4> HIDE DEF nanos
      <4> QED BY <3>1, <3>2 DEF Giga
    <3>4. e.nanosecond = v.nanosecond + d.nanoseconds + Giga * q
      BY <1>2, <2>5, <3>3, GigaInt
    <3> HIDE DEF nanos, q
    <3>5. DayLength * n + SecondOfDay(e) + q
            = DayLength * ShiftedDay(v, d) + SecondOfDay(v) + d.seconds
      BY <1>2, <2>4, <2>5, <3>1, <3>3 DEF DayLength
    <3> QED BY <1>2, <2>4, <2>5, <3>3, <3>4, <3>5 DEF Exact, x, Giga, DayLength
  <2>8. CASE s \in Finite /\ IsDate(s) /\ SameTime(s, e) /\ DayOf(s) = n
    <3>1. /\ s.zone = v.zone /\ s.nanosecond = e.nanosecond
          /\ SecondOfDay(s) = SecondOfDay(e) /\ (IsNormal(e) => IsNormal(s))
      BY <2>2, <2>8 DEF SameTime, SecondOfDay, IsNormal
    <3>2. Nanos(s) = x
      BY <2>7, <2>8, <3>1, Zenon DEF Nanos, Seconds
    <3> QED BY <2>2, <2>6, <2>8, <3>1, <3>2, Zenon DEF SumPlaced, s, x
  <2>9. CASE s = InfiniteFuture(e.zone) /\ LastDay < n
    <3>1. LastNano <= x
      BY <1>4, <2>4, <2>5, <2>7, <2>9 DEF LastNano, Giga, DayLength
    <3> QED BY <2>2, <2>9, <3>1, Zenon DEF SumPlaced, s, x
  <2>10. CASE s = InfinitePast(e.zone) /\ n < FirstDay
    <3>1. IsNormal(e) => x < FirstNano
      BY <1>4, <2>2, <2>4, <2>5, <2>7, <2>10 DEF FirstNano, Giga, DayLength
    <3> QED BY <2>2, <2>6, <2>10, <3>1, Zenon DEF SumPlaced, s, x
  <2> QED BY <2>1, <2>8, <2>9, <2>10, Zenon DEF Lands
<1> QED BY <1>1, <1>3, <1>5, <1>6, <1>7

(* The order of two moments is that of their places.                       *)
LEMMA PlacedBefore ==
  ASSUME NEW l \in DateTimes, NEW r \in DateTimes
  PROVE  Before(Moment(l, 0), Moment(r, 0)) <=> Earlier(l, 0, r, 0)
<1>1. PICK z \in Int : z = 0 /\ -z = 0
  OBVIOUS
<1>2. Before(Moment(l, z), Moment(r, z)) <=> Earlier(l, -z, r, -z)
  BY MomentOrder, Zenon
<1> QED BY <1>1, <1>2

(* The infinities are outside of the calendar.                             *)
LEMMA EndsApart ==
  /\ \A z \in AllZones :
       /\ Tick(InfinitePast(z), 0) = DayLength * DayNumber(MinYear - 1, 1, 1)
       /\ Tick(InfiniteFuture(z), 0) = DayLength * DayNumber(MaxYear + 1, 12, 31)
  /\ DayLength * DayNumber(MinYear - 1, 1, 1) < DayLength * DayNumber(MaxYear + 1, 12, 31)
  /\ \A s \in Finite : IsDate(s) =>
       /\ Tick(s, 0) = Seconds(s) /\ Seconds(s) \in Int
       /\ DayLength * DayNumber(MinYear - 1, 1, 1) < Seconds(s)
       /\ Seconds(s) < DayLength * DayNumber(MaxYear + 1, 12, 31)
<1> DEFINE first == DayNumber(MinYear - 1, 1, 1)
           last == DayNumber(MaxYear + 1, 12, 31)
<1>1. first \in Int /\ last \in Int /\ FirstDay \in Int /\ LastDay \in Int
  BY DayInts
<1>2. LastDay + 365 <= last /\ first + 365 <= FirstDay /\ FirstDay <= LastDay
  BY YearsOutside
<1> HIDE DEF first, last
<1>3. ASSUME NEW z \in AllZones
      PROVE  Tick(InfinitePast(z), 0) = DayLength * first
             /\ Tick(InfiniteFuture(z), 0) = DayLength * last
  <2>1. InfinitePast(z) \in Pasts /\ InfiniteFuture(z) \in Futures
    BY DEF Pasts, Futures
  <2>2. InfinitePast(z) \notin Futures
    BY <2>1, InfinitiesApart
  <2> QED BY <2>1, <2>2, Zenon DEF Tick, first, last
<1>4. DayLength * first < DayLength * last
  BY <1>1, <1>2 DEF DayLength
<1>5. ASSUME NEW s \in Finite, IsDate(s)
      PROVE  /\ Tick(s, 0) = Seconds(s) /\ Seconds(s) \in Int
             /\ DayLength * first < Seconds(s) /\ Seconds(s) < DayLength * last
  <2>1. FirstDay <= DayOf(s) /\ DayOf(s) <= LastDay
    BY <1>5, InCalendar
  <2>2. DayOf(s) \in Int /\ SecondOfDay(s) \in Int /\ 0 <= SecondOfDay(s)
    BY DayInts, SecondInts
  <2>3. SecondOfDay(s) <= 2 * DayLength
    <3>1. /\ s.hour \in Int /\ s.hour <= 24 /\ s.minute \in Int /\ s.minute <= 60
          /\ s.second \in Int /\ s.second <= 60
      BY DEF Finite
    <3> QED BY <3>1 DEF SecondOfDay, DayLength
  <2>4. /\ Seconds(s) \in Int
        /\ DayLength * first < Seconds(s) /\ Seconds(s) < DayLength * last
    BY <1>1, <1>2, <2>1, <2>2, <2>3 DEF Seconds, DayLength
  <2>5. s \notin Futures /\ s \notin Pasts
    BY InfinitiesApart
  <2>6. Tick(s, 0) = Seconds(s) + 0
    BY <2>5, Zenon DEF Tick
  <2> QED BY <2>4, <2>6
<1> QED BY <1>3, <1>4, <1>5, Zenon DEF first, last

(* Nanoseconds are counted within their second.                            *)
LEMMA NanosLess ==
  ASSUME NEW a \in Int, NEW b \in Int, NEW m \in Int, NEW n \in Int,
         0 <= m, m < Giga, 0 <= n, n < Giga
  PROVE  /\ Giga * a + m < Giga * b + n => a < b \/ (a = b /\ m < n)
         /\ Giga * a + m <= Giga * b + n => a < b \/ (a = b /\ m <= n)
BY DEF Giga

-----------------------------------------------------------------------------
(***************************************************************************)
(* How long a duration is that starts in the month number k.               *)
(***************************************************************************)

MonthOf(v) == 12 * v.year + (v.month - 1)

Extent(k, d) ==
  Giga * (DayLength * DaysOfMonths(k, d.months) + d.seconds) + d.nanoseconds

LEMMA MonthStartInt ==
  ASSUME NEW k \in Int
  PROVE  MonthStart(k) \in Int
<1>1. k \div 12 \in Int /\ (k % 12) + 1 \in 1..12 /\ 1 \in Int
  OBVIOUS
<1> QED BY <1>1, DayNumberInt, Zenon DEF MonthStart

(* No months have no days, and some have some.                             *)
LEMMA MonthsHaveDays ==
  ASSUME NEW k \in Int
  PROVE  /\ \A n \in Int : DaysOfMonths(k, n) \in Int
         /\ DaysOfMonths(k, 0) = 0
         /\ \A n \in Int : 0 < n => 0 < DaysOfMonths(k, n)
<1>1. \A n \in Int : DaysOfMonths(k, n) \in Int
  BY MonthStartInt DEF DaysOfMonths
<1>2. DaysOfMonths(k, 0) = 0
  <2>1. k + 0 = k /\ MonthStart(k) \in Int
    BY MonthStartInt
  <2> QED BY <2>1 DEF DaysOfMonths
<1>3. ASSUME NEW n \in Int, 0 < n PROVE 0 < DaysOfMonths(k, n)
  <2> DEFINE y == k \div 12
             m == (k % 12) + 1
             z == (k + n) \div 12
             j == ((k + n) % 12) + 1
  <2>1. /\ y \in Int /\ m \in 1..12 /\ k = 12 * y + (m - 1)
        /\ z \in Int /\ j \in 1..12 /\ k + n = 12 * z + (j - 1)
    OBVIOUS
  <2>2. MonthStart(k) = DayNumber(y, m, 1) /\ MonthStart(k + n) = DayNumber(z, j, 1)
    BY DEF MonthStart
  <2> HIDE DEF y, m, z, j
  <2>3. y < z \/ (y = z /\ m < j)
    BY <1>3, <2>1
  <2>4. /\ DaysBeforeYear(y) \in Int /\ DaysBeforeMonth(y, m) \in Int
        /\ DaysBeforeYear(z) \in Int /\ DaysBeforeMonth(z, j) \in Int
        /\ DaysInMonth(y, m) \in 28..31
    BY <2>1, DaysBeforeInts, DaysInMonthRange
  <2>5. CASE y < z
    <3>1. DayNumber(y, 12, 31) < DayNumber(z, j, 1)
      <4>1. 1 \in Int /\ 1 <= 1
        OBVIOUS
      <4> QED BY <2>1, <2>5, <4>1, AfterYear, Zenon
    <3>2. DaysBeforeMonth(y, m) <= DaysBeforeMonth(y, 12) /\ DaysBeforeMonth(y, 12) \in Int
      <4>1. 12 \in 1..12
        OBVIOUS
      <4> QED BY <2>1, <4>1, MonthsInOrder, DaysBeforeInts, Zenon
    <3> QED BY <2>2, <2>4, <3>1, <3>2 DEF DayNumber, DaysOfMonths
  <2>6. CASE y = z /\ m < j
    <3>1. DaysBeforeMonth(y, m) + DaysInMonth(y, m) <= DaysBeforeMonth(y, j)
      BY <2>1, <2>6, MonthGap
    <3> QED BY <2>2, <2>4, <2>6, <3>1 DEF DayNumber, DaysOfMonths
  <2> QED BY <2>3, <2>5, <2>6
<1> QED BY <1>1, <1>2, <1>3

LEMMA ExtentInt ==
  ASSUME NEW k \in Int, NEW d, IsDuration(d)
  PROVE  /\ Extent(k, d) \in Int /\ DaysOfMonths(k, d.months) \in Int
         /\ d.months \in Int /\ d.seconds \in Int /\ d.nanoseconds \in Int
<1>1. d.months \in Int /\ d.seconds \in Int /\ d.nanoseconds \in Int
  BY GigaInt DEF IsDuration
<1>2. DaysOfMonths(k, d.months) \in Int
  BY <1>1, MonthsHaveDays
<1>3. Extent(k, d) \in Int
  BY <1>1, <1>2 DEF Extent, Giga, DayLength
<1> QED BY <1>1, <1>2, <1>3

(* The extents in two months, of durations with the months of one.         *)
LEMMA ExtentGrows ==
  ASSUME NEW k \in Int, NEW j \in Int, NEW d, IsDuration(d),
         DaysOfMonths(k, d.months) <= DaysOfMonths(j, d.months)
  PROVE  Extent(k, d) <= Extent(j, d)
<1>1. /\ d.seconds \in Int /\ d.nanoseconds \in Int
      /\ DaysOfMonths(k, d.months) \in Int /\ DaysOfMonths(j, d.months) \in Int
  BY ExtentInt
<1> QED BY <1>1 DEF Extent, Giga, DayLength

LEMMA ExtentOfSeconds ==
  ASSUME NEW k \in Int, NEW d, IsDuration(d), d.months = 0
  PROVE  Extent(k, d) = Giga * d.seconds + d.nanoseconds
<1>1. d.seconds \in Int /\ d.nanoseconds \in Int
  BY ExtentInt
<1>2. DaysOfMonths(k, d.months) = 0
  BY MonthsHaveDays
<1> QED BY <1>1, <1>2 DEF Extent, Giga, DayLength

(* A sum is its extent away.                                               *)
LEMMA ExactIs ==
  ASSUME NEW v \in Finite, NEW d, IsDuration(d)
  PROVE  /\ MonthOf(v) \in Int /\ Nanos(v) \in Int
         /\ Exact(v, d) = Nanos(v) + Extent(MonthOf(v), d)
<1>1. v.year \in Int /\ v.month \in 1..12 /\ v.day \in Int /\ v.nanosecond \in Int
  BY YearAssumption, GigaInt DEF Finite
<1>2. d.months \in Int /\ d.seconds \in Int /\ d.nanoseconds \in Int
  BY GigaInt DEF IsDuration
<1>3. MonthOf(v) \in Int /\ MonthNumber(v, d) = MonthOf(v) + d.months
  BY <1>1, <1>2 DEF MonthOf, MonthNumber
<1>4. ASSUME NEW y \in Int, NEW m \in 1..12
      PROVE  DayNumber(y, m, v.day) = DayNumber(y, m, 1) + (v.day - 1)
  <2>1. DaysBeforeYear(y) \in Int /\ DaysBeforeMonth(y, m) \in Int
    BY DaysBeforeInts, Zenon
  <2> QED BY <1>1, <2>1 DEF DayNumber
<1>5. DayOf(v) = MonthStart(MonthOf(v)) + (v.day - 1)
  <2>1. MonthOf(v) \div 12 = v.year /\ (MonthOf(v) % 12) + 1 = v.month
    BY <1>1 DEF MonthOf
  <2>2. MonthStart(MonthOf(v)) = DayNumber(v.year, v.month, 1)
    BY <2>1, Zenon DEF MonthStart
  <2> QED BY <1>1, <1>4, <2>2, Zenon DEF DayOf
<1>6. ShiftedDay(v, d) = MonthStart(MonthOf(v) + d.months) + (v.day - 1)
  <2> DEFINE k == MonthOf(v) + d.months
  <2>1. k \div 12 \in Int /\ (k % 12) + 1 \in 1..12
    <3>1. k \in Int
      BY <1>2, <1>3
    <3> HIDE DEF k
    <3> QED BY <3>1
  <2>2. ShiftedDay(v, d) = DayNumber(k \div 12, (k % 12) + 1, v.day)
    BY <1>3, Zenon DEF ShiftedDay
  <2> QED BY <1>4, <2>1, <2>2, Zenon DEF MonthStart
<1>7. MonthStart(MonthOf(v)) \in Int /\ MonthStart(MonthOf(v) + d.months) \in Int
  <2>1. MonthOf(v) + d.months \in Int
    BY <1>2, <1>3
  <2> QED BY <1>3, <2>1, MonthStartInt, Zenon
<1>8. ShiftedDay(v, d) = DayOf(v) + DaysOfMonths(MonthOf(v), d.months)
  BY <1>1, <1>5, <1>6, <1>7 DEF DaysOfMonths
<1>9. DayOf(v) \in Int /\ SecondOfDay(v) \in Int /\ DaysOfMonths(MonthOf(v), d.months) \in Int
  BY <1>2, <1>3, DayInts, SecondInts, MonthsHaveDays
<1>10. Exact(v, d) = Nanos(v) + Extent(MonthOf(v), d)
  BY <1>1, <1>2, <1>8, <1>9 DEF Exact, Nanos, Seconds, Extent, Giga, DayLength
<1>11. Nanos(v) \in Int
  BY NanosOfDay
<1> QED BY <1>3, <1>10, <1>11

-----------------------------------------------------------------------------
(***************************************************************************)
(* The order of two sums is that of the extents, and back.                 *)
(***************************************************************************)

(* A value that was read ends at the latest when the calendar does.        *)
LEMMA ReadableNanos ==
  ASSUME NEW v, IsReadable(v)
  PROVE  Nanos(v) <= LastNano
<1>1. v \in Finite /\ IsDate(v)
  BY DEF IsReadable
<1>2. DayOf(v) <= LastDay
  BY <1>1, InCalendar
<1>3. DayOf(v) \in Int /\ LastDay \in Int /\ Nanos(v) \in Int
  BY <1>1, DayInts, NanosOfDay
<1>4. v.hour <= 24 /\ v.hour \in Int
  BY <1>1 DEF Finite
<1>5. CASE v.hour <= 23
  <2>1. IsNormal(v)
    BY <1>5 DEF IsNormal, IsReadable
  <2>2. Nanos(v) < Giga * (DayLength * (DayOf(v) + 1))
    BY <1>1, <2>1, NanosOfDay
  <2> QED BY <1>2, <1>3, <2>2 DEF LastNano, Giga, DayLength
<1>6. CASE v.hour = 24
  <2>1. v.minute = 0 /\ v.second = 0 /\ v.nanosecond = 0
    BY <1>6 DEF IsReadable
  <2>2. SecondOfDay(v) = DayLength
    BY <1>6, <2>1 DEF SecondOfDay, DayLength
  <2>3. Nanos(v) = Giga * (DayLength * DayOf(v) + DayLength) + 0
    BY <2>1, <2>2, Zenon DEF Nanos, Seconds
  <2> QED BY <1>2, <1>3, <2>3 DEF LastNano, Giga, DayLength
<1> QED BY <1>4, <1>5, <1>6

(* The greater of two sums is not past the end before the lesser one.      *)
LEMMA GreaterEnds ==
  ASSUME NEW v, IsReadable(v), NEW b, IsDuration(b), 0 <= b.months,
         Sum(v, b) \in Finite
  PROVE  Exact(v, b) <= LastNano
<1> DEFINE g == Sum(v, b)
<1>1. v \in Finite /\ v.nanosecond < Giga
  BY DEF IsReadable
<1>2. Exact(v, b) \in Int /\ LastNano \in Int
  BY <1>1, ExactInts
<1>3. b.months \in Int /\ b.seconds \in Int /\ b.nanoseconds \in Int
  BY GigaInt DEF IsDuration
<1>4. CASE Later(b)
  <2>1. g \notin Futures \cup Pasts /\ v.zone \in AllZones
    BY <1>1, InfinitiesApart DEF Finite
  <2>2. g # InfiniteFuture(v.zone) /\ g # InfinitePast(v.zone)
    BY <2>1 DEF Futures, Pasts
  <2>3. g \in Finite /\ IsDate(g) /\ Nanos(g) = Exact(v, b) /\ IsNormal(g)
    BY <1>1, <1>4, <2>2, SumIsPlaced, Zenon DEF SumPlaced
  <2> HIDE DEF g
  <2>4. DayOf(g) <= LastDay /\ DayOf(g) \in Int /\ LastDay \in Int
    BY <2>3, InCalendar, DayInts
  <2>5. Nanos(g) < Giga * (DayLength * (DayOf(g) + 1))
    BY <2>3, NanosOfDay
  <2> QED BY <1>2, <2>3, <2>4, <2>5 DEF LastNano, Giga, DayLength
<1>5. CASE ~Later(b)
  <2>1. b.months = 0 /\ b.seconds <= 0 /\ b.nanoseconds <= 0
    BY <1>3, <1>5 DEF Later, IsDuration
  <2>2. MonthOf(v) \in Int /\ Nanos(v) \in Int
        /\ Exact(v, b) = Nanos(v) + Extent(MonthOf(v), b)
    BY <1>1, ExactIs
  <2>3. Extent(MonthOf(v), b) = Giga * b.seconds + b.nanoseconds
    BY <2>1, <2>2, ExtentOfSeconds
  <2>4. Nanos(v) <= LastNano
    BY ReadableNanos
  <2> QED BY <1>2, <1>3, <2>1, <2>2, <2>3, <2>4 DEF Giga
<1> QED BY <1>4, <1>5

LEMMA SumsOrdered ==
  ASSUME NEW v, IsReadable(v), NEW a, IsDuration(a), 0 <= a.months,
         NEW b, IsDuration(b), 0 <= b.months, Exact(v, a) < Exact(v, b)
  PROVE  IsOrderedSum(v, a, b)
<1> DEFINE l == Sum(v, a)
           g == Sum(v, b)
           z == v.zone
<1>1. v \in Finite /\ v.nanosecond < Giga /\ z \in AllZones
  BY DEF IsReadable, Finite
<1>2. /\ Exact(v, a) \in Int /\ Exact(v, b) \in Int
      /\ FirstNano \in Int /\ LastNano \in Int /\ FirstNano < LastNano
  BY <1>1, ExactInts
<1>3. SumPlaced(v, a) /\ SumPlaced(v, b)
  BY <1>1, SumIsPlaced, Zenon
<1>4. l \in DateTimes /\ g \in DateTimes
  <2>1. v \in DateTimes
    BY <1>1 DEF DateTimes
  <2> QED BY <2>1, SumType, Zenon
<1>5. /\ InfinitePast(z) \in Pasts /\ InfiniteFuture(z) \in Futures
      /\ InfinitePast(z) \notin Finite /\ InfiniteFuture(z) \notin Finite
  BY <1>1, InfinitiesApart DEF Pasts, Futures
<1>6. SUFFICES Earlier(l, 0, g, 0) \/ (l = g /\ l \notin Finite) \/ g \in Pasts
  BY <1>4, <1>6, PlacedBefore, Zenon DEF IsOrderedSum
<1>7. \/ l \in Finite /\ IsDate(l) /\ l.nanosecond < Giga /\ Nanos(l) = Exact(v, a)
      \/ l = InfiniteFuture(z) /\ LastNano <= Exact(v, a)
      \/ l = InfinitePast(z)
  BY <1>3, Zenon DEF SumPlaced
<1>8. \/ g \in Finite /\ IsDate(g) /\ g.nanosecond < Giga /\ Nanos(g) = Exact(v, b)
      \/ g = InfiniteFuture(z)
      \/ g \in Pasts
  BY <1>3, <1>5, Zenon DEF SumPlaced
<1>9. g \in Finite => Exact(v, b) <= LastNano
  BY GreaterEnds
<1> HIDE DEF l, g, z
<1> DEFINE first == DayLength * DayNumber(MinYear - 1, 1, 1)
           last == DayLength * DayNumber(MaxYear + 1, 12, 31)
<1>10. /\ Tick(InfinitePast(z), 0) = first /\ Tick(InfiniteFuture(z), 0) = last
       /\ first < last
       /\ \A s \in Finite : IsDate(s) =>
            Tick(s, 0) = Seconds(s) /\ Seconds(s) \in Int /\ first < Seconds(s) /\ Seconds(s) < last
  BY <1>1, EndsApart, Zenon
<1> HIDE DEF first, last
<1>11. CASE g \in Pasts
  BY <1>11
<1>12. CASE g = InfiniteFuture(z)
  <2>1. CASE l \in Finite /\ IsDate(l)
    <3>1. Tick(l, 0) < Tick(g, 0)
      BY <1>10, <1>12, <2>1
    <3> QED BY <3>1 DEF Earlier
  <2>2. CASE l = InfiniteFuture(z)
    BY <1>5, <1>12, <2>2
  <2>3. CASE l = InfinitePast(z)
    BY <1>10, <1>12, <2>3, Zenon DEF Earlier
  <2> QED BY <1>7, <2>1, <2>2, <2>3, Zenon
<1>13. CASE g \in Finite /\ IsDate(g) /\ g.nanosecond < Giga /\ Nanos(g) = Exact(v, b)
  <2>1. CASE l \in Finite /\ IsDate(l) /\ l.nanosecond < Giga /\ Nanos(l) = Exact(v, a)
    <3>1. /\ l.nanosecond \in Int /\ 0 <= l.nanosecond
          /\ g.nanosecond \in Int /\ 0 <= g.nanosecond
      BY <1>13, <2>1, GigaInt DEF Finite
    <3>2. /\ Tick(l, 0) = Seconds(l) /\ Seconds(l) \in Int
          /\ Tick(g, 0) = Seconds(g) /\ Seconds(g) \in Int
      BY <1>10, <1>13, <2>1, Zenon
    <3>3. Giga * Seconds(l) + l.nanosecond < Giga * Seconds(g) + g.nanosecond
      BY <1>13, <2>1, Zenon DEF Nanos
    <3>4. Seconds(l) < Seconds(g) \/ (Seconds(l) = Seconds(g) /\ l.nanosecond < g.nanosecond)
      BY <1>13, <2>1, <3>1, <3>2, <3>3, NanosLess, Zenon
    <3>5. Nano(l) = l.nanosecond /\ Nano(g) = g.nanosecond
      BY <1>13, <2>1, Zenon DEF Nano
    <3> QED BY <3>2, <3>4, <3>5, Zenon DEF Earlier
  <2>2. CASE l = InfiniteFuture(z) /\ LastNano <= Exact(v, a)
    BY <1>2, <1>9, <1>13, <2>2
  <2>3. CASE l = InfinitePast(z)
    BY <1>10, <1>13, <2>3, Zenon DEF Earlier
  <2> QED BY <1>7, <2>1, <2>2, <2>3, Zenon
<1> QED BY <1>8, <1>11, <1>12, <1>13, Zenon

(* Sums with a reference that are found in an order are in that order in   *)
(* time, if the conversions keep them in one year or in two.               *)
LEMMA UnderExact ==
  ASSUME NEW v \in Finite, v.nanosecond < Giga,
         NEW a, IsDuration(a), 0 <= a.months, Later(a),
         NEW b, IsDuration(b), 0 <= b.months,
         Under(Sum(v, a), Sum(v, b)),
         Sum(v, a).year = Sum(v, b).year
           => ToUtc(Sum(v, a)).year = ToUtc(Sum(v, b)).year
  PROVE  Exact(v, a) < Exact(v, b)
<1> DEFINE l == Sum(v, a)
           g == Sum(v, b)
           z == v.zone
           x == Exact(v, a)
           y == Exact(v, b)
<1> SUFFICES x < y
  OBVIOUS
<1>1. z \in AllZones /\ z \in Offsets
  BY ZonesAreOffsets DEF Finite
<1>2. /\ x \in Int /\ y \in Int
      /\ FirstNano \in Int /\ LastNano \in Int /\ FirstNano < LastNano
  BY ExactInts
<1>3. SumPlaced(v, a) /\ SumPlaced(v, b)
  BY SumIsPlaced, Zenon
<1>4. /\ InfinitePast(z) \in Pasts /\ InfiniteFuture(z) \in Futures
      /\ InfinitePast(z).year = MinYear /\ InfiniteFuture(z).year = MaxYear
  BY <1>1 DEF Pasts, Futures, InfinitePast, InfiniteFuture
<1> DEFINE lIsPlaced == /\ l \in Finite /\ IsDate(l) /\ l.nanosecond < Giga /\ l.zone = z
                        /\ Nanos(l) = x /\ IsNormal(l)
           gIsPlaced == /\ g \in Finite /\ IsDate(g) /\ g.nanosecond < Giga /\ g.zone = z
                        /\ Nanos(g) = y
<1>5. lIsPlaced \/ l = InfiniteFuture(z) \/ (l = InfinitePast(z) /\ x < FirstNano)
  BY <1>3, Zenon DEF SumPlaced
<1>6. gIsPlaced \/ (g = InfiniteFuture(z) /\ LastNano <= y) \/ g = InfinitePast(z)
  BY <1>3, Zenon DEF SumPlaced
<1>7. Under(l, g) /\ (l.year = g.year => ToUtc(l).year = ToUtc(g).year)
  OBVIOUS
<1> HIDE DEF l, g, x, y, z
<1>8. \A s \in Finite : s.year \in Int /\ MinYear <= s.year /\ s.year <= MaxYear
  BY YearAssumption DEF Finite
<1>9. MinYear \in Int /\ MaxYear \in Int /\ MinYear <= MaxYear
  BY YearAssumption
<1>10. ASSUME lIsPlaced PROVE x < LastNano
  <2>1. DayOf(l) <= LastDay /\ DayOf(l) \in Int /\ LastDay \in Int
    BY <1>10, InCalendar, DayInts
  <2>2. Nanos(l) < Giga * (DayLength * (DayOf(l) + 1))
    BY <1>10, NanosOfDay
  <2> QED BY <1>2, <1>10, <2>1, <2>2 DEF LastNano, Giga, DayLength
<1>11. ASSUME gIsPlaced PROVE FirstNano <= y
  <2>1. FirstDay <= DayOf(g) /\ DayOf(g) \in Int /\ FirstDay \in Int
    BY <1>11, InCalendar, DayInts
  <2>2. Giga * (DayLength * DayOf(g)) <= Nanos(g)
    BY <1>11, NanosOfDay
  <2> QED BY <1>2, <1>11, <2>1, <2>2 DEF FirstNano, Giga, DayLength
(* Where one of them is in the calendar and the other is not.              *)
<1>12. ASSUME l # InfiniteFuture(z), g # InfinitePast(z), ~(lIsPlaced /\ gIsPlaced)
       PROVE  x < y
  <2>1. lIsPlaced \/ x < FirstNano
    BY <1>5, <1>12, Zenon
  <2>2. gIsPlaced \/ LastNano <= y
    BY <1>6, <1>12, Zenon
  <2>3. x < LastNano /\ FirstNano <= y
    <3> HIDE DEF lIsPlaced, gIsPlaced
    <3> QED BY <1>2, <1>10, <1>11, <2>1, <2>2
  <2> HIDE DEF lIsPlaced, gIsPlaced
  <2> QED BY <1>2, <1>12, <2>1, <2>2, <2>3
<1>13. CASE l.year < g.year
  <2>1. ASSUME lIsPlaced, gIsPlaced PROVE x < y
    <3>1. DayOf(l) < DayOf(g) /\ DayOf(l) \in Int /\ DayOf(g) \in Int
      BY <1>13, <2>1, LaterDay, DayInts DEF DayLess
    <3>2. /\ Nanos(l) < Giga * (DayLength * (DayOf(l) + 1))
          /\ Giga * (DayLength * DayOf(g)) <= Nanos(g)
      BY <2>1, NanosOfDay
    <3> QED BY <1>2, <2>1, <3>1, <3>2 DEF Giga, DayLength
  <2>2. l # InfiniteFuture(z) /\ g # InfinitePast(z)
    <3>1. /\ g.year \in Int /\ g.year <= MaxYear
          /\ l.year \in Int /\ MinYear <= l.year
      BY <1>4, <1>5, <1>6, <1>8, <1>9
    <3> QED BY <1>4, <1>9, <1>13, <3>1
  <2> HIDE DEF lIsPlaced, gIsPlaced
  <2> QED BY <1>12, <2>1, <2>2, Zenon
<1>14. CASE l.year = g.year
  <2>1. DateLess(ToUtc(l), ToUtc(g))
    <3>1. ~(l.year < g.year)
      <4>1. l.year \in Int
        BY <1>4, <1>5, <1>8, <1>9
      <4> QED BY <1>14, <4>1
    <3> QED BY <1>7, <1>14, <3>1, Zenon DEF Under, DateLess
  <2> DEFINE p == InfinitePast(Utc)
             f == InfiniteFuture(Utc)
  <2>2. \A s : s.zone = z => ToUtc(s) = ToUtcBy(s, ZoneOffset(z))
    BY OffsetsAre DEF ToUtc
  <2>3. /\ InfinitePast(z).zone = z /\ InfiniteFuture(z).zone = z
        /\ ToUtc(InfinitePast(z)) = p /\ ToUtc(InfiniteFuture(z)) = f
    <3>1. InfinitePast(z).zone = z /\ InfiniteFuture(z).zone = z
      BY DEF InfinitePast, InfiniteFuture
    <3> QED BY <1>1, <1>4, <2>2, <3>1, InfinitePlaced, Zenon
  <2>4. ASSUME NEW s \in Finite, s.nanosecond < Giga, s.zone = z
        PROVE  Placed(ToUtc(s), Seconds(s) + Shift(z), s.nanosecond)
    BY <1>1, <2>2, <2>4, FinitePlaced, Zenon
  <2>5. \A s \in Finite : ~DateLess(f, s) /\ ~DateLess(s, p)
    BY InfinitiesOrder
  <2>6. ~DateLess(f, f) /\ ~DateLess(p, p) /\ ~DateLess(f, p)
    BY DateLessIrreflexive, InfinityFields, InfinitiesOrder
  <2>7. ASSUME NEW s \in Finite, s.nanosecond < Giga, s.zone = z
        PROVE  ~DateLess(f, ToUtc(s)) /\ ~DateLess(ToUtc(s), p)
    BY <2>4, <2>5, <2>6, <2>7, Zenon DEF Placed
  <2>8. CASE l = InfiniteFuture(z)
    BY <1>6, <2>1, <2>3, <2>6, <2>7, <2>8, Zenon
  <2>9. CASE g = InfinitePast(z)
    BY <1>5, <2>1, <2>3, <2>6, <2>7, <2>9, Zenon
  <2>10. ASSUME lIsPlaced, gIsPlaced PROVE x < y
    <3>1. /\ Placed(ToUtc(l), Seconds(l) + Shift(z), l.nanosecond)
          /\ Placed(ToUtc(g), Seconds(g) + Shift(z), g.nanosecond)
      BY <2>4, <2>10, Zenon
    <3>2. /\ l.nanosecond \in Int /\ 0 <= l.nanosecond
          /\ g.nanosecond \in Int /\ 0 <= g.nanosecond
      BY <2>10, GigaInt DEF Finite
    <3>3. Shift(z) \in Int
      BY <1>1, OffsetIsDuration
    <3>4. Seconds(l) \in Int /\ Seconds(g) \in Int
      BY <2>10, DayInts, SecondInts DEF Seconds, DayLength
    <3> SUFFICES ASSUME ~(x < y) PROVE FALSE
      OBVIOUS
    <3>5. Giga * Seconds(g) + g.nanosecond <= Giga * Seconds(l) + l.nanosecond
      BY <1>2, <2>10 DEF Nanos
    <3> DEFINE s == Seconds(g) + Shift(z)
               t == Seconds(l) + Shift(z)
    <3>6. s \in Int /\ t \in Int
      BY <3>3, <3>4
    <3>7. s < t \/ (s = t /\ g.nanosecond <= l.nanosecond)
      <4>1. \/ Seconds(g) < Seconds(l)
            \/ Seconds(g) = Seconds(l) /\ g.nanosecond <= l.nanosecond
        BY <2>10, <3>2, <3>4, <3>5, NanosLess, Zenon
      <4> QED BY <3>3, <3>4, <4>1
    <3> HIDE DEF s, t
    <3>8. ~DateLess(ToUtc(l), ToUtc(g))
      BY <3>1, <3>2, <3>6, <3>7, PlacedOrder, Zenon DEF s, t
    <3> QED BY <2>1, <3>8
  <2> HIDE DEF lIsPlaced, gIsPlaced
  <2> QED BY <1>12, <2>8, <2>9, <2>10, Zenon
<1> QED BY <1>7, <1>13, <1>14, Zenon DEF Under

-----------------------------------------------------------------------------
(***************************************************************************)
(* The four references stand for all months.                               *)
(***************************************************************************)

LEMMA ReferenceMonths ==
  /\ \A i \in 1..4 : References[i] \in Finite /\ References[i].nanosecond < Giga
  /\ MonthOf(References[1]) = 12 * 1696 + 8 /\ MonthOf(References[2]) = 12 * 1697 + 1
  /\ MonthOf(References[3]) = 12 * 1903 + 2 /\ MonthOf(References[4]) = 12 * 1903 + 6
<1> DEFINE Fit(v) == v \in Finite /\ v.nanosecond < Giga
<1>1. /\ 1696 \in MinYear..MaxYear /\ 1697 \in MinYear..MaxYear
      /\ 1903 \in MinYear..MaxYear /\ Local \in AllZones /\ 0 \in 0..Giga /\ 0 < Giga
  BY YearAssumption, LimitsAssumption, GigaInt DEF AllZones
<1>2. /\ References[1] = Start(1696, 9) /\ References[2] = Start(1697, 2)
      /\ References[3] = Start(1903, 3) /\ References[4] = Start(1903, 7)
  BY DEF References
<1>3. Fit(Start(1696, 9)) /\ Fit(Start(1697, 2))
  BY <1>1 DEF Start, Finite
<1>4. Fit(Start(1903, 3)) /\ Fit(Start(1903, 7))
  BY <1>1 DEF Start, Finite
<1>5. \A i \in 1..4 : i = 1 \/ i = 2 \/ i = 3 \/ i = 4
  OBVIOUS
<1>6. \A i \in 1..4 : Fit(References[i])
  <2> HIDE DEF Fit
  <2> QED BY <1>2, <1>3, <1>4, <1>5
<1>7. /\ MonthOf(References[1]) = 12 * 1696 + 8 /\ MonthOf(References[2]) = 12 * 1697 + 1
      /\ MonthOf(References[3]) = 12 * 1903 + 2 /\ MonthOf(References[4]) = 12 * 1903 + 6
  BY <1>2 DEF MonthOf, Start
<1> QED BY <1>6, <1>7

(* The sums with a reference are converted to the same year, if they are   *)
(* in the same year.                                                       *)
KeptTogether(v, a, b) ==
  Sum(v, a).year = Sum(v, b).year => ToUtc(Sum(v, a)).year = ToUtc(Sum(v, b)).year

LEMMA LessFromReference ==
  ASSUME NEW a, IsDuration(a), 0 <= a.months, Later(a),
         NEW b, IsDuration(b), 0 <= b.months, NEW i \in 1..4,
         OrderAt(References[i], a, b) = StrictlyLess, KeptTogether(References[i], a, b)
  PROVE  Extent(MonthOf(References[i]), a) < Extent(MonthOf(References[i]), b)
<1> DEFINE v == References[i]
           k == MonthOf(v)
<1>1. v \in Finite /\ v.nanosecond < Giga /\ v \in DateTimes /\ v.zone = Local
  BY ReferenceMonths, ReferencesAre
<1>2. /\ Sum(v, a) \in DateTimes /\ Sum(v, a).zone = Local
      /\ Sum(v, b) \in DateTimes /\ Sum(v, b).zone = Local
  BY <1>1, SumType, Zenon
<1>3. CompareTotal(Sum(v, a), Sum(v, b)) = StrictlyLess
  BY <1>2, Zenon DEF OrderAt, CompareDateTimes
<1>4. Under(Sum(v, a), Sum(v, b))
  <2>1. CompareTotal(Sum(v, a), Sum(v, b)) < 0
    BY <1>3 DEF StrictlyLess
  <2> QED BY <1>2, <2>1, TotalAntisymmetric, Zenon
<1>5. Exact(v, a) < Exact(v, b)
  BY <1>1, <1>4, UnderExact, Zenon DEF KeptTogether
<1>6. /\ k \in Int /\ Nanos(v) \in Int
      /\ Exact(v, a) = Nanos(v) + Extent(k, a) /\ Exact(v, b) = Nanos(v) + Extent(k, b)
  BY <1>1, ExactIs, Zenon
<1> HIDE DEF k, v
<1>7. Extent(k, a) \in Int /\ Extent(k, b) \in Int
  BY <1>6, ExtentInt, Zenon
<1>8. Extent(k, a) < Extent(k, b)
  BY <1>5, <1>6, <1>7
<1> QED BY <1>8, Zenon DEF k, v

(* A duration found to be less than one with months, by the references     *)
(* from which some months have the least days.                             *)
LEMMA LessThanMonths ==
  ASSUME NEW a, IsDuration(a), a.months = 0,
         NEW b, IsDuration(b), 0 < b.months,
         \A i \in 1..4 : OrderAt(References[i], a, b) = StrictlyLess,
         \A i \in 1..4 : KeptTogether(References[i], a, b), NEW k \in Int
  PROVE  Extent(k, a) < Extent(k, b)
<1>1. /\ a.seconds \in Int /\ a.nanoseconds \in Int
      /\ b.months \in Int /\ b.seconds \in Int /\ b.nanoseconds \in Int
      /\ Extent(k, b) \in Int
  BY ExtentInt
<1>2. Extent(k, a) = Giga * a.seconds + a.nanoseconds
  BY ExtentOfSeconds
<1>3. CASE ~Later(a)
  <2>1. a.seconds <= 0 /\ a.nanoseconds <= 0 /\ 0 <= b.seconds /\ 0 <= b.nanoseconds
    BY <1>1, <1>3 DEF Later, IsDuration
  <2>2. DaysOfMonths(k, b.months) \in Int /\ 0 < DaysOfMonths(k, b.months)
    BY <1>1, MonthsHaveDays
  <2>3. Extent(k, a) <= 0
    BY <1>1, <1>2, <2>1 DEF Giga
  <2>4. 0 < Extent(k, b)
    BY <1>1, <2>1, <2>2 DEF Extent, Giga, DayLength
  <2> QED BY <1>1, <1>2, <2>3, <2>4 DEF Giga
<1>4. CASE Later(a)
  <2> DEFINE p == MonthOf(References[1])
             q == MonthOf(References[2])
  <2>1. 1 \in 1..4 /\ 2 \in 1..4 /\ 0 <= a.months /\ 0 <= b.months
    BY <1>1
  <2>2. Extent(p, a) < Extent(p, b) /\ Extent(q, a) < Extent(q, b)
    BY <1>4, <2>1, LessFromReference, Zenon
  <2>3. p = 12 * 1696 + 8 /\ q = 12 * 1697 + 1
    BY ReferenceMonths, Zenon
  <2> HIDE DEF p, q
  <2>4. p \in Int /\ q \in Int
    BY <2>3
  <2>5. \/ DaysOfMonths(p, b.months) <= DaysOfMonths(k, b.months)
        \/ DaysOfMonths(q, b.months) <= DaysOfMonths(k, b.months)
    BY <1>1, <2>3, DaysOfMonthsBounds
  <2>6. Extent(p, b) <= Extent(k, b) \/ Extent(q, b) <= Extent(k, b)
    BY <2>4, <2>5, ExtentGrows, Zenon
  <2>7. Extent(p, a) = Extent(k, a) /\ Extent(q, a) = Extent(k, a)
    BY <1>2, <2>4, ExtentOfSeconds, Zenon
  <2>8. Extent(p, b) \in Int /\ Extent(q, b) \in Int /\ Extent(k, a) \in Int
    BY <2>4, ExtentInt, Zenon
  <2> QED BY <1>1, <2>2, <2>6, <2>7, <2>8
<1> QED BY <1>3, <1>4

(* And the other way round, by those from which they have the most.        *)
LEMMA MonthsLessThan ==
  ASSUME NEW a, IsDuration(a), 0 < a.months, a.months % 12 # 9,
         NEW b, IsDuration(b), b.months = 0,
         \A i \in 1..4 : OrderAt(References[i], a, b) = StrictlyLess,
         \A i \in 1..4 : KeptTogether(References[i], a, b), NEW k \in Int
  PROVE  Extent(k, a) < Extent(k, b)
<1>1. /\ a.months \in Int /\ a.seconds \in Int /\ a.nanoseconds \in Int
      /\ Extent(k, a) \in Int /\ Extent(k, b) \in Int
  BY ExtentInt
<1>2. Later(a)
  BY <1>1 DEF Later, IsDuration
<1> DEFINE p == MonthOf(References[3])
           q == MonthOf(References[4])
<1>3. 3 \in 1..4 /\ 4 \in 1..4 /\ 0 <= a.months /\ 0 <= b.months
  BY <1>1
<1>4. Extent(p, a) < Extent(p, b) /\ Extent(q, a) < Extent(q, b)
  BY <1>2, <1>3, LessFromReference, Zenon
<1>5. p = 12 * 1903 + 2 /\ q = 12 * 1903 + 6
  BY ReferenceMonths, Zenon
<1> HIDE DEF p, q
<1>6. p \in Int /\ q \in Int
  BY <1>5
<1>7. \/ DaysOfMonths(k, a.months) <= DaysOfMonths(p, a.months)
      \/ DaysOfMonths(k, a.months) <= DaysOfMonths(q, a.months)
  BY <1>1, <1>5, DaysOfMonthsBounds
<1>8. Extent(k, a) <= Extent(p, a) \/ Extent(k, a) <= Extent(q, a)
  BY <1>6, <1>7, ExtentGrows, Zenon
<1>9. Extent(p, b) = Extent(k, b) /\ Extent(q, b) = Extent(k, b)
  BY <1>6, ExtentOfSeconds, Zenon
<1>10. Extent(p, a) \in Int /\ Extent(q, a) \in Int
  BY <1>6, ExtentInt, Zenon
<1> QED BY <1>1, <1>4, <1>8, <1>9, <1>10

(* What is found strictly less is shorter, from whatever month on.         *)
LEMMA LessAnywhere ==
  ASSUME NEW l, IsDuration(l), 0 <= l.months, l.months % 12 # 9,
         NEW r, IsDuration(r), 0 <= r.months, l.months = 0 \/ r.months = 0,
         CompareDurations(l, r) = StrictlyLess,
         \A i \in 1..4 : KeptTogether(References[i], l, r), NEW k \in Int
  PROVE  Extent(k, l) < Extent(k, r)
<1>1. /\ l.months \in Int /\ l.seconds \in Int /\ l.nanoseconds \in Int
      /\ r.months \in Int /\ r.seconds \in Int /\ r.nanoseconds \in Int
      /\ Extent(k, l) \in Int /\ Extent(k, r) \in Int
  BY ExtentInt
<1> DEFINE plainMonths == l.seconds = 0 /\ l.nanoseconds = 0
                            /\ r.seconds = 0 /\ r.nanoseconds = 0
           plainSeconds == l.months = 0 /\ r.months = 0
<1>2. \A x \in Int, y \in Int : CompareField(x, y) = StrictlyLess => x < y
  BY DEF CompareField, StrictlyLess, StrictlyGreater, Equal
<1>3. l # r
  BY DEF CompareDurations, Equal, StrictlyLess
<1>4. CASE plainMonths
  <2>1. CompareField(l.months, r.months) = StrictlyLess
    BY <1>3, <1>4, Zenon DEF CompareDurations
  <2>2. l.months = 0 /\ 0 < r.months
    BY <1>1, <1>2, <2>1
  <2>3. DaysOfMonths(k, r.months) \in Int /\ 0 < DaysOfMonths(k, r.months)
    BY <1>1, <2>2, MonthsHaveDays
  <2>4. Extent(k, l) = Giga * l.seconds + l.nanoseconds
    BY <2>2, ExtentOfSeconds
  <2>5. Extent(k, l) = 0
    BY <1>4, <2>4, GigaInt
  <2>6. 0 < Extent(k, r)
    BY <1>4, <2>3 DEF Extent, Giga, DayLength
  <2> QED BY <2>5, <2>6
<1>5. CASE ~plainMonths /\ plainSeconds
  <2>1. \/ l.seconds # r.seconds /\ CompareField(l.seconds, r.seconds) = StrictlyLess
        \/ /\ l.seconds = r.seconds
           /\ CompareField(l.nanoseconds, r.nanoseconds) = StrictlyLess
    BY <1>3, <1>5, Zenon DEF CompareDurations
  <2>2. l.seconds < r.seconds \/ (l.seconds = r.seconds /\ l.nanoseconds < r.nanoseconds)
    BY <1>1, <1>2, <2>1, Zenon
  <2>3. /\ Extent(k, l) = Giga * l.seconds + l.nanoseconds
        /\ Extent(k, r) = Giga * r.seconds + r.nanoseconds
    BY <1>5, ExtentOfSeconds, Zenon
  <2>4. l.seconds < r.seconds => l.nanoseconds - r.nanoseconds < Giga
    BY <1>1, GigaInt DEF IsDuration
  <2> QED BY <1>1, <2>2, <2>3, <2>4 DEF Giga
<1>6. CASE ~plainMonths /\ ~plainSeconds
  <2>1. CompareDurationsPartial(l, r) = StrictlyLess
    BY <1>3, <1>6, Zenon DEF CompareDurations
  <2>2. CompareLarger(l, r) # StrictlyLess
    BY DEF CompareLarger, StrictlyLess, MaybeLess, MaybeGreater
  <2>3. \A i \in 1..4 : OrderAt(References[i], l, r) = StrictlyLess
    BY <2>1, <2>2, PartialIs, Zenon
  <2>4. CASE l.months = 0
    <3>1. 0 < r.months
      BY <1>1, <1>6, <2>4
    <3> QED BY <2>3, <2>4, <3>1, LessThanMonths, Zenon
  <2>5. CASE l.months # 0
    <3>1. 0 < l.months /\ r.months = 0
      BY <1>1, <2>5
    <3> QED BY <2>3, <3>1, MonthsLessThan, Zenon
  <2> QED BY <2>4, <2>5
<1> QED BY <1>4, <1>5, <1>6, Zenon

LEMMA LessIsOrdered ==
  ASSUME NEW l, IsDuration(l), 0 <= l.months, l.months % 12 # 9,
         NEW r, IsDuration(r), 0 <= r.months, l.months = 0 \/ r.months = 0,
         CompareDurations(l, r) = StrictlyLess,
         \A i \in 1..4 : KeptTogether(References[i], l, r),
         NEW v, IsReadable(v)
  PROVE  IsOrderedSum(v, l, r)
<1> DEFINE k == MonthOf(v)
<1>1. v \in Finite
  BY DEF IsReadable
<1>2. /\ k \in Int /\ Nanos(v) \in Int
      /\ Exact(v, l) = Nanos(v) + Extent(k, l) /\ Exact(v, r) = Nanos(v) + Extent(k, r)
  BY <1>1, ExactIs, Zenon
<1> HIDE DEF k
<1>3. Extent(k, l) \in Int /\ Extent(k, r) \in Int
  BY <1>2, ExtentInt, Zenon
<1>4. Extent(k, l) < Extent(k, r)
  BY <1>2, LessAnywhere, Zenon
<1>5. Exact(v, l) < Exact(v, r)
  BY <1>2, <1>3, <1>4
<1> QED BY <1>5, SumsOrdered, Zenon

(* A strict order of two durations, of which only one has months and none  *)
(* of them negative, is the order of their sums with every local value     *)
(* that can be read, wherever its month begins and however long the next   *)
(* ones are: the four references are enough.  The exceptions are a         *)
(* reference's sums on two sides of a new year once they are converted,    *)
(* and nine months over whole years as the lesser duration.                *)
THEOREM StrictOrderHolds == Spec => []StrictFromOneMonths
<1>1. IInv => StrictFromOneMonths
  <2> SUFFICES ASSUME IInv, kind = "duration", order # Unknown,
                      lhs.months >= 0, rhs.months >= 0,
                      lhs.months = 0 \/ rhs.months = 0,
                      ~NewYearBetween, ~LessByNineMonths, NEW v \in Starts
               PROVE  IsOrderOfSums(v)
    BY Zenon DEF StrictFromOneMonths
  <2>1. /\ IsDuration(lhs) /\ IsDuration(rhs)
        /\ order = CompareDurations(lhs, rhs)
    BY Zenon DEF IInv, Operands, Result
  <2>2. /\ lhs.months \in Int /\ rhs.months \in Int
        /\ lhs.seconds \in Int /\ rhs.seconds \in Int
    BY <2>1, GigaInt DEF IsDuration
  <2>3. 0 <= lhs.months /\ 0 <= rhs.months
    BY <2>2
  <2>4. IsReadable(v)
    BY StartsAssumption, Zenon
  <2>5. \A i \in 1..4 : KeptTogether(References[i], lhs, rhs)
                          /\ KeptTogether(References[i], rhs, lhs)
    BY ReferencesAre, Zenon DEF NewYearBetween, KeptTogether
  <2>6. ASSUME order = StrictlyLess PROVE IsOrderedSum(v, lhs, rhs)
    <3>1. lhs.months % 12 # 9
      BY <2>6, Zenon DEF LessByNineMonths
    <3> QED BY <2>1, <2>3, <2>4, <2>5, <2>6, <3>1, LessIsOrdered, Zenon
  <2>7. ASSUME order = StrictlyGreater PROVE IsOrderedSum(v, rhs, lhs)
    <3>1. rhs.months % 12 # 9
      BY <2>7, Zenon DEF LessByNineMonths
    <3>2. CompareDurations(rhs, lhs) = -order
      <4>1. lhs.months # rhs.months \/ lhs.months = 0
        OBVIOUS
      <4> QED BY <2>1, <4>1, DurationsAntisymmetric, Zenon
    <3>3. CompareDurations(rhs, lhs) = StrictlyLess
      BY <2>7, <3>2 DEF StrictlyLess, StrictlyGreater
    <3> QED BY <2>1, <2>3, <2>4, <2>5, <3>1, <3>3, LessIsOrdered, Zenon
  <2> QED BY <2>6, <2>7, Zenon DEF IsOrderOfSums
<1> QED BY <1>1, Invariance, PTL

=============================================================================
