--------------------------- MODULE DurationProofs ---------------------------
(***************************************************************************)
(* Proofs about the reader of durations, for every string and every limit  *)
(* of the type.                                                            *)
(***************************************************************************)
EXTENDS Duration, SequenceTheorems, TLAPS

-----------------------------------------------------------------------------
(* What the writer hands to the reader is a string of tokens.              *)

(* A second has a positive number of nanoseconds.                          *)
LEMMA GigaNat == Giga \in Nat /\ Giga > 0
BY SMT DEF Giga

(* The tokens that are built from numbers and letters are tokens.          *)
LEMMA TokenTypes ==
  /\ \A n \in Nat : Number(n) \in Tokens
  /\ \A n \in Nat : n < Giga => Fraction(n) \in Tokens
  /\ \A c \in Kinds : c # "fraction" => Letter(c) \in Tokens
  /\ Letters \cup NumberTokens \in SUBSET Tokens
  /\ Letters \cup FractionTokens \in SUBSET Tokens
<1>1. \A n \in Nat : Number(n) \in Tokens
  BY DEF Number, Tokens, Kinds
<1>2. \A n \in Nat : n < Giga => Fraction(n) \in Tokens
  BY DEF Fraction, Tokens, Kinds
<1>3. \A c \in Kinds : c # "fraction" => Letter(c) \in Tokens
  BY DEF Letter, Tokens
<1>4. Letters \subseteq Tokens
  BY <1>3 DEF Letters, Kinds
<1>5. Huge \in Tokens /\ Long \in Tokens
  BY <1>3 DEF Huge, Long, Kinds
<1>6. NumberTokens \subseteq Tokens
  BY <1>1, <1>5, NumbersAssumption DEF NumberTokens
<1>7. FractionTokens \subseteq Tokens
  <2>1. \A n \in Fractions : n \in Nat /\ n < Giga
    BY NumbersAssumption, GigaNat
  <2> QED BY <1>2, <1>5, <2>1 DEF FractionTokens
<1> QED BY <1>1, <1>2, <1>3, <1>4, <1>6, <1>7

(* What write_duration lays out for a field is a string of tokens.         *)
LEMMA SegmentType ==
  ASSUME NEW n \in Nat, NEW tag \in {"Y", "M", "D", "H"}
  PROVE  Segment(n, tag) \in Seq(Tokens)
<1>1. Number(n) \in Tokens /\ Letter(tag) \in Tokens
  BY TokenTypes DEF Kinds
<1> QED BY <1>1 DEF Segment

(* What it lays out for seconds and their fraction is one too.             *)
LEMMA SecondsType ==
  ASSUME NEW s \in Nat, NEW n \in Nat, n < Giga
  PROVE  Seconds(s, n) \in Seq(Tokens)
<1>1. /\ Number(s) \in Tokens /\ Fraction(n) \in Tokens
      /\ Letter(".") \in Tokens /\ Letter("S") \in Tokens
  BY TokenTypes DEF Kinds
<1>2. /\ <<Number(s)>> \in Seq(Tokens) /\ <<Letter("S")>> \in Seq(Tokens)
      /\ <<Letter("."), Fraction(n)>> \in Seq(Tokens)
      /\ <<>> \in Seq(Tokens)
  BY <1>1
<1> QED BY <1>2, ConcatProperties DEF Seconds

(* What exess_write_duration writes is a string of tokens, with at least   *)
(* the P in it.                                                            *)
LEMMA WrittenType ==
  ASSUME NEW d \in Durations
  PROVE  Written(d) \in Seq(Tokens) /\ Written(d) # <<>>
<1> DEFINE m == Abs(d.months)
           s == Abs(d.seconds)
           n == Abs(d.nanoseconds)
           sign == IF IsNegative(d) THEN <<Letter("-")>> ELSE <<>>
           body == IF TimeSegments(s, n) = <<>> THEN <<>>
                   ELSE <<Letter("T")>> \o TimeSegments(s, n)
<1>1. m \in Nat /\ s \in Nat /\ n \in Nat /\ n < Giga
  <2>1. d.months \in Int /\ d.seconds \in Int /\ d.nanoseconds \in (1 - Giga)..(Giga - 1)
    BY DurationsAssumption, IntMaxAssumption
  <2>2. m \in Nat /\ s \in Nat
    BY <2>1 DEF Abs
  <2>3. n \in Nat /\ n < Giga
    BY <2>1, GigaNat DEF Abs
  <2> QED BY <2>2, <2>3
<1> HIDE DEF m, s, n
<1>2. TimeSegments(s, n) \in Seq(Tokens)
  <2>1. /\ (s \div 3600) % 24 \in Nat /\ (s \div 60) % 60 \in Nat /\ s % 60 \in Nat
    BY <1>1
  <2>2. Segment((s \div 3600) % 24, "H") \in Seq(Tokens)
    BY <2>1, SegmentType
  <2>3. Segment((s \div 60) % 60, "M") \in Seq(Tokens)
    BY <2>1, SegmentType
  <2>4. Seconds(s % 60, n) \in Seq(Tokens)
    BY <1>1, <2>1, SecondsType
  <2> QED BY <2>2, <2>3, <2>4, ConcatProperties DEF TimeSegments
<1>3. DateSegments(m, s) \in Seq(Tokens)
  <2>1. m \div 12 \in Nat /\ m % 12 \in Nat /\ s \div 86400 \in Nat
    BY <1>1
  <2>2. /\ Segment(m \div 12, "Y") \in Seq(Tokens)
        /\ Segment(m % 12, "M") \in Seq(Tokens)
        /\ Segment(s \div 86400, "D") \in Seq(Tokens)
    BY <2>1, SegmentType
  <2> QED BY <2>2, ConcatProperties DEF DateSegments
<1>4. /\ Letter("-") \in Tokens /\ Letter("P") \in Tokens /\ Letter("T") \in Tokens
      /\ Letter("Y") \in Tokens /\ Number(0) \in Tokens
  BY TokenTypes DEF Kinds
<1>5. CASE IsZero(d)
  BY <1>4, <1>5 DEF Written
<1>6. CASE ~IsZero(d)
  <2>1. sign \in Seq(Tokens) /\ <<Letter("P")>> \in Seq(Tokens) /\ Len(<<Letter("P")>>) = 1
    BY <1>4
  <2>2. body \in Seq(Tokens)
    <3>1. <<Letter("T")>> \in Seq(Tokens) /\ <<>> \in Seq(Tokens)
      BY <1>4
    <3> QED BY <1>2, <3>1, ConcatProperties
  <2>3. Written(d) = ((sign \o <<Letter("P")>>) \o DateSegments(m, s)) \o body
    BY <1>6 DEF Written, m, s, n
  <2> HIDE DEF sign, body
  <2>4. /\ sign \o <<Letter("P")>> \in Seq(Tokens)
        /\ Len(sign \o <<Letter("P")>>) >= 1
    BY <2>1, ConcatProperties
  <2>5. /\ (sign \o <<Letter("P")>>) \o DateSegments(m, s) \in Seq(Tokens)
        /\ Len((sign \o <<Letter("P")>>) \o DateSegments(m, s)) >= 1
    BY <1>3, <2>4, ConcatProperties
  <2>6. Written(d) \in Seq(Tokens) /\ Len(Written(d)) >= 1
    BY <2>2, <2>3, <2>5, ConcatProperties
  <2> QED BY <2>6
<1> QED BY <1>5, <1>6

-----------------------------------------------------------------------------
(* The inductive invariant: the members are the sums of the fields stored, *)
(* and no field after the last one of its loop is stored.                  *)

HasField == \E f \in Fields : fields[f] # Absent

SumsRead == pc # "done" => (months = MonthsRead /\ seconds = SecondsRead)

StoredInOrder ==
  pc # "done" =>
    \A f \in Fields :
      fields[f] # Absent => (f <= last \/ (part = "time" /\ f <= Day))

PartBounds ==
  /\ (pc # "done" /\ part = "date") => last <= Day
  /\ pc \in {"write", "sign", "prefix", "part", "between"} => part = "date"
  /\ pc \in {"write", "sign", "prefix", "part"} => last = 0
  /\ pc \in {"fraction", "second"} => part = "time"
  /\ (pc = "tag" /\ part = "date") => last < Day
  /\ pc \in {"tag", "fraction", "second"} => last < Second

FieldRead ==
  /\ pc \in {"between", "finish"} => HasField
  /\ (pc = "number" /\ begun) => HasField

FractionRead ==
  pc # "done" =>
    \/ nanoseconds = 0
    \/ nanoseconds = fraction /\ last = Second /\ fields[Second] # Absent

IInv ==
  /\ TypeOK
  /\ SumsRead
  /\ StoredInOrder
  /\ PartBounds
  /\ FieldRead
  /\ FractionRead
  /\ ReadExact

(* The invariant holds before the first character is read.                 *)
LEMMA InitIInv == Init => IInv
<1> SUFFICES ASSUME Init PROVE IInv
  OBVIOUS
<1>1. \A f \in Fields : fields[f] = Absent
  BY DEF Init
<1>2. TypeOK
  <2>1. given \in [months: Int, seconds: Int, nanoseconds: Int]
    BY DurationsAssumption, IntMaxAssumption, GigaNat DEF Init
  <2>2. tok \in Tokens
    BY TokenTypes DEF Init, Kinds
  <2>3. rest \in Seq(Tokens) /\ fields \in [Fields -> Nat \cup {Absent}]
    BY DEF Init
  <2>4. isWritten \in BOOLEAN /\ begun \in BOOLEAN /\ negative \in BOOLEAN
    BY DEF Init
  <2>5. pc \in Sites /\ part \in {"date", "time"} /\ status \in Statuses
    BY DEF Init, Sites, Statuses
  <2>6. /\ last \in 0..Second /\ number \in Nat /\ fraction \in 0..(Giga - 1)
        /\ nanoseconds \in (1 - Giga)..(Giga - 1)
    BY GigaNat DEF Init, Second
  <2>7. /\ months \in (1 - IntMax)..(IntMax - 1)
        /\ seconds \in (1 - IntMax)..(IntMax - 1)
    BY IntMaxAssumption DEF Init
  <2>8. (isWritten => given \in Durations) /\ (pc = "write" => isWritten)
    BY DEF Init
  <2> QED BY <2>1, <2>2, <2>3, <2>4, <2>5, <2>6, <2>7, <2>8 DEF TypeOK
<1>3. SumsRead
  BY <1>1 DEF Init, SumsRead, MonthsRead, SecondsRead, ValueOf, Fields, Year, Month, Day, Hour, Minute, Second
<1>4. StoredInOrder /\ FractionRead
  BY <1>1 DEF Init, StoredInOrder, FractionRead
<1>5. PartBounds /\ FieldRead /\ ReadExact
  BY DEF Init, PartBounds, FieldRead, ReadExact, Day, Second
<1> QED BY <1>2, <1>3, <1>4, <1>5 DEF IInv

(* The next token is a token.                                              *)
LEMMA AdvanceType ==
  ASSUME rest \in Seq(Tokens), NEW choice \in SUBSET Tokens, Advance(choice)
  PROVE  tok' \in Tokens /\ rest' \in Seq(Tokens)
<1>1. Letter("end") \in Tokens
  BY TokenTypes DEF Kinds
<1>2. rest # <<>> => Head(rest) \in Tokens /\ Tail(rest) \in Seq(Tokens)
  BY HeadTailProperties
<1> QED BY <1>1, <1>2 DEF Advance

(* The tokens of which one may follow are tokens.                          *)
LEMMA ChoiceTypes ==
  /\ Letters \in SUBSET Tokens
  /\ Letters \cup NumberTokens \in SUBSET Tokens
  /\ Letters \cup FractionTokens \in SUBSET Tokens
BY TokenTypes

(* An error ends the call: there is nothing to hold any more.              *)
LEMMA FailIInv ==
  ASSUME IInv, NEW st \in Statuses \ {"SUCCESS"}, Fail(st),
         TypeOK'
  PROVE  IInv'
BY DEF Fail, IInv, SumsRead, StoredInOrder, PartBounds, FieldRead, FractionRead, ReadExact

-----------------------------------------------------------------------------
(* The steps that store no field.                                          *)

(* A step of the reader that moves in the string and stores nothing keeps  *)
(* the types.                                                              *)
LEMMA QuietType ==
  ASSUME TypeOK,
         UNCHANGED <<string, out, fields>>,
         tok' \in Tokens, rest' \in Seq(Tokens), pc' \in Sites \ {"write"},
         part' \in {"date", "time"}, begun' \in BOOLEAN, last' \in 0..Second,
         number' \in Nat, fraction' \in 0..(Giga - 1), negative' \in BOOLEAN,
         status' \in Statuses
  PROVE  TypeOK'
BY DEF TypeOK, string, out

(* Nor does it disturb the rest of the invariant, if what it leaves in the *)
(* number is in the bounds of the part that is read.                       *)
LEMMA QuietIInv ==
  ASSUME IInv, TypeOK', pc # "done", pc' # "done",
         UNCHANGED <<out, fields, part, last>>,
         nanoseconds # 0 => fraction' = fraction,
         PartBounds', FieldRead'
  PROVE  IInv'
<1>1. SumsRead' /\ StoredInOrder' /\ FractionRead'
  BY DEF IInv, SumsRead, StoredInOrder, FractionRead, MonthsRead, SecondsRead, ValueOf, out
<1> QED BY <1>1 DEF IInv, ReadExact

(* Writing a duration, to read it again, keeps the invariant.              *)
LEMMA WriteIInv ==
  ASSUME IInv, WriteDuration
  PROVE  IInv'
<1>1. TypeOK /\ given \in Durations
  BY DEF IInv, TypeOK, WriteDuration
<1>2. CASE WriteStatus(given) = "SUCCESS"
  <2>1. tok' = Head(Written(given)) /\ rest' = Tail(Written(given)) /\ pc' = "sign"
    BY <1>2 DEF WriteDuration
  <2>2. tok' \in Tokens /\ rest' \in Seq(Tokens)
    BY <1>1, <2>1, WrittenType, HeadTailProperties
  <2>3. TypeOK'
    BY <1>1, <1>2, <2>1, <2>2, QuietType DEF WriteDuration, TypeOK, Sites
  <2>4. PartBounds' /\ FieldRead'
    BY <1>2, <2>1 DEF WriteDuration, IInv, PartBounds, FieldRead
  <2> QED BY <1>2, <2>1, <2>3, <2>4, QuietIInv DEF WriteDuration, out
<1>3. CASE WriteStatus(given) # "SUCCESS"
  <2>1. Fail(WriteStatus(given)) /\ WriteStatus(given) \in Statuses \ {"SUCCESS"}
    BY <1>3 DEF WriteDuration, WriteStatus, Statuses
  <2>2. TypeOK'
    BY <1>1, <1>3, <2>1, QuietType DEF WriteDuration, Fail, Stay, TypeOK, Sites
  <2> QED BY <2>1, <2>2, FailIInv
<1> QED BY <1>2, <1>3

(* So do the sign and the P in front of the fields.                        *)
LEMMA BeginIInv ==
  ASSUME IInv,
         ReadSign \/ ReadPrefix
  PROVE  IInv'
<1>1. TypeOK
  BY DEF IInv
<1>2. tok' \in Tokens /\ rest' \in Seq(Tokens)
  BY <1>1, AdvanceType, ChoiceTypes DEF TypeOK, ReadSign, ReadPrefix, Stay
<1>3. CASE ReadSign
  <2>1. negative' \in BOOLEAN /\ pc' = "prefix"
    BY <1>1, <1>3 DEF TypeOK, ReadSign
  <2>2. TypeOK'
    BY <1>1, <1>2, <1>3, <2>1, QuietType DEF TypeOK, ReadSign, Sites
  <2>3. PartBounds' /\ FieldRead'
    BY <1>3 DEF ReadSign, IInv, PartBounds, FieldRead
  <2> QED BY <1>3, <2>1, <2>2, <2>3, QuietIInv DEF ReadSign, out
<1>4. CASE ReadPrefix /\ pc' = "part"
  <2>1. status' = status
    BY <1>4 DEF ReadPrefix, Fail
  <2>2. TypeOK'
    BY <1>1, <1>2, <1>4, <2>1, QuietType DEF TypeOK, ReadPrefix, Sites
  <2>3. PartBounds' /\ FieldRead'
    BY <1>4 DEF ReadPrefix, IInv, PartBounds, FieldRead
  <2> QED BY <1>4, <2>2, <2>3, QuietIInv DEF ReadPrefix, out
<1>5. CASE ReadPrefix /\ pc' # "part"
  <2>1. Fail("EXPECTED_DURATION") /\ "EXPECTED_DURATION" \in Statuses \ {"SUCCESS"}
    BY <1>5 DEF ReadPrefix, Statuses
  <2>2. TypeOK'
    BY <1>1, <1>2, <1>5, <2>1, QuietType DEF TypeOK, ReadPrefix, Fail, Sites
  <2> QED BY <2>1, <2>2, FailIInv
<1> QED BY <1>3, <1>4, <1>5

(* So does the beginning of the loop over the date fields, and of the one  *)
(* over the time fields.                                                   *)
LEMMA LoopBeginIInv ==
  ASSUME IInv, BeginDate \/ BeginTime \/ NoTime
  PROVE  IInv'
<1>1. TypeOK
  BY DEF IInv
<1>2. tok' \in Tokens /\ rest' \in Seq(Tokens)
  BY <1>1, AdvanceType, ChoiceTypes DEF TypeOK, BeginDate, BeginTime, NoTime, Stay
<1>3. CASE BeginDate
  <2>1. /\ pc' = "number" /\ part' = part /\ last' = last /\ ~begun'
        /\ pc = "part"
    BY <1>3 DEF BeginDate, BeginLoop, IInv, PartBounds
  <2>2. TypeOK'
    <3>1. begun' \in BOOLEAN
      BY <1>3 DEF BeginDate, BeginLoop
    <3> QED BY <1>1, <1>2, <1>3, <2>1, <3>1, QuietType DEF TypeOK, BeginDate, Sites
  <2>3. PartBounds' /\ FieldRead'
    BY <2>1 DEF IInv, PartBounds, FieldRead, Day
  <2> QED BY <1>3, <2>1, <2>2, <2>3, QuietIInv DEF BeginDate, out
<1>4. CASE BeginTime
  <2>1. pc' = "number" /\ part' = "time" /\ last' = 0 /\ ~begun'
    BY <1>4 DEF BeginTime, BeginLoop
  <2>2. TypeOK'
    <3>1. last' \in 0..Second /\ part' \in {"date", "time"}
      BY <2>1 DEF Second
    <3>2. begun' \in BOOLEAN
      BY <1>4 DEF BeginTime, BeginLoop
    <3> QED BY <1>1, <1>2, <1>4, <2>1, <3>1, <3>2, QuietType DEF TypeOK, BeginTime, Sites
  <2>3. PartBounds' /\ FieldRead'
    BY <2>1 DEF PartBounds, FieldRead, Second
  <2>4. part = "date" /\ last \in 0..Day /\ pc # "done"
    BY <1>1, <1>4 DEF BeginTime, IInv, PartBounds, TypeOK, Day, Second
  <2>5. \A f \in Fields : fields[f] # Absent => f <= Day
    BY <2>4 DEF IInv, StoredInOrder, Fields, Day, Year, Second
  <2>6. StoredInOrder'
    BY <1>4, <2>1, <2>5 DEF BeginTime, StoredInOrder
  <2>7. nanoseconds = 0
    BY <2>4 DEF IInv, FractionRead, Day, Second
  <2>8. FractionRead' /\ SumsRead' /\ ReadExact'
    BY <1>4, <2>1, <2>4, <2>7 DEF BeginTime, FractionRead, IInv, SumsRead, MonthsRead, SecondsRead, ValueOf, out, ReadExact
  <2> QED BY <2>2, <2>3, <2>6, <2>8 DEF IInv
<1>5. CASE NoTime
  <2>1. TypeOK'
    BY <1>1, <1>2, <1>5, QuietType DEF TypeOK, NoTime, Sites
  <2>2. PartBounds' /\ FieldRead'
    BY <1>5 DEF NoTime, IInv, PartBounds, FieldRead, HasField
  <2> QED BY <1>5, <2>1, <2>2, QuietIInv DEF NoTime, out
<1> QED BY <1>3, <1>4, <1>5

(* So does the end of either loop, at the end of the string or at the T.   *)
LEMMA EndLoopIInv ==
  ASSUME IInv, EndLoop
  PROVE  IInv'
<1>1. TypeOK /\ pc = "number"
  BY DEF IInv, EndLoop
<1>2. tok' \in Tokens /\ rest' \in Seq(Tokens)
  BY <1>1 DEF TypeOK, EndLoop, Stay
<1>3. CASE begun
  <2>1. /\ pc' = IF part = "date" THEN "between" ELSE "finish"
        /\ status' = status
    BY <1>3 DEF EndLoop, AfterLoop
  <2>2. TypeOK'
    BY <1>1, <1>2, <2>1, QuietType DEF TypeOK, EndLoop, Sites
  <2>3. PartBounds' /\ FieldRead'
    BY <1>1, <1>3, <2>1 DEF EndLoop, IInv, PartBounds, FieldRead, HasField
  <2> QED BY <1>1, <2>1, <2>2, <2>3, QuietIInv DEF EndLoop, out
<1>4. CASE ~begun
  <2>1. Fail("EXPECTED_DIGIT") /\ "EXPECTED_DIGIT" \in Statuses \ {"SUCCESS"}
    BY <1>4 DEF EndLoop, Statuses
  <2>2. TypeOK'
    BY <1>1, <1>2, <2>1, QuietType DEF TypeOK, EndLoop, Fail, Sites
  <2> QED BY <2>1, <2>2, FailIInv
<1> QED BY <1>3, <1>4

(* So do the digits of a field, its point and its fraction.                *)
LEMMA ReadNumberIInv ==
  ASSUME IInv, ReadNumber \/ ReadPoint \/ ReadFraction
  PROVE  IInv'
<1>1. TypeOK
  BY DEF IInv
<1>2. tok' \in Tokens /\ rest' \in Seq(Tokens)
  BY <1>1, AdvanceType, ChoiceTypes DEF TypeOK, ReadNumber, ReadPoint, ReadFraction
<1>3. CASE ReadNumber
  <2>1. pc' = "tag" /\ begun' = TRUE /\ number' \in Nat /\ pc = "number"
    BY <1>1, <1>3 DEF ReadNumber, TypeOK, Tokens
  <2>2. TypeOK'
    BY <1>1, <1>2, <1>3, <2>1, QuietType DEF TypeOK, ReadNumber, Sites
  <2>3. last < IF part = "date" THEN Day ELSE Second
    BY <1>1, <1>3 DEF ReadNumber, EndOfLoop, TypeOK, Day, Second
  <2>4. PartBounds' /\ FieldRead'
    BY <1>1, <1>3, <2>1, <2>3 DEF TypeOK, ReadNumber, IInv, PartBounds, FieldRead, Day, Second
  <2> QED BY <1>3, <2>1, <2>2, <2>4, QuietIInv DEF ReadNumber, out
<1>4. CASE ReadPoint
  <2>1. TypeOK'
    BY <1>1, <1>2, <1>4, QuietType DEF TypeOK, ReadPoint, Sites
  <2>2. PartBounds' /\ FieldRead'
    BY <1>4 DEF ReadPoint, IInv, PartBounds, FieldRead
  <2> QED BY <1>4, <2>1, <2>2, QuietIInv DEF ReadPoint, out
<1>5. CASE ReadFraction
  <2>1. fraction' \in 0..(Giga - 1) /\ pc' = "second" /\ pc = "fraction"
    BY <1>1, <1>5, GigaNat DEF ReadFraction, TypeOK, Tokens
  <2>2. TypeOK'
    BY <1>1, <1>2, <1>5, <2>1, QuietType DEF TypeOK, ReadFraction, Sites
  <2>3. PartBounds' /\ FieldRead'
    BY <1>5 DEF ReadFraction, IInv, PartBounds, FieldRead
  <2>4. last < Second /\ last \in Int
    BY <1>1, <2>1 DEF IInv, PartBounds, TypeOK, Second
  <2>5. nanoseconds = 0
    BY <2>1, <2>4 DEF IInv, FractionRead, Second
  <2> QED BY <1>5, <2>1, <2>2, <2>3, <2>5, QuietIInv DEF ReadFraction, out
<1> QED BY <1>3, <1>4, <1>5

(* So does every return with an error, which leaves the fields stored      *)
(* before it.                                                              *)
LEMMA ErrorIInv ==
  ASSUME IInv, ReadHugeNumber \/ BadTag \/ BadFraction \/ NoSecondTag
  PROVE  IInv'
<1>1. TypeOK
  BY DEF IInv
<1>2. PICK st \in Statuses \ {"SUCCESS"} : Fail(st)
  BY DEF ReadHugeNumber, BadTag, BadFraction, NoSecondTag, Statuses
<1>3. /\ Stay
      /\ UNCHANGED <<string, part, begun, last, number, fraction, negative, out, fields>>
  BY DEF ReadHugeNumber, BadTag, BadFraction, NoSecondTag
<1>4. TypeOK'
  BY <1>1, <1>2, <1>3, QuietType DEF TypeOK, Stay, Fail, Sites
<1> QED BY <1>2, <1>4, FailIInv

-----------------------------------------------------------------------------
(* Storing a field.                                                        *)

(* A tag names at most one field, which belongs to the part of the         *)
(* duration that is read.                                                  *)
LEMMA TagField ==
  ASSUME NEW c
  PROVE  /\ FieldOfTag(c) \in 0..Second
         /\ (part = "date" /\ FieldOfTag(c) # 0) => FieldOfTag(c) \in Year..Day
         /\ (part = "time" /\ FieldOfTag(c) # 0) => FieldOfTag(c) \in Hour..Second
BY DEF FieldOfTag, Year, Month, Day, Hour, Minute, Second

(* The sums after one more field: the field was absent, and the others are *)
(* as they were.                                                           *)
LEMMA SumsAfter ==
  ASSUME TypeOK, SumsRead, pc # "done",
         NEW field \in Fields, fields[field] = Absent,
         fields' = [fields EXCEPT ![field] = number],
         IF field < Day
         THEN months' = months + Factor(field) * number /\ UNCHANGED seconds
         ELSE seconds' = seconds + Factor(field) * number /\ UNCHANGED months
  PROVE  months' = MonthsRead' /\ seconds' = SecondsRead'
<1>1. /\ fields \in [Fields -> Nat \cup {Absent}] /\ number \in Nat
      /\ months = MonthsRead /\ seconds = SecondsRead
  BY DEF TypeOK, SumsRead
<1>2. \A f \in Fields : ValueOf(f) \in Nat
  BY <1>1 DEF ValueOf
<1>3. ValueOf(field) = 0 /\ ValueOf(field)' = number
  BY <1>1 DEF ValueOf, Absent
<1>4. \A f \in Fields \ {field} : ValueOf(f)' = ValueOf(f)
  BY <1>1 DEF ValueOf
<1> USE DEF Fields, Year, Month, Day, Hour, Minute, Second
<1>5. CASE field = Year
  BY <1>1, <1>2, <1>3, <1>4, <1>5 DEF MonthsRead, SecondsRead, Factor
<1>6. CASE field = Month
  BY <1>1, <1>2, <1>3, <1>4, <1>6 DEF MonthsRead, SecondsRead, Factor
<1>7. CASE field = Day
  BY <1>1, <1>2, <1>3, <1>4, <1>7 DEF MonthsRead, SecondsRead, Factor
<1>8. CASE field = Hour
  BY <1>1, <1>2, <1>3, <1>4, <1>8 DEF MonthsRead, SecondsRead, Factor
<1>9. CASE field = Minute
  BY <1>1, <1>2, <1>3, <1>4, <1>9 DEF MonthsRead, SecondsRead, Factor
<1>10. CASE field = Second
  BY <1>1, <1>2, <1>3, <1>4, <1>10 DEF MonthsRead, SecondsRead, Factor
<1> QED BY <1>5, <1>6, <1>7, <1>8, <1>9, <1>10

(* The test of the range keeps the sum within it.                          *)
LEMMA FitsRange ==
  ASSUME NEW target \in Nat, NEW field \in Fields, number \in Nat,
         Fits(target, Factor(field))
  PROVE  /\ target + Factor(field) * number \in 0..(IntMax - 1)
<1> USE IntMaxAssumption DEF Fits, Factor, Fields, Year, Second
<1>1. CASE field = 1
  BY <1>1
<1>2. CASE field = 2
  BY <1>2
<1>3. CASE field = 3
  BY <1>3
<1>4. CASE field = 4
  BY <1>4
<1>5. CASE field = 5
  BY <1>5
<1>6. CASE field = 6
  BY <1>6
<1> QED BY <1>1, <1>2, <1>3, <1>4, <1>5, <1>6

(* What ReadTag and ReadSecondTag have in common.                          *)
Stores(field) ==
  /\ pc \in {"tag", "second"}
  /\ \/ part = "date" /\ field \in Year..Day
     \/ part = "time" /\ field \in Hour..Second
  /\ SetField(field)
  /\ nanoseconds' = nanoseconds \/ (nanoseconds' = fraction /\ field = Second)
  /\ UNCHANGED <<string, part, begun, number, fraction, negative>>

(* A step that reads a tag is a call of set_field for one field of the     *)
(* part that is read.                                                      *)
LEMMA StoreCase ==
  IInv /\ (ReadTag \/ ReadSecondTag) => \E field \in Fields : Stores(field)
<1> SUFFICES ASSUME IInv, ReadTag \/ ReadSecondTag
             PROVE  \E field \in Fields : Stores(field)
  OBVIOUS
<1>1. part \in {"date", "time"}
  BY DEF IInv, TypeOK
<1>2. CASE ReadTag
  <2> DEFINE field == FieldOfTag(tok.kind)
  <2>1. \/ part = "date" /\ field \in Year..Day
        \/ part = "time" /\ field \in Hour..Second
    BY <1>1, <1>2, TagField DEF ReadTag
  <2>2. field \in Fields
    BY <2>1 DEF Fields, Year, Day, Hour, Second
  <2>3. Stores(field)
    BY <1>2, <2>1 DEF ReadTag, Stores
  <2> QED BY <2>2, <2>3
<1>3. CASE ReadSecondTag
  <2>1. part = "time" /\ Second \in Fields /\ Second \in Hour..Second
    BY <1>3 DEF ReadSecondTag, IInv, PartBounds, Fields, Year, Hour, Second
  <2>2. Stores(Second)
    BY <1>3, <2>1 DEF ReadSecondTag, Stores
  <2> QED BY <2>1, <2>2
<1> QED BY <1>2, <1>3

(* The field stored is later than every field stored before.               *)
LEMMA StoredLater ==
  ASSUME IInv, NEW field \in Fields, Stores(field), SetStatus(field) = "SUCCESS"
  PROVE  /\ field > last
         /\ \A f \in Fields : fields[f] # Absent => f < field
<1>1. field > last /\ last \in Int /\ field \in Int /\ Fields \subseteq Int
  BY DEF SetStatus, InOrder, IInv, TypeOK, Fields, Year, Second
<1>2. \A f \in Fields :
        fields[f] # Absent => (f <= last \/ (part = "time" /\ f <= Day))
  BY DEF Stores, IInv, StoredInOrder
<1>3. part = "time" => field > Day
  BY DEF Stores, Hour, Second, Day
<1> QED BY <1>1, <1>2, <1>3 DEF Day

(* A call of set_field keeps the invariant, whether it stores the field or *)
(* refuses it.                                                             *)
LEMMA StoreIInv ==
  ASSUME IInv, NEW field \in Fields, Stores(field)
  PROVE  IInv'
<1>1. TypeOK /\ pc # "done" /\ pc \in {"tag", "second"}
  BY DEF IInv, Stores
<1>2. CASE SetStatus(field) # "SUCCESS"
  <2>1. /\ Fail(SetStatus(field)) /\ Stay
        /\ UNCHANGED <<last, months, seconds, fields>>
        /\ SetStatus(field) \in Statuses \ {"SUCCESS"}
    BY <1>2 DEF Stores, SetField, SetStatus, Statuses
  <2>2. nanoseconds' \in (1 - Giga)..(Giga - 1)
    BY <1>1, GigaNat DEF Stores, TypeOK
  <2>3. TypeOK'
    BY <1>1, <2>1, <2>2 DEF TypeOK, Stores, Stay, Fail, string, Sites
  <2> QED BY <2>1, <2>3, FailIInv
<1>3. CASE SetStatus(field) = "SUCCESS"
  <2>1. /\ pc' = "number" /\ last' = field /\ status' = status
        /\ fields' = [fields EXCEPT ![field] = number]
        /\ IF field < Day
           THEN months' = months + Factor(field) * number /\ UNCHANGED seconds
           ELSE seconds' = seconds + Factor(field) * number /\ UNCHANGED months
        /\ Advance(Letters \cup NumberTokens)
    BY <1>3 DEF Stores, SetField
  <2>2. tok' \in Tokens /\ rest' \in Seq(Tokens)
    BY <1>1, <2>1, AdvanceType, ChoiceTypes DEF TypeOK
  <2>3. field > last /\ \A f \in Fields : fields[f] # Absent => f < field
    BY <1>3, StoredLater
  <2>4. fields[field] = Absent /\ field \in 0..Second
    BY <2>3 DEF Fields, Year, Second
  <2>5. months' = MonthsRead' /\ seconds' = SecondsRead'
    BY <1>1, <2>1, <2>4, SumsAfter DEF IInv
  <2>6. fields' \in [Fields -> Nat \cup {Absent}] /\ fields'[field] = number
        /\ number # Absent
    BY <1>1, <2>1 DEF TypeOK, Absent
  <2>7. /\ months' \in (1 - IntMax)..(IntMax - 1)
        /\ seconds' \in (1 - IntMax)..(IntMax - 1)
    <3>1. months \in Nat /\ seconds \in Nat /\ number \in Nat
      <4>1. \A f \in Fields : ValueOf(f) \in Nat
        BY <1>1 DEF TypeOK, ValueOf
      <4>2. /\ ValueOf(Year) \in Nat /\ ValueOf(Month) \in Nat /\ ValueOf(Day) \in Nat
            /\ ValueOf(Hour) \in Nat /\ ValueOf(Minute) \in Nat /\ ValueOf(Second) \in Nat
        BY <4>1 DEF Fields, Year, Month, Day, Hour, Minute, Second
      <4>3. months = MonthsRead /\ seconds = SecondsRead
        BY <1>1 DEF IInv, SumsRead
      <4>4. number \in Nat
        BY <1>1 DEF TypeOK
      <4>5. MonthsRead \in Nat
        BY <4>2 DEF MonthsRead
      <4>6. SecondsRead \in Nat
        BY <4>2 DEF SecondsRead
      <4> QED BY <4>3, <4>4, <4>5, <4>6
    <3>2. Fits(Target(field), Factor(field))
      BY <1>3 DEF SetStatus
    <3>3. CASE field < Day
      <4>1. months + Factor(field) * number \in 0..(IntMax - 1)
        BY <3>1, <3>2, <3>3, FitsRange DEF Target
      <4> QED BY <1>1, <2>1, <3>3, <4>1, IntMaxAssumption DEF TypeOK
    <3>4. CASE ~(field < Day)
      <4>1. seconds + Factor(field) * number \in 0..(IntMax - 1)
        BY <3>1, <3>2, <3>4, FitsRange DEF Target
      <4> QED BY <1>1, <2>1, <3>4, <4>1, IntMaxAssumption DEF TypeOK
    <3> QED BY <3>3, <3>4
  <2>8. nanoseconds' \in (1 - Giga)..(Giga - 1)
    BY <1>1, GigaNat DEF Stores, TypeOK
  <2>9. TypeOK'
    BY <1>1, <2>1, <2>2, <2>4, <2>6, <2>7, <2>8 DEF TypeOK, Stores, string, Sites
  <2>10. StoredInOrder'
    <3>1. \A f \in Fields : fields'[f] # Absent => f <= field
      BY <1>1, <2>1, <2>3 DEF TypeOK, Fields, Year, Second
    <3> QED BY <2>1, <3>1 DEF StoredInOrder
  <2>11. PartBounds' /\ FieldRead'
    <3>1. part' = "date" => field <= Day
      BY DEF Stores, Day, Year, Hour, Second
    <3>2. HasField'
      BY <2>6 DEF HasField
    <3> QED BY <2>1, <3>1, <3>2 DEF PartBounds, FieldRead
  <2>12. FractionRead'
    <3>1. nanoseconds = 0
      <4>1. last < Second /\ last \in Int
        BY <1>1 DEF IInv, PartBounds, TypeOK, Second
      <4> QED BY <1>1, <4>1 DEF IInv, FractionRead, Second
    <3> QED BY <2>1, <2>6, <3>1 DEF FractionRead, Stores
  <2> QED BY <2>1, <2>5, <2>9, <2>10, <2>11, <2>12 DEF IInv, SumsRead, ReadExact
<1> QED BY <1>2, <1>3

(* The end of the call: the sums get their sign.                           *)
LEMMA FinishIInv ==
  ASSUME IInv, Finish
  PROVE  IInv'
<1>1. TypeOK /\ pc = "finish"
  BY DEF IInv, Finish
<1>2. /\ months \in Int /\ seconds \in Int /\ nanoseconds \in Int
  BY <1>1, IntMaxAssumption, GigaNat DEF TypeOK
<1>3. TypeOK'
  <2>1. /\ months' \in (1 - IntMax)..(IntMax - 1)
        /\ seconds' \in (1 - IntMax)..(IntMax - 1)
    BY <1>1, IntMaxAssumption DEF Finish, TypeOK
  <2>2. nanoseconds' \in (1 - Giga)..(Giga - 1)
    BY <1>1, GigaNat DEF Finish, TypeOK
  <2> QED BY <1>1, <2>1, <2>2 DEF Finish, TypeOK, Stay, string, Sites
<1>4. ReadExact'
  <2>1. MonthsRead' = MonthsRead /\ SecondsRead' = SecondsRead
    BY DEF Finish, MonthsRead, SecondsRead, ValueOf
  <2>2. months = MonthsRead /\ seconds = SecondsRead
    BY <1>1 DEF IInv, SumsRead
  <2>3. /\ months' = Sign' * MonthsRead' /\ seconds' = Sign' * SecondsRead'
    BY <1>2, <2>1, <2>2 DEF Finish, Sign
  <2>4. nanoseconds = 0 \/ (nanoseconds = fraction /\ fields[Second] # Absent)
    BY <1>1 DEF IInv, FractionRead
  <2>5. nanoseconds' # 0
          => nanoseconds' = Sign' * fraction' /\ fields'[Second] # Absent
    BY <1>2, <2>4 DEF Finish, Sign
  <2>6. \E f \in Fields : fields'[f] # Absent
    BY <1>1 DEF Finish, IInv, FieldRead, HasField
  <2> QED BY <2>3, <2>5, <2>6 DEF ReadExact
<1>5. pc' = "done"
  BY DEF Finish
<1> QED BY <1>3, <1>4, <1>5 DEF IInv, SumsRead, StoredInOrder, PartBounds, FieldRead, FractionRead

(* Every step keeps the invariant.                                         *)
LEMMA StepIInv == IInv /\ [Next]_vars => IInv'
<1> SUFFICES ASSUME IInv, [Next]_vars PROVE IInv'
  OBVIOUS
<1>1. CASE WriteDuration
  BY <1>1, WriteIInv
<1>2. CASE ReadSign \/ ReadPrefix
  BY <1>2, BeginIInv
<1>3. CASE BeginDate \/ BeginTime \/ NoTime
  BY <1>3, LoopBeginIInv
<1>4. CASE EndLoop
  BY <1>4, EndLoopIInv
<1>5. CASE ReadNumber \/ ReadPoint \/ ReadFraction
  BY <1>5, ReadNumberIInv
<1>6. CASE ReadHugeNumber \/ BadTag \/ BadFraction \/ NoSecondTag
  BY <1>6, ErrorIInv
<1>7. CASE ReadTag \/ ReadSecondTag
  BY <1>7, StoreCase, StoreIInv
<1>8. CASE Finish
  BY <1>8, FinishIInv
<1>9. CASE UNCHANGED vars
  BY <1>9 DEF vars, out, string, IInv, TypeOK, SumsRead, MonthsRead, SecondsRead, ValueOf, StoredInOrder, PartBounds, FieldRead, HasField, FractionRead, ReadExact, Sign
<1> QED BY <1>1, <1>2, <1>3, <1>4, <1>5, <1>6, <1>7, <1>8, <1>9 DEF Next, Done

(* Everything below follows from this invariant.                           *)
THEOREM SpecIInv == Spec => []IInv
<1> QED BY InitIInv, StepIInv, PTL DEF Spec

(* The members of a duration never reach INT32_MAX while its fields are    *)
(* read, so no sum and no negation overflows.                              *)
THEOREM TypeCorrect == Spec => []TypeOK
<1>1. IInv => TypeOK
  BY DEF IInv
<1> QED BY <1>1, SpecIInv, PTL

(* exess_read_duration returns the sum of the fields of the string, all of *)
(* one sign, for every string.                                             *)
THEOREM DurationsExact == Spec => []ReadExact
<1>1. IInv => ReadExact
  BY DEF IInv
<1> QED BY <1>1, SpecIInv, PTL

(* No field of a duration is stored twice or after a later one.            *)
THEOREM FieldsStoredInOrder == Spec => FieldsInOrder
<1>1. ASSUME IInv, [Next]_vars, NEW f \in Fields, fields'[f] # fields[f],
             NEW g \in f..Second
      PROVE  fields[g] = Absent
  <2>1. fields' # fields
    BY <1>1
  <2>2. ReadTag \/ ReadSecondTag
    BY <1>1, <2>1 DEF Next, vars, WriteDuration, ReadSign, ReadPrefix, BeginDate, BeginTime, NoTime, EndLoop, ReadNumber, ReadHugeNumber, BadTag, ReadPoint, ReadFraction, BadFraction, NoSecondTag, Finish, Done
  <2>3. PICK field \in Fields : Stores(field)
    BY <1>1, <2>2, StoreCase
  <2>4. SetStatus(field) = "SUCCESS" /\ fields' = [fields EXCEPT ![field] = number]
    BY <2>1, <2>3 DEF Stores, SetField
  <2>5. f = field
    BY <1>1, <2>4 DEF IInv, TypeOK
  <2>6. \A h \in Fields : fields[h] # Absent => h < field
    BY <1>1, <2>3, <2>4, StoredLater
  <2>7. g \in Fields /\ ~(g < field)
    BY <1>1, <2>5 DEF Fields, Year, Second
  <2> QED BY <2>6, <2>7
<1>2. IInv /\ [Next]_vars
        => [\A f \in Fields :
              fields'[f] # fields[f] => \A g \in f..Second : fields[g] = Absent]_vars
  BY <1>1
<1> QED BY <1>2, SpecIInv, PTL DEF Spec, FieldsInOrder

-----------------------------------------------------------------------------
(***************************************************************************)
(* A duration that is written is read back.  The invariant is about the    *)
(* string: at every point of the reader, what is left of it are the fields *)
(* that are not stored yet.                                                *)
(***************************************************************************)

(* The number that is written for a field of a duration, and whether it    *)
(* is.                                                                     *)
Amount(d, field) ==
  LET m == Abs(d.months)
      s == Abs(d.seconds)
  IN  <<m \div 12, m % 12, s \div 86400, (s \div 3600) % 24, (s \div 60) % 60, s % 60>>[field]

IsShown(d, field) ==
  \/ Amount(d, field) # 0
  \/ field = Second /\ d.nanoseconds # 0
  \/ field = Year /\ IsZero(d)

TagOf(field) == Letter(<<"Y", "M", "D", "H", "M", "S">>[field])

(* The tokens of a field behind its number.                                *)
FractionOf(d) == <<Fraction(Abs(d.nanoseconds)), TagOf(Second)>>

AfterNumber(d, field) ==
  IF field = Second /\ d.nanoseconds # 0 THEN <<Letter(".")>> \o FractionOf(d)
  ELSE <<TagOf(field)>>

FieldTokens(d, field) ==
  IF IsShown(d, field) THEN <<Number(Amount(d, field))>> \o AfterNumber(d, field) ELSE <<>>

(* The string from a field of the time on, with the T in front of all, and *)
(* from a field of the date on.                                            *)
TimeFrom(d, field) ==
  CASE field = Hour ->
         FieldTokens(d, Hour) \o (FieldTokens(d, Minute) \o FieldTokens(d, Second))
    [] field = Minute -> FieldTokens(d, Minute) \o FieldTokens(d, Second)
    [] field = Second -> FieldTokens(d, Second)
    [] OTHER -> <<>>

TimePart(d) ==
  IF TimeFrom(d, Hour) = <<>> THEN <<>> ELSE <<Letter("T")>> \o TimeFrom(d, Hour)

FromDay(d) == FieldTokens(d, Day) \o TimePart(d)
FromMonth(d) == FieldTokens(d, Month) \o FromDay(d)

DateFrom(d, field) ==
  CASE field = Year -> FieldTokens(d, Year) \o FromMonth(d)
    [] field = Month -> FromMonth(d)
    [] field = Day -> FromDay(d)
    [] OTHER -> TimePart(d)

From(p, field) == IF p = "date" THEN DateFrom(given, field) ELSE TimeFrom(given, field)

(* The reader looks at the first token of what is left.                    *)
Ahead(left) ==
  IF left = <<>> THEN <<Letter("end"), <<>>>> ELSE <<Head(left), Tail(left)>>

Looks(left) == <<tok, rest>> = Ahead(left)

(* The fields up to one are stored, if they are written, and no other.     *)
StoredUpto(field) ==
  \A f \in Fields :
    fields[f] = IF f <= field /\ IsShown(given, f) THEN Amount(given, f) ELSE Absent

(* The last field that the loops are done with.                            *)
Passed == IF part = "time" /\ last < Hour THEN Day ELSE last

FieldsOf(p) == IF p = "date" THEN Year..Day ELSE Hour..Second

(* The next field that is written.                                         *)
IsNext(field) ==
  /\ field \in FieldsOf(part) /\ field > Passed /\ IsShown(given, field)
  /\ \A f \in Fields : f > Passed /\ f < field => ~IsShown(given, f)

AtField(field) ==
  /\ begun /\ IsNext(field) /\ number = Amount(given, field) /\ StoredUpto(Passed)
  /\ pc = "tag" => Looks(AfterNumber(given, field) \o From(part, field + 1))
  /\ pc \in {"fraction", "second"} => field = Second /\ given.nanoseconds # 0
  /\ pc = "fraction" => Looks(FractionOf(given))
  /\ pc = "second" => Looks(<<TagOf(Second)>>) /\ fraction = Abs(given.nanoseconds)

AtString ==
  /\ pc = "sign" => Looks(Written(given)) /\ ~negative
  /\ pc = "prefix" => Looks(<<Letter("P")>> \o DateFrom(given, Year))
  /\ pc = "part" => Looks(DateFrom(given, Year))
  /\ pc \in {"sign", "prefix", "part"} => StoredUpto(0)
  /\ pc = "number" => Looks(From(part, Passed + 1)) /\ StoredUpto(Passed)
  /\ pc = "number" /\ ~begun => tok.kind = "number" /\ last = 0
  /\ pc \in {"tag", "fraction", "second"} => \E field \in Fields : AtField(field)
  /\ pc = "between" => Looks(TimePart(given)) /\ StoredUpto(Day)
  /\ pc = "finish" => StoredUpto(Second)

(* The sign is known once the string has begun, and a fraction is stored   *)
(* with its seconds.                                                       *)
Reading ==
  /\ WriteStatus(given) = "SUCCESS" /\ status = "SUCCESS"
  /\ pc # "sign" => (negative <=> IsNegative(given))
  /\ nanoseconds = IF fields[Second] # Absent THEN Abs(given.nanoseconds) ELSE 0
  /\ AtString

(* What a call that reads a written string keeps to.                      *)
WrittenInv ==
  /\ isWritten /\ pc \notin {"write", "done"} => Reading
  /\ pc = "write" =>
       /\ status = "SUCCESS" /\ ~negative /\ nanoseconds = 0
       /\ \A f \in Fields : fields[f] = Absent
  /\ RoundTrip

-----------------------------------------------------------------------------
(* The string, field by field.                                             *)

(* The members without their sign.                                         *)
LEMMA MembersAre ==
  ASSUME NEW d \in Durations
  PROVE  /\ d.months \in Int /\ d.seconds \in Int /\ d.nanoseconds \in Int
         /\ Abs(d.months) \in Nat /\ Abs(d.seconds) \in Nat
         /\ Abs(d.nanoseconds) \in Nat /\ Abs(d.nanoseconds) < Giga
         /\ d.nanoseconds # 0 <=> Abs(d.nanoseconds) # 0
<1>1. /\ d.months \in Int /\ d.seconds \in Int /\ d.nanoseconds \in (1 - Giga)..(Giga - 1)
  BY DurationsAssumption, IntMaxAssumption
<1> QED BY <1>1, GigaNat DEF Abs

LEMMA FieldsAre == Fields = {1, 2, 3, 4, 5, 6}
BY DEF Fields, Year, Second

LEMMA AmountsAre ==
  ASSUME NEW d
  PROVE  /\ Amount(d, 1) = Abs(d.months) \div 12
         /\ Amount(d, 2) = Abs(d.months) % 12
         /\ Amount(d, 3) = Abs(d.seconds) \div 86400
         /\ Amount(d, 4) = (Abs(d.seconds) \div 3600) % 24
         /\ Amount(d, 5) = (Abs(d.seconds) \div 60) % 60
         /\ Amount(d, 6) = Abs(d.seconds) % 60
BY DEF Amount

LEMMA AmountNat ==
  ASSUME NEW d \in Durations, NEW field \in Fields
  PROVE  Amount(d, field) \in Nat
<1>1. Abs(d.months) \in Nat /\ Abs(d.seconds) \in Nat
  BY MembersAre
<1> QED BY <1>1, AmountsAre, FieldsAre

(* A day has 24 hours, an hour 60 minutes, a minute 60 seconds.            *)
LEMMA Clock ==
  ASSUME NEW s \in Nat
  PROVE  s = 86400 * (s \div 86400) + 3600 * ((s \div 3600) % 24)
               + 60 * ((s \div 60) % 60) + (s % 60)
<1>1. s = 60 * (s \div 60) + (s % 60) /\ s \div 60 \in Nat
  OBVIOUS
<1>2. s \div 60 = 60 * ((s \div 60) \div 60) + ((s \div 60) % 60) /\ (s \div 60) \div 60 = s \div 3600
  OBVIOUS
<1>3. s \div 3600 = 24 * ((s \div 3600) \div 24) + ((s \div 3600) % 24)
      /\ (s \div 3600) \div 24 = s \div 86400 /\ s \div 3600 \in Nat
  OBVIOUS
<1> QED BY <1>1, <1>2, <1>3

(* The fields that are written add up to the members.                      *)
LEMMA AmountsAdd ==
  ASSUME NEW d \in Durations
  PROVE  /\ 12 * Amount(d, 1) + Amount(d, 2) = Abs(d.months)
         /\ 86400 * Amount(d, 3) + 3600 * Amount(d, 4) + 60 * Amount(d, 5) + Amount(d, 6)
              = Abs(d.seconds)
<1>1. PICK m \in Nat, s \in Nat : m = Abs(d.months) /\ s = Abs(d.seconds)
  BY MembersAre
<1>2. /\ Amount(d, 1) = m \div 12 /\ Amount(d, 2) = m % 12
      /\ Amount(d, 3) = s \div 86400 /\ Amount(d, 4) = (s \div 3600) % 24
      /\ Amount(d, 5) = (s \div 60) % 60 /\ Amount(d, 6) = s % 60
  BY <1>1, AmountsAre
<1>3. 12 * (m \div 12) + (m % 12) = m
  OBVIOUS
<1>4. s = 86400 * (s \div 86400) + 3600 * ((s \div 3600) % 24)
             + 60 * ((s \div 60) % 60) + (s % 60)
  BY Clock
<1> QED BY <1>1, <1>2, <1>3, <1>4

LEMMA Tags ==
  /\ TagOf(1) = Letter("Y") /\ TagOf(2) = Letter("M") /\ TagOf(3) = Letter("D")
  /\ TagOf(4) = Letter("H") /\ TagOf(5) = Letter("M") /\ TagOf(6) = Letter("S")
  /\ \A field \in Fields : TagOf(field) \in Tokens
<1>1. /\ TagOf(1) = Letter("Y") /\ TagOf(2) = Letter("M") /\ TagOf(3) = Letter("D")
      /\ TagOf(4) = Letter("H") /\ TagOf(5) = Letter("M") /\ TagOf(6) = Letter("S")
  BY DEF TagOf
<1>2. /\ Letter("Y") \in Tokens /\ Letter("M") \in Tokens /\ Letter("D") \in Tokens
      /\ Letter("H") \in Tokens /\ Letter("S") \in Tokens
  BY TokenTypes DEF Kinds
<1> QED BY <1>1, <1>2, FieldsAre, Zenon

(* A token in front of others.                                             *)
LEMMA ConsIs ==
  ASSUME NEW t \in Tokens, NEW left \in Seq(Tokens)
  PROVE  /\ <<t>> \o left \in Seq(Tokens) /\ <<t>> \o left # <<>>
         /\ Head(<<t>> \o left) = t /\ Tail(<<t>> \o left) = left
         /\ Ahead(<<t>> \o left) = <<t, left>>
<1>1. /\ <<t>> \o left \in Seq(Tokens) /\ Len(<<t>> \o left) = 1 + Len(left)
      /\ \A k \in 1..(1 + Len(left)) :
           (<<t>> \o left)[k] = IF k <= 1 THEN t ELSE left[k - 1]
  <2>1. <<t>> \in Seq(Tokens) /\ Len(<<t>>) = 1 /\ <<t>>[1] = t
    OBVIOUS
  <2> QED BY <2>1, ConcatProperties
<1>2. Len(left) \in Nat
  BY LenProperties
<1>3. <<t>> \o left # <<>>
  BY <1>1, <1>2, EmptySeq
<1>4. Head(<<t>> \o left) = t
  BY <1>1, <1>2
<1>5. Tail(<<t>> \o left) = left
  <2>1. /\ Tail(<<t>> \o left) \in Seq(Tokens) /\ Len(Tail(<<t>> \o left)) = Len(left)
        /\ \A k \in 1..Len(left) : Tail(<<t>> \o left)[k] = (<<t>> \o left)[k + 1]
    BY <1>1, <1>2, <1>3, HeadTailProperties
  <2>2. \A k \in 1..Len(left) : Tail(<<t>> \o left)[k] = left[k]
    BY <1>1, <1>2, <2>1
  <2> QED BY <2>1, <2>2, SeqEqual
<1> QED BY <1>1, <1>3, <1>4, <1>5 DEF Ahead

LEMMA AdvancesPast ==
  ASSUME isWritten, NEW t \in Tokens, NEW left \in Seq(Tokens), Looks(<<t>> \o left),
         NEW choice, Advance(choice)
  PROVE  tok = t /\ <<tok', rest'>> = Ahead(left)
<1>1. tok = t /\ rest = left
  BY ConsIs DEF Looks
<1> QED BY <1>1 DEF Advance, Ahead

(* Pieces of the string are strings of tokens.                             *)
LEMMA PiecesAre ==
  ASSUME NEW d \in Durations
  PROVE  /\ \A field \in Fields : /\ Number(Amount(d, field)) \in Tokens
                                  /\ AfterNumber(d, field) \in Seq(Tokens)
                                  /\ FieldTokens(d, field) \in Seq(Tokens)
         /\ FractionOf(d) \in Seq(Tokens) /\ Fraction(Abs(d.nanoseconds)) \in Tokens
         /\ Letter(".") \in Tokens /\ Letter("T") \in Tokens /\ Letter("P") \in Tokens
         /\ Letter("-") \in Tokens
<1>1. /\ Letter(".") \in Tokens /\ Letter("T") \in Tokens /\ Letter("P") \in Tokens
      /\ Letter("-") \in Tokens
  BY TokenTypes DEF Kinds
<1>2. Fraction(Abs(d.nanoseconds)) \in Tokens
  BY MembersAre, TokenTypes
<1>3. TagOf(Second) \in Tokens
  BY Tags, FieldsAre DEF Second
<1>4. FractionOf(d) \in Seq(Tokens)
  BY <1>2, <1>3 DEF FractionOf
<1>5. ASSUME NEW field \in Fields
      PROVE  /\ Number(Amount(d, field)) \in Tokens
             /\ AfterNumber(d, field) \in Seq(Tokens)
             /\ FieldTokens(d, field) \in Seq(Tokens)
  <2>1. Number(Amount(d, field)) \in Tokens
    BY AmountNat, TokenTypes
  <2>2. <<TagOf(field)>> \in Seq(Tokens)
    BY Tags
  <2>3. <<Letter(".")>> \o FractionOf(d) \in Seq(Tokens)
    BY <1>1, <1>4, ConsIs
  <2>4. AfterNumber(d, field) \in Seq(Tokens)
    BY <2>2, <2>3 DEF AfterNumber
  <2>5. <<Number(Amount(d, field))>> \o AfterNumber(d, field) \in Seq(Tokens)
    BY <2>1, <2>4, ConsIs
  <2>6. <<>> \in Seq(Tokens)
    BY EmptySeq
  <2>7. FieldTokens(d, field) \in Seq(Tokens)
    BY <2>5, <2>6 DEF FieldTokens
  <2> QED BY <2>1, <2>4, <2>7
<1> QED BY <1>1, <1>2, <1>4, <1>5

LEMMA SmallConcat ==
  \A a, b \in Seq(Tokens) : a \o b \in Seq(Tokens)
BY ConcatProperties

(* One field after the other.                                              *)
LEMMA FromIs ==
  ASSUME NEW d \in Durations
  PROVE  /\ \A k \in 1..4 : DateFrom(d, k) \in Seq(Tokens)
         /\ \A k \in 4..7 : TimeFrom(d, k) \in Seq(Tokens)
         /\ \A k \in 1..3 : DateFrom(d, k) = FieldTokens(d, k) \o DateFrom(d, k + 1)
         /\ \A k \in 4..6 : TimeFrom(d, k) = FieldTokens(d, k) \o TimeFrom(d, k + 1)
         /\ DateFrom(d, 4) = TimePart(d) /\ TimeFrom(d, 7) = <<>>
         /\ TimePart(d) \in Seq(Tokens)
<1>1. /\ FieldTokens(d, 1) \in Seq(Tokens) /\ FieldTokens(d, 2) \in Seq(Tokens)
      /\ FieldTokens(d, 3) \in Seq(Tokens) /\ FieldTokens(d, 4) \in Seq(Tokens)
      /\ FieldTokens(d, 5) \in Seq(Tokens) /\ FieldTokens(d, 6) \in Seq(Tokens)
  BY PiecesAre, FieldsAre
<1>2. <<>> \in Seq(Tokens) /\ TimeFrom(d, 7) = <<>>
  BY EmptySeq DEF TimeFrom, Hour, Minute, Second
<1>3. TimeFrom(d, 6) = FieldTokens(d, 6)
  BY DEF TimeFrom, Hour, Minute, Second
<1>4. TimeFrom(d, 6) = FieldTokens(d, 6) \o TimeFrom(d, 7)
  BY <1>1, <1>2, <1>3, ConcatEmptySeq
<1>5. TimeFrom(d, 5) = FieldTokens(d, 5) \o TimeFrom(d, 6)
  BY <1>3 DEF TimeFrom, Hour, Minute, Second
<1>6. TimeFrom(d, 4) = FieldTokens(d, 4) \o TimeFrom(d, 5)
  BY <1>3, <1>5 DEF TimeFrom, Hour, Minute, Second
<1>7. /\ TimeFrom(d, 6) \in Seq(Tokens) /\ TimeFrom(d, 5) \in Seq(Tokens)
      /\ TimeFrom(d, 4) \in Seq(Tokens)
  <2>1. TimeFrom(d, 6) \in Seq(Tokens)
    BY <1>1, <1>3
  <2>2. TimeFrom(d, 5) \in Seq(Tokens)
    BY <1>1, <1>5, <2>1, SmallConcat, Zenon
  <2>3. TimeFrom(d, 4) \in Seq(Tokens)
    BY <1>1, <1>6, <2>2, SmallConcat, Zenon
  <2> QED BY <2>1, <2>2, <2>3
<1>8. TimePart(d) \in Seq(Tokens)
  <2>1. Letter("T") \in Tokens
    BY PiecesAre
  <2> QED BY <1>2, <1>7, <2>1, ConsIs DEF TimePart, Hour
<1>9. DateFrom(d, 4) = TimePart(d)
  BY DEF DateFrom, Year, Month, Day
<1>10. /\ DateFrom(d, 3) = FieldTokens(d, 3) \o DateFrom(d, 4)
       /\ DateFrom(d, 2) = FieldTokens(d, 2) \o DateFrom(d, 3)
       /\ DateFrom(d, 1) = FieldTokens(d, 1) \o DateFrom(d, 2)
  <2>1. DateFrom(d, 3) = FromDay(d)
    BY DEF DateFrom, Year, Month, Day
  <2>2. DateFrom(d, 2) = FromMonth(d)
    BY DEF DateFrom, Year, Month, Day
  <2>3. DateFrom(d, 1) = FieldTokens(d, 1) \o FromMonth(d)
    BY DEF DateFrom, Year, Month, Day
  <2> QED BY <1>9, <2>1, <2>2, <2>3, Zenon DEF FromDay, FromMonth, Day, Month
<1>11. /\ DateFrom(d, 3) \in Seq(Tokens) /\ DateFrom(d, 2) \in Seq(Tokens)
       /\ DateFrom(d, 1) \in Seq(Tokens)
  <2>1. DateFrom(d, 3) \in Seq(Tokens)
    BY <1>1, <1>8, <1>9, <1>10, SmallConcat, Zenon
  <2>2. DateFrom(d, 2) \in Seq(Tokens)
    BY <1>1, <1>10, <2>1, SmallConcat, Zenon
  <2>3. DateFrom(d, 1) \in Seq(Tokens)
    BY <1>1, <1>10, <2>2, SmallConcat, Zenon
  <2> QED BY <2>1, <2>2, <2>3
<1>12. \A k \in 1..3 : k = 1 \/ k = 2 \/ k = 3
  OBVIOUS
<1>13. \A k \in 4..6 : k = 4 \/ k = 5 \/ k = 6
  OBVIOUS
<1>14. /\ \A k \in 1..4 : k = 1 \/ k = 2 \/ k = 3 \/ k = 4
       /\ \A k \in 4..7 : k = 4 \/ k = 5 \/ k = 6 \/ k = 7
  OBVIOUS
<1>15. \A k \in 1..3 : DateFrom(d, k) = FieldTokens(d, k) \o DateFrom(d, k + 1)
  <2>1. 1 + 1 = 2 /\ 2 + 1 = 3 /\ 3 + 1 = 4
    OBVIOUS
  <2> QED BY <1>10, <1>12, <2>1, Zenon
<1>16. \A k \in 4..6 : TimeFrom(d, k) = FieldTokens(d, k) \o TimeFrom(d, k + 1)
  <2>1. 4 + 1 = 5 /\ 5 + 1 = 6 /\ 6 + 1 = 7
    OBVIOUS
  <2> QED BY <1>4, <1>5, <1>6, <1>13, <2>1, Zenon
<1>17. \A k \in 1..4 : DateFrom(d, k) \in Seq(Tokens)
  BY <1>8, <1>9, <1>11, <1>14, Zenon
<1>18. \A k \in 4..7 : TimeFrom(d, k) \in Seq(Tokens)
  BY <1>2, <1>7, <1>14, Zenon
<1> QED BY <1>2, <1>8, <1>9, <1>15, <1>16, <1>17, <1>18, Zenon

(* The first field and the one after the last, in each part.               *)
FirstOf(p) == IF p = "date" THEN Year ELSE Hour
BeyondOf(p) == IF p = "date" THEN Hour ELSE Second + 1

LEMMA PartsAre ==
  ASSUME NEW p \in {"date", "time"}
  PROVE  /\ FieldsOf(p) = {f \in Fields : FirstOf(p) <= f /\ f < BeyondOf(p)}
         /\ FirstOf(p) \in {1, 4} /\ BeyondOf(p) \in {4, 7} /\ BeyondOf(p) = FirstOf(p) + 3
         /\ p = "date" => FirstOf(p) = 1 /\ BeyondOf(p) = 4
         /\ p = "time" => FirstOf(p) = 4 /\ BeyondOf(p) = 7
<1>1. CASE p = "date"
  BY <1>1, FieldsAre DEF FieldsOf, FirstOf, BeyondOf, Year, Day, Hour, Second
<1>2. CASE p = "time"
  BY <1>2, FieldsAre DEF FieldsOf, FirstOf, BeyondOf, Year, Day, Hour, Second
<1> QED BY <1>1, <1>2

(* What is left, from a field on, where the field is written and where it  *)
(* is not.                                                                 *)
LEMMA FromField ==
  ASSUME given \in Durations, NEW p \in {"date", "time"}, NEW field \in FieldsOf(p)
  PROVE  /\ IsShown(given, field) =>
              From(p, field) = <<Number(Amount(given, field))>>
                                 \o (AfterNumber(given, field) \o From(p, field + 1))
         /\ ~IsShown(given, field) => From(p, field) = From(p, field + 1)
         /\ From(p, field + 1) \in Seq(Tokens) /\ From(p, field) \in Seq(Tokens)
<1>1. field \in Fields
  BY PartsAre
<1>2. /\ From(p, field) = FieldTokens(given, field) \o From(p, field + 1)
      /\ From(p, field) \in Seq(Tokens) /\ From(p, field + 1) \in Seq(Tokens)
  <2>1. CASE p = "date"
    <3>1. field \in 1..3 /\ field \in 1..4 /\ field + 1 \in 1..4
      BY <2>1 DEF FieldsOf, Year, Day
    <3> QED BY <2>1, <3>1, FromIs DEF From
  <2>2. CASE p = "time"
    <3>1. field \in 4..6 /\ field \in 4..7 /\ field + 1 \in 4..7 /\ p # "date"
      BY <2>2 DEF FieldsOf, Hour, Second
    <3> QED BY <2>2, <3>1, FromIs DEF From
  <2> QED BY <2>1, <2>2
<1>3. ASSUME IsShown(given, field)
      PROVE  From(p, field) = <<Number(Amount(given, field))>>
                                \o (AfterNumber(given, field) \o From(p, field + 1))
  <2>1. FieldTokens(given, field) = <<Number(Amount(given, field))>> \o AfterNumber(given, field)
    BY <1>3 DEF FieldTokens
  <2>2. <<Number(Amount(given, field))>> \in Seq(Tokens) /\ AfterNumber(given, field) \in Seq(Tokens)
    BY <1>1, PiecesAre
  <2> QED BY <1>2, <2>1, <2>2, ConcatAssociative
<1>4. ASSUME ~IsShown(given, field) PROVE From(p, field) = From(p, field + 1)
  BY <1>2, <1>4, ConcatEmptySeq DEF FieldTokens
<1> QED BY <1>2, <1>3, <1>4

(* Nothing of a part is left, or a number and what belongs to it.          *)
NothingLeft(p, k) ==
  /\ From(p, k) = From(p, BeyondOf(p))
  /\ \A f \in FieldsOf(p) : f >= k => ~IsShown(given, f)

FieldLeft(p, k, field) ==
  /\ field \in FieldsOf(p) /\ field >= k /\ IsShown(given, field)
  /\ \A f \in FieldsOf(p) : f >= k /\ f < field => ~IsShown(given, f)
  /\ From(p, k) = <<Number(Amount(given, field))>>
                    \o (AfterNumber(given, field) \o From(p, field + 1))

Left(p, k) == NothingLeft(p, k) \/ \E field \in FieldsOf(p) : FieldLeft(p, k, field)

LEMMA LeftStep ==
  ASSUME given \in Durations, NEW p \in {"date", "time"}, NEW k \in FieldsOf(p), Left(p, k + 1)
  PROVE  Left(p, k)
<1>1. FieldsOf(p) \subseteq Int
  BY PartsAre, FieldsAre
<1>2. CASE IsShown(given, k)
  <2>1. FieldLeft(p, k, k)
    <3>1. k >= k /\ \A f \in FieldsOf(p) : ~(f >= k /\ f < k)
      BY <1>1
    <3>2. From(p, k) = <<Number(Amount(given, k))>>
                         \o (AfterNumber(given, k) \o From(p, k + 1))
      BY <1>2, FromField
    <3> QED BY <1>2, <3>1, <3>2, Zenon DEF FieldLeft
  <2> QED BY <2>1 DEF Left
<1>3. CASE ~IsShown(given, k)
  <2>1. From(p, k) = From(p, k + 1)
    BY <1>3, FromField
  <2>2. \A f \in FieldsOf(p) : f >= k => f = k \/ f >= k + 1
    BY <1>1
  <2>3. CASE NothingLeft(p, k + 1)
    <3>1. NothingLeft(p, k)
      BY <1>3, <2>1, <2>2, <2>3 DEF NothingLeft
    <3> QED BY <3>1 DEF Left
  <2>4. ASSUME NEW field \in FieldsOf(p), FieldLeft(p, k + 1, field)
        PROVE  Left(p, k)
    <3>1. field >= k
      BY <1>1, <2>4 DEF FieldLeft
    <3>2. FieldLeft(p, k, field)
      BY <1>3, <2>1, <2>2, <2>4, <3>1 DEF FieldLeft
    <3> QED BY <3>2 DEF Left
  <2> QED BY <2>3, <2>4 DEF Left
<1> QED BY <1>2, <1>3

LEMMA LeftIs ==
  ASSUME given \in Durations, NEW p \in {"date", "time"},
         NEW k \in FieldsOf(p) \cup {BeyondOf(p)}
  PROVE  Left(p, k)
<1>1. /\ FieldsOf(p) = {FirstOf(p), FirstOf(p) + 1, FirstOf(p) + 2}
      /\ BeyondOf(p) = FirstOf(p) + 3 /\ FirstOf(p) \in Int
  BY PartsAre, FieldsAre
<1> DEFINE a == FirstOf(p)
<1>2. Left(p, a + 3)
  <2>1. \A f \in FieldsOf(p) : ~(f >= BeyondOf(p))
    BY <1>1
  <2>2. NothingLeft(p, BeyondOf(p))
    BY <2>1 DEF NothingLeft
  <2> QED BY <1>1, <2>2 DEF Left
<1>3. (a + 2) + 1 = a + 3 /\ (a + 1) + 1 = a + 2
  BY <1>1
<1>4. Left(p, a + 2)
  BY <1>1, <1>2, <1>3, LeftStep
<1>5. Left(p, a + 1)
  BY <1>1, <1>3, <1>4, LeftStep
<1>6. Left(p, a)
  BY <1>1, <1>5, LeftStep
<1> QED BY <1>1, <1>2, <1>4, <1>5, <1>6

(* Every duration has a field that is written.                             *)
LEMMA SomeShown ==
  ASSUME NEW d \in Durations
  PROVE  \E field \in Fields : IsShown(d, field)
<1> SUFFICES ASSUME \A field \in Fields : ~IsShown(d, field) PROVE FALSE
  OBVIOUS
<1>1. \A field \in Fields : Amount(d, field) = 0
  BY DEF IsShown
<1>2. /\ Amount(d, 1) = 0 /\ Amount(d, 2) = 0 /\ Amount(d, 3) = 0
      /\ Amount(d, 4) = 0 /\ Amount(d, 5) = 0 /\ Amount(d, 6) = 0
  BY <1>1, FieldsAre
<1>3. Abs(d.months) = 0 /\ Abs(d.seconds) = 0
  BY <1>2, AmountsAdd
<1>4. d.months = 0 /\ d.seconds = 0
  BY <1>3, MembersAre DEF Abs
<1>5. d.nanoseconds = 0
  BY FieldsAre DEF IsShown, Second
<1>6. IsZero(d)
  BY <1>4, <1>5 DEF IsZero
<1> QED BY <1>6, FieldsAre DEF IsShown, Year

LEMMA Tuples ==
  /\ \A a, b \in Tokens : <<a>> \o <<b>> = <<a, b>>
  /\ \A a, b, c \in Tokens : <<a>> \o <<b, c>> = <<a, b, c>>
<1>1. ASSUME NEW a \in Tokens, NEW b \in Tokens PROVE <<a>> \o <<b>> = <<a, b>>
  <2>1. <<a>> \in Seq(Tokens) /\ <<b>> \in Seq(Tokens) /\ <<a, b>> \in Seq(Tokens)
    OBVIOUS
  <2>2. /\ Len(<<a>>) = 1 /\ Len(<<b>>) = 1 /\ Len(<<a, b>>) = 2
        /\ <<a>>[1] = a /\ <<b>>[1] = b /\ <<a, b>>[1] = a /\ <<a, b>>[2] = b
    OBVIOUS
  <2>3. /\ <<a>> \o <<b>> \in Seq(Tokens) /\ Len(<<a>> \o <<b>>) = 2
        /\ \A k \in 1..2 : (<<a>> \o <<b>>)[k] = IF k <= 1 THEN a ELSE <<b>>[k - 1]
    BY <2>1, <2>2, ConcatProperties
  <2>4. \A k \in 1..2 : (<<a>> \o <<b>>)[k] = <<a, b>>[k]
    <3>1. (<<a>> \o <<b>>)[1] = a /\ (<<a>> \o <<b>>)[2] = b
      BY <2>2, <2>3
    <3>2. \A k \in 1..2 : k = 1 \/ k = 2
      OBVIOUS
    <3> QED BY <2>2, <3>1, <3>2
  <2> QED BY <2>1, <2>2, <2>3, <2>4, SeqEqual
<1>2. ASSUME NEW a \in Tokens, NEW b \in Tokens, NEW c \in Tokens
      PROVE  <<a>> \o <<b, c>> = <<a, b, c>>
  <2>1. <<a>> \in Seq(Tokens) /\ <<b, c>> \in Seq(Tokens) /\ <<a, b, c>> \in Seq(Tokens)
    OBVIOUS
  <2>2. /\ Len(<<a>>) = 1 /\ Len(<<b, c>>) = 2 /\ Len(<<a, b, c>>) = 3
        /\ <<a>>[1] = a /\ <<b, c>>[1] = b /\ <<b, c>>[2] = c
        /\ <<a, b, c>>[1] = a /\ <<a, b, c>>[2] = b /\ <<a, b, c>>[3] = c
    OBVIOUS
  <2>3. /\ <<a>> \o <<b, c>> \in Seq(Tokens) /\ Len(<<a>> \o <<b, c>>) = 3
        /\ \A k \in 1..3 : (<<a>> \o <<b, c>>)[k] = IF k <= 1 THEN a ELSE <<b, c>>[k - 1]
    BY <2>1, <2>2, ConcatProperties
  <2>4. \A k \in 1..3 : (<<a>> \o <<b, c>>)[k] = <<a, b, c>>[k]
    <3>1. /\ (<<a>> \o <<b, c>>)[1] = a /\ (<<a>> \o <<b, c>>)[2] = b
          /\ (<<a>> \o <<b, c>>)[3] = c
      BY <2>2, <2>3
    <3>2. \A k \in 1..3 : k = 1 \/ k = 2 \/ k = 3
      OBVIOUS
    <3> QED BY <2>2, <3>1, <3>2
  <2> QED BY <2>1, <2>2, <2>3, <2>4, SeqEqual
<1> QED BY <1>1, <1>2

Strings == Seq(Tokens)
Join(a, b) == a \o b

LEMMA Associates ==
  /\ \A a, b, c \in Strings : Join(Join(a, b), c) = Join(a, Join(b, c))
  /\ \A a, b \in Strings : Join(a, b) \in Strings
  /\ \A a \in Strings : Join(a, <<>>) = a /\ Join(<<>>, a) = a
<1>1. ASSUME NEW a \in Strings, NEW b \in Strings, NEW c \in Strings
      PROVE  Join(Join(a, b), c) = Join(a, Join(b, c))
  <2>1. a \in Seq(Tokens) /\ b \in Seq(Tokens) /\ c \in Seq(Tokens)
    BY DEF Strings
  <2>2. (a \o b) \o c = a \o (b \o c)
    BY <2>1, ConcatAssociative
  <2> QED BY <2>2, Zenon DEF Join
<1>2. \A a, b \in Strings : Join(a, b) \in Strings
  BY ConcatProperties DEF Strings, Join
<1>3. \A a \in Strings : Join(a, <<>>) = a /\ Join(<<>>, a) = a
  BY ConcatEmptySeq DEF Strings, Join
<1> QED BY <1>1, <1>2, <1>3, Zenon

(* What exess_write_duration writes for each field.                        *)
LEMMA SegmentIs ==
  ASSUME NEW d \in Durations, ~IsZero(d), NEW field \in 1..5, NEW c, TagOf(field) = Letter(c)
  PROVE  FieldTokens(d, field) = Segment(Amount(d, field), c)
<1>1. field # Second /\ field \in Fields
  BY FieldsAre DEF Second
<1>2. IsShown(d, field) <=> Amount(d, field) # 0
  BY <1>1 DEF IsShown
<1>3. AfterNumber(d, field) = <<Letter(c)>>
  BY <1>1 DEF AfterNumber
<1>4. Number(Amount(d, field)) \in Tokens /\ Letter(c) \in Tokens
  BY <1>1, PiecesAre, Tags
<1>5. <<Number(Amount(d, field))>> \o <<Letter(c)>> = <<Number(Amount(d, field)), Letter(c)>>
  BY <1>4, Tuples
<1> QED BY <1>2, <1>3, <1>5 DEF FieldTokens, Segment

LEMMA SecondsAre ==
  ASSUME NEW d \in Durations
  PROVE  FieldTokens(d, 6) = Seconds(Abs(d.seconds) % 60, Abs(d.nanoseconds))
<1> DEFINE a == <<Number(Amount(d, 6))>>
           f == Fraction(Abs(d.nanoseconds))
<1>1. Amount(d, 6) = Abs(d.seconds) % 60 /\ TagOf(6) = Letter("S") /\ TagOf(Second) = Letter("S")
  BY AmountsAre, Tags DEF Second
<1>2. d.nanoseconds # 0 <=> Abs(d.nanoseconds) # 0
  BY MembersAre
<1>3. IsShown(d, 6) <=> ~(Abs(d.seconds) % 60 = 0 /\ Abs(d.nanoseconds) = 0)
  BY <1>1, <1>2 DEF IsShown, Second, Year
<1>4. /\ Number(Amount(d, 6)) \in Tokens /\ f \in Tokens /\ Letter("S") \in Tokens
      /\ Letter(".") \in Tokens
  BY <1>1, PiecesAre, Tags, FieldsAre
<1>5. /\ a \in Strings /\ <<f>> \in Strings /\ <<Letter("S")>> \in Strings
      /\ <<Letter(".")>> \in Strings
  BY <1>4 DEF Strings
<1> HIDE DEF a, f
<1>6. ASSUME Abs(d.nanoseconds) # 0
      PROVE  Join(a, AfterNumber(d, 6)) = Join(Join(a, <<Letter("."), f>>), <<Letter("S")>>)
  <2>1. AfterNumber(d, 6) = Join(<<Letter(".")>>, <<f, Letter("S")>>)
    BY <1>1, <1>2, <1>6 DEF AfterNumber, FractionOf, Second, f, Join
  <2>2. /\ <<f, Letter("S")>> = Join(<<f>>, <<Letter("S")>>)
        /\ <<Letter("."), f>> = Join(<<Letter(".")>>, <<f>>)
    BY <1>4, Tuples DEF Join
  <2>3. AfterNumber(d, 6) = Join(<<Letter("."), f>>, <<Letter("S")>>)
    <3> DEFINE dot == <<Letter(".")>>
               digits == <<f>>
               tag == <<Letter("S")>>
    <3>1. /\ dot \in Strings /\ digits \in Strings /\ tag \in Strings
          /\ AfterNumber(d, 6) = Join(dot, Join(digits, tag))
          /\ <<Letter("."), f>> = Join(dot, digits)
      BY <1>5, <2>1, <2>2, Zenon
    <3> HIDE DEF dot, digits, tag
    <3>2. Join(Join(dot, digits), tag) = Join(dot, Join(digits, tag))
      BY <3>1, Associates, Zenon
    <3> QED BY <3>1, <3>2, Zenon DEF tag
  <2>4. <<Letter("."), f>> \in Strings
    BY <1>4 DEF Strings
  <2> QED BY <1>5, <2>3, <2>4, Associates
<1>7. ASSUME Abs(d.nanoseconds) = 0
      PROVE  Join(a, AfterNumber(d, 6)) = Join(Join(a, <<>>), <<Letter("S")>>)
  <2>1. AfterNumber(d, 6) = <<Letter("S")>>
    BY <1>1, <1>2, <1>7 DEF AfterNumber
  <2> QED BY <1>5, <2>1, Associates
<1>8. FieldTokens(d, 6) = IF IsShown(d, 6) THEN a \o AfterNumber(d, 6) ELSE <<>>
  BY DEF FieldTokens, a
<1>9. a = <<Number(Abs(d.seconds) % 60)>> /\ f = Fraction(Abs(d.nanoseconds))
  BY <1>1 DEF a, f
<1>10. CASE Abs(d.nanoseconds) # 0
  BY <1>3, <1>6, <1>8, <1>9, <1>10, Zenon DEF Seconds, Join
<1>11. CASE Abs(d.nanoseconds) = 0
  BY <1>3, <1>7, <1>8, <1>9, <1>11, Zenon DEF Seconds, Join
<1> QED BY <1>10, <1>11

(* Where no field is written, nothing is, and only then.                   *)
LEMMA ShownIs ==
  ASSUME NEW d \in Durations, NEW field \in Fields
  PROVE  IsShown(d, field) <=> FieldTokens(d, field) # <<>>
<1>1. <<Number(Amount(d, field))>> \o AfterNumber(d, field) # <<>>
  BY PiecesAre, ConsIs
<1> QED BY <1>1 DEF FieldTokens

LEMMA TimeShown ==
  ASSUME NEW d \in Durations
  PROVE  TimePart(d) = <<>> <=> \A f \in FieldsOf("time") : ~IsShown(d, f)
<1>1. FieldsOf("time") = {4, 5, 6}
  BY DEF FieldsOf, Hour, Second
<1>2. /\ FieldTokens(d, 4) \in Seq(Tokens) /\ FieldTokens(d, 5) \in Seq(Tokens)
      /\ FieldTokens(d, 6) \in Seq(Tokens) /\ TimeFrom(d, 5) \in Seq(Tokens)
      /\ TimeFrom(d, 6) \in Seq(Tokens)
  BY PiecesAre, FieldsAre, FromIs
<1>3. /\ TimeFrom(d, 4) = FieldTokens(d, 4) \o TimeFrom(d, 5)
      /\ TimeFrom(d, 5) = FieldTokens(d, 5) \o TimeFrom(d, 6)
      /\ TimeFrom(d, 6) = FieldTokens(d, 6)
  <2>1. 4 + 1 = 5 /\ 5 + 1 = 6 /\ 4 \in 4..6 /\ 5 \in 4..6
    OBVIOUS
  <2>2. TimeFrom(d, 6) = FieldTokens(d, 6)
    BY DEF TimeFrom, Hour, Minute, Second
  <2> QED BY <2>1, <2>2, FromIs, Zenon
<1>4. TimeFrom(d, 4) = <<>>
        <=> /\ FieldTokens(d, 4) = <<>> /\ FieldTokens(d, 5) = <<>> /\ FieldTokens(d, 6) = <<>>
  <2>1. \A a, b \in Seq(Tokens) : a \o b = <<>> <=> a = <<>> /\ b = <<>>
    BY ConcatEqualIffEmpty
  <2>2. TimeFrom(d, 4) = <<>> <=> FieldTokens(d, 4) = <<>> /\ TimeFrom(d, 5) = <<>>
    BY <1>2, <1>3, <2>1
  <2>3. TimeFrom(d, 5) = <<>> <=> FieldTokens(d, 5) = <<>> /\ TimeFrom(d, 6) = <<>>
    BY <1>2, <1>3, <2>1
  <2> QED BY <1>3, <2>2, <2>3
<1>5. TimePart(d) = <<>> <=> TimeFrom(d, 4) = <<>>
  <2>1. <<Letter("T")>> \o TimeFrom(d, 4) # <<>>
    BY PiecesAre, FromIs, ConsIs
  <2> QED BY <2>1 DEF TimePart, Hour
<1> QED BY <1>1, <1>4, <1>5, ShownIs, FieldsAre

(* The string is the sign, the P and the fields.                           *)
LEMMA WrittenIs ==
  ASSUME NEW d \in Durations
  PROVE  /\ IsNegative(d) => Written(d) = <<Letter("-")>> \o (<<Letter("P")>> \o DateFrom(d, Year))
         /\ ~IsNegative(d) => Written(d) = <<Letter("P")>> \o DateFrom(d, Year)
<1> DEFINE P == <<Letter("P")>>
           f1 == FieldTokens(d, 1)
           f2 == FieldTokens(d, 2)
           f3 == FieldTokens(d, 3)
           f4 == FieldTokens(d, 4)
           f5 == FieldTokens(d, 5)
           f6 == FieldTokens(d, 6)
           time == TimePart(d)
<1>1. /\ f1 \in Strings /\ f2 \in Strings /\ f3 \in Strings /\ f4 \in Strings
      /\ f5 \in Strings /\ f6 \in Strings /\ time \in Strings /\ DateFrom(d, 1) \in Strings
  BY PiecesAre, FieldsAre, FromIs DEF Strings
<1>2. /\ P \in Strings /\ <<Letter("-")>> \in Strings /\ <<>> \in Strings
      /\ Letter("P") \in Tokens /\ Letter("Y") \in Tokens /\ Number(0) \in Tokens
  <2>1. Letter("P") \in Tokens /\ Letter("-") \in Tokens
    BY PiecesAre
  <2>2. Letter("Y") \in Tokens /\ Number(0) \in Tokens
    BY TokenTypes DEF Kinds
  <2> QED BY <2>1, <2>2 DEF Strings
<1>3. DateFrom(d, 1) = Join(f1, Join(f2, Join(f3, time)))
  <2>1. /\ DateFrom(d, 1) = FieldTokens(d, 1) \o DateFrom(d, 2)
        /\ DateFrom(d, 2) = FieldTokens(d, 2) \o DateFrom(d, 3)
        /\ DateFrom(d, 3) = FieldTokens(d, 3) \o DateFrom(d, 4) /\ DateFrom(d, 4) = TimePart(d)
    <3>1. 1 + 1 = 2 /\ 2 + 1 = 3 /\ 3 + 1 = 4 /\ 1 \in 1..3 /\ 2 \in 1..3 /\ 3 \in 1..3
      OBVIOUS
    <3> QED BY <3>1, FromIs, Zenon
  <2> QED BY <2>1, Zenon DEF Join
<1>4. CASE ~IsZero(d)
  <2> DEFINE m == Abs(d.months)
             s == Abs(d.seconds)
             n == Abs(d.nanoseconds)
             sign == IF IsNegative(d) THEN <<Letter("-")>> ELSE <<>>
             body == IF TimeSegments(s, n) = <<>> THEN <<>>
                     ELSE <<Letter("T")>> \o TimeSegments(s, n)
  <2>1. Written(d) = Join(Join(Join(sign, P), DateSegments(m, s)), body)
    BY <1>4 DEF Written, Join
  <2>2. /\ f1 = Segment(m \div 12, "Y") /\ f2 = Segment(m % 12, "M")
        /\ f3 = Segment(s \div 86400, "D") /\ f4 = Segment((s \div 3600) % 24, "H")
        /\ f5 = Segment((s \div 60) % 60, "M") /\ f6 = Seconds(s % 60, n)
    <3>1. 1 \in 1..5 /\ 2 \in 1..5 /\ 3 \in 1..5 /\ 4 \in 1..5 /\ 5 \in 1..5
      OBVIOUS
    <3>2. \A k \in 1..5 : \A c : TagOf(k) = Letter(c) => FieldTokens(d, k) = Segment(Amount(d, k), c)
      BY <1>4, SegmentIs
    <3>3. /\ f1 = Segment(Amount(d, 1), "Y") /\ f2 = Segment(Amount(d, 2), "M")
          /\ f3 = Segment(Amount(d, 3), "D") /\ f4 = Segment(Amount(d, 4), "H")
          /\ f5 = Segment(Amount(d, 5), "M")
      BY <3>1, <3>2, Tags, Zenon
    <3> QED BY <3>3, SecondsAre, AmountsAre
  <2>3. TimeSegments(s, n) = TimeFrom(d, Hour)
    <3>1. TimeFrom(d, Hour) = Join(f4, Join(f5, f6))
      BY DEF TimeFrom, Hour, Minute, Second, Join
    <3> DEFINE h == Segment((s \div 3600) % 24, "H")
               i == Segment((s \div 60) % 60, "M")
               j == Seconds(s % 60, n)
    <3>2. TimeSegments(s, n) = Join(Join(h, i), j) /\ f4 = h /\ f5 = i /\ f6 = j
      BY <2>2 DEF TimeSegments, Join
    <3> HIDE DEF f4, f5, f6, s, n, h, i, j
    <3> QED BY <1>1, <3>1, <3>2, Associates
  <2>4. body = time
    BY <2>3, Zenon DEF TimePart
  <2>5. DateSegments(m, s) = Join(Join(f1, f2), f3)
    <3> DEFINE y == Segment(m \div 12, "Y")
               mo == Segment(m % 12, "M")
               dy == Segment(s \div 86400, "D")
    <3>1. DateSegments(m, s) = Join(Join(y, mo), dy) /\ f1 = y /\ f2 = mo /\ f3 = dy
      BY <2>2 DEF DateSegments, Join
    <3> HIDE DEF f1, f2, f3, m, s, y, mo, dy
    <3> QED BY <3>1
  <2>6. Written(d) = Join(sign, Join(P, DateFrom(d, 1))) /\ Join(P, DateFrom(d, 1)) \in Strings
    <3> DEFINE dates == DateSegments(m, s)
    <3>1. sign \in Strings
      BY <1>2
    <3> HIDE DEF P, f1, f2, f3, time, sign, body, dates, m, s, n
    <3>2. Written(d) = Join(Join(Join(sign, P), dates), time) /\ dates = Join(Join(f1, f2), f3)
      BY <2>1, <2>4, <2>5 DEF dates
    <3>3. dates = Join(f1, Join(f2, f3)) /\ Join(f2, f3) \in Strings /\ dates \in Strings
      BY <1>1, <3>2, Associates
    <3>4. Join(dates, time) = Join(f1, Join(Join(f2, f3), time))
      BY <1>1, <3>3, Associates
    <3>5. Join(dates, time) = DateFrom(d, 1)
      BY <1>1, <1>3, <3>4, Associates
    <3>6. Join(sign, P) \in Strings
      BY <1>2, <3>1, Associates
    <3>7. Written(d) = Join(Join(sign, P), DateFrom(d, 1))
      BY <1>1, <3>2, <3>3, <3>5, <3>6, Associates
    <3> QED BY <1>1, <1>2, <3>1, <3>7, Associates
  <2> QED BY <2>6, Associates DEF Year, Join
<1>5. CASE IsZero(d)
  <2>1. ~IsNegative(d) /\ Written(d) = <<Letter("P"), Number(0), Letter("Y")>>
    BY <1>5 DEF IsZero, IsNegative, Written
  <2>2. Abs(d.months) = 0 /\ Abs(d.seconds) = 0 /\ d.nanoseconds = 0
    BY <1>5 DEF IsZero, Abs
  <2>3. \A f \in Fields : Amount(d, f) = 0
    BY <2>2, AmountsAre, FieldsAre
  <2>4. f2 = <<>> /\ f3 = <<>> /\ time = <<>>
    <3>1. \A f \in Fields \ {1} : ~IsShown(d, f)
      BY <2>2, <2>3 DEF IsShown, Year
    <3>2. f2 = <<>> /\ f3 = <<>>
      BY <3>1, FieldsAre DEF FieldTokens
    <3>3. FieldsOf("time") \subseteq Fields \ {1}
      BY FieldsAre DEF FieldsOf, Hour, Second
    <3> QED BY <3>1, <3>2, <3>3, TimeShown
  <2>5. f1 = <<Number(0), Letter("Y")>>
    <3>1. IsShown(d, 1) /\ Amount(d, 1) = 0 /\ AfterNumber(d, 1) = <<Letter("Y")>>
      BY <1>5, <2>3, FieldsAre, Tags DEF IsShown, AfterNumber, Year, Second
    <3> QED BY <1>2, <3>1, Tuples DEF FieldTokens
  <2>6. DateFrom(d, 1) = f1
    BY <1>1, <1>2, <1>3, <2>4, Associates
  <2>7. P \o f1 = <<Letter("P"), Number(0), Letter("Y")>>
    BY <1>2, <2>5, Tuples, Zenon
  <2> QED BY <2>1, <2>6, <2>7, Zenon DEF Year
<1> QED BY <1>4, <1>5

-----------------------------------------------------------------------------
(* Every step of a reader that is given a written string.                  *)

LEMMA LooksAt ==
  ASSUME NEW t \in Tokens, NEW left \in Seq(Tokens), Looks(<<t>> \o left)
  PROVE  tok = t /\ rest = left
BY ConsIs DEF Looks

(* What is read goes on being read.                                        *)
LEMMA OnReading ==
  ASSUME pc' \notin {"write", "done"}, isWritten' => Reading'
  PROVE  WrittenInv'
BY DEF WrittenInv, RoundTrip

LEMMA Given ==
  ASSUME IInv, WrittenInv, isWritten
  PROVE  /\ given \in Durations
         /\ pc \notin {"write", "done"} => Reading
BY DEF IInv, TypeOK, WrittenInv

LEMMA WriteKeeps == IInv /\ WrittenInv /\ WriteDuration => WrittenInv'
<1> SUFFICES ASSUME IInv, WrittenInv, WriteDuration PROVE WrittenInv'
  OBVIOUS
<1>1. /\ pc = "write" /\ status = "SUCCESS" /\ ~negative /\ nanoseconds = 0
      /\ \A f \in Fields : fields[f] = Absent
      /\ given' = given /\ given \in Durations /\ negative' = negative
      /\ nanoseconds' = nanoseconds /\ fields' = fields
  BY DEF WriteDuration, WrittenInv, IInv, TypeOK, string, out
<1>2. CASE WriteStatus(given) # "SUCCESS"
  BY <1>1, <1>2 DEF WriteDuration, Fail, WrittenInv, RoundTrip
<1>3. CASE WriteStatus(given) = "SUCCESS"
  <2>1. /\ pc' = "sign" /\ status' = status
        /\ tok' = Head(Written(given)) /\ rest' = Tail(Written(given))
    BY <1>3 DEF WriteDuration
  <2>2. Looks(Written(given))'
    BY <1>1, <2>1, WrittenType DEF Looks, Ahead
  <2>3. StoredUpto(0)'
    BY <1>1, FieldsAre DEF StoredUpto
  <2>4. AtString'
    BY <1>1, <2>1, <2>2, <2>3 DEF AtString
  <2>5. Reading'
    BY <1>1, <1>3, <2>1, <2>4, FieldsAre DEF Reading, Second
  <2> QED BY <2>1, <2>5, OnReading
<1> QED BY <1>2, <1>3

LEMMA SignKeeps ==
  ASSUME IInv, WrittenInv, isWritten, ReadSign
  PROVE  WrittenInv'
<1> DEFINE left == <<Letter("P")>> \o DateFrom(given, Year)
<1>1. given \in Durations /\ pc = "sign" /\ Reading
  BY Given DEF ReadSign
<1>2. Looks(Written(given)) /\ ~negative /\ StoredUpto(0)
  BY <1>1 DEF Reading, AtString
<1>3. /\ Letter("P") \in Tokens /\ Letter("-") \in Tokens /\ DateFrom(given, Year) \in Seq(Tokens)
      /\ left \in Seq(Tokens)
  BY <1>1, PiecesAre, FromIs, ConsIs DEF Year
<1>4. Letter("-").kind = "-" /\ Letter("P").kind # "-"
  BY DEF Letter
<1>5. <<tok', rest'>> = Ahead(left) /\ (negative' <=> IsNegative(given))
  <2> HIDE DEF left
  <2>1. CASE IsNegative(given)
    <3>1. Looks(<<Letter("-")>> \o left)
      BY <1>1, <1>2, <2>1, WrittenIs DEF left
    <3>2. tok = Letter("-")
      BY <1>3, <3>1, LooksAt
    <3>3. Advance(Letters \cup NumberTokens) /\ negative'
      BY <1>4, <3>2 DEF ReadSign
    <3> QED BY <1>3, <2>1, <3>1, <3>3, AdvancesPast
  <2>2. CASE ~IsNegative(given)
    <3>1. Looks(left)
      BY <1>1, <1>2, <2>2, WrittenIs DEF left
    <3>2. tok = Letter("P")
      BY <1>3, <3>1, LooksAt DEF left
    <3>3. tok' = tok /\ rest' = rest /\ negative' = negative
      BY <1>4, <3>2 DEF ReadSign, Stay
    <3> QED BY <1>2, <2>2, <3>1, <3>3 DEF Looks
  <2> QED BY <2>1, <2>2
<1>6. /\ pc' = "prefix" /\ given' = given /\ status' = status /\ fields' = fields
      /\ nanoseconds' = nanoseconds
  BY DEF ReadSign, string, out
<1>7. Looks(<<Letter("P")>> \o DateFrom(given, Year))' /\ StoredUpto(0)'
  BY <1>2, <1>5, <1>6 DEF Looks, StoredUpto
<1>8. AtString'
  BY <1>6, <1>7 DEF AtString
<1>9. Reading'
  BY <1>1, <1>5, <1>6, <1>8 DEF Reading
<1> QED BY <1>6, <1>9, OnReading

LEMMA PrefixKeeps ==
  ASSUME IInv, WrittenInv, isWritten, ReadPrefix
  PROVE  WrittenInv'
<1>1. given \in Durations /\ pc = "prefix" /\ Reading
  BY Given DEF ReadPrefix
<1>2. /\ Looks(<<Letter("P")>> \o DateFrom(given, Year)) /\ (negative <=> IsNegative(given))
      /\ StoredUpto(0)
  BY <1>1 DEF Reading, AtString
<1>3. Letter("P") \in Tokens /\ DateFrom(given, Year) \in Seq(Tokens)
  BY <1>1, PiecesAre, FromIs DEF Year
<1>4. tok.kind = "P"
  BY <1>2, <1>3, LooksAt DEF Letter
<1>5. /\ pc' = "part" /\ given' = given /\ status' = status /\ fields' = fields
      /\ nanoseconds' = nanoseconds /\ negative' = negative
      /\ Advance(Letters \cup NumberTokens)
  BY <1>4 DEF ReadPrefix, string, out
<1>6. <<tok', rest'>> = Ahead(DateFrom(given, Year))
  BY <1>2, <1>3, <1>5, AdvancesPast
<1>7. Looks(DateFrom(given, Year))' /\ StoredUpto(0)'
  BY <1>2, <1>5, <1>6 DEF Looks, StoredUpto
<1>8. AtString'
  BY <1>5, <1>7 DEF AtString
<1>9. Reading'
  BY <1>1, <1>2, <1>5, <1>8 DEF Reading
<1> QED BY <1>5, <1>9, OnReading

(* What the reader sees where the time may begin.                          *)
LEMMA LooksTime ==
  ASSUME given \in Durations, Looks(TimePart(given))
  PROVE  \/ /\ TimePart(given) = <<>> /\ tok = Letter("end")
            /\ \A f \in FieldsOf("time") : ~IsShown(given, f)
         \/ /\ TimePart(given) = <<Letter("T")>> \o TimeFrom(given, 4) /\ tok = Letter("T")
            /\ \E f \in FieldsOf("time") : IsShown(given, f)
<1>1. Letter("T") \in Tokens /\ TimeFrom(given, 4) \in Seq(Tokens)
  BY PiecesAre, FromIs
<1>2. CASE TimePart(given) = <<>>
  <2>1. tok = Letter("end")
    BY <1>2 DEF Looks, Ahead
  <2> QED BY <1>2, <2>1, TimeShown
<1>3. CASE TimePart(given) # <<>>
  <2>1. TimePart(given) = <<Letter("T")>> \o TimeFrom(given, 4)
    BY <1>3 DEF TimePart, Hour
  <2>2. tok = Letter("T")
    BY <1>1, <2>1, LooksAt
  <2> QED BY <1>3, <2>1, <2>2, TimeShown
<1> QED BY <1>2, <1>3

(* What it sees in a loop: a number, if a field of the part is left.       *)
LEMMA LooksField ==
  ASSUME given \in Durations, NEW p \in {"date", "time"},
         NEW k \in FieldsOf(p) \cup {BeyondOf(p)}, Looks(From(p, k))
  PROVE  \/ /\ NothingLeft(p, k) /\ Looks(From(p, BeyondOf(p)))
            /\ \/ tok = Letter("end")
               \/ p = "date" /\ tok = Letter("T")
         \/ \E field \in FieldsOf(p) :
              FieldLeft(p, k, field) /\ tok = Number(Amount(given, field))
<1>1. CASE NothingLeft(p, k)
  <2>1. Looks(From(p, BeyondOf(p)))
    BY <1>1 DEF NothingLeft
  <2>2. CASE p = "date"
    <3>1. From(p, BeyondOf(p)) = TimePart(given)
      BY <2>2, PartsAre, FromIs DEF From
    <3> QED BY <1>1, <2>1, <2>2, <3>1, LooksTime
  <2>3. CASE p = "time"
    <3>1. From(p, BeyondOf(p)) = <<>>
      BY <2>3, PartsAre, FromIs DEF From
    <3> QED BY <1>1, <2>1, <3>1 DEF Looks, Ahead
  <2> QED BY <2>2, <2>3
<1>2. ASSUME NEW field \in FieldsOf(p), FieldLeft(p, k, field)
      PROVE  tok = Number(Amount(given, field))
  <2>1. field \in Fields
    BY PartsAre
  <2>2. Number(Amount(given, field)) \in Tokens /\ AfterNumber(given, field) \in Seq(Tokens)
    BY <2>1, PiecesAre
  <2>3. AfterNumber(given, field) \o From(p, field + 1) \in Seq(Tokens)
    BY <2>2, FromField, SmallConcat
  <2> QED BY <1>2, <2>2, <2>3, LooksAt DEF FieldLeft
<1> QED BY <1>1, <1>2, LeftIs DEF Left

LEMMA KindsAre ==
  /\ Letter("end").kind = "end" /\ Letter("T").kind = "T" /\ Letter(".").kind = "."
  /\ Letter("S").kind = "S"
  /\ \A n \in Nat : Number(n).kind = "number" /\ Number(n).value = n
BY DEF Letter, Number

(* Fields that are not written are stored by not being.                    *)
LEMMA StoredFurther ==
  ASSUME NEW a \in Int, NEW b \in Int, a <= b, StoredUpto(a),
         \A f \in Fields : f > a /\ f <= b => ~IsShown(given, f)
  PROVE  StoredUpto(b)
<1>1. ASSUME NEW f \in Fields
      PROVE  (f <= a /\ IsShown(given, f)) <=> (f <= b /\ IsShown(given, f))
  BY FieldsAre
<1> QED BY <1>1 DEF StoredUpto

(* Where the loops begin and are.                                          *)
LEMMA PassedIs ==
  ASSUME IInv, pc # "done"
  PROVE  /\ part \in {"date", "time"} /\ last \in Int /\ last <= Passed /\ Passed \in 0..6
         /\ Passed + 1 \in FieldsOf(part) \cup {BeyondOf(part)}
         /\ part = "date" => Passed = last /\ last <= 3
         /\ part = "time" => Passed >= 3
<1>1. part \in {"date", "time"} /\ last \in 0..6 /\ (part = "date" => last <= 3)
  BY DEF IInv, TypeOK, PartBounds, Second, Day
<1>2. Passed = IF part = "time" /\ last < 4 THEN 3 ELSE last
  BY DEF Passed, Hour, Day
<1>3. CASE part = "date"
  BY <1>1, <1>2, <1>3, PartsAre DEF FieldsOf, Year, Day
<1>4. CASE part = "time"
  BY <1>1, <1>2, <1>4, PartsAre DEF FieldsOf, Hour, Second
<1> QED BY <1>1, <1>3, <1>4

LEMMA DateKeeps ==
  ASSUME IInv, WrittenInv, isWritten, BeginDate
  PROVE  WrittenInv'
<1>1. given \in Durations /\ pc = "part" /\ Reading
  BY Given DEF BeginDate
<1>2. /\ Looks(DateFrom(given, Year)) /\ (negative <=> IsNegative(given))
      /\ StoredUpto(0)
  BY <1>1 DEF Reading, AtString
<1>3. /\ pc' = "number" /\ given' = given /\ status' = status /\ fields' = fields
      /\ nanoseconds' = nanoseconds /\ negative' = negative
      /\ part' = "date" /\ last' = 0 /\ tok' = tok /\ rest' = rest
  BY DEF BeginDate, BeginLoop, Stay, string, out
<1>4. From("date", 1) = DateFrom(given, Year) /\ 1 \in FieldsOf("date")
  BY DEF From, Year, FieldsOf, Day
<1>5. tok.kind = "number"
  <2>1. tok.kind # "T"
    BY DEF BeginDate
  <2>2. ASSUME NothingLeft("date", 1), Looks(From("date", BeyondOf("date"))),
               tok = Letter("end")
        PROVE  FALSE
    <3>1. From("date", BeyondOf("date")) = TimePart(given)
      BY <1>1, PartsAre, FromIs DEF From
    <3>2. \A f \in FieldsOf("time") : ~IsShown(given, f)
      BY <1>1, <2>2, <3>1, LooksTime, KindsAre
    <3>3. \A f \in FieldsOf("date") : ~IsShown(given, f)
      BY <2>2 DEF NothingLeft, FieldsOf, Year, Day
    <3>4. Fields = FieldsOf("date") \cup FieldsOf("time")
      BY FieldsAre DEF FieldsOf, Year, Day, Hour, Second
    <3> QED BY <1>1, <3>2, <3>3, <3>4, SomeShown
  <2>3. \E field \in FieldsOf("date") : tok = Number(Amount(given, field))
    BY <1>1, <1>2, <1>4, <2>1, <2>2, LooksField, KindsAre
  <2> QED BY <1>1, <2>3, AmountNat, KindsAre, PartsAre
<1>6. Passed' = 0
  BY <1>3 DEF Passed
<1>7. From(part, Passed + 1)' = From("date", 1)
  BY <1>3, <1>6 DEF From
<1>8. Looks(From(part, Passed + 1))'
  BY <1>2, <1>3, <1>4, <1>7 DEF Looks
<1>9. StoredUpto(Passed)'
  BY <1>2, <1>3, <1>6 DEF StoredUpto
<1>10. AtString'
  BY <1>3, <1>5, <1>8, <1>9 DEF AtString
<1>11. Reading'
  BY <1>1, <1>2, <1>3, <1>10 DEF Reading
<1> QED BY <1>3, <1>11, OnReading

LEMMA TimeKeeps ==
  ASSUME IInv, WrittenInv, isWritten, BeginTime
  PROVE  WrittenInv'
<1>1. given \in Durations /\ pc \in {"part", "between"} /\ Reading /\ tok.kind = "T"
  BY Given DEF BeginTime
<1>2. negative <=> IsNegative(given)
  BY <1>1 DEF Reading
<1>3. Looks(TimePart(given)) /\ StoredUpto(3)
  <2>1. CASE pc = "part"
    <3>1. Looks(DateFrom(given, Year)) /\ StoredUpto(0)
      BY <2>1, <1>1 DEF Reading, AtString
    <3>2. From("date", 1) = DateFrom(given, Year) /\ 1 \in FieldsOf("date")
      BY DEF From, Year, FieldsOf, Day
    <3>3. ~ \E field \in FieldsOf("date") : tok = Number(Amount(given, field))
      BY <1>1, AmountNat, KindsAre, PartsAre
    <3>4. NothingLeft("date", 1) /\ Looks(From("date", BeyondOf("date")))
      BY <1>1, <3>1, <3>2, <3>3, LooksField
    <3>5. From("date", BeyondOf("date")) = TimePart(given)
      BY <1>1, PartsAre, FromIs DEF From
    <3>6. \A f \in Fields : f > 0 /\ f <= 3 => ~IsShown(given, f)
      BY <3>4, FieldsAre DEF NothingLeft, FieldsOf, Year, Day
    <3> QED BY <3>1, <3>4, <3>5, <3>6, StoredFurther
  <2>2. CASE pc = "between"
    BY <2>2, <1>1 DEF Reading, AtString, Day
  <2> QED BY <1>1, <2>1, <2>2
<1>4. /\ TimePart(given) = <<Letter("T")>> \o TimeFrom(given, 4)
      /\ \E f \in FieldsOf("time") : IsShown(given, f)
  BY <1>1, <1>3, LooksTime, KindsAre
<1>5. /\ pc' = "number" /\ given' = given /\ status' = status /\ fields' = fields
      /\ nanoseconds' = nanoseconds /\ negative' = negative
      /\ part' = "time" /\ last' = 0 /\ Advance(Letters \cup NumberTokens)
  BY DEF BeginTime, BeginLoop, string, out
<1>6. <<tok', rest'>> = Ahead(TimeFrom(given, 4))
  <2>1. Letter("T") \in Tokens /\ TimeFrom(given, 4) \in Seq(Tokens)
    BY <1>1, PiecesAre, FromIs
  <2> QED BY <1>3, <1>4, <1>5, <2>1, AdvancesPast
<1>7. tok'.kind = "number"
  <2>1. TimeFrom(given, 4) = From("time", 4) /\ 4 \in FieldsOf("time")
    BY DEF From, FieldsOf, Hour, Second
  <2>2. ~NothingLeft("time", 4)
    BY <1>4 DEF NothingLeft, FieldsOf, Hour, Second
  <2>3. PICK field \in FieldsOf("time") : FieldLeft("time", 4, field)
    BY <1>1, <2>1, <2>2, LeftIs DEF Left
  <2>4. field \in Fields
    BY PartsAre
  <2>5. /\ Number(Amount(given, field)) \in Tokens
        /\ AfterNumber(given, field) \o From("time", field + 1) \in Seq(Tokens)
    BY <1>1, <2>4, PiecesAre, FromField, SmallConcat
  <2>6. tok' = Number(Amount(given, field))
    <3> DEFINE left == AfterNumber(given, field) \o From("time", field + 1)
    <3>1. TimeFrom(given, 4) = <<Number(Amount(given, field))>> \o left
      BY <2>1, <2>3 DEF FieldLeft
    <3>2. left \in Seq(Tokens)
      BY <2>5
    <3> HIDE DEF left
    <3>3. Ahead(TimeFrom(given, 4)) = <<Number(Amount(given, field)), left>>
      BY <2>5, <3>1, <3>2, ConsIs
    <3> QED BY <1>6, <3>3
  <2> QED BY <1>1, <2>4, <2>6, AmountNat, KindsAre
<1>8. Passed' = 3
  BY <1>5 DEF Passed, Hour, Day
<1>9. From(part, Passed + 1)' = TimeFrom(given, 4)
  BY <1>5, <1>8 DEF From
<1>10. Looks(From(part, Passed + 1))'
  BY <1>6, <1>9 DEF Looks
<1>11. StoredUpto(Passed)'
  BY <1>3, <1>5, <1>8 DEF StoredUpto
<1>12. AtString'
  BY <1>5, <1>7, <1>10, <1>11 DEF AtString
<1>13. Reading'
  BY <1>1, <1>2, <1>5, <1>12 DEF Reading
<1> QED BY <1>5, <1>13, OnReading

LEMMA NoTimeKeeps ==
  ASSUME IInv, WrittenInv, isWritten, NoTime
  PROVE  WrittenInv'
<1>1. given \in Durations /\ pc = "between" /\ Reading /\ tok.kind # "T"
  BY Given DEF NoTime
<1>2. Looks(TimePart(given)) /\ StoredUpto(3) /\ (negative <=> IsNegative(given))
  BY <1>1 DEF Reading, AtString, Day
<1>3. \A f \in FieldsOf("time") : ~IsShown(given, f)
  BY <1>1, <1>2, LooksTime, KindsAre
<1>4. StoredUpto(Second)
  <2>1. \A f \in Fields : f > 3 /\ f <= Second => ~IsShown(given, f)
    BY <1>3, FieldsAre DEF FieldsOf, Hour, Second
  <2> QED BY <1>2, <2>1, StoredFurther DEF Second
<1>5. /\ pc' = "finish" /\ given' = given /\ status' = status /\ fields' = fields
      /\ nanoseconds' = nanoseconds /\ negative' = negative
  BY DEF NoTime, string, out
<1>6. AtString'
  BY <1>4, <1>5 DEF AtString, StoredUpto
<1>7. Reading'
  BY <1>1, <1>2, <1>5, <1>6 DEF Reading
<1> QED BY <1>5, <1>7, OnReading

LEMMA LoopKeeps ==
  ASSUME IInv, WrittenInv, isWritten, EndLoop
  PROVE  WrittenInv'
<1>1. given \in Durations /\ pc = "number" /\ Reading
  BY Given DEF EndLoop
<1>2. /\ Looks(From(part, Passed + 1)) /\ StoredUpto(Passed) /\ (negative <=> IsNegative(given))
      /\ ~begun => tok.kind = "number" /\ last = 0
  BY <1>1 DEF Reading, AtString
<1>3. /\ part \in {"date", "time"} /\ last \in Int /\ last <= Passed /\ Passed \in 0..6
      /\ Passed + 1 \in FieldsOf(part) \cup {BeyondOf(part)}
      /\ part = "date" => Passed = last /\ last <= 3
  BY <1>1, PassedIs
<1>4. tok.kind # "number"
  <2> SUFFICES ASSUME tok.kind = "number" PROVE FALSE
    OBVIOUS
  <2>1. EndOfLoop
    BY DEF EndLoop
  <2>2. PICK field \in FieldsOf(part) : FieldLeft(part, Passed + 1, field)
    BY <1>1, <1>2, <1>3, LooksField, KindsAre
  <2>3. field \in Int /\ field >= Passed + 1
    <3>1. field \in Fields
      BY <1>3, PartsAre
    <3> QED BY <2>2, <3>1, FieldsAre DEF FieldLeft
  <2>4. CASE part = "date"
    BY <1>3, <2>1, <2>3, <2>4 DEF EndOfLoop, Day, FieldsOf, Year
  <2>5. CASE part = "time"
    <3>1. last >= 6 /\ field <= 6
      BY <2>1, <2>5 DEF EndOfLoop, Second, FieldsOf, Hour
    <3> QED BY <1>3, <2>3, <3>1
  <2> QED BY <1>3, <2>4, <2>5
<1>5. NothingLeft(part, Passed + 1) /\ Looks(From(part, BeyondOf(part)))
  <2>1. ~ \E field \in FieldsOf(part) : tok = Number(Amount(given, field))
    BY <1>1, <1>3, <1>4, AmountNat, KindsAre, PartsAre
  <2> QED BY <1>1, <1>2, <1>3, <2>1, LooksField
<1>6. /\ pc' = AfterLoop /\ given' = given /\ status' = status /\ fields' = fields
      /\ nanoseconds' = nanoseconds /\ negative' = negative /\ tok' = tok /\ rest' = rest
  BY <1>2, <1>4 DEF EndLoop, Stay, string, out
<1>7. CASE part = "date"
  <2>1. pc' = "between"
    BY <1>6, <1>7 DEF AfterLoop
  <2>2. From(part, BeyondOf(part)) = TimePart(given)
    BY <1>1, <1>7, PartsAre, FromIs DEF From
  <2>3. StoredUpto(3)
    <3>1. \A f \in Fields : f > Passed /\ f <= 3 => ~IsShown(given, f)
      BY <1>3, <1>5, <1>7, FieldsAre DEF NothingLeft, FieldsOf, Year, Day
    <3> QED BY <1>2, <1>3, <1>7, <3>1, StoredFurther
  <2>4. Looks(TimePart(given))' /\ StoredUpto(Day)'
    BY <1>5, <1>6, <2>2, <2>3 DEF Looks, StoredUpto, Day
  <2>5. AtString'
    BY <2>1, <2>4 DEF AtString
  <2>6. Reading'
    BY <1>1, <1>2, <1>6, <2>1, <2>5 DEF Reading
  <2> QED BY <2>1, <2>6, OnReading
<1>8. CASE part = "time"
  <2>1. pc' = "finish"
    BY <1>6, <1>8 DEF AfterLoop
  <2>2. StoredUpto(6)
    <3>1. Passed >= 3
      BY <1>1, <1>8, PassedIs
    <3>2. \A f \in Fields : f > Passed /\ f <= 6 => ~IsShown(given, f)
      BY <1>3, <1>5, <1>8, <3>1, FieldsAre DEF NothingLeft, FieldsOf, Hour, Second
    <3> QED BY <1>2, <1>3, <3>2, StoredFurther
  <2>3. StoredUpto(Second)'
    BY <1>6, <2>2 DEF StoredUpto, Second
  <2>4. AtString'
    BY <2>1, <2>3 DEF AtString
  <2>5. Reading'
    BY <1>1, <1>2, <1>6, <2>1, <2>4 DEF Reading
  <2> QED BY <2>1, <2>5, OnReading
<1> QED BY <1>3, <1>7, <1>8

LEMMA NumberKeeps ==
  ASSUME IInv, WrittenInv, isWritten, ReadNumber
  PROVE  WrittenInv'
<1>1. given \in Durations /\ pc = "number" /\ Reading /\ tok.kind = "number"
  BY Given DEF ReadNumber
<1>2. Looks(From(part, Passed + 1)) /\ StoredUpto(Passed) /\ (negative <=> IsNegative(given))
  BY <1>1 DEF Reading, AtString
<1>3. /\ part \in {"date", "time"} /\ Passed \in 0..6
      /\ Passed + 1 \in FieldsOf(part) \cup {BeyondOf(part)}
      /\ part = "time" => Passed >= 3
  BY <1>1, PassedIs
<1>4. PICK field \in FieldsOf(part) :
        FieldLeft(part, Passed + 1, field) /\ tok = Number(Amount(given, field))
  BY <1>1, <1>2, <1>3, LooksField, KindsAre
<1>5. field \in Fields
  BY <1>3, PartsAre
<1> DEFINE left == AfterNumber(given, field) \o From(part, field + 1)
<1>6. Number(Amount(given, field)) \in Tokens /\ left \in Seq(Tokens)
  <2>1. AfterNumber(given, field) \in Seq(Tokens) /\ Number(Amount(given, field)) \in Tokens
    BY <1>1, <1>5, PiecesAre
  <2> QED BY <1>1, <1>3, <2>1, FromField, SmallConcat
<1>7. /\ pc' = "tag" /\ given' = given /\ status' = status /\ fields' = fields
      /\ nanoseconds' = nanoseconds /\ negative' = negative /\ part' = part /\ last' = last
      /\ begun' = TRUE /\ number' = tok.value /\ Advance(Letters)
  BY DEF ReadNumber, string, out
<1>8. <<tok', rest'>> = Ahead(left)
  <2>1. Looks(<<Number(Amount(given, field))>> \o left)
    BY <1>2, <1>4 DEF FieldLeft
  <2> HIDE DEF left
  <2> QED BY <1>6, <1>7, <2>1, AdvancesPast
<1>9. Passed' = Passed
  BY <1>7 DEF Passed
<1>10. IsNext(field)
  <2>1. field > Passed /\ IsShown(given, field)
    BY <1>3, <1>4, <1>5, FieldsAre DEF FieldLeft
  <2>2. \A f \in Fields : f > Passed /\ f < field => f \in FieldsOf(part) /\ f >= Passed + 1
    <3>1. CASE part = "date"
      BY <1>3, <3>1, FieldsAre DEF FieldsOf, Year, Day
    <3>2. CASE part = "time"
      BY <1>3, <3>2, FieldsAre DEF FieldsOf, Hour, Second
    <3> QED BY <1>3, <3>1, <3>2
  <2> QED BY <1>4, <2>1, <2>2 DEF IsNext, FieldLeft
<1>11. number' = Amount(given, field)
  BY <1>1, <1>4, <1>5, <1>7, AmountNat, KindsAre
<1>12. AtField(field)'
  <2>1. IsNext(field)' /\ StoredUpto(Passed)'
    BY <1>2, <1>7, <1>9, <1>10 DEF IsNext, StoredUpto
  <2>2. Looks(AfterNumber(given, field) \o From(part, field + 1))'
    BY <1>7, <1>8 DEF Looks, From
  <2> QED BY <1>7, <1>11, <2>1, <2>2 DEF AtField
<1>13. AtString'
  BY <1>5, <1>7, <1>12 DEF AtString
<1>14. Reading'
  BY <1>1, <1>2, <1>7, <1>13 DEF Reading
<1> QED BY <1>7, <1>14, OnReading

-----------------------------------------------------------------------------
(* The tags.                                                               *)

(* The field whose tag is read is the next one that is written.            *)
LEMMA TagIs ==
  ASSUME NEW field \in FieldsOf(part), part \in {"date", "time"}
  PROVE  FieldOfTag(TagOf(field).kind) = field
<1>1. /\ Letter("Y").kind = "Y" /\ Letter("M").kind = "M" /\ Letter("D").kind = "D"
      /\ Letter("H").kind = "H" /\ Letter("S").kind = "S"
  BY DEF Letter
<1>2. CASE part = "date"
  <2>1. field \in {1, 2, 3}
    BY <1>2 DEF FieldsOf, Year, Day
  <2> QED BY <1>1, <1>2, <2>1, Tags DEF FieldOfTag, Year, Month, Day
<1>3. CASE part = "time"
  <2>1. field \in {4, 5, 6}
    BY <1>3 DEF FieldsOf, Hour, Second
  <2> QED BY <1>1, <1>3, <2>1, Tags DEF FieldOfTag, Hour, Minute, Second
<1> QED BY <1>2, <1>3

(* What the reader sees behind a number: the tag of the field, or the      *)
(* point of the seconds.                                                   *)
LEMMA LooksTag ==
  ASSUME IInv, given \in Durations, pc = "tag", NEW field \in Fields, AtField(field)
  PROVE  /\ field \in FieldsOf(part) /\ part \in {"date", "time"}
         /\ From(part, field + 1) \in Seq(Tokens)
         /\ \/ /\ field = Second /\ given.nanoseconds # 0 /\ part = "time"
               /\ tok = Letter(".") /\ Looks(<<Letter(".")>> \o FractionOf(given))
               /\ FieldOfTag(tok.kind) = 0
            \/ /\ ~(field = Second /\ given.nanoseconds # 0)
               /\ tok = TagOf(field) /\ Looks(<<TagOf(field)>> \o From(part, field + 1))
               /\ FieldOfTag(tok.kind) = field
<1>1. /\ field \in FieldsOf(part) /\ Looks(AfterNumber(given, field) \o From(part, field + 1))
      /\ part \in {"date", "time"}
  BY DEF AtField, IsNext, IInv, TypeOK
<1>2. From(part, field + 1) \in Seq(Tokens)
  BY <1>1, FromField
<1>3. CASE field = Second /\ given.nanoseconds # 0
  <2>1. part = "time"
    BY <1>1, <1>3 DEF FieldsOf, Year, Day, Second
  <2>2. From(part, field + 1) = <<>>
    BY <1>3, <2>1, FromIs DEF From, Second
  <2>3. AfterNumber(given, field) = <<Letter(".")>> \o FractionOf(given)
    BY <1>3 DEF AfterNumber
  <2>4. AfterNumber(given, field) \in Seq(Tokens)
    BY PiecesAre
  <2>5. AfterNumber(given, field) \o From(part, field + 1) = AfterNumber(given, field)
    BY <2>2, <2>4, ConcatEmptySeq
  <2>6. Looks(<<Letter(".")>> \o FractionOf(given))
    BY <1>1, <2>3, <2>5
  <2>7. tok = Letter(".")
    BY <2>6, PiecesAre, LooksAt
  <2>8. FieldOfTag(tok.kind) = 0
    BY <2>7, KindsAre DEF FieldOfTag
  <2> QED BY <1>1, <1>2, <1>3, <2>1, <2>6, <2>7, <2>8
<1>4. CASE ~(field = Second /\ given.nanoseconds # 0)
  <2>1. Looks(<<TagOf(field)>> \o From(part, field + 1))
    BY <1>1, <1>4 DEF AfterNumber
  <2>2. tok = TagOf(field)
    BY <1>2, <2>1, Tags, LooksAt
  <2> QED BY <1>1, <1>2, <1>4, <2>1, <2>2, TagIs
<1> QED BY <1>3, <1>4

LEMMA PointKeeps ==
  ASSUME IInv, WrittenInv, isWritten, ReadPoint
  PROVE  WrittenInv'
<1>1. given \in Durations /\ pc = "tag" /\ Reading /\ tok.kind = "."
  BY Given DEF ReadPoint
<1>2. PICK field \in Fields : AtField(field)
  BY <1>1 DEF Reading, AtString
<1>3. /\ field = Second /\ given.nanoseconds # 0
      /\ Looks(<<Letter(".")>> \o FractionOf(given))
  <2>1. \A f \in Fields : TagOf(f).kind # "."
    BY Tags, FieldsAre DEF Letter
  <2> QED BY <1>1, <1>2, <2>1, LooksTag
<1>4. /\ pc' = "fraction" /\ given' = given /\ status' = status /\ fields' = fields
      /\ nanoseconds' = nanoseconds /\ negative' = negative /\ part' = part /\ last' = last
      /\ begun' = begun /\ number' = number /\ Advance(Letters \cup FractionTokens)
  BY DEF ReadPoint, string, out
<1>5. <<tok', rest'>> = Ahead(FractionOf(given))
  BY <1>1, <1>3, <1>4, PiecesAre, AdvancesPast
<1>6. AtField(field)'
  <2>1. (IsNext(field) /\ number = Amount(given, field) /\ StoredUpto(Passed))'
    BY <1>2, <1>4 DEF AtField, IsNext, StoredUpto, Passed
  <2>2. Looks(FractionOf(given))'
    BY <1>4, <1>5 DEF Looks
  <2> QED BY <1>2, <1>3, <1>4, <2>1, <2>2 DEF AtField
<1>7. AtString'
  BY <1>4, <1>6 DEF AtString
<1>8. Reading'
  BY <1>1, <1>4, <1>7 DEF Reading
<1> QED BY <1>4, <1>8, OnReading

LEMMA FractionKeeps ==
  ASSUME IInv, WrittenInv, isWritten, ReadFraction
  PROVE  WrittenInv'
<1>1. given \in Durations /\ pc = "fraction" /\ Reading
  BY Given DEF ReadFraction
<1>2. PICK field \in Fields : AtField(field)
  BY <1>1 DEF Reading, AtString
<1>3. /\ field = Second /\ given.nanoseconds # 0 /\ Looks(FractionOf(given))
  BY <1>1, <1>2 DEF AtField
<1>4. /\ pc' = "second" /\ given' = given /\ status' = status /\ fields' = fields
      /\ nanoseconds' = nanoseconds /\ negative' = negative /\ part' = part /\ last' = last
      /\ begun' = begun /\ number' = number /\ Advance(Letters) /\ fraction' = tok.value
  BY DEF ReadFraction, string, out
<1> DEFINE f == Fraction(Abs(given.nanoseconds))
<1>5. f \in Tokens /\ <<TagOf(Second)>> \in Seq(Tokens) /\ TagOf(Second) \in Tokens
  BY <1>1, PiecesAre, Tags, FieldsAre DEF Second
<1>6. FractionOf(given) = <<f>> \o <<TagOf(Second)>>
  BY <1>5, Tuples DEF FractionOf
<1>7. tok = f /\ <<tok', rest'>> = Ahead(<<TagOf(Second)>>)
  <2> HIDE DEF f
  <2> QED BY <1>3, <1>4, <1>5, <1>6, AdvancesPast
<1>8. fraction' = Abs(given.nanoseconds)
  BY <1>4, <1>7 DEF Fraction
<1>9. AtField(field)'
  <2>1. (IsNext(field) /\ number = Amount(given, field) /\ StoredUpto(Passed))'
    BY <1>2, <1>4 DEF AtField, IsNext, StoredUpto, Passed
  <2>2. Looks(<<TagOf(Second)>>)'
    BY <1>4, <1>7 DEF Looks
  <2> QED BY <1>2, <1>3, <1>4, <1>8, <2>1, <2>2 DEF AtField
<1>10. AtString'
  BY <1>4, <1>9 DEF AtString
<1>11. Reading'
  BY <1>1, <1>4, <1>10 DEF Reading
<1> QED BY <1>4, <1>11, OnReading

(* No error of the syntax is found in a written string.                    *)
LEMMA NoError ==
  ASSUME IInv, WrittenInv, isWritten
  PROVE  ~(ReadHugeNumber \/ BadTag \/ BadFraction \/ NoSecondTag)
<1>1. ASSUME ReadHugeNumber PROVE FALSE
  <2>1. given \in Durations /\ pc = "number" /\ Reading /\ tok.kind = "huge"
    BY <1>1, Given DEF ReadHugeNumber
  <2>2. Looks(From(part, Passed + 1))
    BY <2>1 DEF Reading, AtString
  <2>3. part \in {"date", "time"} /\ Passed + 1 \in FieldsOf(part) \cup {BeyondOf(part)}
    BY <2>1, PassedIs
  <2>4. ~ \E field \in FieldsOf(part) : tok = Number(Amount(given, field))
    BY <2>1, <2>3, AmountNat, KindsAre, PartsAre
  <2> QED BY <2>1, <2>2, <2>3, <2>4, LooksField, KindsAre
<1>2. ASSUME BadTag PROVE FALSE
  <2>1. given \in Durations /\ pc = "tag" /\ Reading
    BY <1>2, Given DEF BadTag
  <2>2. PICK field \in Fields : AtField(field)
    BY <2>1 DEF Reading, AtString
  <2>3. field # 0
    BY FieldsAre
  <2> QED BY <1>2, <2>1, <2>2, <2>3, LooksTag, KindsAre DEF BadTag
<1>3. ASSUME BadFraction PROVE FALSE
  <2>1. given \in Durations /\ pc = "fraction" /\ Reading /\ tok.kind # "fraction"
    BY <1>3, Given DEF BadFraction
  <2>2. Looks(FractionOf(given))
    BY <2>1 DEF Reading, AtString, AtField
  <2> DEFINE f == Fraction(Abs(given.nanoseconds))
  <2>3. f \in Tokens /\ <<TagOf(Second)>> \in Seq(Tokens) /\ TagOf(Second) \in Tokens
    BY <2>1, PiecesAre, Tags, FieldsAre DEF Second
  <2>4. FractionOf(given) = <<f>> \o <<TagOf(Second)>>
    BY <2>3, Tuples DEF FractionOf
  <2>5. f.kind = "fraction"
    BY DEF Fraction
  <2> HIDE DEF f
  <2>6. tok = f
    BY <2>2, <2>3, <2>4, LooksAt
  <2> QED BY <2>1, <2>5, <2>6
<1>4. ASSUME NoSecondTag PROVE FALSE
  <2>1. given \in Durations /\ pc = "second" /\ Reading /\ tok.kind # "S"
    BY <1>4, Given DEF NoSecondTag
  <2>2. Looks(<<TagOf(Second)>>)
    BY <2>1 DEF Reading, AtString, AtField
  <2>3. tok = TagOf(Second)
    BY <2>2 DEF Looks, Ahead
  <2> QED BY <2>1, <2>3, Tags, KindsAre DEF Second
<1> QED BY <1>1, <1>2, <1>3, <1>4

(* What is stored when the fields up to one are.                           *)
LEMMA StoredValues ==
  ASSUME given \in Durations, NEW k \in Int, StoredUpto(k)
  PROVE  \A f \in Fields : ValueOf(f) = IF f <= k THEN Amount(given, f) ELSE 0
<1> TAKE f \in Fields
<1>1. Amount(given, f) \in Nat /\ (~IsShown(given, f) => Amount(given, f) = 0)
  BY AmountNat DEF IsShown
<1>2. fields[f] = IF f <= k /\ IsShown(given, f) THEN Amount(given, f) ELSE Absent
  BY DEF StoredUpto
<1> QED BY <1>1, <1>2 DEF ValueOf, Absent

(* The sum never exceeds the member that is written.                       *)
LEMMA SumBound ==
  ASSUME IInv, given \in Durations, pc # "done", NEW field \in Fields, AtField(field)
  PROVE  /\ Target(field) \in Nat /\ number \in Nat
         /\ Target(field) + Factor(field) * number
              <= IF field < Day THEN Abs(given.months) ELSE Abs(given.seconds)
<1>1. /\ number = Amount(given, field) /\ StoredUpto(Passed) /\ field > Passed
      /\ Passed \in Int /\ field \in Int
      /\ \A f \in Fields : f > Passed /\ f < field => ~IsShown(given, f)
  BY PassedIs, FieldsAre DEF AtField, IsNext
<1>2. months = MonthsRead /\ seconds = SecondsRead
  BY DEF IInv, SumsRead
<1>3. \A f \in Fields : Amount(given, f) \in Nat
  BY AmountNat
<1>4. \A f \in Fields : ValueOf(f) \in Nat /\ ValueOf(f) <= Amount(given, f)
  BY <1>1, <1>3, StoredValues
<1>5. ValueOf(field) = 0
  BY <1>1, StoredValues
<1>6. /\ 12 * Amount(given, 1) + Amount(given, 2) = Abs(given.months)
      /\ 86400 * Amount(given, 3) + 3600 * Amount(given, 4) + 60 * Amount(given, 5)
           + Amount(given, 6) = Abs(given.seconds)
  BY AmountsAdd
<1>7. /\ ValueOf(1) \in Nat /\ ValueOf(1) <= Amount(given, 1) /\ Amount(given, 1) \in Nat
      /\ ValueOf(2) \in Nat /\ ValueOf(2) <= Amount(given, 2) /\ Amount(given, 2) \in Nat
      /\ ValueOf(3) \in Nat /\ ValueOf(3) <= Amount(given, 3) /\ Amount(given, 3) \in Nat
      /\ ValueOf(4) \in Nat /\ ValueOf(4) <= Amount(given, 4) /\ Amount(given, 4) \in Nat
      /\ ValueOf(5) \in Nat /\ ValueOf(5) <= Amount(given, 5) /\ Amount(given, 5) \in Nat
      /\ ValueOf(6) \in Nat /\ ValueOf(6) <= Amount(given, 6) /\ Amount(given, 6) \in Nat
  BY <1>3, <1>4, FieldsAre
<1>8. /\ months = 12 * ValueOf(1) + ValueOf(2)
      /\ seconds = 86400 * ValueOf(3) + 3600 * ValueOf(4) + 60 * ValueOf(5) + ValueOf(6)
  BY <1>2 DEF MonthsRead, SecondsRead, Year, Month, Day, Hour, Minute, Second
<1>9. field \in {1, 2, 3, 4, 5, 6}
  BY FieldsAre
<1>10. CASE field = 1
  BY <1>1, <1>5, <1>6, <1>7, <1>8, <1>10 DEF Target, Factor, Day
<1>11. CASE field = 2
  BY <1>1, <1>5, <1>6, <1>7, <1>8, <1>11 DEF Target, Factor, Day
<1>12. CASE field = 3
  BY <1>1, <1>5, <1>6, <1>7, <1>8, <1>12 DEF Target, Factor, Day
<1>13. CASE field = 4
  BY <1>1, <1>5, <1>6, <1>7, <1>8, <1>13 DEF Target, Factor, Day
<1>14. CASE field = 5
  BY <1>1, <1>5, <1>6, <1>7, <1>8, <1>14 DEF Target, Factor, Day
<1>15. CASE field = 6
  BY <1>1, <1>5, <1>6, <1>7, <1>8, <1>15 DEF Target, Factor, Day
<1> QED BY <1>9, <1>10, <1>11, <1>12, <1>13, <1>14, <1>15

(* A field is refused only where its member is INT32_MAX.                  *)
LEMMA RefusedAtMax ==
  ASSUME IInv, given \in Durations, WriteStatus(given) = "SUCCESS", pc # "done",
         NEW field \in Fields, AtField(field), SetStatus(field) # "SUCCESS"
  PROVE  /\ SetStatus(field) = "OUT_OF_RANGE"
         /\ Abs(given.months) = IntMax \/ Abs(given.seconds) = IntMax
<1>1. InOrder(field)
  BY PassedIs, FieldsAre DEF AtField, IsNext, InOrder
<1>2. /\ SetStatus(field) = "OUT_OF_RANGE"
      /\ number >= IntMax \/ ~Fits(Target(field), Factor(field))
  BY <1>1 DEF SetStatus
<1>3. IntMax \in Nat
  BY IntMaxAssumption
<1> DEFINE sum == Target(field) + Factor(field) * number
<1>4. Target(field) \in Nat /\ number \in Nat
  BY SumBound
<1>5. sum >= IntMax
  <2> DEFINE t == Target(field)
  <2>1. t \in Nat
    BY <1>4
  <2>2. Factor(field) \in {12, 1, 86400, 3600, 60}
    BY FieldsAre DEF Factor
  <2>3. number >= IntMax \/ ~(number <= (IntMax - 1 - t) \div Factor(field))
    BY <1>2 DEF Fits
  <2> HIDE DEF t
  <2>4. t + Factor(field) * number >= IntMax
    <3>1. CASE Factor(field) = 12
      BY <1>3, <1>4, <2>1, <2>3, <3>1
    <3>2. CASE Factor(field) = 1
      BY <1>3, <1>4, <2>1, <2>3, <3>2
    <3>3. CASE Factor(field) = 86400
      BY <1>3, <1>4, <2>1, <2>3, <3>3
    <3>4. CASE Factor(field) = 3600
      BY <1>3, <1>4, <2>1, <2>3, <3>4
    <3>5. CASE Factor(field) = 60
      BY <1>3, <1>4, <2>1, <2>3, <3>5
    <3> QED BY <2>2, <3>1, <3>2, <3>3, <3>4, <3>5
  <2> QED BY <2>4 DEF t
<1>6. Abs(given.months) <= IntMax /\ Abs(given.seconds) <= IntMax
  <2>1. /\ given.months \in (-IntMax - 1)..IntMax /\ given.seconds \in (-IntMax - 1)..IntMax
    BY DurationsAssumption
  <2>2. given.months # -IntMax - 1 /\ given.seconds # -IntMax - 1
    BY DEF WriteStatus
  <2> QED BY <1>3, <2>1, <2>2 DEF Abs
<1>7. /\ Abs(given.months) \in Nat /\ Abs(given.seconds) \in Nat
  BY MembersAre
<1>8. /\ sum <= IF field < Day THEN Abs(given.months) ELSE Abs(given.seconds)
      /\ sum \in Int
  <2>1. Factor(field) \in Nat
    BY FieldsAre DEF Factor
  <2> QED BY <1>4, <2>1, SumBound
<1> HIDE DEF sum
<1> QED BY <1>2, <1>3, <1>5, <1>6, <1>7, <1>8

LEMMA StoreKeeps ==
  ASSUME IInv, WrittenInv, isWritten, pc \in {"tag", "second"},
         NEW field \in Fields, AtField(field), Stores(field),
         SetStatus(field) = "SUCCESS" => <<tok', rest'>> = Ahead(From(part, field + 1)),
         nanoseconds' = IF field = Second THEN Abs(given.nanoseconds) ELSE nanoseconds
  PROVE  WrittenInv'
<1>1. /\ given \in Durations /\ Reading /\ (negative <=> IsNegative(given))
      /\ status = "SUCCESS" /\ WriteStatus(given) = "SUCCESS"
  BY Given DEF Reading
<1>2. /\ given' = given /\ isWritten' = isWritten /\ part' = part /\ begun' = begun
      /\ negative' = negative
  BY DEF Stores, string
<1>3. CASE SetStatus(field) # "SUCCESS"
  <2>1. /\ SetStatus(field) = "OUT_OF_RANGE"
        /\ Abs(given.months) = IntMax \/ Abs(given.seconds) = IntMax
    BY <1>1, <1>3, RefusedAtMax
  <2>2. pc' = "done" /\ status' = "OUT_OF_RANGE"
    BY <1>3, <2>1 DEF Stores, SetField, Fail
  <2> QED BY <1>2, <2>1, <2>2 DEF WrittenInv, RoundTrip
<1>4. CASE SetStatus(field) = "SUCCESS"
  <2>1. /\ pc' = "number" /\ last' = field /\ status' = status
        /\ fields' = [fields EXCEPT ![field] = number]
    BY <1>4 DEF Stores, SetField
  <2>2. /\ begun /\ IsNext(field) /\ number = Amount(given, field) /\ StoredUpto(Passed)
        /\ field \in FieldsOf(part)
    BY DEF AtField, IsNext
  <2>3. Passed' = field
    <3>1. part = "time" => ~(field < Hour)
      BY <2>2, FieldsAre DEF FieldsOf, Hour, Second
    <3> QED BY <1>2, <2>1, <3>1 DEF Passed
  <2>4. StoredUpto(Passed)'
    <3>1. fields \in [Fields -> Nat \cup {Absent}]
      BY DEF IInv, TypeOK
    <3>2. Passed \in Int /\ field > Passed /\ Fields \subseteq Int
      BY <2>2, PassedIs, FieldsAre DEF IsNext
    <3>3. ASSUME NEW f \in Fields
          PROVE  fields'[f] = IF f <= field /\ IsShown(given, f) THEN Amount(given, f) ELSE Absent
      <4>1. CASE f = field
        BY <2>1, <2>2, <3>1, <3>2, <4>1 DEF IsNext
      <4>2. CASE f # field
        <5>1. fields'[f] = fields[f]
          BY <2>1, <3>1, <4>2
        <5>2. fields[f] = IF f <= Passed /\ IsShown(given, f) THEN Amount(given, f) ELSE Absent
          BY <2>2 DEF StoredUpto
        <5>3. IsShown(given, f) => (f <= Passed <=> f <= field)
          BY <2>2, <3>2, <4>2 DEF IsNext
        <5> QED BY <5>1, <5>2, <5>3
      <4> QED BY <4>1, <4>2
    <3> QED BY <1>2, <2>3, <3>3 DEF StoredUpto
  <2>5. Looks(From(part, Passed + 1))'
    <3>1. From(part, Passed + 1)' = From(part, field + 1)
      BY <1>2, <2>3 DEF From
    <3> QED BY <1>4, <3>1 DEF Looks
  <2>6. nanoseconds' = IF fields'[Second] # Absent THEN Abs(given.nanoseconds) ELSE 0
    <3>1. /\ nanoseconds = IF fields[Second] # Absent THEN Abs(given.nanoseconds) ELSE 0
          /\ fields \in [Fields -> Nat \cup {Absent}] /\ number \in Nat /\ Second \in Fields
      BY <1>1, FieldsAre DEF Reading, IInv, TypeOK, Second
    <3>2. CASE field = Second
      <4>1. fields'[Second] = number /\ number # Absent
        BY <2>1, <3>1, <3>2 DEF Absent
      <4> QED BY <3>2, <4>1
    <3>3. CASE field # Second
      BY <2>1, <3>1, <3>3
    <3> QED BY <3>2, <3>3
  <2>7. AtString'
    BY <1>2, <2>1, <2>2, <2>4, <2>5 DEF AtString
  <2>8. Reading'
    BY <1>1, <1>2, <2>1, <2>6, <2>7 DEF Reading
  <2> QED BY <2>1, <2>8, OnReading
<1> QED BY <1>3, <1>4

LEMMA TagKeeps ==
  ASSUME IInv, WrittenInv, isWritten, ReadTag
  PROVE  WrittenInv'
<1>1. given \in Durations /\ pc = "tag" /\ Reading /\ FieldOfTag(tok.kind) # 0
  BY Given DEF ReadTag
<1>2. PICK field \in Fields : AtField(field)
  BY <1>1 DEF Reading, AtString
<1>3. /\ field \in FieldsOf(part) /\ part \in {"date", "time"}
      /\ From(part, field + 1) \in Seq(Tokens) /\ TagOf(field) \in Tokens
      /\ ~(field = Second /\ given.nanoseconds # 0)
      /\ Looks(<<TagOf(field)>> \o From(part, field + 1)) /\ FieldOfTag(tok.kind) = field
  BY <1>1, <1>2, LooksTag, Tags
<1>4. Stores(field) /\ nanoseconds' = nanoseconds
  BY <1>1, <1>3 DEF ReadTag, Stores, FieldsOf
<1>5. SetStatus(field) = "SUCCESS" => <<tok', rest'>> = Ahead(From(part, field + 1))
  <2> SUFFICES ASSUME SetStatus(field) = "SUCCESS"
               PROVE  <<tok', rest'>> = Ahead(From(part, field + 1))
    OBVIOUS
  <2>1. Advance(Letters \cup NumberTokens)
    BY <1>4 DEF Stores, SetField
  <2> QED BY <1>3, <2>1, AdvancesPast
<1>6. field = Second => nanoseconds = Abs(given.nanoseconds)
  <2> SUFFICES ASSUME field = Second PROVE nanoseconds = Abs(given.nanoseconds)
    OBVIOUS
  <2>1. given.nanoseconds = 0
    BY <1>3
  <2>2. nanoseconds = IF fields[Second] # Absent THEN Abs(given.nanoseconds) ELSE 0
    BY <1>1 DEF Reading
  <2> QED BY <2>1, <2>2 DEF Abs
<1> QED BY <1>1, <1>2, <1>4, <1>5, <1>6, StoreKeeps

LEMMA SecondKeeps ==
  ASSUME IInv, WrittenInv, isWritten, ReadSecondTag
  PROVE  WrittenInv'
<1>1. given \in Durations /\ pc = "second" /\ Reading
  BY Given DEF ReadSecondTag
<1>2. PICK field \in Fields : AtField(field)
  BY <1>1 DEF Reading, AtString
<1>3. /\ field = Second /\ Looks(<<TagOf(Second)>>) /\ fraction = Abs(given.nanoseconds)
      /\ field \in FieldsOf(part)
  BY <1>1, <1>2 DEF AtField, IsNext
<1>4. part = "time"
  BY <1>3 DEF FieldsOf, Year, Day, Second, IInv, TypeOK
<1>5. Stores(field) /\ nanoseconds' = fraction
  <2>1. Second \in Hour..Second
    BY DEF Hour, Second
  <2> QED BY <1>1, <1>3, <1>4, <2>1 DEF ReadSecondTag, Stores
<1>6. SetStatus(field) = "SUCCESS" => <<tok', rest'>> = Ahead(From(part, field + 1))
  <2> SUFFICES ASSUME SetStatus(field) = "SUCCESS"
               PROVE  <<tok', rest'>> = Ahead(From(part, field + 1))
    OBVIOUS
  <2>1. Advance(Letters \cup NumberTokens)
    BY <1>5 DEF Stores, SetField
  <2>2. From(part, field + 1) = <<>>
    BY <1>1, <1>3, <1>4, FromIs DEF From, Second
  <2>3. TagOf(Second) \in Tokens /\ <<>> \in Seq(Tokens)
    BY Tags, FieldsAre DEF Second
  <2>4. Looks(<<TagOf(Second)>> \o <<>>)
    <3>1. <<TagOf(Second)>> \in Seq(Tokens)
      BY <2>3
    <3>2. <<TagOf(Second)>> \o <<>> = <<TagOf(Second)>>
      BY <3>1, ConcatEmptySeq
    <3> QED BY <1>3, <3>2
  <2> QED BY <2>1, <2>2, <2>3, <2>4, AdvancesPast
<1> QED BY <1>1, <1>2, <1>3, <1>5, <1>6, StoreKeeps

LEMMA FinishKeeps ==
  ASSUME IInv, WrittenInv, isWritten, Finish
  PROVE  WrittenInv'
<1>1. /\ given \in Durations /\ pc = "finish" /\ Reading
      /\ months \in Int /\ seconds \in Int /\ months < IntMax /\ seconds < IntMax
      /\ months = MonthsRead /\ seconds = SecondsRead
  <2>1. given \in Durations /\ pc = "finish" /\ Reading
    BY Given DEF Finish
  <2>2. months \in (1 - IntMax)..(IntMax - 1) /\ seconds \in (1 - IntMax)..(IntMax - 1)
    BY DEF IInv, TypeOK
  <2>3. months \in Int /\ seconds \in Int /\ months < IntMax /\ seconds < IntMax
    BY <2>2, IntMaxAssumption
  <2>4. months = MonthsRead /\ seconds = SecondsRead
    BY <2>1 DEF IInv, SumsRead
  <2> QED BY <2>1, <2>3, <2>4
<1>2. /\ StoredUpto(6) /\ (negative <=> IsNegative(given)) /\ status = "SUCCESS"
      /\ WriteStatus(given) = "SUCCESS"
      /\ nanoseconds = IF fields[6] # Absent THEN Abs(given.nanoseconds) ELSE 0
  BY <1>1 DEF Reading, AtString, Second
<1>3. \A f \in Fields : ValueOf(f) = Amount(given, f)
  <2>1. \A f \in Fields : f <= 6
    BY FieldsAre
  <2> QED BY <1>1, <1>2, <2>1, StoredValues
<1>4. months = Abs(given.months) /\ seconds = Abs(given.seconds)
  <2>1. /\ ValueOf(1) = Amount(given, 1) /\ ValueOf(2) = Amount(given, 2)
        /\ ValueOf(3) = Amount(given, 3) /\ ValueOf(4) = Amount(given, 4)
        /\ ValueOf(5) = Amount(given, 5) /\ ValueOf(6) = Amount(given, 6)
    BY <1>3, FieldsAre
  <2> QED BY <1>1, <2>1, AmountsAdd DEF MonthsRead, SecondsRead, Year, Month, Day, Hour, Minute, Second
<1>5. nanoseconds = Abs(given.nanoseconds)
  <2>1. CASE given.nanoseconds = 0
    BY <1>2, <2>1 DEF Abs
  <2>2. CASE given.nanoseconds # 0
    <3>1. 6 \in Fields /\ IsShown(given, 6)
      BY <2>2, FieldsAre DEF IsShown, Second
    <3>2. fields[6] = Amount(given, 6) /\ Amount(given, 6) \in Nat
      BY <1>1, <1>2, <3>1, AmountNat DEF StoredUpto
    <3> QED BY <1>2, <3>2 DEF Absent
  <2> QED BY <2>1, <2>2
<1>6. /\ given' = given /\ isWritten' = isWritten /\ status' = status /\ pc' = "done"
      /\ months' = (IF negative THEN -months ELSE months)
      /\ seconds' = (IF negative THEN -seconds ELSE seconds)
      /\ nanoseconds' = (IF negative THEN -nanoseconds ELSE nanoseconds)
  BY DEF Finish, string
<1>7. /\ given.months \in Int /\ given.seconds \in Int /\ given.nanoseconds \in Int
  BY <1>1, MembersAre
<1>8. ~(IsNegative(given) /\ IsPositive(given))
  BY <1>2 DEF WriteStatus
<1>9. /\ months' = given.months /\ seconds' = given.seconds /\ nanoseconds' = given.nanoseconds
  <2>1. CASE IsNegative(given)
    BY <1>2, <1>4, <1>5, <1>6, <1>7, <1>8, <2>1 DEF IsNegative, IsPositive, Abs
  <2>2. CASE ~IsNegative(given)
    BY <1>2, <1>4, <1>5, <1>6, <1>7, <2>2 DEF IsNegative, Abs
  <2> QED BY <2>1, <2>2
<1>10. Abs(given.months) # IntMax /\ Abs(given.seconds) # IntMax
  BY <1>1, <1>4, IntMaxAssumption
<1> QED BY <1>2, <1>6, <1>9, <1>10 DEF WrittenInv, RoundTrip, out

-----------------------------------------------------------------------------
LEMMA InitWritten == Init => WrittenInv
<1> SUFFICES ASSUME Init PROVE WrittenInv
  OBVIOUS
<1>1. /\ pc = "write" \/ (pc = "sign" /\ isWritten = FALSE)
      /\ status = "SUCCESS" /\ ~negative /\ nanoseconds = 0
      /\ \A f \in Fields : fields[f] = Absent
  BY DEF Init
<1> QED BY <1>1 DEF WrittenInv, RoundTrip

(* A string of choice is not spoken of.                                    *)
LEMMA OthersKeep ==
  ASSUME IInv, WrittenInv, ~isWritten, Next
  PROVE  WrittenInv'
<1>1. pc # "write"
  BY DEF IInv, TypeOK
<1>2. ~isWritten'
  BY <1>1 DEF Next, WriteDuration, ReadSign, ReadPrefix, BeginDate, BeginTime, NoTime, EndLoop, ReadNumber, ReadHugeNumber, ReadTag, BadTag, ReadPoint, ReadFraction, BadFraction, ReadSecondTag, NoSecondTag, Finish, Done, vars, string
<1>3. pc' # "write"
  BY <1>1 DEF Next, WriteDuration, ReadSign, ReadPrefix, BeginDate, BeginTime, NoTime, BeginLoop, EndLoop, AfterLoop, ReadNumber, ReadHugeNumber, ReadTag, BadTag, ReadPoint, ReadFraction, BadFraction, ReadSecondTag, NoSecondTag, SetField, Finish, Fail, Done, vars
<1> QED BY <1>2, <1>3 DEF WrittenInv, RoundTrip

LEMMA StepWritten == IInv /\ WrittenInv /\ [Next]_vars => WrittenInv'
<1> SUFFICES ASSUME IInv, WrittenInv, [Next]_vars PROVE WrittenInv'
  OBVIOUS
<1>1. CASE UNCHANGED vars
  <2>1. Reading' <=> Reading
    BY <1>1 DEF vars, out, Reading, AtString, AtField, IsNext, Passed, StoredUpto, Looks, From
  <2> QED BY <1>1, <2>1 DEF vars, out, WrittenInv, RoundTrip
<1>2. CASE Next /\ ~isWritten
  BY <1>2, OthersKeep
<1>3. CASE Next /\ isWritten
  <2>1. CASE WriteDuration
    BY <2>1, WriteKeeps
  <2>2. CASE ReadSign \/ ReadPrefix
    BY <1>3, <2>2, SignKeeps, PrefixKeeps
  <2>3. CASE BeginDate \/ BeginTime \/ NoTime
    BY <1>3, <2>3, DateKeeps, TimeKeeps, NoTimeKeeps
  <2>4. CASE EndLoop \/ ReadNumber
    BY <1>3, <2>4, LoopKeeps, NumberKeeps
  <2>5. CASE ReadPoint \/ ReadFraction
    BY <1>3, <2>5, PointKeeps, FractionKeeps
  <2>6. CASE ReadTag \/ ReadSecondTag
    BY <1>3, <2>6, TagKeeps, SecondKeeps
  <2>7. CASE Finish
    BY <1>3, <2>7, FinishKeeps
  <2>8. CASE ReadHugeNumber \/ BadTag \/ BadFraction \/ NoSecondTag
    BY <1>3, <2>8, NoError
  <2>9. CASE Done
    BY <1>1, <2>9 DEF Done
  <2> QED BY <1>3, <2>1, <2>2, <2>3, <2>4, <2>5, <2>6, <2>7, <2>8, <2>9 DEF Next
<1> QED BY <1>1, <1>2, <1>3

(* What exess_write_duration makes of a duration, exess_read_duration      *)
(* reads as the duration it was, for every duration, unless a member is    *)
(* INT32_MAX.                                                              *)
THEOREM WrittenIsReadBack == Spec => []RoundTrip
<1>1. Init => IInv /\ WrittenInv
  BY InitIInv, InitWritten
<1>2. (IInv /\ WrittenInv) /\ [Next]_vars => (IInv /\ WrittenInv)'
  BY StepIInv, StepWritten
<1>3. IInv /\ WrittenInv => RoundTrip
  BY DEF WrittenInv
<1> QED BY <1>1, <1>2, <1>3, PTL DEF Spec

=============================================================================
