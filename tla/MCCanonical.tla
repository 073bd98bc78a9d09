---------------------------- MODULE MCCanonical ----------------------------
(***************************************************************************)
(* Texts for Canonical: the parts of dates and times on both sides of each *)
(* limit, and all short texts of a few characters for the other types.     *)
(***************************************************************************)
EXTENDS Canonical

MCMinYear == -32768
MCMaxYear == 32767
MCZones == (-56..56) \cup {Local}

Years ==
  {<<2, 0, 0, 0>>, <<1, 9, 0, 0>>, <<Minus, 0, 0, 0, 1>>, <<0, 2, 0, 2, 4>>, <<9, 9, 9>>,
   <<3, 2, 7, 6, 7>>, <<3, 2, 7, 6, 8>>, <<Minus, 3, 2, 7, 6, 8>>, <<Minus>>}

Days ==
  {<<Minus, 0, 2, Minus, 2, 8>>, <<Minus, 0, 2, Minus, 2, 9>>, <<Minus, 1, 2, Minus, 3, 1>>,
   <<Minus, 0, 4, Minus, 3, 0>>, <<Minus, 0, 4, Minus, 3, 1>>, <<Minus, 1, 3, Minus, 0, 1>>,
   <<Minus, 0, 0, Minus, 0, 1>>, <<Minus, 1, Minus, 1>>, <<Minus, 0, 1, Minus, 0, 0>>,
   <<Minus, 0, 1, Colon>>}

Clocks ==
  {<<0, 0, Colon, 0, 0, Colon, 0, 0>>, <<2, 4, Colon, 0, 0, Colon, 0, 0>>,
   <<2, 4, Colon, 0, 1, Colon, 0, 0>>, <<2, 4, Colon, 0, 0, Colon, 5, 9>>,
   <<2, 3, Colon, 5, 9, Colon, 5, 9>>, <<2, 5, Colon, 0, 0, Colon, 0, 0>>,
   <<1, 2, Colon, 6, 0, Colon, 0, 0>>, <<1, 2, Colon, 0, 5, Colon>>, <<1, 2, Minus>>}

Fractions ==
  {<<>>, <<Point>>, <<Point, 0>>, <<Point, 5, 0>>, <<Point, 0, 0, 1>>,
   <<Point, 9, 9, 9, 9, 9, 9, 9, 9, 9>>, <<Point, 0, 0, 0, 0, 0, 0, 0, 0, 0, 1>>}

ZoneTexts ==
  {<<>>, <<Zulu>>, <<Plus, 0, 0, Colon, 0, 0>>, <<Minus, 0, 3, Colon, 4, 5>>,
   <<Plus, 1, 4, Colon, 0, 0>>, <<Minus, 1, 4, Colon, 1, 5>>, <<Plus, 0, 1, Colon, 1, 0>>,
   <<Minus, 1, 5, Colon, 0, 0>>, <<Plus, 0, 1>>, <<Plus, 0, 1, Colon, 6, 0>>, <<Other>>}

DateTexts == {y \o d : y \in Years, d \in Days}
TimeTexts == {c \o f : c \in Clocks, f \in Fractions}

(* The inputs of a datatype; only decoders have a size.                    *)
Of(type, texts) == {[datatype |-> type, text |-> t, size |-> 0] : t \in texts}

UpTo(n, chars) == UNION {[1..k -> chars] : k \in 0..n}

DateTimeInputs ==
  Of("date", {d \o z : d \in DateTexts, z \in ZoneTexts})
  \cup Of("time", {t \o z : t \in TimeTexts, z \in ZoneTexts})
  \cup Of("dateTime", {d \o <<TimeSep>> \o t :
                         d \in DateTexts, t \in {c \o <<Point, 5>> : c \in Clocks} \cup Clocks})
  \cup Of("dateTime", {<<Space>> \o <<1, 9, 9, 9, Minus, 1, 2, Minus, 3, 1, TimeSep>> \o t \o z :
                         t \in TimeTexts, z \in ZoneTexts})

BinaryInputs ==
  [datatype : {"hex"}, text : UpTo(5, {0, 15, 26, Space, Other}), size : 0..2]
  \cup [datatype : {"base64"}, text : UpTo(5, {0, 9, 63, Pad, Space}), size : {0, 2, 4}]
  \cup [datatype : {"base64"}, size : {3, 5, 8},
        text : {<<21, Space, 42>> \o s \o t :
                  s \in {<<Pad, Pad>>, <<33, Pad>>, <<33, 12>>, <<Space, 33, Space, 12>>},
                  t \in UpTo(4, {1, 62, Pad, Other})}]

NumberInputs ==
  Of("decimal", UpTo(5, {0, 7, Point, Minus}))
  \cup UNION {Of(type, UpTo(4, {0, 7, Minus, Plus, Space})) : type \in IntegerTypes}

MCInputs == DateTimeInputs \cup BinaryInputs \cup NumberInputs
=============================================================================
