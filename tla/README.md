# A verification project for exess

exess is a C library that reads and writes the XML Schema datatypes: numbers, dates, times, durations and
binary data.  It keeps no state of its own and starts no threads: every function takes values, a string or a
buffer, and returns a value and a result.  What can go wrong in it is arithmetic at the limits of the types,
grammars read character by character, buffers filled piece by piece, loops that carry from one place into
the next, and long sequences of legal calls in which the result of one is the argument of the next.

This directory holds TLA+ models of those parts, the TLC configurations that check them on small instances,
and proofs, checked by TLAPS, of what holds for every value of the constants.  `PROJECT.json` lists the
components, the runs, which definition stands for which lines of the source, the hazards and the theorems.
Paths below are relative to the root of the repository; line numbers are those of its sources.

Contents: [inventory](#inventory), [modules](#modules), [runs](#runs), [proofs](#proofs),
[disagreements](#disagreements-with-the-documentation), [what is not modelled](#what-is-not-modelled),
[plan](#plan).

## Inventory

| Component | Sources (`src/src/`) | State during a call | Operations | What makes it hard | Status |
|---|---|---|---|---|---|
| Integer readers | `ulong.c`, `long.c`, `int.c` ... `ubyte.c`, `read_utils.c`, `string_utils.h` | index, sign, accumulator | `exess_read_*` of ten types over `read_digits` | a 64-bit sum that wraps, minus zero, limits that differ by sign | modelled, all safety properties proved |
| Year reader | `year.c` | the same | `read_year_number` | its own sign and count | modelled with the integer readers |
| Date arithmetic | `date_time.c`, `date_utils.h` | fields, a day not yet carried | `exess_add_date_time_duration`, `exess_date_time_to_utc`, `carry_set_day` | carries and borrows through eight fields, leap years, infinities, the limits of years | modelled, all safety properties proved |
| Date comparison | `date_time.c`, `date.c`, `time.c` | two values and two conversions of each | `exess_compare_date_time`, `_date`, `_time` | partial order between local and zoned values | modelled, its safety properties proved |
| Durations | `duration.c` | index, last field, three members | `exess_read_duration`, `exess_write_duration`, `exess_compare_duration` | order of fields across two loops, sums of fields, a partial order | modelled, all safety properties proved |
| Writers and buffers | `write_utils.*`, the writer of every datatype, `value.c` | position, buffer, status | `exess_write_*` with and without a buffer | measured lengths against written ones, pieces that do not fit | modelled, all properties proved |
| Big integers | `bigint.c`, `int_math.c` | an array of digits and a length | shifts, products, sums, differences, `divmod`, comparisons | digits above the length that must be zero, carries that grow a number | modelled, all safety properties proved |
| Date and time readers | `date.c`, `date_utils.c`, `date_time.c`, `time.c`, `timezone.c` | index, fields | `exess_read_date`, `_time`, `_date_time` | fields stored before they are checked, optional parts, 24:00:00, 13:59 against 14:00 | modelled |
| Floating point conversion | `digits.c`, `strtod.c`, `soft_float.c`, `scientific.c`, `decimal.c`, `double.c`, `float.c` | big integers, a soft float with an error | digit generation, decimal to double | shortest digits that read back, a guess and its correction | modelled, at any width |
| Coercion | `coerce.c` | - | `exess_coerce_value` | the limits of both types, flags for lossy conversions, values passed through several types | modelled, all properties proved |
| Binary data | `hex.c`, `base64.c` | two indices | readers, writers | white space and padding inside groups, an output that fills up | modelled |
| Canonical forms | `canonical.c`, `value.c` | - | `exess_write_canonical`, `exess_read_value`, `exess_write_value` | the reader and the writer of a form, written apart from each other | modelled but for small buffers |
| Value comparison | `compare.c` | - | `exess_compare_value` | a dispatch on the datatype | its branches of dates and durations modelled |
| Datatypes and names | `datatype.c`, `boolean.c`, `strerror.c` | - | tables | nothing | not modelled |

How they interact.  `exess_read_value`, `exess_write_value` and `exess_compare_value` call a datatype's own
function.  The readers share `read_digits` and the writers share `write_utils`: a result is a status and a
count, and the callers add counts up.  Dates are compared by converting them to UTC, which is an addition of a
duration; durations are compared by adding them to four dates.  Decimals and floating point numbers go
through digits that are made with big integers.  There are no callbacks, no messages and no shared state: the
behaviours to explore are the characters of a string, the iterations of a loop, the pieces of a text, and the
calls of a client that passes results on.

What makes each component correct:

* Integer readers: a success returns the number written, `OUT_OF_RANGE` only a number outside the type.
* Date arithmetic: the result is exactly as far from the argument as the duration, or an infinity on the side
  where it lies; results are values that other calls may be given.
* Comparisons: the order is antisymmetric and that of time.
* Durations: what is read is the sum of the fields; what is written reads back.
* Writers: the measured length is what is written; too little space is reported; nothing is stored outside.
* Date and time readers: the fields are those of the text, and a value that arithmetic may start from.
* Floating point conversion: the digits written are read back as the same number, and are the fewest that show it; a
  text is read as the number nearest to it.  The code has exceptions to each, which the properties state.
* Coercion: a success without a permission can be undone; a permission only adds successes.
* Binary data and canonical forms: a canonical form has the same value and is its own canonical form; a decoder
  stores the first bytes of what the text stands for.
* Big integers: each operation is the one on natural numbers and leaves its digits in the form that the next
  operation relies on.

## Modules

Every variable of a module that is not a parameter or a local of the code is a history variable that exists to
state a property, and says so where it is declared.  Definitions that precede another one and start with
`Mistake:` in their comment are plausible errors of the code; no specification uses them.  They show that
each property can fail.

**`ReadInteger`** models `read_digits` (`ulong.c:20-41`) and its callers.  `ch` is `str[i]`, and moving on
chooses the next character, so that the behaviours cover all strings of at most `MaxLen` characters.
The phases of a call (`pc`) are white space, sign, the zeros after a minus in the unsigned readers, the first
digit, leading zeros, digits, the return of `read_digits` and the range check of the caller.  Five readers
stand for eleven functions: `long`, `ulong`, `narrow` (int, short, byte), `unarrow` (uint, ushort, ubyte) and
`year`.  Words have `Modulus` values, 2^64 in the code, and narrow types `2 * NarrowHalf`.  `value` is a
history variable: the number that the digits read so far denote.

**`CArithmetic`** is the division of C, which truncates, and **`Calendar`** the days of months from
`date_utils.h` with, as the reference, a linear count of days.  **`DateTimeFields`** has the values (fields,
infinities, zones) and the field sums of `exess_add_date_time_duration` (`date_time.c:198-250`), each
with `add_field` and its carry.  **`DateTime`** is the machine: a client holds a dateTime and replaces it by
the result of each call, an addition or a conversion to UTC; a call is the sum of the fields, the iterations
of `carry_set_day` (`date_time.c:164-196`), one step each, and the return.

**`DateTimeSum`** is the same addition as a function, for the modules that need its result and not its steps.

**`Comparison`** extends `DateTimeSum` with `exess_compare_date_time` and the two comparisons built on it
(a date is one at midnight, a time one on a fixed day), and with `exess_compare_duration`, which adds both
durations to four dateTimes.  A step compares a pair one way round, another step the other way.

**`Duration`** is the reader of durations with its two loops (`read_duration_date`, `read_duration_time`) and
`set_field`, over tokens: a letter, or a run of digits and the number it denotes.  It reads any string and
the strings that `exess_write_duration` makes, whose fields are a sequence of segments.

**`Writers`** models every writer behind `exess_write_value` as the sequence of pieces it stores: a character,
a string, the digits of a number, a fraction, the layout of a decimal.  A behaviour measures a value
(a null buffer), then writes it to a buffer of some size whose cells are `before`, `char` or `null`.  Which
characters a text has is left out; how many, where, and what is checked before each is kept.  Where the code
computes a length apart from the text (integers, decimals, scientific notation, binary data), so does the
model.

**`Bigint`** is `bigint.c`: a client holds two numbers and calls any operation on them.  `todo` is the
list of primitive operations a call still has to do (`multiply_pow10` is products by powers of five and a shift,
`set_decimal_string` a product and a sum for each word of digits, `divmod` differences until less than the
divisor is left), and each iteration of a loop that carries or borrows is a step.  **`NaturalNumber`** is what
it promises: two natural numbers, and every call one step of arithmetic on them.  The refinement maps the number
that a call works on to the value it had when the call was made (`held`, a history variable) until the call
returns.  `Allowed` are the obligations of the callers in `digits.c` and `strtod.c`: the assertions of the
functions, and that results fit; `Typed` are the types of the parameters.  **`Powers`** has powers as repeated products,
the definition from which proofs can derive their laws.

**`Coercion`** is `exess_coerce_value`: a client holds a value of some datatype, and each call coerces it with
some permissions and sizes and keeps the result.  A call is one step, with the helper of the target's type inside
it (`coerce_to_long` and those built on it, in the order of the source).  A number is a whole part and quarters:
enough for the halves that `llrint` rounds to even.  The limits of the types are constants in the order of the real
ones, and the values of the floating point types are any sets that contain the integers up to their limits, as the
comment at `coerce.c:13` requires.  What a conversion of C does not specify (`llrint` of a NaN, an unsigned value
beyond the signed range) is any outcome.

**`SoftFloat`** and **`Floating`** are floating point numbers as text.  `SoftFloat` has the arithmetic of
`soft_float.c` and the conversion of `strtod.c` (`sftod`, its error bound, the correction by `compare_buffer`,
the exact shortcut for short numbers) for words of `WordBits` bits, doubles of `MantDig` and a table of cached
powers; `Nearest` is the rounding of the machine, and the reference.  `Floating` is a task that writes a
number and reads the text again, or reads a text: the initial values and the loop of `digits.c`, one digit a step,
the two layouts of `decimal.c` and `scientific.c`, and the parser, one character a step.  Big integers are
natural numbers here, which `ImplementsNaturals` of `Bigint` licenses, but for the comparison with a sum, which looks at
lengths first: `exess_bigint_plus_compare` has its rule, with digits of `BigitBits` bits.  `overlooked` is a history
variable: whether it has found a sum smaller than the denominator that is not, while digits were generated.

**`Text`** has the characters, as numbers, and the scanners that readers share.  **`DateTimeText`** reads a date, a time
or a dateTime item by item (`left` are the items still to be read: a year, a dash, a month and so on), leaving in
`value` and `status` what the code leaves in `out` and its result, and has the texts that are written.
**`BinaryText`** has one iteration of each decoder, and the encoders.  **`Canonical`** composes them: a client
reads a text with `exess_read_value`, has it rewritten by `exess_write_canonical`, and does both with what
came out.  `original` is a history variable: what came of the first text.

`MCDateTime`, `MCComparison`, `MCDuration`, `MCWriters`, `MCBigint`, `MCCoercion`, `MCFloating` and `MCCanonical`
give the constants their values for TLC; `CalendarProofs`, `ReadIntegerProofs`, `DateTimeProofs`, `DurationProofs`,
`CoercionProofs`, `WritersProofs`, `ComparisonProofs` and `BigintProofs` hold the proofs.  The reference for the arithmetic of dates
(`Reaches`, `DayReached`, `IsNormal`) is in `DateTimeFields` and the lemmas about the sum of the fields in `CalendarProofs`,
because both the steps of `DateTime` and the function of `DateTimeSum` are proved from them.

## Runs

| Run | Module, configuration | Checks | Size |
|---|---|---|---|
| `read_integer` | `ReadInteger`, `ReadInteger.cfg` | `TypeOK`, `ExactOrLarge`, `NarrowExact`, `RejectionJustified`, `Terminates` | 1,411,755 |
| `date_time` | `MCDateTime`, `MCDateTime.cfg` | `TypeOK`, `CarryExact`, `SumExact`, `OverflowJustified`, `InfinityAbsorbs`, `ToUtcNormalizes`, `CallReturns` | 18,992 |
| `duration` | `MCDuration`, `MCDuration.cfg` | `TypeOK`, `ReadExact`, `RoundTrip`, `FieldsInOrder`, `Terminates` | 284,272 |
| `comparison` | `MCComparison`, `MCComparison.cfg` | `Antisymmetric`, `InTimeWithinYear`, `StrictFromOneMonths` | 86,901 |
| `writers` | `MCWriters`, `MCWriters.cfg` | `MeasuredLengthSuffices`, `ErrorLeavesNothing`, `CheckedWritersStayInside`, `LengthsDeclared` | 86,954 |
| `bigint` | `MCBigint`, `MCBigint.cfg` | `NumbersWellFormed`, `AssertionsHold`, `ComparisonsExact`, `ImplementsNaturals` | 285,957 |
| `coercion` | `MCCoercion`, `MCCoercion.cfg` | `TypeOK`, `LosslessReversible`, `PermissionsOnlyAdd`, `SizesRespected` | 472 |
| `floating` | `MCFloating`, `MCFloating.cfg` | `AssertionsHold`, `ShortestDigits`, `RoundTrip`, `ParseExact`, `ReadsNearest` | 43,971 |
| `canonical` | `MCCanonical`, `MCCanonical.cfg` | `ReadersExact`, `CanonicalKeepsValue`, `DecodersKeepPrefix` | 160,383 |
| `read_integer_long` | `ReadInteger`, `ReadIntegerLong.cfg` | `LongExact`: violated | |
| `comparison_years` | `MCComparison`, `MCComparisonYears.cfg` | `InTime`: violated | |
| `floating_exact` | `MCFloating`, `MCFloatingExact.cfg` | `WritesExactly`: violated | |

Sizes are distinct states.  A run marked violated states what the documentation says and finds that the code
does something else; see [below](#disagreements-with-the-documentation).

**Bounds, and why they are enough.**

* `read_integer`: words of 8 bits, narrow types of 24 values and strings of five characters.  Three digits
  reach the limit of a word, so that four or five wrap it once and several times, and the narrow limit has
  two digits; 20 * 12 <= 256 is the same slack between the types as 20 * 2^31 <= 2^64, the only relation between them that
  the proof needs.
* `date_time`: the real calendar, the real limits of years (-32768 to 32767) and nanoseconds, ten dateTimes on
  the boundaries of months, leap years, the year zero and the type, 23 durations that carry or borrow in each
  field, and two calls (`MaxCalls`), the second of which gets whatever the first returned: an infinity, or a
  field one above its limit.
* `duration`: numbers around what a field can hold in 32 bits (178956970 years and 24855 days are
  the most that fit alone), every order of tokens, and durations with every combination of fields and with the
  limits of the members, `INT32_MIN` included.  Numbers beyond 64 bits are one token, as `ExactOrLarge` of
  `ReadInteger` allows: what `read_digits` makes of them is an error or larger than a member.
* `comparison`: all pairs of 23 dateTimes (zones apart, on both sides of midnight, of a leap day, of a new year,
  at the limits, the infinities) and of 167 durations around the lengths of one, three and four months.  Two end at the new year
  that `Undecided` is about, and six are what the exceptions of `StrictFromOneMonths` are about: nine months and what they
  last from May, four months to the new year of a conversion, and less than a day from the beginning of the calendar.  A
  strict order is looked at from ten dateTimes, in years with and without leap days and at both ends of the calendar.
* `writers`: for each datatype its shortest and longest strings and every combination of optional parts, and every
  buffer size from none to two more than needed.  Decimals are bounded to three digits and exponents from -4
  to 5, which reach each layout of `exess_write_decimal`; the longest decimal, 327 characters, is not reached.
* `bigint`: three digits of four bits, with the powers of five and ten that fit in one digit and in two, as in
  the code; eleven numbers with zeros and ones in every digit, 35 calls, two in a row with an exchange of the two
  numbers in between.
* `coercion`: limits of 1, 3, 15, 31, 127 and 255 in the place of those of int8, int16, float, int32, double and int64:
  in the same order and each at least twice the one before where the code needs it.  The client starts from the
  integers at and next to every limit on both sides, fractions around zero and around the limits, the special
  values, blobs and moments, and makes any number of calls, with each of four masks of permissions and sizes that are one
  too small, right, or one too large.  472 values can be held; every property looks at all coercions of
  each.
* `floating`: a double of 6 bits in words of 14 and a float of 2 bits, with 3 and 2 digits that show every one of
  them and 4 that fit a word; the step of the cached powers is 3, so that all three ways of the conversion
  are taken: the exact one, the guess that is known to be right, and the correction.  The digits of big integers have
  4 bits, so that two doubles overlook a carry.  All numbers of both formats are
  written, with both signs at the powers of two; the texts read are all of up to four characters from five, longer ones
  with zeros and digits that do not fit, exponents at the limit of an int of 8 bits, and the decimals of four
  digits next to the middle between any two doubles, where only a correction helps, next to the powers of two below
  the smallest one, behind the largest, and next to the middle between any two floats.  Every exception of the
  properties occurs: 5 decimals are read as the smallest double instead of zero, 13 as the wrong one of two floats, and
  the smallest normal number has a digit too many.
* `canonical`: years on both sides of both limits, every kind of day and month that is right or wrong, hours,
  minutes and seconds around midnight, fractions of no, some, nine and ten digits, zones on both sides of 14
  hours, in combination; all strings of up to five characters from five for hexBinary, base64Binary and decimal, with
  outputs that are too small, and of up to four for five types of integers.

**Fairness.**  A C function that has been called goes on: `ReadInteger` and `Duration` assume weak fairness of
`Next` (a behaviour is one call), `DateTime` and `Bigint` of `Step`, the steps inside a call; the client need
not call.  That is all that the liveness properties (`Terminates`, `CallReturns`, the fairness of
`NaturalNumber`) use.  `Comparison`, `Coercion` and `Writers` have no loops left to terminate, and those of `Floating` and
`Canonical` go once over a text or emit a bounded number of digits: they state safety only.
`CHECK_DEADLOCK FALSE` is there where the client may stop calling or the bound on its calls is reached.

**What they show**, beyond what a unit test would reach:

* The overflow test of `read_digits` misses some wraps, but never one that a narrow reader or the year
  reader would accept (`NarrowExact`): its miss always leaves a number too large for them (`ExactOrLarge`).
* The two errors of `add_field` for negative multiples of a unit cancel (`SumExact`, `CarryExact`), and no
  offset of a zone provokes them (`ToUtcNormalizes`), so that comparing the fields of two converted values is sound.
* An infinity is returned only where the sum is really beyond the years that can be stored
  (`OverflowJustified`), with one day of tolerance at the start of the first year, and is not left again by
  a number of seconds (`InfinityAbsorbs`).
* Every duration the writer makes is read back, except those with a member of largest magnitude, which the reader
  refuses (`RoundTrip`).
* Comparison is antisymmetric for every kind of value but some durations (`Antisymmetric`), and right as long as no
  conversion changes the year (`InTimeWithinYear`).
* A buffer of the measured length and a null is always enough, one less never, and an error leaves an empty string
  (`MeasuredLengthSuffices`, `ErrorLeavesNothing`), even where a writer stores behind the end.
* Digits above the length of a big integer are zero after every operation (`NumbersWellFormed`), the assertions of
  the functions that `bigint.c` calls by itself hold (`AssertionsHold`), and every operation is the one on natural
  numbers (`ImplementsNaturals`).
* Big integers compare as natural numbers, and their sum with a third without being computed, as long as it is not longer
  than operands of unlike lengths (`ComparisonsExact`).
* What a coercion without permissions gives can be coerced back, through any types and limits, except for the
  fractions below zero and the NaN that `coerce_to_long` does not see (`LosslessReversible`); a permission more never
  takes a success away or changes it, whatever types it passes through (`PermissionsOnlyAdd`); no more is written than
  there is space for (`SizesRespected`).
* Where no carry is overlooked, the digits of a number are read back as it (`RoundTrip`), and those of a decimal or
  double are the fewest that show it, also at the powers of two where the lower boundary is closer, except for the
  smallest normal number (`ShortestDigits`); the asserted bounds hold, with a power of ten that is only estimated
  (`AssertionsHold`).  Where one is overlooked, nothing of this holds (`floating_exact`).
* A text is read as the nearest number of the format, whichever of the three ways finds it (`ReadsNearest`): the error
  counted in `sftod` covers all that its products lose.  That excludes decimals next to a power of two below half of the
  smallest double, and floats where the nearest double lies in the middle between two.
* The readers of dates and times give the fields of the text, and a value that `DateTime` may start from
  (`ReadersExact`), so that its assumption about arguments is met by what is read.  A text that can be read has a
  canonical form with the same value (`CanonicalKeepsValue`), although numbers and binary data are rewritten without
  being read.  A decoder that fails has stored exactly the bytes it reports (`DecodersKeepPrefix`).

## Proofs

The theorems hold for every value of the constants that their assumptions admit; TLC evaluates the assumptions on
every run.

| Module | Theorem | States |
|---|---|---|
| `ReadIntegerProofs` | `TypeCorrect` | the index stays inside the string and the accumulator inside the word |
| | `AccumulatorExactOrLarge` | `ExactOrLarge` |
| | `NarrowReadersExact` | `NarrowExact` |
| | `RejectionsJustified` | `RejectionJustified` |
| | `AccumulatorMonotone` | `AccumulatorGrows`, which no run checks |
| `DateTimeProofs` | `TypeCorrect` | values between calls exist, and the loop works on real months |
| | `CarryIsExact` | `CarryExact` |
| | `SumIsExact` | `SumExact` |
| | `InfinitiesAbsorb` | `InfinityAbsorbs` |
| | `OverflowsAreJustified` | `OverflowJustified` |
| | `ToUtcIsNormal` | `ToUtcNormalizes` |
| `DurationProofs` | `TypeCorrect` | the members stay below the largest value, so that no sum or negation overflows |
| | `DurationsExact` | `ReadExact` |
| | `FieldsStoredInOrder` | `FieldsInOrder` |
| | `WrittenIsReadBack` | `RoundTrip` |
| `CoercionProofs` | `TypeCorrect` | what is held is in the range of its datatype, not only of the C type it is stored in |
| | `SizesAreRespected` | `SizesRespected` |
| | `PermissionsAdd` | `PermissionsOnlyAdd` |
| | `LosslessIsReversible` | `LosslessReversible` |
| `WritersProofs` | `Invariance` | the inductive invariant |
| | `MeasuredSuffices` | `MeasuredLengthSuffices` |
| | `ErrorsLeaveNothing` | `ErrorLeavesNothing` |
| | `LengthsAreDeclared` | `LengthsDeclared` |
| | `CheckedStayInside` | `CheckedWritersStayInside` |
| `ComparisonProofs` | `OrdersAreOpposite` | `Antisymmetric` |
| | `OrderedInTime` | `InTimeWithinYear` |
| | `StrictOrderHolds` | `StrictFromOneMonths` |
| `BigintProofs` | `NumbersAreWellFormed` | `NumbersWellFormed` |
| | `AssertionsAreMet` | `AssertionsHold` |
| | `StepsAreNatural` | initial states and steps are those of `NaturalNumber`: `ImplementsNaturals` without its fairness |
| | `ComparisonsAreExact` | `ComparisonsExact` |

*Integer readers.*  Assumptions: an even `Modulus`, and `20 * NarrowHalf <= Modulus`.  `NarrowExact` is not
inductive: it speaks of the end of a call.  The invariant is `TypeOK`, that the phases agree with what they
stand for (`Progress`), `ExactOrLarge`, and that an answer matches the accumulator (`Answered`).  `ExactOrLarge`
is the heart of it: the accumulator is the number read, or it has wrapped and then has no room for one
more digit, or the overflow has been reported.  Lemma `WrappedSum` shows that one more digit keeps it: if the
wrapped sum is not below the accumulator, either nothing was lost or the sum is again too large.

*Dates.*  Assumptions: `MinYear <= MaxYear`, zones of whole quarters of an hour up to 14 hours.  The
invariant is `TypeOK`, `CarryExact` and `FiniteCarried` (a loop is only entered from a finite value).
`CarryExact` relates three things: the argument, the duration, and the fields together with the day still
to be carried.  `CalendarProofs` shows that the linear count of days advances by the length of a month from each month
to the next, which is what one iteration moves between `day` and the fields; the sum of the fields is split into
one lemma for each field (`add_field` and its carry together keep the time they stand for, the sign cases
included).  `SumExact` follows when `SetDay` returns.

An infinity comes from the sum of the fields or from the loop.  For the first, a year beyond the last one puts the
first of its months after the last day there is (`AfterYear`, `BeforeYear`: the linear count grows with the months),
and the sign of a duration is the same in all its members, so that the time of day cannot bring it back
by more than the day of tolerance.  For the second, `CarryExact` says that the day the loop gives up at is the day
reached.  `ToUtcNormalizes` is an invariant of its own (`UtcNormal`): offsets are less than a day and no
field is negative, so that no sum of two of them is a negative multiple of its unit, and the loop leaves the fields of the
time alone.

*Durations.*  Assumption: a largest value above 86400.  The invariant adds to `ReadExact` that the members are the
sums of the fields read (`SumsRead`), that a stored field is not after the last one of its loop
(`StoredInOrder`), the bounds of each part (`PartBounds`), and what the field being read has left in the locals
(`FieldRead`, `FractionRead`).

`RoundTrip` speaks of the end of a call, and of the writer and the reader together.  Its invariant (`WrittenInv`) says what
is left of a written string at every point of the reader: the tokens of the fields that are not stored yet, in their
order (`From`), while the fields that are stored are those written so far (`StoredUpto`).  `WrittenIs` brings the
string into this form, which the code builds from segments that may be empty; `LooksField` and `LooksTag` give the next
token, and with it the branch that is taken, so that no syntax error is found (`NoError`).  A field is only refused
where a member is the largest value (`RefusedAtMax`), because the sum never exceeds the member that was written
(`SumBound`), to which the fields add up (`AmountsAdd`, from the division of `Clock`).  TLC checked this invariant before
it was proved.

*Coercion.*  Assumptions: the order of the limits, each narrow unsigned type twice its signed one and within the next
wider type, and floating point types that contain the integers up to their limits.  `TypeOK` is inductive as it
stands.  The proof follows the calls of the code: what `coerce_to_long` takes is in the range of a long
(`LongOutcomes`), hence what the types built on it write is in theirs (`IntegerResults`, `FloatingResults`,
`TruncationResults`), for every permission and every unspecified outcome; `CoercedValues` puts them together.

`SizesRespected` needs only `TypeOK`: every helper reports a size with the value (`ConvertedSizes`).
`PermissionsOnlyAdd` does not even need that: each helper in turn succeeds with more
permissions in every way it did with fewer (`MoreLong`, `MoreTruncated`, `MoreConverted`).  `LosslessReversible` splits a round
trip in two.  What a coercion without permission gives stands for the value that it was made from
(`LosslessTaken`: the same number, unless it is one of the unseen ones), and a number that a type can hold
is taken by that type as it is (`ConvertedBack`), whatever the type it is stored in now.

*Writers.*  Assumptions: `ValuesAssumption`, the values that the C types can hold, written out in `IsValue`: digits, exponents and
optional fields of every datatype, decimals of any length.  A writer is a list of pieces, and what has to be known of
the list that is still to be written depends on all of it: how long it will be, that it ends with `end_write`,
that an error in the middle is not forgotten by a later piece.  That is a fact by induction over the list.  It is stated with a
certificate: a set of lists, each with a number (the length or the room left), that contains the list at hand, is closed
under taking the first piece off, and whose members are all fine as far as their first piece goes
(`Certified`).  The programs of the writers are certified from their ends, one piece at a time
(`CertifiedCons`), and a step of the machine only looks at the first piece (`CertifiedStep`).  There are certificates
for the length of a text (`Spans`), room for all of it (`Roomy`), an error that is bound to come (`Short`, `Doomed`)
and one that survives to the end (`Escapes`, `Late`).

The invariant `IInv` has a part for each phase.  `Measuring`: the offset and the length of what is left add up to
the length of the text.  `Filling`, in a buffer with room for the text and its null: the cells are the text up to the
offset, perhaps with a null behind it, and nothing else.  `Failing`, in any other, has five cases: the error is still to come; a
scientific number has marked the buffer and is about to refuse it; it has come and the rest keeps it; it has come
in a duration, whose later fields take up the status again, but with too little room left for them to succeed; or it
is over, with a null in the first cell.  `CheckedStayInside` is another certificate (`Inside`): every piece checks for itself
or has the room that an earlier check found.  TLC checks the properties; the certificates are
sets of lists of any length, which it cannot enumerate.

*Comparison.*  Assumptions: those of *Dates*, and that the years named by the code are years (`LimitsAssumption`).  The
invariant is short: the operands are values that are compared, and an order that is known is the one the functions
give.  All the work is about the functions.  `Carried` is a recursive function over the states of a loop that nothing but
its own measure bounds, so that it has to be shown to have a value at all.  Lemma `Iteration` builds the
function from the smallest sets closed under the move of the loop; `MeasureInduction`, from well-founded relations over
sets, then gives what it computes (`CarriedLands`): a date on the day it was asked for, with the time
untouched, or an infinity on the side where that day lies.

With that, a conversion is *placed*: `Placed` says that it is the normal value in UTC at a given second, counted over all
days, or an infinity beyond the calendar (`ConvertedPlaced`).  The order of fields is the order of places (`PlacedOrder`).
`Antisymmetric` for values of one kind of zone is that of the fields.  Between a local and a zoned value it needs that the
conversion of the local value to the earliest time is not after the one to the latest, infinities included
(`ShiftOrdered`), and that the order that `compare_date_time_total` makes of values in UTC is transitive (`UnderLinear`).
For durations, the four references agree or the months and the seconds decide (`PartialIs`); the attempt to prove that this is
antisymmetric found the durations that `Undecided` leaves out.  `InTimeWithinYear` adds that the order of the
moments of the reference is that of places (`MomentOrder`), and that conversions that do not overflow keep it
(`KeptOrder`), an infinity being more than a year outside of the calendar and an offset less than two days; a
zoned value is then before a local one in every zone if it is so in the one where the local one is earliest.

`StrictFromOneMonths` is about every dateTime, found from four.  A sum is as many nanoseconds after its dateTime as the duration
has from that month on (`ExactIs`, `Extent`), or at an end of the calendar that lies before it (`SumPlaced`), so that the
order of two sums is that of two extents (`SumsOrdered`), and an order that a reference finds is that of the extents from its
month (`UnderExact`).  Only the days of the months depend on the dateTime, and `DaysOfMonthsBounds` of `CalendarProofs` bounds
them: any number of months has at least as many days from anywhere as from September 1696 or from February 1697, and at
most as many as from March or from July 1903, unless it is nine more than a number of years.  The leap days of a span of
years are the fewest from 1696 and the most from 1903 (`LeapSpanBounds`, by the carries of the sum of two years, digit
by digit), and the rest is a table of the months from each month of a year that begins in March (`MonthRunBounds`).  So a duration that
is less than some months from the references with the fewest days is so from everywhere (`LessThanMonths`), and one with months that
is less from those with the most days too (`MonthsLessThan`).  The attempt to prove the property without its
exceptions found them: nine months, the new year, and the day lost at the beginning of the calendar.

*Big integers.*  Assumptions: a width of at least one bit and an array of at least two digits (`WidthAssumption`), powers of
five and ten that fit in the words they are used for (`ScaleAssumption`), calls with arguments of the types of the
parameters (`CallsAssumption`), initial numbers that fit (`InitialAssumption`).  What a list of digits stands for and what a
power is are recursive functions; lemma `Recursion`, from well-founded induction, shows that there are such functions, and the
laws of powers and the values of digits follow (`Places`, `ValueIs`, `OfValueExact`, `CompareExact`).

The invariant looks ahead, because in the middle of a carry the digits stand for nothing.  `Standing` is the number that
`lhs` will be when the loop is over: what the digits are so far, and the carry or borrow at its place, and the
products, sums or differences of the digits still to come.  Each iteration of each loop leaves it alone.  `Machine` bounds it,
and has what a loop relies on: zeros above the place it has reached, a number that is at least as large as its length says.
From there the bounds of the array follow: a carry cannot leave it, because the number it is a part of fits.  `Effect`
is what a primitive operation does to a number and `Legal` what it needs of it.  The rest of a call is a `Plan`: a list of
primitives that are legal one after the other and lead to the result (`Runs`), or an operation that will be turned into such
a list when its turn comes.  `MultiplyPow10Runs` and `DecimalStringRuns` are the two lists, by induction over the exponent
and over the words of the string.  For `divmod` the plan is an equation: the quotient so far times the divisor and what
is left are the dividend.  That the multiple it takes away next is not too large follows from leading zeros, which
place a number between two powers of two (`BitLength`, `RoomToShift`).

`NumbersWellFormed`, `AssertionsHold` and the steps of `NaturalNumber` are read off the invariant.  `ComparisonsExact` is
about a function: going down the digits, `PlusCompareLonger` keeps what is missing from the sum to the third
number, and may stop when no digits below can make that up (`RestSplits`, `RestDecides`).  TLC checks the properties; the
invariant it cannot evaluate, for `Runs` asks for a function among all those into the natural numbers.

*Only model-checked.* Liveness (`Terminates`, `CallReturns`, the fairness in `ImplementsNaturals`): temporal reasoning
with ENABLED is beyond the prover. The bound on the error of `sftod` and the choice of the shortest
digits are arithmetic with products of powers and roundings that the solver does not do, and the number that a string
of digits shows is a recursive function over strings (`NumberOf` of `Text`): `Floating` and `Canonical` stay with TLC.

## Disagreements with the documentation

Those that a run shows; each was also seen with the compiled library.

1. `read_integer_long`: `exess_read_ulong` and `exess_read_long` return a wrong number, with success, for some
   strings that do not fit (`ulong.c:31-34`).
2. `comparison_years`: years are compared as they are written, and not after the conversion to UTC
   (`date_time.c:61`), so that values around a new year can be in the wrong order.
3. `floating_exact`: some numbers are not written as what reads back.  `exess_bigint_plus_compare` takes a sum
   for smaller than a longer number, although a carry makes it as long (`bigint.c:311`), and `within_upper` of `digits.c`
   does not see that the next digit has to be rounded up.  The digits go on with nines, and in the end a nine is rounded
   up: `exess_write_double` of 0.0007 fails the assertion at `digits.c:164`, or gives `6.99999:E-4` without assertions,
   where `exess.h:261-262` says that reading it gives exactly the value.  So it is with 0.0006, 0.0009 and 336 of the 19,980
   decimals with up to three digits and an exponent from -1 to -20; the denominator then is a power of 2^32, as for all
   numbers from 2^-11 up to 2^-10.

Those that the properties leave out by a condition; each was seen with the compiled library:

* Subtracting a duration can leave a second or a minute of 60 or 10^9 nanoseconds (`date_time.c:150`);
  `exess.h:856-858` gives ranges up to 59 and 999999999.  `SumExact` shows that the time is right all the same.
* A strict order of two durations, which `exess.h:777-779` defines by adding them to *any* dateTime, is returned
  although some dateTime gives the other order (`duration.c:147`), even if only one of the two has months:
  * P9M is found strictly less than P275DT12H.  From 1 May 2023 it is the greater one: nine months from a first of May
    have 276 days, and from none of the four references do they have more than 275 (`LessByNineMonths`).
  * P4M214D is found strictly greater than P335DT12H, and is the lesser one from 1 February 2023.  The sums with a
    reference are compared in UTC without their years, and for a local value that is more than a day earlier, so that
    the lesser sum falls into the year before and is taken to be the greater one (`NewYearBetween`).

  `StrictFromOneMonths` has the conditions under which a strict order is right.  Nothing is stated of two durations that both
  have months, because the references need not show the extremes of the difference of their days, nor of negative months.
* A borrow of exactly a day leaves 24:00 on the day before (`date_time.c:150`), and before the first day of the calendar
  that is the infinite past: -32768-01-05 with -P3DT23H0M1S, which is 00:59:59 on the first day there is.
  `OverflowJustified` and `StrictFromOneMonths` allow a day for it.
* Each of two durations with the same months and seconds can be found greater than the other (`duration.c:156-159`):
  -P1M29DT16H15M and -P1M29DT16H15M0.5S, because one reference, whose sums lie on both sides of a new year in UTC, gives the
  opposite order from the others; -P34470Y and the same with half a second more, because one reference overflows.  `exess.h:789-790`
  gives a sign for each order.  `Antisymmetric` leaves out `Undecided`, and holds of all other durations.
* The writers of dates, times and durations store behind the end of a buffer that is too small, before they report it
  (`duration.c:248`, `write_utils.c:65`).  `CheckedWritersStayInside` has those that do not.
* `exess_bigint_plus_compare` decides by lengths alone that a sum is smaller, although a carry can make it longer
  (`bigint.c:311`).  `ComparisonsExact` has the condition; what comes of it is `floating_exact` above, and the condition
  `overlooked` of `RoundTrip`, `ShortestDigits` and `AssertionsHold` of `Floating`.
* Without any permission, `exess_coerce_value` rounds a fraction below zero, and turns a NaN into an integer
  (`coerce.c:42`, `57`): -1.5 becomes -2, where `exess.h:1543-1546` allows only what can be undone.
  `LosslessReversible` has the condition (`Unseen`).
* The smallest normal double is taken to have a closer lower boundary (`double_lower_boundary_is_closer`), which the
  comment at `digits.c:184` excludes.  `ShortestDigits` leaves it out.  For the real double, 17 digits are the
  fewest anyway; in the small format of the run there is one too many.
* A decimal below half of the smallest double is read as that double if it is just above a power of two
  (`strtod.c:222-236`, `341-345`): 6.17582057301558181E-325 becomes 4.94E-324.  The guess has a smaller exponent than
  any double, and it is the middle above that guess that is compared with.
* `exess_read_float` rounds twice, to a double and then to a float (`float.c:13-22`): 1.00000005960464478 is read as 1,
  although 1.00000012 is nearer.  `ReadsNearest` has both conditions.
* `exess_write_canonical` of a hexBinary ends the text at a digit in lower case (`canonical.c:176`): "00aa" becomes
  "00", with success.  `CanonicalKeepsValue` takes digits in upper case only.

Read off the code, without a run:

* `exess_bigint_subtract_left_shifted` goes through as many digits as the shift, if what is shifted is zero, where its
  assertions shift nothing (`bigint.c:482-490`, `496`): behind the end of the array for a shift of its length or more.
  `divmod` never does so (`AssertionsHold`), as its divisor is not zero; `Subtractable` excludes it for other callers.
* `read_year_number` adds the count of `read_digits` twice when it returns its error (`year.c:36`).
* `exess_read_duration` leaves earlier fields in its output when a later one is wrong (`duration.c:208`);
  `exess.h:799` says "or zero on error".
* `exess_date_time_to_utc` takes the zone of a local dateTime as an offset (`date_time.c:89`), where
  `exess.h:897-898` says that the input is returned unmodified.
* `carry_set_day` says that the day need not be clamped (`date_time.c:162-163`); a month shorter than the day of the
  argument makes it carry into the next one, where the algorithm it implements clamps.
* `exess.h` gives the month of the infinite future as `INT8_MAX`, the code uses `UINT8_MAX`.
* `EXESS_ROUND` and `EXESS_TRUNCATE` are the same bit (`exess.h:1513`, `1521`), so that no caller can permit only one.
* A narrow integer type refuses a fraction with `EXESS_WOULD_ROUND` even if `EXESS_ROUND` is given (`coerce.c:142`).
* `exess_read_decimal` and `exess_read_double` refuse "0", "00" and "-0" (`strtod.c:58`), where `exess.h:180-183` does
  not require a point; "." and "1e+" are accepted (`strtod.c:125`).
* An exponent is accumulated in an int without a limit (`strtod.c:131`): "1e4294967297" is read as 10.
* `exess_write_canonical` accepts base64Binary text that its reader refuses, such as "====", and "-0" as a
  negativeInteger; it refuses "-0" as a nonNegativeInteger, which the reader accepts (`canonical.c:108`, `201`).
* `exess_read_date`, `_time` and `_date_time` leave the fields before an error in their output (`date_time.c:261`).
* `exess_write_decimal` measures a NaN or an infinity as 0 characters, with success, and refuses to write it.
* `write_scientific` stores a null in a buffer of no size; `write_two_digit_number` does not test for a null buffer,
  unlike its neighbours.

## What is not modelled

* The spelling of what is written in `Writers`, which has sizes only; `Duration`, `Floating`, `DateTimeText` and
  `BinaryText` have the characters.
* The width of the real formats: `Floating` is checked for small ones.  The tables of cached powers in `soft_float.c` are
  not checked digit by digit; the run has its own, made by the same rule.
* The signs of zeros in `Coercion`, and numbers finer than a quarter.
* A canonical form in a buffer that is too small: `exess_write_canonical` leaves that to `end_write`, and some of its
  writers do not report it themselves.
* `exess_timezone`, a constructor; `datatype.c` apart from the sizes of values, `boolean.c` (its reader), `strerror.c`: tables.
* The comparison of numbers and of blobs in `compare.c`: that of the machine and of `memcmp`.

## Plan

Every component that carries the library's logic is modelled.  What is left is to prove more of it, in this order:

1. `DateTimeText`: that what is read satisfies `IsReadable`, an assumption of `DateTime`: an invariant over the
   items read so far.
2. `Floating`: the parts of `AssertionsHold` that are about the big integers of `digits.c` alone.

To model: small buffers of `exess_write_canonical`.
