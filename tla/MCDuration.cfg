CONSTANTS
  IntMax <- MCIntMax
  Numbers <- MCNumbers
  Fractions <- MCFractions
  Durations <- MCDurations
SPECIFICATION Spec
INVARIANTS
  TypeOK
  ReadExact
  RoundTrip
PROPERTIES
  FieldsInOrder
  Terminates
