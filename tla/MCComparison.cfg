CONSTANTS
  MinYear <- MCMinYear
  MaxYear <- MCMaxYear
  Zones <- MCZones
  Values <- MCValues
  Lengths <- MCLengths
  Starts <- MCStarts
SPECIFICATION Spec
CHECK_DEADLOCK FALSE
INVARIANTS
  Antisymmetric
  InTimeWithinYear
  StrictFromOneMonths
