CONSTANTS
  MinYear <- MCMinYear
  MaxYear <- MCMaxYear
  Zones <- MCZones
  Readable <- MCReadable
  Durations <- MCDurations
  MaxCalls = 2
SPECIFICATION Spec
CHECK_DEADLOCK FALSE
INVARIANTS
  TypeOK
  CarryExact
PROPERTIES
  SumExact
  OverflowJustified
  InfinityAbsorbs
  ToUtcNormalizes
  CallReturns
