SPECIFICATION Spec
CHECK_DEADLOCK FALSE
CONSTANTS
  MinYear <- MCMinYear
  MaxYear <- MCMaxYear
  Zones <- MCZones
  Inputs <- MCInputs
INVARIANTS
  ReadersExact
  CanonicalKeepsValue
  DecodersKeepPrefix
