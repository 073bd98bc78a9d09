SPECIFICATION Spec
CONSTANTS
  BigitBits = 4
  MaxBigits = 3
  WordPow5 = 1
  HugitPow5 = 3
  WordDigits = 1
  Initial <- MCInitial
  Calls <- MCCalls
  MaxCalls = 2
INVARIANTS
  NumbersWellFormed
  AssertionsHold
  ComparisonsExact
PROPERTIES
  ImplementsNaturals
CHECK_DEADLOCK FALSE
