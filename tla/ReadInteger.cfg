CONSTANTS
  Modulus = 256
  NarrowHalf = 12
  MaxLen = 5
SPECIFICATION Spec
INVARIANTS
  TypeOK
  ExactOrLarge
  NarrowExact
  RejectionJustified
PROPERTIES
  Terminates
