CONSTANTS
  Modulus = 256
  NarrowHalf = 12
  MaxLen = 5
SPECIFICATION Spec
INVARIANT LongExact
