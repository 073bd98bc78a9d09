SPECIFICATION Spec
CHECK_DEADLOCK FALSE
CONSTANTS
  WordBits = 14
  MantDig = 6
  SubnormalExpt <- MCSubnormalExpt
  MaxExpt = 3
  DecimalDig = 3
  WordDigits10 = 4
  ExactPowers = 3
  ExactIntDigits = 2
  MaxPower = 3
  MinPower <- MCMinPower
  MinDecExpt <- MCMinDecExpt
  DecExptStep = 3
  FloatMantDig = 2
  FloatSubnormalExpt <- MCFloatSubnormalExpt
  FloatMaxExpt = 4
  FloatDecimalDig = 2
  IntBits = 8
  BigitBits = 4
  SoftPow10 <- MCSoftPow10
  ExactPow10 <- MCExactPow10
  Numbers <- MCNumbers
  Texts <- MCTexts
INVARIANTS
  WritesExactly
