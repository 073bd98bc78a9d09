SPECIFICATION Spec
CONSTANTS
  ByteMax <- MCByteMax
  ShortMax <- MCShortMax
  IntMax <- MCIntMax
  LongMax <- MCLongMax
  MaxFloatInt <- MCMaxFloatInt
  MaxDoubleInt <- MCMaxDoubleInt
  Floats <- MCFloats
  Doubles <- MCDoubles
  Held <- MCHeld
  Slacks <- MCSlacks
INVARIANTS
  TypeOK
  LosslessReversible
  PermissionsOnlyAdd
  SizesRespected
