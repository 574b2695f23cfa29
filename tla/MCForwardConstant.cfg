CONSTANTS
  MaxArgc = 7
  Half = 128
  MaxBytes = 16
  MaxExp = 15
  Fuel = 20
  F64 <- MCF64
  Texts <- MCTexts
  Candidates <- ForwardConstants
SPECIFICATION FrontSpec
INVARIANT OnlyEarlierConstants
CHECK_DEADLOCK FALSE
