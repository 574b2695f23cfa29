CONSTANTS
  MaxArgc = 7
  Half = 128
  MaxBytes = 16
  MaxExp = 15
  Fuel = 20
  F64 <- MCF64
  Texts <- MCTexts
  Candidates <- MCCandidates
SPECIFICATION FrontSpec
INVARIANTS
  FrontTypeOK
  UsesAreLexical
  ErrorsMatchMistakes
  AcceptedDoNotGoWrong
  LoweringMeansTheSame
  NoPlaceholders
CHECK_DEADLOCK FALSE
