CONSTANTS
  MaxArgc = 7
  Half = 128
  MaxBytes = 16
  MaxExp = 15
  MirSteps = 120
  MaxDepth = 12
  MaxIterations = 8
  Fuel = 20
  MeaningOf <- FueledMeaning
  RoundOf <- Round
  BuildOf <- Build
  F64 <- MCF64
  Texts <- MCTexts
  Corpus <- MirCorpus
SPECIFICATION EnginesSpec
INVARIANTS
  EnginesTypeOK
  MirWellFormed
  RewritesHold
  MirMeansTheSame
PROPERTIES
  EngineStops
