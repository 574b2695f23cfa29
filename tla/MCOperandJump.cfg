CONSTANTS
  MaxArgc = 7
  Half = 128
  MaxBytes = 16
  MaxExp = 15
  MaxSteps = 300
  MaxIterations = 8
  Fuel = 40
  F64 <- MCF64
  Texts <- MCTexts
  MeaningOf <- FueledMeaning
  RoundOf <- Round
  CodeOf <- Generate
  Asked <- CodeCommands
  Corpus <- OperandJumps
  Programs <- NoPrograms
SPECIFICATION SessionSpec
INVARIANT
  EmittedVerifies
