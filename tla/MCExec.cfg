CONSTANTS
  MaxArgc = 7
  Half = 128
  MaxBytes = 16
  MaxExp = 15
  MaxSteps = 60
  MaxLen = 3
  F64 <- MCF64
  Programs <- MCPrograms
SPECIFICATION ExecSpec
INVARIANTS
  ExecTypeOK
  VerifiedRunsSafely
  VerifiedDiscipline
  VerifiedHeightIsExact
  ExitCodeTells
PROPERTIES
  VerifiedCallersUntouched
  Finishes
