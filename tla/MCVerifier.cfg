CONSTANTS
  MaxArgc = 7
  MaxLen = 3
  MaxHeight = 3
  Programs <- MCPrograms
  Heights <- MCHeights
SPECIFICATION Spec
INVARIANTS
  TypeOK
  WalkInv
  Sound
PROPERTIES
  DecidesTypability
  ProcessedOnce
  Terminates
