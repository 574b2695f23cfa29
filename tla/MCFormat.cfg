CONSTANTS
  MaxInt = 99
  Texts <- MCTexts
  Sources <- NestedTuple
SPECIFICATION SyntaxSpec
INVARIANT AlwaysReparses
CHECK_DEADLOCK FALSE
