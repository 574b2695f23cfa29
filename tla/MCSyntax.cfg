CONSTANTS
  MaxInt = 99
  Texts <- MCTexts
  Sources <- MCSources
SPECIFICATION SyntaxSpec
INVARIANTS
  SyntaxTypeOK
  TokensAreTheText
  RoundTrips
  FormattingOnlyTidies
  ItemsStandAlone
PROPERTY AlwaysForward
CHECK_DEADLOCK FALSE
