CONSTANTS
  Texts <- MCTexts
  Letter <- MCLetter
  Keyword <- MCKeyword
  MaxLiteral = 255
  MaxPrint = 2
SPECIFICATION Spec
INVARIANTS
  TokensAreOfText
  PositionsAreOfText
  StaysInText
  AcceptsGrammar
  TreeIsOfText
  ErrorsAreKept
  FirstMessageIsRight
PROPERTIES
  RoundsGetOn
