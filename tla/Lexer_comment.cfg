CONSTANTS
  Texts <- Comments
  Letter = {"x", "u", "if", "int"}
  Keyword <- LexerKeyword
  MaxLiteral = 255
SPECIFICATION LexerSpec
INVARIANTS
  TokensAreOfText
CHECK_DEADLOCK FALSE
