CONSTANTS
  Temp = {t1, t2, t3, t4}
  NoTemp = NoTemp
  RegCount = 4
  ParamRegCount = 2
  Word = {0, 1}
  Undef = Undef
  Meaning <- MCMeaning
  MaxParams = 2
  MaxArgs = 2
  MaxDepth = 1
  MaxQuads = 6
  Ops = {"ARG", "CALL"}
  Quirks = {"nested"}
SPECIFICATION Spec
SYMMETRY TempSymmetry
INVARIANTS
  NoOtherArgument
CHECK_DEADLOCK FALSE
