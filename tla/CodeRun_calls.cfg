CONSTANTS
  Temp = {t1, t2, t3, t4}
  NoTemp = NoTemp
  RegCount = 4
  ParamRegCount = 2
  Word = {0, 1}
  Undef = Undef
  Meaning <- MCMeaning
  MaxParams = 3
  MaxArgs = 3
  MaxDepth = 0
  MaxQuads = 5
  Ops = {"ARG", "CALL"}
  Quirks = {}
SPECIFICATION Spec
SYMMETRY TempSymmetry
INVARIANTS
  TypeOK
  CallPassesArguments
  FrameHoldsEverything
  CallerKeepsFrame
CHECK_DEADLOCK FALSE
