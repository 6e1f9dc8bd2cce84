CONSTANTS
  Temp = {t1, t2, t3, t4}
  NoTemp = NoTemp
  RegCount = 4
  ParamRegCount = 2
  Word = {0, 1}
  Undef = Undef
  Meaning <- MCMeaning
  MaxParams = 3
  MaxArgs = 0
  MaxDepth = 0
  MaxQuads = 3
  Ops = {"MOV_IM", "MOV", "NEG", "ADD", "MUL", "DIV", "IDIV", "LT", "RET"}
  Quirks = {}
SPECIFICATION Spec
SYMMETRY TempSymmetry
INVARIANTS
  RegistersAgree
  QueueHoldsEachOnce
  HomeHoldsValue
  ReturnDeliversValue
CHECK_DEADLOCK FALSE
