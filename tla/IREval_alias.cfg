CONSTANTS
  Width = 3
  Fuel = 12
  Programs <- AliasPrograms
  MaxCalls = 3
  MaxTemps = 32
SPECIFICATION Spec
INVARIANTS EvaluatorAgrees
CHECK_DEADLOCK FALSE
