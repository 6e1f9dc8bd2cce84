CONSTANTS
  Width = 3
  Fuel = 12
  Programs <- AllPrograms
  MaxCalls = 6
  MaxTemps = 32
SPECIFICATION Spec
INVARIANTS
  EvaluatorAgrees
  AcceptedIsMeaningful
  TempsOfRoutine
  QuadsFitGenerator
PROPERTIES
  EvaluationEnds
CHECK_DEADLOCK FALSE
