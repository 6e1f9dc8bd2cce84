CONSTANTS
  Process = {p, q}
  Text = {"good", "fine", "wrong"}
  Valid = {"good", "fine"}
  Sources = {"a.mug", "b.mug"}
  Outputs = {"x", "y", "-s", "-c", "-o", "-ox", "-x"}
  Joined <- MCJoined
  Long = {"y"}
  Argvs <- MCArgvs
  Shareable <- MCShareable
  Faults = {"read", "open", "tool"}
  MaxRuns = 3
SPECIFICATION Spec
INVARIANTS
  OptionsAsInHelp
PROPERTIES
  ValidSourceIsBuilt
CHECK_DEADLOCK FALSE
