CONSTANTS
  a = a
  b = b
  c = c
  d = d
  Symbol = {a, b, c, d}
  Value = {v, w}
  NoValue = NoValue
  NoSymbol = NoSymbol
  Hash <- MCHash
  InitialSize = 4
  MaxProbe = 2
  MaxSize = 32
  MaxScopes = 3
  MaxStash = 5
SPECIFICATION Spec
INVARIANTS
  LookupFindsInnermost
  CurrentScopeIsInnermost
  InOnePlace
  FindIsRight
  FindEnds
PROPERTIES
  ScopesSpec
  MapSpec
  ExitEnds
  SetEnds
CHECK_DEADLOCK FALSE
