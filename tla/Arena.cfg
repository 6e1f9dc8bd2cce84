CONSTANTS
  BlockSize = 10
  Header = 2
  Request <- MCRequest
  Address = {3, 14, 25}
SPECIFICATION Spec
INVARIANTS
  PiecesFit
  ListHasHeap
PROPERTIES
  PiecesSpec
