SPECIFICATION Spec
CONSTANTS
  MaxRank = 2
  ElemLens = {4}
  Sizes = {4}
  Extents = {4}
  Shapes = {0, 1, 2}
  Strides = {4, 8}
  Counts = {0, 1, 2}
CHECK_DEADLOCK FALSE
INVARIANTS
  ExcessIsAnError
