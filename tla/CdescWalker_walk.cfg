SPECIFICATION Spec
CONSTANTS
  MaxRank = 3
  ElemLens = {2, 4}
  Sizes = {0, 1, 2}
  Extents = {2, 4}
  Shapes = {0, 1, 2, 3}
  Strides <- SignedStrides
  Counts = {0, 1, 4, 6, 12}
CHECK_DEADLOCK FALSE
INVARIANTS
  SelectsTheSection
  DenseMeansExtent
  RefusedForAReason
  TypesBalanced
