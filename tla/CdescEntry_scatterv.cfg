SPECIFICATION Spec
CONSTANTS
  Routines <- MCScatterv_init
  MaxProcs = 3
  MaxDims = 2
INVARIANT SectionDescribed
