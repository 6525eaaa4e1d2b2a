SPECIFICATION Spec
SYMMETRY Symmetry
CONSTANTS
  Threads = {t1}
  Procs = {p1, p2}
  Predefined = Predefined
  Kinds = {"comm", "comm_10"}
  Keyvals = {1, 2}
  MPIF_MAX_KEYVALS = 1
  Allocators = {FALSE}
  MaxAttrs = 1
  NULL = NULL
  NoCall = NoCall
PROPERTIES
  Refinement
