SPECIFICATION Spec
SYMMETRY Symmetry
CONSTANTS
  Threads = {t1, t2}
  Procs = {p1, p2}
  Kinds = {"comm", "file"}
  Ids = {1}
  Handles = {h1, h2}
  MPIF_ERRHANDLER_SLOTS = 2
  MaxRefs = 2
  NULL = NULL
  ERRHANDLER_NULL = ERRHANDLER_NULL
  NoCall = NoCall
INVARIANTS
  SlotOwnership
  NamedHandlersExist
  NoSlotLost
PROPERTIES
  Refinement
