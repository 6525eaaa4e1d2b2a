SPECIFICATION Spec
SYMMETRY Symmetry
CONSTANTS
  Threads = {t1, t2}
  Procs = {p1, p2}
  Handles = {h1, h2}
  MPIF_OP_SLOTS = 2
  MaxPending = 1
  NULL = NULL
  OP_NULL = OP_NULL
  NoCall = NoCall
INVARIANTS
  TypeOK
  SlotOwnership
  NoSlotLost
PROPERTIES
  FreshTrampoline
  RefusalIsJustified
  ReturnIsTruthful
  Refinement
