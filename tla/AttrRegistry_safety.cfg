SPECIFICATION Spec
SYMMETRY Symmetry
CONSTANTS
  Threads = {t1, t2}
  Procs = {p1}
  Predefined = Predefined
  Kinds = {"comm"}
  Keyvals = {1, 2, 3}
  MPIF_MAX_KEYVALS = 2
  Allocators = {TRUE, FALSE}
  MaxAttrs = 0
  NULL = NULL
  NoCall = NoCall
INVARIANTS
  EntriesUnique
  IssuedMeansRegistered
  TableGrowth
PROPERTIES
  RefusalLeavesNoEntry
