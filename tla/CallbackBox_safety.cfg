SPECIFICATION Spec
SYMMETRY Symmetry
CONSTANTS
  Threads = {t1, t2}
  p1 = p1
  p2 = p2
  p3 = p3
  Procs = {p1, p2, p3}
  GrequestFns <- MCGrequestFns
  DatarepFns <- MCDatarepFns
  Predefined = Predefined
  Values = {v1, v2}
  Extras = {v1}
  Requests = {r1, r2}
  Reps = {d1}
  Addrs = {a1, a2}
  NULL = NULL
  FREE = FREE
  NAME = NAME
  NoCall = NoCall
CHECK_DEADLOCK FALSE
INVARIANTS
  MemorySafe
  NoBlockLost
PROPERTIES
  Refinement
