SPECIFICATION Spec
CONSTANTS
  Skews = {"none"}
  Abis = {1}
  Abi = 1
  Versions = {2}
  Required = 2
  Libraries = {"L1"}
  WantLibs = {Unset}
  WantSizes = {Unset}
  Launched = {Unset}
  NumNodes = {Unset, 0, 1, 2}
  NodeSizes = {Unset, 1, 2}
  Nodes = {n1, n2}
  Jobs <- ZeroJobs
  INT_HALF = 4
  Unset = Unset
  Malformed = Malformed
CHECK_DEADLOCK FALSE
INVARIANTS
  CheckedWhenSet
