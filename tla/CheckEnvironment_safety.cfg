SPECIFICATION FairSpec
CONSTANTS
  Skews = {"none", "build", "booleans"}
  Abis <- SomeAbis
  Abi = 1
  Versions = {1, 2, 3}
  Required = 2
  Libraries = {"L1", "L2"}
  WantLibs = {Unset, {"L1"}}
  WantSizes = {Unset, 1, 2}
  Launched = {Unset, Malformed, 1, 2}
  NumNodes <- OddValues
  NodeSizes = {Unset, 1, 2}
  Nodes = {n1, n2}
  Jobs <- SafetyJobs
  INT_HALF = 4
  Unset = Unset
  Malformed = Malformed
CHECK_DEADLOCK FALSE
INVARIANTS
  CollectiveOrder
  ReturnMeansConsistent
  OneReturnBindsAll
  NoFalseAlarm
PROPERTIES
  EveryCallEnds
