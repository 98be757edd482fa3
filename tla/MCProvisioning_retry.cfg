\* A run without a configured id and its retry on the same config, on a standalone host.
SPECIFICATION FairSpec
CONSTANTS
  r1 = r1  r2 = r2  n1 = n1  n2 = n2
  NoId = NoId  NoRun = NoRun
  Runs = {r1, r2}
  Nodes = {n1}
  NodeOf <- OneNode
  NameOf <- NamesDiffer
  PinnedId <- NonePinned
  StartOnCreation = {n1}
  Clustered = FALSE
  VmIds = {1, 2}
  FaultSets = {{"refused", "error", "unseen"}}
INVARIANTS
  OneVmPerNode
PROPERTIES
  RunsEnd
CHECK_DEADLOCK FALSE
