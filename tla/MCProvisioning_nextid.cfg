\* Two runs at once that let Proxmox give the id, and nothing goes wrong.
SPECIFICATION Spec
CONSTANTS
  r1 = r1  r2 = r2  n1 = n1  n2 = n2
  NoId = NoId  NoRun = NoRun
  Runs = {r1, r2}
  Nodes = {n1, n2}
  NodeOf <- TwoNodes
  NameOf <- NamesDiffer
  PinnedId <- NonePinned
  StartOnCreation = {n1}
  Clustered = TRUE
  VmIds = {1, 2}
  FaultSets = {{}}
PROPERTIES
  NoForeignDelete
CHECK_DEADLOCK FALSE
