\* Two runs at once under ids of their own: everything that can go wrong, or only
\* what is seen.
SPECIFICATION Spec
CONSTANTS
  r1 = r1  r2 = r2  n1 = n1  n2 = n2
  NoId = NoId  NoRun = NoRun
  Runs = {r1, r2}
  Nodes = {n1, n2}
  NodeOf <- TwoNodes
  NameOf <- NamesEqual
  PinnedId <- PinnedDistinct
  StartOnCreation = {n1}
  Clustered = TRUE
  VmIds = {1, 2}
  FaultSets = {{"refused", "error", "undeletable", "unseen", "crash"}, {"refused", "error"}}
INVARIANTS
  OwnImages
  SuccessIsTrue
  NothingLeftBehind
  FailureLeavesNoVm
PROPERTIES
  NoForeignDelete
  SeenCreateKeepsImages
  ImplementsRegistry
CHECK_DEADLOCK FALSE
