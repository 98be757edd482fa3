CONSTANTS
  h1 = h1
  h2 = h2
  n1 = n1
  n2 = n2
  n3 = n3
  Hypers <- MCHypers
  NoHyper = NoHyper
  Nodes <- MCNodes
  Configs <- MCConfigs
  Hosts <- MCHosts
  Clustered <- MCClustered
  Steps = 1
  FaultSets <- MCDismiss

SPECIFICATION Spec
CHECK_DEADLOCK FALSE

PROPERTY DismissedNotPopped
