CONSTANTS
  h1 = h1
  h2 = h2
  n1 = n1
  n2 = n2
  n3 = n3
  Hypers <- MCHypers
  NoHyper = NoHyper
  Nodes <- MCNodes
  Configs <- MCConfigs
  Hosts <- MCHosts
  Clustered <- MCClustered
  Steps = 1
  FaultSets <- MCFaultSets

SPECIFICATION Spec
CONSTRAINT FewVms
CHECK_DEADLOCK FALSE

INVARIANTS
  TypeOK
  RightHypervisor
  MarkedIsMade
  InOrder
  InfoTellsTruth
  AppIntact

PROPERTIES
  PopsOwnInfo
  SyncEnds
