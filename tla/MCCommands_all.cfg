\* Two commands on two hosts of a cluster, or on a standalone one.
SPECIFICATION FairSpec
CONSTANTS
  p1 = p1  p2 = p2
  NoId = NoId  NoName = NoName
  Procs = {p1, p2}
  VmIds = {1, 2, 3}
  Iso = "FluxLive"
  MaxTries = 3
  Worlds <- AllWorlds
INVARIANTS
  PreflightIsExact
  OneVmPerName
  ReportIsTrue
  IsoIsStaged
PROPERTIES
  CommandsEnd
CHECK_DEADLOCK FALSE
