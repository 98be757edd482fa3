\* Two runs: outcomes may go unseen, or else freed ids are given again.
SPECIFICATION FairSpec
CONSTANTS
  r1 = r1  r2 = r2  m1 = m1  m2 = m2  m3 = m3  v1 = v1  v2 = v2  a = a  b = b
  NoVm = NoVm  NoId = NoId
  Runs = {r1, r2}
  Prechecks = {r2}
  Prompted = {r1}
  Vms = {m1, m2, m3}
  VmIds = {v1, v2}
  Names = {a, b}
  NameOf <- Named
  Asked <- AskedNameAndId
  FaultSets = {{"refused", "error", "hung", "unseen"}, {"error", "hung", "reuse"}}
INVARIANTS
  TrueMeansGone
  HardStopIsLast
  FalseMeansKept
PROPERTIES
  KeptIdsOnlyAskedDeleted
  RunsEnd
CHECK_DEADLOCK FALSE
