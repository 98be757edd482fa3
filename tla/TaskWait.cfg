\* A short wait, exchanges slower than the wait's own period, every fault.
SPECIFICATION FairSpec
CONSTANTS
  MaxWait = 4
  MaxLatency = 2
  Horizon = 13
  Faults = {"refused", "lost", "unreadable", "broken"}
INVARIANTS
  TimeoutIsHonest
  WaitIsBounded
PROPERTIES
  WaitEnds
  ImplementsPromise
CHECK_DEADLOCK FALSE
