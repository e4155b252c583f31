SPECIFICATION FairSpec
CONSTANTS
  c1 = c1
  c2 = c2
  c3 = c3
  d1 = d1
  d2 = d2
  d3 = d3
  NoCaller = NoCaller
  NoDaemon = NoDaemon
  Callers <- TwoCallers
  Daemons <- TwoDaemons
  Faults <- AllFaults
INVARIANTS TypeOK SpawnLockExclusive
PROPERTIES StaleLockBroken SpawnLockReleased
CHECK_DEADLOCK FALSE
