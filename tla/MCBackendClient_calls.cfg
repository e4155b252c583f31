SPECIFICATION FairSpec
CONSTANTS
  k1 = k1
  k2 = k2
  NoCall = NoCall
  Calls <- TwoCalls
  MaxRetries = 1
  MaxFaults = 2
INVARIANTS NoDuplicateId NoOneWaitsInVain
PROPERTIES EveryCallEnds ImplementsContract
CHECK_DEADLOCK FALSE
