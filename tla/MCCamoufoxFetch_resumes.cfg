SPECIFICATION FairSpec
CONSTANTS
  p1 = p1
  p2 = p2
  Procs <- TwoProcs
  N = 2
  MaxAttempts = 2
  MaxFaults = 2
INVARIANTS PartIsPrefix MarkedIsFull
PROPERTIES OldInstallKept Resumes FetchEnds Recovers
CHECK_DEADLOCK FALSE
