SPECIFICATION FairSpec
CONSTANTS
  f1 = f1
  f2 = f2
  k1 = k1
  k2 = k2
  k3 = k3
  s1 = s1
  s2 = s2
  s3 = s3
  NoFetch = NoFetch
  NoKey = NoKey
  NoSession = NoSession
  Fetches <- TwoFetches
  Sessions <- ThreeSessions
  MaxSessions = 1
  MaxRequests = 2
  Faults <- NoneOrAll
  Keys <- ThreeKeys
INVARIANTS TypeOK QuotaKept PoolBound NoSharedSession InUseStays NothingForgotten
PROPERTIES SparesSiblings Drains

