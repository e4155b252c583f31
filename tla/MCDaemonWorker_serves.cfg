SPECIFICATION FairSpec
CONSTANTS
  c1 = c1
  c2 = c2
  i1 = i1
  t1 = t1
  t2 = t2
  NoTask = NoTask
  NoId = NoId
  Conns <- TwoConns
  Ids <- OneId
  Tasks <- TwoTasks
  Hangs = TRUE
INVARIANTS TableExact FirstFrameDecides PoolClosedAlone
PROPERTIES CancelEnds EveryFetchAnswered ExitsUnlessHung
CHECK_DEADLOCK FALSE
