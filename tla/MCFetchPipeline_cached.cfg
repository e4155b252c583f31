SPECIFICATION FairFetchSpec
CONSTANTS
  r1 = r1
  r2 = r2
  Requests <- TwoRequests
  MaxConcurrent = 3
  Urls <- Addresses
  Rule <- ShortToPage
  Remote <- RuledRemote
  Args <- SomeArgs
  MinMode = "basic"
  TTL = 1
  MaxEntries = 2
  FetchTimeout = 1
  ReaderTimeout = 1
  MaxTime = 2
INVARIANTS PermitsConserved NeverStuck PageIsTheOneAskedFor NotTooOld RefreshReadsAgain
PROPERTIES AllServed RestoreEvictsNone
