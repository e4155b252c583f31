SPECIFICATION Spec
CONSTANTS
  f1 = f1
  f2 = f2
  FrontEnds <- OneFrontEnd
  Environments <- OneVariable
  CommandLines <- OneOption
INVARIANT DaemonFound
CHECK_DEADLOCK FALSE
