SPECIFICATION Spec
CONSTANTS
  f1 = f1
  f2 = f2
  FrontEnds <- TwoFrontEnds
  Environments <- OneVariable
  CommandLines <- OneOption
INVARIANTS OwnSettings SettingsShareDaemon
CHECK_DEADLOCK FALSE
SYMMETRY Symmetric
