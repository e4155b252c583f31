SPECIFICATION Spec
CONSTANTS
  c1 = c1
  c2 = c2
  c3 = c3
  d1 = d1
  d2 = d2
  d3 = d3
  NoCaller = NoCaller
  NoDaemon = NoDaemon
  Callers <- TwoCallers
  Daemons <- ThreeDaemons
  Faults <- Stops
SYMMETRY Symmetric
INVARIANT AtMostOneServing
CHECK_DEADLOCK FALSE
