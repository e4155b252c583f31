SPECIFICATION Spec
CONSTANTS
  c1 = c1
  c2 = c2
  c3 = c3
  d1 = d1
  d2 = d2
  d3 = d3
  NoCaller = NoCaller
  NoDaemon = NoDaemon
  Callers <- ThreeCallers
  Daemons <- ThreeDaemons
  Faults <- ToleratedFaults
PROPERTY ImplementsOneDaemon
SYMMETRY Symmetric
INVARIANT AtMostOneUp
INVARIANT ServingReachable
