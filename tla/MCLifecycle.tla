---------------------------- MODULE MCLifecycle ----------------------------
(* Small instances of Lifecycle for TLC. *)
EXTENDS Lifecycle, TLC

CONSTANTS c1, c2, c3, d1, d2, d3

TwoCallers == {c1, c2}
ThreeCallers == {c1, c2, c3}
TwoDaemons == {d1, d2}
ThreeDaemons == {d1, d2, d3}

Stops == {"graceful_stop"}
AllFaults == FaultKinds

\* Callers and daemons are interchangeable; only for runs without liveness.
Symmetric == Permutations(Callers) \cup Permutations(Daemons)
=============================================================================
