-------------------------- MODULE MCCamoufoxFetch --------------------------
(* Small instances of CamoufoxFetch for TLC. *)
EXTENDS CamoufoxFetch

CONSTANTS p1, p2

TwoProcs == {p1, p2}
=============================================================================
