-------------------------- MODULE MCBackendClient --------------------------
(* Small instances of BackendClient for TLC. *)
EXTENDS BackendClient

CONSTANTS k1, k2

TwoCalls == {k1, k2}
=============================================================================
