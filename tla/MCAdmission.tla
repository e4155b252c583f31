---------------------------- MODULE MCAdmission ----------------------------
(* Small instances of Admission for TLC. *)
EXTENDS Admission

CONSTANTS r1, r2, r3

ThreeRequests == {r1, r2, r3}
=============================================================================
