--------------------------- MODULE MCDaemonWorker ---------------------------
(* Small instances of DaemonWorker for TLC. *)
EXTENDS DaemonWorker

CONSTANTS c1, c2, i1, t1, t2

TwoConns == {c1, c2}
OneId == {i1}
TwoTasks == {t1, t2}
=============================================================================
