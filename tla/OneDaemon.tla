----------------------------- MODULE OneDaemon -----------------------------
(***************************************************************************)
(* What ensure_daemon promises for one (version, config hash): there is at *)
(* most one daemon process, it becomes reachable once, and it stays        *)
(* reachable until its process is gone.                                    *)
(***************************************************************************)
CONSTANT Daemons

VARIABLES
  running,  \* the daemon processes that exist
  ready     \* those a front end finds and gets an answer from

Init == running = {} /\ ready = {}

Start(d) == running = {} /\ running' = {d} /\ UNCHANGED ready

BecomeReady(d) ==
  d \in running /\ ready = {} /\ ready' = {d} /\ UNCHANGED running

Exit(d) == running = {d} /\ running' = {} /\ ready' = {}

Next == \E d \in Daemons : Start(d) \/ BecomeReady(d) \/ Exit(d)

Spec == Init /\ [][Next]_<<running, ready>>
=============================================================================
