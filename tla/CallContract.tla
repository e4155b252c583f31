---------------------------- MODULE CallContract ----------------------------
(***************************************************************************)
(* What BackendClient promises a tool call, abstractly: it ends once, and  *)
(* it returns a page only when a daemon has fetched a page for that very   *)
(* call.  A page may be fetched for a call that has ended without it, and  *)
(* more than once.                                                         *)
(***************************************************************************)
CONSTANT Calls

VARIABLES
  outcome,  \* how each call ended
  fetched   \* the calls some daemon has fetched a page for

Failures == {"error", "timeout", "unavailable", "cancelled"}

Init ==
  /\ outcome = [k \in Calls |-> "none"]
  /\ fetched = {}

Fetch(k) == fetched' = fetched \cup {k} /\ UNCHANGED outcome

Return(k) ==
  /\ outcome[k] = "none" /\ k \in fetched
  /\ outcome' = [outcome EXCEPT ![k] = "page"]
  /\ UNCHANGED fetched

Fail(k, why) ==
  /\ outcome[k] = "none"
  /\ outcome' = [outcome EXCEPT ![k] = why]
  /\ UNCHANGED fetched

Next ==
  \E k \in Calls : Fetch(k) \/ Return(k) \/ \E why \in Failures : Fail(k, why)

Spec == Init /\ [][Next]_<<outcome, fetched>>
=============================================================================
