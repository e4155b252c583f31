----------------------------- MODULE Admission -----------------------------
(***************************************************************************)
(* The global ConcurrencyGuard of a daemon and the two places a fetch      *)
(* passes through it: _run_fetch of daemon/worker.py takes a permit around *)
(* the whole wrapper, and browse_url of _scrapling.py, which the wrapper   *)
(* calls on a cache miss, takes another from the same semaphore.  Time is  *)
(* the free choice of when a timeout fires.                                *)
(***************************************************************************)
EXTENDS FiniteSets, WaitQueue

CONSTANTS
  Requests,      \* fetch requests; the bound on how many run at once
  MaxConcurrent  \* max_concurrent

ASSUME RequestsAssumption == IsFiniteSet(Requests)
ASSUME MaxConcurrentAssumption == MaxConcurrent \in Nat \ {0}

VARIABLES
  pc,      \* where each request is
  queue,   \* who waits for a permit, first in first out
  free     \* permits nobody holds

vars == <<pc, queue, free>>

Waiting == {"outer", "inner"}
PCs == Waiting \cup {"idle", "inside", "browsing", "converting"}

Init ==
  /\ pc = [r \in Requests |-> "idle"]
  /\ queue = <<>>
  /\ free = MaxConcurrent

----------------------------------------------------------------------------
Active == {r \in Requests : pc[r] # "idle"}
InWrapper == {r \in Requests : pc[r] \in PCs \ {"idle", "outer"}}
Browsing == {r \in Requests : pc[r] = "browsing"}

\* async with guard: a permit at once, or a place in the queue.
Enter(r, waiting, inside) ==
  \/ /\ free > 0 /\ queue = <<>>
     /\ pc' = [pc EXCEPT ![r] = inside]
     /\ free' = free - 1
     /\ UNCHANGED queue
  \/ /\ free = 0 \/ queue # <<>>
     /\ pc' = [pc EXCEPT ![r] = waiting]
     /\ queue' = Append(queue, r)
     /\ UNCHANGED free

\* Slip: the permit of the wrapper is released, that of browse_url is not.
HeldOuter(r) == IF r \in InWrapper THEN 1 ELSE 0

\* The permits a request gives back when it leaves every async with.
Held(r) ==
  (IF r \in InWrapper THEN 1 ELSE 0) + (IF r \in Browsing THEN 1 ELSE 0)

\* r leaves _run_fetch from wherever it is and sends its last frame.
End(r) ==
  /\ pc' = [pc EXCEPT ![r] = "idle"]
  /\ free' = free + Held(r)
  /\ queue' = Without(queue, r)

----------------------------------------------------------------------------
\* A fetch frame makes a task, which asks for the first permit.
Dispatch(r) == pc[r] = "idle" /\ Enter(r, "outer", "inside")

\* A permit goes to the head of the queue.
Granted(r) ==
  /\ pc[r] \in Waiting
  /\ free > 0 /\ queue # <<>> /\ Head(queue) = r
  /\ queue' = Tail(queue)
  /\ free' = free - 1
  /\ pc' = [pc EXCEPT ![r] = IF @ = "outer" THEN "inside" ELSE "browsing"]

\* The page is not in the cache: browse_url asks for the second permit.
Miss(r) == pc[r] = "inside" /\ Enter(r, "inner", "browsing")

\* Slip: the permit of browse_url is not given back.
BrowsedKeepsPermit(r) ==
  /\ pc[r] = "browsing"
  /\ pc' = [pc EXCEPT ![r] = "converting"]
  /\ UNCHANGED <<free, queue>>

\* browse_url returns and gives its permit back.
Browsed(r) ==
  /\ pc[r] = "browsing"
  /\ pc' = [pc EXCEPT ![r] = "converting"]
  /\ free' = free + 1
  /\ UNCHANGED queue

\* A cached page, or the browsed one, is converted and sent.
Answer(r) == pc[r] \in {"inside", "converting"} /\ End(r)

\* The wrapper raises, also by fetch_timeout around browse_url.
Fail(r) == r \in InWrapper /\ End(r)

\* acquire_timeout passes at either permit: ConcurrencyLimitError.
Refuse(r) == pc[r] \in Waiting /\ End(r)

\* The cancel op, wherever the task is suspended.
Cancel(r) == pc[r] # "idle" /\ End(r)

----------------------------------------------------------------------------
Step(r) == Granted(r) \/ Miss(r) \/ Browsed(r) \/ Answer(r)

Next ==
  \E r \in Requests :
    Dispatch(r) \/ Step(r) \/ Fail(r) \/ Refuse(r) \/ Cancel(r)

Spec == Init /\ [][Next]_vars

\* A ready task runs and a browse comes back; neither the timeouts of the
\* guard nor the fetch_timeout around a wait for it are relied upon.
FairSpec == Spec /\ \A r \in Requests : WF_vars(Step(r))

----------------------------------------------------------------------------
(* Every variable has its type.                                            *)
TypeOK ==
  /\ pc \in [Requests -> PCs]
  /\ queue \in Seq(Requests)
  /\ free \in 0..MaxConcurrent

(* No permit is lost or made up, whether a request ends by its page, an    *)
(* error, a refusal or a cancellation, at the first permit or the second.  *)
PermitsConserved ==
  free + Cardinality(InWrapper) + Cardinality(Browsing) = MaxConcurrent

(* With fewer requests than permits the two acquisitions cannot starve     *)
(* each other: whenever no permit is free, somebody who holds one is not   *)
(* waiting for another.                                                    *)
NeverStuck ==
  \/ free > 0
  \/ \E r \in Requests : pc[r] \in {"inside", "browsing", "converting"}

(* Then every request gets its answer although no timeout, no error and no *)
(* cancellation takes one out of the way of the others.                    *)
AllServed == \A r \in Requests : pc[r] # "idle" ~> pc[r] = "idle"

(* README.md:188 and _concurrency.py:13-14: requests beyond max_concurrent  *)
(* queue and may be refused; as long as there are none beyond it, one that *)
(* holds a permit can go on and no set of them waits for one another.      *)
NeverStuckUpToLimit == Cardinality(Active) <= MaxConcurrent => NeverStuck
=============================================================================
