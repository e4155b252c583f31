---------------------------- MODULE BrowserPool ----------------------------
(***************************************************************************)
(* daemon/pool.py under the cancel guard of _scrapling.py: fetches of one  *)
(* asyncio loop share browser sessions, one per (domain, mode) key.  Only  *)
(* an await lets another fetch run, so a step goes from one await to the   *)
(* next.  The clock is the free choice of whether a session has expired.   *)
(***************************************************************************)
EXTENDS FiniteSets, WaitQueue

CONSTANTS
  Fetches,      \* pooled fetch calls; the bound on how many run at once
  Keys,         \* the (registered domain, mode) keys that are asked for
  Sessions,     \* identities of browsers; the bound on how many exist at once
  MaxSessions,  \* max_sessions
  MaxRequests,  \* max_requests
  NoFetch,      \* an unlocked bucket lock
  NoKey,        \* the key of a slot without a call
  NoSession,    \* no bucket under a key, no session in a fetch's hands
  Faults        \* what may go wrong together besides failing fetches and launches

FaultKinds ==
  { "cancel",         \* the task of a fetch is cancelled
    "close_error",    \* session.close() raises and leaves the browser running
    "launch_leaks" }  \* the session factory raises and leaves a browser running

ASSUME FetchesAssumption == IsFiniteSet(Fetches)
ASSUME MaxSessionsAssumption == MaxSessions \in Nat \ {0}
ASSUME MaxRequestsAssumption == MaxRequests \in Nat
ASSUME NoFetchAssumption == NoFetch \notin Fetches
ASSUME NoKeyAssumption == NoKey \notin Keys
ASSUME NoSessionAssumption == NoSession \notin Sessions
ASSUME PoolFaultsAssumption == Faults \subseteq SUBSET FaultKinds

VARIABLES
  pc,       \* the await each fetch is at
  key,      \* the bucket key of each fetch
  cur,      \* the session it launches, uses or closes
  spawned,  \* browsers started since it took its process snapshot
  holder,   \* which fetch is inside the lock of each key
  queue,    \* who waits for that lock, first in first out
  bucket,   \* _buckets: the session under each key
  lru,      \* the order of _buckets, least recently used key first
  served,   \* bucket.requests, 0 where there is no bucket
  open,     \* sessions whose browser process is alive
  faults    \* what goes wrong in this behaviour

vars == <<pc, key, cur, spawned, holder, queue, bucket, lru, served, open, faults>>
locks == <<holder, queue>>
index == <<bucket, lru, served>>

Closing == {"rebuild", "evict", "discard", "undo"}
PCs == Closing \cup
  {"idle", "waiting", "building", "entering", "fetching", "sweep"}

Init ==
  /\ pc = [f \in Fetches |-> "idle"]
  /\ key = [f \in Fetches |-> NoKey]
  /\ cur = [f \in Fetches |-> NoSession]
  /\ spawned = [f \in Fetches |-> {}]
  /\ holder = [k \in Keys |-> NoFetch]
  /\ queue = [k \in Keys |-> <<>>]
  /\ bucket = [k \in Keys |-> NoSession]
  /\ lru = <<>>
  /\ served = [k \in Keys |-> 0]
  /\ open = {}
  /\ faults \in Faults

----------------------------------------------------------------------------
\* Slip: a fetch counts itself once it has a session, not from its start.
InFlightLate == {f \in Fetches : pc[f] \notin {"idle", "sweep", "fetching"}}

\* _INFLIGHT_BROWSER_FETCHES counts the fetches between snapshot and exit.
InFlight == {f \in Fetches : pc[f] \notin {"idle", "sweep"}}

\* A launch gets a process and a session object nobody refers to.
Fresh(s) ==
  /\ s \notin open
  /\ \A k \in Keys : bucket[k] # s
  /\ \A f \in Fetches : cur[f] # s

\* Slip: one session too many before anything is evicted.
FullLate == Len(lru) > MaxSessions

Full == Len(lru) >= MaxSessions

\* Slip: the lock of the victim is not looked at.
EvictableBusy(k) == bucket[k] # NoSession

\* lock.locked() is false between a release and the wakeup of a waiter.
Evictable(k) == bucket[k] # NoSession /\ holder[k] = NoFetch

Unindex(k) ==
  /\ bucket' = [bucket EXCEPT ![k] = NoSession]
  /\ lru' = Without(lru, k)
  /\ served' = [served EXCEPT ![k] = 0]

\* The browsers that may be alive after one that should have ended.
Ended(s, fault) ==
  {open \ {s}} \cup (IF fault \in faults THEN {open} ELSE {})

\* The outcomes of an awaited close().
Closed(s) == Ended(s, "close_error")

----------------------------------------------------------------------------
(* Parts of fetch, each from one await to the next.                        *)

\* _evict_if_full, then the first await of the session factory.
MakeRoom(f) ==
  \/ /\ Full
     /\ \E k \in Keys :
          /\ Evictable(k)
          /\ \A j \in Keys : Evictable(j) => At(lru, k) <= At(lru, j)
          /\ cur' = [cur EXCEPT ![f] = bucket[k]]
          /\ Unindex(k)
     /\ pc' = [pc EXCEPT ![f] = "evict"]
  \/ /\ Full => \A k \in Keys : ~Evictable(k)
     /\ pc' = [pc EXCEPT ![f] = "building"]
     /\ cur' = [cur EXCEPT ![f] = NoSession]
     /\ UNCHANGED index

\* Slip: the quota is compared with > instead of >=.
SpentLate(k) == served[k] > MaxRequests

Spent(k) == served[k] >= MaxRequests

\* The body of fetch once f is inside the lock of k, up to its first await.
Enter(f, k) ==
  \/ /\ bucket[k] # NoSession /\ ~Spent(k)
     /\ pc' = [pc EXCEPT ![f] = "fetching"]
     /\ cur' = [cur EXCEPT ![f] = bucket[k]]
     /\ UNCHANGED index
  \/ /\ bucket[k] # NoSession  \* spent, idle for too long, or too old
     /\ pc' = [pc EXCEPT ![f] = "rebuild"]
     /\ cur' = [cur EXCEPT ![f] = bucket[k]]
     /\ Unindex(k)
  \/ /\ bucket[k] = NoSession
     /\ MakeRoom(f)

\* f leaves the lock, or its place in the queue, and the call.
Leave(f) ==
  /\ key' = [key EXCEPT ![f] = NoKey]
  /\ cur' = [cur EXCEPT ![f] = NoSession]
  /\ holder' = [k \in Keys |-> IF holder[k] = f THEN NoFetch ELSE holder[k]]
  /\ queue' = [k \in Keys |-> Without(queue[k], f)]

Finish(f) ==
  /\ Leave(f)
  /\ pc' = [pc EXCEPT ![f] = "idle"]
  /\ spawned' = [spawned EXCEPT ![f] = {}]

\* CancelledError reaches the guard with the given browsers alive: only the
\* last fetch in flight kills what was started since its snapshot.
LeaveCancelled(f, alive) ==
  \/ /\ InFlight = {f}
     /\ Leave(f)
     /\ pc' = [pc EXCEPT ![f] = "sweep"]
     /\ open' = alive \ spawned[f]
     /\ UNCHANGED spawned
  \/ /\ InFlight # {f}
     /\ Finish(f)
     /\ open' = alive

\* _drop: close the session of f unless the bucket was replaced meanwhile.
Drop(f, label) ==
  /\ bucket[key[f]] = cur[f]
  /\ Unindex(key[f])
  /\ pc' = [pc EXCEPT ![f] = label]
  /\ UNCHANGED <<key, cur, spawned, locks>>

----------------------------------------------------------------------------
(* The steps of a fetch.                                                   *)

\* The call, its process snapshot, and the lock if nobody holds or awaits it.
Start(f, k) ==
  /\ pc[f] = "idle"
  /\ key' = [key EXCEPT ![f] = k]
  /\ IF holder[k] = NoFetch /\ queue[k] = <<>>
       THEN /\ holder' = [holder EXCEPT ![k] = f]
            /\ Enter(f, k)
            /\ UNCHANGED queue
       ELSE /\ queue' = [queue EXCEPT ![k] = Append(@, f)]
            /\ pc' = [pc EXCEPT ![f] = "waiting"]
            /\ UNCHANGED <<holder, cur, index>>
  /\ UNCHANGED <<spawned, open>>

\* A released lock wakes the first waiter.
Granted(f) ==
  /\ pc[f] = "waiting"
  /\ holder[key[f]] = NoFetch
  /\ queue[key[f]] # <<>> /\ Head(queue[key[f]]) = f
  /\ holder' = [holder EXCEPT ![key[f]] = f]
  /\ queue' = [queue EXCEPT ![key[f]] = Tail(@)]
  /\ Enter(f, key[f])
  /\ UNCHANGED <<key, spawned, open>>

\* close() of an expired or evicted session returns.
Reclaimed(f) ==
  /\ pc[f] \in {"rebuild", "evict"}
  /\ MakeRoom(f)
  /\ open' \in Closed(cur[f])
  /\ UNCHANGED <<key, spawned, locks>>

\* The session factory has started a browser process.
Launch(f) ==
  /\ pc[f] = "building"
  /\ \E s \in Sessions :
       /\ Fresh(s)
       /\ cur' = [cur EXCEPT ![f] = s]
       /\ open' = open \cup {s}
       /\ spawned' = [g \in Fetches |->
            IF pc[g] = "idle" THEN spawned[g] ELSE spawned[g] \cup {s}]
  /\ pc' = [pc EXCEPT ![f] = "entering"]
  /\ UNCHANGED <<key, locks, index>>

\* Slip: the bucket lock is not released when the factory raises.
BuildFailsKeepsLock(f) ==
  /\ pc[f] \in {"building", "entering"}
  /\ pc' = [pc EXCEPT ![f] = "idle"]
  /\ cur' = [cur EXCEPT ![f] = NoSession]
  /\ open' \in Ended(cur[f], "launch_leaks")
  /\ UNCHANGED <<key, spawned, locks, index>>

\* The factory raises.  Nothing here closes what it may have started: that is
\* left to playwright.
BuildFails(f) ==
  /\ pc[f] \in {"building", "entering"}
  /\ Finish(f)
  /\ open' \in Ended(cur[f], "launch_leaks")
  /\ UNCHANGED index

\* Slip: the new session is used without being put in its bucket.
BuiltUnindexed(f) ==
  /\ pc[f] = "entering"
  /\ pc' = [pc EXCEPT ![f] = "fetching"]
  /\ UNCHANGED <<key, cur, spawned, locks, index, open>>

\* _build stores the bucket and fetch awaits session.fetch.
Built(f) ==
  /\ pc[f] = "entering"
  /\ bucket' = [bucket EXCEPT ![key[f]] = cur[f]]
  /\ lru' = Append(lru, key[f])
  /\ served' = [served EXCEPT ![key[f]] = 0]
  /\ pc' = [pc EXCEPT ![f] = "fetching"]
  /\ UNCHANGED <<key, cur, spawned, locks, open>>

\* session.fetch delivers a page: counted, touched, and returned ...
Delivered(f) ==
  /\ pc[f] = "fetching" /\ cur[f] \in open
  /\ served' = [served EXCEPT ![key[f]] = @ + 1]
  /\ lru' = Append(Without(lru, key[f]), key[f])
  /\ Finish(f)
  /\ UNCHANGED <<bucket, open>>

\* ... unless it looks like a challenge page, which costs the session, and
\* with it the count.
Suspicious(f) ==
  /\ pc[f] = "fetching" /\ cur[f] \in open
  /\ Drop(f, "discard")
  /\ UNCHANGED open

\* Slip: the bucket is forgotten without closing its session.
FetchErrorUnclosed(f) ==
  /\ pc[f] = "fetching"
  /\ Unindex(key[f])
  /\ Finish(f)
  /\ UNCHANGED open

\* session.fetch raises, as it does when its browser was killed.
FetchError(f) ==
  /\ pc[f] = "fetching"
  /\ Drop(f, "discard")
  /\ UNCHANGED open

\* close() after a challenge page or an error returns, and so does the call.
Discarded(f) ==
  /\ pc[f] = "discard"
  /\ Finish(f)
  /\ open' \in Closed(cur[f])
  /\ UNCHANGED index

----------------------------------------------------------------------------
(* Cancellation, wherever the fetch is suspended.                          *)

CancelWaiting(f) ==
  /\ "cancel" \in faults /\ pc[f] = "waiting"
  /\ LeaveCancelled(f, open)
  /\ UNCHANGED index

\* A launch or a close is cut short: its browser may live on, in no bucket.
CancelHalfway(f) ==
  /\ "cancel" \in faults /\ pc[f] \in Closing \cup {"building", "entering"}
  /\ \E alive \in {open, open \ {cur[f]}} : LeaveCancelled(f, alive)
  /\ UNCHANGED index

\* The except branch of fetch still closes the session ...
CancelFetching(f) ==
  /\ "cancel" \in faults /\ pc[f] = "fetching"
  /\ Drop(f, "undo")
  /\ UNCHANGED open

\* ... and only then does the CancelledError go on.
Undone(f) ==
  /\ pc[f] = "undo"
  /\ \E alive \in Closed(cur[f]) : LeaveCancelled(f, alive)
  /\ UNCHANGED index

\* Slip: a slot that is never used again.
ResweepDone(f) ==
  /\ pc[f] = "sweep"
  /\ pc' = [pc EXCEPT ![f] = "done"]
  /\ open' = open \ spawned[f]
  /\ UNCHANGED <<key, cur, spawned, locks, index>>

\* The second sweep, half a second after the first.
Resweep(f) ==
  /\ pc[f] = "sweep"
  /\ pc' = [pc EXCEPT ![f] = "idle"]
  /\ spawned' = [spawned EXCEPT ![f] = {}]
  /\ open' = open \ spawned[f]
  /\ UNCHANGED <<key, cur, locks, index>>

----------------------------------------------------------------------------
Proceed(f) ==
  /\ \/ Granted(f) \/ Reclaimed(f) \/ Launch(f) \/ BuildFails(f) \/ Built(f)
     \/ Delivered(f) \/ Suspicious(f) \/ FetchError(f) \/ Discarded(f)
     \/ Undone(f) \/ Resweep(f)
  /\ UNCHANGED faults

Cancel(f) ==
  /\ CancelWaiting(f) \/ CancelHalfway(f) \/ CancelFetching(f)
  /\ UNCHANGED faults

Next ==
  \E f \in Fetches :
    \/ (\E k \in Keys : Start(f, k)) /\ UNCHANGED faults
    \/ Proceed(f)
    \/ Cancel(f)

Spec == Init /\ [][Next]_vars

\* Every await ends: fetches and launches have timeouts, closes are assumed
\* to return, and asyncio runs every ready task.
FairSpec == Spec /\ \A f \in Fetches : WF_vars(Proceed(f))

----------------------------------------------------------------------------
(* Every variable has its type; the index holds keys and sessions.         *)
TypeOK ==
  /\ pc \in [Fetches -> PCs]
  /\ key \in [Fetches -> Keys \cup {NoKey}]
  /\ cur \in [Fetches -> Sessions \cup {NoSession}]
  /\ spawned \in [Fetches -> SUBSET Sessions]
  /\ holder \in [Keys -> Fetches \cup {NoFetch}]
  /\ queue \in [Keys -> Seq(Fetches)]
  /\ bucket \in [Keys -> Sessions \cup {NoSession}]
  /\ lru \in Seq(Keys)
  /\ served \in [Keys -> Nat]
  /\ open \subseteq Sessions
  /\ faults \subseteq FaultKinds

(* One browser context never has two users: no two calls launch, use or    *)
(* close the same session, whatever is evicted, expired or cancelled.      *)
NoSharedSession ==
  \A f, g \in Fetches : f # g /\ cur[f] # NoSession => cur[f] # cur[g]

(* The session a call is fetching with stays in its bucket until that call *)
(* takes it out: eviction never tears down a session in flight, and the    *)
(* early return of _drop is never taken by a fetch.                        *)
InUseStays ==
  \A f \in Fetches : pc[f] = "fetching" => bucket[key[f]] = cur[f]

(* A session serves at most max_requests pages, the one it is asked for    *)
(* included: the count made after a fetch and the check made before the    *)
(* next one leave no request between.  With max_requests = 0 every session *)
(* still serves one.                                                       *)
QuotaKept ==
  /\ \A k \in Keys : served[k] <= MaxRequests \/ served[k] <= 1
  /\ \A f \in Fetches :
       pc[f] = "fetching" => served[key[f]] < MaxRequests \/ served[key[f]] = 0

(* Concurrent misses may each find room and each add a session, but never  *)
(* more than one each: the pool exceeds max_sessions by less than the      *)
(* number of concurrent calls, and one caller alone never exceeds it.      *)
PoolBound == Len(lru) <= MaxSessions + Cardinality(Fetches) - 1

(* The pool's own contract for browser processes: where no call is         *)
(* cancelled, every close() ends its browser and a failing launch leaves   *)
(* none behind, each failing fetch, challenge page, expiry and eviction    *)
(* leaves every live browser in the pool or in the hands of a call that    *)
(* will pool it or close it.                                               *)
NothingForgotten ==
  faults = {} =>
    \A s \in open : \/ \E k \in Keys : bucket[k] = s
                    \/ \E f \in Fetches : cur[f] = s

(* The sweep a cancelled call makes at once never kills the browser of a   *)
(* call that is fetching.  (The one half a second later may.)              *)
SparesSiblings ==
  [][\A f, g \in Fetches :
       (/\ f # g
        /\ pc[f] \notin {"idle", "sweep"} /\ pc'[f] \in {"idle", "sweep"}
        /\ pc[g] = "fetching" /\ cur[g] \in open)
       => cur[g] \in open']_vars

(* Once no new call arrives, every call in flight returns: no lock is kept *)
(* and no waiter forgotten, and the evictions of concurrent misses end.    *)
Drains ==
  (<>[][\A f \in Fetches, k \in Keys : ~Start(f, k)]_vars)
    => <>[](\A f \in Fetches : pc[f] = "idle")
=============================================================================
