------------------------- MODULE BrowserPoolProofs -------------------------
(* Theorems about BrowserPool for any number of calls, keys and browsers,  *)
(* any limits, and cancellations and failing closes wherever they strike.  *)
EXTENDS BrowserPool, WaitQueueProofs

Inside == PCs \ {"idle", "waiting", "sweep"}

(* A key's lock and the calls between its acquisition and release agree.   *)
LockAgrees ==
  /\ \A k \in Keys : holder[k] # NoFetch =>
       pc[holder[k]] \in Inside /\ key[holder[k]] = k
  /\ \A f \in Fetches : pc[f] \in Inside =>
       key[f] \in Keys /\ holder[key[f]] = f
  /\ \A f \in Fetches : pc[f] = "waiting" => key[f] \in Keys

(* Calls that have no session yet, or no more.                             *)
EmptyHanded ==
  \A f \in Fetches :
    pc[f] \in {"idle", "waiting", "building", "sweep"} => cur[f] = NoSession

(* While the holder of a lock is not fetching its bucket is empty.         *)
Vacant ==
  \A f \in Fetches :
    pc[f] \in Inside /\ pc[f] # "fetching" => bucket[key[f]] = NoSession

(* A session in a call's hands is in the pool only while it fetches.       *)
Unpooled ==
  \A f \in Fetches, k \in Keys :
    cur[f] # NoSession /\ bucket[k] = cur[f] => pc[f] = "fetching"

(* No session is in two buckets.                                           *)
OneBucket ==
  \A j, k \in Keys : j # k /\ bucket[j] # NoSession => bucket[j] # bucket[k]

(* A call that is about to use a session, or uses one, has one.            *)
Handed == \A f \in Fetches : pc[f] \in {"entering", "fetching"} => cur[f] # NoSession

PoolInv ==
  /\ TypeOK /\ LockAgrees /\ EmptyHanded /\ Vacant /\ Unpooled /\ OneBucket
  /\ NoSharedSession /\ InUseStays

----------------------------------------------------------------------------
(* Initially nothing is locked, pooled or open.                            *)
LEMMA PoolInit == Init => PoolInv /\ Handed /\ QuotaKept
  BY NoFetchAssumption, NoSessionAssumption, MaxRequestsAssumption,
     PoolFaultsAssumption
  DEF Init, PoolInv, TypeOK, LockAgrees, EmptyHanded, Vacant, Unpooled,
      OneBucket, NoSharedSession, InUseStays, Handed, QuotaKept, PCs, Closing,
      Inside

(* What a call does inside the lock of k up to an await: it got the lock   *)
(* just now, or it has removed a session and goes on with its own.         *)
Entered(f, k) ==
  /\ \/ pc[f] \in {"idle", "waiting"} /\ holder[k] = NoFetch
     \/ pc[f] \in {"rebuild", "evict"} /\ key[f] = k
  /\ key' = [key EXCEPT ![f] = k]
  /\ holder' = [holder EXCEPT ![k] = f]
  /\ queue' \in [Keys -> Seq(Fetches)]
  /\ Enter(f, k)
  /\ open' \subseteq Sessions
  /\ UNCHANGED <<spawned, faults>>

(* Entering keeps the invariant: a session is taken from the pool only     *)
(* when its bucket is the caller's own or nobody holds its lock.           *)
LEMMA EnterStep ==
  ASSUME PoolInv, NEW f \in Fetches, NEW k \in Keys, Entered(f, k)
  PROVE  PoolInv'
<1> USE NoFetchAssumption, NoSessionAssumption
    DEF Entered, PoolInv
<1>1. bucket[k] # NoSession => holder[k] = NoFetch
  BY DEF Vacant, Inside, PCs, Closing
<1>0. ASSUME NEW j \in Keys, bucket[j] # NoSession, holder[j] = NoFetch,
             NEW g \in Fetches
      PROVE  cur[g] # bucket[j]
  <2> SUFFICES ASSUME cur[g] = bucket[j] PROVE FALSE
    OBVIOUS
  <2>1. pc[g] = "fetching" /\ bucket[key[g]] = cur[g]
    BY <1>0 DEF Unpooled, InUseStays
  <2>2. key[g] \in Keys /\ holder[key[g]] = g
    BY <2>1 DEF LockAgrees, Inside, PCs
  <2> QED BY <1>0, <2>1, <2>2 DEF OneBucket
<1>2. CASE /\ bucket[k] # NoSession
           /\ pc' = [pc EXCEPT ![f] = "fetching"]
           /\ cur' = [cur EXCEPT ![f] = bucket[k]]
           /\ UNCHANGED index
  <2>1. TypeOK'
    BY <1>2 DEF TypeOK, index, PCs
  <2>2. LockAgrees'
    BY <1>1, <1>2 DEF TypeOK, LockAgrees, Inside, PCs, Closing
  <2>3. NoSharedSession'
    BY <1>0, <1>1, <1>2 DEF TypeOK, NoSharedSession
  <2>4. EmptyHanded' /\ Vacant' /\ Unpooled' /\ OneBucket' /\ InUseStays'
    BY <1>0, <1>1, <1>2 DEF TypeOK, LockAgrees, EmptyHanded, Vacant, Unpooled,
           OneBucket, InUseStays, index, Inside, PCs, Closing
  <2> QED BY <2>1, <2>2, <2>3, <2>4
<1>3. ASSUME NEW j \in Keys, NEW label \in {"rebuild", "evict"},
             bucket[j] # NoSession, holder[j] = NoFetch,
             label = "rebuild" => j = k, label = "evict" => bucket[k] = NoSession,
             pc' = [pc EXCEPT ![f] = label],
             cur' = [cur EXCEPT ![f] = bucket[j]],
             Unindex(j)
      PROVE  PoolInv'
  <2>1. TypeOK'
    BY <1>3, WithoutType DEF TypeOK, Unindex, PCs, Closing
  <2>2. LockAgrees'
    BY <1>1, <1>3 DEF TypeOK, LockAgrees, Inside, PCs, Closing
  <2>3. NoSharedSession'
    BY <1>0, <1>1, <1>3 DEF TypeOK, NoSharedSession
  <2>4. EmptyHanded' /\ Vacant' /\ Unpooled' /\ OneBucket' /\ InUseStays'
    BY <1>0, <1>1, <1>3 DEF TypeOK, LockAgrees, EmptyHanded, Vacant, Unpooled,
           OneBucket, InUseStays, Unindex, Inside, PCs, Closing
  <2> QED BY <2>1, <2>2, <2>3, <2>4
<1>4. CASE /\ bucket[k] = NoSession
           /\ pc' = [pc EXCEPT ![f] = "building"]
           /\ cur' = [cur EXCEPT ![f] = NoSession]
           /\ UNCHANGED index
  <2>1. TypeOK'
    BY <1>4 DEF TypeOK, index, PCs
  <2>2. LockAgrees'
    BY <1>1, <1>4 DEF TypeOK, LockAgrees, Inside, PCs, Closing
  <2>3. NoSharedSession'
    BY <1>4 DEF TypeOK, NoSharedSession
  <2>4. EmptyHanded' /\ Vacant' /\ Unpooled' /\ OneBucket' /\ InUseStays'
    BY <1>4 DEF TypeOK, LockAgrees, EmptyHanded, Vacant, Unpooled, OneBucket,
           InUseStays, index, Inside, PCs, Closing
  <2> QED BY <2>1, <2>2, <2>3, <2>4
<1> QED BY <1>1, <1>2, <1>3, <1>4 DEF Enter, MakeRoom, Evictable

(* Leaving keeps it: the lock, the session and the key are given up        *)
(* together, and nothing is put into the pool.                             *)
LEMMA LeaveStep ==
  ASSUME PoolInv, NEW f \in Fetches, NEW label \in {"idle", "sweep"},
         Leave(f), pc' = [pc EXCEPT ![f] = label],
         spawned' \in [Fetches -> SUBSET Sessions], open' \subseteq Sessions,
         bucket' = bucket, lru' \in Seq(Keys), served' \in [Keys -> Nat],
         faults' = faults
  PROVE  PoolInv'
<1> USE NoFetchAssumption, NoSessionAssumption DEF PoolInv, Leave
<1>1. queue' \in [Keys -> Seq(Fetches)]
  BY WithoutType DEF TypeOK
<1>2. TypeOK'
  BY <1>1 DEF TypeOK, PCs
<1>3. LockAgrees'
  BY DEF TypeOK, LockAgrees, Inside, PCs
<1>4. EmptyHanded' /\ Vacant' /\ Unpooled' /\ OneBucket'
  BY DEF TypeOK, EmptyHanded, Vacant, Unpooled, OneBucket, Inside
<1>5. NoSharedSession' /\ InUseStays'
  BY DEF TypeOK, NoSharedSession, InUseStays
<1> QED BY <1>2, <1>3, <1>4, <1>5

(* So does taking one's own session out of the pool to close it.           *)
LEMMA DropStep ==
  ASSUME PoolInv, NEW f \in Fetches, NEW label \in {"discard", "undo"},
         pc[f] = "fetching", Drop(f, label),
         UNCHANGED <<open, faults>>
  PROVE  PoolInv'
<1> USE NoFetchAssumption, NoSessionAssumption DEF PoolInv, Drop, Unindex,
       locks
<1>1. key[f] \in Keys /\ holder[key[f]] = f
  BY DEF LockAgrees, Inside, PCs
<1>2. TypeOK'
  BY WithoutType DEF TypeOK, PCs, Closing
<1>3. LockAgrees'
  BY <1>1 DEF TypeOK, LockAgrees, Inside, PCs, Closing
<1>4. EmptyHanded' /\ Vacant' /\ Unpooled' /\ OneBucket'
  BY <1>1 DEF TypeOK, LockAgrees, EmptyHanded, Vacant, Unpooled, OneBucket,
         Inside, PCs, Closing
<1>5. NoSharedSession' /\ InUseStays'
  BY <1>1 DEF TypeOK, LockAgrees, NoSharedSession, InUseStays, Inside, PCs
<1> QED BY <1>2, <1>3, <1>4, <1>5

(* Every step of every call keeps the invariant.                           *)
LEMMA PoolStep == PoolInv /\ [Next]_vars => PoolInv'
<1> SUFFICES ASSUME PoolInv, [Next]_vars PROVE PoolInv'
  OBVIOUS
<1> USE NoFetchAssumption, NoSessionAssumption
<1>0. TypeOK
  BY DEF PoolInv
<1>a. faults' = faults
  BY DEF Next, Proceed, Cancel, vars
<1> USE <1>a
<1>1. CASE UNCHANGED vars
  BY <1>1 DEF PoolInv, TypeOK, LockAgrees, EmptyHanded, Vacant, Unpooled,
         OneBucket, NoSharedSession, InUseStays, vars
<1>2. ASSUME NEW f \in Fetches, NEW k \in Keys, Start(f, k) PROVE PoolInv'
  <2>1. CASE holder[k] = NoFetch /\ queue[k] = <<>>
    <3>1. Entered(f, k)
      BY <1>0, <1>2, <2>1 DEF Start, Entered, TypeOK
    <3> QED BY <3>1, EnterStep
  <2>2. CASE ~(holder[k] = NoFetch /\ queue[k] = <<>>)
    <3> USE <1>2, <2>2 DEF Start, PoolInv, index
    <3>0. Append(queue[k], f) \in Seq(Fetches)
      BY AppendProperties DEF TypeOK
    <3>a. queue' \in [Keys -> Seq(Fetches)]
      BY <3>0 DEF TypeOK
    <3>b. pc' \in [Fetches -> PCs] /\ key' \in [Fetches -> Keys \cup {NoKey}]
      BY DEF TypeOK, PCs
    <3>1. TypeOK'
      BY <3>a, <3>b DEF TypeOK
    <3>2. LockAgrees' /\ EmptyHanded' /\ Vacant' /\ Unpooled' /\ OneBucket'
      BY DEF TypeOK, LockAgrees, EmptyHanded, Vacant, Unpooled, OneBucket,
             Inside, PCs, Closing
    <3>3. NoSharedSession' /\ InUseStays'
      BY DEF TypeOK, NoSharedSession, InUseStays
    <3> QED BY <3>1, <3>2, <3>3
  <2> QED BY <2>1, <2>2
<1>3. ASSUME NEW f \in Fetches, Granted(f) PROVE PoolInv'
  <2>1. key[f] \in Keys
    BY <1>3 DEF Granted, PoolInv, LockAgrees
  <2>2. queue' \in [Keys -> Seq(Fetches)]
    BY <1>0, <1>3, <2>1, HeadTailProperties DEF Granted, TypeOK
  <2>3. Entered(f, key[f])
    BY <1>0, <1>3, <2>1, <2>2 DEF Granted, Entered, TypeOK
  <2> QED BY <2>1, <2>3, EnterStep
<1>4. ASSUME NEW f \in Fetches, Reclaimed(f) PROVE PoolInv'
  <2>1. /\ key[f] \in Keys /\ holder[key[f]] = f
        /\ bucket[key[f]] = NoSession
    BY <1>4 DEF Reclaimed, PoolInv, LockAgrees, Vacant, Inside, PCs, Closing
  <2>2. open' \subseteq Sessions
    BY <1>0, <1>4 DEF Reclaimed, Closed, Ended, TypeOK
  <2>3. Entered(f, key[f])
    BY <1>0, <1>4, <2>1, <2>2 DEF Reclaimed, Entered, Enter, TypeOK, locks
  <2> QED BY <2>1, <2>3, EnterStep
<1>5. ASSUME NEW f \in Fetches, Launch(f) PROVE PoolInv'
  <2> USE <1>5 DEF Launch, Fresh, PoolInv, locks, index
  <2>1. TypeOK'
    BY DEF TypeOK, PCs
  <2>2. LockAgrees' /\ EmptyHanded' /\ Vacant' /\ Unpooled' /\ OneBucket'
    BY DEF TypeOK, LockAgrees, EmptyHanded, Vacant, Unpooled, OneBucket,
           Inside, PCs, Closing
  <2>3. NoSharedSession' /\ InUseStays'
    BY DEF TypeOK, NoSharedSession, InUseStays
  <2> QED BY <2>1, <2>2, <2>3
<1>6. ASSUME NEW f \in Fetches, BuildFails(f) \/ Discarded(f) PROVE PoolInv'
  <2>1. open' \subseteq Sessions
    BY <1>0, <1>6 DEF BuildFails, Discarded, Closed, Ended, TypeOK
  <2> QED BY <1>0, <1>6, <2>1, LeaveStep
      DEF BuildFails, Discarded, Finish, index, TypeOK
<1>7. ASSUME NEW f \in Fetches, Built(f) PROVE PoolInv'
  <2> USE <1>7 DEF Built, PoolInv, locks
  <2>1. /\ key[f] \in Keys /\ holder[key[f]] = f
        /\ bucket[key[f]] = NoSession
    BY DEF LockAgrees, Vacant, Inside, PCs
  <2>2. TypeOK'
    BY <2>1 DEF TypeOK, PCs
  <2>3. LockAgrees' /\ EmptyHanded' /\ Vacant'
    BY <2>1 DEF TypeOK, LockAgrees, EmptyHanded, Vacant, Inside, PCs, Closing
  <2>4. Unpooled' /\ OneBucket'
    BY <2>1 DEF TypeOK, Unpooled, OneBucket, NoSharedSession
  <2>5. NoSharedSession'
    BY DEF NoSharedSession
  <2>6. \A g \in Fetches : pc[g] = "fetching" => key[g] # key[f]
    BY <2>1 DEF LockAgrees, Inside, PCs
  <2>7. InUseStays'
    BY <2>1, <2>6 DEF TypeOK, InUseStays
  <2> QED BY <2>2, <2>3, <2>4, <2>5, <2>7
<1>8. ASSUME NEW f \in Fetches, Delivered(f) PROVE PoolInv'
  <2>1. key[f] \in Keys
    BY <1>8 DEF Delivered, PoolInv, LockAgrees, Inside, PCs
  <2>2. lru' \in Seq(Keys)
    BY <1>0, <1>8, <2>1, WithoutType, AppendProperties DEF Delivered, TypeOK
  <2>3. served' \in [Keys -> Nat]
    BY <1>0, <1>8, <2>1 DEF Delivered, TypeOK
  <2> QED BY <1>0, <1>8, <2>2, <2>3, LeaveStep DEF Delivered, Finish, TypeOK
<1>9. ASSUME NEW f \in Fetches,
             Suspicious(f) \/ FetchError(f) \/ CancelFetching(f)
      PROVE  PoolInv'
  BY <1>9, DropStep DEF Suspicious, FetchError, CancelFetching
<1>10. ASSUME NEW f \in Fetches, NEW alive \in SUBSET Sessions,
              LeaveCancelled(f, alive), UNCHANGED index
       PROVE  PoolInv'
  BY <1>0, <1>10, LeaveStep DEF LeaveCancelled, Finish, index, TypeOK
<1>11. ASSUME NEW f \in Fetches,
              CancelWaiting(f) \/ CancelHalfway(f) \/ Undone(f)
       PROVE  PoolInv'
  BY <1>0, <1>10, <1>11
  DEF CancelWaiting, CancelHalfway, Undone, Closed, Ended, TypeOK
<1>12. ASSUME NEW f \in Fetches, Resweep(f) PROVE PoolInv'
  <2> USE <1>12 DEF Resweep, PoolInv, locks, index
  <2>1. TypeOK'
    BY DEF TypeOK, PCs
  <2>2. LockAgrees' /\ EmptyHanded' /\ Vacant' /\ Unpooled' /\ OneBucket'
    BY DEF TypeOK, LockAgrees, EmptyHanded, Vacant, Unpooled, OneBucket,
           Inside, PCs
  <2>3. NoSharedSession' /\ InUseStays'
    BY DEF TypeOK, NoSharedSession, InUseStays
  <2> QED BY <2>1, <2>2, <2>3
<1> QED BY <1>1, <1>2, <1>3, <1>4, <1>5, <1>6, <1>7, <1>8, <1>9, <1>11, <1>12
    DEF Next, Proceed, Cancel

(* Every state the pool reaches satisfies the invariant.                   *)
THEOREM PoolCorrect == Spec => []PoolInv
<1>1. Init => PoolInv
  BY PoolInit
<1> QED BY <1>1, PoolStep, PTL DEF Spec

(* TypeOK, the type correctness of the pool.                               *)
THEOREM PoolTypeCorrect == Spec => []TypeOK
<1>1. PoolInv => TypeOK
  BY DEF PoolInv
<1> QED BY <1>1, PoolCorrect, PTL

(* NoSharedSession: no browser session ever has two users.                 *)
THEOREM OneUser == Spec => []NoSharedSession
<1>1. PoolInv => NoSharedSession
  BY DEF PoolInv
<1> QED BY <1>1, PoolCorrect, PTL

(* InUseStays: a session in flight is never taken out of its bucket.       *)
THEOREM InFlightKept == Spec => []InUseStays
<1>1. PoolInv => InUseStays
  BY DEF PoolInv
<1> QED BY <1>1, PoolCorrect, PTL

----------------------------------------------------------------------------
(* A step that counts nothing and gives no call a session to use keeps     *)
(* the quota.                                                              *)
LEMMA SameQuota ==
  ASSUME Handed, QuotaKept, UNCHANGED served,
         \A g \in Fetches : pc'[g] \in {"entering", "fetching"} =>
           pc'[g] = pc[g] /\ cur'[g] = cur[g] /\ key'[g] = key[g]
  PROVE  Handed' /\ QuotaKept'
BY DEF Handed, QuotaKept

(* So does one that starts a count anew.                                   *)
LEMMA ResetQuota ==
  ASSUME TypeOK, Handed, QuotaKept, NEW k \in Keys,
         served' = [served EXCEPT ![k] = 0],
         \A g \in Fetches : pc'[g] \in {"entering", "fetching"} =>
           /\ cur'[g] # NoSession
           /\ pc'[g] = "fetching" =>
                key'[g] = k \/ (pc[g] = "fetching" /\ key'[g] = key[g])
  PROVE  Handed' /\ QuotaKept'
<1>1. Handed'
  BY DEF Handed
<1>2. \A j \in Keys : served'[j] = IF j = k THEN 0 ELSE served[j]
  BY DEF TypeOK
<1>3. \A j \in Keys : served'[j] <= MaxRequests \/ served'[j] <= 1
  BY <1>2 DEF QuotaKept
<1>4. ASSUME NEW g \in Fetches, pc'[g] = "fetching"
      PROVE  served'[key'[g]] < MaxRequests \/ served'[key'[g]] = 0
  <2>1. CASE key'[g] = k
    BY <1>2, <2>1
  <2>2. CASE key'[g] # k
    <3>1. pc[g] = "fetching" /\ key'[g] = key[g]
      BY <1>4, <2>2
    <3>2. served'[key'[g]] = served[key[g]]
      BY <2>2, <3>1 DEF TypeOK
    <3> QED BY <3>1, <3>2 DEF QuotaKept
  <2> QED BY <2>1, <2>2
<1> QED BY <1>1, <1>3, <1>4 DEF QuotaKept

(* Every step keeps the quota.                                             *)
LEMMA QuotaStep ==
  PoolInv /\ Handed /\ QuotaKept /\ [Next]_vars => Handed' /\ QuotaKept'
<1> SUFFICES ASSUME PoolInv, Handed, QuotaKept, [Next]_vars
             PROVE  Handed' /\ QuotaKept'
  OBVIOUS
<1> USE NoSessionAssumption, MaxRequestsAssumption
<1>0. TypeOK
  BY DEF PoolInv
<1>a. \A g \in Fetches : pc[g] \in Inside => key[g] \in Keys /\ holder[key[g]] = g
  BY DEF PoolInv, LockAgrees
<1>1. CASE UNCHANGED vars
  BY <1>1, SameQuota DEF vars
<1>2. ASSUME NEW f \in Fetches, NEW k \in Keys, Enter(f, k),
             key' = [key EXCEPT ![f] = k]
      PROVE  Handed' /\ QuotaKept'
  <2>1. CASE /\ bucket[k] # NoSession /\ ~Spent(k)
             /\ pc' = [pc EXCEPT ![f] = "fetching"]
             /\ cur' = [cur EXCEPT ![f] = bucket[k]]
             /\ UNCHANGED index
    BY <1>0, <1>2, <2>1 DEF Handed, QuotaKept, Spent, TypeOK, index
  <2>2. ASSUME NEW label \in {"rebuild", "evict"}, NEW j \in Keys, Unindex(j),
               pc' = [pc EXCEPT ![f] = label], NEW s,
               cur' = [cur EXCEPT ![f] = s]
        PROVE  Handed' /\ QuotaKept'
    <3>1. ASSUME NEW g \in Fetches, pc'[g] \in {"entering", "fetching"}
          PROVE  /\ cur'[g] # NoSession
                 /\ pc'[g] = "fetching" => pc[g] = "fetching" /\ key'[g] = key[g]
      BY <1>0, <1>2, <2>2, <3>1 DEF Handed, TypeOK
    <3> QED BY <1>0, <2>2, <3>1, ResetQuota DEF Unindex
  <2>3. CASE /\ pc' = [pc EXCEPT ![f] = "building"]
             /\ cur' = [cur EXCEPT ![f] = NoSession]
             /\ UNCHANGED index
    BY <1>0, <1>2, <2>3, SameQuota DEF TypeOK, index
  <2> QED BY <1>2, <2>1, <2>2, <2>3 DEF Enter, MakeRoom
<1>3. ASSUME NEW f \in Fetches, NEW k \in Keys, Start(f, k)
      PROVE  Handed' /\ QuotaKept'
  <2>1. CASE Enter(f, k)
    BY <1>2, <1>3, <2>1 DEF Start
  <2>2. CASE pc' = [pc EXCEPT ![f] = "waiting"] /\ UNCHANGED <<cur, index>>
    BY <1>0, <1>3, <2>2, SameQuota DEF Start, TypeOK, index
  <2> QED BY <1>3, <2>1, <2>2 DEF Start
<1>4. ASSUME NEW f \in Fetches, Granted(f) \/ Reclaimed(f)
      PROVE  Handed' /\ QuotaKept'
  <2>1. key[f] \in Keys /\ (Reclaimed(f) => bucket[key[f]] = NoSession)
    BY <1>4 DEF Granted, Reclaimed, PoolInv, LockAgrees, Vacant, Inside, PCs,
                Closing
  <2>2. key' = [key EXCEPT ![f] = key[f]]
    BY <1>0, <1>4 DEF Granted, Reclaimed, TypeOK
  <2> QED BY <1>2, <1>4, <2>1, <2>2 DEF Granted, Reclaimed, Enter
<1>5. ASSUME NEW f \in Fetches, Launch(f) PROVE Handed' /\ QuotaKept'
  BY <1>0, <1>5 DEF Launch, Handed, QuotaKept, TypeOK, index
<1>6. ASSUME NEW f \in Fetches, Built(f) PROVE Handed' /\ QuotaKept'
  <2>1. key[f] \in Keys
    BY <1>a, <1>6 DEF Built, Inside, PCs
  <2>2. ASSUME NEW g \in Fetches, pc'[g] \in {"entering", "fetching"}
        PROVE  /\ cur'[g] # NoSession
               /\ pc'[g] = "fetching" =>
                    key'[g] = key[f] \/ (pc[g] = "fetching" /\ key'[g] = key[g])
    BY <1>0, <1>6, <2>2 DEF Built, Handed, TypeOK
  <2> QED BY <1>0, <1>6, <2>1, <2>2, ResetQuota DEF Built
<1>7. ASSUME NEW f \in Fetches, Delivered(f) PROVE Handed' /\ QuotaKept'
  <2>1. key[f] \in Keys /\ pc[f] = "fetching"
    BY <1>a, <1>7 DEF Delivered, Inside, PCs
  <2>2. \A j \in Keys : served'[j] = IF j = key[f] THEN served[j] + 1 ELSE served[j]
    BY <1>0, <1>7 DEF Delivered, TypeOK
  <2>3. served \in [Keys -> Nat]
    BY <1>0 DEF TypeOK
  <2>4. \A j \in Keys : served'[j] <= MaxRequests \/ served'[j] <= 1
    BY <2>1, <2>2, <2>3 DEF QuotaKept
  <2>5. ASSUME NEW g \in Fetches, pc'[g] \in {"entering", "fetching"}
        PROVE  g # f /\ pc[g] = pc'[g] /\ key'[g] = key[g] /\ cur'[g] = cur[g]
    BY <1>0, <1>7, <2>5 DEF Delivered, Finish, Leave, TypeOK
  <2>6. ASSUME NEW g \in Fetches, pc'[g] = "fetching"
        PROVE  served'[key'[g]] < MaxRequests \/ served'[key'[g]] = 0
    <3>1. pc[g] = "fetching" /\ key'[g] = key[g] /\ key[g] # key[f] /\ key[g] \in Keys
      BY <1>a, <2>1, <2>5, <2>6 DEF Inside, PCs
    <3> QED BY <2>2, <3>1 DEF QuotaKept
  <2> QED BY <2>4, <2>5, <2>6 DEF Handed, QuotaKept
<1>8. ASSUME NEW f \in Fetches,
             Suspicious(f) \/ FetchError(f) \/ CancelFetching(f)
      PROVE  Handed' /\ QuotaKept'
  <2>1. /\ key[f] \in Keys /\ Unindex(key[f]) /\ UNCHANGED <<key, cur>>
        /\ \E label \in {"discard", "undo"} : pc' = [pc EXCEPT ![f] = label]
    BY <1>a, <1>8 DEF Suspicious, FetchError, CancelFetching, Drop, Inside, PCs
  <2>2. ASSUME NEW g \in Fetches, pc'[g] \in {"entering", "fetching"}
        PROVE  cur'[g] # NoSession /\ pc[g] = pc'[g] /\ key'[g] = key[g]
    BY <1>0, <2>1, <2>2 DEF Handed, TypeOK
  <2> QED BY <1>0, <2>1, <2>2, ResetQuota DEF Unindex
<1>9. ASSUME NEW f \in Fetches,
             \/ BuildFails(f) \/ Discarded(f) \/ Undone(f) \/ Resweep(f)
             \/ CancelWaiting(f) \/ CancelHalfway(f)
      PROVE  Handed' /\ QuotaKept'
  <2>1. UNCHANGED index
    BY <1>9 DEF BuildFails, Discarded, Undone, Resweep, CancelWaiting, CancelHalfway
  <2>2. \A g \in Fetches : pc'[g] \in {"entering", "fetching"} =>
          pc'[g] = pc[g] /\ cur'[g] = cur[g] /\ key'[g] = key[g]
    BY <1>0, <1>9
    DEF BuildFails, Discarded, Undone, Resweep, CancelWaiting, CancelHalfway,
        LeaveCancelled, Finish, Leave, TypeOK
  <2> QED BY <2>1, <2>2, SameQuota DEF index
<1> QED BY <1>1, <1>3, <1>4, <1>5, <1>6, <1>7, <1>8, <1>9 DEF Next, Proceed, Cancel

(* QuotaKept: no session serves more pages than max_requests allows.       *)
THEOREM QuotaCorrect == Spec => []QuotaKept
<1>1. Init => PoolInv /\ Handed /\ QuotaKept
  BY PoolInit
<1> QED BY <1>1, PoolStep, QuotaStep, PTL DEF Spec

----------------------------------------------------------------------------
(* A call that leaves kills at most its own browser, unless it is the only *)
(* one in flight.                                                          *)
LEMMA LeavingSpares ==
  ASSUME PoolInv, NEW f \in Fetches, NEW g \in Fetches, f # g, Next,
         pc[f] \notin {"idle", "sweep"}, pc'[f] \in {"idle", "sweep"},
         pc[g] = "fetching", cur[g] \in open
  PROVE  cur[g] \in open'
<1> USE NoSessionAssumption
<1>0. TypeOK /\ cur[g] # cur[f]
  <2>1. cur[g] # NoSession
    BY NoSessionAssumption DEF PoolInv, TypeOK
  <2> QED BY <2>1 DEF PoolInv, NoSharedSession
<1>1. PICK h \in Fetches : (\E k \in Keys : Start(h, k)) \/ Proceed(h) \/ Cancel(h)
  BY DEF Next
<1>2. h = f /\ ~\E k \in Keys : Start(h, k)
  BY <1>0, <1>1
  DEF TypeOK, Start, Proceed, Cancel, Granted, Reclaimed, Launch, BuildFails,
      Built, Delivered, Suspicious, FetchError, Discarded, Undone, Resweep,
      CancelWaiting, CancelHalfway, CancelFetching, LeaveCancelled, Finish,
      Enter, MakeRoom, Drop
<1>3. ASSUME NEW alive, LeaveCancelled(f, alive), cur[g] \in alive
      PROVE  cur[g] \in open'
  <2>1. InFlight # {f}
    BY DEF InFlight
  <2> QED BY <1>3, <2>1 DEF LeaveCancelled
<1>4. CASE CancelWaiting(f) \/ CancelHalfway(f) \/ Undone(f)
  BY <1>0, <1>3, <1>4 DEF CancelWaiting, CancelHalfway, Undone, Closed, Ended
<1>5. CASE ~(CancelWaiting(f) \/ CancelHalfway(f) \/ Undone(f))
  BY <1>0, <1>1, <1>2, <1>5
  DEF TypeOK, Proceed, Cancel, Granted, Reclaimed, Launch, BuildFails, Built,
      Delivered, Suspicious, FetchError, Discarded, Resweep, CancelFetching,
      Enter, MakeRoom, Drop, Closed, Ended
<1> QED BY <1>4, <1>5

(* SparesSiblings: the sweep of a cancelled call never kills the browser   *)
(* another call is fetching with.                                          *)
THEOREM SweepSparesSiblings == Spec => SparesSiblings
<1> DEFINE Spared == \A f, g \in Fetches :
      (/\ f # g
       /\ pc[f] \notin {"idle", "sweep"} /\ pc'[f] \in {"idle", "sweep"}
       /\ pc[g] = "fetching" /\ cur[g] \in open)
      => cur[g] \in open'
<1>1. PoolInv /\ [Next]_vars => [Spared]_vars
  BY LeavingSpares
<1>2. [][Spared]_vars <=> SparesSiblings
  BY PTL DEF SparesSiblings, Spared
<1> QED BY <1>1, <1>2, PoolCorrect, PTL DEF Spec

----------------------------------------------------------------------------
(* A call may give up a session that is closed or pooled.                  *)
LEMMA GiveUp ==
  ASSUME TypeOK, NothingForgotten, NEW f \in Fetches,
         cur' = [cur EXCEPT ![f] = NoSession], bucket' = bucket,
         open' \subseteq open,
         cur[f] \in open' => \E k \in Keys : bucket[k] = cur[f],
         faults = {}
  PROVE  NothingForgotten'
<1> SUFFICES ASSUME NEW s \in open', \A k \in Keys : bucket[k] # s
             PROVE  \E g \in Fetches : cur'[g] = s
  BY DEF NothingForgotten
<1>1. PICK g \in Fetches : cur[g] = s
  BY DEF NothingForgotten
<1>2. g # f
  BY <1>1
<1> QED BY <1>1, <1>2 DEF TypeOK

(* Without faults a session leaves the pool or a call's hands only to be   *)
(* pooled, taken or closed.                                                *)
LEMMA KeptStep == PoolInv /\ NothingForgotten /\ [Next]_vars => NothingForgotten'
<1>a. faults' = faults \/ ~[Next]_vars
  BY DEF Next, Proceed, Cancel, vars
<1> SUFFICES ASSUME PoolInv, NothingForgotten, [Next]_vars, faults = {}, faults' = {}
             PROVE  NothingForgotten'
  BY <1>a DEF NothingForgotten
<1> USE NoSessionAssumption
<1>0. TypeOK
  BY DEF PoolInv
<1>1. CASE UNCHANGED vars
  BY <1>1 DEF NothingForgotten, vars
<1>2. ASSUME NEW f \in Fetches, NEW k \in Keys, Enter(f, k),
             open' \subseteq open \ {cur[f]}
      PROVE  NothingForgotten'
  <2>1. ASSUME NEW j \in Keys, Unindex(j), cur' = [cur EXCEPT ![f] = bucket[j]]
        PROVE  NothingForgotten'
    BY <1>0, <1>2, <2>1 DEF Unindex, NothingForgotten, TypeOK
  <2>2. ASSUME NEW s, cur' = [cur EXCEPT ![f] = s], UNCHANGED index
        PROVE  NothingForgotten'
    BY <1>0, <1>2, <2>2 DEF index, NothingForgotten, TypeOK
  <2> QED BY <1>2, <2>1, <2>2 DEF Enter, MakeRoom
<1>3. ASSUME NEW f \in Fetches, NEW k \in Keys, Start(f, k)
      PROVE  NothingForgotten'
  <2>1. cur[f] = NoSession /\ NoSession \notin open
    BY <1>0, <1>3 DEF Start, PoolInv, EmptyHanded, TypeOK
  <2> QED BY <1>0, <1>2, <1>3, <2>1 DEF Start, index, NothingForgotten, TypeOK
<1>4. ASSUME NEW f \in Fetches, Granted(f) \/ Reclaimed(f)
      PROVE  NothingForgotten'
  <2>1. key[f] \in Keys /\ (Reclaimed(f) => bucket[key[f]] = NoSession)
    BY <1>4 DEF Granted, Reclaimed, PoolInv, LockAgrees, Vacant, Inside, PCs,
                Closing
  <2>2. open' \subseteq open \ {cur[f]}
    BY <1>0, <1>4 DEF Granted, Reclaimed, Closed, Ended, PoolInv, EmptyHanded, TypeOK
  <2> QED BY <1>2, <1>4, <2>1, <2>2 DEF Granted, Reclaimed, Enter
<1>5. ASSUME NEW f \in Fetches, Launch(f) PROVE NothingForgotten'
  <2>1. cur[f] = NoSession /\ NoSession \notin open
    BY <1>0, <1>5 DEF Launch, PoolInv, EmptyHanded, TypeOK
  <2>2. PICK s \in Sessions : cur' = [cur EXCEPT ![f] = s] /\ open' = open \cup {s}
    BY <1>5 DEF Launch
  <2>3. cur'[f] = s /\ \A g \in Fetches : cur[g] \in open => cur'[g] = cur[g]
    BY <1>0, <2>1, <2>2 DEF TypeOK
  <2>4. bucket' = bucket
    BY <1>5 DEF Launch, index
  <2>5. ASSUME NEW x \in open, \E g \in Fetches : cur[g] = x
        PROVE  \E g \in Fetches : cur'[g] = x
    BY <2>3, <2>5
  <2>6. ASSUME NEW x \in open
        PROVE  (\E k \in Keys : bucket'[k] = x) \/ (\E g \in Fetches : cur'[g] = x)
    BY <2>4, <2>5 DEF NothingForgotten
  <2>7. ASSUME NEW x \in open'
        PROVE  (\E k \in Keys : bucket'[k] = x) \/ (\E g \in Fetches : cur'[g] = x)
    <3>1. CASE x = s
      BY <2>3, <3>1
    <3>2. CASE x \in open
      BY <2>6, <3>2
    <3> QED BY <2>2, <2>7, <3>1, <3>2
  <2> QED BY <2>7 DEF NothingForgotten
<1>6. ASSUME NEW f \in Fetches, Built(f) PROVE NothingForgotten'
  <2>1. key[f] \in Keys /\ bucket[key[f]] = NoSession /\ NoSession \notin open
    BY <1>0, <1>6 DEF Built, PoolInv, LockAgrees, Vacant, Inside, PCs, TypeOK
  <2> QED BY <1>0, <1>6, <2>1 DEF Built, NothingForgotten, TypeOK
<1>7. ASSUME NEW f \in Fetches, Delivered(f) PROVE NothingForgotten'
  <2>1. key[f] \in Keys /\ bucket[key[f]] = cur[f]
    BY <1>7 DEF Delivered, PoolInv, LockAgrees, InUseStays, Inside, PCs
  <2> QED BY <1>0, <1>7, <2>1, GiveUp DEF Delivered, Finish, Leave
<1>8. ASSUME NEW f \in Fetches, Suspicious(f) \/ FetchError(f)
      PROVE  NothingForgotten'
  BY <1>0, <1>8 DEF Suspicious, FetchError, Drop, Unindex, NothingForgotten,
         TypeOK
<1>9. ASSUME NEW f \in Fetches, BuildFails(f) \/ Discarded(f)
      PROVE  NothingForgotten'
  BY <1>0, <1>9, GiveUp DEF BuildFails, Discarded, Closed, Ended, Finish, Leave, index
<1>10. ASSUME NEW f \in Fetches, NEW alive, LeaveCancelled(f, alive),
              alive \subseteq open \ {cur[f]}, UNCHANGED index
       PROVE  NothingForgotten'
  BY <1>0, <1>10, GiveUp DEF LeaveCancelled, Finish, Leave, index
<1>11. ASSUME NEW f \in Fetches, Undone(f) PROVE NothingForgotten'
  BY <1>10, <1>11 DEF Undone, Closed, Ended
<1>12. ASSUME NEW f \in Fetches, Resweep(f) PROVE NothingForgotten'
  BY <1>0, <1>12 DEF Resweep, locks, index, NothingForgotten, TypeOK
<1> QED BY <1>1, <1>3, <1>4, <1>5, <1>6, <1>7, <1>8, <1>9, <1>11, <1>12
    DEF Next, Proceed, Cancel, CancelWaiting, CancelHalfway, CancelFetching

(* NothingForgotten: without faults every live browser is in the pool or   *)
(* in the hands of a call.                                                 *)
THEOREM NoLeak == Spec => []NothingForgotten
<1>1. Init => NothingForgotten
  BY DEF Init, NothingForgotten
<1>2. Init => PoolInv
  BY PoolInit
<1> QED BY <1>1, <1>2, PoolStep, KeptStep, PTL DEF Spec

----------------------------------------------------------------------------
\* The keys with a session, and the calls that have found or made room for
\* one and have not put it in the pool yet.
Pooled == {k \in Keys : bucket[k] # NoSession}
Adding == {f \in Fetches : pc[f] \in {"building", "entering"}}

(* The order lists every key with a session, and lists it once.            *)
Listed == Once(lru) /\ ToSet(lru) = Pooled

(* The pool with what is being added to it exceeds its size by less than   *)
(* the number of calls.                                                    *)
RoomKept == Len(lru) + Cardinality(Adding) <= MaxSessions + Cardinality(Fetches) - 1

BoundInv == Listed /\ RoomKept

(* The calls that add a session, now or next, are finitely many.           *)
LEMMA AddingFinite ==
  /\ IsFiniteSet(Adding) /\ IsFiniteSet(Adding')
  /\ Cardinality(Adding) \in Nat /\ Cardinality(Adding') \in Nat
  /\ Cardinality(Adding') <= Cardinality(Fetches) /\ Cardinality(Fetches) \in Nat
<1>1. Adding \in SUBSET Fetches /\ Adding' \in SUBSET Fetches
  BY DEF Adding
<1> QED BY <1>1, FetchesAssumption, FS_Subset, FS_CardinalityType

(* A step that neither lengthens the order nor adds a call keeps the room. *)
LEMMA NoMore ==
  ASSUME RoomKept, lru \in Seq(Keys), lru' \in Seq(Keys), Len(lru') <= Len(lru),
         Adding' \subseteq Adding
  PROVE  RoomKept'
<1>1. Cardinality(Adding') <= Cardinality(Adding)
  BY AddingFinite, FS_Subset
<1>2. Len(lru) \in Nat /\ Len(lru') \in Nat
  BY LenProperties
<1> QED BY <1>1, <1>2, AddingFinite, MaxSessionsAssumption DEF RoomKept

(* Taking a key out of the pool keeps the bound.                           *)
LEMMA UnindexStep ==
  ASSUME TypeOK, BoundInv, NEW k \in Keys, Unindex(k), Adding' \subseteq Adding
  PROVE  BoundInv'
<1>1. lru' \in Seq(Keys) /\ Once(lru') /\ ToSet(lru') = ToSet(lru) \ {k}
  BY WithoutType, OnceWithout DEF TypeOK, BoundInv, Listed, Unindex
<1>2. Pooled' = Pooled \ {k}
  BY DEF Unindex, Pooled, TypeOK
<1>3. Listed'
  BY <1>1, <1>2 DEF BoundInv, Listed
<1>4. /\ IsFiniteSet(ToSet(lru)) /\ Cardinality(ToSet(lru)) = Len(lru)
      /\ Cardinality(ToSet(lru')) = Len(lru')
  BY <1>1, OnceLength DEF TypeOK, BoundInv, Listed
<1>5. Len(lru') <= Len(lru)
  <2>1. ToSet(lru') \in SUBSET ToSet(lru)
    BY <1>1
  <2> QED BY <1>4, <2>1, FS_Subset
<1>6. RoomKept'
  BY <1>1, <1>5, NoMore DEF TypeOK, BoundInv
<1> QED BY <1>3, <1>6 DEF BoundInv

(* A call that goes on to build found room, or found every session of a    *)
(* full pool in use: then there are no more sessions than users.           *)
LEMMA RoomStep ==
  ASSUME PoolInv, BoundInv, NEW f \in Fetches, pc[f] # "fetching",
         Full => \A k \in Keys : ~Evictable(k),
         pc' = [pc EXCEPT ![f] = "building"], UNCHANGED index
  PROVE  BoundInv'
<1> DEFINE Users == {g \in Fetches : pc[g] = "fetching"}
<1>0. TypeOK /\ Len(lru) \in Nat
  BY LenProperties DEF PoolInv, TypeOK
<1>1. Listed'
  BY DEF BoundInv, Listed, Pooled, index
<1>2. CASE ~Full
  BY <1>0, <1>1, <1>2, AddingFinite, MaxSessionsAssumption
  DEF BoundInv, Full, RoomKept, index
<1>3. CASE Full
  <2>1. \A k \in Pooled : holder[k] \in Users /\ key[holder[k]] = k
    BY <1>0, <1>3 DEF Pooled, Evictable, PoolInv, TypeOK, LockAgrees, Vacant
  <2>2. IsFiniteSet(Users)
    BY FetchesAssumption, FS_Subset
  <2>3. [k \in Pooled |-> holder[k]] \in Injection(Pooled, Users)
    BY <2>1 DEF Injection, IsInjective
  <2>4. Cardinality(Pooled) <= Cardinality(Users)
    BY <2>2, <2>3, FS_Injection
  <2>5. Users \cap Adding' = {} /\ Users \cup Adding' \in SUBSET Fetches
    BY <1>0 DEF Adding, TypeOK
  <2>6. Cardinality(Users) + Cardinality(Adding') <= Cardinality(Fetches)
    <3>1. Cardinality(Users \cup Adding') <= Cardinality(Fetches)
      BY <2>5, FetchesAssumption, FS_Subset
    <3>2. Cardinality(Users \cup Adding') =
            Cardinality(Users) + Cardinality(Adding') - Cardinality(Users \cap Adding')
      BY <2>2, AddingFinite, FS_Union
    <3> HIDE DEF Users
    <3>3. Cardinality(Users \cap Adding') = 0 /\ Cardinality(Users) \in Nat
      BY <2>2, <2>5, FS_EmptySet, FS_CardinalityType
    <3> QED BY <3>1, <3>2, <3>3, AddingFinite
  <2>7. Cardinality(Pooled) = Len(lru)
    BY <1>0, OnceLength DEF BoundInv, Listed, TypeOK
  <2>8. Cardinality(Users) \in Nat
    BY <2>2, FS_CardinalityType
  <2> HIDE DEF Users
  <2> QED BY <1>0, <1>1, <2>4, <2>6, <2>7, <2>8, AddingFinite, MaxSessionsAssumption
      DEF BoundInv, RoomKept, index
<1> QED BY <1>2, <1>3

(* Every step keeps the bound.                                             *)
LEMMA BoundStep ==
  PoolInv /\ Handed /\ BoundInv /\ [Next]_vars => BoundInv'
<1> SUFFICES ASSUME PoolInv, Handed, BoundInv, [Next]_vars PROVE BoundInv'
  OBVIOUS
<1> USE NoSessionAssumption
<1>0. TypeOK /\ Listed /\ RoomKept
  BY DEF PoolInv, BoundInv
<1>1. ASSUME UNCHANGED index, Adding' \subseteq Adding PROVE BoundInv'
  <2>1. Len(lru') <= Len(lru)
    BY <1>0, <1>1, LenProperties DEF TypeOK, index
  <2>2. RoomKept'
    BY <1>0, <1>1, <2>1, NoMore DEF TypeOK, index
  <2> QED BY <1>0, <1>1, <2>2 DEF BoundInv, Listed, Pooled, index
<1>2. CASE UNCHANGED vars
  <2>1. pc' = pc /\ UNCHANGED index
    BY <1>2 DEF vars, index
  <2>2. Adding' = Adding
    BY <2>1 DEF Adding
  <2> QED BY <1>1, <2>1, <2>2
<1>3. ASSUME NEW f \in Fetches, NEW k \in Keys, Enter(f, k), pc[f] # "fetching"
      PROVE  BoundInv'
  <2>1. ASSUME NEW j \in Keys, Unindex(j), NEW label \in {"rebuild", "evict"},
               pc' = [pc EXCEPT ![f] = label]
        PROVE  BoundInv'
    BY <1>0, <2>1, UnindexStep DEF Adding, TypeOK, BoundInv
  <2>2. CASE pc' = [pc EXCEPT ![f] = "fetching"] /\ UNCHANGED index
    BY <1>0, <1>1, <2>2 DEF Adding, TypeOK
  <2>3. CASE /\ Full => \A j \in Keys : ~Evictable(j)
             /\ pc' = [pc EXCEPT ![f] = "building"] /\ UNCHANGED index
    BY <1>3, <2>3, RoomStep
  <2> QED BY <1>3, <2>1, <2>2, <2>3 DEF Enter, MakeRoom
<1>4. ASSUME NEW f \in Fetches, NEW k \in Keys, Start(f, k) PROVE BoundInv'
  <2>1. CASE Enter(f, k)
    BY <1>3, <1>4, <2>1 DEF Start
  <2>2. CASE pc' = [pc EXCEPT ![f] = "waiting"] /\ UNCHANGED index
    BY <1>0, <1>1, <2>2 DEF Adding, TypeOK
  <2> QED BY <1>4, <2>1, <2>2 DEF Start
<1>5. ASSUME NEW f \in Fetches, Granted(f) \/ Reclaimed(f) PROVE BoundInv'
  <2>1. key[f] \in Keys /\ (Reclaimed(f) => bucket[key[f]] = NoSession)
    BY <1>5 DEF Granted, Reclaimed, PoolInv, LockAgrees, Vacant, Inside, PCs,
                Closing
  <2>2. Enter(f, key[f]) /\ pc[f] # "fetching"
    BY <1>5, <2>1 DEF Granted, Reclaimed, Enter
  <2> QED BY <1>3, <2>1, <2>2
<1>6. ASSUME NEW f \in Fetches, Launch(f) PROVE BoundInv'
  BY <1>0, <1>1, <1>6 DEF Launch, Adding, TypeOK
<1>7. ASSUME NEW f \in Fetches, Built(f) PROVE BoundInv'
  <2>1. key[f] \in Keys /\ key[f] \notin Pooled
    BY <1>7 DEF Built, PoolInv, LockAgrees, Vacant, Inside, PCs, Pooled
  <2>2. Pooled' = Pooled \cup {key[f]}
    BY <1>0, <1>7, <2>1 DEF Built, Handed, Pooled, TypeOK
  <2>3. Once(lru') /\ ToSet(lru') = ToSet(lru) \cup {key[f]}
    BY <1>0, <1>7, <2>1, OnceAppend DEF Built, Listed, TypeOK
  <2>4. Len(lru') = Len(lru) + 1 /\ Len(lru) \in Nat
    BY <1>0, <1>7, <2>1, AppendProperties, LenProperties DEF Built, TypeOK
  <2>5. Adding' = Adding \ {f} /\ f \in Adding
    BY <1>0, <1>7 DEF Built, Adding, TypeOK
  <2>6. Cardinality(Adding') = Cardinality(Adding) - 1
    BY <2>5, AddingFinite, FS_RemoveElement
  <2>7. RoomKept'
    <3>1. Len(lru') + Cardinality(Adding') = Len(lru) + Cardinality(Adding)
      BY <2>4, <2>6, AddingFinite
    <3> QED BY <1>0, <3>1 DEF RoomKept
  <2> QED BY <1>0, <2>2, <2>3, <2>7 DEF BoundInv, Listed
<1>8. ASSUME NEW f \in Fetches, Delivered(f) PROVE BoundInv'
  <2>1. key[f] \in Keys /\ key[f] \in ToSet(lru)
    BY <1>0, <1>8 DEF Delivered, PoolInv, LockAgrees, InUseStays, Inside, PCs, Listed,
                      Pooled, TypeOK
  <2>2. PICK w : w = Without(lru, key[f])
    OBVIOUS
  <2>3. w \in Seq(Keys) /\ Once(w) /\ ToSet(w) = ToSet(lru) \ {key[f]}
    BY <1>0, <2>2, WithoutType, OnceWithout DEF Listed, TypeOK
  <2>4. lru' \in Seq(Keys) /\ Once(lru') /\ ToSet(lru') = ToSet(w) \cup {key[f]}
    BY <1>8, <2>1, <2>2, <2>3, OnceAppend DEF Delivered
  <2>5. ToSet(lru') = ToSet(lru)
    BY <2>1, <2>3, <2>4
  <2>6. Len(lru') = Len(lru)
    BY <1>0, <2>4, <2>5, OnceLength DEF Listed, TypeOK
  <2>7. Adding' \subseteq Adding
    BY <1>0, <1>8 DEF Delivered, Finish, Adding, TypeOK
  <2>8. RoomKept'
    BY <1>0, <2>4, <2>6, <2>7, LenProperties, NoMore DEF TypeOK
  <2> QED BY <1>0, <1>8, <2>4, <2>5, <2>8 DEF Delivered, BoundInv, Listed, Pooled
<1>9. ASSUME NEW f \in Fetches, Suspicious(f) \/ FetchError(f) \/ CancelFetching(f)
      PROVE  BoundInv'
  <2>1. key[f] \in Keys /\ Unindex(key[f])
    BY <1>9 DEF Suspicious, FetchError, CancelFetching, Drop, PoolInv, LockAgrees,
                Inside, PCs
  <2>2. Adding' \subseteq Adding
    BY <1>0, <1>9 DEF Suspicious, FetchError, CancelFetching, Drop, Adding, TypeOK
  <2> QED BY <1>0, <2>1, <2>2, UnindexStep DEF BoundInv
<1>10. ASSUME NEW f \in Fetches,
              \/ BuildFails(f) \/ Discarded(f) \/ Undone(f) \/ Resweep(f)
              \/ CancelWaiting(f) \/ CancelHalfway(f)
       PROVE  BoundInv'
  <2>1. UNCHANGED index /\ \E label \in {"idle", "sweep"} : pc' = [pc EXCEPT ![f] = label]
    BY <1>10 DEF BuildFails, Discarded, Undone, Resweep, CancelWaiting, CancelHalfway,
                 LeaveCancelled, Finish, index
  <2> QED BY <1>0, <1>1, <2>1 DEF Adding, TypeOK
<1> QED BY <1>2, <1>4, <1>5, <1>6, <1>7, <1>8, <1>9, <1>10
    DEF Next, Proceed, Cancel

(* PoolBound: however many misses are concurrent, each adds at most one    *)
(* session beyond max_sessions.                                            *)
THEOREM PoolBounded == Spec => []PoolBound
<1>1. Init => PoolInv /\ Handed /\ QuotaKept
  BY PoolInit
<1>2. Init => BoundInv
  <2> SUFFICES ASSUME Init PROVE BoundInv
    OBVIOUS
  <2>1. Pooled = {} /\ Adding = {} /\ ToSet(lru) = {} /\ Len(lru) = 0
    BY DEF Init, Pooled, Adding, ToSet
  <2>2. Cardinality(Adding) = 0 /\ Cardinality(Fetches) \in Nat
    BY <2>1, AddingFinite, FS_EmptySet
  <2> QED BY <2>1, <2>2, MaxSessionsAssumption
      DEF Init, BoundInv, Listed, RoomKept, Once
<1>3. PoolInv /\ BoundInv => PoolBound
  <2> SUFFICES ASSUME PoolInv, BoundInv PROVE PoolBound
    OBVIOUS
  <2>1. Len(lru) \in Nat
    BY LenProperties DEF PoolInv, TypeOK
  <2> QED BY <2>1, AddingFinite, MaxSessionsAssumption DEF BoundInv, RoomKept, PoolBound
<1> QED BY <1>1, <1>2, <1>3, PoolStep, QuotaStep, BoundStep, PTL DEF Spec
=============================================================================
