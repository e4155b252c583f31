------------------------ MODULE FetchPipelineProofs ------------------------
(***************************************************************************)
(* Theorems about Admission and about FetchPipeline, which refines it, for *)
(* any requests, arguments and limits.  The first part is about the guard  *)
(* alone and holds of both.                                                *)
(***************************************************************************)
EXTENDS FetchPipeline, WaitQueueProofs, FiniteSetTheorems, WellFoundedInduction

PermitInv == TypeOK /\ PermitsConserved

\* Only r moves.
Moves(r) ==
  /\ pc' \in [Requests -> PCs]
  /\ \A q \in Requests \ {r} : pc'[q] = pc[q]

\* The permits in use.
Used == Cardinality(InWrapper) + Cardinality(Browsing)

(* The size of a finite set that at most one element enters or leaves.     *)
LEMMA OneMoreOrLess ==
  ASSUME NEW S, IsFiniteSet(S), NEW e, NEW T,
         T = S \cup {e} \/ T = S \ {e}
  PROVE  /\ Cardinality(S) \in Nat /\ Cardinality(T) \in Nat
         /\ Cardinality(T) = Cardinality(S) - (IF e \in S THEN 1 ELSE 0)
                                           + (IF e \in T THEN 1 ELSE 0)
<1>1. Cardinality(S) \in Nat
  BY FS_CardinalityType
<1>2. Cardinality(T) \in Nat
  BY FS_AddElement, FS_RemoveElement, FS_CardinalityType
<1>3. CASE T = S \cup {e}
  <2>1. e \in T
    BY <1>3
  <2>2. Cardinality(T) =
          IF e \in S THEN Cardinality(S) ELSE Cardinality(S) + 1
    BY <1>3, FS_AddElement
  <2> QED BY <1>1, <1>2, <2>1, <2>2
<1>4. CASE T = S \ {e}
  <2>1. e \notin T
    BY <1>4
  <2>2. Cardinality(T) =
          IF e \in S THEN Cardinality(S) - 1 ELSE Cardinality(S)
    BY <1>4, FS_RemoveElement
  <2> QED BY <1>1, <1>2, <2>1, <2>2
<1> QED BY <1>3, <1>4

(* When one request moves, the permits in use change by what it holds.     *)
LEMMA CountOne ==
  ASSUME TypeOK, NEW r \in Requests, Moves(r)
  PROVE  /\ Cardinality(InWrapper) \in Nat /\ Cardinality(Browsing) \in Nat
         /\ Cardinality(InWrapper') \in Nat /\ Cardinality(Browsing') \in Nat
         /\ Cardinality(InWrapper') + Cardinality(Browsing') + Held(r) =
              Cardinality(InWrapper) + Cardinality(Browsing) + Held(r)'
<1>1. IsFiniteSet(InWrapper) /\ IsFiniteSet(Browsing)
  BY RequestsAssumption, FS_Subset DEF InWrapper, Browsing
<1>2. InWrapper' = InWrapper \cup {r} \/ InWrapper' = InWrapper \ {r}
  BY DEF InWrapper, Moves
<1>3. Browsing' = Browsing \cup {r} \/ Browsing' = Browsing \ {r}
  BY DEF Browsing, Moves
<1>4. /\ Cardinality(InWrapper) \in Nat /\ Cardinality(InWrapper') \in Nat
      /\ Cardinality(InWrapper') = Cardinality(InWrapper)
           - (IF r \in InWrapper THEN 1 ELSE 0)
           + (IF r \in InWrapper' THEN 1 ELSE 0)
  BY <1>1, <1>2, OneMoreOrLess
<1>5. /\ Cardinality(Browsing) \in Nat /\ Cardinality(Browsing') \in Nat
      /\ Cardinality(Browsing') = Cardinality(Browsing)
           - (IF r \in Browsing THEN 1 ELSE 0)
           + (IF r \in Browsing' THEN 1 ELSE 0)
  BY <1>1, <1>3, OneMoreOrLess
<1> QED BY <1>4, <1>5 DEF Held

(* So the account is kept if what the request gains the semaphore loses.   *)
LEMMA Transfer ==
  ASSUME PermitInv, NEW r \in Requests, Moves(r),
         queue' \in Seq(Requests),
         free' \in Nat, free' + Held(r)' = free + Held(r)
  PROVE  PermitInv'
<1>1. /\ Used \in Nat /\ Used' \in Nat
      /\ Used' + Held(r) = Used + Held(r)'
  BY CountOne DEF PermitInv, Used
<1>2. free \in Nat /\ free + Used = MaxConcurrent
  BY CountOne DEF PermitInv, TypeOK, PermitsConserved, Used
<1>3. Held(r) \in Nat /\ Held(r)' \in Nat
  BY DEF Held
<1>4. free' + Used' = MaxConcurrent /\ free' \in 0..MaxConcurrent
  <2>1. PICK u \in Nat, v \in Nat : u = Used /\ v = Used'
    BY <1>1
  <2>2. PICK h \in Nat, k \in Nat : h = Held(r) /\ k = Held(r)'
    BY <1>3
  <2>3. PICK f \in Nat, g \in Nat : f = free /\ g = free'
    BY <1>2
  <2>4. PICK n \in Nat : n = MaxConcurrent
    BY MaxConcurrentAssumption
  <2>5. v + h = u + k /\ g + k = f + h /\ f + u = n
    BY <1>1, <1>2, <2>1, <2>2, <2>3, <2>4
  <2>6. g + v = n /\ g \in 0..n
    BY <2>5
  <2> QED BY <2>1, <2>3, <2>4, <2>6
<1>5. PermitsConserved'
  BY <1>4, CountOne, MaxConcurrentAssumption
     DEF PermitInv, PermitsConserved, Used
<1> QED BY <1>4, <1>5 DEF PermitInv, TypeOK, Moves

(* Every step keeps the account of permits.                                *)
LEMMA PermitStep == PermitInv /\ [Next]_vars => PermitInv'
<1> SUFFICES ASSUME PermitInv, [Next]_vars PROVE PermitInv'
  OBVIOUS
<1>0. TypeOK
  BY DEF PermitInv
<1>1. CASE UNCHANGED vars
  BY <1>1 DEF PermitInv, TypeOK, PermitsConserved, InWrapper, Browsing, vars
<1>2. ASSUME NEW r \in Requests, End(r) PROVE PermitInv'
  <2>1. queue' \in Seq(Requests)
    BY <1>0, <1>2, WithoutType DEF End, TypeOK
  <2>2. free' \in Nat /\ free' + Held(r)' = free + Held(r)
    BY <1>0, <1>2 DEF End, Held, InWrapper, Browsing, TypeOK
  <2> QED BY <1>0, <1>2, <2>1, <2>2, Transfer DEF End, TypeOK, PCs, Moves
<1>3. ASSUME NEW r \in Requests, Dispatch(r) \/ Miss(r) PROVE PermitInv'
  <2>1. Append(queue, r) \in Seq(Requests)
    BY <1>0, AppendProperties DEF TypeOK
  <2>2. pc' \in [Requests -> PCs]
    BY <1>0, <1>3 DEF Dispatch, Miss, Enter, TypeOK, PCs, Waiting
  <2>3. free' \in Nat /\ free' + Held(r)' = free + Held(r)
    BY <1>0, <1>3
    DEF Dispatch, Miss, Enter, Held, InWrapper, Browsing, TypeOK, PCs, Waiting
  <2> QED BY <1>0, <1>3, <2>1, <2>2, <2>3, Transfer
      DEF Dispatch, Miss, Enter, TypeOK, Moves
<1>4. ASSUME NEW r \in Requests, Granted(r) PROVE PermitInv'
  <2>1. queue' \in Seq(Requests)
    BY <1>0, <1>4, HeadTailProperties DEF Granted, TypeOK
  <2>2. free' \in Nat /\ free' + Held(r)' = free + Held(r)
    BY <1>0, <1>4
    DEF Granted, Held, InWrapper, Browsing, TypeOK, PCs, Waiting
  <2> QED BY <1>0, <1>4, <2>1, <2>2, Transfer
      DEF Granted, TypeOK, PCs, Moves
<1>5. ASSUME NEW r \in Requests, Browsed(r) PROVE PermitInv'
  <2>1. free' \in Nat /\ free' + Held(r)' = free + Held(r)
    BY <1>0, <1>5 DEF Browsed, Held, InWrapper, Browsing, TypeOK, PCs
  <2> QED BY <1>0, <1>5, <2>1, Transfer DEF Browsed, TypeOK, PCs, Moves
<1> QED BY <1>1, <1>2, <1>3, <1>4, <1>5
    DEF Next, Step, Answer, Fail, Refuse, Cancel

(* No permit is lost or made up, in any state.                             *)
THEOREM PermitsCorrect == Spec => [](TypeOK /\ PermitsConserved)
<1>1. Init => PermitInv
  <2> SUFFICES ASSUME Init PROVE PermitInv
    OBVIOUS
  <2>1. InWrapper = {} /\ Browsing = {}
    BY DEF Init, InWrapper, Browsing
  <2>2. TypeOK
    BY MaxConcurrentAssumption DEF Init, TypeOK, PCs
  <2> QED BY <2>1, <2>2, FS_EmptySet, MaxConcurrentAssumption
      DEF Init, PermitInv, PermitsConserved
<1>2. PermitInv => TypeOK /\ PermitsConserved
  BY DEF PermitInv
<1> QED BY <1>1, <1>2, PermitStep, PTL DEF Spec

(* With fewer requests than permits, somebody who holds a permit can go on *)
(* whenever none is free: there is no hold and wait.                       *)
THEOREM NoHoldAndWait ==
  ASSUME Cardinality(Requests) < MaxConcurrent
  PROVE  Spec => []NeverStuck
<1>1. TypeOK /\ PermitsConserved => NeverStuck
  <2> SUFFICES ASSUME TypeOK, PermitsConserved, ~NeverStuck PROVE FALSE
    OBVIOUS
  <2>1. free = 0 /\ Browsing = {}
    BY MaxConcurrentAssumption DEF NeverStuck, TypeOK, Browsing
  <2>2. Cardinality(InWrapper) <= Cardinality(Requests)
    BY RequestsAssumption, FS_Subset DEF InWrapper
  <2>3. Cardinality(InWrapper) \in Nat /\ Cardinality(Requests) \in Nat
    BY RequestsAssumption, FS_Subset, FS_CardinalityType DEF InWrapper
  <2> QED BY <2>1, <2>2, <2>3, FS_EmptySet, MaxConcurrentAssumption
      DEF PermitsConserved
<1> QED BY <1>1, PermitsCorrect, PTL

----------------------------------------------------------------------------
(* Every step of the pipeline is one of the guard's, or leaves it alone.   *)
LEMMA AdmissionStep == [FetchNext]_fetchVars => [Next]_vars
<1> SUFFICES ASSUME [FetchNext]_fetchVars PROVE [Next]_vars
  OBVIOUS
<1>1. CASE UNCHANGED fetchVars
  BY <1>1 DEF fetchVars, vars
<1>2. CASE Tick \/ Install
  BY <1>2 DEF Tick, Install
<1>3. ASSUME NEW r \in Requests, Request(r) PROVE Next
  BY <1>3 DEF Request, Next
<1>4. ASSUME NEW r \in Requests, Progress(r) PROVE [Next]_vars
  BY <1>4
  DEF Progress, Grant, Lookup, RemoteExtracted, Read, Fetched, Reply, Next, Step
<1>5. ASSUME NEW r \in Requests, TimeOut(r) PROVE Next
  <2>1. Fail(r)
    BY <1>5 DEF TimeOut, Due, Fail, InWrapper, PCs, Waiting
  <2> QED BY <2>1 DEF Next
<1>6. ASSUME NEW r \in Requests, Break(r) PROVE Next
  BY <1>6 DEF Break, Next
<1> QED BY <1>1, <1>2, <1>3, <1>4, <1>5, <1>6 DEF FetchNext

(* The pipeline over the cache implements the bare passage of requests     *)
(* through the guard: what is said of Admission is said of the daemon.     *)
THEOREM PipelineImplementsAdmission == FetchSpec => Spec
<1>1. FetchInit => Init
  BY DEF FetchInit
<1> QED BY <1>1, AdmissionStep, PTL DEF FetchSpec, Spec

(* So no permit is lost, whatever the cache, the clock and refreshes do.   *)
THEOREM PipelinePermits == FetchSpec => [](TypeOK /\ PermitsConserved)
BY PipelineImplementsAdmission, PermitsCorrect, PTL

(* And with fewer requests than permits none waits for a permit that only  *)
(* waiting requests hold.                                                  *)
THEOREM PipelineNeverStuck ==
  ASSUME Cardinality(Requests) < MaxConcurrent
  PROVE  FetchSpec => []NeverStuck
BY PipelineImplementsAdmission, NoHoldAndWait, PTL

----------------------------------------------------------------------------
(* A set of naturals has a least member.                                   *)
LEMMA LeastNatural ==
  ASSUME NEW N \in SUBSET Nat, N # {}
  PROVE  \E m \in N : \A n \in N : m <= n
<1> DEFINE Less == {p \in Nat \X Nat : p[1] < p[2]}
<1>1. IsWellFoundedOn(Less, Nat)
  BY NatLessThanWellFounded DEF OpToRel
<1> HIDE DEF Less
<1>2. PICK m \in N : \A n \in N : <<n, m>> \notin Less
  BY <1>1, WFMin
<1>3. \A n \in N : ~(n < m)
  BY <1>2 DEF Less
<1> QED BY <1>3

(* A finite set whose members carry a natural number each has one whose    *)
(* number is the greatest, if the numbers are bounded.                     *)
LEMMA GreatestNumber ==
  ASSUME NEW T, T # {}, NEW b \in Nat, NEW f,
         \A t \in T : f[t] \in 0..b
  PROVE  \E m \in T : \A t \in T : f[t] <= f[m]
<1> DEFINE N == {b - f[t] : t \in T}
<1>1. N \in SUBSET Nat /\ N # {}
  OBVIOUS
<1> HIDE DEF N
<1>2. PICK n \in N : \A x \in N : n <= x
  BY <1>1, LeastNatural
<1>3. PICK m \in T : n = b - f[m]
  BY <1>2 DEF N
<1>4. ASSUME NEW t \in T PROVE f[t] <= f[m]
  <2>1. b - f[m] <= b - f[t]
    BY <1>2, <1>3 DEF N
  <2> QED BY <2>1
<1> QED BY <1>4

(* In a finite set ordered by who came after whom, where fewer than n come *)
(* after each, there are at most n.                                        *)
LEMMA FewAfterEach ==
  ASSUME NEW T, IsFiniteSet(T), NEW after, NEW n \in Nat,
         \A t \in T : t \notin after[t],
         \A s, t \in T : s # t => s \in after[t] \/ t \in after[s],
         \A s, t \in T : s \in after[t] => after[s] \subseteq after[t],
         \A t \in T : Cardinality(after[t] \cap T) < n
  PROVE  Cardinality(T) <= n
<1> DEFINE f == [t \in T |-> Cardinality(after[t] \cap T)]
<1>1. CASE T = {}
  BY <1>1, FS_EmptySet
<1>2. CASE T # {}
  <2>1. \A t \in T : IsFiniteSet(after[t] \cap T) /\ f[t] \in 0..Cardinality(T)
    <3> TAKE t \in T
    <3>1. after[t] \cap T \in SUBSET T
      OBVIOUS
    <3>2. IsFiniteSet(after[t] \cap T) /\ Cardinality(after[t] \cap T) <= Cardinality(T)
      BY <3>1, FS_Subset
    <3> QED BY <3>2, FS_CardinalityType
  <2>2. \A t \in T : f[t] \in 0..Cardinality(T)
    BY <2>1
  <2>3. Cardinality(T) \in Nat
    BY FS_CardinalityType
  <2> HIDE DEF f
  <2>4. PICK m \in T : \A t \in T : f[t] <= f[m]
    BY <1>2, <2>2, <2>3, GreatestNumber
  <2>5. ASSUME NEW s \in T, s # m PROVE s \in after[m]
    <3> SUFFICES ASSUME s \notin after[m] PROVE FALSE
      OBVIOUS
    <3>1. m \in after[s] /\ after[m] \subseteq after[s]
      BY <2>5
    <3>2. after[m] \cap T \in SUBSET (after[s] \cap T)
      BY <3>1
    <3>3. after[m] \cap T # after[s] \cap T
      BY <3>1
    <3>4. f[m] <= f[s] /\ f[m] # f[s]
      BY <2>1, <3>2, <3>3, FS_Subset DEF f
    <3>5. \A t \in T : f[t] \in Nat
      BY <2>2, <2>3
    <3>6. f[m] \in Nat /\ f[s] \in Nat /\ f[s] <= f[m]
      BY <2>4, <3>5
    <3> QED BY <3>4, <3>6
  <2>6. after[m] \cap T = T \ {m}
    BY <2>5
  <2>7. Cardinality(T \ {m}) = Cardinality(T) - 1
    BY FS_RemoveElement
  <2> QED BY <2>3, <2>6, <2>7
<1> QED BY <1>1, <1>2

----------------------------------------------------------------------------
\* What is stored under a key.
Entries == [page : Pages, ts : 0..MaxTime, newer : SUBSET CacheKeys]
InCache == {k \in CacheKeys : Stored(k)}

\* A page is stored under its own key, soon after it was read.
EntryOk(k) ==
  /\ cache[k].page.url = k.url /\ cache[k].page.mode = k.mode
  /\ cache[k].ts <= now /\ cache[k].ts - cache[k].page.at <= LongestFetch

\* The sets of newer keys order the entries by insertion.
InsertionOrder ==
  /\ \A k \in InCache : k \notin cache[k].newer
  /\ \A j, k \in InCache : j # k => j \in cache[k].newer \/ k \in cache[j].newer
  /\ \A j, k \in InCache : j \in cache[k].newer => cache[j].newer \subseteq cache[k].newer

CacheInv ==
  /\ now \in 0..MaxTime
  /\ cache \in [CacheKeys -> Entries \cup {NoEntry}]
  /\ \A k \in InCache : EntryOk(k)
  /\ IsFiniteSet(InCache) /\ Cardinality(InCache) <= MaxEntries
  /\ InsertionOrder

(* Deleting an entry keeps the others as they are.                         *)
LEMMA GetStep ==
  ASSUME CacheInv, NEW c, KeyOf(c) \in CacheKeys, cache' = AfterGet(c), now' = now
  PROVE  CacheInv'
<1> USE DEF CacheInv
<1>1. CASE cache' = cache
  BY <1>1 DEF InCache, Stored, EntryOk, InsertionOrder
<1>2. CASE cache' = [cache EXCEPT ![KeyOf(c)] = NoEntry]
  <2>1. InCache' = InCache \ {KeyOf(c)} /\ \A k \in InCache' : cache'[k] = cache[k]
    BY <1>2 DEF InCache, Stored
  <2>2. IsFiniteSet(InCache') /\ Cardinality(InCache') <= MaxEntries
    <3>1. InCache' \in SUBSET InCache
      BY <2>1
    <3>2. IsFiniteSet(InCache') /\ Cardinality(InCache') <= Cardinality(InCache)
      BY <3>1, FS_Subset
    <3> QED BY <3>2, FS_CardinalityType, LimitsAssumption
  <2>3. InsertionOrder' /\ \A k \in InCache' : EntryOk(k)'
    BY <2>1 DEF InsertionOrder, EntryOk
  <2> QED BY <1>2, <2>2, <2>3
<1> QED BY <1>1, <1>2 DEF AfterGet

(* Evicting leaves room for one more.                                      *)
LEMMA RoomMade ==
  ASSUME CacheInv, MaxEntries > 0, NEW k
  PROVE  IsFiniteSet(Kept(k)) /\ Cardinality(Kept(k)) <= MaxEntries - 1
<1> DEFINE after == [j \in InCache |-> cache[j].newer]
<1>1. Rest(k) \in SUBSET InCache /\ Kept(k) \in SUBSET Rest(k)
  BY DEF Rest, Kept, Fresh, InCache
<1>2. IsFiniteSet(Rest(k)) /\ IsFiniteSet(Kept(k))
  BY <1>1, FS_Subset DEF CacheInv
<1>3. ASSUME NEW t \in Kept(k) PROVE Cardinality(after[t] \cap Kept(k)) < MaxEntries - 1
  <2>1. after[t] = cache[t].newer /\ Cardinality(cache[t].newer \cap Rest(k)) < MaxEntries - 1
    BY <1>1 DEF Kept
  <2>2. cache[t].newer \cap Rest(k) \in SUBSET Rest(k)
    OBVIOUS
  <2>3. after[t] \cap Kept(k) \in SUBSET (cache[t].newer \cap Rest(k))
    BY <1>1, <2>1
  <2>4. IsFiniteSet(cache[t].newer \cap Rest(k))
    BY <1>2, <2>2, FS_Subset
  <2>5. Cardinality(after[t] \cap Kept(k)) <= Cardinality(cache[t].newer \cap Rest(k))
        /\ IsFiniteSet(after[t] \cap Kept(k))
    BY <2>3, <2>4, FS_Subset
  <2> QED BY <2>1, <2>4, <2>5, FS_CardinalityType, LimitsAssumption
<1>4. MaxEntries - 1 \in Nat
  BY LimitsAssumption
<1>5. \A s \in Kept(k) : s \in InCache /\ after[s] = cache[s].newer
  BY <1>1
<1>6. /\ \A t \in Kept(k) : t \notin after[t]
      /\ \A s, t \in Kept(k) : s # t => s \in after[t] \/ t \in after[s]
      /\ \A s, t \in Kept(k) : s \in after[t] => after[s] \subseteq after[t]
  BY <1>5 DEF CacheInv, InsertionOrder
<1> HIDE DEF after
<1> QED BY <1>2, <1>3, <1>4, <1>6, FewAfterEach

(* So storing a page that was read not long ago under its own key keeps    *)
(* the cache within its cap.                                               *)
LEMMA SetStep ==
  ASSUME CacheInv, NEW c, KeyOf(c) \in CacheKeys, NEW p \in Pages,
         p.url = c.url, p.mode = c.mode, now - p.at <= LongestFetch,
         cache' = AfterSet(c, p), now' = now
  PROVE  CacheInv'
<1> DEFINE k == KeyOf(c)
<1>1. CASE MaxEntries = 0
  BY <1>1 DEF AfterSet, CacheInv, InCache, Stored, EntryOk, InsertionOrder
<1>2. CASE MaxEntries # 0
  <2>1. k \notin Kept(k) /\ Kept(k) \subseteq InCache
    BY DEF Kept, Rest, Fresh, InCache
  <2>2. PICK e : e = [page |-> p, ts |-> now, newer |-> {}]
    OBVIOUS
  <2>3. e \in Entries /\ e # NoEntry /\ k.url = c.url /\ k.mode = c.mode
    <3>1. now \in Nat /\ now \in 0..MaxTime /\ now # MaxTime + 1
      BY LimitsAssumption DEF CacheInv
    <3>2. e.ts # NoEntry.ts
      BY <2>2, <3>1 DEF NoEntry, Never
    <3> QED BY <2>2, <3>1, <3>2 DEF Entries, KeyOf
  <2>4. /\ cache'[k] = e
        /\ \A j \in Kept(k) : cache'[j] = [cache[j] EXCEPT !.newer = @ \cup {k}]
        /\ \A j \in CacheKeys \ {k} : j \notin Kept(k) => cache'[j] = NoEntry
        /\ DOMAIN cache' = CacheKeys
        /\ cache' = [j \in CacheKeys |-> cache'[j]]
    BY <1>2, <2>1, <2>2 DEF AfterSet, InCache
  <2>5. ASSUME NEW j \in Kept(k)
        PROVE  /\ cache'[j] \in Entries /\ cache'[j] # NoEntry
               /\ cache'[j].page = cache[j].page /\ cache'[j].ts = cache[j].ts
               /\ cache'[j].newer = cache[j].newer \cup {k}
    <3>1. cache[j] \in Entries
      BY <2>1 DEF CacheInv, InCache, Stored
    <3>2. cache'[j] = [page |-> cache[j].page, ts |-> cache[j].ts,
                       newer |-> cache[j].newer \cup {k}]
      BY <2>4, <3>1 DEF Entries
    <3> QED BY <3>1, <3>2, LimitsAssumption DEF Entries, NoEntry, Never
  <2> HIDE DEF k
  <2>6. InCache' = Kept(k) \cup {k}
    BY <2>1, <2>3, <2>4, <2>5 DEF InCache, Stored, k
  <2>7. cache' \in [CacheKeys -> Entries \cup {NoEntry}]
    BY <2>3, <2>4, <2>5
  <2>8. \A j \in InCache' : EntryOk(j)'
    BY <2>1, <2>2, <2>3, <2>4, <2>5, <2>6, LimitsAssumption DEF CacheInv, EntryOk, Pages
  <2>9. IsFiniteSet(InCache') /\ Cardinality(InCache') <= MaxEntries
    <3>1. IsFiniteSet(Kept(k)) /\ Cardinality(Kept(k)) <= MaxEntries - 1
      BY <1>2, RoomMade, LimitsAssumption
    <3>2. /\ IsFiniteSet(InCache')
          /\ Cardinality(InCache') = Cardinality(Kept(k)) + 1
      BY <2>1, <2>6, <3>1, FS_AddElement
    <3>3. Cardinality(Kept(k)) \in Nat
      BY <3>1, FS_CardinalityType
    <3> QED BY <3>1, <3>2, <3>3, LimitsAssumption
  <2>10. InsertionOrder'
    BY <2>1, <2>2, <2>4, <2>5, <2>6 DEF CacheInv, InsertionOrder
  <2> QED BY <2>7, <2>8, <2>9, <2>10 DEF CacheInv
<1> QED BY <1>1, <1>2

(* Storing again under a key that is there puts out nothing that is fresh. *)
LEMMA RestoreKeeps ==
  ASSUME CacheInv, NEW c, KeyOf(c) \in CacheKeys, Stored(KeyOf(c)), NEW p,
         p # NoPage, cache' = AfterSet(c, p), NEW j \in CacheKeys, Fresh(j)
  PROVE  Stored(j)'
<1> DEFINE k == KeyOf(c)
<1>0. k \in InCache /\ j \in InCache
  BY DEF InCache, Fresh
<1> HIDE DEF k
<1>1. /\ IsFiniteSet(InCache \ {k}) /\ IsFiniteSet(InCache \ {k, j})
      /\ Cardinality(InCache \ {k}) = Cardinality(InCache) - 1
      /\ j # k => Cardinality(InCache \ {k, j}) = Cardinality(InCache) - 2
  <2>1. IsFiniteSet(InCache \ {k}) /\ Cardinality(InCache \ {k}) = Cardinality(InCache) - 1
    BY <1>0, FS_RemoveElement DEF CacheInv
  <2>2. /\ IsFiniteSet((InCache \ {k}) \ {j})
        /\ j # k => Cardinality((InCache \ {k}) \ {j}) = Cardinality(InCache) - 1 - 1
    BY <1>0, <2>1, FS_RemoveElement
  <2>3. (InCache \ {k}) \ {j} = InCache \ {k, j}
    OBVIOUS
  <2>4. Cardinality(InCache) - 1 - 1 = Cardinality(InCache) - 2
    BY FS_CardinalityType DEF CacheInv
  <2>5. j # k => Cardinality(InCache \ {k, j}) = Cardinality(InCache) - 2
    BY <2>2, <2>3, <2>4
  <2>6. IsFiniteSet(InCache \ {k, j})
    BY <2>2, <2>3
  <2> QED BY <2>1, <2>5, <2>6
<1>2. MaxEntries > 0
  <2>1. Cardinality(InCache \ {k}) \in Nat /\ Cardinality(InCache) \in Nat
    BY <1>1, FS_CardinalityType DEF CacheInv
  <2> QED BY <1>1, <2>1, LimitsAssumption DEF CacheInv
<1>3. CASE j = k
  <2>1. cache'[j].page = p
    BY <1>2, <1>3 DEF AfterSet, k
  <2> QED BY <2>1 DEF Stored, NoEntry
<1>4. CASE j # k
  <2>1. cache[j] \in Entries /\ j \notin cache[j].newer
    BY <1>0 DEF CacheInv, InsertionOrder, InCache, Stored
  <2>2. cache[j].newer \cap Rest(k) \in SUBSET (InCache \ {k, j})
    BY <2>1 DEF Rest, InCache, Fresh
  <2>3. Cardinality(cache[j].newer \cap Rest(k)) < MaxEntries - 1
    <3>1. /\ IsFiniteSet(cache[j].newer \cap Rest(k))
          /\ Cardinality(cache[j].newer \cap Rest(k)) <= Cardinality(InCache \ {k, j})
      BY <1>1, <2>2, FS_Subset
    <3>2. Cardinality(cache[j].newer \cap Rest(k)) \in Nat /\ Cardinality(InCache) \in Nat
      BY <3>1, FS_CardinalityType DEF CacheInv
    <3> QED BY <1>1, <1>4, <3>1, <3>2, LimitsAssumption DEF CacheInv
  <2>4. j \in Kept(k)
    BY <1>4, <2>3 DEF Kept, Rest
  <2>5. cache'[j] = [cache[j] EXCEPT !.newer = @ \cup {k}]
    BY <1>2, <1>4, <2>4 DEF AfterSet, k
  <2>6. cache'[j].ts # Never
    BY <2>1, <2>5, LimitsAssumption DEF Entries, Never
  <2> QED BY <2>6 DEF Stored, NoEntry
<1> QED BY <1>3, <1>4
----------------------------------------------------------------------------
\* A request has a page only once it has looked into the cache, at a time s
\* that is not to come; the page is the one it asks for, read since if it is
\* a refresh; what it reads itself is on its way for no longer than a fetch
\* takes; and nothing is left over when it is done.
Early == {"idle", "outer", "inside"}
Calls == [url : Urls, mode : Modes, format : {"markdown", "html", "airead"},
          refresh : BOOLEAN, degraded : BOOLEAN]

Suits(p, c, s) ==
  /\ p \in Pages /\ p.url = c.url /\ p.mode = c.mode
  /\ c.refresh => p.at >= s
  /\ p.at < s => s - p.at < TTL + LongestFetch

Fits(at, c, s, x, p, t) ==
  /\ at # "idle" => c \in Calls
  /\ IF s = Never THEN p = NoPage /\ at \in Early /\ ~x
     ELSE /\ at # "idle" /\ s <= t
          /\ p # NoPage => Suits(p, c, s)
          /\ at \in {"inner", "browsing"} =>
               t - s <= FetchTimeout /\ (p # NoPage => p.at >= s)
          /\ x /\ p # NoPage => t - p.at <= ReaderTimeout
          /\ x => at = "inside"

RequestsInv ==
  /\ pc \in [Requests -> PCs]
  /\ since \in [Requests -> Nat]
  /\ remote \subseteq Requests
  /\ page = [r \in Requests |-> page[r]]
  /\ call = [r \in Requests |-> call[r]]
  /\ \A r \in Requests : Fits(pc[r], call[r], since[r], r \in remote, page[r], now)

PipelineInv == CacheInv /\ RequestsInv

(* A step of one request leaves what the others have as it is.             *)
LEMMA RequestLocal ==
  ASSUME RequestsInv, NEW r \in Requests, now' = now, Moves(r),
         NEW c, call' = [call EXCEPT ![r] = c],
         NEW s \in Nat, since' = [since EXCEPT ![r] = s],
         remote' \in {remote, remote \cup {r}, remote \ {r}},
         NEW p, page' = [page EXCEPT ![r] = p],
         Fits(pc'[r], c, s, r \in remote', p, now)
  PROVE  RequestsInv'
<1>1. since' \in [Requests -> Nat] /\ since'[r] = s
  BY DEF RequestsInv
<1>2. page' = [q \in Requests |-> page'[q]] /\ page'[r] = p
  BY DEF RequestsInv
<1>3. call' = [q \in Requests |-> call'[q]] /\ call'[r] = c
  BY DEF RequestsInv
<1>4. \A q \in Requests \ {r} :
        /\ since'[q] = since[q] /\ page'[q] = page[q]
        /\ call'[q] = call[q] /\ pc'[q] = pc[q] /\ (q \in remote' <=> q \in remote)
  BY DEF RequestsInv, Moves
<1>5. \A q \in Requests : Fits(pc'[q], call'[q], since'[q], q \in remote', page'[q], now')
  <2> TAKE q \in Requests
  <2>1. CASE q = r
    BY <1>1, <1>2, <1>3, <2>1
  <2>2. CASE q # r
    <3>1. (q \in remote') = (q \in remote)
      BY <1>4, <2>2
    <3>2. Fits(pc[q], call[q], since[q], q \in remote, page[q], now)
      BY DEF RequestsInv
    <3> QED BY <1>4, <2>2, <3>1, <3>2
  <2> QED BY <2>1, <2>2
<1> QED BY <1>1, <1>2, <1>3, <1>5 DEF RequestsInv, Moves

(* What a call asks, once its url is rewritten and its mode settled, is    *)
(* still a call.                                                           *)
LEMMA SettledCall ==
  ASSUME NEW c \in Calls, NEW d,
         d = [c EXCEPT !.url = Rewrite(@), !.mode = Resolved(EffectiveMode(c.mode)),
                       !.degraded = Degrades(EffectiveMode(c.mode))]
  PROVE  d \in Calls /\ KeyOf(d) \in CacheKeys /\ d.refresh = c.refresh
<1>1. Rewrite(c.url) \in Urls
  BY RuleAssumption DEF Calls, Rewrite
<1>2. Modes = {"basic", "stealth", "max"}
  BY DEF Modes, ModeLevels
<1>3. EffectiveMode(c.mode) \in Modes
  BY LimitsAssumption DEF Calls, EffectiveMode
<1>4. Resolved(EffectiveMode(c.mode)) \in Modes /\ Degrades(EffectiveMode(c.mode)) \in BOOLEAN
  BY <1>2, <1>3 DEF Resolved, Degrades
<1> QED BY <1>1, <1>4 DEF Calls, KeyOf, CacheKeys

(* Every step keeps the invariant.                                         *)
LEMMA PipelineStep == PipelineInv /\ [FetchNext]_fetchVars => PipelineInv'
<1> SUFFICES ASSUME PipelineInv, [FetchNext]_fetchVars PROVE PipelineInv'
  OBVIOUS
<1>0. /\ MaxTime \in Nat /\ FetchTimeout \in Nat /\ TTL \in Nat /\ Never \in Nat
      /\ ReaderTimeout \in Nat /\ LongestFetch \in Nat
      /\ FetchTimeout <= LongestFetch /\ ReaderTimeout <= LongestFetch
      /\ now \in Nat /\ now # Never /\ CacheInv /\ RequestsInv
  BY LimitsAssumption DEF PipelineInv, CacheInv, Never, LongestFetch
<1>1. ASSUME UNCHANGED <<cache, now>> PROVE CacheInv'
  BY <1>0, <1>1 DEF CacheInv, InCache, Stored, EntryOk, InsertionOrder
<1>2. CASE UNCHANGED fetchVars
  BY <1>0, <1>1, <1>2 DEF fetchVars, PipelineInv, RequestsInv
<1>3. CASE Tick
  <2>1. now' \in 0..MaxTime /\ now <= now' /\ now' = now + 1
    BY <1>0, <1>3 DEF Tick
  <2>2. CacheInv'
    <3>1. InCache' = InCache /\ cache' = cache
      BY <1>3 DEF Tick, InCache, Stored
    <3>2. ASSUME NEW k \in InCache PROVE EntryOk(k)'
      <4>1. EntryOk(k) /\ cache[k].ts \in Nat
        BY <1>0 DEF CacheInv, InCache, Stored, Entries
      <4> QED BY <1>0, <2>1, <3>1, <4>1 DEF EntryOk
    <3> QED BY <1>0, <2>1, <3>1, <3>2 DEF CacheInv, InsertionOrder
  <2>3. ASSUME NEW r \in Requests
        PROVE  Fits(pc[r], call[r], since[r], r \in remote, page[r], now')
    <3>1. Fits(pc[r], call[r], since[r], r \in remote, page[r], now) /\ since[r] \in Nat
      BY <1>0 DEF RequestsInv
    <3>2. pc[r] \in {"inner", "browsing"} => now' - since[r] <= FetchTimeout
      BY <1>0, <1>3, <2>1, <3>1 DEF Tick, Due
    <3>3. r \in remote /\ page[r] # NoPage => now' - page[r].at <= ReaderTimeout
      <4> SUFFICES ASSUME r \in remote, page[r] # NoPage
                   PROVE  now' - page[r].at <= ReaderTimeout
        OBVIOUS
      <4>1. page[r].at \in Nat
        BY <1>0, <3>1 DEF Fits, Suits, Pages
      <4> QED BY <1>0, <1>3, <2>1, <4>1 DEF Tick, ReaderDue
    <3> QED BY <1>0, <2>1, <3>1, <3>2, <3>3 DEF Fits
  <2>4. RequestsInv'
    BY <1>0, <1>3, <2>3 DEF Tick, vars, RequestsInv
  <2> QED BY <2>2, <2>4 DEF PipelineInv
<1>4. CASE Install
  BY <1>0, <1>1, <1>4 DEF Install, vars, PipelineInv, RequestsInv
<1>5. ASSUME NEW r \in Requests, Forget(r), End(r) PROVE PipelineInv'
  <2>1. Moves(r) /\ pc'[r] = "idle"
    BY <1>0, <1>5 DEF End, Moves, RequestsInv, PCs
  <2>2. Fits(pc'[r], NoCall, Never, r \in remote', NoPage, now)
    BY <1>5, <2>1 DEF Forget, Fits, Early
  <2> QED BY <1>0, <1>1, <1>5, <2>1, <2>2, RequestLocal DEF Forget, PipelineInv
<1>6. ASSUME NEW r \in Requests, Request(r) PROVE PipelineInv'
  <2>1. Moves(r) /\ pc'[r] \in {"outer", "inside"} /\ pc[r] = "idle"
    BY <1>0, <1>6 DEF Request, Dispatch, Enter, Moves, RequestsInv, PCs, Waiting
  <2>2. since[r] = Never /\ page[r] = NoPage /\ r \notin remote
    BY <1>0, <2>1 DEF RequestsInv, Fits
  <2>3. PICK c \in Calls : call' = [call EXCEPT ![r] = c]
    BY <1>6, ArgsAssumption DEF Request, Calls
  <2>4. remote' = remote /\ Fits(pc'[r], c, Never, r \in remote', NoPage, now)
    BY <1>6, <2>1, <2>2, <2>3 DEF Request, Fits, Early
  <2>5. since' = [since EXCEPT ![r] = Never] /\ page' = [page EXCEPT ![r] = NoPage]
    BY <1>0, <1>6, <2>2 DEF Request, RequestsInv
  <2> QED BY <1>0, <1>1, <1>6, <2>1, <2>3, <2>4, <2>5, RequestLocal
      DEF Request, PipelineInv
<1>7. ASSUME NEW r \in Requests, Grant(r) \/ Fetched(r) PROVE RequestsInv'
  <2>1. /\ Moves(r) /\ now' = now
        /\ \/ pc[r] = "outer" /\ pc'[r] = "inside"
           \/ pc[r] = "inner" /\ pc'[r] = "browsing"
           \/ pc[r] = "browsing" /\ pc'[r] = "converting"
    BY <1>0, <1>7 DEF Grant, Granted, Fetched, Browsed, Moves, RequestsInv, PCs, Waiting
  <2>2. /\ call' = [call EXCEPT ![r] = call[r]]
        /\ since' = [since EXCEPT ![r] = since[r]]
        /\ page' = [page EXCEPT ![r] = page[r]]
    BY <1>0, <1>7 DEF Grant, Fetched, RequestsInv
  <2>3. since[r] \in Nat /\ Fits(pc[r], call[r], since[r], r \in remote, page[r], now)
    BY <1>0 DEF RequestsInv
  <2>4. remote' = remote /\ Fits(pc'[r], call[r], since[r], r \in remote', page[r], now)
    BY <1>7, <2>1, <2>3 DEF Grant, Fetched, Fits, Early
  <2> QED BY <1>0, <2>1, <2>2, <2>3, <2>4, RequestLocal
<1>8. ASSUME NEW r \in Requests, Lookup(r) PROVE PipelineInv'
  <2>1. /\ pc[r] = "inside" /\ since[r] = Never /\ page[r] = NoPage /\ call[r] \in Calls
        /\ r \notin remote
    BY <1>0, <1>8 DEF Lookup, RequestsInv, Fits
  <2>2. PICK c : c = [call[r] EXCEPT !.url = Rewrite(@),
                        !.mode = Resolved(EffectiveMode(call[r].mode)),
                        !.degraded = Degrades(EffectiveMode(call[r].mode))]
    OBVIOUS
  <2>3. c \in Calls /\ KeyOf(c) \in CacheKeys
    BY <2>1, <2>2, SettledCall
  <2>4. /\ call' = [call EXCEPT ![r] = c] /\ cache' = AfterGet(c)
        /\ IF Found(c)
             THEN /\ page' = [page EXCEPT ![r] = cache[KeyOf(c)].page]
                  /\ UNCHANGED <<vars, remote>>
             ELSE /\ page' = page
                  /\ \/ UNCHANGED vars /\ remote' = remote \cup {r}
                     \/ Miss(r) /\ remote' = remote
        /\ since' = [since EXCEPT ![r] = now] /\ now' = now
    BY <1>8, <2>2 DEF Lookup
  <2>5. CacheInv'
    BY <1>0, <2>3, <2>4, GetStep
  <2>6. Moves(r) /\ pc'[r] \in {"inside", "inner", "browsing"}
    BY <1>0, <2>1, <2>4 DEF Miss, Enter, vars, Moves, RequestsInv, PCs, Waiting
  <2>7. CASE Found(c)
    <3> DEFINE e == cache[KeyOf(c)]
    <3>1. /\ e \in Entries /\ EntryOk(KeyOf(c)) /\ now - e.ts < TTL
          /\ ~c.refresh /\ pc'[r] = "inside"
      BY <1>0, <2>1, <2>3, <2>4, <2>7 DEF Found, Fresh, CacheInv, InCache, Stored, vars
    <3>2. Suits(e.page, c, now)
      BY <1>0, <3>1 DEF Suits, EntryOk, KeyOf, Entries, Pages
    <3>3. remote' = remote /\ Fits(pc'[r], c, now, r \in remote', e.page, now)
      BY <1>0, <2>1, <2>3, <2>4, <2>7, <3>1, <3>2 DEF Fits
    <3> QED BY <1>0, <2>4, <2>5, <2>6, <2>7, <3>3, RequestLocal DEF PipelineInv
  <2>8. CASE ~Found(c)
    <3>1. page' = [page EXCEPT ![r] = NoPage]
      BY <1>0, <2>1, <2>4, <2>8 DEF RequestsInv
    <3>2. Fits(pc'[r], c, now, r \in remote', NoPage, now)
      BY <1>0, <2>1, <2>3, <2>4, <2>6, <2>8 DEF Fits, vars
    <3> QED BY <1>0, <2>4, <2>5, <2>6, <3>1, <3>2, RequestLocal DEF PipelineInv
  <2> QED BY <2>7, <2>8
<1>9. ASSUME NEW r \in Requests, Read(r) PROVE PipelineInv'
  <2>1. /\ since[r] \in Nat /\ since[r] # Never /\ pc[r] # "idle"
        /\ Fits(pc[r], call[r], since[r], r \in remote, page[r], now)
    BY <1>0, <1>9 DEF Read, RequestsInv, Fits, Early
  <2>2. Moves(r) /\ pc' = pc /\ now' = now /\ remote' = remote
    BY <1>0, <1>9 DEF Read, vars, Moves, RequestsInv
  <2>3. /\ call' = [call EXCEPT ![r] = call[r]]
        /\ since' = [since EXCEPT ![r] = since[r]]
        /\ page' = [page EXCEPT ![r] = ReadNow(r)]
    BY <1>0, <1>9 DEF Read, RequestsInv
  <2>4. call[r] \in Calls /\ since[r] <= now
    BY <2>1 DEF Fits
  <2>5. ReadNow(r) \in Pages
    BY <1>0, <2>4 DEF ReadNow, Pages, Calls, CacheInv
  <2>6. Fits(pc[r], call[r], since[r], r \in remote, ReadNow(r), now)
    BY <1>0, <2>1, <2>4, <2>5 DEF Fits, Suits, ReadNow
  <2>7. RequestsInv'
    BY <1>0, <2>1, <2>2, <2>3, <2>6, RequestLocal
  <2> QED BY <1>0, <1>1, <1>9, <2>7 DEF Read, PipelineInv
<1>10. ASSUME NEW r \in Requests, RemoteExtracted(r) PROVE PipelineInv'
  <2>1. /\ page[r] # NoPage /\ r \in remote /\ since[r] \in Nat
        /\ Fits(pc[r], call[r], since[r], r \in remote, page[r], now)
    BY <1>0, <1>10 DEF RemoteExtracted, RequestsInv
  <2>2. /\ since[r] # Never /\ call[r] \in Calls /\ page[r] \in Pages
        /\ page[r].url = call[r].url /\ page[r].mode = call[r].mode
        /\ now - page[r].at <= ReaderTimeout
    BY <2>1 DEF Fits, Suits, Early
  <2>3. KeyOf(call[r]) \in CacheKeys /\ now - page[r].at <= LongestFetch
    BY <1>0, <2>2 DEF KeyOf, CacheKeys, Calls, Pages
  <2>4. CacheInv'
    BY <1>0, <1>10, <2>2, <2>3, SetStep DEF RemoteExtracted
  <2>5. Moves(r) /\ pc' = pc /\ now' = now /\ remote' = remote \ {r}
    BY <1>0, <1>10 DEF RemoteExtracted, vars, Moves, RequestsInv
  <2>6. /\ call' = [call EXCEPT ![r] = call[r]]
        /\ since' = [since EXCEPT ![r] = since[r]]
        /\ page' = [page EXCEPT ![r] = page[r]]
    BY <1>0, <1>10 DEF RemoteExtracted, RequestsInv
  <2>7. Fits(pc[r], call[r], since[r], r \in remote', page[r], now)
    BY <2>1, <2>2, <2>5 DEF Fits
  <2>8. RequestsInv'
    BY <1>0, <2>1, <2>5, <2>6, <2>7, RequestLocal
  <2> QED BY <2>4, <2>8 DEF PipelineInv
<1>11. ASSUME NEW r \in Requests, Fetched(r) PROVE PipelineInv'
  <2>1. /\ page[r] # NoPage /\ pc[r] = "browsing" /\ since[r] \in Nat
        /\ Fits(pc[r], call[r], since[r], r \in remote, page[r], now)
    BY <1>0, <1>11 DEF Fetched, Browsed, RequestsInv
  <2>2. /\ call[r] \in Calls /\ page[r] \in Pages
        /\ page[r].url = call[r].url /\ page[r].mode = call[r].mode
        /\ page[r].at >= since[r] /\ now - since[r] <= FetchTimeout
    BY <2>1 DEF Fits, Suits, Early
  <2>3. KeyOf(call[r]) \in CacheKeys /\ now - page[r].at <= LongestFetch
    BY <1>0, <2>1, <2>2 DEF KeyOf, CacheKeys, Calls, Pages
  <2> QED BY <1>0, <1>7, <1>11, <2>2, <2>3, SetStep DEF Fetched, PipelineInv
<1> QED BY <1>1, <1>2, <1>3, <1>4, <1>5, <1>6, <1>7, <1>8, <1>9, <1>10, <1>11
    DEF FetchNext, Progress, Reply, Answer, TimeOut, Break, Fail, Refuse, Cancel,
        Grant, Read, PipelineInv

(* Every state the pipeline reaches satisfies the invariant.               *)
THEOREM PipelineCorrect == FetchSpec => []PipelineInv
<1>1. FetchInit => PipelineInv
  <2> SUFFICES ASSUME FetchInit PROVE PipelineInv
    OBVIOUS
  <2>1. InCache = {} /\ now = 0 /\ cache \in [CacheKeys -> Entries \cup {NoEntry}]
    BY DEF FetchInit, InCache, Stored
  <2>2. CacheInv
    BY <2>1, FS_EmptySet, LimitsAssumption DEF CacheInv, InsertionOrder
  <2>3. RequestsInv
    BY LimitsAssumption
    DEF FetchInit, Init, RequestsInv, Fits, Never, PCs, Early
  <2> QED BY <2>2, <2>3 DEF PipelineInv
<1> QED BY <1>1, PipelineStep, PTL DEF FetchSpec

(* The cache never holds more entries than max_entries, and none if it is 0.*)
THEOREM CacheWithinCap == FetchSpec => [](Cardinality(InCache) <= MaxEntries)
<1>1. PipelineInv => Cardinality(InCache) <= MaxEntries
  BY DEF PipelineInv, CacheInv
<1> QED BY <1>1, PipelineCorrect, PTL

(* A refresh never ends with a page that was read before it was asked for, *)
(* however many calls share the cache.                                     *)
THEOREM RefreshIsFresh == FetchSpec => []RefreshReadsAgain
<1>1. PipelineInv => RefreshReadsAgain
  BY LimitsAssumption
  DEF PipelineInv, RequestsInv, Fits, Suits, RefreshReadsAgain
<1> QED BY <1>1, PipelineCorrect, PTL

(* No request is ever answered with a page of another url or mode.         *)
THEOREM RightPage == FetchSpec => []PageIsTheOneAskedFor
<1>1. PipelineInv => PageIsTheOneAskedFor
  BY LimitsAssumption
  DEF PipelineInv, RequestsInv, Fits, Suits, PageIsTheOneAskedFor
<1> QED BY <1>1, PipelineCorrect, PTL

(* A page that is used is never older than the TTL and one fetch.          *)
THEOREM RecentPage == FetchSpec => []NotTooOld
<1>1. PipelineInv => NotTooOld
  BY LimitsAssumption
  DEF PipelineInv, RequestsInv, Fits, Suits, NotTooOld
<1> QED BY <1>1, PipelineCorrect, PTL

(* Storing a page again never puts out a fresh page of another key.        *)
THEOREM RestoreKeepsOthers == FetchSpec => RestoreEvictsNone
<1> DEFINE Kindly == \A r \in Requests :
      (Fetched(r) \/ RemoteExtracted(r)) /\ Stored(KeyOf(call[r]))
      => \A k \in CacheKeys : Fresh(k) => Stored(k)'
<1>1. PipelineInv /\ [FetchNext]_fetchVars => [Kindly]_fetchVars
  <2> SUFFICES ASSUME PipelineInv, NEW r \in Requests, Fetched(r) \/ RemoteExtracted(r),
                      Stored(KeyOf(call[r])), NEW k \in CacheKeys, Fresh(k)
               PROVE  Stored(k)'
    OBVIOUS
  <2>1. CacheInv /\ since[r] \in Nat /\ Fits(pc[r], call[r], since[r], r \in remote, page[r], now)
    BY DEF PipelineInv, RequestsInv
  <2>2. pc[r] # "idle" /\ page[r] # NoPage
    BY <2>1 DEF Fetched, Browsed, RemoteExtracted, Fits
  <2>3. KeyOf(call[r]) \in CacheKeys
    BY <2>1, <2>2 DEF Fits, KeyOf, CacheKeys, Calls
  <2> QED BY <2>1, <2>2, <2>3, RestoreKeeps DEF Fetched, RemoteExtracted
<1>2. [][Kindly]_fetchVars <=> RestoreEvictsNone
  BY PTL DEF RestoreEvictsNone, Kindly
<1> QED BY <1>1, <1>2, PipelineCorrect, PTL DEF FetchSpec
=============================================================================
