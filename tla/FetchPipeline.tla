--------------------------- MODULE FetchPipeline ---------------------------
(***************************************************************************)
(* What a daemon does with the requests of Admission once they are in the  *)
(* wrapper: fetch_page_impl and fetch_pattern_impl of _fetcher.py over the *)
(* PageCache of _config.py.  The calls run in one asyncio loop and share   *)
(* the cache, so a step goes from one await to the next.  A page is known  *)
(* by its url, the mode it was fetched with and when it was read.          *)
(***************************************************************************)
EXTENDS Admission

CONSTANTS
  Urls,          \* the addresses asked for and rewritten to
  Rule,          \* what the first matching rewrite rule makes of each
  Remote,        \* those that a site rule sends to a remote strategy
  Args,          \* the arguments of calls: url, mode, format, refresh
  MinMode,       \* min_mode
  TTL,           \* cache_ttl
  MaxEntries,    \* the cap the cache was built with
  FetchTimeout,  \* fetch_timeout
  ReaderTimeout, \* READER_TIMEOUT, after which a remote extraction gives up
  MaxTime        \* bound on the clock

ModeLevels == [basic |-> 0, stealth |-> 1, max |-> 2]
Modes == DOMAIN ModeLevels

ASSUME RuleAssumption == Rule \in [Urls -> Urls] /\ Remote \subseteq Urls
ASSUME ArgsAssumption ==
  Args \subseteq [url : Urls, mode : Modes, format : {"markdown", "html", "airead"},
                  refresh : BOOLEAN]
ASSUME LimitsAssumption ==
  MinMode \in Modes /\ {TTL, MaxEntries, FetchTimeout, ReaderTimeout, MaxTime} \subseteq Nat

VARIABLES
  now,     \* the clock
  usable,  \* whether the camoufox browser is installed
  cache,   \* the dict of PageCache; an entry knows the keys set after it
  call,    \* what each request asks, in the end with its final url and mode
  since,   \* when it looked into the cache
  remote,  \* whose remote extraction is in its thread
  page     \* the page it works on

fetchVars == <<pc, queue, free, now, usable, cache, call, since, remote, page>>

Never == MaxTime + 1
NoPage == [url |-> "", mode |-> "", at |-> Never]
Pages == [url : Urls, mode : Modes, at : 0..MaxTime]

CacheKeys == [url : Urls, mode : Modes]
NoEntry == [page |-> NoPage, ts |-> Never, newer |-> {}]

NoCall == [url |-> "", mode |-> "", format |-> "", refresh |-> FALSE,
           degraded |-> FALSE]

FetchInit ==
  /\ Init
  /\ now = 0 /\ usable = FALSE
  /\ cache = [k \in CacheKeys |-> NoEntry]
  /\ call = [r \in Requests |-> NoCall]
  /\ since = [r \in Requests |-> Never]
  /\ remote = {}
  /\ page = [r \in Requests |-> NoPage]

----------------------------------------------------------------------------
\* A chain of rewrites stops where nothing changes, or after three.
Rewrite(url) == Rule[Rule[Rule[url]]]

EffectiveMode(mode) == IF ModeLevels[mode] >= ModeLevels[MinMode] THEN mode ELSE MinMode

\* resolve_stealth_degradation
Degrades(mode) == mode # "basic" /\ ~usable
Resolved(mode) == IF Degrades(mode) THEN "basic" ELSE mode

\* Slip: the key is the url alone.
KeyOfUrl(c) == [url |-> c.url, mode |-> MinMode]

\* PageCache._make_key
KeyOf(c) == [url |-> c.url, mode |-> c.mode]

Stored(k) == cache[k] # NoEntry

\* Slip: an entry lives twice as long.
FreshTwice(k) == Stored(k) /\ now - cache[k].ts < 2 * TTL

Fresh(k) == Stored(k) /\ now - cache[k].ts < TTL

\* Slip: refresh is forgotten.
FoundAlways(c) == Fresh(KeyOf(c))

\* PageCache.get, which a refresh does not ask.
Found(c) == ~c.refresh /\ Fresh(KeyOf(c))

\* PageCache.get deletes the entry it finds expired.
AfterGet(c) ==
  IF c.refresh \/ Fresh(KeyOf(c)) THEN cache ELSE [cache EXCEPT ![KeyOf(c)] = NoEntry]

\* What pop and clear_expired leave for a store under k.
Rest(k) == {j \in CacheKeys : Fresh(j) /\ j # k}

\* Slip: an entry that is replaced counts against the cap.
KeptUnpopped(k) ==
  {j \in Rest(k) : Cardinality({i \in cache[j].newer : Fresh(i)}) < MaxEntries - 1}

\* Evicting the oldest while the cache is full spares those that fewer than
\* MaxEntries - 1 entries are newer than.
Kept(k) == {j \in Rest(k) : Cardinality(cache[j].newer \cap Rest(k)) < MaxEntries - 1}

\* PageCache.set: pop the key, clear the expired, evict the oldest, insert.
AfterSet(c, p) ==
  IF MaxEntries = 0 THEN cache
  ELSE [k \in CacheKeys |->
          IF k = KeyOf(c) THEN [page |-> p, ts |-> now, newer |-> {}]
          ELSE IF k \in Kept(KeyOf(c)) THEN [cache[k] EXCEPT !.newer = @ \cup {KeyOf(c)}]
          ELSE NoEntry]

RemoteAiread(c) == c.format = "airead" /\ c.url \in Remote

----------------------------------------------------------------------------
Request(r) ==
  /\ Dispatch(r)
  /\ \E a \in Args :
       call' = [call EXCEPT ![r] =
                  [url |-> a.url, mode |-> a.mode, format |-> a.format,
                   refresh |-> a.refresh, degraded |-> FALSE]]
  /\ UNCHANGED <<now, usable, cache, since, remote, page>>

Grant(r) == Granted(r) /\ UNCHANGED <<now, usable, cache, call, since, remote, page>>

\* Rewrite the url, settle the mode, pick the strategy, look into the cache and,
\* for a miss, start the remote strategy or ask the guard; the progress message
\* sent before it takes no step of its own.
Lookup(r) ==
  /\ pc[r] = "inside" /\ since[r] = Never
  /\ LET mode == EffectiveMode(call[r].mode)
         c == [call[r] EXCEPT !.url = Rewrite(@), !.mode = Resolved(mode),
                              !.degraded = Degrades(mode)]
     IN /\ call' = [call EXCEPT ![r] = c]
        /\ cache' = AfterGet(c)
        /\ IF Found(c)
             THEN /\ page' = [page EXCEPT ![r] = cache[KeyOf(c)].page]
                  /\ UNCHANGED <<vars, remote>>
             ELSE /\ IF RemoteAiread(c)
                       THEN remote' = remote \cup {r} /\ UNCHANGED vars
                       ELSE Miss(r) /\ UNCHANGED remote
                  /\ UNCHANGED page
  /\ since' = [since EXCEPT ![r] = now]
  /\ UNCHANGED <<now, usable>>

ReadNow(r) == [url |-> call[r].url, mode |-> call[r].mode, at |-> now]

\* The page is read, by a browser or by the remote service.
Read(r) ==
  /\ pc[r] = "browsing" \/ r \in remote
  /\ page[r] = NoPage
  /\ page' = [page EXCEPT ![r] = ReadNow(r)]
  /\ UNCHANGED <<vars, now, usable, cache, call, since, remote>>

\* The remote strategy returns, with an empty text when it failed, and the
\* stand-in for the page is cached like a page.
RemoteExtracted(r) ==
  /\ r \in remote /\ page[r] # NoPage
  /\ remote' = remote \ {r}
  /\ cache' = AfterSet(call[r], page[r])
  /\ UNCHANGED <<vars, now, usable, call, since, page>>

\* browse_url returns in time and the page is cached.
Fetched(r) ==
  /\ page[r] # NoPage
  /\ Browsed(r)
  /\ cache' = AfterSet(call[r], page[r])
  /\ UNCHANGED <<now, usable, call, since, remote, page>>

\* The request is over, its locals are gone.
Forget(r) ==
  /\ call' = [call EXCEPT ![r] = NoCall]
  /\ since' = [since EXCEPT ![r] = Never]
  /\ remote' = remote \ {r}
  /\ page' = [page EXCEPT ![r] = NoPage]
  /\ UNCHANGED <<now, usable, cache>>

\* Converted, cut and sent with its METADATA.
Reply(r) == page[r] # NoPage /\ r \notin remote /\ Answer(r) /\ Forget(r)

\* wait_for spans the wait for the guard and the browse.
Due(r) == pc[r] \in {"inner", "browsing"} /\ now - since[r] >= FetchTimeout

\* The remote strategy has its own timeout, and none of the daemon's.
ReaderDue(r) == r \in remote /\ page[r] # NoPage /\ now - page[r].at >= ReaderTimeout

TimeOut(r) == Due(r) /\ End(r) /\ Forget(r)

\* Anything else that ends a request early, from Admission.
Break(r) == (Fail(r) \/ Refuse(r) \/ Cancel(r)) /\ Forget(r)

\* What is due comes back or is timed out before the clock moves on.
Tick ==
  /\ now < MaxTime
  /\ \A r \in Requests : ~Due(r) /\ ~ReaderDue(r)
  /\ now' = now + 1
  /\ UNCHANGED <<vars, usable, cache, call, since, remote, page>>

\* The background download of CamoufoxFetch lands.
Install ==
  /\ ~usable /\ usable' = TRUE
  /\ UNCHANGED <<vars, now, cache, call, since, remote, page>>

Progress(r) ==
  Grant(r) \/ Lookup(r) \/ RemoteExtracted(r) \/ Read(r) \/ Fetched(r) \/ Reply(r)

FetchNext ==
  \/ \E r \in Requests : Request(r) \/ Progress(r) \/ TimeOut(r) \/ Break(r)
  \/ Tick \/ Install

FetchSpec == FetchInit /\ [][FetchNext]_fetchVars

\* As in Admission: ready tasks run and browses come back, nothing else is owed.
FairFetchSpec == FetchSpec /\ \A r \in Requests : WF_fetchVars(Progress(r))

----------------------------------------------------------------------------

(* README.md:338, _fetcher.py:302-304: a request is answered with a page   *)
(* of the url and the mode settled for it, cached or not, so what was      *)
(* fetched while stealth was degraded never answers a stealth request.     *)
PageIsTheOneAskedFor ==
  \A r \in Requests : page[r] # NoPage =>
    page[r].url = call[r].url /\ page[r].mode = call[r].mode

\* The longest a page can be on its way into the cache.
LongestFetch == IF FetchTimeout > ReaderTimeout THEN FetchTimeout ELSE ReaderTimeout

(* No page is older than the TTL and one fetch when it is used, whether it *)
(* came from a browser or from a remote strategy.                          *)
NotTooOld ==
  \A r \in Requests : page[r] # NoPage /\ page[r].at < since[r] =>
    since[r] - page[r].at < TTL + LongestFetch

(* A refresh is answered with a page read after it was asked for, also     *)
(* when others store older pages of the same key meanwhile.                *)
RefreshReadsAgain ==
  \A r \in Requests : call[r].refresh /\ page[r] # NoPage => page[r].at >= since[r]

(* _config.py:56-57: storing a page again, at a full cache too, puts out   *)
(* no page of another key that is still fresh.                             *)
RestoreEvictsNone ==
  [][\A r \in Requests :
       (Fetched(r) \/ RemoteExtracted(r)) /\ Stored(KeyOf(call[r]))
       => \A k \in CacheKeys : Fresh(k) => Stored(k)']_fetchVars
=============================================================================
