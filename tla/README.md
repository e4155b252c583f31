# A TLA+ model of scrapling-fetch-mcp

scrapling-fetch-mcp gives MCP clients the tools `s_fetch_page` and
`s_fetch_pattern`. A light *front end* process (one per MCP client) forwards each
tool call over a unix socket to a *daemon* process, which all front ends of one
package version and configuration share. The daemon fetches pages through
Firefox browsers, bounds how many fetches run at once, pools browsers and caches
pages. The modules in this directory describe the concurrent core of that
program: how daemons come and go, what goes on inside one, how a front end talks
to it, how settings travel between them, and how the stealth browser is
installed. TLC checks them on small instances and TLAPS proves the safety
properties for instances of any size.

Paths below are relative to `src/scrapling_fetch_mcp/` in the repository.

## The system

| Component | State it keeps | Operations | Interacts with | What makes it correct |
|---|---|---|---|---|
| Daemon lifecycle, `daemon/lifecycle.py` | the files `<name>.spawn.lock`, `.lock`, `.sock` | `ensure_daemon`, `is_alive`, `_acquire_spawn_lock`, `_cleanup_stale`, `_launch`, `_wait_ready` | other front ends and daemons, by files, pings and process starts | one daemon per name; a serving daemon can be found; the arbitration lock is given up |
| Daemon process, `daemon/worker.py`, `daemon/__main__.py` | `_tasks`, `_cancel_tasks`, `_clients`, `_stopping`, lock and socket | `serve`, `_handle_connection`, `_dispatch`, `_run_fetch`, `_handle_cancel`, `_cleanup` | front ends (frames), the guard, the pool | every request gets one final frame; cancel ends a task; shutdown ends, and removes its own files only |
| Browser pool, `daemon/pool.py` | `_buckets` (LRU), `_locks`, request counts | `fetch`, `_build`, `_evict_if_full`, `_drop`, `close_all` | `_scrapling.py`, browser processes | a session has one user; eviction spares sessions in use; limits; no browser lost |
| Fetch dispatch, `_scrapling.py` | `_guard`, `_pool`, `_INFLIGHT_BROWSER_FETCHES` | `browse_url`, `_do_browse`, `_browser_cancel_guard` | guard, pool, process table | a cancelled fetch leaves no browser and kills nobody else's |
| Concurrency guard, `_concurrency.py` | a semaphore | enter, leave | `_run_fetch` and `browse_url` | permits conserved; requests wait only beyond the limit |
| Backend client, `_client.py` | connection, `_pending`, id counter | `call`, `cancel`, `_ensure_connected`, `_drop_connection`, `_read_loop` | daemon (frames), lifecycle | first final frame settles; retries use fresh ids; a call ends in its window |
| Configuration, `_config.py`, `daemon/config_env.py`, `daemon/paths.py` | settings, `PageCache` | setters, `init_config_from_env`, `resolve_daemon_env` | every part | front end and daemon compute the same hash; settings take effect |
| Fetch pipeline, `_fetcher.py` | the page cache | the two wrappers and their implementations | cache, `browse_url`, converters | the page belongs to the URL and mode asked for; no page older than the cache may keep it; a refresh reads again |
| Management CLI, `mcp.py` | none | `daemon status`, `daemon shutdown` | daemon (op, signals, files) | stops the daemon it was pointed at and no other |
| Camoufox download, `_camoufox_fetch.py`, `_browser_check.py` | `.part` file, download state | download, resume, degradation | network, other processes | a resumed file is the whole file; an old installation is not lost for nothing; the fetch ends and recovers |
| Content and image saving, `_content_saver.py` | names given so far | save page, save image | file system | distinct images get distinct files (not modelled) |
| URL rewriting and matching, `_url_rewriter.py`, `_url_matcher.py` | rule lists | rewrite chain, first match | pipeline | the chain ends; order of rules |
| Extraction, search pages, Markdown, tools, skills, auth | none after start-up | HTML and text functions | pipeline, MCP | outside a model's reach: parsing and third-party code |

What is hard in this system: front ends and daemons act on the same three files
without a lock held over all steps; front ends are killed at any point; every
`await` lets another fetch run, and a cancellation can strike at every `await`;
browsers outlive the Python objects that own them; timeouts race answers; one
semaphore is entered twice by one request; request ids of several front ends meet
in one table; the two processes parse the same variables with two parsers. The
list of hazards, each at the line where it bites with the properties that watch
it, is in `PROJECT.json`.

## Modules

| Module | Models | Checked by | Proofs |
|---|---|---|---|
| `OneDaemon` | the promise of `ensure_daemon`, abstractly | as a property of `Lifecycle` | |
| `Lifecycle` | `ensure_daemon` in several front ends, start and stop of daemons | `MCLifecycle` | `LifecycleProofs` |
| `DaemonWorker` | one daemon inside: connections, task table, cancel ops, the ways out | `MCDaemonWorker` | `DaemonWorkerProofs` |
| `WaitQueue` | the waiters of an asyncio lock or semaphore | through its users | `WaitQueueProofs` |
| `BrowserPool` | `BrowserPool.fetch` under `_browser_cancel_guard` | `MCBrowserPool` | `BrowserPoolProofs` |
| `Admission` | the two passes of a fetch through the guard | `MCAdmission` | `FetchPipelineProofs` |
| `FetchPipeline` | a fetch in the wrapper: rewriting, mode, page cache, timeout; extends `Admission` | `MCFetchPipeline` | `FetchPipelineProofs` |
| `CallContract` | what a tool call is promised, abstractly | as a property of `BackendClient` | |
| `BackendClient` | concurrent calls over one connection, retries, watchdog | `MCBackendClient` | `BackendClientProofs` |
| `Settings` | the way of every setting from a front end to its daemon | `MCSettings` | `SettingsProofs` |
| `CamoufoxFetch` | download and installation of the stealth browser in several daemons | `MCCamoufoxFetch` | `CamoufoxFetchProofs` |

How they fit together. `Lifecycle` decides which daemons exist; `DaemonWorker`
is the inside of one from its `Bind` to the unlinks of `Lifecycle`'s
`CleanupUnlinkLock`; a task of `DaemonWorker` runs what `FetchPipeline` describes,
whose browse is a fetch of `BrowserPool`. `BackendClient` is the other end of a
connection of `DaemonWorker`. `Settings` gives the name that `Lifecycle` takes as
fixed, and `CamoufoxFetch` is behind the step `Install` of `FetchPipeline`.
`FetchPipeline` is a refinement of `Admission` (a theorem), so what is proved of
the permits there holds in the pipeline. The other modules are composed by hand,
each abstracting its neighbours to what they may do at worst: the daemon of
`BackendClient` answers in any order, refuses or dies, the tasks of
`DaemonWorker` end in any way.

An operator whose comment begins with *Slip* is a plausible mistake in the
definition that follows it. Nothing uses these operators; put in place of
that definition, each makes one of the checked properties fail.

### Lifecycle

State. `pc[c]` is where front end `c` is inside `ensure_daemon`; `seen[c]` is the
live pid the first half of `is_alive` has read; `proc[c]` is its `Popen` handle.
`dpc[d]` is where daemon process `d` is: `off`, then `booting` (started),
`unlinked` (after `serve` removed an old socket), `locked` (after `_write_lock`),
`serving`, and on the way out `closing` and `lockGone`. `lockFile`, `sockFile`
and `spawnOwner` with `spawnPid` are the three files: whose identity each holds.
A daemon id stands for pid and token together, and an id is reused only when no
file and no caller names it any more.

Actions. `is_alive` is two steps, `ReadLock` and then `PingAlive` or `PingDead`,
at each of its four call sites (`quick`, `recheck`, `poll`, `final`).
`_acquire_spawn_lock` is `Acquire` (the exclusive create, both attempts),
`CheckOwner` (both looks at the owner), `UnlinkDead` and `WritePid`. The winner
goes on with `CleanSock`, `CleanLock`, `Launch`; `PollAgain` and `WaitFails` are
`_wait_ready`; `Release` is the `finally`. A daemon goes through
`ServeUnlinkSock`, `WriteLock`, `Bind`, `StopServing`, `CleanupUnlinkLock` and
`CleanupUnlinkSock`. What may go wrong is the constant `Faults`: kills of front
ends and daemons, a graceful stop, the 60 s deadline, a slow ping, errors of
`write` and `Popen`. `spawn.lock` is unlinked by path in the model as in the
code, so it may be somebody else's.

Abstracted: one `(version, hash)` name, because names share no file; the content
of frames and lock files beyond whose they are; a ping succeeds when the daemon
named by `.lock` is the one bound to `.sock` and serving. `_write_lock` is one
step: a half-written lock file reads as unreadable, which is the state before it.

### BrowserPool and WaitQueue

All fetches run in one asyncio loop, so a step of the model goes from one `await` to
the next: `waiting` (bucket lock), `rebuild` and `evict` (closing a session),
`building` and `entering` (the factory, before and after a browser process exists),
`fetching`, `discard` and `undo` (closing after an error or a cancellation), `sweep`
(the half second between the two sweeps). `holder` and `queue` are the bucket locks.
`bucket` and `lru` are the `OrderedDict`, `served` the request counts, `open` the
browsers that are alive, `spawned[f]` those that have appeared since the process
snapshot of `f`; these and `InFlight`, the global counter, are
`_browser_cancel_guard`. `faults` are the kinds of fault a behaviour may have
(cancelled calls, closes that fail, failing launches that leave their browser running,
which nothing in `pool.py` closes); it never changes, so one run sees the behaviours
with all of them and those with none. `served` is kept per key, as the count is in the
bucket and not in the session. The clock appears only as the choice whether a session
has expired. A released asyncio lock is free until its first waiter has run, so
`Evictable` sees what `lock.locked()` returns.

Each step of a fetch ends in an `await` or the return; `Start` and
`Granted` include everything up to the next `await`, whichever branch is taken.
Cancellation is a separate action at each kind of `await`.

Abstracted: a bucket key is a model value; the hit and miss counters and `stats`
are left out; a `close()` that raises either ended the browser or did not.
`close_all` belongs to the daemon's cleanup and is not in this module.

### Admission

`pc[r]` is where a request is: waiting for the permit of `_run_fetch` (`outer`),
inside the wrapper, waiting for the permit of `browse_url` (`inner`), browsing,
converting. `free` and `queue` are the semaphore. A request may end at any point
by its page, an error (also `fetch_timeout`), a refusal, or a cancellation, and
`End` gives back what `Held` says. The cache appears as the choice between `Miss`
and answering at once; `FetchPipeline` makes that choice as the code does.

### DaemonWorker

State. `conn[c]` is a connection: accepted by the kernel (`queued`), its handler
running (`open`), or over. `task[t]` is one run of `_run_fetch`: created by
`_dispatch` (`made`), in its wrapper (`running`), in a teardown that hangs
(`lingering`), draining its last frame (`sending`), over (`gone`, or `cancelled`
when the CancelledError got out of it). `asked` are the tasks with a
CancelledError on its way, `table` is `_tasks`, `ops` the cancel ops that wait for
their target, `first` and `later` the final frames written for each task. `phase`
goes along `serve` and `_cleanup` to the end of `asyncio.run`; `waits` is which of
its two behaviours `Server.wait_closed` has (since CPython 3.12 it waits for open
connections).

Actions. `Fetch`, `CancelOp` and `ShutdownOp` are frames read by a handler, with
the look at `_stopping` after each; `Begin`, `Finish`, `Sent`, `Interrupted` and
`Struck` are `_run_fetch`; `NeverBegins` is the task cancelled before its first
step, which runs none of its handlers; `OpDone` and `OpKills` are `_handle_cancel`
after the wait, the second with its `killpg`; `StopServing`, `WaitClosed`,
`TasksEnded`, `PoolClosed` and `Exit` are the way out.

Abstracted: ping, status and the validation of payloads, which change nothing;
writes always succeed or are swallowed, as in `_safe_send`.

### BackendClient and CallContract

`pc[k]` is where a call is: asking for a connection, opening one under
`_connect_lock`, sending, waiting for its future, or after the loss of an attempt.
`rid`, `attempt`, `future` and `outcome` are its locals; `conn`, `reading` and
`wire` the one connection, its reader task and the frames on the way. The daemon
is `jobs` and `up`: it makes a task of a request, refuses an id it has a task for,
answers in any order or never, dies or loses its connections (`ConnectionBreaks`)
with the tasks or without. `Answer` sends nothing when the connection has gone,
as the code's daemon, and keeps no one waiting: a client notices by `ReaderEnds`.
Ids count from a random start in the code, which makes two clients unlikely to
meet; here there is one client and they count from 0. `CallContract` says that a
call ends once and returns a page only if one was fetched for it.

### FetchPipeline

Extends `Admission` by what a request asks (`call`), the page it works on, the
`PageCache`, a clock, and whether camoufox is usable. `Lookup` is everything up to the
first await: rewriting, mode, degradation, strategy, cache, and the queue for the
guard on a miss; the progress message awaited between the cache and the guard
(_fetcher.py:341, 348) is part of it, since nothing is read before that await and used
after it but the request's own miss. `Read` is the moment the page is read, by the
browser or by the remote service; `Fetched` is the return of `browse_url` and
`RemoteExtracted` that of the strategy that needs no browser, each with the store into
the cache, and `Reply` the rest. `remote` are the requests whose extraction runs in
its thread: it takes no second permit, knows no `fetch_timeout`, and gives up after
`ReaderTimeout` (`ReaderDue`). The cache is a function from its keys to entries; the
order of the dict is kept in `newer`, the keys inserted after an entry, so that "the
oldest while the cache is full" (`Kept`) is those with enough newer ones. `TimeOut` is
`fetch_timeout`, which spans the wait for the guard. A page is its url, mode and time;
its text, the metadata, paging and saving are left out. A pattern request runs the
same steps without the remote strategy.

### Settings

A key stands for all settings of one kind (whole numbers, times, switches, words,
paths, the API key); a text is a value and how it is spelled: padded with blanks, in
capitals, or as a relative path. `Read` is `init_config_from_env` with its setters,
`Canonical` is `_parse_value`, `Name` the hash, `DaemonEnv` what `_launch` hands to
the daemon, `WrittenBack` is `_sync_daemon_env`. The hash is the tuple of the
canonical values, so collisions are left out. `Start`, `Override`, `Sync` and `Join`
are `run_server` and the first tool call. `Environments` and `CommandLines` are what
front ends may be started with: any set of variables and options of the right kinds. A
time may also be `inf` or `nan`: the name leaves it out and the daemon inherits it, so
all such times share one name. A key of nothing but blanks is in the name and is not
handed on (item 4 of the disagreements).

### CamoufoxFetch

The thread of `ensure_camoufox` in each daemon (`pc`, `attempt`, `next`, `append`,
`known`), and what all of them share without a lock: the `.part` file as a sequence of
chunks, the install directory and the version mark. The server may ignore `Range` and
may hide the size. `Asks` looks at the size of `.part`, `Responds` opens the file when
the answer has come; another daemon may write in between. Each step of the
installation may be refused by the file system, which leaves what it had done so far.
`Start` includes the first line of the thread, which sets the state to `downloading`.
Only the layout of one installation is modelled, not the directory with several
versions in it (_browser_check.py:189-202). Chunk 0 is a hole that appears when two
writers are at different offsets. `crowded` records that two threads have been at work
at once.

## Runs

| Run | Instance | Shows |
|---|---|---|
| `lifecycle_tolerated` | 3 front ends, 3 daemons, tolerated faults | `AtMostOneUp`, `ServingReachable`, and `ImplementsOneDaemon`: the contract holds while daemons crash and launches fail |
| `lifecycle_live` | 2 front ends, 2 daemons, all faults, fairness | `TypeOK`; `SpawnLockExclusive` until a front end is killed; `StaleLockBroken`; `SpawnLockReleased` |
| `lifecycle_stop` | 2 front ends, 3 daemons, graceful stops | the first disagreement below |
| `pool_serves` | 2 calls, 3 keys, 3 sessions, all faults or none, fairness | `TypeOK`, `NoSharedSession`, `InUseStays`, `QuotaKept`, `PoolBound`, `SparesSiblings`, `Drains`; and for the behaviours without faults `NothingForgotten` |
| `fetch_cached` | 2 requests, 3 permits, 3 urls, 3 modes, 2 cache entries, fairness | `PermitsConserved`, `NeverStuck`, `AllServed`; `PageIsTheOneAskedFor`, `NotTooOld`, `RefreshReadsAgain`, `RestoreEvictsNone` |
| `admission_stuck` | 3 requests, 2 permits | the second disagreement below |
| `worker_serves` | 2 connections, 1 id, 2 tasks, both kinds of `wait_closed`, hanging teardowns, fairness | `TableExact`, `FirstFrameDecides`, `PoolClosedAlone`, `CancelEnds`, `EveryFetchAnswered`, `ExitsUnlessHung` |
| `client_calls` | 2 calls, 1 retry, 2 faults, fairness | `NoDuplicateId`, `NoOneWaitsInVain`, `EveryCallEnds`, `ImplementsContract` |
| `settings_share` | 2 front ends, any one variable and one option each | `OwnSettings`, `SettingsShareDaemon` |
| `settings_found` | 1 front end | the fourth disagreement below |
| `settings_shutdown` | 1 front end | the third disagreement below |
| `camoufox_resumes` | 2 daemons, 2 chunks, 2 attempts, 2 faults, fairness | `PartIsPrefix`, `MarkedIsFull`, `OldInstallKept`, `Resumes`, `FetchEnds`, `Recovers` |

Why the bounds are enough. Two front ends give every interleaving of a winner and a
loser; the third in `lifecycle_tolerated` lets two losers fight over the end of a
winner. Three daemons are an old one, its successor and a third started beside them;
two are enough for `lifecycle_live`, which asks about the locks of front ends. In the
pool, `MaxSessions = 1` makes each second key evict; two calls meet on one key
(waiting) and on two keys (evicting, exceeding the limit). Three sessions allow one in
the pool and two being launched or closed. `MaxRequests = 2` is reached in a short
run. Two requests want up to four permits, so with three of them the queue still forms
while requests stay fewer than permits, the case in which `NeverStuck` and `AllServed`
are meant to hold; with two requests for two permits they starve each other. `TTL =
1`, `FetchTimeout = 1`, `ReaderTimeout = 1` and a clock up to 2 let a page age past
its TTL while another fetch is on; three keys over two entries make the cache evict.
In the worker one id is used by two tasks of two connections, the case the table is
keyed for; the second task comes while the first is running, sending, hanging or over.
One retry and two faults let a call lose the connection its sibling has just opened.
`settings_share` sets one variable and one option at a time, because the parsers look
at each variable by itself; the theorems about `Settings` are about any number of
them. Two chunks tell a hole, a prefix and a whole file apart; two faults are a stall
or an error and a kill. Model values are symmetric in `settings_share` and in the
lifecycle runs without liveness. Deadlock is checked except where front ends, daemons
or calls may really have ended for good.

The sizes of the sets of callers, daemons, fetches, keys, sessions, requests,
connections, tasks and calls are bounds, and so are `MaxFaults`, `MaxTime`, `N` and
`MaxAttempts`, and one cancel op of a connection per task at a time. `served` is
bounded by `QuotaKept`, queues by the number of calls. When all daemon or session
identities are in use a launch has to wait for one, which the program never does; the
liveness runs let such a launch fail (`BuildFails` in `pool_serves`,
`lifecycle_live`).

### Fairness

`Lifecycle`: a live process keeps executing (weak fairness of each caller inside
`ensure_daemon` and of each daemon in its start and its cleanup), and the
monotonic clock passes the deadline, so a caller that may time out again and again
does (strong fairness of `WaitFails`). Nothing makes a front end call: the
liveness properties that need calls assume them. `BrowserPool`: every await ends,
because fetches and launches have timeouts and closes are assumed to return;
asyncio runs ready tasks. No cancellation is fair. `Admission` and `FetchPipeline`:
a browse comes back and ready tasks run; `Fail`, `Refuse`, `Cancel` and `TimeOut`
are not fair, so the answer in `AllServed` never depends on a timeout, nor is the
clock. `DaemonWorker`: ready tasks run, a fetch has a timeout, so have the grace
period and the waits of `_cleanup`; a teardown that hangs owes nothing, and a
front end never has to disconnect. `BackendClient`: ready tasks run, the watchdog
strikes, `ensure_daemon` ends in its 60 seconds; the daemon owes no answer.
`CamoufoxFetch`: a thread that is not killed goes on, a read ends or stalls within
`stall_timeout`; nothing makes a daemon start.

### Where code and text disagree

The first four are runs expected to fail, with the quoted text in `PROJECT.json`.

1. `lifecycle_stop`: a daemon in `_cleanup` unlinks lock and socket by path; by
   then they may be its successor's, which serves on without being found, and a
   third daemon is started beside it. The text: exactly one daemon.
2. `admission_stuck`: a request needs two permits of one semaphore, so
   `max_concurrent` requests that hold one each wait for their second behind one
   another, until `acquire_timeout` refuses one. The text: requests *beyond* the limit
   wait and may be refused.
3. `settings_shutdown`: a front end writes its settings, defaults included, back
   into its environment before it names its daemon; `daemon shutdown` names it from
   the environment as it is. The text: stops the daemon of the current version and
   configuration.
4. `settings_found`: a `JINA_API_KEY` of nothing but blanks enters the name as an empty
   value, and the daemon skips an empty value, so it binds another name and is never
   found. The text: the daemon normalises to the same values. `OwnSettings` excepts it.

The others can be seen by giving a module other constants, or follow from a
definition; no run is kept for them.

5. `Lifecycle` with the fault `winner_deadline`: after its 60 s a winner releases
   `spawn.lock` although the process it started is alive and about to serve; the
   next caller starts another. README.md:87: no second process is started.
6. `Lifecycle` with `caller_crash` and three front ends: between the second look
   at a dead owner and the unlink the lock can be replaced; both callers then
   launch. lifecycle.py:235-237: the recheck and the cleanup make that harmless.
7. A front end killed before it wrote its pid leaves an empty `spawn.lock`, which
   is taken for a live owner's for ever. lifecycle.py:11-13: never stuck on a stale
   lock. `StaleLockBroken` is what the code does keep.
8. The sweep for orphaned browsers runs only in a call that is itself cancelled
   (`LeaveCancelled`). _scrapling.py:180-181: the last one to leave sweeps.
9. `DaemonWorker` with `waits`: on CPython 3.12 and later a daemon with an idle
   front end stays in `wait_closed` (`WaitClosed` is disabled) and removes neither
   lock nor socket until the front end goes. worker.py:84: the daemon must be able
   to exit.
10. `CamoufoxFetch`: a kill or an error between `set_version` and the end of `chmod`
    leaves an installation that is marked and complete but whose files cannot be executed;
    no later start repairs it (`MarkedIsFull` allows `files`).
11. `CamoufoxFetch`: a fetch whose attempts all went without an answer takes an
    incomplete `.part` for a broken zip and deletes it (the exception in `Resumes`).
    _camoufox_fetch.py:8-9: what was received is kept.

## Proofs

All theorems hold for every value of the constants that satisfies the named
assumptions of the modules (finite request set, positive limits, the null values
outside the sets they stand beside).

`LifecycleProofs`. `TypeCorrect` is inductive as it stands. For
`SpawnLockExcludes` the invariant `MutexInv` adds that a handle is held only while
waiting for its process, and that until a front end is killed nobody gets past
`_spawn_lock_owner_dead`, so only the owner removes the lock.
`OneDaemonProcess`, `ServingStaysReachable` and `Implementation` assume
`Tolerated`, and rest on `LifeInv`: a starting daemon has a winner that waits for
it, none exists while a winner cleans, what a winner's recheck reads is the daemon
that is up, and the two files follow the daemon through its start. Without
`Tolerated` the three are false (items 1, 5 and 6 above). `Implementation` shows
that each step is a step of `OneDaemon` or leaves `Running` and `ReadyDaemons` alone.

`BrowserPoolProofs`. `PoolInv` strengthens type correctness with the agreement of
locks and program counters, an empty bucket while its lock holder is not fetching, and
no session in two buckets or in a bucket and in the hands of a call that is not
fetching; from it follow `OneUser` and `InFlightKept`. `QuotaKept` is inductive with
`Handed` (a call that is entering or fetching has a session): its second part, a
session in use has quota left, carries the first. `SweepSparesSiblings` is an action
property: only the last call in flight sweeps, so nobody is fetching. `NoLeak` is
about the behaviours whose `faults` are empty, where no launch leaves a browser
either: there every live browser is in a bucket or in the hands of a call.
`PoolBounded` counts: `BoundInv` says that the order lists each key with a session,
and lists it once, and that the pool together with the calls about to add a session
(`Adding`) stays within the bound. A call joins those only when it has found the pool
below `MaxSessions`, and there are at most as many of them as calls; adding a session
moves one from the calls to the pool.

`FetchPipelineProofs` begins with `Admission`. The account of permits is kept because
one request moves at a time and the cardinalities of the two sets of holders change by
what it holds; `NoHoldAndWait` follows by counting when requests are fewer than
permits. `PipelineImplementsAdmission` maps each step of the pipeline to a step of
`Admission` or a stutter, and carries both over. `PipelineInv` is the invariant of the
rest. `CacheInv` is about the cache: an entry holds a page of its own key, read no
later than it was stored and at most `LongestFetch` earlier (the longer of the
timeouts of a browse and of a remote read), the stored keys are ordered by `newer`,
and there are no more of them than the cap. `RequestsInv` is about the requests: what
each has in hand is a page of its own url and mode, read within its fetch or its
remote extraction or found fresh at its look, a refresh has none from before its look,
and its look is not later than the clock. From it follow `RightPage`, `RecentPage`,
`RefreshIsFresh` and `CacheWithinCap`. `RestoreKeepsOthers` needs the cap as well: if
the key is stored already, at most `MaxEntries` - 1 others are, so the oldest of those
has fewer than that many after it and is kept.

`DaemonWorkerProofs`. `TableInv` says that an entry names a task made for its id, that
a task which has not ended stands in the table, and, until the cleanup, no other does:
two tasks of one id never overlap because `Fetch` refuses. `FrameInv`: a task that has
not come to sending has had no frame sent for it, so whatever a cancel op sends comes
second. `ClosedInv` says that once `wait_closed` has returned no handler is left to
make a task and every fetch is being cancelled; `BeginInv` that while the daemon
serves no task is asked to end before it has begun.

`BackendClientProofs`. `IdInv`: all ids in use, in tasks, frames and calls, are
at most the counter and each belongs to one call, so a fresh one is nobody's.
`ConnInv`: a pending future belongs to the current connection, because dropping a
connection fails them all before another is opened. `FrameInv`: a page on the wire
was fetched for the call its id belongs to. `ClientContract` follows: the
contract's two variables are those of the client, and each step changes them as
the contract allows or not at all.

`CamoufoxFetchProofs`. `FetchInv` assumes that no two threads have been at work at
once and that only one is at work now: the file is a prefix, the next chunk written
is the one after its end, past the zip check the file is whole, and a marked
installation is full.
The two action properties follow from it.

`SettingsProofs`. What becomes of a setting depends on its key and its text alone, so
`ReadSettles` and `TextArrives` go through the six kinds of key and say: what a front
end has read is one of a few values, and what it writes back is named by the meaning
of that value and read by the daemon as that meaning, at home or in `/`.
`SettingsInv` follows a front end along `run_server`: until the command line its
config is what it read, an optional setting that is not set has no variable, after
`Sync` its environment is a function of its config; and the name of a daemon is the
name of its settings. `NamesDiffer` (the name tells settings apart) then gives
`SettingsKept` and `SettingsShared`, for any number of front ends and any sets of
variables and options. `SettingsKept` leaves out front ends whose key is blank, and of
a time that is not finite says that the daemon's is not finite either;
`SettingsShared` has no proviso.

The type invariants of `DaemonWorker`, `BackendClient` and `CamoufoxFetch` are
theorems (`WorkerTypeCorrect`, `ClientTypeCorrect`, `FetchTypeCorrect`) and take no
part in a run.

Only model-checked: the liveness properties (`StaleLockBroken`,
`SpawnLockReleased`, `Drains`, `AllServed`, `CancelEnds`, `EveryFetchAnswered`,
`ExitsUnlessHung`, `EveryCallEnds`, `FetchEnds`, `Recovers`), since the prover has
no means for fairness and ENABLED. Every invariant and every action property of a
passing run is a theorem.

## Not modelled

- The escalation of `daemon shutdown` and `daemon status` in `mcp.py`: signals,
  sleeps and unlinks by path over the files of `Lifecycle`. The unlink by path is
  the same hazard as item 1 above.
- `close_all` on buckets that a call still holds. `PoolClosedAlone` says when there is
  no such call.
- `asyncio.run` waits without a limit for tasks that ignore their cancellation; a
  cancel op whose connection ends leaves the hung task unkilled. Both are in
  `DaemonWorker` and are why its liveness properties make an exception for a task
  that hangs.
- Deadlines as numbers: `BackendClient` has no clock, so it is not checked that a
  call stays within the watchdog's window when `ensure_daemon` takes its own 60 s.
- Installations of several browser versions side by side (_browser_check.py:189-202).
- The setters of the page cache: `set_cache_max_entries` does not reach a cache
  that is already built; the cap is a constant here.
- `redirect_stdout` around awaits, the names of saved images, the browserforge data.
- Framing of frames, extraction strategies, search pages, Markdown conversion, tool
  generation, skills and the bearer-token check keep no state after start-up and
  consist of parsing, text and third-party calls.
