----------------------------- MODULE Lifecycle -----------------------------
(***************************************************************************)
(* daemon/lifecycle.py and the start and stop of daemon/worker.py: several *)
(* front-end processes call ensure_daemon for ONE (version, config hash)   *)
(* name and share three files of the daemon directory, <name>.spawn.lock,  *)
(* <name>.lock and <name>.sock, with the daemon processes of that name.    *)
(* Every access to a file, every ping and every process start is a step of *)
(* its own.                                                                *)
(***************************************************************************)
EXTENDS FiniteSets

CONSTANTS
  Callers,   \* front-end processes, each running one ensure_daemon at a time
  Daemons,   \* daemon process ids; the bound on how many exist at once
  NoCaller,  \* no spawn.lock
  NoDaemon,  \* no file, no process, nothing read yet
  Faults     \* what may go wrong in this instance

FaultKinds ==
  { "caller_crash",     \* a front end is killed inside ensure_daemon
    "daemon_crash",     \* a daemon dies without its cleanup
    "graceful_stop",    \* idle timeout, SIGTERM or the shutdown op
    "winner_deadline",  \* the winner's 60 s end while its daemon still starts
    "slow_ping",        \* a serving daemon misses the 2 s / 5 s of a ping
    "write_error",      \* os.write of the pid into spawn.lock raises
    "launch_error" }    \* open(log) or Popen raises

\* The failures under which the promise of exactly one daemon is kept.
ToleratedFaults == {"daemon_crash", "write_error", "launch_error"}
Tolerated == Faults \subseteq ToleratedFaults

ASSUME FaultsAssumption == Faults \subseteq FaultKinds
ASSUME NoCallerAssumption == NoCaller \notin Callers
ASSUME NoDaemonAssumption == NoDaemon \notin Daemons

VARIABLES
  pc,          \* where each caller is in ensure_daemon
  seen,        \* the live pid is_alive read from .lock and is about to ping
  proc,        \* the Popen handle of a winner that launched
  dpc,         \* where each daemon process is in its life
  lockFile,    \* whose identity <name>.lock holds
  sockFile,    \* which daemon bound <name>.sock
  spawnOwner,  \* who created the <name>.spawn.lock that is there now
  spawnPid     \* whether the pid has been written into it

vars == <<pc, seen, proc, dpc, lockFile, sockFile, spawnOwner, spawnPid>>
files == <<lockFile, sockFile>>
spawnLock == <<spawnOwner, spawnPid>>

AliveSites == {"quick", "recheck", "poll", "final"}
CallerPCs == AliveSites \cup
  {"idle", "acquire", "ownerDead1", "ownerDead2", "unlinkDead", "acquire2",
   "writePid", "cleanSock", "cleanLock", "launch", "polled", "release",
   "crashed"}
DaemonPCs == {"off", "booting", "unlinked", "locked", "serving", "closing",
              "lockGone"}

Init ==
  /\ pc = [c \in Callers |-> "idle"]
  /\ seen = [c \in Callers |-> NoDaemon]
  /\ proc = [c \in Callers |-> NoDaemon]
  /\ dpc = [d \in Daemons |-> "off"]
  /\ lockFile = NoDaemon
  /\ sockFile = NoDaemon
  /\ spawnOwner = NoCaller
  /\ spawnPid = FALSE

----------------------------------------------------------------------------
Up(d) == d \in Daemons /\ dpc[d] # "off"
Starting(d) == d \in Daemons /\ dpc[d] \in {"booting", "unlinked", "locked"}

\* A pid can be reused once nothing names it any more.
Fresh(d) ==
  /\ dpc[d] = "off"
  /\ d \notin {lockFile, sockFile}
  /\ \A c \in Callers : d \notin {seen[c], proc[c]}

\* Only a winner holds a Popen handle, and only a winner reaches these steps.
IsWinner(c) ==
  \/ pc[c] \in {"writePid", "recheck", "cleanSock", "cleanLock", "launch",
                "release"}
  \/ pc[c] \in {"poll", "polled", "final"} /\ proc[c] # NoDaemon

Goto(c, label) == pc' = [pc EXCEPT ![c] = label]

----------------------------------------------------------------------------
(* ensure_daemon and is_alive                                              *)

Call(c) ==
  /\ pc[c] = "idle"
  /\ Goto(c, "quick")
  /\ UNCHANGED <<seen, proc, dpc, files, spawnLock>>

\* Slip: stale files are cleaned before the arbitration, not after it.
AfterDeadCleanFirst(c) ==
  [quick   |-> "cleanSock",
   recheck |-> "cleanSock",
   poll    |-> "polled",
   final   |-> IF proc[c] = NoDaemon THEN "idle" ELSE "release"][pc[c]]

\* Where ensure_daemon goes when the is_alive at pc[c] answers False.
AfterDead(c) ==
  [quick   |-> "acquire",
   recheck |-> "cleanSock",
   poll    |-> "polled",
   final   |-> IF proc[c] = NoDaemon THEN "idle" ELSE "release"][pc[c]]

\* Slip: a label no later call starts from.
AfterAliveDone(c) == IF IsWinner(c) THEN "release" ELSE "done"

AfterAlive(c) == IF IsWinner(c) THEN "release" ELSE "idle"

\* The first half of is_alive: the lock is readable and its pid is alive.
ReadLock(c) ==
  /\ pc[c] \in AliveSites /\ seen[c] = NoDaemon
  /\ IF Up(lockFile)
       THEN seen' = [seen EXCEPT ![c] = lockFile] /\ UNCHANGED pc
       ELSE Goto(c, AfterDead(c)) /\ UNCHANGED seen
  /\ UNCHANGED <<proc, dpc, files, spawnLock>>

\* A ping with the token of d succeeds when d itself listens on .sock.
Answers(d) == sockFile = d /\ dpc[d] = "serving"

PingAlive(c) ==
  /\ pc[c] \in AliveSites /\ seen[c] # NoDaemon
  /\ Answers(seen[c])
  /\ Goto(c, AfterAlive(c))
  /\ seen' = [seen EXCEPT ![c] = NoDaemon]
  /\ UNCHANGED <<proc, dpc, files, spawnLock>>

PingDead(c) ==
  /\ pc[c] \in AliveSites /\ seen[c] # NoDaemon
  /\ ~Answers(seen[c]) \/ "slow_ping" \in Faults
  /\ Goto(c, AfterDead(c))
  /\ seen' = [seen EXCEPT ![c] = NoDaemon]
  /\ UNCHANGED <<proc, dpc, files, spawnLock>>

----------------------------------------------------------------------------
(* _acquire_spawn_lock                                                     *)

\* Slip: O_CREAT without O_EXCL.
AcquireShared(c) ==
  /\ pc[c] \in {"acquire", "acquire2"}
  /\ spawnOwner' = c /\ spawnPid' = FALSE
  /\ Goto(c, "writePid")
  /\ UNCHANGED <<seen, proc, dpc, files>>

\* O_CREAT | O_EXCL, first and second attempt.
Acquire(c) ==
  /\ pc[c] \in {"acquire", "acquire2"}
  /\ IF spawnOwner = NoCaller
       THEN /\ spawnOwner' = c /\ spawnPid' = FALSE
            /\ Goto(c, "writePid")
       ELSE /\ Goto(c, IF pc[c] = "acquire" THEN "ownerDead1" ELSE "poll")
            /\ UNCHANGED spawnLock
  /\ UNCHANGED <<seen, proc, dpc, files>>

\* Slip: an unreadable lock counts as abandoned.
SpawnLockOwnerDeadOrEmpty ==
  /\ spawnOwner # NoCaller
  /\ spawnPid => pc[spawnOwner] = "crashed"

\* A lock that is gone or still empty counts as owned by a live process.
SpawnLockOwnerDead ==
  /\ spawnOwner # NoCaller
  /\ spawnPid
  /\ pc[spawnOwner] = "crashed"

CheckOwner(c) ==
  /\ pc[c] \in {"ownerDead1", "ownerDead2"}
  /\ Goto(c, IF ~SpawnLockOwnerDead THEN "poll"
             ELSE IF pc[c] = "ownerDead1" THEN "ownerDead2" ELSE "unlinkDead")
  /\ UNCHANGED <<seen, proc, dpc, files, spawnLock>>

\* Slip: after the second look the loser gives up without the unlink.
UnlinkDeadGivesUp(c) ==
  /\ pc[c] = "unlinkDead"
  /\ Goto(c, "poll")
  /\ UNCHANGED <<seen, proc, dpc, files, spawnLock>>

\* The unlink is by path: it removes whichever lock is there by now.
UnlinkDead(c) ==
  /\ pc[c] = "unlinkDead"
  /\ Goto(c, IF spawnOwner = NoCaller THEN "poll" ELSE "acquire2")
  /\ spawnOwner' = NoCaller /\ spawnPid' = FALSE
  /\ UNCHANGED <<seen, proc, dpc, files>>

\* Slip: no second is_alive once the lock is held.
WritePidNoRecheck(c) ==
  /\ pc[c] = "writePid"
  /\ spawnPid' = (spawnPid \/ spawnOwner = c)
  /\ Goto(c, "cleanSock")
  /\ UNCHANGED <<seen, proc, dpc, files, spawnOwner>>

\* The write goes through the open descriptor: it shows only while the file
\* at the path is still the one this caller created.
WritePid(c) ==
  /\ pc[c] = "writePid"
  /\ spawnPid' = (spawnPid \/ spawnOwner = c)
  /\ Goto(c, "recheck")
  /\ UNCHANGED <<seen, proc, dpc, files, spawnOwner>>

\* os.write raises: outside ensure_daemon's try, so the file stays, empty.
WritePidFails(c) ==
  /\ "write_error" \in Faults
  /\ pc[c] = "writePid"
  /\ Goto(c, "idle")
  /\ UNCHANGED <<seen, proc, dpc, files, spawnLock>>

----------------------------------------------------------------------------
(* the winner: _cleanup_stale, _launch; everyone: _wait_ready; finally     *)

CleanSock(c) ==
  /\ pc[c] = "cleanSock"
  /\ sockFile' = NoDaemon
  /\ Goto(c, "cleanLock")
  /\ UNCHANGED <<seen, proc, dpc, lockFile, spawnLock>>

CleanLock(c) ==
  /\ pc[c] = "cleanLock"
  /\ lockFile' = NoDaemon
  /\ Goto(c, "launch")
  /\ UNCHANGED <<seen, proc, dpc, sockFile, spawnLock>>

Launch(c) ==
  /\ pc[c] = "launch"
  /\ \E d \in Daemons :
       /\ Fresh(d)
       /\ dpc' = [dpc EXCEPT ![d] = "booting"]
       /\ proc' = [proc EXCEPT ![c] = d]
  /\ Goto(c, "poll")
  /\ UNCHANGED <<seen, files, spawnLock>>

\* Slip: Popen outside the try, so its error leaves the lock behind.
LaunchFailsKeepsLock(c) ==
  /\ "launch_error" \in Faults
  /\ pc[c] = "launch"
  /\ Goto(c, "idle")
  /\ UNCHANGED <<seen, proc, dpc, files, spawnLock>>

LaunchFails(c) ==
  /\ "launch_error" \in Faults
  /\ pc[c] = "launch"
  /\ Goto(c, "release")
  /\ UNCHANGED <<seen, proc, dpc, files, spawnLock>>

ProcExited(c) == proc[c] # NoDaemon /\ ~Up(proc[c])

\* Not ready, not dead, not late: sleep and poll again.
PollAgain(c) ==
  /\ pc[c] = "polled"
  /\ ~ProcExited(c)
  /\ Goto(c, "poll")
  /\ UNCHANGED <<seen, proc, dpc, files, spawnLock>>

\* The launched process exited, or the 60 s are over: one last is_alive.
WaitFails(c) ==
  /\ pc[c] = "polled"
  /\ ~Starting(proc[c]) \/ "winner_deadline" \in Faults
  /\ Goto(c, "final")
  /\ UNCHANGED <<seen, proc, dpc, files, spawnLock>>

\* finally: the winner unlinks spawn.lock, again by path.
Release(c) ==
  /\ pc[c] = "release"
  /\ spawnOwner' = NoCaller /\ spawnPid' = FALSE
  /\ proc' = [proc EXCEPT ![c] = NoDaemon]
  /\ Goto(c, "idle")
  /\ UNCHANGED <<seen, dpc, files>>

\* SIGKILL of a front end: no finally runs, its daemon lives on.
CallerCrash(c) ==
  /\ "caller_crash" \in Faults
  /\ pc[c] \notin {"idle", "crashed"}
  /\ Goto(c, "crashed")
  /\ seen' = [seen EXCEPT ![c] = NoDaemon]
  /\ proc' = [proc EXCEPT ![c] = NoDaemon]
  /\ UNCHANGED <<dpc, files, spawnLock>>

----------------------------------------------------------------------------
(* DaemonWorker.serve and _cleanup                                         *)

DaemonGoto(d, label) == dpc' = [dpc EXCEPT ![d] = label]

ServeUnlinkSock(d) ==
  /\ dpc[d] = "booting"
  /\ sockFile' = NoDaemon
  /\ DaemonGoto(d, "unlinked")
  /\ UNCHANGED <<pc, seen, proc, lockFile, spawnLock>>

WriteLock(d) ==
  /\ dpc[d] = "unlinked"
  /\ lockFile' = d
  /\ DaemonGoto(d, "locked")
  /\ UNCHANGED <<pc, seen, proc, sockFile, spawnLock>>

\* create_unix_server removes a socket file that is in the way, then binds.
Bind(d) ==
  /\ dpc[d] = "locked"
  /\ sockFile' = d
  /\ DaemonGoto(d, "serving")
  /\ UNCHANGED <<pc, seen, proc, lockFile, spawnLock>>

\* Another daemon bound between that removal and this bind: EADDRINUSE, and
\* serve's finally runs the cleanup.
BindFails(d) ==
  /\ dpc[d] = "locked"
  /\ sockFile # NoDaemon
  /\ DaemonGoto(d, "closing")
  /\ UNCHANGED <<pc, seen, proc, files, spawnLock>>

\* The server stops listening; tasks and browsers are still to be closed.
StopServing(d) ==
  /\ "graceful_stop" \in Faults
  /\ dpc[d] = "serving"
  /\ DaemonGoto(d, "closing")
  /\ UNCHANGED <<pc, seen, proc, files, spawnLock>>

CleanupUnlinkLock(d) ==
  /\ dpc[d] = "closing"
  /\ lockFile' = NoDaemon
  /\ DaemonGoto(d, "lockGone")
  /\ UNCHANGED <<pc, seen, proc, sockFile, spawnLock>>

CleanupUnlinkSock(d) ==
  /\ dpc[d] = "lockGone"
  /\ sockFile' = NoDaemon
  /\ DaemonGoto(d, "off")
  /\ UNCHANGED <<pc, seen, proc, lockFile, spawnLock>>

DaemonCrash(d) ==
  /\ "daemon_crash" \in Faults
  /\ Up(d)
  /\ DaemonGoto(d, "off")
  /\ UNCHANGED <<pc, seen, proc, files, spawnLock>>

----------------------------------------------------------------------------
CallerStep(c) ==
  \/ ReadLock(c) \/ PingAlive(c) \/ PingDead(c)
  \/ Acquire(c) \/ CheckOwner(c) \/ UnlinkDead(c)
  \/ WritePid(c) \/ WritePidFails(c)
  \/ CleanSock(c) \/ CleanLock(c) \/ Launch(c) \/ LaunchFails(c)
  \/ PollAgain(c) \/ WaitFails(c) \/ Release(c)

DaemonStart(d) == ServeUnlinkSock(d) \/ WriteLock(d) \/ Bind(d) \/ BindFails(d)
DaemonCleanup(d) == CleanupUnlinkLock(d) \/ CleanupUnlinkSock(d)

Next ==
  \/ \E c \in Callers : Call(c) \/ CallerStep(c) \/ CallerCrash(c)
  \/ \E d \in Daemons :
       DaemonStart(d) \/ StopServing(d) \/ DaemonCleanup(d) \/ DaemonCrash(d)

Spec == Init /\ [][Next]_vars

\* A live process keeps executing: each caller inside ensure_daemon, each
\* daemon in its start and cleanup. The monotonic clock passes the deadline,
\* so polling does not last for ever. Nothing makes a front end call.
Fairness ==
  /\ \A c \in Callers : WF_vars(CallerStep(c)) /\ SF_vars(WaitFails(c))
  /\ \A d \in Daemons : WF_vars(DaemonStart(d)) /\ WF_vars(DaemonCleanup(d))

FairSpec == Spec /\ Fairness

----------------------------------------------------------------------------
(* Every variable keeps its range. *)
TypeOK ==
  /\ pc \in [Callers -> CallerPCs]
  /\ seen \in [Callers -> Daemons \cup {NoDaemon}]
  /\ proc \in [Callers -> Daemons \cup {NoDaemon}]
  /\ dpc \in [Daemons -> DaemonPCs]
  /\ lockFile \in Daemons \cup {NoDaemon}
  /\ sockFile \in Daemons \cup {NoDaemon}
  /\ spawnOwner \in Callers \cup {NoCaller}
  /\ spawnPid \in BOOLEAN

(* _acquire_spawn_lock, "never steal from a live owner": until some front  *)
(* end has been killed, whoever runs the winner's part of ensure_daemon    *)
(* owns the spawn.lock that is at the path, whatever else goes wrong, so   *)
(* no two winners ever clean and launch together.                          *)
SpawnLockExclusive ==
  (\A c \in Callers : pc[c] # "crashed")
    => \A c \in Callers : IsWinner(c) => spawnOwner = c

(* ensure_daemon's contract: of one (version, config hash) at most one     *)
(* daemon process exists, from Popen to exit.                              *)
AtMostOneUp == \A d, e \in Daemons : Up(d) /\ Up(e) => d = e

(* The weaker form of it, what a client can notice: two daemons never      *)
(* serve at the same time.                                                 *)
AtMostOneServing ==
  \A d, e \in Daemons :
    dpc[d] = "serving" /\ dpc[e] = "serving" => d = e

(* _cleanup_stale, "never unlink an active socket": a daemon that serves   *)
(* keeps the .lock and the .sock through which front ends find it.         *)
ServingReachable ==
  \A d \in Daemons : dpc[d] = "serving" => lockFile = d /\ sockFile = d

\* What the promise of OneDaemon is about, in terms of processes and files.
Running == {d \in Daemons : Up(d)}
ReadyDaemons == {d \in Daemons : lockFile = d /\ Answers(d)}

Promise == INSTANCE OneDaemon WITH running <- Running, ready <- ReadyDaemons

(* ensure_daemon implements the promise of OneDaemon: it launches only     *)
(* when no daemon process is left, and no step of any process takes the    *)
(* files of a ready daemon away.                                           *)
ImplementsOneDaemon == Promise!Spec

(* ensure_daemon's finally: whoever takes spawn.lock gives it up, unless   *)
(* it is killed or failed to write its pid into it.                        *)
SpawnLockReleased ==
  \A c \in Callers :
    spawnOwner = c ~> \/ spawnOwner # c
                      \/ pc[c] = "crashed"
                      \/ ~spawnPid /\ ~IsWinner(c)

InEnsure == \E c \in Callers : pc[c] \notin {"idle", "crashed"}
Ready == ReadyDaemons # {}

DeadOwner == spawnOwner # NoCaller /\ pc[spawnOwner] = "crashed"

(* Self-healing of the arbitration lock, which lifecycle.py:11-13 promises *)
(* without the proviso: if front ends go on calling ensure_daemon, then    *)
(* again and again there is a daemon to be found or a spawn.lock whose     *)
(* owner lives or never wrote its pid.  An empty one is never broken.      *)
StaleLockBroken == ([]<>InEnsure) => []<>(Ready \/ ~(DeadOwner /\ spawnPid))
=============================================================================
