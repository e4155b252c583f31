-------------------------- MODULE LifecycleProofs --------------------------
(***************************************************************************)
(* Theorems about Lifecycle, for every set of callers and daemons.         *)
(***************************************************************************)
EXTENDS Lifecycle, TLAPS

----------------------------------------------------------------------------
(* No step of a front end or a daemon leaves the ranges of TypeOK.         *)
LEMMA TypeStep ==
  ASSUME TypeOK, [Next]_vars
  PROVE  TypeOK'
<1> USE DEF TypeOK, CallerPCs, AliveSites, DaemonPCs, Goto, DaemonGoto,
            files, spawnLock
<1>1. ASSUME NEW c \in Callers, Call(c) PROVE TypeOK'
  BY <1>1 DEF Call
<1>2. ASSUME NEW c \in Callers, ReadLock(c) PROVE TypeOK'
  BY <1>2 DEF ReadLock, AfterDead, Up
<1>3. ASSUME NEW c \in Callers, PingAlive(c) PROVE TypeOK'
  BY <1>3 DEF PingAlive, AfterAlive
<1>4. ASSUME NEW c \in Callers, PingDead(c) PROVE TypeOK'
  BY <1>4 DEF PingDead, AfterDead
<1>5. ASSUME NEW c \in Callers, Acquire(c) PROVE TypeOK'
  BY <1>5 DEF Acquire
<1>6. ASSUME NEW c \in Callers, CheckOwner(c) PROVE TypeOK'
  BY <1>6 DEF CheckOwner
<1>7. ASSUME NEW c \in Callers, UnlinkDead(c) PROVE TypeOK'
  BY <1>7 DEF UnlinkDead
<1>8. ASSUME NEW c \in Callers, WritePid(c) \/ WritePidFails(c) PROVE TypeOK'
  BY <1>8 DEF WritePid, WritePidFails
<1>9. ASSUME NEW c \in Callers, CleanSock(c) \/ CleanLock(c) PROVE TypeOK'
  BY <1>9 DEF CleanSock, CleanLock
<1>10. ASSUME NEW c \in Callers, Launch(c) \/ LaunchFails(c) PROVE TypeOK'
  BY <1>10 DEF Launch, LaunchFails
<1>11. ASSUME NEW c \in Callers, PollAgain(c) \/ WaitFails(c) PROVE TypeOK'
  BY <1>11 DEF PollAgain, WaitFails
<1>12. ASSUME NEW c \in Callers, Release(c) \/ CallerCrash(c) PROVE TypeOK'
  BY <1>12 DEF Release, CallerCrash
<1>13. ASSUME NEW d \in Daemons, DaemonStart(d) PROVE TypeOK'
  BY <1>13 DEF DaemonStart, ServeUnlinkSock, WriteLock, Bind, BindFails
<1>14. ASSUME NEW d \in Daemons, StopServing(d) \/ DaemonCrash(d) PROVE TypeOK'
  BY <1>14 DEF StopServing, DaemonCrash
<1>15. ASSUME NEW d \in Daemons, DaemonCleanup(d) PROVE TypeOK'
  BY <1>15 DEF DaemonCleanup, CleanupUnlinkLock, CleanupUnlinkSock
<1>16. CASE UNCHANGED vars
  BY <1>16 DEF vars
<1> QED
  BY <1>1, <1>2, <1>3, <1>4, <1>5, <1>6, <1>7, <1>8, <1>9, <1>10, <1>11,
     <1>12, <1>13, <1>14, <1>15, <1>16 DEF Next, CallerStep

(* The ranges of all variables are kept by every step of front ends and    *)
(* daemons, under every fault.                                             *)
THEOREM TypeCorrect == Spec => []TypeOK
<1>1. Init => TypeOK
  BY DEF Init, TypeOK, CallerPCs, AliveSites, DaemonPCs
<1>2. TypeOK /\ [Next]_vars => TypeOK'
  BY TypeStep
<1> QED
  BY <1>1, <1>2, PTL DEF Spec

----------------------------------------------------------------------------
(* The spawn.lock excludes, as long as no front end has been killed.       *)

NoCrashYet == \A c \in Callers : pc[c] # "crashed"

\* Nobody ever judges the owner of the lock dead, so nobody unlinks it.
NoThief ==
  \A c \in Callers : pc[c] \notin {"ownerDead2", "unlinkDead", "acquire2"}

\* A Popen handle is held only while waiting for that process.
HandleInv ==
  \A c \in Callers :
    proc[c] # NoDaemon => pc[c] \in {"poll", "polled", "final", "release"}

WinnersOwn == \A c \in Callers : IsWinner(c) => spawnOwner = c

MutexInv == HandleInv /\ (NoCrashYet => NoThief /\ WinnersOwn)

(* Every step keeps it: without a killed front end nobody gets past        *)
(* _spawn_lock_owner_dead, so only its owner removes the spawn.lock.       *)
LEMMA MutexStep ==
  ASSUME TypeOK, MutexInv, [Next]_vars
  PROVE  MutexInv'
<1> USE NoCallerAssumption, NoDaemonAssumption
    DEF TypeOK, CallerPCs, AliveSites, Goto, DaemonGoto, files, spawnLock,
        MutexInv, HandleInv, NoCrashYet, NoThief, WinnersOwn, IsWinner
<1>1. ASSUME NEW c \in Callers, Call(c) PROVE MutexInv'
  BY <1>1 DEF Call
<1>2. ASSUME NEW c \in Callers, ReadLock(c) PROVE MutexInv'
  BY <1>2 DEF ReadLock, AfterDead
<1>3. ASSUME NEW c \in Callers, PingAlive(c) PROVE MutexInv'
  BY <1>3 DEF PingAlive, AfterAlive
<1>4. ASSUME NEW c \in Callers, PingDead(c) PROVE MutexInv'
  BY <1>4 DEF PingDead, AfterDead
<1>5. ASSUME NEW c \in Callers, Acquire(c) PROVE MutexInv'
  BY <1>5 DEF Acquire
<1>6. ASSUME NEW c \in Callers, CheckOwner(c) PROVE MutexInv'
  BY <1>6 DEF CheckOwner, SpawnLockOwnerDead
<1>7. ASSUME NEW c \in Callers, UnlinkDead(c) PROVE MutexInv'
  BY <1>7 DEF UnlinkDead
<1>8. ASSUME NEW c \in Callers, WritePid(c) \/ WritePidFails(c) PROVE MutexInv'
  BY <1>8 DEF WritePid, WritePidFails
<1>9. ASSUME NEW c \in Callers, CleanSock(c) \/ CleanLock(c) PROVE MutexInv'
  BY <1>9 DEF CleanSock, CleanLock
<1>10. ASSUME NEW c \in Callers, Launch(c) \/ LaunchFails(c) PROVE MutexInv'
  BY <1>10 DEF Launch, LaunchFails
<1>11. ASSUME NEW c \in Callers, PollAgain(c) \/ WaitFails(c) PROVE MutexInv'
  BY <1>11 DEF PollAgain, WaitFails
<1>12. ASSUME NEW c \in Callers, Release(c) PROVE MutexInv'
  BY <1>12 DEF Release
<1>13. ASSUME NEW c \in Callers, CallerCrash(c) PROVE MutexInv'
  BY <1>13 DEF CallerCrash
<1>14. CASE UNCHANGED <<pc, proc, spawnOwner>>
  BY <1>14
<1> QED
  BY <1>1, <1>2, <1>3, <1>4, <1>5, <1>6, <1>7,
     <1>8, <1>9, <1>10, <1>11, <1>12, <1>13, <1>14
     DEF Next, CallerStep, DaemonStart, DaemonCleanup, ServeUnlinkSock,
         WriteLock, Bind, BindFails, StopServing, CleanupUnlinkLock,
         CleanupUnlinkSock, DaemonCrash, vars

(* Whatever else fails, two front ends are never both in the part of       *)
(* ensure_daemon that cleans up and launches, until one has been killed.   *)
THEOREM SpawnLockExcludes == Spec => []SpawnLockExclusive
<1>1. Init => MutexInv
  BY DEF Init, MutexInv, HandleInv, NoCrashYet, NoThief, WinnersOwn, IsWinner
<1>2. TypeOK /\ MutexInv /\ [Next]_vars => MutexInv'
  BY MutexStep
<1>3. MutexInv => SpawnLockExclusive
  BY DEF MutexInv, NoCrashYet, WinnersOwn, SpawnLockExclusive
<1> QED
  BY <1>1, <1>2, <1>3, TypeCorrect, PTL DEF Spec

----------------------------------------------------------------------------
(* Exactly one daemon, under the tolerated faults.                         *)

\* The winner that launched a daemon holds the lock until it is serving.
StartingHasLauncher ==
  \A d \in Daemons : Starting(d) =>
    \E c \in Callers : proc[c] = d /\ pc[c] \in {"poll", "polled"}

\* What the recheck of is_alive under the lock is for.
NoneWhileCleaning ==
  \A c \in Callers :
    pc[c] \in {"cleanSock", "cleanLock", "launch"} => \A d \in Daemons : ~Up(d)

SeenInPing ==
  \A c \in Callers :
    seen[c] # NoDaemon => pc[c] \in {"quick", "recheck", "poll", "final"}

RecheckSeesIt ==
  \A c \in Callers : pc[c] = "recheck" /\ seen[c] # NoDaemon =>
    \A d \in Daemons : Up(d) => d = seen[c]

LaunchedAlone ==
  \A c \in Callers :
    proc[c] # NoDaemon => \A d \in Daemons : Up(d) => d = proc[c]

FilesFollow ==
  \A d \in Daemons :
    /\ dpc[d] = "locked" => lockFile = d
    /\ dpc[d] \in {"unlinked", "locked"} => sockFile = NoDaemon
    /\ dpc[d] \notin {"closing", "lockGone"}

FileInv ==
  /\ NoCrashYet
  /\ StartingHasLauncher /\ NoneWhileCleaning /\ SeenInPing /\ RecheckSeesIt
  /\ LaunchedAlone /\ FilesFollow
  /\ AtMostOneUp /\ ServingReachable

LifeInv == TypeOK /\ MutexInv /\ FileInv

\* While a caller is in the winner's part before its launch, or holds a
\* handle, nobody else holds one.
LEMMA OneWinner ==
  ASSUME LifeInv, NEW b \in Callers, NEW c \in Callers,
         IsWinner(b), IsWinner(c)
  PROVE  b = c
  BY DEF LifeInv, FileInv, MutexInv, WinnersOwn

\* Under the lock and before the launch, a daemon that is up is serving
\* and named by both files.
LEMMA UpIsServing ==
  ASSUME LifeInv, NEW c \in Callers, IsWinner(c), proc[c] = NoDaemon,
         NEW d \in Daemons, Up(d)
  PROVE  dpc[d] = "serving" /\ lockFile = d /\ sockFile = d
<1>1. ~Starting(d)
  <2> SUFFICES ASSUME Starting(d) PROVE FALSE
    OBVIOUS
  <2>1. PICK b \in Callers : proc[b] = d /\ pc[b] \in {"poll", "polled"}
    BY DEF LifeInv, FileInv, StartingHasLauncher
  <2>2. IsWinner(b)
    BY <2>1, NoDaemonAssumption DEF IsWinner
  <2> QED
    BY <2>1, <2>2, OneWinner, NoDaemonAssumption
<1> QED
  BY <1>1 DEF LifeInv, FileInv, TypeOK, DaemonPCs, FilesFollow, Up, Starting,
              ServingReachable

(* Every step under the tolerated faults keeps what is known of the        *)
(* processes and the two files of the daemon.                              *)
LEMMA LifeStep ==
  ASSUME Tolerated, LifeInv, [Next]_vars
  PROVE  FileInv'
<1> USE NoCallerAssumption, NoDaemonAssumption
    DEF Tolerated, ToleratedFaults, LifeInv, FileInv, TypeOK, MutexInv,
        HandleInv, NoCrashYet, NoThief, WinnersOwn, StartingHasLauncher,
        NoneWhileCleaning, SeenInPing, RecheckSeesIt, LaunchedAlone,
        FilesFollow, AtMostOneUp, ServingReachable, Up, Starting, IsWinner,
        Goto, DaemonGoto, files, spawnLock
<1>1. ASSUME NEW c \in Callers, Call(c) PROVE FileInv'
  BY <1>1 DEF Call
<1>2. ASSUME NEW c \in Callers, ReadLock(c) PROVE FileInv'
  <2>1. CASE Up(lockFile)
    BY <1>2, <2>1 DEF ReadLock, AliveSites
  <2>2. CASE ~Up(lockFile)
    <3>1. pc[c] = "recheck" => \A d \in Daemons : ~Up(d)
      BY <2>2, UpIsServing
    <3>2. /\ pc' = [pc EXCEPT ![c] = AfterDead(c)]
          /\ pc[c] \in {"quick", "recheck", "poll", "final"}
          /\ seen[c] = NoDaemon
          /\ UNCHANGED <<seen, proc, dpc, lockFile, sockFile, spawnOwner, spawnPid>>
      BY <1>2, <2>2 DEF ReadLock, AliveSites
    <3> QED
      BY <3>1, <3>2 DEF AfterDead
  <2> QED
    BY <2>1, <2>2
<1>3. ASSUME NEW c \in Callers, PingAlive(c) PROVE FileInv'
  BY <1>3 DEF PingAlive, AfterAlive, AliveSites, Answers
<1>4. ASSUME NEW c \in Callers, PingDead(c) PROVE FileInv'
  <2>1. ~Answers(seen[c]) /\ seen[c] # NoDaemon
    BY <1>4 DEF PingDead
  <2>2. pc[c] = "recheck" => \A d \in Daemons : ~Up(d)
    BY <2>1, UpIsServing DEF Answers
  <2>3. /\ pc' = [pc EXCEPT ![c] = AfterDead(c)]
        /\ seen' = [seen EXCEPT ![c] = NoDaemon]
        /\ pc[c] \in {"quick", "recheck", "poll", "final"}
        /\ UNCHANGED <<proc, dpc, lockFile, sockFile, spawnOwner, spawnPid>>
    BY <1>4 DEF PingDead, AliveSites
  <2> QED
    BY <2>2, <2>3 DEF AfterDead
<1>5. ASSUME NEW c \in Callers, Acquire(c) PROVE FileInv'
  BY <1>5 DEF Acquire
<1>6. ASSUME NEW c \in Callers, CheckOwner(c) PROVE FileInv'
  BY <1>6 DEF CheckOwner, SpawnLockOwnerDead
<1>7. ASSUME NEW c \in Callers, UnlinkDead(c) PROVE FileInv'
  BY <1>7 DEF UnlinkDead
<1>8. ASSUME NEW c \in Callers, WritePid(c) \/ WritePidFails(c) PROVE FileInv'
  BY <1>8 DEF WritePid, WritePidFails
<1>9. ASSUME NEW c \in Callers, CleanSock(c) \/ CleanLock(c) PROVE FileInv'
  BY <1>9 DEF CleanSock, CleanLock
<1>10. ASSUME NEW c \in Callers, Launch(c) PROVE FileInv'
  BY <1>10 DEF Launch
<1>11. ASSUME NEW c \in Callers, LaunchFails(c) PROVE FileInv'
  BY <1>11 DEF LaunchFails
<1>12. ASSUME NEW c \in Callers, PollAgain(c) \/ WaitFails(c) PROVE FileInv'
  BY <1>12 DEF PollAgain, WaitFails
<1>13. ASSUME NEW c \in Callers, Release(c) PROVE FileInv'
  BY <1>13 DEF Release
<1>14. ASSUME NEW d \in Daemons, ServeUnlinkSock(d) PROVE FileInv'
  BY <1>14 DEF ServeUnlinkSock
<1>15. ASSUME NEW d \in Daemons, WriteLock(d) PROVE FileInv'
  BY <1>15 DEF WriteLock
<1>16. ASSUME NEW d \in Daemons, Bind(d) PROVE FileInv'
  BY <1>16 DEF Bind
<1>17. ASSUME NEW d \in Daemons, BindFails(d) PROVE FileInv'
  BY <1>17 DEF BindFails
<1>18. ASSUME NEW d \in Daemons, StopServing(d) PROVE FileInv'
  BY <1>18 DEF StopServing
<1>19. ASSUME NEW d \in Daemons, DaemonCleanup(d) PROVE FileInv'
  BY <1>19 DEF DaemonCleanup, CleanupUnlinkLock, CleanupUnlinkSock
<1>20. ASSUME NEW d \in Daemons, DaemonCrash(d) PROVE FileInv'
  BY <1>20 DEF DaemonCrash
<1>21. CASE UNCHANGED vars
  BY <1>21 DEF vars
<1> QED
  BY <1>1, <1>2, <1>3, <1>4, <1>5, <1>6, <1>7, <1>8, <1>9, <1>10, <1>11,
     <1>12, <1>13, <1>14, <1>15, <1>16, <1>17, <1>18, <1>19, <1>20, <1>21
     DEF Next, CallerStep, DaemonStart, CallerCrash

\* The inductive invariant, which holds while front ends are not killed, a
\* winner waits for the daemon it launched, and daemons do not stop gracefully.
THEOREM LifeCorrect == ASSUME Tolerated PROVE Spec => []LifeInv
<1>1. Init => LifeInv
  BY DEF Init, LifeInv, FileInv, TypeOK, CallerPCs, AliveSites, DaemonPCs,
         MutexInv,
         HandleInv, NoCrashYet, NoThief, WinnersOwn, StartingHasLauncher,
         NoneWhileCleaning, SeenInPing, RecheckSeesIt, LaunchedAlone,
         FilesFollow, AtMostOneUp, ServingReachable, Up, Starting, IsWinner
<1>2. LifeInv /\ [Next]_vars => LifeInv'
  BY TypeStep, MutexStep, LifeStep DEF LifeInv
<1> QED
  BY <1>1, <1>2, PTL DEF Spec

(* Exactly one: under the tolerated faults there is never a second daemon  *)
(* process of one name, however calls of ensure_daemon interleave.         *)
THEOREM OneDaemonProcess == ASSUME Tolerated PROVE Spec => []AtMostOneUp
<1>1. LifeInv => AtMostOneUp
  BY DEF LifeInv, FileInv
<1> QED
  BY <1>1, LifeCorrect, PTL

(* Under the same faults no front end's cleanup and no daemon's start ever *)
(* takes the .lock or .sock of a serving daemon away.                      *)
THEOREM ServingStaysReachable ==
  ASSUME Tolerated PROVE Spec => []ServingReachable
<1>1. LifeInv => ServingReachable
  BY DEF LifeInv, FileInv
<1> QED
  BY <1>1, LifeCorrect, PTL

----------------------------------------------------------------------------
(* Lifecycle implements OneDaemon.                                         *)

(* Before any call no daemon runs and none is ready.                       *)
LEMMA PromiseInit == Init => Promise!Init
  BY NoDaemonAssumption
     DEF Init, Promise!Init, Running, ReadyDaemons, Up, Answers

(* Each step starts the only daemon, makes it ready, ends it, or changes   *)
(* nothing that OneDaemon speaks of.                                       *)
LEMMA PromiseStep ==
  ASSUME Tolerated, LifeInv, LifeInv', [Next]_vars
  PROVE  [Promise!Next]_<<Running, ReadyDaemons>>
<1> USE DEF Running, ReadyDaemons, Up, Answers, files, spawnLock, Goto,
       DaemonGoto,
            LifeInv, FileInv, TypeOK
<1>1. ASSUME NEW c \in Callers, CallerStep(c), UNCHANGED <<dpc, lockFile, sockFile>>
      PROVE  UNCHANGED <<Running, ReadyDaemons>>
  BY <1>1
<1>2. ASSUME NEW c \in Callers, CleanSock(c) \/ CleanLock(c)
      PROVE  UNCHANGED <<Running, ReadyDaemons>>
  <2>1. \A d \in Daemons : dpc[d] = "off"
    BY <1>2 DEF CleanSock, CleanLock, NoneWhileCleaning
  <2> QED
    BY <1>2, <2>1 DEF CleanSock, CleanLock
<1>3. ASSUME NEW c \in Callers, Launch(c) PROVE Promise!Next
  <2>1. PICK d \in Daemons : dpc' = [dpc EXCEPT ![d] = "booting"]
    BY <1>3 DEF Launch
  <2>2. \A e \in Daemons : dpc[e] = "off"
    BY <1>3 DEF Launch, NoneWhileCleaning
  <2>3. Running = {} /\ ReadyDaemons = {}
    BY <2>2
  <2>4. Running' = {d} /\ ReadyDaemons' = {}
    BY <2>1, <2>2
  <2> QED
    BY <2>3, <2>4 DEF Promise!Next, Promise!Start
<1>4. ASSUME NEW d \in Daemons, ServeUnlinkSock(d) \/ WriteLock(d)
      PROVE  UNCHANGED <<Running, ReadyDaemons>>
  <2>1. \A e \in Daemons : dpc[e] # "serving"
    BY <1>4 DEF ServeUnlinkSock, WriteLock, AtMostOneUp
  <2> QED
    BY <1>4, <2>1 DEF ServeUnlinkSock, WriteLock
<1>5. ASSUME NEW d \in Daemons, Bind(d) PROVE Promise!Next
  <2>1. \A e \in Daemons : dpc[e] # "off" => e = d
    BY <1>5 DEF Bind, AtMostOneUp
  <2>2. Running = {d} /\ ReadyDaemons = {}
    BY <1>5, <2>1 DEF Bind
  <2>3. lockFile' = d /\ sockFile' = d /\ dpc' = [dpc EXCEPT ![d] = "serving"]
    BY <1>5 DEF Bind, FilesFollow
  <2>4. Running' = {d} /\ ReadyDaemons' = {d}
    BY <2>1, <2>3
  <2> QED
    BY <2>2, <2>4 DEF Promise!Next, Promise!BecomeReady
<1>6. ASSUME NEW d \in Daemons, DaemonCrash(d) PROVE Promise!Next
  <2>1. Running = {d}
    BY <1>6 DEF DaemonCrash, AtMostOneUp
  <2>2. Running' = {} /\ ReadyDaemons' = {}
    BY <1>6, <2>1 DEF DaemonCrash
  <2> QED
    BY <2>1, <2>2 DEF Promise!Next, Promise!Exit
<1>7. ASSUME NEW d \in Daemons,
             BindFails(d) \/ StopServing(d) \/ DaemonCleanup(d)
      PROVE  FALSE
  BY <1>7 DEF BindFails, StopServing, DaemonCleanup, CleanupUnlinkLock,
              CleanupUnlinkSock, FilesFollow, Tolerated, ToleratedFaults
<1>8. ASSUME NEW c \in Callers, Call(c) \/ CallerCrash(c)
      PROVE  UNCHANGED <<Running, ReadyDaemons>>
  BY <1>8 DEF Call, CallerCrash
<1>9. CASE UNCHANGED vars
  BY <1>9 DEF vars
<1>10. ASSUME NEW c \in Callers, CallerStep(c),
              ~CleanSock(c), ~CleanLock(c), ~Launch(c)
       PROVE  UNCHANGED <<dpc, lockFile, sockFile>>
  BY <1>10 DEF CallerStep, ReadLock, PingAlive, PingDead, Acquire, CheckOwner,
               UnlinkDead, WritePid, WritePidFails, LaunchFails, PollAgain,
               WaitFails, Release
<1> QED
  BY <1>1, <1>2, <1>3, <1>4, <1>5, <1>6, <1>7, <1>8, <1>9, <1>10
     DEF Next, DaemonStart

(* The refinement for every number of front ends and daemons: each step of *)
(* ensure_daemon, serve and the tolerated crashes is a step of OneDaemon   *)
(* or leaves its state alone.                                              *)
THEOREM Implementation == ASSUME Tolerated PROVE Spec => ImplementsOneDaemon
<1>1. LifeInv /\ LifeInv' /\ [Next]_vars
        => [Promise!Next]_<<Running, ReadyDaemons>>
  BY PromiseStep
<1> QED
  BY <1>1, PromiseInit, LifeCorrect, PTL
     DEF Spec, ImplementsOneDaemon, Promise!Spec
=============================================================================
