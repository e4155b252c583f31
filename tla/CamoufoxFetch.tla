--------------------------- MODULE CamoufoxFetch ---------------------------
(***************************************************************************)
(* The download and installation of the stealth browser, _camoufox_fetch.py *)
(* and the thread of _browser_check.py that runs it, in the daemons of one *)
(* machine.  They share the .part file and the install directory and lock  *)
(* neither.  A file is the sequence of its chunks, chunk 0 being a hole;   *)
(* an empty file stands for a missing one too.                             *)
(***************************************************************************)
EXTENDS Naturals, Sequences

CONSTANTS
  Procs,        \* daemon processes
  N,            \* chunks of the release
  MaxAttempts,  \* max_attempts
  MaxFaults     \* bound on crashes, network and file system failures

ASSUME SizeAssumption == N \in Nat \ {0} /\ MaxAttempts \in Nat \ {0}
ASSUME FaultAssumption == MaxFaults \in Nat

VARIABLES
  ranges,   \* whether the server honours Range
  sized,    \* whether it tells the size
  part,     \* the .part file
  install,  \* what is in INSTALL_DIR
  marker,   \* whether version.json names a supported version
  pc,       \* where the fetch thread of each process is
  state,    \* _camoufox_fetch_state of each
  attempt,  \* tries so far
  next,     \* the chunk asked for, then the one the response goes on with
  append,   \* whether the file was opened to append
  known,    \* whether total is known
  crowded,  \* whether two threads have ever been at work at once
  faults    \* failures so far

shared == <<part, install, marker>>
vars == <<ranges, sized, shared, pc, state, attempt, next, append, known, crowded, faults>>

Whole == [i \in 1..N |-> i]
Chunks == 0..N
Working == {"resolve", "try", "ask", "body", "check",
            "clean", "extract", "mark", "chmod", "tidy", "verify"}
\* "files" is a full extraction whose files cannot be executed yet.
Installs == {"none", "old", "torn", "files", "usable"}
FetchStates == {"idle", "downloading", "ready", "failed"}

Init ==
  /\ ranges \in BOOLEAN /\ sized \in BOOLEAN
  /\ part = <<>> /\ install \in {"none", "old"} /\ marker = FALSE
  /\ pc = [p \in Procs |-> "off"]
  /\ state = [p \in Procs |-> "idle"]
  /\ attempt = [p \in Procs |-> 0]
  /\ next = [p \in Procs |-> 1]
  /\ append = [p \in Procs |-> FALSE]
  /\ known = [p \in Procs |-> FALSE]
  /\ crowded = FALSE /\ faults = 0

----------------------------------------------------------------------------
Goto(p, label) == pc' = [pc EXCEPT ![p] = label]
Set(p, s) == state' = [state EXCEPT ![p] = s]
Fails(p) == Goto(p, "up") /\ Set(p, "failed")
Fault == faults < MaxFaults /\ faults' = faults + 1

\* The file after a chunk was written, at the end or at the writer's place.
WrittenAt(at, chunk) ==
  [i \in 1..(IF at > Len(part) THEN at ELSE Len(part)) |->
     IF i = at THEN chunk ELSE IF i <= Len(part) THEN part[i] ELSE 0]

\* Slip: the central directory is not looked for.
ValidIfAny == part # <<>>

\* ZipFile finds the central directory at the end and reads no member.
Valid == part # <<>> /\ part[Len(part)] = N

----------------------------------------------------------------------------
\* A daemon starts: ensure_camoufox, and the first line of its thread.
Start(p) ==
  /\ pc[p] = "off"
  /\ IF marker THEN Goto(p, "up") /\ UNCHANGED <<state, attempt, known, crowded>>
     ELSE /\ Goto(p, "resolve")
          /\ Set(p, "downloading")
          /\ attempt' = [attempt EXCEPT ![p] = 0]
          /\ known' = [known EXCEPT ![p] = FALSE]
          /\ crowded' = (crowded \/ \E q \in Procs : pc[q] \in Working)
  /\ UNCHANGED <<ranges, sized, shared, next, append, faults>>

\* CamoufoxFetcher asks GitHub for the release.
Resolve(p) ==
  /\ pc[p] = "resolve"
  /\ \/ Goto(p, "try") /\ UNCHANGED <<state, faults>>
     \/ Fault /\ Fails(p)
  /\ UNCHANGED <<ranges, sized, shared, attempt, next, append, known, crowded>>

Tried(p) == attempt[p] = MaxAttempts \/ (known[p] /\ Len(part) = N)

Retried(p) ==
  /\ attempt' = [attempt EXCEPT ![p] = @ + 1]
  /\ Goto(p, "try")

\* What the server refuses with a 416: there is no such chunk.
Beyond(p) == ranges /\ next[p] > N

\* Slip: a 416 is an error like any other.
LoopEndsOr416(p) ==
  /\ \/ pc[p] = "try" /\ Tried(p) /\ Goto(p, "check") /\ UNCHANGED state
     \/ pc[p] = "ask" /\ Beyond(p) /\ Fails(p)
  /\ UNCHANGED <<ranges, sized, shared, attempt, next, append, known, crowded, faults>>

\* The loop is over, by the count, the size or a 416: on to the zip check.
LoopEnds(p) ==
  /\ (pc[p] = "try" /\ Tried(p)) \/ (pc[p] = "ask" /\ Beyond(p))
  /\ Goto(p, "check")
  /\ UNCHANGED <<ranges, sized, shared, state, attempt, next, append, known, crowded, faults>>

\* The size of what is there decides what is asked for.
Asks(p) ==
  /\ pc[p] = "try" /\ ~Tried(p)
  /\ Goto(p, "ask")
  /\ next' = [next EXCEPT ![p] = Len(part) + 1]
  /\ UNCHANGED <<ranges, sized, shared, state, attempt, append, known, crowded, faults>>

\* Slip: what is there is kept when the server starts over.
RespondsAppending(p) ==
  /\ pc[p] = "ask" /\ ~Beyond(p)
  /\ Goto(p, "body")
  /\ known' = [known EXCEPT ![p] = @ \/ sized]
  /\ append' = [append EXCEPT ![p] = next[p] > 1]
  /\ next' = [next EXCEPT ![p] = IF ranges THEN @ ELSE 1]
  /\ UNCHANGED <<ranges, sized, shared, state, attempt, crowded, faults>>

\* 206 goes on after what was there; 200 starts over in an emptied file.
Responds(p) ==
  /\ pc[p] = "ask" /\ ~Beyond(p)
  /\ Goto(p, "body")
  /\ known' = [known EXCEPT ![p] = @ \/ sized]
  /\ LET resumes == ranges /\ next[p] > 1
     IN /\ append' = [append EXCEPT ![p] = resumes]
        /\ next' = [next EXCEPT ![p] = IF resumes THEN @ ELSE 1]
        /\ part' = IF resumes THEN part ELSE <<>>
  /\ UNCHANGED <<ranges, sized, install, marker, state, attempt, crowded, faults>>

\* Slip: a failed connection starts over.
NoResponseDrops(p) ==
  /\ pc[p] = "ask"
  /\ Fault
  /\ Retried(p)
  /\ part' = <<>>
  /\ UNCHANGED <<ranges, sized, install, marker, state, next, append, known, crowded>>

\* No connection: another try.  An HTTP error other than 416 ends the fetch.
NoResponse(p) ==
  /\ pc[p] = "ask"
  /\ Fault
  /\ \/ Retried(p) /\ UNCHANGED state
     \/ Fails(p) /\ UNCHANGED attempt
  /\ UNCHANGED <<ranges, sized, shared, next, append, known, crowded>>

Chunk(p) ==
  /\ pc[p] = "body" /\ next[p] <= N
  /\ part' = WrittenAt(IF append[p] THEN Len(part) + 1 ELSE next[p], next[p])
  /\ next' = [next EXCEPT ![p] = @ + 1]
  /\ UNCHANGED <<ranges, sized, install, marker, pc, state, attempt, append, known, crowded, faults>>

\* Slip: only an attempt that fails is counted.
StreamEndsUncounted(p) ==
  /\ pc[p] = "body"
  /\ IF next[p] > N THEN UNCHANGED faults ELSE Fault
  /\ Goto(p, IF sized THEN "try" ELSE "check")
  /\ UNCHANGED <<ranges, sized, shared, state, attempt, next, append, known, crowded>>

\* The stream ends, in time or early.  With the size known the loop looks again.
StreamEnds(p) ==
  /\ pc[p] = "body"
  /\ IF next[p] > N THEN UNCHANGED faults ELSE Fault
  /\ IF sized THEN Retried(p) ELSE Goto(p, "check") /\ UNCHANGED attempt
  /\ UNCHANGED <<ranges, sized, shared, state, next, append, known, crowded>>

\* The connection breaks or is silent for stall_timeout.
Stalls(p) ==
  /\ pc[p] = "body" /\ next[p] <= N
  /\ Fault
  /\ Retried(p)
  /\ UNCHANGED <<ranges, sized, shared, state, next, append, known, crowded>>

Check(p) ==
  /\ pc[p] = "check"
  /\ IF known[p] /\ Len(part) # N
       THEN Fails(p) /\ UNCHANGED part
       ELSE IF Valid THEN Goto(p, "clean") /\ UNCHANGED <<state, part>>
       ELSE Fails(p) /\ part' = <<>>
  /\ UNCHANGED <<ranges, sized, install, marker, attempt, next, append, known, crowded, faults>>

\* fetcher.cleanup; a removal that fails leaves some of the files.
Clean(p) ==
  /\ pc[p] = "clean"
  /\ \/ /\ install' = "none" /\ marker' = FALSE
        /\ Goto(p, "extract") /\ UNCHANGED <<state, faults>>
     \/ /\ install' \in {install, "torn"} /\ marker' \in {marker, FALSE}
        /\ Fault /\ Fails(p)
  /\ UNCHANGED <<ranges, sized, part, attempt, next, append, known, crowded>>

\* Slip: an error of the extraction goes unnoticed.
ExtractAnyhow(p) ==
  /\ pc[p] = "extract"
  /\ Goto(p, "mark")
  /\ \/ part = Whole /\ install' = "files" /\ UNCHANGED faults
     \/ install' = "torn" /\ Fault
  /\ UNCHANGED <<ranges, sized, part, marker, state, attempt, next, append, known, crowded>>

\* Reading the members checks them; what the file system refuses is a fault.
Extract(p) ==
  /\ pc[p] = "extract"
  /\ IF part = Whole
       THEN \/ install' = "files" /\ Goto(p, "mark") /\ UNCHANGED <<state, faults>>
            \/ install' \in {install, "torn"} /\ Fault /\ Fails(p)
       ELSE install' = "torn" /\ Fails(p) /\ UNCHANGED faults
  /\ UNCHANGED <<ranges, sized, part, marker, attempt, next, append, known, crowded>>

\* A marker that is not written to the end names no version.
SetVersion(p) ==
  /\ pc[p] = "mark"
  /\ \/ marker' = TRUE /\ Goto(p, "chmod") /\ UNCHANGED <<state, faults>>
     \/ marker' \in {marker, FALSE} /\ Fault /\ Fails(p)
  /\ UNCHANGED <<ranges, sized, part, install, attempt, next, append, known, crowded>>

Chmod(p) ==
  /\ pc[p] = "chmod"
  /\ \/ /\ install' = IF install = "files" THEN "usable" ELSE install
        /\ Goto(p, "tidy") /\ UNCHANGED <<state, faults>>
     \/ Fault /\ Fails(p) /\ UNCHANGED install
  /\ UNCHANGED <<ranges, sized, part, marker, attempt, next, append, known, crowded>>

Tidy(p) ==
  /\ pc[p] = "tidy"
  /\ \/ part' = <<>> /\ Goto(p, "verify") /\ UNCHANGED <<state, faults>>
     \/ Fault /\ Fails(p) /\ UNCHANGED part
  /\ UNCHANGED <<ranges, sized, install, marker, attempt, next, append, known, crowded>>

Verify(p) ==
  /\ pc[p] = "verify"
  /\ Goto(p, "up")
  /\ Set(p, IF marker THEN "ready" ELSE "failed")
  /\ UNCHANGED <<ranges, sized, shared, attempt, next, append, known, crowded, faults>>

\* The daemon is killed, or idle for long enough: its thread goes with it.  A
\* removal or an extraction that is cut off leaves some of the files.
Exit(p) ==
  /\ pc[p] # "off" /\ Fault
  /\ Goto(p, "off")
  /\ Set(p, "idle")
  /\ install' \in {install} \cup (IF pc[p] \in {"clean", "extract"} THEN {"torn"} ELSE {})
  /\ UNCHANGED <<ranges, sized, part, marker, attempt, next, append, known, crowded>>

Work(p) ==
  \/ Resolve(p) \/ LoopEnds(p) \/ Asks(p) \/ Responds(p) \/ Chunk(p) \/ StreamEnds(p)
  \/ Check(p) \/ Clean(p) \/ Extract(p) \/ SetVersion(p) \/ Chmod(p) \/ Tidy(p) \/ Verify(p)

Next == \E p \in Procs : Start(p) \/ Work(p) \/ NoResponse(p) \/ Stalls(p) \/ Exit(p)

Spec == Init /\ [][Next]_vars

\* A thread that is not killed goes on; nothing makes a daemon start or fail.
FairSpec == Spec /\ \A p \in Procs : WF_vars(Work(p))

----------------------------------------------------------------------------
(* Every variable has its type.                                            *)
TypeOK ==
  /\ ranges \in BOOLEAN /\ sized \in BOOLEAN /\ crowded \in BOOLEAN
  /\ part \in Seq(Chunks) /\ install \in Installs /\ marker \in BOOLEAN
  /\ pc \in [Procs -> Working \cup {"off", "up"}]
  /\ state \in [Procs -> FetchStates]
  /\ attempt \in [Procs -> 0..MaxAttempts]
  /\ next \in [Procs -> Nat \ {0}]
  /\ append \in [Procs -> BOOLEAN] /\ known \in [Procs -> BOOLEAN]
  /\ faults \in 0..MaxFaults

(* _camoufox_fetch.py:8-12: as long as no two daemons download at once, a  *)
(* .part file is the beginning of the release, whatever stalls, restarts   *)
(* and servers without Range it has been through.                          *)
PartIsPrefix == ~crowded => Len(part) <= N /\ \A i \in DOMAIN part : part[i] = i

(* Under the same proviso what is marked is a full extraction.             *)
MarkedIsFull == ~crowded /\ marker => install \in {"files", "usable"}

(* _camoufox_fetch.py:174-175: an older install is given up only when the  *)
(* new release is there in full.                                           *)
OldInstallKept ==
  [][~crowded /\ install = "old" /\ install' # "old" => part = Whole]_vars

(* _camoufox_fetch.py:8-9: what was downloaded is kept until it is         *)
(* installed, if the server honours Range and tells the size.  It is lost  *)
(* only to a fetch whose attempts all went without an answer: not knowing  *)
(* the size it takes an incomplete file for a broken one.                  *)
Resumes ==
  [][~crowded /\ ranges /\ sized /\ part # <<>> /\ part' = <<>>
       => marker \/ \E p \in Procs : pc[p] = "check" /\ ~known[p]]_vars

(* Every fetch comes to an end, with two daemons at it too.                *)
FetchEnds == \A p \in Procs : pc[p] \in Working ~> pc[p] \in {"up", "off"}

(* Whatever went wrong before, a fetch that starts after the last fault    *)
(* and alone installs the browser: no remains block it for ever.           *)
Recovers ==
  \A p \in Procs :
    pc[p] = "resolve" /\ faults = MaxFaults /\ ~crowded
      ~> state[p] = "ready" \/ crowded
=============================================================================
