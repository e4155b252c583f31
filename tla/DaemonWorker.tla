---------------------------- MODULE DaemonWorker ----------------------------
(***************************************************************************)
(* The inside of one daemon process, daemon/worker.py: its connections,    *)
(* the table of fetch tasks keyed by request id, the cancel ops with their *)
(* grace period, and the ways out: idle timeout, shutdown op, SIGTERM and  *)
(* killpg.  A task is one run of _run_fetch; what happens inside its       *)
(* wrapper is the subject of Admission and BrowserPool.  ping and status   *)
(* change nothing and are left out.                                        *)
(***************************************************************************)
EXTENDS FiniteSets, Naturals

CONSTANTS
  Conns,    \* connections of front ends
  Ids,      \* request ids
  Tasks,    \* fetch tasks; the bound on how many requests are made
  NoTask,   \* no table entry
  NoId,     \* a task not made yet
  Hangs     \* whether the teardown of a browser may hang

ASSUME NoTaskAssumption == NoTask \notin Tasks
ASSUME NoIdAssumption == NoId \notin Ids
ASSUME HangsAssumption == Hangs \in BOOLEAN

VARIABLES
  waits,     \* whether Server.wait_closed waits for connections (CPython 3.12)
  phase,     \* where serve and _cleanup are
  stopping,  \* _stopping
  conn,      \* each connection, from its arrival to the end of its handler
  task,      \* each fetch task
  id,        \* the request id a task was made for
  asked,     \* tasks with a CancelledError on its way to them
  table,     \* _tasks
  ops,       \* cancel ops waiting for their target: <<connection, task>>
  first,     \* the first final frame sent for a task
  later      \* the final frames sent for it after that one

vars == <<waits, phase, stopping, conn, task, id, asked, table, ops, first, later>>

Phases == {"serving", "closing", "ending", "pool", "leaving", "exited", "killed"}
Frames == {"result", "error", "cancelled"}
Live == {"made", "running", "lingering", "sending"}

Init ==
  /\ waits \in BOOLEAN
  /\ phase = "serving"
  /\ stopping = FALSE
  /\ conn = [c \in Conns |-> "none"]
  /\ task = [t \in Tasks |-> "new"]
  /\ id = [t \in Tasks |-> NoId]
  /\ asked = {}
  /\ table = [i \in Ids |-> NoTask]
  /\ ops = {}
  /\ first = [t \in Tasks |-> "none"]
  /\ later = [t \in Tasks |-> {}]

taskVars == <<task, id, asked, table, first, later>>
exitVars == <<waits, phase, stopping>>

----------------------------------------------------------------------------
Clients == {c \in Conns : conn[c] = "open"}
OpsOf(c) == {o \in ops : o[1] = c}
Registered == {t \in Tasks : \E i \in Ids : table[i] = t}

\* A final frame is written for task t.
Send(t, frame) ==
  IF first[t] = "none"
  THEN first' = [first EXCEPT ![t] = frame] /\ UNCHANGED later
  ELSE later' = [later EXCEPT ![t] = @ \cup {frame}] /\ UNCHANGED first

\* The read loop of c has dealt with a frame and looks at _stopping; when it
\* ends, the cancel ops it started are cancelled, made is the last of them.
ReadOn(c, made) ==
  IF stopping' THEN conn' = [conn EXCEPT ![c] = "ended"] /\ ops' = ops \ OpsOf(c)
               ELSE ops' = ops \cup made /\ UNCHANGED conn

\* Task t ends and removes what stands under its id.
End(t, how) ==
  /\ task' = [task EXCEPT ![t] = how]
  /\ table' = [table EXCEPT ![id[t]] = NoTask]

----------------------------------------------------------------------------
\* A front end connects: asyncio accepts it and schedules its handler.
Connect(c) ==
  /\ phase = "serving" /\ conn[c] = "none"
  /\ conn' = [conn EXCEPT ![c] = "queued"]
  /\ UNCHANGED <<exitVars, taskVars, ops>>

\* Its handler starts, and ends at once when the daemon is stopping.
Accept(c) ==
  /\ conn[c] = "queued"
  /\ phase \in {"serving", "closing"} \/ ~waits
  /\ conn' = [conn EXCEPT ![c] = IF stopping THEN "ended" ELSE "open"]
  /\ UNCHANGED <<exitVars, taskVars, ops>>

\* The peer closes the connection, or breaks it.
Disconnect(c) ==
  /\ conn[c] \in {"queued", "open"}
  /\ conn' = [conn EXCEPT ![c] = "ended"]
  /\ ops' = ops \ OpsOf(c)
  /\ UNCHANGED <<exitVars, taskVars>>

\* Slip: a repeated id takes over the table entry.
FetchOverwrites(c, i, t) ==
  /\ conn[c] = "open" /\ task[t] = "new"
  /\ task' = [task EXCEPT ![t] = "made"]
  /\ id' = [id EXCEPT ![t] = i]
  /\ table' = [table EXCEPT ![i] = t]
  /\ UNCHANGED <<exitVars, asked, first, later>>
  /\ ReadOn(c, {})

\* A fetch frame makes a task; an id still in the table is refused.
Fetch(c, i, t) ==
  /\ conn[c] = "open" /\ task[t] = "new"
  /\ IF table[i] = NoTask
     THEN /\ task' = [task EXCEPT ![t] = "made"]
          /\ id' = [id EXCEPT ![t] = i]
          /\ table' = [table EXCEPT ![i] = t]
     ELSE UNCHANGED <<task, id, table>>
  /\ UNCHANGED <<exitVars, asked, first, later>>
  /\ ReadOn(c, {})

\* A cancel frame starts an op, which cancels the task and waits for it.  The
\* op is scheduled after the task was, so it never finds one that has not begun.
\* Bound: one op of a connection per task at a time.
CancelOp(c, i) ==
  /\ conn[c] = "open" /\ table[i] # NoTask /\ <<c, table[i]>> \notin ops
  /\ task[table[i]] \in Live \ {"made"}
  /\ asked' = IF stopping THEN asked ELSE asked \cup {table[i]}
  /\ UNCHANGED <<exitVars, task, id, table, first, later>>
  /\ ReadOn(c, {<<c, table[i]>>})

\* The shutdown op is answered, and the handler that read it ends.
ShutdownOp(c) ==
  /\ conn[c] = "open"
  /\ stopping' = TRUE
  /\ UNCHANGED <<waits, phase, taskVars>>
  /\ ReadOn(c, {})

----------------------------------------------------------------------------
\* The task gets its first step.
Begin(t) ==
  /\ task[t] = "made" /\ t \notin asked
  /\ task' = [task EXCEPT ![t] = "running"]
  /\ UNCHANGED <<exitVars, id, asked, table, first, later, conn, ops>>

\* A task cancelled before its first step runs none of its handlers: no frame,
\* and its entry stays.  Only the end of the daemon comes that early.
NeverBegins(t) ==
  /\ t \in asked /\ task[t] = "made"
  /\ asked' = asked \ {t}
  /\ task' = [task EXCEPT ![t] = "cancelled"]
  /\ UNCHANGED <<exitVars, id, table, first, later, conn, ops>>

\* The wrapper returns or raises, and the frame is written.
Finish(t, frame) ==
  /\ task[t] \in {"running", "lingering"} /\ t \notin asked
  /\ task' = [task EXCEPT ![t] = "sending"]
  /\ Send(t, frame)
  /\ UNCHANGED <<exitVars, id, asked, table, conn, ops>>

\* The frame has been drained; the task ends.
Sent(t) ==
  /\ task[t] = "sending" /\ t \notin asked
  /\ End(t, "gone")
  /\ UNCHANGED <<exitVars, id, asked, first, later, conn, ops>>

\* Slip: a cancelled wrapper ends without a frame.
InterruptedSilently(t) ==
  /\ t \in asked /\ task[t] \in {"running", "lingering"}
  /\ asked' = asked \ {t}
  /\ End(t, "gone")
  /\ UNCHANGED <<exitVars, id, first, later, conn, ops>>

\* CancelledError reaches the wrapper: E_CANCELLED is written, or the
\* teardown of the browser hangs.
Interrupted(t) ==
  /\ t \in asked /\ task[t] \in {"running", "lingering"}
  /\ asked' = asked \ {t}
  /\ \/ /\ task' = [task EXCEPT ![t] = "sending"]
        /\ Send(t, "cancelled")
     \/ /\ Hangs
        /\ task' = [task EXCEPT ![t] = "lingering"]
        /\ UNCHANGED <<first, later>>
  /\ UNCHANGED <<exitVars, id, table, conn, ops>>

\* Slip: an outer handler reports the strike as an error.
StruckReports(t) ==
  /\ t \in asked /\ task[t] = "sending"
  /\ asked' = asked \ {t}
  /\ End(t, "gone")
  /\ Send(t, "error")
  /\ UNCHANGED <<exitVars, id, conn, ops>>

\* It strikes while the task drains its frame, outside the handlers.
Struck(t) ==
  /\ t \in asked /\ task[t] = "sending"
  /\ asked' = asked \ {t}
  /\ End(t, "cancelled")
  /\ UNCHANGED <<exitVars, id, first, later, conn, ops>>

----------------------------------------------------------------------------
\* The target of a cancel op has ended; for one that was struck while it
\* sent, E_CANCELLED is sent again.
OpDone(c, t) ==
  /\ <<c, t>> \in ops /\ task[t] \in {"gone", "cancelled"}
  /\ ops' = ops \ {<<c, t>>}
  /\ IF task[t] = "cancelled" THEN Send(t, "cancelled")
                              ELSE UNCHANGED <<first, later>>
  /\ UNCHANGED <<exitVars, task, id, asked, table, conn>>

\* Slip: the grace period ends and the op gives up.
OpKillsNothing(c, t) ==
  /\ <<c, t>> \in ops /\ task[t] \in {"lingering", "sending"} /\ t \notin asked
  /\ UNCHANGED vars

\* The grace period passes: SIGKILL to the whole process group.
OpKills(c, t) ==
  /\ <<c, t>> \in ops /\ task[t] \in {"lingering", "sending"} /\ t \notin asked
  /\ phase' = "killed"
  /\ conn' = [d \in Conns |-> "ended"]
  /\ task' = [u \in Tasks |-> IF task[u] \in Live THEN "gone" ELSE task[u]]
  /\ table' = [i \in Ids |-> NoTask]
  /\ asked' = {} /\ ops' = {}
  /\ UNCHANGED <<waits, stopping, id, first, later>>

----------------------------------------------------------------------------
\* SIGTERM or SIGINT.
Signal ==
  /\ phase = "serving" /\ ~stopping
  /\ stopping' = TRUE
  /\ UNCHANGED <<waits, phase, conn, ops, taskVars>>

\* serve leaves its loop, told to or because nobody was connected for the
\* idle timeout, and _cleanup closes the listening socket.
StopServing ==
  /\ phase = "serving" /\ (stopping \/ Clients = {})
  /\ phase' = "closing"
  /\ UNCHANGED <<waits, stopping, conn, ops, taskVars>>

\* Slip: the tasks are not cancelled.
WaitClosedCancelsNone ==
  /\ phase = "closing" /\ (waits => Clients = {})
  /\ phase' = "ending"
  /\ UNCHANGED <<waits, stopping, conn, ops, taskVars>>

\* Slip: _cleanup itself waits for the connections, on every Python.
WaitClosedForClients ==
  /\ phase = "closing" /\ Clients = {}
  /\ phase' = "ending"
  /\ asked' = asked \cup Registered
  /\ UNCHANGED <<waits, stopping, conn, ops, task, id, table, first, later>>

\* wait_closed returns and every task in the table is cancelled.
WaitClosed ==
  /\ phase = "closing" /\ (waits => Clients = {})
  /\ phase' = "ending"
  /\ asked' = asked \cup Registered
  /\ UNCHANGED <<waits, stopping, conn, ops, task, id, table, first, later>>

\* All of them have ended, or two seconds have passed; the cancel ops are
\* cancelled too.
TasksEnded ==
  /\ phase = "ending" /\ asked = {}
  /\ phase' = "pool"
  /\ ops' = {}
  /\ UNCHANGED <<waits, stopping, conn, taskVars>>

\* close_all returned, raised or took five seconds, lock and socket are
\* unlinked; asyncio.run cancels all that is left.
PoolClosed ==
  /\ phase = "pool"
  /\ phase' = "leaving"
  /\ conn' = [c \in Conns |-> "ended"]
  /\ ops' = {}
  /\ asked' = asked \cup {t \in Tasks : task[t] \in Live}
  /\ UNCHANGED <<waits, stopping, task, id, table, first, later>>

\* asyncio.run has seen every task end.
Exit ==
  /\ phase = "leaving" /\ \A t \in Tasks : task[t] \notin Live
  /\ phase' = "exited"
  /\ UNCHANGED <<waits, stopping, conn, ops, taskVars>>

----------------------------------------------------------------------------
TaskStep(t) ==
  \/ task[t] = "running" /\ \E frame \in {"result", "error"} : Finish(t, frame)
  \/ Begin(t) \/ NeverBegins(t) \/ Sent(t) \/ Interrupted(t) \/ Struck(t)

\* A hung teardown may still end, but nothing makes it.
LateFinish(t) == task[t] = "lingering" /\ Finish(t, "error")

OpStep(c, t) == OpDone(c, t) \/ OpKills(c, t)
ExitStep == StopServing \/ WaitClosed \/ TasksEnded \/ PoolClosed \/ Exit

Next ==
  \/ \E c \in Conns : Connect(c) \/ Accept(c) \/ Disconnect(c) \/ ShutdownOp(c)
  \/ \E c \in Conns, i \in Ids : CancelOp(c, i) \/ \E t \in Tasks : Fetch(c, i, t)
  \/ \E t \in Tasks : TaskStep(t) \/ LateFinish(t)
  \/ \E c \in Conns, t \in Tasks : OpStep(c, t)
  \/ Signal \/ ExitStep

Spec == Init /\ [][Next]_vars

\* Ready tasks run, a fetch has a timeout, and so have the waits of a cancel
\* op and of _cleanup; wait_closed and asyncio.run only see what has ended.
FairSpec ==
  /\ Spec
  /\ \A t \in Tasks : WF_vars(TaskStep(t))
  /\ \A c \in Conns, t \in Tasks : WF_vars(OpStep(c, t))
  /\ WF_vars(stopping /\ StopServing)
  /\ WF_vars(WaitClosed \/ TasksEnded \/ PoolClosed \/ Exit)

----------------------------------------------------------------------------
(* Every variable has its type.                                            *)
TypeOK ==
  /\ waits \in BOOLEAN /\ stopping \in BOOLEAN /\ phase \in Phases
  /\ conn \in [Conns -> {"none", "queued", "open", "ended"}]
  /\ task \in [Tasks -> Live \cup {"new", "gone", "cancelled"}]
  /\ id \in [Tasks -> Ids \cup {NoId}]
  /\ asked \subseteq Tasks
  /\ table \in [Ids -> Tasks \cup {NoTask}]
  /\ ops \subseteq Conns \X Tasks
  /\ first \in [Tasks -> Frames \cup {"none"}]
  /\ later \in [Tasks -> SUBSET Frames]

(* Every task that has not ended is in the table under its own id,         *)
(* whatever ids the connections use and however tasks end, so that it can  *)
(* be cancelled; and until _cleanup cancels them all no ended one is left  *)
(* there to block its id.                                                  *)
TableExact ==
  \A t \in Tasks :
    LET listed == id[t] \in Ids /\ table[id[t]] = t
    IN /\ task[t] \in Live => listed
       /\ listed /\ phase \in {"serving", "closing"} => task[t] \in Live

(* The first final frame settles a request (the front end ignores what     *)
(* follows): after it nothing but E_CANCELLED is ever sent, although a     *)
(* cancel op may strike a task that is sending, or ask twice.              *)
FirstFrameDecides == \A t \in Tasks : later[t] \subseteq {"cancelled"}

(* worker.py:262-263 and pool.py:207: close_all runs when no fetch is in   *)
(* flight.  It does where wait_closed waits for the connections, apart     *)
(* from the tasks that would not end; elsewhere a connection that is still *)
(* open may start one more.                                                *)
PoolClosedAlone ==
  waits /\ phase = "pool" => \A t \in Tasks : task[t] \notin {"made", "running"}

(* A cancel op whose connection stays ends: its task ends, or the daemon   *)
(* is killed with the browser that hangs.                                  *)
CancelEnds ==
  \A c \in Conns, t \in Tasks : <<c, t>> \in ops ~> <<c, t>> \notin ops

(* A fetch that has begun gets a final frame although its front end may be *)
(* gone, it is cancelled or the daemon stops, unless its browser hangs or  *)
(* killpg strikes.                                                         *)
EveryFetchAnswered ==
  \A t \in Tasks : task[t] = "running" ~>
    (first[t] # "none" \/ task[t] = "lingering" \/ phase = "killed")

(* worker.py:84, the daemon must be able to exit: where wait_closed does   *)
(* not wait for idle front ends it does, unless a task will not end, for   *)
(* which asyncio.run waits without a limit.                                *)
ExitsUnlessHung ==
  ~waits /\ phase # "serving" ~>
    (phase \in {"exited", "killed"} \/ \E t \in Tasks : task[t] = "lingering")
=============================================================================
