------------------------- MODULE DaemonWorkerProofs -------------------------
(***************************************************************************)
(* For any connections, request ids and tasks: the table of tasks is       *)
(* exact, only E_CANCELLED ever follows the frame that settles a request,  *)
(* and where wait_closed waits for the connections the pool is closed with *)
(* no fetch in flight.                                                     *)
(***************************************************************************)
EXTENDS DaemonWorker, TLAPS

TaskStates == Live \cup {"new", "gone", "cancelled"}
ConnStates == {"none", "queued", "open", "ended"}

\* The type invariant in three parts.
ExitOK == waits \in BOOLEAN /\ stopping \in BOOLEAN /\ phase \in Phases
ConnOK == conn \in [Conns -> ConnStates] /\ ops \subseteq Conns \X Tasks
TaskOK ==
  /\ task \in [Tasks -> TaskStates]
  /\ id \in [Tasks -> Ids \cup {NoId}]
  /\ asked \subseteq Tasks
  /\ table \in [Ids -> Tasks \cup {NoTask}]
FrameOK ==
  first \in [Tasks -> Frames \cup {"none"}] /\ later \in [Tasks -> SUBSET Frames]

\* The table and the tasks agree, seen from either side.
TableInv ==
  /\ \A t \in Tasks : task[t] \in Live => id[t] \in Ids /\ table[id[t]] = t
  /\ \A i \in Ids : table[i] # NoTask => id[table[i]] = i /\ task[table[i]] # "new"

\* While the daemon serves no task has been asked before it began, and the
\* table has no ended one.
BeginInv ==
  phase \in {"serving", "closing"} =>
    /\ \A t \in asked : task[t] \notin {"new", "made"}
    /\ \A i \in Ids : table[i] # NoTask => task[table[i]] \in Live

\* A task that has not come to sending has sent nothing.
FrameInv ==
  \A t \in Tasks : /\ task[t] \in {"new", "made", "running", "lingering"} => first[t] = "none"
                   /\ later[t] \subseteq {"cancelled"}

\* Past wait_closed no connection is open, and every fetch is being cancelled.
ClosedInv ==
  waits /\ phase \in {"ending", "pool", "leaving"} =>
    /\ \A c \in Conns : conn[c] # "open"
    /\ phase = "ending" => \A t \in Tasks : task[t] \in {"made", "running"} => t \in asked
    /\ phase = "pool" => \A t \in Tasks : task[t] \notin {"made", "running"}

----------------------------------------------------------------------------
\* The steps by what they touch.
ConnActions(c) == Connect(c) \/ Accept(c) \/ Disconnect(c) \/ ShutdownOp(c)
TaskActions(t) ==
  \/ \E frame \in {"result", "error"} : Finish(t, frame)
  \/ Begin(t) \/ NeverBegins(t) \/ Sent(t) \/ Interrupted(t) \/ Struck(t)
ExitActions == Signal \/ ExitStep

\* The kinds of step, by who takes them.
LEMMA Steps ==
  ASSUME [Next]_vars
  PROVE  \/ \E c \in Conns : ConnActions(c)
         \/ \E c \in Conns, i \in Ids : CancelOp(c, i) \/ \E t \in Tasks : Fetch(c, i, t)
         \/ \E t \in Tasks : TaskActions(t)
         \/ \E c \in Conns, t \in Tasks : OpDone(c, t) \/ OpKills(c, t)
         \/ ExitActions
         \/ UNCHANGED vars
<1>1. ASSUME NEW t \in Tasks, TaskStep(t) \/ LateFinish(t) PROVE TaskActions(t)
  BY <1>1 DEF TaskStep, LateFinish, TaskActions
<1> QED
  BY <1>1 DEF Next, ConnActions, ExitActions, OpStep

\* The phases only pass from one to another, and waits never changes.
LEMMA ExitKept ==
  ExitOK /\ [Next]_vars => ExitOK' /\ waits' = waits
<1> SUFFICES ASSUME ExitOK, [Next]_vars
             PROVE  waits' = waits /\ stopping' \in {stopping, TRUE} /\ phase' \in Phases
  BY DEF ExitOK
<1> USE DEF ExitOK, Phases, exitVars
<1>1. ASSUME NEW c \in Conns, ConnActions(c)
      PROVE  waits' = waits /\ stopping' \in {stopping, TRUE} /\ phase' = phase
  BY <1>1 DEF ConnActions, Connect, Accept, Disconnect, ShutdownOp
<1>2. ASSUME NEW c \in Conns, NEW i \in Ids,
             CancelOp(c, i) \/ \E t \in Tasks : Fetch(c, i, t)
      PROVE  UNCHANGED exitVars
  BY <1>2 DEF CancelOp, Fetch
<1>3. ASSUME NEW t \in Tasks, TaskActions(t) PROVE UNCHANGED exitVars
  BY <1>3 DEF TaskActions, Begin, NeverBegins, Finish, Sent, Interrupted, Struck
<1>4. ASSUME NEW c \in Conns, NEW t \in Tasks, OpDone(c, t) \/ OpKills(c, t)
      PROVE  waits' = waits /\ stopping' = stopping /\ phase' \in Phases
  BY <1>4 DEF OpDone, OpKills
<1>5. CASE ExitActions
  BY <1>5 DEF ExitActions, ExitStep, Signal, StopServing, WaitClosed, TasksEnded, PoolClosed,
              Exit
<1>6. CASE UNCHANGED vars
  BY <1>6 DEF vars
<1> QED
  BY <1>1, <1>2, <1>3, <1>4, <1>5, <1>6, Steps

\* No step makes a second task for an id that has one in the table, so a task
\* stays there until it ends.
LEMMA TaskKept == TaskOK /\ TableInv /\ [Next]_vars => TaskOK' /\ TableInv'
<1> SUFFICES ASSUME TaskOK, TableInv, [Next]_vars PROVE TaskOK' /\ TableInv'
  OBVIOUS
<1> USE NoTaskAssumption, NoIdAssumption DEF Live, TaskStates
<1>1. ASSUME NEW c \in Conns, ConnActions(c) PROVE TaskOK' /\ TableInv'
  BY <1>1 DEF ConnActions, Connect, Accept, Disconnect, ShutdownOp, taskVars, TaskOK, TableInv
<1>2. ASSUME NEW c \in Conns, NEW i \in Ids, CancelOp(c, i) PROVE TaskOK' /\ TableInv'
  BY <1>2 DEF CancelOp, exitVars, TaskOK, TableInv
<1>3. ASSUME NEW c \in Conns, NEW i \in Ids, NEW t \in Tasks, Fetch(c, i, t)
      PROVE  TaskOK' /\ TableInv'
  <2>1. CASE table[i] = NoTask
    BY <1>3, <2>1 DEF Fetch, exitVars, TaskOK, TableInv
  <2>2. CASE table[i] # NoTask
    BY <1>3, <2>2 DEF Fetch, exitVars, TaskOK, TableInv
  <2> QED
    BY <2>1, <2>2
<1>4. ASSUME NEW t \in Tasks, NEW frame, Finish(t, frame) \/ Begin(t) \/ NeverBegins(t)
      PROVE  TaskOK' /\ TableInv'
  BY <1>4 DEF Finish, Begin, NeverBegins, exitVars, TaskOK, TableInv
<1>5. ASSUME NEW t \in Tasks, Sent(t) \/ Struck(t) PROVE TaskOK' /\ TableInv'
  BY <1>5 DEF Sent, Struck, End, exitVars, TaskOK, TableInv
<1>6. ASSUME NEW t \in Tasks, Interrupted(t) PROVE TaskOK' /\ TableInv'
  BY <1>6 DEF Interrupted, exitVars, TaskOK, TableInv
<1>7. ASSUME NEW c \in Conns, NEW t \in Tasks, OpDone(c, t) PROVE TaskOK' /\ TableInv'
  BY <1>7 DEF OpDone, exitVars, TaskOK, TableInv
<1>8. ASSUME NEW c \in Conns, NEW t \in Tasks, OpKills(c, t) PROVE TaskOK' /\ TableInv'
  BY <1>8 DEF OpKills, TaskOK, TableInv
<1>9. CASE ExitActions
  <2>1. UNCHANGED <<task, id, table>> /\ asked' \subseteq asked \cup Tasks
    BY <1>9 DEF ExitActions, ExitStep, Signal, StopServing, WaitClosed, TasksEnded, PoolClosed,
                Exit, taskVars, Registered
  <2> QED
    BY <2>1 DEF TaskOK, TableInv
<1>10. CASE UNCHANGED vars
  BY <1>10 DEF vars, TaskOK, TableInv
<1> QED
  BY <1>1, <1>2, <1>3, <1>4, <1>5, <1>6, <1>7, <1>8, <1>9, <1>10, Steps DEF TaskActions

\* Connections and cancel ops stay of their types.
LEMMA ConnKept == ConnOK /\ TaskOK /\ [Next]_vars => ConnOK'
<1> SUFFICES ASSUME ConnOK, TaskOK, [Next]_vars PROVE ConnOK'
  OBVIOUS
<1> USE DEF ConnOK, ConnStates
<1>1. ASSUME NEW c \in Conns, ConnActions(c) PROVE ConnOK'
  BY <1>1 DEF ConnActions, Connect, Accept, Disconnect, ShutdownOp, ReadOn, OpsOf
<1>2. ASSUME NEW c \in Conns, NEW i \in Ids, CancelOp(c, i) PROVE ConnOK'
  <2>1. <<c, table[i]>> \in Conns \X Tasks
    BY <1>2 DEF CancelOp, TaskOK
  <2> QED
    BY <1>2, <2>1 DEF CancelOp, ReadOn, OpsOf
<1>3. ASSUME NEW c \in Conns, NEW i \in Ids, NEW t \in Tasks, Fetch(c, i, t) PROVE ConnOK'
  BY <1>3 DEF Fetch, ReadOn, OpsOf
<1>4. ASSUME NEW t \in Tasks, TaskActions(t)
      PROVE  ConnOK'
  BY <1>4 DEF TaskActions, Begin, NeverBegins, Finish, Sent, Interrupted, Struck
<1>5. ASSUME NEW c \in Conns, NEW t \in Tasks, OpDone(c, t) \/ OpKills(c, t) PROVE ConnOK'
  BY <1>5 DEF OpDone, OpKills
<1>6. CASE ExitActions
  BY <1>6 DEF ExitActions, ExitStep, Signal, StopServing, WaitClosed, TasksEnded, PoolClosed,
              Exit
<1>7. CASE UNCHANGED vars
  BY <1>7 DEF vars
<1> QED
  BY <1>1, <1>2, <1>3, <1>4, <1>5, <1>6, <1>7, Steps

\* Only a task that has come to sending has sent a frame, and only cancellations
\* are sent after it.
LEMMA FrameKept ==
  TaskOK /\ FrameOK /\ FrameInv /\ [Next]_vars => FrameOK' /\ FrameInv'
<1> SUFFICES ASSUME TaskOK, FrameOK, FrameInv, [Next]_vars PROVE FrameOK' /\ FrameInv'
  OBVIOUS
<1> USE DEF FrameOK, FrameInv, TaskOK, Frames
<1>1. ASSUME NEW c \in Conns, ConnActions(c) PROVE FrameOK' /\ FrameInv'
  BY <1>1 DEF ConnActions, Connect, Accept, Disconnect, ShutdownOp, taskVars
<1>2. ASSUME NEW c \in Conns, NEW i \in Ids,
             CancelOp(c, i) \/ \E t \in Tasks : Fetch(c, i, t)
      PROVE  FrameOK' /\ FrameInv'
  BY <1>2 DEF CancelOp, Fetch
<1>3. ASSUME NEW t \in Tasks, NEW frame \in {"result", "error"}, Finish(t, frame)
      PROVE  FrameOK' /\ FrameInv'
  BY <1>3 DEF Finish, Send
<1>4. ASSUME NEW t \in Tasks, Begin(t) \/ NeverBegins(t) \/ Sent(t) \/ Struck(t)
      PROVE  FrameOK' /\ FrameInv'
  BY <1>4 DEF Begin, NeverBegins, Sent, Struck, End
<1>5. ASSUME NEW t \in Tasks, Interrupted(t) PROVE FrameOK' /\ FrameInv'
  BY <1>5 DEF Interrupted, Send
<1>6. ASSUME NEW c \in Conns, NEW t \in Tasks, OpDone(c, t) PROVE FrameOK' /\ FrameInv'
  BY <1>6 DEF OpDone, Send
<1>7. ASSUME NEW c \in Conns, NEW t \in Tasks, OpKills(c, t) PROVE FrameOK' /\ FrameInv'
  BY <1>7 DEF OpKills
<1>8. CASE ExitActions
  BY <1>8 DEF ExitActions, ExitStep, Signal, StopServing, WaitClosed, TasksEnded, PoolClosed,
              Exit, taskVars
<1>9. CASE UNCHANGED vars
  BY <1>9 DEF vars
<1> QED
  BY <1>1, <1>2, <1>3, <1>4, <1>5, <1>6, <1>7, <1>8, <1>9, Steps DEF TaskActions

\* Once wait_closed has returned no connection opens and no task is made.
LEMMA ClosedKept ==
  ExitOK /\ ConnOK /\ TaskOK /\ TableInv /\ ClosedInv /\ [Next]_vars => ClosedInv'
<1> SUFFICES ASSUME ExitOK, ConnOK, TaskOK, TableInv, ClosedInv, [Next]_vars
             PROVE  ClosedInv'
  OBVIOUS
<1> SUFFICES ASSUME waits, phase' \in {"ending", "pool", "leaving"}
             PROVE  /\ \A c \in Conns : conn'[c] # "open"
                    /\ phase' = "ending" =>
                         \A t \in Tasks : task'[t] \in {"made", "running"} => t \in asked'
                    /\ phase' = "pool" =>
                         \A t \in Tasks : task'[t] \notin {"made", "running"}
  BY ExitKept DEF ClosedInv
<1> USE DEF ConnOK, TaskOK, Live
<1>1. ASSUME NEW c \in Conns, ConnActions(c)
      PROVE  /\ phase' = phase /\ UNCHANGED <<task, asked>>
             /\ \A d \in Conns : conn'[d] # "open"
  BY <1>1 DEF ConnActions, Connect, Accept, Disconnect, ShutdownOp, ReadOn, exitVars, taskVars,
              ClosedInv
<1>2. ASSUME NEW c \in Conns, NEW i \in Ids,
             CancelOp(c, i) \/ \E t \in Tasks : Fetch(c, i, t)
      PROVE  FALSE
  BY <1>2 DEF CancelOp, Fetch, exitVars, ClosedInv
<1>3. ASSUME NEW t \in Tasks, TaskActions(t)
      PROVE  /\ phase' = phase /\ UNCHANGED conn
             /\ \A u \in Tasks : task'[u] \in {"made", "running"}
                                 => task[u] \in {"made", "running"}
             /\ \A u \in Tasks : u \in asked =>
                                  u \in asked' \/ task'[u] \notin {"made", "running"}
  BY <1>3 DEF TaskActions, Begin, NeverBegins, Finish, Sent, Interrupted, Struck, End, exitVars
<1>4. ASSUME NEW c \in Conns, NEW t \in Tasks, OpDone(c, t)
      PROVE  phase' = phase /\ UNCHANGED <<conn, task, asked>>
  BY <1>4 DEF OpDone, exitVars
<1>5. ASSUME NEW c \in Conns, NEW t \in Tasks, OpKills(c, t) PROVE FALSE
  BY <1>5 DEF OpKills
<1>6. CASE WaitClosed
  <2>1. \A c \in Conns : conn'[c] # "open"
    BY <1>6 DEF WaitClosed, Clients
  <2>2. \A t \in Tasks : task[t] \in {"made", "running"} => t \in Registered
    BY DEF TableInv, Registered
  <2> QED
    BY <1>6, <2>1, <2>2 DEF WaitClosed
<1>7. CASE TasksEnded \/ PoolClosed
  BY <1>7 DEF TasksEnded, PoolClosed, taskVars, ClosedInv
<1>8. CASE Signal \/ StopServing \/ Exit
  BY <1>8 DEF Signal, StopServing, Exit
<1>9. CASE UNCHANGED vars
  BY <1>9 DEF vars, ClosedInv
<1> QED
  BY <1>1, <1>2, <1>3, <1>4, <1>5, <1>6, <1>7, <1>8, <1>9, Steps
     DEF ClosedInv, ExitActions, ExitStep

\* While the daemon serves only tasks that have begun are asked to end.
LEMMA BeginKept == TaskOK /\ TableInv /\ BeginInv /\ [Next]_vars => BeginInv'
<1> SUFFICES ASSUME TaskOK, TableInv, BeginInv, [Next]_vars, phase' \in {"serving", "closing"}
             PROVE  /\ \A t \in asked' : task'[t] \notin {"new", "made"}
                    /\ \A i \in Ids : table'[i] # NoTask => task'[table'[i]] \in Live
  BY DEF BeginInv
<1> USE NoTaskAssumption DEF TaskOK, TableInv, BeginInv, Live
<1>1. ASSUME NEW c \in Conns, ConnActions(c) PROVE UNCHANGED <<phase, task, asked, table>>
  BY <1>1 DEF ConnActions, Connect, Accept, Disconnect, ShutdownOp, exitVars, taskVars
<1>2. ASSUME NEW c \in Conns, NEW i \in Ids, CancelOp(c, i)
      PROVE  UNCHANGED <<phase, task, table>> /\ \A t \in asked' : task[t] \notin {"new", "made"}
  BY <1>2 DEF CancelOp, exitVars
<1>3. ASSUME NEW c \in Conns, NEW i \in Ids, NEW t \in Tasks, Fetch(c, i, t)
      PROVE  /\ \A u \in asked' : task'[u] \notin {"new", "made"}
             /\ \A j \in Ids : table'[j] # NoTask => task'[table'[j]] \in Live
  BY <1>3 DEF Fetch, exitVars
<1>4. ASSUME NEW t \in Tasks, TaskActions(t)
      PROVE  /\ \A u \in asked' : task'[u] \notin {"new", "made"}
             /\ \A j \in Ids : table'[j] # NoTask => task'[table'[j]] \in Live
  <2>1. CASE \E frame \in {"result", "error"} : Finish(t, frame)
    BY <2>1 DEF Finish, exitVars
  <2>2. CASE Begin(t) \/ NeverBegins(t) \/ Interrupted(t)
    BY <2>2 DEF Begin, NeverBegins, Interrupted, exitVars
  <2>3. CASE Sent(t) \/ Struck(t)
    BY <2>3 DEF Sent, Struck, End, exitVars
  <2> QED
    BY <1>4, <2>1, <2>2, <2>3 DEF TaskActions
<1>5. ASSUME NEW c \in Conns, NEW t \in Tasks, OpDone(c, t) \/ OpKills(c, t)
      PROVE  UNCHANGED <<phase, task, asked, table>>
  BY <1>5 DEF OpDone, OpKills, exitVars
<1>6. CASE ExitActions
  BY <1>6 DEF ExitActions, ExitStep, Signal, StopServing, WaitClosed, TasksEnded, PoolClosed,
              Exit, taskVars
<1>7. CASE UNCHANGED vars
  BY <1>7 DEF vars
<1> QED
  BY <1>1, <1>2, <1>3, <1>4, <1>5, <1>6, <1>7, Steps

----------------------------------------------------------------------------
WorkerInv ==
  ExitOK /\ ConnOK /\ TaskOK /\ FrameOK /\ TableInv /\ BeginInv /\ FrameInv /\ ClosedInv

\* The invariant holds of every behaviour.
LEMMA WorkerInvariance == Spec => []WorkerInv
<1>1. Init => ExitOK /\ ClosedInv
  BY DEF Init, ExitOK, Phases, ClosedInv
<1>2. Init => ConnOK
  BY DEF Init, ConnOK, ConnStates
<1>3. Init => TaskOK /\ TableInv /\ BeginInv
  BY DEF Init, TaskOK, TableInv, BeginInv, TaskStates, Live
<1>4. Init => FrameOK /\ FrameInv
  BY DEF Init, FrameOK, FrameInv
<1> QED
  BY <1>1, <1>2, <1>3, <1>4, ExitKept, ConnKept, TaskKept, BeginKept, FrameKept, ClosedKept,
     PTL
     DEF Spec, WorkerInv

(* Every variable keeps its type: only tasks are ever asked to cancel      *)
(* themselves, and only they have ops waiting for them.                    *)
THEOREM WorkerTypeCorrect == Spec => []TypeOK
<1>1. WorkerInv => TypeOK
  BY DEF WorkerInv, TypeOK, ExitOK, ConnOK, TaskOK, FrameOK, TaskStates, ConnStates
<1> QED
  BY <1>1, WorkerInvariance, PTL

(* Every task that has not ended is in the table under its id, and until   *)
(* the daemon's end nothing else is.                                       *)
THEOREM TableCorrect == Spec => []TableExact
<1>1. WorkerInv => TableExact
  BY NoTaskAssumption DEF WorkerInv, TaskOK, TableInv, BeginInv, TableExact
<1> QED
  BY <1>1, WorkerInvariance, PTL

(* After the frame that settles a request nothing but E_CANCELLED is sent. *)
THEOREM FirstFrameSettles == Spec => []FirstFrameDecides
<1>1. WorkerInv => FirstFrameDecides
  BY DEF WorkerInv, FrameInv, FirstFrameDecides
<1> QED
  BY <1>1, WorkerInvariance, PTL

(* Where wait_closed waits for the connections, close_all meets no fetch   *)
(* in flight that has not been told to end.                                *)
THEOREM PoolClosesAlone == Spec => []PoolClosedAlone
<1>1. WorkerInv => PoolClosedAlone
  BY DEF WorkerInv, ClosedInv, PoolClosedAlone
<1> QED
  BY <1>1, WorkerInvariance, PTL
=============================================================================
