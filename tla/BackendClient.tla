--------------------------- MODULE BackendClient ---------------------------
(***************************************************************************)
(* The front end's side of the socket, _client.py: concurrent tool calls   *)
(* share one connection and are told apart by request ids; a call that     *)
(* loses the connection reconnects and tries again under a fresh id, at    *)
(* most MaxRetries times, all within one deadline.  The daemon is abstract *)
(* here: it fetches, answers or refuses, may die, and does not notice that *)
(* a request's connection is gone.                                         *)
(***************************************************************************)
EXTENDS Naturals, Sequences, FiniteSets

CONSTANTS
  Calls,       \* tool calls of one front end
  NoCall,      \* nobody holds the connect lock
  MaxRetries,  \* _MAX_RETRIES
  MaxFaults    \* the bound on lost connections and failed launches

ASSUME NoCallAssumption == NoCall \notin Calls
ASSUME BoundsAssumption == MaxRetries \in Nat /\ MaxFaults \in Nat

VARIABLES
  pc,       \* where each call is
  rid,      \* its current request id, active.req_id
  attempt,  \* how many attempts it has lost
  via,      \* the connection its current attempt writes to
  future,   \* the future of its current attempt
  outcome,  \* how it ended
  lastId,   \* _id_counter
  lock,     \* who holds _connect_lock
  opened,   \* how many connections have been opened; they are numbered
  conn,     \* the current one, 0 for none
  reading,  \* whether its reader task runs
  up,       \* connections the daemon still serves
  wire,     \* frames on their way to the reader of conn
  jobs,     \* the daemon's tasks, with the call and connection they are for
  fetched,  \* calls a daemon has fetched a page for
  refused,  \* requests the daemon has refused as duplicates
  faults    \* how many faults there were

callVars == <<pc, rid, attempt, via, future, outcome, lastId>>
connVars == <<lock, opened, conn, reading, up, wire>>
daemonVars == <<jobs, fetched, refused>>
vars == <<callVars, connVars, daemonVars, faults>>

Busy == {"connecting", "opening", "sending", "waiting", "failed"}
Kinds == {"page", "error"}

Init ==
  /\ pc = [k \in Calls |-> "idle"]
  /\ rid = [k \in Calls |-> 0]
  /\ attempt = [k \in Calls |-> 0]
  /\ via = [k \in Calls |-> 0]
  /\ future = [k \in Calls |-> "none"]
  /\ outcome = [k \in Calls |-> "none"]
  /\ lastId = 0
  /\ lock = NoCall /\ opened = 0 /\ conn = 0 /\ reading = FALSE /\ up = {}
  /\ wire = <<>>
  /\ jobs = {} /\ fetched = {} /\ refused = {}
  /\ faults = 0

----------------------------------------------------------------------------
Alive == conn # 0 /\ reading

\* _fail_pending: every future still open fails.
FailPending(f) ==
  [k \in Calls |-> IF f[k] = "pending" THEN "lost" ELSE f[k]]

\* Slip: the requests in flight are not told.
DropLeavesPending ==
  /\ conn' = 0 /\ reading' = FALSE /\ wire' = <<>>
  /\ up' = up \ {conn}
  /\ UNCHANGED future

\* _drop_connection: reader and writer are given up, what was on its way is
\* lost, and every request in flight fails.
Drop ==
  /\ conn' = 0 /\ reading' = FALSE /\ wire' = <<>>
  /\ up' = up \ {conn}
  /\ future' = FailPending(future)

\* An attempt of k starts on connection n: its id goes into _pending.
Register(k, n) ==
  /\ pc' = [pc EXCEPT ![k] = "sending"]
  /\ via' = [via EXCEPT ![k] = n]
  /\ future' = [future EXCEPT ![k] = "pending"]

Finished(k, how) ==
  /\ pc' = [pc EXCEPT ![k] = "done"]
  /\ outcome' = [outcome EXCEPT ![k] = how]
  /\ future' = [future EXCEPT ![k] = "none"]

\* A cancel frame for k's current id reaches the daemon, or nothing does:
\* it is sent on the current connection, for two seconds at most.
TellDaemon(k) ==
  \/ /\ Alive /\ conn \in up
     /\ jobs' = {j \in jobs : j.id # rid[k]}
     /\ wire' = IF jobs' = jobs \/ \A j \in jobs \ jobs' : j.via # conn THEN wire
                ELSE Append(wire, [id |-> rid[k], call |-> k, kind |-> "error"])
  \/ UNCHANGED <<jobs, wire>>

----------------------------------------------------------------------------
\* A tool call starts: id and deadline are fixed.
Call(k) ==
  /\ pc[k] = "idle"
  /\ lastId' = lastId + 1
  /\ rid' = [rid EXCEPT ![k] = lastId']
  /\ pc' = [pc EXCEPT ![k] = "connecting"]
  /\ UNCHANGED <<attempt, via, future, outcome, connVars, daemonVars,
                 faults>>

\* _ensure_connected finds a live connection.
Reuse(k) ==
  /\ pc[k] = "connecting" /\ Alive
  /\ Register(k, conn)
  /\ UNCHANGED <<rid, attempt, outcome, lastId, connVars, daemonVars,
                 faults>>

\* It finds none, takes the lock, finds none again and clears the remains.
Reconnect(k) ==
  /\ pc[k] = "connecting" /\ ~Alive /\ lock = NoCall
  /\ lock' = k
  /\ pc' = [pc EXCEPT ![k] = "opening"]
  /\ Drop
  /\ UNCHANGED <<rid, attempt, via, outcome, lastId, opened, daemonVars,
                 faults>>

\* ensure_daemon, the token and the socket: a new connection.
Opened(k) ==
  /\ pc[k] = "opening"
  /\ lock' = NoCall
  /\ opened' = opened + 1
  /\ conn' = opened' /\ reading' = TRUE /\ wire' = <<>>
  /\ up' = up \cup {opened'}
  /\ Register(k, opened')
  /\ UNCHANGED <<rid, attempt, outcome, lastId, daemonVars, faults>>

\* One of the three fails.
OpenFails(k) ==
  /\ pc[k] = "opening" /\ faults < MaxFaults
  /\ faults' = faults + 1
  /\ lock' = NoCall
  /\ pc' = [pc EXCEPT ![k] = "failed"]
  /\ via' = [via EXCEPT ![k] = 0]
  /\ UNCHANGED <<rid, attempt, future, outcome, lastId, opened, conn,
                 reading, up, wire, daemonVars>>

\* _send_frame gets the send lock and drains the frame; the daemon makes a
\* task of it, or refuses an id it still has a task for.
Written(k) ==
  /\ pc[k] = "sending" /\ via[k] \in up
  /\ pc' = [pc EXCEPT ![k] = "waiting"]
  /\ IF \E j \in jobs : j.id = rid[k]
     THEN refused' = refused \cup {rid[k]} /\ UNCHANGED jobs
     ELSE /\ jobs' = jobs \cup {[id |-> rid[k], call |-> k, via |-> via[k]]}
          /\ UNCHANGED refused
  /\ UNCHANGED <<rid, attempt, via, future, outcome, lastId, connVars,
                 fetched, faults>>

\* The connection it was to be written to is gone.
WriteFails(k) ==
  /\ pc[k] = "sending" /\ via[k] \notin up
  /\ pc' = [pc EXCEPT ![k] = "failed"]
  /\ future' = [future EXCEPT ![k] = "none"]
  /\ UNCHANGED <<rid, attempt, via, outcome, lastId, connVars, daemonVars,
                 faults>>

----------------------------------------------------------------------------
\* The daemon ends a task and sends its frame, if the connection is there.
Answer(j, kind) ==
  /\ j \in jobs
  /\ jobs' = jobs \ {j}
  /\ fetched' = IF kind = "page" THEN fetched \cup {j.call} ELSE fetched
  /\ wire' = IF j.via = conn /\ conn \in up
             THEN Append(wire, [id |-> j.id, call |-> j.call, kind |-> kind])
             ELSE wire
  /\ UNCHANGED <<callVars, lock, opened, conn, reading, up, refused, faults>>

\* Slip: a frame settles whatever request is pending.
DispatchAny ==
  /\ Alive /\ wire # <<>>
  /\ wire' = Tail(wire)
  /\ future' = [k \in Calls |->
       IF future[k] = "pending" THEN Head(wire).kind ELSE future[k]]
  /\ UNCHANGED <<pc, rid, attempt, via, outcome, lastId, lock, opened, conn,
                 reading, up, daemonVars, faults>>

\* The reader takes a frame; the pending request with its id is settled, and
\* a frame that finds none is ignored.
Dispatch ==
  /\ Alive /\ wire # <<>>
  /\ wire' = Tail(wire)
  /\ future' = [k \in Calls |->
       IF future[k] = "pending" /\ rid[k] = Head(wire).id THEN Head(wire).kind
       ELSE future[k]]
  /\ UNCHANGED <<pc, rid, attempt, via, outcome, lastId, lock, opened, conn,
                 reading, up, daemonVars, faults>>

\* The reader sees the end of the connection, perhaps before the last frames.
ReaderEnds ==
  /\ Alive /\ conn \notin up
  /\ reading' = FALSE
  /\ wire' = <<>>
  /\ future' = FailPending(future)
  /\ UNCHANGED <<pc, rid, attempt, via, outcome, lastId, lock, opened, conn,
                 up, daemonVars, faults>>

\* The frame that settled k is returned or raised.
Return(k) ==
  /\ pc[k] = "waiting" /\ future[k] \in Kinds
  /\ Finished(k, future[k])
  /\ UNCHANGED <<rid, attempt, via, lastId, connVars, daemonVars, faults>>

\* k learns that its connection is lost.
Lose(k) ==
  /\ pc[k] = "waiting" /\ future[k] = "lost"
  /\ pc' = [pc EXCEPT ![k] = "failed"]
  /\ future' = [future EXCEPT ![k] = "none"]
  /\ UNCHANGED <<rid, attempt, via, outcome, lastId, connVars, daemonVars,
                 faults>>

\* The deadline fixed at the start has passed, perhaps before this attempt: a
\* cancel frame, and an error.
Timeout(k) ==
  /\ pc[k] = "waiting" /\ future[k] = "pending"
  /\ Finished(k, "timeout")
  /\ TellDaemon(k)
  /\ UNCHANGED <<rid, attempt, via, lastId, lock, opened, conn, reading, up,
                 fetched, refused, faults>>

\* The handler of a lost attempt drops whatever connection there is now; the
\* next attempt goes under newId, or there is none after the limit.
NextAttempt(k, newId) ==
  /\ pc[k] = "failed" /\ Drop
  /\ attempt' = [attempt EXCEPT ![k] = @ + 1]
  /\ rid' = [rid EXCEPT ![k] = newId]
  /\ lastId' = IF newId > lastId THEN newId ELSE lastId
  /\ IF attempt[k] < MaxRetries
     THEN pc' = [pc EXCEPT ![k] = "connecting"] /\ UNCHANGED outcome
     ELSE /\ pc' = [pc EXCEPT ![k] = "done"]
          /\ outcome' = [outcome EXCEPT ![k] = "unavailable"]
  /\ UNCHANGED <<via, lock, opened, daemonVars, faults>>

\* Slip: the next attempt goes under the same id.
RetrySameId(k) == NextAttempt(k, rid[k])

\* Every attempt has an id of its own.
Retry(k) == NextAttempt(k, lastId + 1)

\* Slip: the lock stays taken.
AbortKeepsLock(k) ==
  /\ pc[k] \in Busy
  /\ Finished(k, "cancelled")
  /\ TellDaemon(k)
  /\ UNCHANGED <<rid, attempt, via, lastId, lock, opened, conn, reading, up,
                 fetched, refused, faults>>

\* The MCP client cancels the tool call, at whatever await it is.
Abort(k) ==
  /\ pc[k] \in Busy
  /\ Finished(k, "cancelled")
  /\ lock' = IF lock = k THEN NoCall ELSE lock
  /\ TellDaemon(k)
  /\ UNCHANGED <<rid, attempt, via, lastId, opened, conn, reading, up,
                 fetched, refused, faults>>

\* aclose.
Close ==
  /\ lock = NoCall /\ conn # 0 /\ faults < MaxFaults
  /\ faults' = faults + 1
  /\ Drop
  /\ UNCHANGED <<pc, rid, attempt, via, outcome, lastId, lock, opened,
                 daemonVars>>

----------------------------------------------------------------------------
\* The daemon dies, or only the connection breaks and the tasks go on.
ConnectionBreaks ==
  /\ up # {} /\ faults < MaxFaults
  /\ faults' = faults + 1
  /\ up' = {}
  /\ jobs' = {} \/ UNCHANGED jobs
  /\ UNCHANGED <<callVars, lock, opened, conn, reading, wire, fetched, refused>>

CallStep(k) ==
  \/ Reuse(k) \/ Reconnect(k) \/ Opened(k) \/ OpenFails(k)
  \/ Written(k) \/ WriteFails(k) \/ Return(k) \/ Lose(k) \/ Timeout(k) \/ Retry(k)

Next ==
  \/ \E k \in Calls : Call(k) \/ CallStep(k) \/ Abort(k)
  \/ \E j \in jobs, kind \in Kinds : Answer(j, kind)
  \/ Dispatch \/ ReaderEnds \/ Close \/ ConnectionBreaks

Spec == Init /\ [][Next]_vars

\* Ready tasks run, time passes, ensure_daemon ends in its 60 seconds, and
\* the socket takes what is written.  The daemon owes no answer.
FairSpec ==
  /\ Spec
  /\ \A k \in Calls : WF_vars(CallStep(k))
  /\ WF_vars(Dispatch) /\ WF_vars(ReaderEnds)

----------------------------------------------------------------------------
(* Every variable has its type.                                            *)
TypeOK ==
  /\ pc \in [Calls -> Busy \cup {"idle", "done"}]
  /\ rid \in [Calls -> Nat] /\ attempt \in [Calls -> 0..MaxRetries + 1]
  /\ via \in [Calls -> Nat]
  /\ future \in [Calls -> Kinds \cup {"none", "pending", "lost"}]
  /\ outcome \in [Calls -> Kinds \cup {"none", "timeout", "unavailable", "cancelled"}]
  /\ lastId \in Nat /\ opened \in Nat /\ conn \in Nat
  /\ lock \in Calls \cup {NoCall}
  /\ reading \in BOOLEAN
  /\ up \subseteq 1..opened
  /\ wire \in Seq([id : Nat, call : Calls, kind : Kinds])
  /\ jobs \subseteq [id : Nat, call : Calls, via : Nat]
  /\ fetched \subseteq Calls
  /\ refused \subseteq Nat
  /\ faults \in 0..MaxFaults

(* _client.py:218-220: no request ever comes under the id of a task the    *)
(* daemon still has, although tasks of lost attempts go on there.          *)
NoDuplicateId == refused = {}

(* Whoever waits for an answer waits on the current connection, and its    *)
(* reader runs: nobody sits on a dead one until the watchdog.              *)
NoOneWaitsInVain ==
  \A k \in Calls :
    pc[k] = "waiting" /\ future[k] = "pending" => via[k] = conn /\ reading

(* Every call ends, by a frame, the deadline or the last retry, whatever   *)
(* the daemon does; siblings do not keep one another reconnecting.         *)
EveryCallEnds == \A k \in Calls : pc[k] = "connecting" ~> pc[k] = "done"

(* The frames of concurrent, repeated and abandoned attempts are never     *)
(* mistaken for one another.                                               *)
Contract == INSTANCE CallContract
ImplementsContract == Contract!Spec
=============================================================================
