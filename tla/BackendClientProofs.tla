------------------------ MODULE BackendClientProofs ------------------------
(***************************************************************************)
(* For any number of calls, retries and faults: no two attempts meet under *)
(* one id in a daemon, whoever waits has a reader, and the client keeps    *)
(* its contract with the tool calls.                                       *)
(***************************************************************************)
EXTENDS BackendClient, SequenceTheorems, TLAPS

PCs == Busy \cup {"idle", "done"}
Frame == [id : Nat, call : Calls, kind : Kinds]
Job == [id : Nat, call : Calls, via : Nat]

\* The type invariant in four parts.
CallOK ==
  /\ pc \in [Calls -> PCs]
  /\ rid \in [Calls -> Nat] /\ via \in [Calls -> Nat]
  /\ future \in [Calls -> Kinds \cup {"none", "pending", "lost"}]
  /\ outcome \in [Calls -> Kinds \cup {"none", "timeout", "unavailable", "cancelled"}]
  /\ lastId \in Nat
ConnOK ==
  /\ opened \in Nat /\ conn \in Nat
  /\ lock \in Calls \cup {NoCall}
  /\ up \subseteq 1..opened
ReadingOK == reading \in BOOLEAN
DaemonOK ==
  /\ wire \in Seq(Frame) /\ jobs \subseteq Job
  /\ fetched \subseteq Calls /\ refused \subseteq Nat

\* A cancel sends nothing but the error frame of its own call.
LEMMA TellDaemonTypes ==
  ASSUME CallOK, DaemonOK, NEW k \in Calls, TellDaemon(k)
  PROVE  /\ jobs' \subseteq jobs
         /\ \/ wire' = wire
            \/ wire' = Append(wire, [id |-> rid[k], call |-> k, kind |-> "error"])
BY DEF TellDaemon

\* Failing the pending futures leaves none pending and the settled as they are.
LEMMA FailPendingTypes ==
  ASSUME CallOK
  PROVE  /\ FailPending(future) \in [Calls -> Kinds \cup {"none", "pending", "lost"}]
         /\ \A k \in Calls : FailPending(future)[k] \in {future[k], "lost"} \ {"pending"}
BY DEF CallOK, FailPending

\* What is read off the wire is a frame, and leaves frames.
LEMMA HeadIsFrame == DaemonOK /\ wire # <<>> => Head(wire) \in Frame /\ Tail(wire) \in Seq(Frame)
<1> SUFFICES ASSUME DaemonOK, wire # <<>>
             PROVE  Head(wire) \in Frame /\ Tail(wire) \in Seq(Frame)
  OBVIOUS
<1>1. wire \in Seq(Frame)
  BY DEF DaemonOK
<1> QED
  BY <1>1, HeadTailProperties

\* What a call keeps for itself stays of its type, whatever step is taken.
LEMMA CallKept == CallOK /\ ConnOK /\ DaemonOK /\ [Next]_vars => CallOK'
<1> SUFFICES ASSUME CallOK, ConnOK, DaemonOK, [Next]_vars PROVE CallOK'
  OBVIOUS
<1> USE DEF CallOK, PCs, Busy, Kinds
<1>1. ASSUME NEW k \in Calls, Call(k) PROVE CallOK'
  BY <1>1 DEF Call
<1>2. ASSUME NEW k \in Calls, Reuse(k) \/ Opened(k) PROVE CallOK'
  <2>1. PICK n \in Nat : Register(k, n) /\ UNCHANGED <<rid, outcome, lastId>>
    BY <1>2 DEF Reuse, Opened, ConnOK
  <2> QED
    BY <2>1 DEF Register
<1>3. ASSUME NEW k \in Calls, Reconnect(k) \/ OpenFails(k) PROVE CallOK'
  <2>1. PICK l \in {"opening", "failed"} : pc' = [pc EXCEPT ![k] = l]
    BY <1>3 DEF Reconnect, OpenFails
  <2>2. /\ via' = via \/ via' = [via EXCEPT ![k] = 0]
        /\ future' = future \/ future' = FailPending(future)
        /\ UNCHANGED <<rid, outcome, lastId>>
    BY <1>3 DEF Reconnect, OpenFails, Drop
  <2> QED
    BY <2>1, <2>2, FailPendingTypes
<1>4. ASSUME NEW k \in Calls, Written(k) \/ WriteFails(k) \/ Lose(k) PROVE CallOK'
  BY <1>4 DEF Written, WriteFails, Lose
<1>5. ASSUME NEW k \in Calls, Return(k) \/ Timeout(k) \/ Abort(k) PROVE CallOK'
  BY <1>5 DEF Return, Timeout, Abort, Finished
<1>6. ASSUME NEW k \in Calls, Retry(k) PROVE CallOK'
  <2>1. PICK l \in {"connecting", "done"} : pc' = [pc EXCEPT ![k] = l]
    BY <1>6 DEF Retry, NextAttempt
  <2>2. /\ outcome' = outcome \/ outcome' = [outcome EXCEPT ![k] = "unavailable"]
        /\ rid' = [rid EXCEPT ![k] = lastId + 1] /\ lastId' = lastId + 1
        /\ future' = FailPending(future) /\ UNCHANGED via
    BY <1>6 DEF Retry, NextAttempt, Drop
  <2> QED
    BY <2>1, <2>2, FailPendingTypes
<1>7. ASSUME NEW j \in jobs, NEW kind \in Kinds, Answer(j, kind) PROVE CallOK'
  BY <1>7 DEF Answer, callVars
<1>8. CASE Dispatch
  <2>1. Head(wire).kind \in Kinds
    BY <1>8, HeadIsFrame DEF Dispatch, Frame
  <2> QED
    BY <1>8, <2>1 DEF Dispatch
<1>9. CASE ReaderEnds \/ Close \/ ConnectionBreaks
  <2>1. /\ future' = future \/ future' = FailPending(future)
        /\ UNCHANGED <<pc, rid, via, outcome, lastId>>
    BY <1>9 DEF ReaderEnds, Close, ConnectionBreaks, Drop, callVars
  <2> QED
    BY <2>1, FailPendingTypes
<1>10. CASE UNCHANGED vars
  BY <1>10 DEF vars, callVars
<1> QED
  BY <1>1, <1>2, <1>3, <1>4, <1>5, <1>6, <1>7, <1>8, <1>9, <1>10 DEF Next, CallStep

\* The reader runs or does not.
LEMMA ReadingKept == ReadingOK /\ [Next]_vars => ReadingOK'
<1>1. [Next]_vars => reading' = reading \/ reading' = TRUE \/ reading' = FALSE
  BY DEF Next, CallStep, vars, Call, Reuse, Reconnect, Opened, OpenFails, Written, WriteFails,
         Return, Lose, Timeout, Retry, NextAttempt, Abort, Answer, Dispatch, ReaderEnds, Close,
         ConnectionBreaks, Drop, connVars
<1> QED
  BY <1>1 DEF ReadingOK

\* The connection, its lock and the daemons stay of their types.
LEMMA ConnKept == ConnOK /\ [Next]_vars => ConnOK'
<1> SUFFICES ASSUME ConnOK, [Next]_vars PROVE ConnOK'
  OBVIOUS
<1>1. ASSUME NEW k \in Calls, Opened(k) PROVE ConnOK'
  BY <1>1 DEF Opened, ConnOK
<1>2. ASSUME NEW k \in Calls, CallStep(k) \/ Call(k) \/ Abort(k), ~Opened(k)
      PROVE  /\ opened' = opened /\ conn' \in {conn, 0}
             /\ lock' \in {lock, k, NoCall} /\ up' \subseteq up
  BY <1>2 DEF CallStep, Call, Reuse, Reconnect, OpenFails, Written, WriteFails, Return, Lose,
              Timeout, Retry, NextAttempt, Abort, Drop, connVars
<1>3. ASSUME NEW j \in jobs, NEW kind \in Kinds, Answer(j, kind)
      PROVE  UNCHANGED <<opened, conn, lock, up>>
  BY <1>3 DEF Answer
<1>4. Dispatch \/ ReaderEnds \/ Close \/ ConnectionBreaks
        => opened' = opened /\ conn' \in {conn, 0} /\ lock' = lock /\ up' \subseteq up
  BY DEF Dispatch, ReaderEnds, Close, ConnectionBreaks, Drop
<1>5. CASE UNCHANGED vars
  BY <1>5 DEF vars, connVars, ConnOK
<1>a. ASSUME opened' = opened, conn' \in {conn, 0}, lock' \in Calls \cup {NoCall}, up' \subseteq up
      PROVE  ConnOK'
  <2>1. up' \subseteq 1..opened
    BY <1>a DEF ConnOK
  <2> QED
    BY <1>a, <2>1 DEF ConnOK
<1>6. ASSUME NEW k \in Calls, Call(k) \/ CallStep(k) \/ Abort(k) PROVE ConnOK'
  <2>1. CASE Opened(k)
    BY <1>1, <2>1
  <2>2. CASE ~Opened(k)
    <3>1. lock' \in Calls \cup {NoCall}
      BY <1>2, <1>6, <2>2 DEF ConnOK
    <3> QED
      BY <1>2, <1>6, <1>a, <2>2, <3>1
  <2> QED
    BY <2>1, <2>2
<1>7. ASSUME Dispatch \/ ReaderEnds \/ Close \/ ConnectionBreaks PROVE ConnOK'
  BY <1>4, <1>7, <1>a DEF ConnOK
<1>8. ASSUME NEW j \in jobs, NEW kind \in Kinds, Answer(j, kind) PROVE ConnOK'
  BY <1>3, <1>8 DEF ConnOK
<1> QED
  BY <1>5, <1>6, <1>7, <1>8 DEF Next

\* Tasks and frames stay of their types.
LEMMA DaemonKept == CallOK /\ DaemonOK /\ [Next]_vars => DaemonOK'
<1> SUFFICES ASSUME CallOK, DaemonOK, [Next]_vars PROVE DaemonOK'
  OBVIOUS
<1>e. <<>> \in Seq(Frame)
  BY EmptySeq
<1> USE DEF DaemonOK
<1>1. ASSUME NEW k \in Calls, Call(k) \/ Reuse(k) \/ OpenFails(k) \/ WriteFails(k)
                              \/ Return(k) \/ Lose(k)
      PROVE  DaemonOK'
  BY <1>1 DEF Call, Reuse, OpenFails, WriteFails, Return, Lose, connVars, daemonVars
<1>2. ASSUME NEW k \in Calls, Reconnect(k) \/ Opened(k) \/ Retry(k) PROVE DaemonOK'
  BY <1>2, <1>e DEF Reconnect, Opened, Retry, NextAttempt, Drop, daemonVars
<1>3. ASSUME NEW k \in Calls, Written(k) PROVE DaemonOK'
  <2>1. [id |-> rid[k], call |-> k, via |-> via[k]] \in Job /\ rid[k] \in Nat
    BY DEF CallOK, Job
  <2> QED
    BY <1>3, <2>1 DEF Written, connVars
<1>4. ASSUME NEW k \in Calls, Timeout(k) \/ Abort(k) PROVE DaemonOK'
  <2>1. [id |-> rid[k], call |-> k, kind |-> "error"] \in Frame
    BY DEF CallOK, Frame, Kinds
  <2>2. TellDaemon(k) /\ UNCHANGED <<fetched, refused>>
    BY <1>4 DEF Timeout, Abort
  <2> QED
    BY <2>1, <2>2, TellDaemonTypes
<1>5. ASSUME NEW j \in jobs, NEW kind \in Kinds, Answer(j, kind) PROVE DaemonOK'
  <2>1. j.call \in Calls /\ [id |-> j.id, call |-> j.call, kind |-> kind] \in Frame
    BY DEF Job, Frame
  <2> QED
    BY <1>5, <2>1 DEF Answer
<1>6. CASE Dispatch
  BY <1>6, HeadTailProperties DEF Dispatch, daemonVars
<1>7. CASE ReaderEnds \/ Close \/ ConnectionBreaks
  BY <1>7, <1>e DEF ReaderEnds, Close, ConnectionBreaks, Drop, daemonVars
<1>8. CASE UNCHANGED vars
  BY <1>8 DEF vars, connVars, daemonVars
<1> QED
  BY <1>1, <1>2, <1>3, <1>4, <1>5, <1>6, <1>7, <1>8 DEF Next, CallStep

----------------------------------------------------------------------------
\* Ids are fresh: a task of the daemon with the current id of a call is for
\* that call, which has sent its frame.
IdInv ==
  /\ \A k \in Calls : rid[k] <= lastId /\ (rid[k] = 0 <=> pc[k] = "idle")
  /\ \A k, l \in Calls : rid[k] = rid[l] /\ rid[k] # 0 => k = l
  /\ \A j \in jobs :
       /\ 1 <= j.id /\ j.id <= lastId
       /\ \A k \in Calls :
            rid[k] = j.id => k = j.call /\ pc[k] \in {"waiting", "failed", "done"}
  /\ refused = {}

\* Every new id is one that no task, frame or other call has.
LEMMA IdKept == CallOK /\ DaemonOK /\ IdInv /\ [Next]_vars => IdInv'
<1> SUFFICES ASSUME CallOK, DaemonOK, IdInv, [Next]_vars PROVE IdInv'
  OBVIOUS
<1>a. jobs \subseteq Job
  BY DEF DaemonOK
<1> USE DEF IdInv, CallOK
<1>1. ASSUME NEW k \in Calls, Call(k) PROVE IdInv'
  <2>1. /\ rid[k] = 0 /\ pc' = [pc EXCEPT ![k] = "connecting"]
        /\ rid' = [rid EXCEPT ![k] = lastId + 1] /\ lastId' = lastId + 1
        /\ UNCHANGED <<jobs, refused>>
    BY <1>1 DEF Call, daemonVars
  <2> QED
    BY <1>a, <2>1 DEF Job
<1>2. ASSUME NEW k \in Calls, Reuse(k) \/ Reconnect(k) \/ Opened(k) \/ OpenFails(k)
                              \/ WriteFails(k) \/ Lose(k) \/ Return(k)
      PROVE  IdInv'
  <2>1. /\ pc[k] \in Busy
        /\ \E l \in Busy \cup {"done"} :
             /\ pc' = [pc EXCEPT ![k] = l]
             /\ pc[k] = "waiting" => l \in {"failed", "done"}
        /\ UNCHANGED <<rid, lastId, jobs, refused>>
    BY <1>2 DEF Reuse, Reconnect, Opened, OpenFails, WriteFails, Lose, Return, Register,
                Finished, daemonVars, Busy
  <2>2. pc[k] \notin {"failed", "done"}
    BY <1>2 DEF Reuse, Reconnect, Opened, OpenFails, WriteFails, Lose, Return
  <2> QED
    BY <2>1, <2>2 DEF Busy
<1>3. ASSUME NEW k \in Calls, Written(k) PROVE IdInv'
  <2>1. /\ pc[k] = "sending" /\ pc' = [pc EXCEPT ![k] = "waiting"]
        /\ UNCHANGED <<rid, lastId>>
    BY <1>3 DEF Written
  <2>2. ~\E j \in jobs : j.id = rid[k]
    BY <2>1
  <2>3. refused' = refused /\ jobs' = jobs \cup {[id |-> rid[k], call |-> k, via |-> via[k]]}
    BY <1>3, <2>2 DEF Written
  <2> QED
    BY <2>1, <2>3
<1>4. ASSUME NEW k \in Calls, Timeout(k) \/ Abort(k) PROVE IdInv'
  <2>1. /\ pc[k] # "idle" /\ pc' = [pc EXCEPT ![k] = "done"]
        /\ UNCHANGED <<rid, lastId, refused>> /\ TellDaemon(k)
    BY <1>4 DEF Timeout, Abort, Finished, Busy
  <2> QED
    BY <2>1, TellDaemonTypes
<1>5. ASSUME NEW k \in Calls, Retry(k) PROVE IdInv'
  <2>1. /\ pc[k] = "failed" /\ rid' = [rid EXCEPT ![k] = lastId + 1]
        /\ lastId' = lastId + 1 /\ UNCHANGED <<jobs, refused>>
    BY <1>5 DEF Retry, NextAttempt, daemonVars
  <2>2. \E l \in {"connecting", "done"} : pc' = [pc EXCEPT ![k] = l]
    BY <1>5 DEF Retry, NextAttempt
  <2> QED
    BY <1>a, <2>1, <2>2 DEF Job
<1>6. ASSUME NEW j \in jobs, NEW kind \in Kinds, Answer(j, kind) PROVE IdInv'
  BY <1>6 DEF Answer, callVars
<1>7. CASE Dispatch \/ ReaderEnds \/ Close \/ ConnectionBreaks
  BY <1>7 DEF Dispatch, ReaderEnds, Close, ConnectionBreaks, callVars, daemonVars
<1>8. CASE UNCHANGED vars
  BY <1>8 DEF vars, callVars, daemonVars
<1> QED
  BY <1>1, <1>2, <1>3, <1>4, <1>5, <1>6, <1>7, <1>8 DEF Next, CallStep

----------------------------------------------------------------------------
\* While somebody holds the connect lock there is no connection, and only
\* requests on the present one are pending.
ConnInv ==
  /\ \A k \in Calls : pc[k] = "opening" => lock = k
  /\ lock # NoCall => conn = 0 /\ ~reading
  /\ \A k \in Calls :
       pc[k] \in {"sending", "waiting"} /\ future[k] = "pending" => via[k] = conn /\ reading

\* Only the holder of the connect lock opens a connection, and dropping one
\* fails the requests on it.
LEMMA ConnInvKept == CallOK /\ ConnOK /\ ConnInv /\ [Next]_vars => ConnInv'
<1> SUFFICES ASSUME CallOK, ConnOK, ConnInv, [Next]_vars PROVE ConnInv'
  OBVIOUS
<1> USE NoCallAssumption DEF ConnInv, CallOK
<1>1. ASSUME NEW k \in Calls, Call(k) PROVE ConnInv'
  BY <1>1 DEF Call, connVars
<1>2. ASSUME NEW k \in Calls, Reuse(k) PROVE ConnInv'
  BY <1>2 DEF Reuse, Register, Alive, connVars
<1>3. ASSUME NEW k \in Calls, Reconnect(k) PROVE ConnInv'
  BY <1>3 DEF Reconnect, Drop, FailPending
<1>4. ASSUME NEW k \in Calls, Opened(k) PROVE ConnInv'
  BY <1>4 DEF Opened, Register
<1>5. ASSUME NEW k \in Calls, OpenFails(k) PROVE ConnInv'
  BY <1>5 DEF OpenFails
<1>6. ASSUME NEW k \in Calls, Written(k) \/ WriteFails(k) \/ Lose(k) PROVE ConnInv'
  BY <1>6 DEF Written, WriteFails, Lose, connVars
<1>7. ASSUME NEW k \in Calls, Return(k) PROVE ConnInv'
  BY <1>7 DEF Return, Finished, connVars
<1>8. ASSUME NEW k \in Calls, Timeout(k) \/ Abort(k) PROVE ConnInv'
  BY <1>8 DEF Timeout, Abort, Finished
<1>9. ASSUME NEW k \in Calls, Retry(k) PROVE ConnInv'
  <2>1. /\ conn' = 0 /\ reading' = FALSE /\ UNCHANGED <<lock, via>>
        /\ \A l \in Calls : future'[l] # "pending"
    BY <1>9 DEF Retry, NextAttempt, Drop, FailPending
  <2>2. \A l \in Calls : pc'[l] = "opening" => pc[l] = "opening"
    BY <1>9 DEF Retry, NextAttempt
  <2> QED
    BY <2>1, <2>2
<1>10. ASSUME NEW j \in jobs, NEW kind \in Kinds, Answer(j, kind) PROVE ConnInv'
  BY <1>10 DEF Answer, callVars
<1>11. CASE Dispatch
  <2>1. \A k \in Calls : future'[k] = "pending" => future[k] = "pending"
    BY <1>11 DEF Dispatch
  <2> QED
    BY <1>11, <2>1 DEF Dispatch
<1>12. CASE ReaderEnds \/ Close
  BY <1>12 DEF ReaderEnds, Close, Drop, FailPending
<1>13. CASE ConnectionBreaks
  BY <1>13 DEF ConnectionBreaks, callVars
<1>14. CASE UNCHANGED vars
  BY <1>14 DEF vars, callVars, connVars
<1> QED
  BY <1>1, <1>2, <1>3, <1>4, <1>5, <1>6, <1>7, <1>8, <1>9, <1>10, <1>11, <1>12, <1>13, <1>14
     DEF Next, CallStep

----------------------------------------------------------------------------
\* A frame under the current id of a call is for that call, and a page in it
\* or in a future has been fetched for that call.
FrameFits(w) ==
  /\ 1 <= w.id /\ w.id <= lastId
  /\ \A k \in Calls : rid[k] = w.id => k = w.call
  /\ w.kind = "page" => w.call \in fetched
FrameInv ==
  /\ \A i \in DOMAIN wire : FrameFits(wire[i])
  /\ \A k \in Calls : future[k] = "page" => k \in fetched
  /\ \A k \in Calls : outcome[k] # "none" => pc[k] = "done"

\* A frame that fits goes on to fit.
LEMMA FitsStill ==
  ASSUME CallOK, IdInv, [Next]_vars, NEW w \in Frame, FrameFits(w)
  PROVE  FrameFits(w)'
<1>1. fetched \subseteq fetched'
  <2>1. ASSUME NEW j \in jobs, NEW kind \in Kinds, Answer(j, kind) PROVE fetched \subseteq fetched'
    BY <2>1 DEF Answer
  <2>2. ASSUME NEW k \in Calls, Call(k) \/ CallStep(k) \/ Abort(k) PROVE fetched' = fetched
    BY <2>2 DEF Call, CallStep, Reuse, Reconnect, Opened, OpenFails, Written, WriteFails, Return,
                Lose, Timeout, Retry, NextAttempt, Abort, daemonVars
  <2>3. Dispatch \/ ReaderEnds \/ Close \/ ConnectionBreaks \/ UNCHANGED vars
          => fetched' = fetched
    BY DEF Dispatch, ReaderEnds, Close, ConnectionBreaks, daemonVars, vars
  <2> QED
    BY <2>1, <2>2, <2>3 DEF Next
<1>2. \/ UNCHANGED <<rid, lastId>>
      \/ \E k \in Calls : rid' = [rid EXCEPT ![k] = lastId + 1] /\ lastId' = lastId + 1
  <2>1. ASSUME NEW k \in Calls, Call(k) \/ Retry(k)
        PROVE  rid' = [rid EXCEPT ![k] = lastId + 1] /\ lastId' = lastId + 1
    BY <2>1 DEF Call, Retry, NextAttempt, CallOK
  <2>2. ASSUME NEW k \in Calls, CallStep(k) \/ Abort(k), ~Retry(k) PROVE UNCHANGED <<rid, lastId>>
    BY <2>2 DEF CallStep, Reuse, Reconnect, Opened, OpenFails, Written, WriteFails, Return, Lose,
                Timeout, Abort
  <2>3. ASSUME NEW j \in jobs, NEW kind \in Kinds, Answer(j, kind) PROVE UNCHANGED <<rid, lastId>>
    BY <2>3 DEF Answer, callVars
  <2>4. Dispatch \/ ReaderEnds \/ Close \/ ConnectionBreaks \/ UNCHANGED vars
          => UNCHANGED <<rid, lastId>>
    BY DEF Dispatch, ReaderEnds, Close, ConnectionBreaks, callVars, vars
  <2> QED
    BY <2>1, <2>2, <2>3, <2>4 DEF Next
<1>3. /\ w.id \in Nat /\ lastId \in Nat /\ lastId' \in Nat /\ lastId <= lastId'
      /\ \A k \in Calls : rid'[k] = rid[k] \/ rid'[k] = lastId + 1
  BY <1>2 DEF CallOK, Frame
<1>4. 1 <= w.id /\ w.id <= lastId
  BY DEF FrameFits
<1>5. w.id <= lastId' /\ \A k \in Calls : rid'[k] = w.id => k = w.call
  BY <1>3, <1>4 DEF FrameFits
<1> QED
  BY <1>1, <1>4, <1>5 DEF FrameFits

\* The frames on the wire still fit when nothing is added, or one that fits.
LEMMA WireFits ==
  ASSUME CallOK, DaemonOK, IdInv, FrameInv, [Next]_vars,
         \/ wire' \in {wire, <<>>}
         \/ wire # <<>> /\ wire' = Tail(wire)
         \/ \E f \in Frame : FrameFits(f)' /\ wire' = Append(wire, f)
  PROVE  \A i \in DOMAIN wire' : FrameFits(wire[i])'
<1>a. wire \in Seq(Frame) /\ \A i \in DOMAIN wire : wire[i] \in Frame
  BY ElementOfSeq DEF DaemonOK
<1>b. ASSUME NEW n \in DOMAIN wire PROVE \E w \in Frame : wire[n] = w /\ FrameFits(w)'
  BY <1>a, <1>b, FitsStill DEF FrameInv
<1> SUFFICES ASSUME NEW i \in DOMAIN wire' PROVE \E w \in Frame : wire'[i] = w /\ FrameFits(w)'
  OBVIOUS
<1>1. CASE wire' \in {wire, <<>>}
  BY <1>1, <1>b
<1>2. CASE wire # <<>> /\ wire' = Tail(wire)
  <2>1. i + 1 \in DOMAIN wire /\ wire'[i] = wire[i + 1]
    BY <1>a, <1>2
  <2> QED
    BY <1>b, <2>1
<1>3. CASE \E f \in Frame : FrameFits(f)' /\ wire' = Append(wire, f)
  <2>1. PICK f \in Frame : FrameFits(f)' /\ wire' = Append(wire, f)
    BY <1>3
  <2>2. wire'[i] = f \/ (i \in DOMAIN wire /\ wire'[i] = wire[i])
    BY <1>a, <2>1
  <2> QED
    BY <1>b, <2>1, <2>2
<1> QED
  BY <1>1, <1>2, <1>3

\* A frame belongs to the call its id was made for, also after retries.
LEMMA FrameInvKept ==
  ASSUME CallOK, DaemonOK, IdInv, FrameInv, [Next]_vars
  PROVE  FrameInv'
<1> USE DEF FrameInv
<1>1. ASSUME NEW k \in Calls, CallStep(k) \/ Call(k), ~Timeout(k) PROVE FrameInv'
  <2>1. wire' \in {wire, <<>>} /\ fetched' = fetched
    BY <1>1 DEF CallStep, Call, Reuse, Reconnect, Opened, OpenFails, Written, WriteFails, Return,
                Lose, Retry, NextAttempt, Drop, connVars, daemonVars
  <2>2. \A l \in Calls : future'[l] = "page" => future[l] = "page"
    BY <1>1 DEF CallStep, Call, Reuse, Reconnect, Opened, OpenFails, Written, WriteFails, Return,
                Lose, Retry, NextAttempt, Drop, FailPending, Register, Finished, CallOK
  <2>3. \/ pc[k] # "done" /\ outcome' = outcome /\ \E l \in PCs : pc' = [pc EXCEPT ![k] = l]
        \/ /\ pc' = [pc EXCEPT ![k] = "done"]
           /\ \E o \in {future[k], "unavailable"} : outcome' = [outcome EXCEPT ![k] = o]
    BY <1>1 DEF CallStep, Call, Reuse, Reconnect, Opened, OpenFails, Written, WriteFails, Return,
                Lose, Retry, NextAttempt, Register, Finished, PCs, Busy
  <2>4. \A l \in Calls : outcome'[l] # "none" => pc'[l] = "done"
    BY <2>3 DEF CallOK
  <2> QED
    BY <2>1, <2>2, <2>4, WireFits
<1>2. ASSUME NEW k \in Calls, Timeout(k) \/ Abort(k) PROVE FrameInv'
  <2>1. /\ pc[k] \in Busy /\ (Finished(k, "timeout") \/ Finished(k, "cancelled"))
        /\ TellDaemon(k) /\ UNCHANGED <<rid, lastId, fetched>>
    BY <1>2 DEF Timeout, Abort, Busy
  <2>2. DEFINE f == [id |-> rid[k], call |-> k, kind |-> "error"]
  <2>3. f \in Frame /\ 1 <= f.id /\ f.id <= lastId /\ \A l \in Calls : rid[l] = f.id => l = k
    BY <1>2 DEF CallOK, IdInv, Frame, Kinds, Timeout, Abort, Busy
  <2>4. FrameFits(f)'
    BY <2>1, <2>3 DEF FrameFits
  <2>5. \A i \in DOMAIN wire' : FrameFits(wire[i])'
    BY <2>1, <2>3, <2>4, TellDaemonTypes, WireFits
  <2>6. \A l \in Calls : /\ future'[l] = "page" => l \in fetched'
                         /\ outcome'[l] # "none" => pc'[l] = "done"
    BY <2>1 DEF CallOK, Finished
  <2> QED
    BY <2>5, <2>6
<1>3. ASSUME NEW j \in jobs, NEW kind \in Kinds, Answer(j, kind) PROVE FrameInv'
  <2>1. /\ fetched' = IF kind = "page" THEN fetched \cup {j.call} ELSE fetched
        /\ UNCHANGED <<pc, rid, future, outcome, lastId>>
    BY <1>3 DEF Answer, callVars
  <2>2. DEFINE f == [id |-> j.id, call |-> j.call, kind |-> kind]
  <2>3. f \in Frame /\ wire' \in {wire, Append(wire, f)}
    BY <1>3 DEF Answer, DaemonOK, Job, Frame
  <2>4. FrameFits(f)'
    BY <2>1, <2>3 DEF FrameFits, IdInv, Frame
  <2>5. \A i \in DOMAIN wire' : FrameFits(wire[i])'
    BY <2>3, <2>4, WireFits
  <2> QED
    BY <2>1, <2>5
<1>4. CASE Dispatch
  <2>1. /\ wire # <<>> /\ wire' = Tail(wire) /\ UNCHANGED <<pc, outcome, fetched>>
        /\ \A k \in Calls : \/ future'[k] = future[k]
                            \/ rid[k] = Head(wire).id /\ future'[k] = Head(wire).kind
    BY <1>4 DEF Dispatch, daemonVars, CallOK
  <2>2. 1 \in DOMAIN wire /\ Head(wire) = wire[1]
    BY <2>1 DEF DaemonOK
  <2>3. FrameFits(Head(wire))
    BY <2>2
  <2>4. \A k \in Calls : future'[k] = "page" => k \in fetched'
    BY <2>1, <2>3 DEF FrameFits
  <2> QED
    BY <2>1, <2>4, WireFits
<1>5. CASE ReaderEnds \/ Close \/ ConnectionBreaks
  <2>1. wire' \in {wire, <<>>} /\ UNCHANGED <<pc, outcome, fetched>>
    BY <1>5 DEF ReaderEnds, Close, ConnectionBreaks, Drop, callVars, daemonVars
  <2>2. \A k \in Calls : future'[k] = "page" => future[k] = "page"
    BY <1>5 DEF ReaderEnds, Close, ConnectionBreaks, Drop, FailPending, callVars
  <2> QED
    BY <2>1, <2>2, WireFits
<1>6. CASE UNCHANGED vars
  <2>1. wire' = wire /\ UNCHANGED <<pc, future, outcome, fetched>>
    BY <1>6 DEF vars, callVars, connVars, daemonVars
  <2> QED
    BY <2>1, WireFits
<1> QED
  BY <1>1, <1>2, <1>3, <1>4, <1>5, <1>6 DEF Next, CallStep

----------------------------------------------------------------------------
\* A call that has not ended has attempts left.
AttemptOK ==
  /\ attempt \in [Calls -> 0..MaxRetries + 1]
  /\ \A k \in Calls : pc[k] # "done" => attempt[k] <= MaxRetries
  /\ faults \in 0..MaxFaults

\* A retry is made only while there are attempts left.
LEMMA AttemptKept == CallOK /\ AttemptOK /\ [Next]_vars => AttemptOK'
<1> SUFFICES ASSUME CallOK, AttemptOK, [Next]_vars PROVE AttemptOK'
  OBVIOUS
<1> USE BoundsAssumption DEF AttemptOK
<1>1. faults' \in 0..MaxFaults
  <2>1. faults' = faults \/ (faults < MaxFaults /\ faults' = faults + 1)
    BY DEF Next, CallStep, vars, Call, Reuse, Reconnect, Opened, OpenFails, Written, WriteFails,
           Return, Lose, Timeout, Retry, NextAttempt, Abort, Answer, Dispatch, ReaderEnds, Close,
           ConnectionBreaks
  <2> QED
    BY <2>1
<1>2. ASSUME NEW k \in Calls, Retry(k) PROVE AttemptOK'
  <2>1. /\ pc[k] = "failed" /\ attempt' = [attempt EXCEPT ![k] = @ + 1]
        /\ \E l \in {"connecting", "done"} :
             pc' = [pc EXCEPT ![k] = l] /\ (l = "connecting" => attempt[k] < MaxRetries)
    BY <1>2 DEF Retry, NextAttempt
  <2>2. attempt[k] \in 0..MaxRetries
    BY <2>1
  <2> QED
    BY <1>1, <2>1, <2>2 DEF CallOK
<1>3. ASSUME NEW k \in Calls, Call(k) \/ CallStep(k) \/ Abort(k), ~Retry(k) PROVE AttemptOK'
  <2>1. attempt' = attempt /\ pc[k] # "done" /\ \E l \in PCs : pc' = [pc EXCEPT ![k] = l]
    BY <1>3 DEF CallStep, Call, Reuse, Reconnect, Opened, OpenFails, Written, WriteFails, Return,
                Lose, Timeout, Abort, Register, Finished, PCs, Busy
  <2> QED
    BY <1>1, <2>1 DEF CallOK
<1>4. ASSUME NEW j \in jobs, NEW kind \in Kinds, Answer(j, kind) PROVE AttemptOK'
  BY <1>1, <1>4 DEF Answer, callVars
<1>5. CASE Dispatch \/ ReaderEnds \/ Close \/ ConnectionBreaks \/ UNCHANGED vars
  <2>1. UNCHANGED <<pc, attempt>>
    BY <1>5 DEF Dispatch, ReaderEnds, Close, ConnectionBreaks, callVars, vars
  <2> QED
    BY <1>1, <2>1
<1> QED
  BY <1>2, <1>3, <1>4, <1>5 DEF Next

----------------------------------------------------------------------------
IInv == CallOK /\ ConnOK /\ ReadingOK /\ DaemonOK /\ IdInv /\ ConnInv /\ FrameInv /\ AttemptOK

\* The invariant holds before the first call.
LEMMA InitIInv == Init => IInv
<1> SUFFICES ASSUME Init PROVE IInv
  OBVIOUS
<1>1. CallOK /\ ConnOK /\ ReadingOK
  BY DEF Init, CallOK, ConnOK, ReadingOK, PCs
<1>2. DaemonOK
  BY EmptySeq DEF Init, DaemonOK
<1>3. IdInv /\ ConnInv
  BY NoCallAssumption DEF Init, IdInv, ConnInv
<1>4. FrameInv
  BY DEF Init, FrameInv
<1>5. AttemptOK
  BY BoundsAssumption DEF Init, AttemptOK
<1> QED
  BY <1>1, <1>2, <1>3, <1>4, <1>5 DEF IInv

\* Every step keeps the parts of the invariant, each with the help of others.
LEMMA IInvKept == IInv /\ [Next]_vars => IInv'
BY CallKept, ConnKept, ReadingKept, DaemonKept, IdKept, ConnInvKept, FrameInvKept, AttemptKept
   DEF IInv

\* The invariant holds of every behaviour.
LEMMA Invariance == Spec => []IInv
BY InitIInv, IInvKept, PTL DEF Spec

\* Every variable keeps its type; in particular no call ever begins more
\* than MaxRetries + 1 attempts (_client.py:208-224).
THEOREM ClientTypeCorrect == Spec => []TypeOK
<1>1. IInv => TypeOK
  BY DEF IInv, CallOK, ConnOK, ReadingOK, DaemonOK, AttemptOK, TypeOK, PCs, Frame, Job
<1> QED
  BY <1>1, Invariance, PTL

\* The daemon never refuses a request as a duplicate (_client.py:218-220):
\* tasks of lost attempts may go on there, but never under an id that comes
\* again.
THEOREM NoDuplicates == Spec => []NoDuplicateId
<1>1. IInv => NoDuplicateId
  BY DEF IInv, IdInv, NoDuplicateId
<1> QED
  BY <1>1, Invariance, PTL

\* Whoever waits for an answer waits on the current connection, and its
\* reader runs (_client.py:276-290, 320-326).
THEOREM NobodyWaitsInVain == Spec => []NoOneWaitsInVain
<1>1. IInv => NoOneWaitsInVain
  BY DEF IInv, ConnInv, NoOneWaitsInVain
<1> QED
  BY <1>1, Invariance, PTL

----------------------------------------------------------------------------
\* The initial states are those of the contract.
LEMMA ContractInit == Init => Contract!Init
BY DEF Init, Contract!Init

\* Every step is one the contract allows, or does not concern it.
LEMMA ContractStep == IInv /\ [Next]_vars => [Contract!Next]_<<outcome, fetched>>
<1> SUFFICES ASSUME IInv, [Next]_vars PROVE [Contract!Next]_<<outcome, fetched>>
  OBVIOUS
<1>a. \A k \in Calls : pc[k] # "done" => outcome[k] = "none"
  BY DEF IInv, FrameInv
<1> USE DEF Contract!Next, Contract!Fail, Contract!Failures
<1>1. ASSUME NEW k \in Calls, Call(k) \/ Reuse(k) \/ Reconnect(k) \/ Opened(k) \/ OpenFails(k)
                              \/ Written(k) \/ WriteFails(k) \/ Lose(k)
      PROVE  UNCHANGED <<outcome, fetched>>
  BY <1>1 DEF Call, Reuse, Reconnect, Opened, OpenFails, Written, WriteFails, Lose, daemonVars
<1>2. ASSUME NEW k \in Calls, Return(k) PROVE Contract!Next
  <2>1. /\ outcome[k] = "none" /\ future[k] \in {"page", "error"}
        /\ outcome' = [outcome EXCEPT ![k] = future[k]] /\ UNCHANGED fetched
    BY <1>2, <1>a DEF Return, Finished, Kinds, daemonVars
  <2>2. CASE future[k] = "page"
    <3>1. k \in fetched
      BY <2>2 DEF IInv, FrameInv
    <3>2. Contract!Return(k)
      BY <2>1, <2>2, <3>1 DEF Contract!Return
    <3> QED
      BY <3>2
  <2>3. CASE future[k] = "error"
    <3>1. Contract!Fail(k, "error")
      BY <2>1, <2>3
    <3> QED
      BY <3>1
  <2> QED
    BY <2>1, <2>2, <2>3
<1>3. ASSUME NEW k \in Calls, Timeout(k) \/ Abort(k) PROVE Contract!Next
  <2>1. PICK why \in {"timeout", "cancelled"} :
          outcome[k] = "none" /\ outcome' = [outcome EXCEPT ![k] = why] /\ UNCHANGED fetched
    BY <1>3, <1>a DEF Timeout, Abort, Finished, Busy
  <2>2. Contract!Fail(k, why)
    BY <2>1
  <2> QED
    BY <2>2
<1>4. ASSUME NEW k \in Calls, Retry(k) PROVE [Contract!Next]_<<outcome, fetched>>
  <2>1. /\ outcome[k] = "none" /\ UNCHANGED fetched
        /\ outcome' = outcome \/ outcome' = [outcome EXCEPT ![k] = "unavailable"]
    BY <1>4, <1>a DEF Retry, NextAttempt, daemonVars
  <2>2. CASE outcome' = [outcome EXCEPT ![k] = "unavailable"]
    <3>1. Contract!Fail(k, "unavailable")
      BY <2>1, <2>2
    <3> QED
      BY <3>1
  <2> QED
    BY <2>1, <2>2
<1>5. ASSUME NEW j \in jobs, NEW kind \in Kinds, Answer(j, kind)
      PROVE  [Contract!Next]_<<outcome, fetched>>
  <2>1. j.call \in Calls
    BY DEF IInv, DaemonOK, Job
  <2>2. outcome' = outcome /\ fetched' \in {fetched, fetched \cup {j.call}}
    BY <1>5 DEF Answer, callVars
  <2>3. CASE fetched' = fetched \cup {j.call}
    <3>1. Contract!Fetch(j.call)
      BY <2>2, <2>3 DEF Contract!Fetch
    <3> QED
      BY <2>1, <3>1
  <2> QED
    BY <2>2, <2>3
<1>6. Dispatch \/ ReaderEnds \/ Close \/ ConnectionBreaks \/ UNCHANGED vars
        => UNCHANGED <<outcome, fetched>>
  BY DEF Dispatch, ReaderEnds, Close, ConnectionBreaks, callVars, daemonVars, vars
<1> QED
  BY <1>1, <1>2, <1>3, <1>4, <1>5, <1>6 DEF Next, CallStep

\* The client keeps its contract (_client.py:189-224, 328-353, 390-426):
\* every call ends once, and a page it returns was fetched for it, whatever
\* frames of repeated and abandoned attempts come and in whatever order.
THEOREM ClientContract == Spec => ImplementsContract
<1>1. Spec => Contract!Spec
  BY Invariance, ContractInit, ContractStep, PTL DEF Spec, Contract!Spec
<1> QED
  BY <1>1 DEF ImplementsContract
=============================================================================
