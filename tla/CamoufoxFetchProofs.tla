------------------------ MODULE CamoufoxFetchProofs ------------------------
(***************************************************************************)
(* For any number of daemons, chunks, attempts and faults: as long as no   *)
(* two daemons download at once, the .part file is a beginning of the      *)
(* release, it is not given up before it is installed, an older install is *)
(* not given up before the new release is there, and what is marked as     *)
(* supported has been extracted in full.                                   *)
(***************************************************************************)
EXTENDS CamoufoxFetch, SequenceTheorems, TLAPS

\* Writing a chunk at a place past the end fills the file up to it.
LEMMA WrittenIsSeq ==
  ASSUME part \in Seq(Chunks), NEW at \in Nat \ {0}, NEW chunk \in Chunks
  PROVE  /\ WrittenAt(at, chunk) \in Seq(Chunks)
         /\ Len(WrittenAt(at, chunk)) = IF at > Len(part) THEN at ELSE Len(part)
<1> DEFINE m == IF at > Len(part) THEN at ELSE Len(part)
<1>1. m \in Nat
  OBVIOUS
<1>2. \A i \in 1..m : i <= Len(part) => part[i] \in Chunks
  OBVIOUS
<1>3. 0 \in Chunks
  BY SizeAssumption DEF Chunks
<1>4. WrittenAt(at, chunk) \in [1..m -> Chunks]
  BY <1>2, <1>3 DEF WrittenAt
<1> QED
  BY <1>1, <1>4

\* The type invariant in four parts; only with fewer than MaxAttempts behind
\* it is an attempt under way.
FlagsOK ==
  /\ ranges \in BOOLEAN /\ sized \in BOOLEAN /\ crowded \in BOOLEAN /\ marker \in BOOLEAN
  /\ append \in [Procs -> BOOLEAN] /\ known \in [Procs -> BOOLEAN]
ControlOK ==
  /\ pc \in [Procs -> Working \cup {"off", "up"}]
  /\ state \in [Procs -> FetchStates]
  /\ install \in Installs
CountsOK ==
  /\ attempt \in [Procs -> 0..MaxAttempts]
  /\ faults \in 0..MaxFaults
  /\ \A p \in Procs : pc[p] \in {"ask", "body"} => attempt[p] < MaxAttempts
FileOK == part \in Seq(Chunks) /\ next \in [Procs -> Nat \ {0}]

TypeInv == FlagsOK /\ ControlOK /\ CountsOK /\ FileOK

\* The four parts together are the type invariant.
LEMMA TypeInvSuffices == TypeInv => TypeOK
BY DEF TypeInv, TypeOK, FlagsOK, ControlOK, CountsOK, FileOK

\* The flags stay flags.
LEMMA FlagsKept == FlagsOK /\ [Next]_vars => FlagsOK'
<1> SUFFICES ASSUME FlagsOK, [Next]_vars PROVE FlagsOK'
  OBVIOUS
<1> USE DEF FlagsOK
<1>1. ASSUME NEW p \in Procs, Start(p) PROVE FlagsOK'
  BY <1>1 DEF Start, shared
<1>2. ASSUME NEW p \in Procs, Responds(p) PROVE FlagsOK'
  BY <1>2 DEF Responds
<1>3. ASSUME NEW p \in Procs, Clean(p) \/ SetVersion(p) PROVE FlagsOK'
  BY <1>3 DEF Clean, SetVersion
<1>4. ASSUME NEW p \in Procs,
             Resolve(p) \/ LoopEnds(p) \/ Asks(p) \/ Chunk(p) \/ StreamEnds(p) \/ Check(p)
               \/ Extract(p) \/ Chmod(p) \/ Tidy(p) \/ Verify(p) \/ NoResponse(p)
               \/ Stalls(p) \/ Exit(p)
      PROVE  FlagsOK'
  BY <1>4 DEF Resolve, LoopEnds, Asks, Chunk, StreamEnds, Check, Extract, Chmod, Tidy, Verify,
              NoResponse, Stalls, Exit, shared
<1>5. CASE UNCHANGED vars
  BY <1>5 DEF vars, shared
<1> QED
  BY <1>1, <1>2, <1>3, <1>4, <1>5 DEF Next, Work

\* Threads, their states and the installation stay within their values.
LEMMA ControlKept == ControlOK /\ [Next]_vars => ControlOK'
<1> SUFFICES ASSUME ControlOK, [Next]_vars PROVE ControlOK'
  OBVIOUS
<1> USE DEF ControlOK, Working, FetchStates, Installs, Goto, Set, Fails
<1>1. ASSUME NEW p \in Procs, Start(p) \/ Resolve(p) \/ LoopEnds(p) \/ Asks(p) \/ Responds(p)
      PROVE  ControlOK'
  BY <1>1 DEF Start, Resolve, LoopEnds, Asks, Responds, shared
<1>2. ASSUME NEW p \in Procs, Chunk(p) \/ StreamEnds(p) \/ Check(p) \/ NoResponse(p) \/ Stalls(p)
      PROVE  ControlOK'
  BY <1>2 DEF Chunk, StreamEnds, Check, NoResponse, Stalls, Retried, shared
<1>3. ASSUME NEW p \in Procs, Clean(p) \/ Extract(p) \/ SetVersion(p)
      PROVE  ControlOK'
  BY <1>3 DEF Clean, Extract, SetVersion
<1>4. ASSUME NEW p \in Procs, Chmod(p) \/ Tidy(p) \/ Verify(p) \/ Exit(p)
      PROVE  ControlOK'
  BY <1>4 DEF Chmod, Tidy, Verify, Exit, shared
<1>5. CASE UNCHANGED vars
  BY <1>5 DEF vars, shared
<1> QED
  BY <1>1, <1>2, <1>3, <1>4, <1>5 DEF Next, Work

\* Attempts and faults stay within their bounds, since each is counted.
LEMMA CountsKept == ControlOK /\ CountsOK /\ [Next]_vars => CountsOK'
<1> SUFFICES ASSUME ControlOK, CountsOK, [Next]_vars PROVE CountsOK'
  OBVIOUS
<1> USE SizeAssumption, FaultAssumption DEF ControlOK, CountsOK, Goto, Fault
<1>1. ASSUME NEW p \in Procs, Start(p) PROVE CountsOK'
  BY <1>1 DEF Start
<1>2. ASSUME NEW p \in Procs, Asks(p) \/ Responds(p) PROVE CountsOK'
  BY <1>2 DEF Asks, Responds, Tried
<1>3. ASSUME NEW p \in Procs, NoResponse(p) \/ StreamEnds(p) \/ Stalls(p) PROVE CountsOK'
  BY <1>3 DEF NoResponse, StreamEnds, Stalls, Retried, Tried, Fails
<1>4. ASSUME NEW p \in Procs, Chunk(p) PROVE CountsOK'
  BY <1>4 DEF Chunk
<1>5. ASSUME NEW p \in Procs, UNCHANGED attempt, UNCHANGED faults \/ Fault,
             NEW l \in (Working \ {"ask", "body"}) \cup {"off", "up"},
             pc' = [pc EXCEPT ![p] = l]
      PROVE  CountsOK'
  <2>1. attempt' \in [Procs -> 0..MaxAttempts] /\ faults' \in 0..MaxFaults
    BY <1>5
  <2>2. \A q \in Procs : pc'[q] \in {"ask", "body"} => pc[q] \in {"ask", "body"}
    BY <1>5
  <2> QED
    BY <1>5, <2>1, <2>2
<1>6. ASSUME NEW p \in Procs,
             Resolve(p) \/ LoopEnds(p) \/ Check(p) \/ Clean(p) \/ Extract(p)
               \/ SetVersion(p) \/ Chmod(p) \/ Tidy(p) \/ Verify(p) \/ Exit(p)
      PROVE  CountsOK'
  <2>1. UNCHANGED attempt
    BY <1>6 DEF Resolve, LoopEnds, Check, Clean, Extract, SetVersion, Chmod, Tidy, Verify, Exit
  <2>2. UNCHANGED faults \/ Fault
    BY <1>6 DEF Resolve, LoopEnds, Check, Clean, Extract, SetVersion, Chmod, Tidy, Verify, Exit
  <2>3. PICK l \in (Working \ {"ask", "body"}) \cup {"off", "up"} :
          pc' = [pc EXCEPT ![p] = l]
    <3> USE DEF Working, Fails
    <3>1. CASE Resolve(p) \/ LoopEnds(p) \/ Check(p)
      BY <3>1 DEF Resolve, LoopEnds, Check
    <3>2. CASE Clean(p) \/ Extract(p) \/ SetVersion(p)
      BY <3>2 DEF Clean, Extract, SetVersion
    <3>3. CASE Chmod(p) \/ Tidy(p) \/ Verify(p) \/ Exit(p)
      BY <3>3 DEF Chmod, Tidy, Verify, Exit
    <3> QED
      BY <1>6, <3>1, <3>2, <3>3
  <2> HIDE DEF Fault
  <2> QED
    BY <1>5, <2>1, <2>2, <2>3
<1>7. CASE UNCHANGED vars
  BY <1>7 DEF vars
<1> QED
  BY <1>1, <1>2, <1>3, <1>4, <1>5, <1>6, <1>7 DEF Next, Work

\* The file stays a sequence of chunks, whoever writes into it.
LEMMA FileKept == FileOK /\ [Next]_vars => FileOK'
<1> SUFFICES ASSUME FileOK, [Next]_vars PROVE FileOK'
  OBVIOUS
<1> USE SizeAssumption DEF FileOK
<1>1. ASSUME NEW p \in Procs, Responds(p) PROVE FileOK'
  <2>1. part' \in {part, <<>>} /\ next' \in [Procs -> Nat \ {0}]
    BY <1>1 DEF Responds
  <2> QED
    BY <2>1, EmptySeq
<1>2. ASSUME NEW p \in Procs, Chunk(p) PROVE FileOK'
  <2> DEFINE at == IF append[p] THEN Len(part) + 1 ELSE next[p]
  <2>1. at \in Nat \ {0} /\ next[p] \in Chunks /\ part' = WrittenAt(at, next[p])
    BY <1>2 DEF Chunk, Chunks
  <2> HIDE DEF at
  <2>2. part' \in Seq(Chunks)
    BY <2>1, WrittenIsSeq
  <2>3. next' \in [Procs -> Nat \ {0}]
    BY <1>2 DEF Chunk
  <2> QED
    BY <2>2, <2>3
<1>3. ASSUME NEW p \in Procs, Check(p) \/ Tidy(p) PROVE FileOK'
  <2>1. part' \in {part, <<>>} /\ UNCHANGED next
    BY <1>3 DEF Check, Tidy
  <2> QED
    BY <2>1, EmptySeq
<1>4. ASSUME NEW p \in Procs,
             Start(p) \/ Resolve(p) \/ LoopEnds(p) \/ StreamEnds(p) \/ NoResponse(p) \/ Stalls(p)
               \/ Clean(p) \/ Extract(p) \/ SetVersion(p) \/ Chmod(p) \/ Verify(p) \/ Exit(p)
      PROVE  FileOK'
  <2>1. UNCHANGED <<part, next>>
    BY <1>4 DEF Start, Resolve, LoopEnds, StreamEnds, NoResponse, Stalls, Clean, Extract,
                SetVersion, Chmod, Verify, Exit, shared
  <2> QED
    BY <2>1
<1>5. ASSUME NEW p \in Procs, Asks(p) PROVE FileOK'
  BY <1>5 DEF Asks, shared
<1>6. CASE UNCHANGED vars
  BY <1>6 DEF vars, shared
<1> QED
  BY <1>1, <1>2, <1>3, <1>4, <1>5, <1>6 DEF Next, Work

\* The type invariant holds of every behaviour.
LEMMA TypeInvariance == Spec => []TypeInv
<1>1. Init => FlagsOK
  BY DEF Init, FlagsOK
<1>2. Init => ControlOK
  BY DEF Init, ControlOK, FetchStates, Installs
<1>3. Init => CountsOK
  BY SizeAssumption, FaultAssumption DEF Init, CountsOK
<1>4. Init => FileOK
  BY SizeAssumption DEF Init, FileOK
<1> QED
  BY <1>1, <1>2, <1>3, <1>4, FlagsKept, ControlKept, CountsKept, FileKept, PTL
     DEF Spec, TypeInv

(* Every variable keeps its type: no fetch tries more than max_attempts    *)
(* times, and faults are counted.                                          *)
THEOREM FetchTypeCorrect == Spec => []TypeOK
BY TypeInvariance, TypeInvSuffices, PTL

----------------------------------------------------------------------------
\* While at most one thread has been at work at a time: it alone is at work,
\* it writes where the file ends, it has the whole release once the zip check
\* is passed, and nothing is marked before the extraction is complete.
Alone == \A p, q \in Procs : pc[p] \in Working /\ pc[q] \in Working => p = q
Unmarked == {"resolve", "try", "ask", "body", "check", "clean", "extract", "mark"}
InstallOK(p) ==
  /\ pc[p] \in {"ask", "body"} => next[p] = Len(part) + 1
  /\ pc[p] \in {"clean", "extract"} => part = Whole
  /\ pc[p] \in Unmarked => ~marker
  /\ pc[p] = "mark" => install = "files"
  /\ pc[p] \in {"chmod", "tidy"} => marker
FetchInv ==
  ~crowded => /\ Alone
              /\ Len(part) <= N /\ \A i \in DOMAIN part : part[i] = i
              /\ marker => install \in {"files", "usable"}
              /\ \A p \in Procs : InstallOK(p)

\* A prefix of the release that is as long as the release is the release.
LEMMA WholeFromPrefix ==
  ASSUME part \in Seq(Chunks), Len(part) = N, \A i \in DOMAIN part : part[i] = i
  PROVE  part = Whole
BY SizeAssumption DEF Whole, Chunks

\* What a step of the only thread at work may do.
LEMMA LoneStep ==
  ASSUME TypeInv, FetchInv, ~crowded, ~crowded', NEW p \in Procs,
         pc[p] \in Working, NEW l \in Working \cup {"off", "up"},
         pc' = [pc EXCEPT ![p] = l],
         Len(part') <= N, \A i \in DOMAIN part' : part'[i] = i,
         marker' => install' \in {"files", "usable"},
         InstallOK(p)'
  PROVE  FetchInv'
<1>1. Alone'
  BY DEF FetchInv, Alone, TypeInv, ControlOK
<1>2. ASSUME NEW q \in Procs PROVE InstallOK(q)'
  <2>1. CASE q = p
    BY <2>1
  <2>2. CASE q # p
    <3>1. pc'[q] \notin Working
      BY <2>2 DEF FetchInv, Alone, TypeInv, ControlOK
    <3> QED
      BY <3>1 DEF InstallOK, Working, Unmarked
  <2> QED
    BY <2>1, <2>2
<1> QED
  BY <1>1, <1>2 DEF FetchInv

\* Steps that leave the file, the install and the marker alone.
Idle(p) ==
  Resolve(p) \/ LoopEnds(p) \/ NoResponse(p) \/ StreamEnds(p) \/ Stalls(p) \/ Verify(p)

\* Every step of a lone thread, and every kill, keeps what is known of the file
\* and the installation.
LEMMA FetchInvKept == TypeInv /\ FetchInv /\ [Next]_vars => FetchInv'
<1> SUFFICES ASSUME TypeInv, FetchInv, [Next]_vars, ~crowded' PROVE FetchInv'
  BY DEF FetchInv
<1>0. ~crowded
  BY DEF Next, Work, vars, shared, Start, Resolve, LoopEnds, Asks, Responds, Chunk, StreamEnds, Check,
         Clean, Extract, SetVersion, Chmod, Tidy, Verify, NoResponse, Stalls, Exit,
         TypeInv, FlagsOK
<1> USE <1>0 DEF Goto
<1>a. /\ part \in Seq(Chunks) /\ Len(part) \in Nat /\ Len(part) <= N
      /\ \A i \in DOMAIN part : part[i] = i
      /\ marker => install \in {"files", "usable"}
      /\ \A p \in Procs : InstallOK(p)
  BY DEF FetchInv, TypeInv, FileOK
<1>b. pc \in [Procs -> Working \cup {"off", "up"}]
  BY DEF TypeInv, ControlOK
<1>1. ASSUME NEW p \in Procs, Start(p) PROVE FetchInv'
  <2>1. CASE marker
    BY <1>a, <1>b, <1>1, <2>1
       DEF Start, shared, FetchInv, Alone, InstallOK, Working, Unmarked
  <2>2. CASE ~marker
    <3>1. \A q \in Procs : pc[q] \notin Working
      BY <1>1, <2>2 DEF Start
    <3> QED
      BY <1>a, <1>b, <1>1, <2>2, <3>1
         DEF Start, shared, FetchInv, Alone, InstallOK, Working, Unmarked
  <2> QED
    BY <2>1, <2>2
<1>2. ASSUME NEW p \in Procs, Idle(p) PROVE FetchInv'
  <2>1. UNCHANGED <<part, install, marker>>
    BY <1>2 DEF Idle, Resolve, LoopEnds, NoResponse, StreamEnds, Stalls, Verify, shared
  <2>2. pc[p] \in Working /\ ~(pc[p] = "verify" /\ pc'[p] # "up")
    BY <1>2, <1>b DEF Idle, Resolve, LoopEnds, NoResponse, StreamEnds, Stalls, Verify, Working
  <2>3. PICK l \in {"try", "check", "up"} :
          pc' = [pc EXCEPT ![p] = l] /\ (l # "up" => pc[p] \in Unmarked)
    BY <1>2 DEF Idle, Resolve, LoopEnds, NoResponse, StreamEnds, Stalls, Verify, Fails,
                Retried, Unmarked
  <2>4. InstallOK(p)'
    BY <1>a, <1>b, <2>1, <2>3 DEF InstallOK, Unmarked
  <2> QED
    BY <1>a, <2>1, <2>2, <2>3, <2>4, LoneStep DEF Working
<1>3. ASSUME NEW p \in Procs, Responds(p) PROVE FetchInv'
  <2>1. /\ pc[p] = "ask" /\ pc' = [pc EXCEPT ![p] = "body"]
        /\ UNCHANGED <<install, marker>>
    BY <1>3 DEF Responds
  <2>2. part' = part \/ part' = <<>>
    BY <1>3 DEF Responds
  <2>3. next'[p] = Len(part') + 1
    BY <1>3, <1>a DEF Responds, InstallOK, TypeInv, FileOK
  <2>4. InstallOK(p)'
    BY <1>a, <1>b, <2>1, <2>3 DEF InstallOK, Unmarked
  <2>5. Len(part') <= N /\ \A i \in DOMAIN part' : part'[i] = i
    BY <1>a, <2>2, SizeAssumption
  <2> QED
    BY <1>a, <2>1, <2>4, <2>5, LoneStep DEF Working
<1>4. ASSUME NEW p \in Procs, Chunk(p) PROVE FetchInv'
  <2>1. pc[p] = "body" /\ next[p] = Len(part) + 1 /\ next[p] <= N
    BY <1>4, <1>a DEF Chunk, InstallOK
  <2>2. part' = WrittenAt(Len(part) + 1, Len(part) + 1)
    BY <1>4, <2>1 DEF Chunk
  <2>3. /\ Len(part') = Len(part) + 1
        /\ \A i \in DOMAIN part' : part'[i] = i
    <3>1. Len(part) + 1 \in Chunks
      BY <1>a, <2>1 DEF Chunks
    <3>2. Len(part') = Len(part) + 1 /\ part' \in Seq(Chunks)
      BY <1>a, <2>2, <3>1, WrittenIsSeq
    <3> QED
      BY <1>a, <2>2, <3>2 DEF WrittenAt
  <2>4. pc' = [pc EXCEPT ![p] = "body"] /\ UNCHANGED <<install, marker>>
    BY <1>4, <1>b, <2>1 DEF Chunk
  <2>5. next'[p] = Len(part') + 1
    BY <1>4, <1>a, <2>1, <2>3 DEF Chunk, TypeInv, FileOK
  <2>6. InstallOK(p)'
    BY <1>a, <1>b, <2>1, <2>4, <2>5 DEF InstallOK, Unmarked
  <2> QED
    BY <1>a, <2>1, <2>3, <2>4, <2>6, LoneStep DEF Working
<1>5. ASSUME NEW p \in Procs, Check(p) PROVE FetchInv'
  <2>1. pc[p] = "check" /\ UNCHANGED <<install, marker>> /\ ~marker
    BY <1>5, <1>a DEF Check, InstallOK, Unmarked
  <2>2. CASE Valid /\ pc' = [pc EXCEPT ![p] = "clean"] /\ part' = part
    <3>1. Len(part) = N
      BY <1>a, <2>2 DEF Valid
    <3>2. part = Whole
      BY <1>a, <3>1, WholeFromPrefix
    <3>3. InstallOK(p)'
      BY <1>b, <2>1, <2>2, <3>2 DEF InstallOK, Unmarked, Whole
    <3> QED
      BY <1>a, <2>1, <2>2, <3>3, LoneStep DEF Working
  <2>3. CASE pc' = [pc EXCEPT ![p] = "up"] /\ part' \in {part, <<>>}
    <3>1. InstallOK(p)'
      BY <1>b, <2>3 DEF InstallOK, Unmarked
    <3>2. Len(part') <= N /\ \A i \in DOMAIN part' : part'[i] = i
      BY <1>a, <2>3, SizeAssumption
    <3> QED
      BY <1>a, <2>1, <2>3, <3>1, <3>2, LoneStep DEF Working
  <2> QED
    BY <1>5, <2>2, <2>3 DEF Check, Fails
<1>6. ASSUME NEW p \in Procs, Clean(p) PROVE FetchInv'
  <2>0. pc[p] = "clean" /\ ~marker /\ part = Whole
    BY <1>6, <1>a DEF Clean, InstallOK, Unmarked
  <2>1. marker' = FALSE /\ part' = part
    <3>1. marker = FALSE
      BY <2>0 DEF TypeInv, FlagsOK
    <3>2. marker' \in {marker, FALSE} /\ part' = part
      BY <1>6 DEF Clean
    <3> QED
      BY <3>1, <3>2
  <2>2. PICK l \in {"extract", "up"} : pc' = [pc EXCEPT ![p] = l]
    BY <1>6 DEF Clean, Fails
  <2>3. InstallOK(p)'
    BY <1>b, <2>0, <2>1, <2>2 DEF InstallOK, Unmarked, Whole
  <2> QED
    BY <1>a, <2>0, <2>1, <2>2, <2>3, LoneStep DEF Working
<1>7. ASSUME NEW p \in Procs, Extract(p) PROVE FetchInv'
  <2>1. pc[p] = "extract" /\ ~marker /\ UNCHANGED <<part, marker>> /\ part = Whole
    BY <1>7, <1>a DEF Extract, InstallOK, Unmarked
  <2>2. PICK l \in {"mark", "up"} :
          pc' = [pc EXCEPT ![p] = l] /\ (l = "mark" => install' = "files")
    BY <1>7 DEF Extract, Fails
  <2>3. InstallOK(p)'
    BY <1>b, <2>1, <2>2 DEF InstallOK, Unmarked
  <2> QED
    BY <1>a, <2>1, <2>2, <2>3, LoneStep DEF Working
<1>8. ASSUME NEW p \in Procs, SetVersion(p) PROVE FetchInv'
  <2>1. pc[p] = "mark" /\ install = "files" /\ UNCHANGED <<part, install>>
    BY <1>8, <1>a DEF SetVersion, InstallOK
  <2>2. PICK l \in {"chmod", "up"} :
          pc' = [pc EXCEPT ![p] = l] /\ (l = "chmod" => marker')
    BY <1>8 DEF SetVersion, Fails
  <2>3. InstallOK(p)'
    BY <1>b, <2>1, <2>2 DEF InstallOK, Unmarked
  <2> QED
    BY <1>a, <2>1, <2>2, <2>3, LoneStep DEF Working
<1>9. ASSUME NEW p \in Procs, Chmod(p) PROVE FetchInv'
  <2>1. /\ pc[p] = "chmod" /\ marker
        /\ install' \in {install, "usable"} /\ UNCHANGED <<part, marker>>
    BY <1>9, <1>a DEF Chmod, InstallOK
  <2>2. PICK l \in {"tidy", "up"} : pc' = [pc EXCEPT ![p] = l]
    BY <1>9 DEF Chmod, Fails
  <2>3. InstallOK(p)'
    BY <1>b, <2>1, <2>2 DEF InstallOK, Unmarked
  <2> QED
    BY <1>a, <2>1, <2>2, <2>3, LoneStep DEF Working
<1>10. ASSUME NEW p \in Procs, Tidy(p) PROVE FetchInv'
  <2>1. pc[p] = "tidy" /\ part' \in {part, <<>>} /\ UNCHANGED <<install, marker>>
    BY <1>10 DEF Tidy
  <2>2. PICK l \in {"verify", "up"} : pc' = [pc EXCEPT ![p] = l]
    BY <1>10 DEF Tidy, Fails
  <2>3. InstallOK(p)'
    BY <1>b, <2>1, <2>2 DEF InstallOK, Unmarked
  <2>4. Len(part') <= N /\ \A i \in DOMAIN part' : part'[i] = i
    BY <1>a, <2>1, SizeAssumption
  <2> QED
    BY <1>a, <2>1, <2>2, <2>3, <2>4, LoneStep DEF Working
<1>11. ASSUME NEW p \in Procs, Exit(p) PROVE FetchInv'
  <2>1. /\ pc[p] # "off" /\ pc' = [pc EXCEPT ![p] = "off"]
        /\ UNCHANGED <<part, marker, next>>
        /\ install' = install \/ pc[p] \in {"clean", "extract"}
    BY <1>11 DEF Exit
  <2>2. InstallOK(p)'
    BY <1>b, <2>1 DEF InstallOK, Unmarked
  <2>3. CASE pc[p] \in Working
    <3>1. marker' => install' \in {"files", "usable"}
      BY <1>a, <2>1 DEF InstallOK, Unmarked
    <3> QED
      BY <1>a, <2>1, <2>2, <2>3, <3>1, LoneStep
  <2>4. CASE pc[p] \notin Working
    <3>1. install' = install
      BY <2>1, <2>4 DEF Working
    <3>2. Alone'
      BY <1>b, <2>1 DEF FetchInv, Alone, Working
    <3>3. ASSUME NEW q \in Procs PROVE InstallOK(q)'
      BY <1>a, <1>b, <2>1, <2>2, <3>1 DEF InstallOK
    <3> QED
      BY <1>a, <2>1, <3>1, <3>2, <3>3 DEF FetchInv
  <2> QED
    BY <2>3, <2>4
<1>12. ASSUME NEW p \in Procs, Asks(p) PROVE FetchInv'
  <2>1. /\ pc[p] = "try" /\ pc' = [pc EXCEPT ![p] = "ask"]
        /\ UNCHANGED <<part, install, marker>>
    BY <1>12 DEF Asks, shared
  <2>2. next'[p] = Len(part') + 1
    BY <1>12, <2>1 DEF Asks, TypeInv, FileOK
  <2>3. InstallOK(p)'
    BY <1>a, <1>b, <2>1, <2>2 DEF InstallOK, Unmarked
  <2> QED
    BY <1>a, <2>1, <2>3, LoneStep DEF Working
<1>13. CASE UNCHANGED vars
  BY <1>a, <1>13 DEF vars, shared, FetchInv, Alone, InstallOK
<1> QED
  BY <1>1, <1>2, <1>3, <1>4, <1>5, <1>6, <1>7, <1>8, <1>9, <1>10, <1>11, <1>12, <1>13
     DEF Next, Work, Idle

\* So it holds of every behaviour.
LEMMA FetchInvariance == Spec => [](TypeInv /\ FetchInv)
<1>1. Init => FetchInv
  BY SizeAssumption DEF Init, FetchInv, Alone, InstallOK, Working, Unmarked
<1> QED
  BY <1>1, TypeInvariance, FetchInvKept, PTL DEF Spec

(* Whatever stalls, restarts and servers without Range a download has been *)
(* through, the .part file a lone daemon keeps is a beginning of the       *)
(* release.                                                                *)
THEOREM PartCorrect == Spec => []PartIsPrefix
<1>1. FetchInv => PartIsPrefix
  BY DEF FetchInv, PartIsPrefix
<1> QED
  BY <1>1, FetchInvariance, PTL

(* And what it has marked as supported is a full extraction.               *)
THEOREM MarkCorrect == Spec => []MarkedIsFull
<1>1. FetchInv => MarkedIsFull
  BY DEF FetchInv, MarkedIsFull
<1> QED
  BY <1>1, FetchInvariance, PTL

(* It gives an older install up only for a release it has in full.         *)
THEOREM OldInstallSafe == Spec => OldInstallKept
<1>1. FetchInv /\ [Next]_vars
        => (~crowded /\ install = "old" /\ install' # "old" => part = Whole)
  BY DEF FetchInv, InstallOK, Next, Work, vars, shared, Start, Resolve, LoopEnds, Asks, Responds,
         Chunk, StreamEnds, Check, Clean, Extract, SetVersion, Chmod, Tidy, Verify,
         NoResponse, Stalls, Exit
<1> QED
  BY <1>1, FetchInvariance, PTL DEF Spec, OldInstallKept

(* And what was downloaded, only once it is installed, or for want of any  *)
(* answer from the server.                                                 *)
THEOREM DownloadKept == Spec => Resumes
<1>1. ASSUME TypeInv, FetchInv, [Next]_vars, ~crowded, ranges, sized, part # <<>>, part' = <<>>
      PROVE  marker \/ \E p \in Procs : pc[p] = "check" /\ ~known[p]
  <2>a. part \in Seq(Chunks) /\ Len(part) \in Nat \ {0}
    BY <1>1 DEF TypeInv, FileOK
  <2>1. PICK p \in Procs : Responds(p) \/ Chunk(p) \/ Check(p) \/ Tidy(p)
    BY <1>1 DEF Next, Work, vars, shared, Start, Resolve, LoopEnds, Asks, StreamEnds, Clean,
                Extract, SetVersion, Chmod, Verify, NoResponse, Stalls, Exit
  <2>2. ~Responds(p)
    <3>1. Responds(p) => next[p] = Len(part) + 1
      BY <1>1 DEF Responds, FetchInv, InstallOK
    <3>2. Responds(p) => part' = part
      BY <1>1, <2>a, <3>1 DEF Responds
    <3> QED
      BY <1>1, <3>2
  <2>3. ~Chunk(p)
    <3>1. ASSUME Chunk(p) PROVE Len(part') > 0
      <4>1. next[p] = Len(part) + 1 /\ next[p] <= N
        BY <1>1, <3>1 DEF Chunk, FetchInv, InstallOK
      <4>2. part' = WrittenAt(next[p], next[p]) /\ next[p] \in Chunks
        BY <2>a, <3>1, <4>1 DEF Chunk, Chunks
      <4> QED
        BY <2>a, <4>1, <4>2, WrittenIsSeq
    <3> QED
      BY <1>1, <3>1
  <2>4. ASSUME Check(p) PROVE pc[p] = "check" /\ ~known[p]
    <3>1. pc[p] = "check" /\ ~Valid /\ ~(known[p] /\ Len(part) # N)
      BY <1>1, <2>4 DEF Check
    <3>2. Len(part) # N
      BY <1>1, <2>a, <3>1 DEF Valid, FetchInv
    <3> QED
      BY <3>1, <3>2
  <2>5. ASSUME Tidy(p) PROVE marker
    BY <1>1, <2>5 DEF Tidy, FetchInv, InstallOK
  <2> QED
    BY <2>1, <2>2, <2>3, <2>4, <2>5
<1> QED
  BY <1>1, FetchInvariance, PTL DEF Spec, Resumes

=============================================================================
