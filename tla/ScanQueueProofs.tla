-------------------------- MODULE ScanQueueProofs --------------------------
(***************************************************************************)
(* The safety properties of ScanQueue for every set of jobs, every         *)
(* concurrency and every combination of faults.                            *)
(***************************************************************************)
EXTENDS ScanQueue, FiniteSetTheorems, TLAPS

(* A row not claimed yet has no goroutine: needed so that a claim adds one *)
(* goroutine and not replaces one.                                         *)
UnclaimedIdle ==
    \A j \in Jobs : status[j] \in {"absent", "pending"} => runner[j] = "none"

(* The goroutine that is about to mark its row completed has a snapshot.   *)
CompletingPersisted == \A j \in Jobs : runner[j] = "complete" => j \in persisted

(* The inductive invariant.                                                *)
IInv == /\ TypeOK
        /\ SemCounts
        /\ UnclaimedIdle
        /\ WorkedRowsClaimed
        /\ DownIsQuiet
        /\ CompletedHasSnapshot
        /\ CompletingPersisted

-----------------------------------------------------------------------------
(* The goroutines in flight are finitely many.                             *)
LEMMA InFlightFinite ==
    /\ IsFiniteSet(InFlight)
    /\ Cardinality(InFlight) \in Nat
BY JobsAssumption, FS_Subset, FS_CardinalityType DEF InFlight

(* A goroutine that starts adds one to those in flight.                    *)
LEMMA InFlightGrows ==
    ASSUME NEW j \in Jobs, NEW pc \in RunnerPC \ {"none"}, TypeOK,
           runner[j] = "none", runner' = [runner EXCEPT ![j] = pc]
    PROVE  Cardinality(InFlight') = Cardinality(InFlight) + 1
<1>1. InFlight' = InFlight \cup {j}
  BY DEF InFlight, TypeOK, RunnerPC
<1>2. j \notin InFlight
  BY DEF InFlight
<1> QED BY <1>1, <1>2, InFlightFinite, FS_AddElement

(* One that goes from one of its steps to another leaves them as they are. *)
LEMMA InFlightKept ==
    ASSUME NEW j \in Jobs, NEW pc \in RunnerPC \ {"none"}, TypeOK,
           runner[j] # "none", runner' = [runner EXCEPT ![j] = pc]
    PROVE  InFlight' = InFlight
BY DEF InFlight, TypeOK, RunnerPC

(* One that returns takes one away.                                        *)
LEMMA InFlightShrinks ==
    ASSUME NEW j \in Jobs, TypeOK,
           runner[j] # "none", runner' = [runner EXCEPT ![j] = "none"]
    PROVE  /\ Cardinality(InFlight') = Cardinality(InFlight) - 1
           /\ Cardinality(InFlight) > 0
<1>1. InFlight' = InFlight \ {j}
  BY DEF InFlight, TypeOK
<1>2. j \in InFlight
  BY DEF InFlight
<1>3. Cardinality(InFlight \ {j}) = Cardinality(InFlight) - 1
  BY <1>2, InFlightFinite, FS_RemoveElement
<1>4. Cardinality(InFlight) # 0
  BY <1>2, InFlightFinite, FS_EmptySet
<1> QED BY <1>1, <1>3, <1>4, InFlightFinite

-----------------------------------------------------------------------------
(* The empty table with no process running satisfies the invariant.        *)
LEMMA InitIInv == Init => IInv
<1> SUFFICES ASSUME Init PROVE IInv
  OBVIOUS
<1>1. TypeOK
  BY ConcurrencyAssumption DEF Init, TypeOK, Status, Messages, LoopPC, RunnerPC
<1>2. InFlight = {} /\ Owned = {}
  BY DEF Init, InFlight, Owned, Working
<1>3. SemCounts
  BY <1>2, FS_EmptySet DEF Init, SemCounts
<1>4. WorkedRowsClaimed
  BY <1>2 DEF WorkedRowsClaimed
<1>5. DownIsQuiet
  BY <1>2 DEF Init, DownIsQuiet
<1>6. UnclaimedIdle /\ CompletingPersisted /\ CompletedHasSnapshot
  BY DEF Init, UnclaimedIdle, CompletingPersisted, CompletedHasSnapshot
<1> QED BY <1>1, <1>3, <1>4, <1>5, <1>6 DEF IInv

-----------------------------------------------------------------------------
(* The requests write the table only, and never the row of a goroutine     *)
(* other than to cancel it.                                                *)
LEMMA RequestIInv == IInv /\ Request => IInv'
<1> SUFFICES ASSUME IInv, Request PROVE IInv'
  OBVIOUS
<1> USE DEF IInv
<1>1. ASSUME NEW j \in Jobs, CreateJob(j) PROVE IInv'
  <2>1. TypeOK'
    BY <1>1 DEF CreateJob, TypeOK, Status
  <2>2. InFlight' = InFlight /\ Owned' = Owned
    BY <1>1 DEF CreateJob, InFlight, Owned
  <2>3. SemCounts' /\ DownIsQuiet'
    BY <1>1, <2>2 DEF CreateJob, SemCounts, DownIsQuiet
  <2>4. UnclaimedIdle'
    BY <1>1 DEF CreateJob, UnclaimedIdle, TypeOK
  <2>5. WorkedRowsClaimed'
    BY <1>1, <2>2 DEF CreateJob, WorkedRowsClaimed, UnclaimedIdle, WasCancelled,
                      Owned, Working, TypeOK
  <2>6. CompletedHasSnapshot' /\ CompletingPersisted'
    BY <1>1 DEF CreateJob, CompletedHasSnapshot, CompletingPersisted, TypeOK
  <2> QED BY <2>1, <2>3, <2>4, <2>5, <2>6
<1>2. ASSUME NEW j \in Jobs, CancelJob(j) PROVE IInv'
  <2>1. TypeOK'
    BY <1>2 DEF CancelJob, TypeOK, Status, Messages
  <2>2. InFlight' = InFlight /\ Owned' = Owned
    BY <1>2 DEF CancelJob, InFlight, Owned
  <2>3. SemCounts' /\ DownIsQuiet'
    BY <1>2, <2>2 DEF CancelJob, SemCounts, DownIsQuiet
  <2>4. UnclaimedIdle'
    BY <1>2 DEF CancelJob, UnclaimedIdle, TypeOK
  <2>5. WorkedRowsClaimed'
    BY <1>2, <2>2 DEF CancelJob, WorkedRowsClaimed, WasCancelled, Owned, TypeOK
  <2>6. CompletedHasSnapshot' /\ CompletingPersisted'
    BY <1>2 DEF CancelJob, CompletedHasSnapshot, CompletingPersisted, TypeOK
  <2> QED BY <2>1, <2>3, <2>4, <2>5, <2>6
<1>3. ASSUME NEW h \in Hosts, DeleteTargetJobs(h) PROVE IInv'
  <2>1. TypeOK'
    BY <1>3 DEF DeleteTargetJobs, TypeOK, Status
  <2>2. InFlight' = InFlight /\ Owned' = Owned
    BY <1>3 DEF DeleteTargetJobs, InFlight, Owned
  <2>3. SemCounts' /\ DownIsQuiet'
    BY <1>3, <2>2 DEF DeleteTargetJobs, SemCounts, DownIsQuiet
  <2>4. UnclaimedIdle'
    BY <1>3 DEF DeleteTargetJobs, UnclaimedIdle, TypeOK
  <2>5. WorkedRowsClaimed'
    BY <1>3, <2>2 DEF DeleteTargetJobs, WorkedRowsClaimed, WasCancelled, Owned, TypeOK
  <2>6. CompletedHasSnapshot' /\ CompletingPersisted'
    BY <1>3 DEF DeleteTargetJobs, CompletedHasSnapshot, CompletingPersisted, TypeOK
  <2> QED BY <2>1, <2>3, <2>4, <2>5, <2>6
<1> QED BY <1>1, <1>2, <1>3 DEF Request

(* The loop takes and returns its slot in step with where it is.           *)
LEMMA LoopIInv == IInv /\ LoopStep => IInv'
<1> SUFFICES ASSUME IInv, LoopStep PROVE IInv'
  OBVIOUS
<1> USE DEF IInv
<1>1. ASSUME \/ LoopWake \/ LoopPoll \/ LoopExit \/ ProcessDone \/ AcquireSem
             \/ ClaimNone \/ ClaimError
      PROVE  IInv'
  <2> USE DEF LoopWake, LoopPoll, LoopExit, ProcessDone, AcquireSem, ClaimNone,
              ClaimError, GiveUp, table
  <2>1. InFlight' = InFlight /\ Owned' = Owned
    BY <1>1 DEF InFlight, Owned
  <2>2. SemCounts'
    BY <1>1, <2>1, InFlightFinite DEF SemCounts, TypeOK
  <2>3. TypeOK'
    BY <1>1, InFlightFinite, ConcurrencyAssumption DEF TypeOK, LoopPC, SemCounts
  <2>4. DownIsQuiet'
    BY <1>1, <2>1 DEF DownIsQuiet
  <2>5. UnclaimedIdle' /\ CompletedHasSnapshot' /\ CompletingPersisted'
    BY <1>1 DEF UnclaimedIdle, CompletedHasSnapshot, CompletingPersisted
  <2>6. WorkedRowsClaimed'
    BY <1>1, <2>1 DEF WorkedRowsClaimed, WasCancelled
  <2> QED BY <2>2, <2>3, <2>4, <2>5, <2>6
<1>2. ASSUME NEW j \in Jobs, Claim(j) PROVE IInv'
  <2> USE DEF Claim
  <2>1. status[j] = "pending" /\ runner[j] = "none"
    BY <1>2 DEF Oldest, UnclaimedIdle
  <2>2. TypeOK'
    BY <1>2 DEF TypeOK, Status, LoopPC, RunnerPC, Working
  <2>3. Cardinality(InFlight') = Cardinality(InFlight) + 1
    BY <1>2, <2>1, InFlightGrows DEF RunnerPC, Working
  <2>4. SemCounts'
    BY <1>2, <2>3, InFlightFinite DEF SemCounts
  <2>5. Owned' = Owned \cup {j}
    BY <1>2 DEF Owned, Working, TypeOK
  <2>6. WorkedRowsClaimed'
    BY <1>2, <2>5 DEF WorkedRowsClaimed, WasCancelled, Owned, TypeOK
  <2>7. DownIsQuiet'
    BY <1>2 DEF DownIsQuiet
  <2>8. UnclaimedIdle' /\ CompletedHasSnapshot' /\ CompletingPersisted'
    BY <1>2 DEF UnclaimedIdle, CompletedHasSnapshot, CompletingPersisted, TypeOK
  <2> QED BY <2>2, <2>4, <2>6, <2>7, <2>8
<1>3. ASSUME NEW j \in Jobs, ClaimCommitLost(j) PROVE IInv'
  <2> USE DEF ClaimCommitLost, GiveUp
  <2>1. status[j] = "pending" /\ runner[j] = "none"
    BY <1>3 DEF Oldest, UnclaimedIdle
  <2>2. InFlight' = InFlight /\ Owned' = Owned
    BY <1>3 DEF InFlight, Owned
  <2>3. SemCounts'
    BY <1>3, <2>2, InFlightFinite DEF SemCounts, TypeOK
  <2>4. TypeOK'
    BY <1>3, InFlightFinite, ConcurrencyAssumption DEF TypeOK, Status, LoopPC, SemCounts
  <2>5. WorkedRowsClaimed'
    BY <1>3, <2>2 DEF WorkedRowsClaimed, WasCancelled, Owned, TypeOK
  <2>6. DownIsQuiet'
    BY <1>3, <2>2 DEF DownIsQuiet
  <2>7. UnclaimedIdle' /\ CompletedHasSnapshot' /\ CompletingPersisted'
    BY <1>3 DEF UnclaimedIdle, CompletedHasSnapshot, CompletingPersisted, TypeOK
  <2> QED BY <2>3, <2>4, <2>5, <2>6, <2>7
<1> QED BY <1>1, <1>2, <1>3 DEF LoopStep

-----------------------------------------------------------------------------
(* What the steps of a goroutine before its last one have in common: they  *)
(* move it along and leave the slots alone.                                *)
LEMMA RunnerIInv == ASSUME NEW j \in Jobs PROVE IInv /\ RunnerStep(j) => IInv'
<1> SUFFICES ASSUME IInv, RunnerStep(j) PROVE IInv'
  OBVIOUS
<1> USE DEF IInv
<1>1. ASSUME RunReturns(j) \/ RunFails(j) \/ CheckCancelled(j) \/ PersistScan(j)
                \/ MarkCompleted(j)
      PROVE  IInv'
  <2> USE DEF RunReturns, RunFails, CheckCancelled, PersistScan, MarkCompleted,
              FailJob, Goto, table
  <2>1. /\ runner[j] \in Working
        /\ j \in Owned
        /\ \E pc \in RunnerPC \ {"none"} : runner' = [runner EXCEPT ![j] = pc]
    BY <1>1 DEF RunnerPC, Working, Owned
  <2>2. InFlight' = InFlight
    BY <2>1, InFlightKept DEF Working
  <2>3. status[j] \in {"running", "failed"}
    BY <2>1 DEF WorkedRowsClaimed, WasCancelled
  <2>4. /\ message' \in [Jobs -> Messages]
        /\ persisted' \subseteq Jobs
        /\ runner' \in [Jobs -> RunnerPC]
    <3>1. message' \in [Jobs -> Messages]
      BY <1>1 DEF TypeOK, Messages
    <3>2. persisted' \subseteq Jobs
      BY <1>1 DEF TypeOK
    <3>3. runner' \in [Jobs -> RunnerPC]
      BY <2>1 DEF TypeOK
    <3> QED BY <3>1, <3>2, <3>3
  <2>5. status' \in [Jobs -> Status]
    BY <1>1 DEF TypeOK, Status
  <2>6. TypeOK'
    BY <1>1, <2>4, <2>5 DEF TypeOK
  <2>7. SemCounts' /\ DownIsQuiet'
    BY <1>1, <2>2 DEF SemCounts, DownIsQuiet
  <2>8. UnclaimedIdle'
    BY <1>1, <2>3 DEF UnclaimedIdle, TypeOK
  <2>9. WorkedRowsClaimed'
    <3>1. \A i \in Owned' :
             i \in Owned /\ status'[i] = status[i] /\ message'[i] = message[i]
      <4> SUFFICES ASSUME NEW i \in Jobs, runner'[i] \in Working
                   PROVE  runner[i] \in Working /\ status'[i] = status[i] /\ message'[i] = message[i]
        BY DEF Owned
      <4>1. CASE i = j
        <5>1. UNCHANGED <<status, message>>
          BY <1>1, <4>1 DEF TypeOK, Working
        <5> QED BY <2>1, <4>1, <5>1
      <4>2. CASE i # j
        <5>1. status'[i] = status[i] /\ message'[i] = message[i]
          BY <1>1, <4>2 DEF TypeOK
        <5> QED BY <2>1, <4>2, <5>1 DEF TypeOK
      <4> QED BY <4>1, <4>2
    <3> QED BY <3>1 DEF WorkedRowsClaimed, WasCancelled
  <2>10. CompletingPersisted'
    BY <1>1 DEF CompletingPersisted, TypeOK
  <2>11. CompletedHasSnapshot'
    BY <1>1, <2>3 DEF CompletedHasSnapshot, CompletingPersisted, TypeOK
  <2> QED BY <2>6, <2>7, <2>8, <2>9, <2>10, <2>11
<1>2. CASE Release(j)
  <2> USE DEF Release, Goto, table
  <2>1. /\ Cardinality(InFlight') = Cardinality(InFlight) - 1
        /\ Cardinality(InFlight) > 0
    BY <1>2, InFlightShrinks
  <2>2. Owned' = Owned
    BY <1>2 DEF Owned, Working, TypeOK
  <2>3. SemCounts'
    BY <1>2, <2>1, InFlightFinite DEF SemCounts, TypeOK
  <2>4. TypeOK'
    BY <1>2, <2>1, InFlightFinite, ConcurrencyAssumption
    DEF TypeOK, SemCounts, RunnerPC
  <2>5. worker # "down"
    BY <1>2 DEF DownIsQuiet, InFlight
  <2>6. DownIsQuiet'
    BY <1>2, <2>5 DEF DownIsQuiet
  <2>7. UnclaimedIdle' /\ CompletedHasSnapshot' /\ CompletingPersisted'
    BY <1>2 DEF UnclaimedIdle, CompletedHasSnapshot, CompletingPersisted, TypeOK
  <2>8. WorkedRowsClaimed'
    BY <1>2, <2>2 DEF WorkedRowsClaimed, WasCancelled
  <2> QED BY <2>3, <2>4, <2>6, <2>7, <2>8
<1> QED BY <1>1, <1>2 DEF RunnerStep

(* A context that is done changes what later statements do, and nothing    *)
(* now.                                                                    *)
LEMMA ExpireIInv == ASSUME NEW j \in Jobs PROVE IInv /\ Expire(j) => IInv'
<1> SUFFICES ASSUME IInv, Expire(j) PROVE IInv'
  OBVIOUS
<1> USE DEF IInv, Expire, table
<1>1. TypeOK'
  BY DEF TypeOK
<1>2. InFlight' = InFlight /\ Owned' = Owned
  BY DEF InFlight, Owned
<1>3. SemCounts' /\ DownIsQuiet'
  BY <1>2 DEF SemCounts, DownIsQuiet
<1>4. UnclaimedIdle' /\ CompletedHasSnapshot' /\ CompletingPersisted'
  BY DEF UnclaimedIdle, CompletedHasSnapshot, CompletingPersisted
<1>5. WorkedRowsClaimed'
  BY <1>2 DEF WorkedRowsClaimed, WasCancelled
<1> QED BY <1>1, <1>3, <1>4, <1>5

(* Start recovers while nothing is in flight; Stop and Crash leave nothing *)
(* in flight.                                                              *)
LEMMA LifecycleIInv == IInv /\ (Start \/ Stop \/ StopReturns \/ Crash) => IInv'
<1> SUFFICES ASSUME IInv, Start \/ Stop \/ StopReturns \/ Crash PROVE IInv'
  OBVIOUS
<1> USE DEF IInv, table
<1>1. CASE Start
  <2> USE DEF Start
  <2>1. InFlight = {} /\ InFlight' = {} /\ Owned' = {}
    BY <1>1 DEF DownIsQuiet, InFlight, Owned, Working
  <2>2. TypeOK'
    <3>1. status' \in [Jobs -> Status]
      BY <1>1 DEF TypeOK, Status
    <3>2. message' \in [Jobs -> Messages]
      BY <1>1 DEF TypeOK, Messages
    <3>3. /\ worker' = "up" /\ wake' = 0 /\ loop' = "select"
          /\ UNCHANGED <<created, inserts, persisted, sem, runner, ctx>>
      BY <1>1
    <3> HIDE DEF Start
    <3> QED BY <3>1, <3>2, <3>3 DEF TypeOK, LoopPC
  <2>3. SemCounts' /\ WorkedRowsClaimed' /\ DownIsQuiet'
    BY <1>1, <2>1 DEF SemCounts, WorkedRowsClaimed, DownIsQuiet
  <2>4. UnclaimedIdle' /\ CompletedHasSnapshot' /\ CompletingPersisted'
    BY <1>1 DEF UnclaimedIdle, CompletedHasSnapshot, CompletingPersisted, TypeOK
  <2> QED BY <2>2, <2>3, <2>4
<1>2. CASE Stop \/ StopReturns
  <2> USE DEF Stop, StopReturns
  <2>1. InFlight' = InFlight /\ Owned' = Owned
    BY <1>2 DEF InFlight, Owned
  <2>2. TypeOK' /\ SemCounts'
    BY <1>2, <2>1 DEF TypeOK, SemCounts
  <2>3. DownIsQuiet'
    BY <1>2, <2>1, FS_EmptySet DEF DownIsQuiet, SemCounts
  <2>4. UnclaimedIdle' /\ CompletedHasSnapshot' /\ CompletingPersisted'
    BY <1>2 DEF UnclaimedIdle, CompletedHasSnapshot, CompletingPersisted
  <2>5. WorkedRowsClaimed'
    BY <1>2, <2>1 DEF WorkedRowsClaimed, WasCancelled
  <2> QED BY <2>2, <2>3, <2>4, <2>5
<1>3. CASE Crash
  <2> USE DEF Crash
  <2>1. InFlight' = {} /\ Owned' = {}
    BY <1>3 DEF InFlight, Owned, Working
  <2>2. TypeOK'
    BY <1>3, ConcurrencyAssumption DEF TypeOK, LoopPC, RunnerPC
  <2>3. SemCounts' /\ WorkedRowsClaimed' /\ DownIsQuiet'
    BY <1>3, <2>1, FS_EmptySet DEF SemCounts, WorkedRowsClaimed, DownIsQuiet
  <2>4. UnclaimedIdle' /\ CompletedHasSnapshot' /\ CompletingPersisted'
    BY <1>3 DEF UnclaimedIdle, CompletedHasSnapshot, CompletingPersisted
  <2> QED BY <2>2, <2>3, <2>4
<1> QED BY <1>1, <1>2, <1>3

(* Stuttering changes nothing.                                             *)
LEMMA StutterIInv == IInv /\ UNCHANGED vars => IInv'
<1> SUFFICES ASSUME IInv, UNCHANGED vars PROVE IInv'
  OBVIOUS
<1> USE DEF IInv, vars, table
<1>1. InFlight' = InFlight /\ Owned' = Owned
  BY DEF InFlight, Owned
<1>2. TypeOK' /\ SemCounts' /\ DownIsQuiet'
  BY <1>1 DEF TypeOK, SemCounts, DownIsQuiet
<1>3. UnclaimedIdle' /\ CompletedHasSnapshot' /\ CompletingPersisted'
  BY DEF UnclaimedIdle, CompletedHasSnapshot, CompletingPersisted
<1>4. WorkedRowsClaimed'
  BY <1>1 DEF WorkedRowsClaimed, WasCancelled
<1> QED BY <1>2, <1>3, <1>4

(* The invariant holds throughout every behaviour of the scan worker.      *)
THEOREM SpecIInv == Spec => []IInv
<1>1. IInv /\ [Next]_vars => IInv'
  BY RequestIInv, LoopIInv, RunnerIInv, ExpireIInv, LifecycleIInv, StutterIInv
  DEF Next
<1> QED BY InitIInv, <1>1, PTL DEF Spec

(* Every variable keeps its type.                                          *)
THEOREM TypeCorrect == Spec => []TypeOK
BY SpecIInv, PTL DEF IInv

(* The semaphore counts the goroutines in flight and the loop's slot, so   *)
(* it is never leaked, and at most maxConcurrency scans run at once.       *)
THEOREM ConcurrencyBounded == Spec => [](SemCounts /\ BoundedConcurrency)
<1>1. IInv => SemCounts /\ BoundedConcurrency
  BY InFlightFinite, ConcurrencyAssumption
  DEF IInv, TypeOK, SemCounts, BoundedConcurrency
<1> QED BY <1>1, SpecIInv, PTL

(* A row is claimed at most once while it is worked on, and no deletion or *)
(* recovery touches it meanwhile.                                          *)
THEOREM RowsClaimedOnce == Spec => []WorkedRowsClaimed
BY SpecIInv, PTL DEF IInv

(* Nothing runs in a worker that Stop has stopped or that died.            *)
THEOREM StoppedWorkerQuiet == Spec => []DownIsQuiet
BY SpecIInv, PTL DEF IInv

(* A completed scan has a stored snapshot.                                 *)
THEOREM CompletedScanStored == Spec => []CompletedHasSnapshot
BY SpecIInv, PTL DEF IInv

-----------------------------------------------------------------------------
(* Only the goroutine of a row changes it once it failed, so a scan that   *)
(* was cancelled before it was claimed is never run and never completed.   *)
LEMMA FailedRowKept ==
    ASSUME IInv, [Next]_vars, NEW k \in Jobs, status[k] = "failed", k \notin Owned
    PROVE  status'[k] = "failed" /\ message'[k] = message[k]
<1> USE DEF IInv, TypeOK
<1>1. CASE UNCHANGED vars
  BY <1>1 DEF vars, table
<1>2. CASE Request
  BY <1>2 DEF Request, CreateJob, CancelJob, DeleteTargetJobs
<1>3. CASE LoopStep
  BY <1>3 DEF LoopStep, LoopWake, LoopPoll, LoopExit, ProcessDone, AcquireSem, ClaimNone,
              ClaimError, Claim, ClaimCommitLost, Oldest, table
<1>4. ASSUME NEW j \in Jobs, RunnerStep(j) \/ Expire(j)
      PROVE  status'[k] = "failed" /\ message'[k] = message[k]
  BY <1>4 DEF RunnerStep, RunReturns, RunFails, CheckCancelled, PersistScan, MarkCompleted,
              Release, Expire, FailJob, Goto, Owned, Working, table
<1>5. CASE Start \/ Stop \/ StopReturns \/ Crash
  BY <1>5 DEF Start, Stop, StopReturns, Crash, table
<1> QED BY <1>1, <1>2, <1>3, <1>4, <1>5 DEF Next

(* A failed row with no goroutine at work never changes again.             *)
THEOREM FinishedRowsStayFinal == Spec => FinishedRowsFinal
<1>1. IInv /\ [Next]_vars
        => [\A j \in Jobs : status[j] = "failed" /\ j \notin Owned
                => status'[j] = "failed" /\ message'[j] = message[j]]_vars
  BY FailedRowKept
<1> QED BY <1>1, SpecIInv, PTL DEF Spec, FinishedRowsFinal

-----------------------------------------------------------------------------
(* The refinement of JobQueue: every step of the worker is a step of the   *)
(* abstract queue or leaves its two variables alone.                       *)

(* The abstract module counts with the same operator.                      *)
LEMMA SameCardinality == Abstract!Cardinality(Owned) = Cardinality(Owned)
BY DEF Abstract!Cardinality, Cardinality, Abstract!IsFiniteSet, IsFiniteSet

(* A goroutine that cannot write its row any more finishes it.             *)
LEMMA OwnerLeaves ==
    ASSUME TypeOK, NEW j \in Jobs, j \in Owned, runner' = [runner EXCEPT ![j] = "release"]
    PROVE  Owned' = Owned \ {j}
BY DEF TypeOK, Owned, Working, RunnerPC

(* One that goes on working keeps it.                                      *)
LEMMA OwnerStays ==
    ASSUME TypeOK, NEW j \in Jobs, j \in Owned, NEW pc \in Working,
           runner' = [runner EXCEPT ![j] = pc]
    PROVE  Owned' = Owned
BY DEF TypeOK, Owned, Working, RunnerPC

(* Requests are the abstract submissions, cancellations and deletions.     *)
LEMMA RequestRefines == IInv /\ Request => Abstract!Next
<1> SUFFICES ASSUME IInv, Request PROVE Abstract!Next
  OBVIOUS
<1> USE DEF IInv
<1>1. ASSUME NEW j \in Jobs, CreateJob(j) PROVE Abstract!Next
  <2>1. Abstract!Submit(j)
    BY <1>1 DEF CreateJob, Abstract!Submit, Owned
  <2> QED BY <2>1 DEF Abstract!Next
<1>2. ASSUME NEW j \in Jobs, CancelJob(j) PROVE Abstract!Next
  <2>1. Abstract!Cancel(j)
    BY <1>2 DEF CancelJob, Abstract!Cancel, Owned
  <2> QED BY <2>1 DEF Abstract!Next
<1>3. ASSUME NEW h \in Hosts, DeleteTargetJobs(h) PROVE Abstract!Next
  <2>1. PICK S \in SUBSET {j \in Jobs : HostOf[j] = h /\ status[j] = "completed"} :
          /\ S # {}
          /\ status' = [j \in Jobs |-> IF j \in S THEN "deleted" ELSE status[j]]
    BY <1>3 DEF DeleteTargetJobs
  <2>2. Abstract!Purge(S)
    BY <1>3, <2>1 DEF DeleteTargetJobs, Abstract!Purge, Abstract!Exists, Owned
  <2>3. S \in SUBSET Jobs
    BY <2>1
  <2> QED BY <2>2, <2>3 DEF Abstract!Next
<1> QED BY <1>1, <1>2, <1>3 DEF Request

(* The loop claims rows, for a goroutine there is a slot for or for nobody.*)
LEMMA LoopRefines == IInv /\ LoopStep => [Abstract!Next]_(Abstract!vars)
<1> SUFFICES ASSUME IInv, LoopStep PROVE [Abstract!Next]_(Abstract!vars)
  OBVIOUS
<1> USE DEF IInv
<1>1. CASE \/ LoopWake \/ LoopPoll \/ LoopExit \/ ProcessDone \/ AcquireSem
           \/ ClaimNone \/ ClaimError
  BY <1>1 DEF LoopWake, LoopPoll, LoopExit, ProcessDone, AcquireSem, ClaimNone, ClaimError,
              table, Abstract!vars, Owned
<1>2. ASSUME NEW j \in Jobs, Claim(j) PROVE Abstract!Next
  <2>1. Owned' = Owned \cup {j}
    BY <1>2 DEF Claim, Owned, Working, TypeOK
  <2>2. Owned \subseteq InFlight
    BY DEF Owned, InFlight, Working
  <2>3. Cardinality(Owned) \in Nat /\ Cardinality(Owned) <= Cardinality(InFlight)
    BY <2>2, InFlightFinite, FS_Subset, FS_CardinalityType
  <2>4. Cardinality(InFlight) < MaxConcurrency
    BY <1>2, InFlightFinite, ConcurrencyAssumption DEF Claim, SemCounts, TypeOK
  <2>5. Cardinality(Owned) < MaxConcurrency
    BY <2>3, <2>4, InFlightFinite, ConcurrencyAssumption
  <2>6. Abstract!Claim(j)
    <3>1. status[j] = "pending" /\ status' = [status EXCEPT ![j] = "running"]
      BY <1>2 DEF Claim, Oldest
    <3> QED BY <2>1, <2>5, <3>1, SameCardinality DEF Abstract!Claim
  <2> QED BY <2>6 DEF Abstract!Next
<1>3. ASSUME NEW j \in Jobs, ClaimCommitLost(j) PROVE Abstract!Next
  <2>1. Abstract!Claim(j)
    BY <1>3 DEF ClaimCommitLost, Oldest, Abstract!Claim, Owned
  <2> QED BY <2>1 DEF Abstract!Next
<1> QED BY <1>1, <1>2, <1>3 DEF LoopStep

(* A goroutine's steps are invisible until the one that gives the row up.  *)
LEMMA RunnerRefines ==
    ASSUME NEW j \in Jobs
    PROVE  IInv /\ (RunnerStep(j) \/ Expire(j)) => [Abstract!Next]_(Abstract!vars)
<1> SUFFICES ASSUME IInv, RunnerStep(j) \/ Expire(j)
             PROVE  [Abstract!Next]_(Abstract!vars)
  OBVIOUS
<1> USE DEF IInv, Goto, table
<1>1. CASE Release(j) \/ Expire(j)
  BY <1>1 DEF Release, Expire, Abstract!vars, Owned, Working, TypeOK
<1>2. ASSUME j \in Owned, runner' = [runner EXCEPT ![j] = "release"],
             \/ UNCHANGED status
             \/ status' = [status EXCEPT ![j] = "failed"]
             \/ status' = [status EXCEPT ![j] = "completed"]
      PROVE  Abstract!Next
  <2>1. Owned' = Owned \ {j}
    BY <1>2, OwnerLeaves
  <2>2. Abstract!Exists(j)
    BY <1>2 DEF Abstract!Exists, WorkedRowsClaimed, WasCancelled
  <2>3. Abstract!Finish(j)
    BY <1>2, <2>1, <2>2 DEF Abstract!Finish
  <2> QED BY <2>3 DEF Abstract!Next
<1>3. ASSUME j \in Owned, UNCHANGED status,
             \E pc \in Working : runner' = [runner EXCEPT ![j] = pc]
      PROVE  UNCHANGED Abstract!vars
  BY <1>3, OwnerStays DEF Abstract!vars
<1>4. CASE RunReturns(j)
  <2>1. j \in Owned /\ UNCHANGED status /\ runner' = [runner EXCEPT ![j] = "check"]
    BY <1>4 DEF RunReturns, Owned, Working
  <2> QED BY <1>3, <2>1 DEF Working
<1>5. CASE RunFails(j)
  <2>1. /\ j \in Owned
        /\ runner' = [runner EXCEPT ![j] = "release"]
        /\ UNCHANGED status \/ status' = [status EXCEPT ![j] = "failed"]
    BY <1>5 DEF RunFails, FailJob, Owned, Working
  <2> QED BY <1>2, <2>1
<1>6. CASE CheckCancelled(j)
  <2>1. /\ j \in Owned
        /\ UNCHANGED status
        /\ \/ runner' = [runner EXCEPT ![j] = "release"]
           \/ runner' = [runner EXCEPT ![j] = "persist"]
    BY <1>6 DEF CheckCancelled, Owned, Working
  <2> QED BY <1>2, <1>3, <2>1 DEF Working
<1>7. CASE PersistScan(j)
  <2>1. /\ j \in Owned
        /\ \/ UNCHANGED status /\ runner' = [runner EXCEPT ![j] = "complete"]
           \/ /\ runner' = [runner EXCEPT ![j] = "release"]
              /\ UNCHANGED status \/ status' = [status EXCEPT ![j] = "failed"]
    BY <1>7 DEF PersistScan, FailJob, Owned, Working
  <2> QED BY <1>2, <1>3, <2>1 DEF Working
<1>8. CASE MarkCompleted(j)
  <2>1. /\ j \in Owned
        /\ runner' = [runner EXCEPT ![j] = "release"]
        /\ UNCHANGED status \/ status' = [status EXCEPT ![j] = "completed"]
    BY <1>8 DEF MarkCompleted, Owned, Working
  <2> QED BY <1>2, <2>1
<1> QED BY <1>1, <1>4, <1>5, <1>6, <1>7, <1>8 DEF RunnerStep

(* Start recovers, Crash abandons, Stop is invisible.                      *)
LEMMA LifecycleRefines ==
    IInv /\ (Start \/ Stop \/ StopReturns \/ Crash) => [Abstract!Next]_(Abstract!vars)
<1> SUFFICES ASSUME IInv, Start \/ Stop \/ StopReturns \/ Crash
             PROVE  [Abstract!Next]_(Abstract!vars)
  OBVIOUS
<1> USE DEF IInv, table
<1>1. CASE Start
  <2>1. Owned = {} /\ Owned' = Owned
    BY <1>1 DEF Start, DownIsQuiet, InFlight, Owned, Working
  <2>2. Abstract!Recover
    BY <1>1, <2>1 DEF Start, Abstract!Recover
  <2> QED BY <2>2 DEF Abstract!Next
<1>2. CASE Stop \/ StopReturns
  BY <1>2 DEF Stop, StopReturns, Abstract!vars, Owned
<1>3. CASE Crash
  <2>1. Owned' = {}
    BY <1>3 DEF Crash, Owned, Working
  <2>2. Abstract!Abandon \/ UNCHANGED Abstract!vars
    BY <1>3, <2>1 DEF Crash, Abstract!Abandon, Abstract!vars
  <2> QED BY <2>2 DEF Abstract!Next
<1> QED BY <1>1, <1>2, <1>3

(* The scan worker implements the abstract job queue.                      *)
THEOREM ScanQueueImplementsJobQueue == Spec => ImplementsJobQueue
<1>1. Init => Abstract!Init
  BY DEF Init, Abstract!Init, Owned, Working
<1>2. IInv /\ [Next]_vars => [Abstract!Next]_(Abstract!vars)
  <2>1. UNCHANGED vars => UNCHANGED Abstract!vars
    BY DEF vars, table, Abstract!vars, Owned
  <2> QED
    BY <2>1, RequestRefines, LoopRefines, RunnerRefines, LifecycleRefines DEF Next
<1> QED BY <1>1, <1>2, SpecIInv, PTL DEF Spec, ImplementsJobQueue, Abstract!Spec
=============================================================================
