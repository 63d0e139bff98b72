------------------------- MODULE ReportQueueProofs -------------------------
(***************************************************************************)
(* The safety properties of ReportQueue for every set of reports and       *)
(* snapshots, every concurrency, all deadlines and every combination of    *)
(* faults.                                                                 *)
(***************************************************************************)
EXTENDS ReportQueue, FiniteSetTheorems, TLAPS

(* A report not claimed yet has no goroutine: needed so that a claim adds  *)
(* one goroutine and not replaces one.                                     *)
UnclaimedIdle ==
    \A r \in Reports : status[r] \in {"absent", "pending"} => runner[r] = "none"

(* The inductive invariant.                                                *)
IInv == /\ TypeOK
        /\ SemCounts
        /\ UnclaimedIdle
        /\ WorkedRowsClaimed
        /\ DownIsQuiet

-----------------------------------------------------------------------------
(* The goroutines in flight are finitely many.                             *)
LEMMA InFlightFinite ==
    /\ IsFiniteSet(InFlight)
    /\ Cardinality(InFlight) \in Nat
BY ReportsAssumption, FS_Subset, FS_CardinalityType DEF InFlight

(* A goroutine that starts adds one to those in flight.                    *)
LEMMA InFlightGrows ==
    ASSUME NEW r \in Reports, TypeOK,
           runner[r] = "none", runner' = [runner EXCEPT ![r] = "flag"]
    PROVE  Cardinality(InFlight') = Cardinality(InFlight) + 1
<1>1. InFlight' = InFlight \cup {r} /\ r \notin InFlight
  BY DEF InFlight, TypeOK
<1> QED BY <1>1, InFlightFinite, FS_AddElement

(* One that returns takes one away.                                        *)
LEMMA InFlightShrinks ==
    ASSUME NEW r \in Reports, TypeOK,
           runner[r] # "none", runner' = [runner EXCEPT ![r] = "none"]
    PROVE  /\ Cardinality(InFlight') = Cardinality(InFlight) - 1
           /\ Cardinality(InFlight) > 0
<1>1. InFlight' = InFlight \ {r} /\ r \in InFlight
  BY DEF InFlight, TypeOK
<1>2. Cardinality(InFlight \ {r}) = Cardinality(InFlight) - 1
  BY <1>1, InFlightFinite, FS_RemoveElement
<1>3. Cardinality(InFlight) # 0
  BY <1>1, InFlightFinite, FS_EmptySet
<1> QED BY <1>1, <1>2, <1>3, InFlightFinite

-----------------------------------------------------------------------------
(* The empty table with no process running satisfies the invariant.        *)
LEMMA InitIInv == Init => IInv
<1> SUFFICES ASSUME Init PROVE IInv
  OBVIOUS
<1>1. TypeOK
  BY ReportConcurrencyAssumption, TimesAssumption DEF Init, TypeOK, Status, LoopPC, RunnerPC
<1>2. InFlight = {} /\ Owned = {}
  BY DEF Init, InFlight, Owned, Working
<1>3. SemCounts /\ WorkedRowsClaimed /\ DownIsQuiet
  BY <1>2, FS_EmptySet DEF Init, SemCounts, WorkedRowsClaimed, DownIsQuiet
<1>4. UnclaimedIdle
  BY DEF Init, UnclaimedIdle
<1> QED BY <1>1, <1>3, <1>4 DEF IInv

(* The requests leave the goroutines alone; what they do to the row of one *)
(* is to delete it.                                                        *)
LEMMA RequestIInv == IInv /\ Request => IInv'
<1> SUFFICES ASSUME IInv, Request PROVE IInv'
  OBVIOUS
<1> USE DEF IInv
<1>1. /\ UNCHANGED <<worker, sem, loop, jobs>>
      /\ wake' \in 0 .. 1 /\ worker # "down"
  BY DEF Request, CreateReport, DeleteReport, DeleteSnapshot, Enrich, TypeOK
<1>2. InFlight' = InFlight /\ Owned' = Owned
  BY <1>1 DEF InFlight, Owned, jobs
<1>3. SemCounts' /\ DownIsQuiet'
  BY <1>1, <1>2 DEF SemCounts, DownIsQuiet
<1>4. /\ status' \in [Reports -> Status]
      /\ created' \in [Reports -> Nat] /\ inserts' \in Nat
      /\ snapshots' \subseteq Snapshots /\ enriched' \subseteq Snapshots
  BY DEF Request, CreateReport, DeleteReport, DeleteSnapshot, Enrich, TypeOK, Status
<1>5. TypeOK'
  BY <1>1, <1>4 DEF TypeOK, jobs
<1>6. \A r \in Reports : \/ status'[r] = status[r]
                         \/ status[r] = "absent" /\ status'[r] = "pending"
                         \/ Exists(r) /\ status'[r] = "deleted"
  BY DEF Request, CreateReport, DeleteReport, DeleteSnapshot, Enrich, TypeOK
<1>7. UnclaimedIdle'
  BY <1>1, <1>6 DEF UnclaimedIdle, jobs
<1>8. WorkedRowsClaimed'
  BY <1>2, <1>6 DEF WorkedRowsClaimed, Owned
<1> QED BY <1>3, <1>5, <1>7, <1>8

(* The loop takes and returns its slot in step with where it is.           *)
LEMMA LoopIInv == IInv /\ LoopStep => IInv'
<1> SUFFICES ASSUME IInv, LoopStep PROVE IInv'
  OBVIOUS
<1> USE DEF IInv
<1>1. ASSUME \/ LoopWake \/ LoopPoll \/ LoopExit \/ ProcessDone \/ AcquireSem
             \/ ClaimNone \/ ClaimError
      PROVE  IInv'
  <2> USE DEF LoopWake, LoopPoll, LoopExit, ProcessDone, AcquireSem, ClaimNone,
              ClaimError, GiveUp, table, jobs
  <2>1. InFlight' = InFlight /\ Owned' = Owned
    BY <1>1 DEF InFlight, Owned
  <2>2. SemCounts'
    BY <1>1, <2>1, InFlightFinite DEF SemCounts, TypeOK
  <2>3. TypeOK'
    BY <1>1, InFlightFinite, ReportConcurrencyAssumption DEF TypeOK, LoopPC, SemCounts
  <2>4. DownIsQuiet'
    BY <1>1, <2>1 DEF DownIsQuiet
  <2>5. UnclaimedIdle' /\ WorkedRowsClaimed'
    BY <1>1, <2>1 DEF UnclaimedIdle, WorkedRowsClaimed
  <2> QED BY <2>2, <2>3, <2>4, <2>5
<1>2. ASSUME NEW r \in Reports, Claim(r) PROVE IInv'
  <2> USE DEF Claim
  <2>1. status[r] = "pending" /\ runner[r] = "none"
    BY <1>2 DEF Oldest, UnclaimedIdle
  <2>2. TypeOK'
    BY <1>2 DEF TypeOK, Status, LoopPC, RunnerPC, Working
  <2>3. SemCounts'
    <3>1. Cardinality(InFlight') = Cardinality(InFlight) + 1
      BY <1>2, <2>1, InFlightGrows
    <3> QED BY <1>2, <3>1, InFlightFinite DEF SemCounts
  <2>4. Owned' = Owned \cup {r}
    BY <1>2 DEF Owned, Working, TypeOK
  <2>5. WorkedRowsClaimed'
    BY <1>2, <2>4 DEF WorkedRowsClaimed, Owned, TypeOK
  <2>6. DownIsQuiet'
    BY <1>2 DEF DownIsQuiet
  <2>7. UnclaimedIdle'
    BY <1>2, <2>1 DEF UnclaimedIdle, TypeOK
  <2> QED BY <2>2, <2>3, <2>5, <2>6, <2>7
<1>3. ASSUME NEW r \in Reports, ClaimCommitLost(r) PROVE IInv'
  <2> USE DEF ClaimCommitLost, GiveUp, jobs
  <2>1. status[r] = "pending" /\ runner[r] = "none"
    BY <1>3 DEF Oldest, UnclaimedIdle
  <2>2. InFlight' = InFlight /\ Owned' = Owned
    BY <1>3 DEF InFlight, Owned
  <2>3. SemCounts'
    BY <1>3, <2>2, InFlightFinite DEF SemCounts, TypeOK
  <2>4. TypeOK'
    BY <1>3, InFlightFinite, ReportConcurrencyAssumption
    DEF TypeOK, Status, LoopPC, SemCounts
  <2>5. WorkedRowsClaimed' /\ DownIsQuiet'
    BY <1>3, <2>2 DEF WorkedRowsClaimed, DownIsQuiet, Owned, TypeOK
  <2>6. UnclaimedIdle'
    BY <1>3, <2>1 DEF UnclaimedIdle, TypeOK
  <2> QED BY <2>3, <2>4, <2>5, <2>6
<1> QED BY <1>1, <1>2, <1>3 DEF LoopStep

-----------------------------------------------------------------------------
(* The ways a goroutine may move: on to another of its steps, or to its    *)
(* end, where it may have written the status of a row that is there.       *)
Advances(r) == /\ runner' \in {[runner EXCEPT ![r] = pc] : pc \in Working}
               /\ UNCHANGED status
Leaves(r) == /\ runner' = [runner EXCEPT ![r] = "release"]
             /\ \/ UNCHANGED status
                \/ Exists(r) /\ status' = [status EXCEPT ![r] = "failed"]
                \/ Exists(r) /\ status' = [status EXCEPT ![r] = "completed"]

(* What a step of the goroutine or of its renderer leaves alone.           *)
Around == UNCHANGED <<created, inserts, snapshots, enriched, worker, wake, sem, loop, age, cut>>

(* Every step but the last of a goroutine, and the end of its renderer, is *)
(* one of these.                                                           *)
LEMMA RunnerMoves ==
    ASSUME TypeOK, NEW r \in Reports,
           \/ ReadWaitFlag(r) \/ WaitForEnrichment(r) \/ LoadSnapshot(r) \/ RenderAbandoned(r)
           \/ StoreCompleted(r) \/ (RenderReturns(r) /\ runner[r] = "render")
    PROVE  /\ Around
           /\ r \in Owned
           /\ rendering' \subseteq Reports
           /\ Advances(r) \/ Leaves(r)
<1> USE DEF Around, Owned, Working, Advances, Leaves, Goto, table
<1>1. CASE ReadWaitFlag(r) \/ WaitForEnrichment(r)
  <2>1. r \in Owned /\ UNCHANGED status /\ Around /\ UNCHANGED rendering
    BY <1>1 DEF ReadWaitFlag, WaitForEnrichment
  <2>2. \E pc \in Working : runner' = [runner EXCEPT ![r] = pc]
    BY <1>1 DEF ReadWaitFlag, WaitForEnrichment
  <2> QED BY <2>1, <2>2 DEF TypeOK
<1>2. CASE LoadSnapshot(r)
  <2>1. r \in Owned /\ Around /\ rendering' \subseteq Reports
    BY <1>2 DEF LoadSnapshot, TypeOK
  <2>2. \/ runner' = [runner EXCEPT ![r] = "render"] /\ UNCHANGED status
        \/ Leaves(r)
    BY <1>2 DEF LoadSnapshot, FailReport, SetStatus
  <2> QED BY <2>1, <2>2
<1>3. CASE RenderAbandoned(r)
  BY <1>3 DEF RenderAbandoned, FailReport, SetStatus, TypeOK
<1>4. CASE StoreCompleted(r)
  BY <1>4 DEF StoreCompleted, FailReport, SetStatus, TypeOK
<1>5. CASE RenderReturns(r) /\ runner[r] = "render"
  <2>1. r \in Owned /\ Around /\ rendering' \subseteq Reports
    BY <1>5 DEF RenderReturns, TypeOK
  <2>2. \/ runner' = [runner EXCEPT ![r] = "store"] /\ UNCHANGED status
        \/ Leaves(r)
    BY <1>5 DEF RenderReturns, FailReport, SetStatus
  <2> QED BY <2>1, <2>2
<1> QED BY <1>1, <1>2, <1>3, <1>4, <1>5

(* Such a move keeps the invariant: slots are not touched, and the status  *)
(* is written last.                                                        *)
LEMMA MoveIInv ==
    ASSUME IInv, NEW r \in Reports, Around, r \in Owned, rendering' \subseteq Reports,
           Advances(r) \/ Leaves(r)
    PROVE  IInv'
<1> USE DEF IInv, Around
<1>1. PICK pc \in Working \cup {"release"} : runner' = [runner EXCEPT ![r] = pc]
  BY DEF Advances, Leaves
<1>2. InFlight' = InFlight
  BY <1>1 DEF InFlight, Owned, Working, TypeOK
<1>3. status[r] \in {"running", "deleted"}
  BY DEF WorkedRowsClaimed
<1>4. /\ \A k \in Reports \ {r} : status'[k] = status[k] /\ runner'[k] = runner[k]
      /\ status'[r] \in {status[r], "failed", "completed"}
      /\ status'[r] = status[r] \/ status[r] = "running"
      /\ status' \in [Reports -> Status]
  BY <1>1, <1>3 DEF Advances, Leaves, Exists, TypeOK, Status
<1>5. runner' \in [Reports -> RunnerPC]
  BY <1>1 DEF TypeOK, RunnerPC
<1>6. TypeOK'
  BY <1>4, <1>5 DEF TypeOK
<1>7. SemCounts' /\ DownIsQuiet'
  BY <1>2 DEF SemCounts, DownIsQuiet
<1>8. UnclaimedIdle'
  BY <1>3, <1>4 DEF UnclaimedIdle
<1>9. WorkedRowsClaimed'
  <2>1. CASE Advances(r)
    BY <1>3, <1>4, <2>1 DEF Advances, WorkedRowsClaimed, Owned
  <2>2. CASE Leaves(r)
    BY <1>4, <2>2 DEF Leaves, WorkedRowsClaimed, Owned, Working, TypeOK
  <2> QED BY <2>1, <2>2
<1> QED BY <1>6, <1>7, <1>8, <1>9

(* The steps that write neither the table nor a program counter: time      *)
(* passes, a cancellation arrives, an abandoned renderer returns.          *)
LEMMA QuietIInv ==
    ASSUME IInv, NEW r \in Reports,
           Tick(r) \/ Cut(r) \/ (RenderReturns(r) /\ runner[r] # "render")
    PROVE  IInv' /\ UNCHANGED <<status, runner>>
<1> USE DEF IInv, table
<1>1. UNCHANGED <<table, worker, wake, sem, loop, runner>>
  BY DEF Tick, Cut, RenderReturns, FailReport
<1>2. age' \in [Reports -> 0 .. MaxAge]
  BY TimesAssumption DEF Tick, Cut, RenderReturns, TypeOK
<1>3. cut' \subseteq Reports /\ rendering' \subseteq Reports
  BY DEF Tick, Cut, RenderReturns, TypeOK
<1>4. TypeOK'
  BY <1>1, <1>2, <1>3 DEF TypeOK
<1>5. InFlight' = InFlight /\ Owned' = Owned
  BY <1>1 DEF InFlight, Owned
<1>6. SemCounts' /\ DownIsQuiet' /\ UnclaimedIdle' /\ WorkedRowsClaimed'
  BY <1>1, <1>5 DEF SemCounts, DownIsQuiet, UnclaimedIdle, WorkedRowsClaimed
<1> QED BY <1>1, <1>4, <1>6

(* The goroutine's end gives its slot back.                                *)
LEMMA ReleaseIInv == ASSUME IInv, NEW r \in Reports, Release(r) PROVE IInv'
<1> USE DEF IInv, Release, Goto, table
<1>1. Cardinality(InFlight') = Cardinality(InFlight) - 1 /\ Cardinality(InFlight) > 0
  BY InFlightShrinks
<1>2. Owned' = Owned
  BY DEF Owned, Working, TypeOK
<1>3. SemCounts'
  BY <1>1, InFlightFinite DEF SemCounts, TypeOK
<1>4. TypeOK'
  BY <1>1, InFlightFinite, ReportConcurrencyAssumption, TimesAssumption
  DEF TypeOK, SemCounts, RunnerPC
<1>5. worker # "down"
  BY DEF DownIsQuiet, InFlight
<1>6. DownIsQuiet' /\ WorkedRowsClaimed'
  BY <1>2, <1>5 DEF DownIsQuiet, WorkedRowsClaimed
<1>7. UnclaimedIdle'
  BY DEF UnclaimedIdle, TypeOK
<1> QED BY <1>3, <1>4, <1>6, <1>7

(* Start recovers while nothing is in flight; Stop and Crash leave nothing *)
(* in flight.                                                              *)
LEMMA LifecycleIInv == IInv /\ (Start \/ Stop \/ StopReturns \/ Crash) => IInv'
<1> SUFFICES ASSUME IInv, Start \/ Stop \/ StopReturns \/ Crash PROVE IInv'
  OBVIOUS
<1> USE DEF IInv, table, jobs
<1>1. CASE Start
  <2> USE DEF Start
  <2>1. InFlight = {} /\ InFlight' = {} /\ Owned' = {}
    BY <1>1 DEF DownIsQuiet, InFlight, Owned, Working
  <2>2. TypeOK'
    BY <1>1 DEF TypeOK, Status, LoopPC
  <2>3. SemCounts' /\ WorkedRowsClaimed' /\ DownIsQuiet'
    BY <1>1, <2>1 DEF SemCounts, WorkedRowsClaimed, DownIsQuiet
  <2>4. UnclaimedIdle'
    BY <1>1 DEF UnclaimedIdle, TypeOK
  <2> QED BY <2>2, <2>3, <2>4
<1>2. CASE Stop \/ StopReturns
  <2> USE DEF Stop, StopReturns
  <2>1. InFlight' = InFlight /\ Owned' = Owned
    BY <1>2 DEF InFlight, Owned
  <2>2. TypeOK' /\ SemCounts'
    BY <1>2, <2>1 DEF TypeOK, SemCounts
  <2>3. DownIsQuiet'
    BY <1>2, <2>1, FS_EmptySet DEF DownIsQuiet, SemCounts
  <2>4. UnclaimedIdle' /\ WorkedRowsClaimed'
    BY <1>2, <2>1 DEF UnclaimedIdle, WorkedRowsClaimed
  <2> QED BY <2>2, <2>3, <2>4
<1>3. CASE Crash
  <2> USE DEF Crash
  <2>1. InFlight' = {} /\ Owned' = {}
    BY <1>3 DEF InFlight, Owned, Working
  <2>2. TypeOK'
    BY <1>3, ReportConcurrencyAssumption, TimesAssumption DEF TypeOK, LoopPC, RunnerPC
  <2>3. SemCounts' /\ WorkedRowsClaimed' /\ DownIsQuiet'
    BY <1>3, <2>1, FS_EmptySet DEF SemCounts, WorkedRowsClaimed, DownIsQuiet
  <2>4. UnclaimedIdle'
    BY <1>3 DEF UnclaimedIdle
  <2> QED BY <2>2, <2>3, <2>4
<1> QED BY <1>1, <1>2, <1>3

(* Stuttering changes nothing.                                             *)
LEMMA StutterIInv == IInv /\ UNCHANGED vars => IInv'
<1> SUFFICES ASSUME IInv, UNCHANGED vars PROVE IInv'
  OBVIOUS
<1> USE DEF IInv, vars, table, jobs
<1>1. InFlight' = InFlight /\ Owned' = Owned
  BY DEF InFlight, Owned
<1>2. TypeOK' /\ SemCounts' /\ DownIsQuiet' /\ UnclaimedIdle' /\ WorkedRowsClaimed'
  BY <1>1 DEF TypeOK, SemCounts, DownIsQuiet, UnclaimedIdle, WorkedRowsClaimed
<1> QED BY <1>2

(* All the steps that belong to one report.                                *)
LEMMA JobIInv ==
    ASSUME IInv, NEW r \in Reports,
           RunnerStep(r) \/ RenderReturns(r) \/ Tick(r) \/ Cut(r)
    PROVE  IInv'
<1>1. TypeOK
  BY DEF IInv
<1>2. CASE Release(r)
  BY <1>2, ReleaseIInv
<1>3. CASE Tick(r) \/ Cut(r) \/ (RenderReturns(r) /\ runner[r] # "render")
  BY <1>3, QuietIInv
<1>4. CASE \/ ReadWaitFlag(r) \/ WaitForEnrichment(r) \/ LoadSnapshot(r) \/ RenderAbandoned(r)
           \/ StoreCompleted(r) \/ (RenderReturns(r) /\ runner[r] = "render")
  BY <1>1, <1>4, RunnerMoves, MoveIInv
<1> QED BY <1>2, <1>3, <1>4 DEF RunnerStep

(* The invariant holds throughout every behaviour of the report worker.    *)
THEOREM SpecIInv == Spec => []IInv
<1>1. IInv /\ [Next]_vars => IInv'
  BY RequestIInv, LoopIInv, JobIInv, LifecycleIInv, StutterIInv DEF Next
<1> QED BY InitIInv, <1>1, PTL DEF Spec

(* Every variable keeps its type.                                          *)
THEOREM ReportTypeCorrect == Spec => []TypeOK
BY SpecIInv, PTL DEF IInv

(* The semaphore counts the goroutines in flight and the loop's slot: none *)
(* is leaked or returned twice by processPending or runJob.                *)
THEOREM ReportSlotsCounted == Spec => []SemCounts
BY SpecIInv, PTL DEF IInv

(* A report is claimed at most once while it is worked on.                 *)
THEOREM ReportsClaimedOnce == Spec => []WorkedRowsClaimed
BY SpecIInv, PTL DEF IInv

(* Nothing runs in a worker that Stop has stopped or that died, so that    *)
(* failStaleRunning hits only reports nobody will write any more.          *)
THEOREM StoppedReportWorkerQuiet == Spec => []DownIsQuiet
BY SpecIInv, PTL DEF IInv

-----------------------------------------------------------------------------
(* The refinement of JobQueue.                                             *)

(* The abstract module counts with the same operator.                      *)
LEMMA SameCardinality == Abstract!Cardinality(Owned) = Cardinality(Owned)
BY DEF Abstract!Cardinality, Cardinality, Abstract!IsFiniteSet, IsFiniteSet

(* Requests are abstract submissions and deletions, or invisible.          *)
LEMMA RequestRefines == IInv /\ Request => [Abstract!Next]_(Abstract!vars)
<1> SUFFICES ASSUME IInv, Request PROVE [Abstract!Next]_(Abstract!vars)
  OBVIOUS
<1> USE DEF IInv, jobs
<1>1. ASSUME NEW r \in Reports, CreateReport(r) PROVE Abstract!Next
  <2>1. Abstract!Submit(r)
    BY <1>1 DEF CreateReport, Abstract!Submit, Owned
  <2> QED BY <2>1 DEF Abstract!Next
<1>2. ASSUME NEW r \in Reports, DeleteReport(r) PROVE Abstract!Next
  <2>1. status' = [k \in Reports |-> IF k \in {r} THEN "deleted" ELSE status[k]]
    BY <1>2 DEF DeleteReport, TypeOK
  <2>2. Abstract!Purge({r})
    BY <1>2, <2>1 DEF DeleteReport, Exists, Abstract!Purge, Abstract!Exists, Owned
  <2> QED BY <2>2 DEF Abstract!Next
<1>3. ASSUME NEW s \in Snapshots, DeleteSnapshot(s) PROVE [Abstract!Next]_(Abstract!vars)
  <2> DEFINE D == {r \in Reports : SnapshotOf[r] = s /\ Exists(r)}
  <2>1. status' = [k \in Reports |-> IF k \in D THEN "deleted" ELSE status[k]]
    BY <1>3 DEF DeleteSnapshot
  <2>2. Owned' = Owned
    BY <1>3 DEF DeleteSnapshot, Owned
  <2>3. CASE D = {}
    <3>1. status' = status
      BY <2>1, <2>3 DEF TypeOK
    <3> QED BY <2>2, <3>1 DEF Abstract!vars
  <2>4. CASE D # {}
    <3>1. Abstract!Purge(D)
      BY <2>1, <2>2, <2>4 DEF Exists, Abstract!Purge, Abstract!Exists
    <3> QED BY <3>1 DEF Abstract!Next
  <2> QED BY <2>3, <2>4
<1>4. ASSUME NEW s \in Snapshots, Enrich(s) PROVE UNCHANGED Abstract!vars
  BY <1>4 DEF Enrich, Abstract!vars, Owned
<1> QED BY <1>1, <1>2, <1>3, <1>4 DEF Request

(* The loop claims reports, for a goroutine there is a slot for or for     *)
(* nobody.                                                                 *)
LEMMA LoopRefines == IInv /\ LoopStep => [Abstract!Next]_(Abstract!vars)
<1> SUFFICES ASSUME IInv, LoopStep PROVE [Abstract!Next]_(Abstract!vars)
  OBVIOUS
<1> USE DEF IInv
<1>1. CASE \/ LoopWake \/ LoopPoll \/ LoopExit \/ ProcessDone \/ AcquireSem
           \/ ClaimNone \/ ClaimError
  BY <1>1 DEF LoopWake, LoopPoll, LoopExit, ProcessDone, AcquireSem, ClaimNone, ClaimError,
              table, jobs, Abstract!vars, Owned
<1>2. ASSUME NEW r \in Reports, Claim(r) PROVE Abstract!Next
  <2>1. Owned' = Owned \cup {r}
    BY <1>2 DEF Claim, Owned, Working, TypeOK
  <2>2. Owned \subseteq InFlight
    BY DEF Owned, InFlight, Working
  <2>3. Cardinality(Owned) \in Nat /\ Cardinality(Owned) <= Cardinality(InFlight)
    BY <2>2, InFlightFinite, FS_Subset, FS_CardinalityType
  <2>4. Cardinality(InFlight) < MaxConcurrency
    BY <1>2, InFlightFinite, ReportConcurrencyAssumption DEF Claim, SemCounts, TypeOK
  <2>5. Cardinality(Owned) < MaxConcurrency
    BY <2>3, <2>4, InFlightFinite, ReportConcurrencyAssumption
  <2>6. status[r] = "pending" /\ status' = [status EXCEPT ![r] = "running"]
    BY <1>2 DEF Claim, Oldest
  <2>7. Abstract!Claim(r)
    BY <2>1, <2>5, <2>6, SameCardinality DEF Abstract!Claim
  <2> QED BY <2>7 DEF Abstract!Next
<1>3. ASSUME NEW r \in Reports, ClaimCommitLost(r) PROVE Abstract!Next
  <2>1. Abstract!Claim(r)
    BY <1>3 DEF ClaimCommitLost, Oldest, Abstract!Claim, Owned, jobs
  <2> QED BY <2>1 DEF Abstract!Next
<1> QED BY <1>1, <1>2, <1>3 DEF LoopStep

(* A goroutine's steps are invisible until the one that gives the row up.  *)
LEMMA JobRefines ==
    ASSUME IInv, NEW r \in Reports,
           RunnerStep(r) \/ RenderReturns(r) \/ Tick(r) \/ Cut(r)
    PROVE  [Abstract!Next]_(Abstract!vars)
<1>1. TypeOK
  BY DEF IInv
<1>2. CASE Release(r)
  BY <1>1, <1>2 DEF Release, Goto, table, Abstract!vars, Owned, Working, TypeOK
<1>3. CASE Tick(r) \/ Cut(r) \/ (RenderReturns(r) /\ runner[r] # "render")
  <2>1. UNCHANGED <<status, runner>>
    BY <1>3, QuietIInv
  <2> QED BY <2>1 DEF Abstract!vars, Owned
<1>4. CASE \/ ReadWaitFlag(r) \/ WaitForEnrichment(r) \/ LoadSnapshot(r) \/ RenderAbandoned(r)
           \/ StoreCompleted(r) \/ (RenderReturns(r) /\ runner[r] = "render")
  <2>1. r \in Owned /\ (Advances(r) \/ Leaves(r))
    BY <1>1, <1>4, RunnerMoves
  <2>2. CASE Advances(r)
    <3>1. Owned' = Owned
      BY <1>1, <2>1, <2>2 DEF Advances, Owned, Working, TypeOK
    <3> QED BY <2>2, <3>1 DEF Advances, Abstract!vars
  <2>3. CASE Leaves(r)
    <3>1. Owned' = Owned \ {r}
      BY <1>1, <2>1, <2>3 DEF Leaves, Owned, Working, TypeOK, RunnerPC
    <3>2. Abstract!Finish(r)
      BY <2>1, <2>3, <3>1 DEF Leaves, Exists, Abstract!Finish, Abstract!Exists
    <3> QED BY <3>2 DEF Abstract!Next
  <2> QED BY <2>1, <2>2, <2>3
<1> QED BY <1>2, <1>3, <1>4 DEF RunnerStep

(* Start recovers, Crash abandons, Stop is invisible.                      *)
LEMMA LifecycleRefines ==
    IInv /\ (Start \/ Stop \/ StopReturns \/ Crash) => [Abstract!Next]_(Abstract!vars)
<1> SUFFICES ASSUME IInv, Start \/ Stop \/ StopReturns \/ Crash
             PROVE  [Abstract!Next]_(Abstract!vars)
  OBVIOUS
<1> USE DEF IInv, table, jobs
<1>1. CASE Start
  <2>1. Owned = {} /\ Owned' = Owned
    BY <1>1 DEF Start, DownIsQuiet, InFlight, Owned, Working
  <2>2. Abstract!Recover
    BY <1>1, <2>1 DEF Start, Abstract!Recover
  <2> QED BY <2>2 DEF Abstract!Next
<1>2. CASE Stop \/ StopReturns
  BY <1>2 DEF Stop, StopReturns, Abstract!vars, Owned
<1>3. CASE Crash
  <2>1. Owned' = {}
    BY <1>3 DEF Crash, Owned, Working
  <2>2. Abstract!Abandon \/ UNCHANGED Abstract!vars
    BY <1>3, <2>1 DEF Crash, Abstract!Abandon, Abstract!vars
  <2> QED BY <2>2 DEF Abstract!Next
<1> QED BY <1>1, <1>2, <1>3

(* The report worker implements the abstract job queue.                    *)
THEOREM ReportQueueImplementsJobQueue == Spec => ImplementsJobQueue
<1>1. Init => Abstract!Init
  BY DEF Init, Abstract!Init, Owned, Working
<1>2. IInv /\ [Next]_vars => [Abstract!Next]_(Abstract!vars)
  <2>1. UNCHANGED vars => UNCHANGED Abstract!vars
    BY DEF vars, table, jobs, Abstract!vars, Owned
  <2> QED
    BY <2>1, RequestRefines, LoopRefines, JobRefines, LifecycleRefines DEF Next
<1> QED BY <1>1, <1>2, SpecIInv, PTL DEF Spec, ImplementsJobQueue, Abstract!Spec
=============================================================================
