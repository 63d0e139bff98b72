----------------------------- MODULE ReportQueue -----------------------------
(***************************************************************************)
(* The PDF report worker of internal/reports: the reports table, the loop  *)
(* that claims pending rows, one goroutine per claimed row, and one more   *)
(* goroutine per row that renders the PDF and may outlive its parent.      *)
(*                                                                         *)
(* A report belongs to a snapshot and goes with it (ON DELETE CASCADE) and *)
(* may be deleted in any state.  Time is counted per job, in units in      *)
(* which RenderTimeout and EnrichmentWait keep the ratio of the code's     *)
(* 30 s and 45 s: the context of runJob covers waiting, loading, rendering *)
(* and every status update.                                                *)
(***************************************************************************)
EXTENDS FiniteSets, Naturals

CONSTANTS Reports,         \* ids of reports rows
          Snapshots,       \* ids of snapshots rows
          SnapshotOf,      \* the snapshot a report is requested for
          WaitFor,         \* the reports requested with wait_for_enrichment
          MaxConcurrency,  \* Worker.maxConcurrency
          RenderTimeout,   \* renderTimeout
          EnrichmentWait,  \* enrichmentWaitTimeout
          MaxAge,          \* bound: how long a job is observed
          Faults           \* which of "db", "render" can happen

ASSUME ReportConcurrencyAssumption == MaxConcurrency \in Nat \ {0}
ASSUME ReportsAssumption == /\ IsFiniteSet(Reports)
                            /\ SnapshotOf \in [Reports -> Snapshots]
                            /\ WaitFor \subseteq Reports
ASSUME TimesAssumption == RenderTimeout \in Nat /\ EnrichmentWait \in Nat /\ MaxAge \in Nat
ASSUME ReportFaultsAssumption == Faults \subseteq {"db", "render"}

VARIABLES
    status,     \* reports.status, with "absent" and "deleted" for rows not there
    created,    \* reports.created_at: the rank of the INSERT
    inserts,    \* how many rows were inserted
    snapshots,  \* the snapshots that exist
    enriched,   \* the snapshots whose enrichment is no longer pending
    worker,     \* "down", "up" or "stopping"
    wake,       \* tokens in the wake channel
    sem,        \* tokens in the semaphore channel
    loop,       \* where the loop goroutine is
    runner,     \* where the goroutine of a claimed row is
    age,        \* time since the goroutine entered runJob
    cut,        \* the goroutines whose context Stop cancelled
    rendering   \* the rows whose renderer goroutine has not returned

table  == <<status, created, inserts, snapshots, enriched>>
jobs   == <<runner, age, cut, rendering>>
vars   == <<table, worker, wake, sem, loop, jobs>>

Status   == {"absent", "pending", "running", "completed", "failed", "deleted"}
LoopPC   == {"select", "acquire", "claim", "exited"}
Working  == {"flag", "wait", "load", "render", "store"}
RunnerPC == Working \cup {"none", "release"}

TypeOK == /\ status \in [Reports -> Status]
          /\ created \in [Reports -> Nat]
          /\ inserts \in Nat
          /\ snapshots \subseteq Snapshots
          /\ enriched \subseteq Snapshots
          /\ worker \in {"down", "up", "stopping"}
          /\ wake \in 0 .. 1
          /\ sem \in 0 .. MaxConcurrency
          /\ loop \in LoopPC
          /\ runner \in [Reports -> RunnerPC]
          /\ age \in [Reports -> 0 .. MaxAge]
          /\ cut \subseteq Reports
          /\ rendering \subseteq Reports

Init == /\ status = [r \in Reports |-> "absent"]
        /\ created = [r \in Reports |-> 0]
        /\ inserts = 0
        /\ snapshots = Snapshots
        /\ enriched = {}
        /\ worker = "down"
        /\ wake = 0
        /\ sem = 0
        /\ loop = "exited"
        /\ runner = [r \in Reports |-> "none"]
        /\ age = [r \in Reports |-> 0]
        /\ cut = {}
        /\ rendering = {}

Exists(r) == status[r] \notin {"absent", "deleted"}
InFlight  == {r \in Reports : runner[r] # "none"}
Owned     == {r \in Reports : runner[r] \in Working}

-----------------------------------------------------------------------------
(* Requests, and what other parts of the system do to the tables.          *)

(* The handler checks that the snapshot exists and then inserts; the       *)
(* foreign key is what holds when the snapshot goes in between.            *)
CreateReport(r) ==
    /\ worker # "down"
    /\ status[r] = "absent"
    /\ SnapshotOf[r] \in snapshots
    /\ status' = [status EXCEPT ![r] = "pending"]
    /\ created' = [created EXCEPT ![r] = inserts]
    /\ inserts' = inserts + 1
    /\ wake' = 1
    /\ UNCHANGED <<snapshots, enriched, worker, sem, loop, jobs>>

DeleteReport(r) ==
    /\ worker # "down"
    /\ Exists(r)
    /\ status' = [status EXCEPT ![r] = "deleted"]
    /\ UNCHANGED <<created, inserts, snapshots, enriched, worker, wake, sem, loop, jobs>>

(* deleteSnapshot, deleteTarget and pruning take the reports along.        *)
DeleteSnapshot(s) ==
    /\ worker # "down"
    /\ s \in snapshots
    /\ snapshots' = snapshots \ {s}
    /\ status' = [r \in Reports |-> IF SnapshotOf[r] = s /\ Exists(r)
                                    THEN "deleted" ELSE status[r]]
    /\ UNCHANGED <<created, inserts, enriched, worker, wake, sem, loop, jobs>>

(* EnrichSnapshot writes a payload that is not pending.                    *)
Enrich(s) == /\ worker # "down"
             /\ s \in snapshots \ enriched
             /\ enriched' = enriched \cup {s}
             /\ UNCHANGED <<status, created, inserts, snapshots, worker, wake, sem, loop, jobs>>

-----------------------------------------------------------------------------
(* The loop goroutine.                                                     *)

LoopWake == /\ loop = "select" /\ wake = 1
            /\ wake' = 0
            /\ loop' = "acquire"
            /\ UNCHANGED <<table, worker, sem, jobs>>

LoopPoll == /\ loop = "select"
            /\ loop' = "acquire"
            /\ UNCHANGED <<table, worker, wake, sem, jobs>>

LoopExit == /\ loop = "select" /\ worker = "stopping"
            /\ loop' = "exited"
            /\ UNCHANGED <<table, worker, wake, sem, jobs>>

ProcessDone == /\ loop = "acquire" /\ worker = "stopping"
               /\ loop' = "select"
               /\ UNCHANGED <<table, worker, wake, sem, jobs>>

AcquireSem == /\ loop = "acquire" /\ sem < MaxConcurrency
              /\ sem' = sem + 1
              /\ loop' = "claim"
              /\ UNCHANGED <<table, worker, wake, jobs>>

Oldest(r) == /\ status[r] = "pending"
             /\ \A k \in Reports : status[k] = "pending" => created[r] <= created[k]

(* Variant: the early return forgets the slot.                             *)
GiveUpLeaky == /\ sem' = sem
               /\ loop' = "select"

GiveUp == /\ sem' = sem - 1
          /\ loop' = "select"

Claim(r) == /\ loop = "claim" /\ worker = "up"
            /\ Oldest(r)
            /\ status' = [status EXCEPT ![r] = "running"]
            /\ runner' = [runner EXCEPT ![r] = "flag"]
            /\ loop' = "acquire"
            /\ UNCHANGED <<created, inserts, snapshots, enriched, worker, wake, sem,
                           age, cut, rendering>>

ClaimNone == /\ loop = "claim" /\ worker = "up"
             /\ \A r \in Reports : status[r] # "pending"
             /\ GiveUp
             /\ UNCHANGED <<table, worker, wake, jobs>>

ClaimFails == worker = "stopping" \/ "db" \in Faults

ClaimError == /\ loop = "claim" /\ ClaimFails
              /\ GiveUp
              /\ UNCHANGED <<table, worker, wake, jobs>>

ClaimCommitLost(r) ==
    /\ loop = "claim" /\ ClaimFails
    /\ Oldest(r)
    /\ status' = [status EXCEPT ![r] = "running"]
    /\ GiveUp
    /\ UNCHANGED <<created, inserts, snapshots, enriched, worker, wake, jobs>>

-----------------------------------------------------------------------------
(* The goroutine of a row: runJob.                                         *)

CtxDone(r) == age[r] >= RenderTimeout \/ r \in cut
DbWorks(r) == ~CtxDone(r)
DbFails(r) == CtxDone(r) \/ "db" \in Faults

(* Time passes for a job that is not finished.                             *)
Tick(r) == /\ runner[r] \in Working
           /\ age[r] < MaxAge
           /\ age' = [age EXCEPT ![r] = age[r] + 1]
           /\ UNCHANGED <<table, worker, wake, sem, loop, runner, cut, rendering>>

(* Stop cancelled the worker's context and AfterFunc passes it on.         *)
Cut(r) == /\ runner[r] \in Working /\ r \notin cut
          /\ worker = "stopping"
          /\ cut' = cut \cup {r}
          /\ UNCHANGED <<table, worker, wake, sem, loop, runner, age, rendering>>

Goto(r, pc) == runner' = [runner EXCEPT ![r] = pc]

(* Variant: an upsert, which brings a deleted report back as long as its   *)
(* snapshot is there for the foreign key.                                  *)
SetStatusUpsert(r, s) ==
    status' = IF SnapshotOf[r] \in snapshots THEN [status EXCEPT ![r] = s] ELSE status

(* An UPDATE by id: no row, no change, no error.                           *)
SetStatus(r, s) == status' = IF Exists(r) THEN [status EXCEPT ![r] = s] ELSE status

(* failReport, on the job's own context; its error is only logged.         *)
FailReport(r) == /\ \/ DbWorks(r) /\ SetStatus(r, "failed")
                    \/ DbFails(r) /\ UNCHANGED status
                 /\ Goto(r, "release")

(* The flag is read back; an error counts as "do not wait".                *)
ReadWaitFlag(r) ==
    /\ runner[r] = "flag"
    /\ \/ DbWorks(r) /\ Exists(r) /\ r \in WaitFor /\ Goto(r, "wait")
       \/ DbWorks(r) /\ (~Exists(r) \/ r \notin WaitFor) /\ Goto(r, "load")
       \/ DbFails(r) /\ Goto(r, "load")
    /\ UNCHANGED <<table, worker, wake, sem, loop, age, cut, rendering>>

(* waitForEnrichment returns: the payload is there, the wait is over, or   *)
(* the query failed.  runJob goes on in every case.                        *)
WaitForEnrichment(r) ==
    /\ runner[r] = "wait"
    /\ \/ DbWorks(r) /\ SnapshotOf[r] \in snapshots \cap enriched
       \/ age[r] >= EnrichmentWait
       \/ DbFails(r) \/ SnapshotOf[r] \notin snapshots
    /\ Goto(r, "load")
    /\ UNCHANGED <<table, worker, wake, sem, loop, age, cut, rendering>>

(* The snapshot, its changes and its screenshot are read and the renderer  *)
(* is started; a row that is gone or an error fails the report.            *)
LoadSnapshot(r) ==
    /\ runner[r] = "load"
    /\ \/ /\ DbWorks(r) /\ SnapshotOf[r] \in snapshots
          /\ Goto(r, "render")
          /\ rendering' = rendering \cup {r}
          /\ UNCHANGED status
       \/ /\ DbFails(r) \/ SnapshotOf[r] \notin snapshots
          /\ FailReport(r)
          /\ UNCHANGED rendering
    /\ UNCHANGED <<created, inserts, snapshots, enriched, worker, wake, sem, loop, age, cut>>

(* The renderer goroutine returns; its result is taken if anyone waits.    *)
RenderReturns(r) ==
    /\ r \in rendering
    /\ rendering' = rendering \ {r}
    /\ \/ runner[r] = "render" /\ Goto(r, "store") /\ UNCHANGED status
       \/ runner[r] = "render" /\ "render" \in Faults /\ FailReport(r)
       \/ runner[r] # "render" /\ UNCHANGED <<runner, status>>
    /\ UNCHANGED <<created, inserts, snapshots, enriched, worker, wake, sem, loop, age, cut>>

(* renderCtx is derived from the job's context with the same timeout, so   *)
(* it is done exactly when that one is.                                    *)
RenderAbandoned(r) ==
    /\ runner[r] = "render" /\ CtxDone(r)
    /\ FailReport(r)
    /\ UNCHANGED <<created, inserts, snapshots, enriched, worker, wake, sem, loop, age, cut,
                   rendering>>

(* The UPDATE that stores the PDF; on an error the report fails.           *)
StoreCompleted(r) ==
    /\ runner[r] = "store"
    /\ \/ DbWorks(r) /\ SetStatus(r, "completed") /\ Goto(r, "release")
       \/ DbFails(r) /\ FailReport(r)
    /\ UNCHANGED <<created, inserts, snapshots, enriched, worker, wake, sem, loop, age, cut,
                   rendering>>

(* The deferred functions: the context goes and the slot is given back.    *)
Release(r) == /\ runner[r] = "release"
              /\ Goto(r, "none")
              /\ age' = [age EXCEPT ![r] = 0]
              /\ cut' = cut \ {r}
              /\ sem' = sem - 1
              /\ UNCHANGED <<table, worker, wake, loop, rendering>>

-----------------------------------------------------------------------------
(* Start, Stop, and the death of the process.                              *)

(* Variant: Start without failStaleRunning.                                *)
StartOnly == /\ worker = "down"
             /\ worker' = "up"
             /\ wake' = 0
             /\ loop' = "select"
             /\ rendering' = {}
             /\ UNCHANGED <<table, sem, runner, age, cut>>

Start == /\ worker = "down"
         /\ status' = [r \in Reports |->
                         IF status[r] = "running" THEN "failed" ELSE status[r]]
         /\ worker' = "up"
         /\ wake' = 0
         /\ loop' = "select"
         /\ rendering' = {}
         /\ UNCHANGED <<created, inserts, snapshots, enriched, sem, runner, age, cut>>

Stop == /\ worker = "up"
        /\ worker' = "stopping"
        /\ UNCHANGED <<table, wake, sem, loop, jobs>>

StopReturns == /\ worker = "stopping"
               /\ loop = "exited" /\ InFlight = {}
               /\ worker' = "down"
               /\ UNCHANGED <<table, wake, sem, loop, jobs>>

Crash == /\ worker # "down"
         /\ worker' = "down"
         /\ wake' = 0
         /\ sem' = 0
         /\ loop' = "exited"
         /\ runner' = [r \in Reports |-> "none"]
         /\ age' = [r \in Reports |-> 0]
         /\ cut' = {}
         /\ rendering' = {}
         /\ UNCHANGED table

-----------------------------------------------------------------------------
LoopStep == \/ LoopWake \/ LoopPoll \/ LoopExit \/ ProcessDone \/ AcquireSem
            \/ ClaimNone \/ ClaimError
            \/ \E r \in Reports : Claim(r) \/ ClaimCommitLost(r)

RunnerStep(r) == \/ ReadWaitFlag(r) \/ WaitForEnrichment(r) \/ LoadSnapshot(r)
                 \/ RenderAbandoned(r) \/ StoreCompleted(r) \/ Release(r)

Request == \/ \E r \in Reports : CreateReport(r) \/ DeleteReport(r)
           \/ \E s \in Snapshots : DeleteSnapshot(s) \/ Enrich(s)

Next == \/ Request
        \/ LoopStep
        \/ \E r \in Reports : RunnerStep(r) \/ RenderReturns(r) \/ Tick(r) \/ Cut(r)
        \/ Start \/ Stop \/ StopReturns \/ Crash

Spec == Init /\ [][Next]_vars

(* As for the scan worker; a renderer that is not stuck returns, and a     *)
(* cancellation reaches every job.                                         *)
Fairness == /\ WF_vars(LoopStep)
            /\ SF_vars(LoopExit)
            /\ SF_vars(\E r \in Reports : Claim(r))
            /\ \A r \in Reports : /\ WF_vars(RunnerStep(r))
                                  /\ WF_vars(RenderReturns(r))
                                  /\ WF_vars(Cut(r))
            /\ WF_vars(Start)
            /\ WF_vars(StopReturns)

FairSpec == Spec /\ Fairness

-----------------------------------------------------------------------------
(* The semaphore counts the goroutines in flight and the slot of the loop. *)
SemCounts == sem = Cardinality(InFlight) + (IF loop = "claim" THEN 1 ELSE 0)

(* A row whose goroutine works on it is running or was deleted under it.   *)
WorkedRowsClaimed == \A r \in Owned : status[r] \in {"running", "deleted"}

(* A worker that is down works on nothing, so failStaleRunning hits only   *)
(* rows nobody will write any more.                                        *)
DownIsQuiet == worker = "down" => InFlight = {} /\ sem = 0 /\ loop = "exited"

(* Once the worker stays up, every pending report is claimed or deleted.   *)
PendingServed ==
    <>[](worker = "up") => \A r \in Reports : status[r] = "pending" ~> status[r] # "pending"

(* What a fault, a lost claim or a crash left running is ended by the next *)
(* start of the worker.                                                    *)
RestartEnds ==
    \A r \in Reports : (status[r] = "running" /\ worker = "down") ~> status[r] # "running"

(* The worker implements the abstract queue.                               *)
Abstract == INSTANCE JobQueue WITH Jobs <- Reports, owned <- Owned
ImplementsJobQueue == Abstract!Spec
=============================================================================
