------------------------------ MODULE ScanQueue ------------------------------
(***************************************************************************)
(* The asynchronous scan worker of internal/scans: the scan_jobs table, the *)
(* loop that claims pending rows, and one goroutine (a runner) per claimed *)
(* row.  Handlers create and cancel rows at any time; the process may stop *)
(* gracefully or die between any two steps and starts again later.         *)
(*                                                                         *)
(* Every database statement is one step.  A statement fails when the       *)
(* context it is given is done, or when the database does ("db" in Faults).*)
(***************************************************************************)
EXTENDS FiniteSets, Naturals

CONSTANTS Jobs,            \* ids of scan_jobs rows
          Hosts,           \* hosts that can be scanned
          HostOf,          \* the host a row is created for
          MaxConcurrency,  \* Worker.maxConcurrency
          Faults           \* which of "timeout", "db", "run" can happen

ASSUME ConcurrencyAssumption == MaxConcurrency \in Nat \ {0}
ASSUME JobsAssumption == IsFiniteSet(Jobs) /\ HostOf \in [Jobs -> Hosts]
ASSUME FaultsAssumption == Faults \subseteq {"timeout", "db", "run"}

VARIABLES
    status,     \* scan_jobs.status, with "absent" and "deleted" for rows not there
    message,    \* scan_jobs.error_message, up to its kind
    created,    \* scan_jobs.created_at: the rank of the INSERT
    inserts,    \* how many rows were inserted
    persisted,  \* the rows PersistScan stored a snapshot for
    worker,     \* "down", "up" or "stopping" (context cancelled, Stop waits)
    wake,       \* tokens in the wake channel (wakeBufferSize is 1)
    sem,        \* tokens in the semaphore channel
    loop,       \* where the loop goroutine is
    runner,     \* where the goroutine of a claimed row is
    ctx         \* the context runJob derived, "live" until it is "done"

table == <<status, message, created, inserts, persisted>>
vars  == <<table, worker, wake, sem, loop, runner, ctx>>

Status   == {"absent", "pending", "running", "completed", "failed", "deleted"}
Messages == {"none", "cancelled by user", "scan failed", "persist snapshot",
             "interrupted by restart"}
LoopPC   == {"select", "acquire", "claim", "exited"}
Working  == {"run", "check", "persist", "complete"}
RunnerPC == Working \cup {"none", "release"}

TypeOK == /\ status \in [Jobs -> Status]
          /\ message \in [Jobs -> Messages]
          /\ created \in [Jobs -> Nat]
          /\ inserts \in Nat
          /\ persisted \subseteq Jobs
          /\ worker \in {"down", "up", "stopping"}
          /\ wake \in 0 .. 1
          /\ sem \in 0 .. MaxConcurrency
          /\ loop \in LoopPC
          /\ runner \in [Jobs -> RunnerPC]
          /\ ctx \in [Jobs -> {"live", "done"}]

Init == /\ status = [j \in Jobs |-> "absent"]
        /\ message = [j \in Jobs |-> "none"]
        /\ created = [j \in Jobs |-> 0]
        /\ inserts = 0
        /\ persisted = {}
        /\ worker = "down"
        /\ wake = 0
        /\ sem = 0
        /\ loop = "exited"
        /\ runner = [j \in Jobs |-> "none"]
        /\ ctx = [j \in Jobs |-> "live"]

InFlight == {j \in Jobs : runner[j] # "none"}
Owned    == {j \in Jobs : runner[j] \in Working}

-----------------------------------------------------------------------------
(* Requests.                                                               *)

(* The INSERT, then a send on wake that gives up when the channel is full. *)
CreateJob(j) ==
    /\ worker # "down"
    /\ status[j] = "absent"
    /\ status' = [status EXCEPT ![j] = "pending"]
    /\ created' = [created EXCEPT ![j] = inserts]
    /\ inserts' = inserts + 1
    /\ wake' = 1
    /\ UNCHANGED <<message, persisted, worker, sem, loop, runner, ctx>>

(* One UPDATE guarded by the status; on a finished row nothing changes and *)
(* the caller gets ErrScanNotCancellable.                                  *)
CancelJob(j) ==
    /\ worker # "down"
    /\ status[j] \in {"pending", "running"}
    /\ status' = [status EXCEPT ![j] = "failed"]
    /\ message' = [message EXCEPT ![j] = "cancelled by user"]
    /\ UNCHANGED <<created, inserts, persisted, worker, wake, sem, loop, runner, ctx>>

(* deleteTarget removes the rows that carry the target's id.  The column   *)
(* is written with "completed" and becomes NULL when the target goes, so   *)
(* some of the host's completed rows qualify and no other row does.        *)
DeleteTargetJobs(h) ==
    /\ worker # "down"
    /\ \E S \in SUBSET {j \in Jobs : HostOf[j] = h /\ status[j] = "completed"} :
         /\ S # {}
         /\ status' = [j \in Jobs |-> IF j \in S THEN "deleted" ELSE status[j]]
    /\ UNCHANGED <<message, created, inserts, persisted, worker, wake, sem, loop,
                   runner, ctx>>

-----------------------------------------------------------------------------
(* The loop goroutine: loop, processPending, claimNextPending.             *)

LoopWake == /\ loop = "select" /\ wake = 1
            /\ wake' = 0
            /\ loop' = "acquire"
            /\ UNCHANGED <<table, worker, sem, runner, ctx>>

LoopPoll == /\ loop = "select"
            /\ loop' = "acquire"
            /\ UNCHANGED <<table, worker, wake, sem, runner, ctx>>

(* Variant: the select has no Done case.                                   *)
LoopExitMissing == FALSE /\ UNCHANGED vars

LoopExit == /\ loop = "select" /\ worker = "stopping"
            /\ loop' = "exited"
            /\ UNCHANGED <<table, worker, wake, sem, runner, ctx>>

ProcessDone == /\ loop = "acquire" /\ worker = "stopping"
               /\ loop' = "select"
               /\ UNCHANGED <<table, worker, wake, sem, runner, ctx>>

AcquireSem == /\ loop = "acquire" /\ sem < MaxConcurrency
              /\ sem' = sem + 1
              /\ loop' = "claim"
              /\ UNCHANGED <<table, worker, wake, runner, ctx>>

Oldest(j) == /\ status[j] = "pending"
             /\ \A k \in Jobs : status[k] = "pending" => created[j] <= created[k]

(* Variant: the early return forgets the slot.                             *)
GiveUpLeaky == /\ sem' = sem
               /\ loop' = "select"

(* The slot goes back and processPending returns to the loop.              *)
GiveUp == /\ sem' = sem - 1
          /\ loop' = "select"

(* A committed claim: the row is running and its goroutine is spawned.     *)
Claim(j) == /\ loop = "claim" /\ worker = "up"
            /\ Oldest(j)
            /\ status' = [status EXCEPT ![j] = "running"]
            /\ runner' = [runner EXCEPT ![j] = "run"]
            /\ loop' = "acquire"
            /\ UNCHANGED <<message, created, inserts, persisted, worker, wake, sem, ctx>>

ClaimNone == /\ loop = "claim" /\ worker = "up"
             /\ \A j \in Jobs : status[j] # "pending"
             /\ GiveUp
             /\ UNCHANGED <<table, worker, wake, runner, ctx>>

ClaimFails == worker = "stopping" \/ "db" \in Faults

ClaimError == /\ loop = "claim" /\ ClaimFails
              /\ GiveUp
              /\ UNCHANGED <<table, worker, wake, runner, ctx>>

(* COMMIT took effect but its answer was lost: an error for the caller,    *)
(* which spawns nothing, while the row says running.                       *)
ClaimCommitLost(j) ==
    /\ loop = "claim" /\ ClaimFails
    /\ Oldest(j)
    /\ status' = [status EXCEPT ![j] = "running"]
    /\ GiveUp
    /\ UNCHANGED <<message, created, inserts, persisted, worker, wake, runner, ctx>>

-----------------------------------------------------------------------------
(* A runner: runJob, statement by statement.                               *)

DbWorks(j) == ctx[j] = "live"
DbFails(j) == ctx[j] = "done" \/ "db" \in Faults

(* The job's deadline passes, or Stop cancelled the parent context.        *)
Expire(j) == /\ runner[j] \in Working
             /\ ctx[j] = "live"
             /\ worker = "stopping" \/ "timeout" \in Faults
             /\ ctx' = [ctx EXCEPT ![j] = "done"]
             /\ UNCHANGED <<table, worker, wake, sem, loop, runner>>

Goto(j, pc) == runner' = [runner EXCEPT ![j] = pc]

(* failJob: an UPDATE by id only, on the job's own context; its error is   *)
(* only logged.                                                            *)
FailJob(j, m) ==
    \/ /\ DbWorks(j)
       /\ status' = [status EXCEPT ![j] = "failed"]
       /\ message' = [message EXCEPT ![j] = m]
    \/ /\ DbFails(j)
       /\ UNCHANGED <<status, message>>

(* Runner.Run returns a result.  scanner.Run never returns an error: an    *)
(* expired context only makes its gatherers fail one by one.               *)
RunReturns(j) == /\ runner[j] = "run"
                 /\ Goto(j, "check")
                 /\ UNCHANGED <<table, worker, wake, sem, loop, ctx>>

(* The error path the Runner interface allows.                             *)
RunFails(j) == /\ runner[j] = "run" /\ "run" \in Faults
               /\ FailJob(j, "scan failed")
               /\ Goto(j, "release")
               /\ UNCHANGED <<created, inserts, persisted, worker, wake, sem, loop, ctx>>

WasCancelled(j) == status[j] = "failed" /\ message[j] = "cancelled by user"

(* jobWasCancelled; when the query itself fails runJob logs and goes on.   *)
CheckCancelled(j) ==
    /\ runner[j] = "check"
    /\ \/ DbWorks(j) /\ WasCancelled(j) /\ Goto(j, "release")
       \/ DbWorks(j) /\ ~WasCancelled(j) /\ Goto(j, "persist")
       \/ DbFails(j) /\ Goto(j, "persist")
    /\ UNCHANGED <<table, worker, wake, sem, loop, ctx>>

(* PersistScan stores the snapshot, or fails before or after its INSERT.   *)
PersistScan(j) ==
    /\ runner[j] = "persist"
    /\ \/ /\ DbWorks(j)
          /\ persisted' = persisted \cup {j}
          /\ Goto(j, "complete")
          /\ UNCHANGED <<status, message>>
       \/ /\ DbFails(j)
          /\ persisted' \in {persisted, persisted \cup {j}}
          /\ FailJob(j, "persist snapshot")
          /\ Goto(j, "release")
    /\ UNCHANGED <<created, inserts, worker, wake, sem, loop, ctx>>

(* The last UPDATE, by id only; its error is only logged.                  *)
MarkCompleted(j) ==
    /\ runner[j] = "complete"
    /\ \/ /\ DbWorks(j)
          /\ status' = [status EXCEPT ![j] = "completed"]
          /\ message' = [message EXCEPT ![j] = "none"]
       \/ /\ DbFails(j)
          /\ UNCHANGED <<status, message>>
    /\ Goto(j, "release")
    /\ UNCHANGED <<created, inserts, persisted, worker, wake, sem, loop, ctx>>

(* The deferred functions of the goroutine: the context goes with it and   *)
(* the slot is given back.                                                 *)
Release(j) == /\ runner[j] = "release"
              /\ Goto(j, "none")
              /\ ctx' = [ctx EXCEPT ![j] = "live"]
              /\ sem' = sem - 1
              /\ UNCHANGED <<table, worker, wake, loop>>

-----------------------------------------------------------------------------
(* Start, Stop, and the death of the process.                              *)

(* Variant: Start without failStaleRunning.                                *)
StartOnly == /\ worker = "down"
             /\ worker' = "up"
             /\ wake' = 0
             /\ loop' = "select"
             /\ UNCHANGED <<table, sem, runner, ctx>>

(* Variant: interrupted rows are queued again instead of failed.           *)
StartRequeues == /\ worker = "down"
                 /\ status' = [j \in Jobs |->
                                 IF status[j] = "running" THEN "pending" ELSE status[j]]
                 /\ worker' = "up"
                 /\ wake' = 0
                 /\ loop' = "select"
                 /\ UNCHANGED <<message, created, inserts, persisted, sem, runner, ctx>>

(* New and Start in a fresh process: failStaleRunning, then the loop.      *)
Start == /\ worker = "down"
         /\ status' = [j \in Jobs |->
                         IF status[j] = "running" THEN "failed" ELSE status[j]]
         /\ message' = [j \in Jobs |->
                          IF status[j] = "running" THEN "interrupted by restart"
                                                   ELSE message[j]]
         /\ worker' = "up"
         /\ wake' = 0
         /\ loop' = "select"
         /\ UNCHANGED <<created, inserts, persisted, sem, runner, ctx>>

Stop == /\ worker = "up"
        /\ worker' = "stopping"
        /\ UNCHANGED <<table, wake, sem, loop, runner, ctx>>

(* wg.Wait returns.                                                        *)
StopReturns == /\ worker = "stopping"
               /\ loop = "exited" /\ InFlight = {}
               /\ worker' = "down"
               /\ UNCHANGED <<table, wake, sem, loop, runner, ctx>>

Crash == /\ worker # "down"
         /\ worker' = "down"
         /\ wake' = 0
         /\ sem' = 0
         /\ loop' = "exited"
         /\ runner' = [j \in Jobs |-> "none"]
         /\ ctx' = [j \in Jobs |-> "live"]
         /\ UNCHANGED table

-----------------------------------------------------------------------------
LoopStep == \/ LoopWake \/ LoopPoll \/ LoopExit \/ ProcessDone \/ AcquireSem
            \/ ClaimNone \/ ClaimError
            \/ \E j \in Jobs : Claim(j) \/ ClaimCommitLost(j)

RunnerStep(j) == \/ RunReturns(j) \/ RunFails(j) \/ CheckCancelled(j)
                 \/ PersistScan(j) \/ MarkCompleted(j) \/ Release(j)

Request == \/ \E j \in Jobs : CreateJob(j) \/ CancelJob(j)
           \/ \E h \in Hosts : DeleteTargetJobs(h)

Next == \/ Request
        \/ LoopStep
        \/ \E j \in Jobs : RunnerStep(j) \/ Expire(j)
        \/ Start \/ Stop \/ StopReturns \/ Crash

Spec == Init /\ [][Next]_vars

(* Goroutines that can run do run, gatherers are bounded by their own      *)
(* timeouts, a stopped container is started again (restart:                *)
(* unless-stopped), the database does not refuse every single claim, and a *)
(* select whose Done case stays ready does not ignore it for ever.         *)
Fairness == /\ WF_vars(LoopStep)
            /\ SF_vars(LoopExit)
            /\ SF_vars(\E j \in Jobs : Claim(j))
            /\ \A j \in Jobs : WF_vars(RunnerStep(j))
            /\ \A j \in Jobs : WF_vars(worker = "stopping" /\ Expire(j))
            /\ WF_vars(Start)
            /\ WF_vars(StopReturns)

FairSpec == Spec /\ Fairness

-----------------------------------------------------------------------------
(* The semaphore counts exactly the goroutines in flight and the slot the  *)
(* loop holds while it claims: no path of processPending or runJob leaks a *)
(* slot or returns one twice.                                              *)
SemCounts == sem = Cardinality(InFlight) + (IF loop = "claim" THEN 1 ELSE 0)

(* At most maxConcurrency scans run at once, through every failed claim,   *)
(* expired context and restart.                                            *)
BoundedConcurrency == Cardinality(InFlight) <= MaxConcurrency

(* A row whose goroutine still works on it is running, or was cancelled    *)
(* under it: it is never pending again, so it cannot be claimed twice, and *)
(* no recovery or deletion touches it.                                     *)
WorkedRowsClaimed ==
    \A j \in Owned : status[j] = "running" \/ WasCancelled(j)

(* When Stop has returned or the process is gone, nothing is left running  *)
(* in it: no goroutine and no slot taken, so failStaleRunning at the next  *)
(* Start fails only rows that nobody works on.                             *)
DownIsQuiet == worker = "down" => InFlight = {} /\ sem = 0 /\ loop = "exited"

(* A completed row has a snapshot that PersistScan stored for it, whatever *)
(* failed, timed out or was cancelled on the way.                          *)
CompletedHasSnapshot ==
    \A j \in Jobs : status[j] \in {"completed", "deleted"} => j \in persisted

(* A row that is failed and has no goroutine left at work never changes    *)
(* again: a scan cancelled while pending is never run or completed.        *)
FinishedRowsFinal ==
    [][\A j \in Jobs : status[j] = "failed" /\ j \notin Owned
                          => status'[j] = "failed" /\ message'[j] = message[j]]_vars

(* Once the worker stays up, every pending row is claimed or cancelled:    *)
(* a wake-up dropped because the channel was full, a full semaphore or a   *)
(* failed claim only delays it.                                            *)
PendingServed ==
    <>[](worker = "up") => \A j \in Jobs : status[j] = "pending" ~> status[j] # "pending"

(* A worker told to stop does stop: loop and goroutines all see the        *)
(* cancelled context or finish.                                            *)
StopCompletes == worker = "stopping" ~> worker = "down"

(* A running row ends: it completes, fails, is cancelled, or is failed by  *)
(* the restart that interrupted it.  This is what a client relies on that  *)
(* polls the row until it is done.                                         *)
RunningEnds == \A j \in Jobs : status[j] = "running" ~> status[j] # "running"

(* What a fault, a lost claim or a crash left running is ended by the next *)
(* start of the worker.                                                    *)
RestartEnds ==
    \A j \in Jobs : (status[j] = "running" /\ worker = "down") ~> status[j] # "running"

(* The worker implements the abstract queue: a row is owned while its      *)
(* goroutine can still write it.                                           *)
Abstract == INSTANCE JobQueue WITH owned <- Owned
ImplementsJobQueue == Abstract!Spec
=============================================================================
