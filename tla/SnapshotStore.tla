---------------------------- MODULE SnapshotStore ----------------------------
(***************************************************************************)
(* The life of the snapshots of one host: PersistScan of                   *)
(* internal/handlers, statement by statement and without a transaction,    *)
(* run by the goroutines of several scan jobs at once; the pruning         *)
(* goroutine each of them leaves behind; and the deletions an admin asks   *)
(* for.  Foreign keys act as the schema of internal/db says: snapshots go  *)
(* with their target, blobs with their snapshot, and a scan job forgets    *)
(* both.                                                                   *)
(*                                                                         *)
(* A scan inserts at most one snapshot, so a snapshot is named by the scan *)
(* that inserted it.                                                       *)
(***************************************************************************)
EXTENDS FiniteSets, Naturals

CONSTANTS Scans,       \* the scan jobs of the host
          None,        \* no snapshot
          Contents,    \* what a scan may find, up to its dedup hash
          WithThumb,   \* the scans that come with a screenshot thumbnail
          MaxTargets,  \* bound: how often the target row is created
          Scenarios    \* the circumstances to consider

ASSUME ScansAssumption == IsFiniteSet(Scans) /\ None \notin Scans /\ WithThumb \subseteq Scans
ASSUME BoundsAssumption == MaxTargets \in Nat \ {0}

(* A scenario: which scans there are and what they find, how many persist  *)
(* at once, retention_max_snapshots (0 for no limit), and what else may    *)
(* happen.                                                                 *)
ASSUME ScenariosAssumption ==
    Scenarios \subseteq [scans : SUBSET Scans, found : [Scans -> Contents],
                         atOnce : Nat \ {0}, retention : Nat,
                         events : SUBSET {"deleteSnapshot", "deleteTarget", "crash", "fault"}]

VARIABLES
    env,      \* the scenario, which does not change
    target,   \* targets.id of the host, 0 when there is no row
    targets,  \* how many target rows were created
    row,      \* the snapshot of a scan: "absent", "present" or "deleted"
    owner,    \* snapshots.target_id
    at,       \* snapshots.scanned_at
    base,     \* the snapshot that changes and change_details compare with
    blobs,    \* the snapshots with a row in snapshot_blobs
    job,      \* scan_jobs.status of the scan, "queued" before it persists anything
    link,     \* scan_jobs.snapshot_id
    jobTid,   \* scan_jobs.target_id, 0 for NULL
    clock,    \* the time
    pc,       \* where PersistScan is for the scan
    tid,      \* PersistScan's targetID
    prev,     \* storeSnapshot's previous
    stamp,    \* storeSnapshot's now
    out,      \* the snapshot PersistScan returns
    prunes,   \* the scans whose pruning goroutine has not run
    doomed,   \* the target deleteTarget is deleting, 0 for none
    unpruned, \* history: the scans whose pruning was lost since one of the host succeeded
    unrecorded \* history: the scans whose end could not be recorded

db     == <<target, targets, row, owner, at, base, blobs, job, link, jobTid>>
locals == <<tid, prev, stamp, out>>
lost   == <<unpruned, unrecorded>>
vars   == <<env, db, clock, pc, locals, prunes, doomed, lost>>

InStore == {"read", "write", "blob", "complete"}

TypeOK == /\ env \in Scenarios
          /\ target \in 0 .. MaxTargets /\ targets \in 0 .. MaxTargets
          /\ row \in [Scans -> {"absent", "present", "deleted"}]
          /\ owner \in [Scans -> 0 .. MaxTargets]
          /\ at \in [Scans -> Nat]
          /\ base \in [Scans -> Scans \cup {None}]
          /\ blobs \subseteq Scans
          /\ job \in [Scans -> {"queued", "running", "completed", "failed", "deleted"}]
          /\ link \in [Scans -> Scans \cup {None}]
          /\ jobTid \in [Scans -> 0 .. MaxTargets]
          /\ clock \in Nat
          /\ pc \in [Scans -> InStore \cup {"scan", "done"}]
          /\ tid \in [Scans -> 0 .. MaxTargets]
          /\ prev \in [Scans -> Scans \cup {None}]
          /\ stamp \in [Scans -> Nat]
          /\ out \in [Scans -> Scans \cup {None}]
          /\ prunes \subseteq Scans
          /\ doomed \in 0 .. MaxTargets
          /\ unpruned \subseteq Scans /\ unrecorded \subseteq Scans

Init == /\ env \in Scenarios
        /\ target = 0 /\ targets = 0
        /\ row = [s \in Scans |-> "absent"]
        /\ owner = [s \in Scans |-> 0]
        /\ at = [s \in Scans |-> 0]
        /\ base = [s \in Scans |-> None]
        /\ blobs = {}
        /\ job = [s \in Scans |-> "queued"]
        /\ link = [s \in Scans |-> None]
        /\ jobTid = [s \in Scans |-> 0]
        /\ clock = 0
        /\ pc = [s \in Scans |-> IF s \in env.scans THEN "scan" ELSE "done"]
        /\ tid = [s \in Scans |-> 0]
        /\ prev = [s \in Scans |-> None]
        /\ stamp = [s \in Scans |-> 0]
        /\ out = [s \in Scans |-> None]
        /\ prunes = {}
        /\ doomed = 0
        /\ unpruned = {} /\ unrecorded = {}

Present(t)  == {s \in Scans : row[s] = "present" /\ owner[s] = t}
Newer(s, t) == {x \in Present(t) : at[x] > at[s]}

(* ORDER BY scanned_at DESC LIMIT 1.                                       *)
Newest(t) == IF Present(t) = {} THEN None
             ELSE CHOOSE s \in Present(t) : Newer(s, t) = {}

-----------------------------------------------------------------------------
(* PersistScan.                                                            *)

(* As many scans of the host persist at once as the worker runs.           *)
MayPersist == Cardinality({x \in Scans : pc[x] \in InStore}) < env.atOnce

(* upsertTarget: INSERT ... ON CONFLICT (host) DO UPDATE.                  *)
UpsertTarget(s) ==
    /\ pc[s] = "scan" /\ MayPersist
    /\ \/ target # 0 /\ UNCHANGED <<target, targets>>
       \/ /\ target = 0
          /\ targets' = targets + 1
          /\ target' = targets'
    /\ tid' = [tid EXCEPT ![s] = target']
    /\ job' = [job EXCEPT ![s] = "running"]
    /\ pc' = [pc EXCEPT ![s] = "read"]
    /\ UNCHANGED <<env, row, owner, at, base, blobs, link, jobTid, clock, prev, stamp, out, prunes,
                   doomed, lost>>

(* storeSnapshot reads the previous snapshot, then the clock.              *)
ReadPrevious(s) ==
    /\ pc[s] = "read"
    /\ prev' = [prev EXCEPT ![s] = Newest(tid[s])]
    /\ clock' = clock + 1
    /\ stamp' = [stamp EXCEPT ![s] = clock']
    /\ pc' = [pc EXCEPT ![s] = "write"]
    /\ UNCHANGED <<env, db, tid, out, prunes, doomed, lost>>

(* The UPDATE that would record how a scan ended fails, as every statement *)
(* does on a context that is done: the job stays running.                  *)
Unrecorded(s) == /\ "fault" \in env.events
                 /\ job' = [job EXCEPT ![s] = "running"]
                 /\ unrecorded' = unrecorded \cup {s}

(* Variant: the error returns without failJob.                             *)
PersistFailsSilently(s) == /\ job' = [job EXCEPT ![s] = "running"]
                           /\ pc' = [pc EXCEPT ![s] = "done"]
                           /\ UNCHANGED unrecorded

(* PersistScan returned an error, which failJob records if it can.         *)
PersistFails(s) ==
    /\ \/ job' = [job EXCEPT ![s] = "failed"] /\ UNCHANGED unrecorded
       \/ Unrecorded(s)
    /\ pc' = [pc EXCEPT ![s] = "done"]

(* A statement of PersistScan fails, the scan itself before it, or that of *)
(* the tags or the thumbnail after the INSERT; the side effects, the       *)
(* pruning among them, are not started.                                    *)
StatementFails(s) ==
    /\ "fault" \in env.events
    /\ \/ pc[s] = "scan" /\ MayPersist /\ UNCHANGED unpruned
       \/ pc[s] \in {"read", "write"} /\ UNCHANGED unpruned
       \/ pc[s] = "blob" /\ unpruned' = unpruned \cup {s}
    /\ PersistFails(s)
    /\ UNCHANGED <<env, target, targets, row, owner, at, base, blobs, link, jobTid, clock, locals,
                   prunes, doomed>>

Identical(s) == prev[s] # None /\ env.found[prev[s]] = env.found[s]

(* Variant: the diff is always taken against nothing.                      *)
InsertSnapshotBare(s) ==
    /\ pc[s] = "write" /\ ~Identical(s)
    /\ target = tid[s]
    /\ row' = [row EXCEPT ![s] = "present"]
    /\ owner' = [owner EXCEPT ![s] = tid[s]]
    /\ at' = [at EXCEPT ![s] = stamp[s]]
    /\ out' = [out EXCEPT ![s] = s]
    /\ pc' = [pc EXCEPT ![s] = "blob"]
    /\ UNCHANGED <<env, base, job, target, targets, blobs, link, jobTid, clock, tid, prev, stamp,
                   prunes, doomed, lost>>

(* The content is that of the previous snapshot: last_seen is updated by   *)
(* id, whether or not the row is still there.                              *)
TouchPrevious(s) ==
    /\ pc[s] = "write" /\ Identical(s)
    /\ out' = [out EXCEPT ![s] = prev[s]]
    /\ pc' = [pc EXCEPT ![s] = "blob"]
    /\ UNCHANGED <<env, db, clock, tid, prev, stamp, prunes, doomed, lost>>

(* New content: the diff is taken against the previous snapshot read       *)
(* before, and the row is inserted if the target still exists.             *)
InsertSnapshot(s) ==
    /\ pc[s] = "write" /\ ~Identical(s)
    /\ \/ /\ target = tid[s]
          /\ row' = [row EXCEPT ![s] = "present"]
          /\ owner' = [owner EXCEPT ![s] = tid[s]]
          /\ at' = [at EXCEPT ![s] = stamp[s]]
          /\ base' = [base EXCEPT ![s] = prev[s]]
          /\ out' = [out EXCEPT ![s] = s]
          /\ pc' = [pc EXCEPT ![s] = "blob"]
          /\ UNCHANGED <<job, unrecorded>>
       \/ /\ target # tid[s]
          /\ PersistFails(s)
          /\ UNCHANGED <<row, owner, at, base, out>>
    /\ UNCHANGED <<env, target, targets, blobs, link, jobTid, clock, tid, prev, stamp, prunes,
                   doomed, unpruned>>

(* applyAutoTags updates the target by id (no row, no error); the          *)
(* thumbnail needs its snapshot; then the side effects are started, of     *)
(* which the pruning one writes these tables.                              *)
StoreBlob(s) ==
    /\ pc[s] = "blob"
    /\ \/ /\ s \notin WithThumb \/ row[out[s]] = "present"
          /\ blobs' = IF s \in WithThumb THEN blobs \cup {out[s]} ELSE blobs
          /\ prunes' = prunes \cup {s}
          /\ pc' = [pc EXCEPT ![s] = "complete"]
          /\ UNCHANGED <<job, lost>>
       \/ /\ s \in WithThumb /\ row[out[s]] # "present"
          /\ PersistFails(s)
          /\ unpruned' = unpruned \cup {s}
          /\ UNCHANGED <<blobs, prunes>>
    /\ UNCHANGED <<env, target, targets, row, owner, at, base, link, jobTid, clock, locals, doomed>>

(* runJob's last UPDATE: both references must resolve, and an error is     *)
(* only logged, whatever its cause.                                        *)
MarkCompleted(s) ==
    /\ pc[s] = "complete"
    /\ \/ /\ row[out[s]] = "present" /\ target = tid[s]
          /\ job' = [job EXCEPT ![s] = "completed"]
          /\ link' = [link EXCEPT ![s] = out[s]]
          /\ jobTid' = [jobTid EXCEPT ![s] = tid[s]]
          /\ UNCHANGED unrecorded
       \/ /\ row[out[s]] # "present" \/ target # tid[s]
          /\ UNCHANGED <<job, link, jobTid, unrecorded>>
       \/ Unrecorded(s) /\ UNCHANGED <<link, jobTid>>
    /\ pc' = [pc EXCEPT ![s] = "done"]
    /\ UNCHANGED <<env, target, targets, row, owner, at, base, blobs, clock, locals, prunes,
                   doomed, unpruned>>

-----------------------------------------------------------------------------
(* Deletions.                                                              *)

(* What goes with the snapshots in D: their blobs, and the references of   *)
(* scan jobs.                                                              *)
Cascade(D) == /\ row' = [s \in Scans |-> IF s \in D THEN "deleted" ELSE row[s]]
              /\ blobs' = blobs \ D
              /\ link' = [s \in Scans |-> IF link[s] \in D THEN None ELSE link[s]]

(* Variant: OFFSET counts from one.                                        *)
PrunableOffByOne(t) ==
    {s \in Present(t) : env.retention > 0 /\ Cardinality(Newer(s, t)) >= env.retention + 1}

(* Variant: the oldest are kept.                                           *)
PrunableNewest(t) ==
    {s \in Present(t) :
       env.retention > 0 /\ Cardinality(Present(t) \ Newer(s, t)) > env.retention}

(* The snapshots beyond the newest Retention; none when there is no limit. *)
Prunable(t) == {s \in Present(t) : env.retention > 0 /\ Cardinality(Newer(s, t)) >= env.retention}

(* The pruning goroutine runs; once the host is pruned it does not matter  *)
(* what earlier goroutines left.                                           *)
PruneTargetSnapshots(s) ==
    /\ s \in prunes
    /\ prunes' = prunes \ {s}
    /\ Cascade(Prunable(tid[s]))
    /\ unpruned' = IF tid[s] = target THEN {} ELSE unpruned
    /\ UNCHANGED <<env, target, targets, owner, at, base, job, jobTid, clock, pc, locals, doomed,
                   unrecorded>>

(* Its DELETE fails, and PersistScan ignores that.                         *)
PruneFails(s) ==
    /\ "fault" \in env.events /\ s \in prunes
    /\ prunes' = prunes \ {s}
    /\ unpruned' = unpruned \cup {s}
    /\ UNCHANGED <<env, db, clock, pc, locals, doomed, unrecorded>>

DeleteSnapshot(x) ==
    /\ "deleteSnapshot" \in env.events
    /\ row[x] = "present"
    /\ Cascade({x})
    /\ UNCHANGED <<env, target, targets, owner, at, base, job, jobTid, clock, pc, locals, prunes,
                   doomed, lost>>

(* Variant: the foreign key of scan_jobs.target_id without SET NULL.       *)
DeleteTargetRowKeepsJobs ==
    /\ doomed # 0
    /\ doomed' = 0
    /\ IF target = doomed
       THEN target' = 0 /\ Cascade(Present(doomed))
       ELSE UNCHANGED <<target, row, blobs, link>>
    /\ UNCHANGED <<env, targets, owner, at, base, job, jobTid, clock, pc, locals, prunes, lost>>

(* deleteTarget: first the scan jobs that reference the target ...         *)
DeleteTargetJobs ==
    /\ "deleteTarget" \in env.events
    /\ target # 0 /\ doomed = 0 /\ targets < MaxTargets
    /\ doomed' = target
    /\ LET linked == {s \in Scans : jobTid[s] = target}
       IN  /\ job' = [s \in Scans |-> IF s \in linked THEN "deleted" ELSE job[s]]
           /\ link' = [s \in Scans |-> IF s \in linked THEN None ELSE link[s]]
           /\ jobTid' = [s \in Scans |-> IF s \in linked THEN 0 ELSE jobTid[s]]
    /\ UNCHANGED <<env, target, targets, row, owner, at, base, blobs, clock, pc, locals, prunes, lost>>

(* ... then the target with all that hangs on it.                          *)
DeleteTargetRow ==
    /\ doomed # 0
    /\ doomed' = 0
    /\ IF target = doomed
       THEN /\ target' = 0
            /\ Cascade(Present(doomed))
            /\ jobTid' = [s \in Scans |-> IF jobTid[s] = doomed THEN 0 ELSE jobTid[s]]
       ELSE UNCHANGED <<target, row, blobs, link, jobTid>>
    /\ UNCHANGED <<env, targets, owner, at, base, job, clock, pc, locals, prunes, lost>>

(* ... or not, when that statement fails.                                  *)
DeleteTargetFails ==
    /\ "fault" \in env.events /\ doomed # 0
    /\ doomed' = 0
    /\ UNCHANGED <<env, db, clock, pc, locals, prunes, lost>>

(* The process dies and starts again: goroutines are gone, running jobs    *)
(* are failed by the scan worker.                                          *)
CrashRestart ==
    /\ "crash" \in env.events
    /\ \E s \in Scans : pc[s] \in InStore \/ s \in prunes
    /\ pc' = [s \in Scans |-> IF pc[s] \in InStore THEN "done" ELSE pc[s]]
    /\ job' = [s \in Scans |->
                 IF job[s] = "running" THEN "failed" ELSE job[s]]
    /\ prunes' = {}
    /\ doomed' = 0
    /\ unpruned' = unpruned \cup prunes \cup {s \in Scans : pc[s] = "blob"}
    /\ UNCHANGED <<env, target, targets, row, owner, at, base, blobs, link, jobTid, clock, locals,
                   unrecorded>>

-----------------------------------------------------------------------------
(* Every scan is through and nothing is left to do.                        *)
Finished == /\ \A s \in Scans : pc[s] = "done"
            /\ prunes = {} /\ doomed = 0
            /\ UNCHANGED vars

Next == \/ \E s \in Scans : \/ UpsertTarget(s) \/ ReadPrevious(s) \/ TouchPrevious(s)
                            \/ InsertSnapshot(s) \/ StoreBlob(s) \/ MarkCompleted(s)
                            \/ StatementFails(s) \/ PruneFails(s)
                            \/ PruneTargetSnapshots(s) \/ DeleteSnapshot(s)
        \/ DeleteTargetJobs \/ DeleteTargetRow \/ DeleteTargetFails \/ CrashRestart
        \/ Finished

Spec == Init /\ [][Next]_vars

-----------------------------------------------------------------------------
(* Every reference resolves and they agree: a snapshot's target exists, a  *)
(* blob's snapshot exists, and the snapshot a job points to exists and     *)
(* belongs to the target the job points to.                                *)
RefsResolve ==
    /\ \A s \in Scans : row[s] = "present" => owner[s] = target /\ target # 0
    /\ \A s \in blobs : row[s] = "present"
    /\ \A s \in Scans :
         /\ jobTid[s] \in {0, target}
         /\ link[s] # None => row[link[s]] = "present" /\ owner[link[s]] = jobTid[s]

(* With no pruning outstanding, the host has at most                       *)
(* retention_max_snapshots snapshots and one for each scan whose pruning   *)
(* was lost, to a failed DELETE, an error return of PersistScan or a       *)
(* crash, since a pruning of the host last succeeded; whatever scans and   *)
(* deletions ran at once.                                                  *)
RetentionHolds ==
    env.retention > 0 /\ prunes = {} /\ (\A s \in Scans : pc[s] # "blob")
    => Cardinality(Present(target) \ unpruned) <= env.retention

(* Pruning never removes the newest snapshot, even when it runs late and   *)
(* for several scans at once.                                              *)
PruneKeepsNewest ==
    [][prunes' # prunes /\ prunes' \subseteq prunes /\ pc' = pc
         => Newest(target)' = Newest(target)]_vars

(* The scans of the host persist one after the other and nobody deletes.   *)
Sequential == env.atOnce = 1 /\ env.events \subseteq {"crash", "fault"}

Inserted(s) == row[s] = "absent" /\ row'[s] = "present"

(* The changes stored with a snapshot compare it with the one before it,   *)
(* as long as the scans of a host do not overlap.                          *)
ChangesVersusPrevious ==
    [][Sequential => \A s \in Scans : Inserted(s) => base'[s] = Newest(tid[s])]_vars

(* A scan that is over leaves its job running only when the UPDATE that    *)
(* records its end failed by itself, or was refused because the snapshot   *)
(* or the target had gone; the latter not while the scans of a host do not *)
(* overlap and nobody deletes, though they prune (runJob in worker.go,     *)
(* and failStaleRunning after a crash).                                    *)
JobsEnd ==
    \A s \in Scans : pc[s] = "done" /\ job[s] = "running" =>
        \/ s \in unrecorded
        \/ ~Sequential /\ out[s] # None /\ (row[out[s]] # "present" \/ target # tid[s])
=============================================================================
