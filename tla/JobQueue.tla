------------------------------ MODULE JobQueue ------------------------------
(***************************************************************************)
(* What a database-backed job queue of EchoState promises, whatever is     *)
(* queued: internal/scans.Worker and internal/reports.Worker both keep     *)
(* their jobs as rows whose status column drives the work, and both        *)
(* implement this specification (see ScanQueue and ReportQueue).           *)
(*                                                                         *)
(* A row is submitted once, claimed at most once, and from then on is      *)
(* written by its single owner, by a cancellation, or by the recovery      *)
(* that runs while nobody owns anything.                                   *)
(***************************************************************************)
EXTENDS FiniteSets, Naturals

CONSTANTS Jobs,            \* the ids a row may get
          MaxConcurrency   \* how many rows may be owned at once

VARIABLES status,   \* the status column, "absent" before INSERT, "deleted" after DELETE
          owned     \* the rows a live worker goroutine may still write

vars == <<status, owned>>

Status == {"absent", "pending", "running", "completed", "failed", "deleted"}

TypeOK == /\ status \in [Jobs -> Status]
          /\ owned \subseteq Jobs

Init == /\ status = [j \in Jobs |-> "absent"]
        /\ owned = {}

Exists(j) == status[j] \notin {"absent", "deleted"}

Submit(j) == /\ status[j] = "absent"
             /\ status' = [status EXCEPT ![j] = "pending"]
             /\ UNCHANGED owned

(* A claim makes the claimant the owner, unless the claim was committed    *)
(* but its acknowledgement never reached the claimant.                     *)
Claim(j) == /\ status[j] = "pending"
            /\ status' = [status EXCEPT ![j] = "running"]
            /\ \/ /\ Cardinality(owned) < MaxConcurrency
                  /\ owned' = owned \cup {j}
               \/ UNCHANGED owned

Cancel(j) == /\ status[j] \in {"pending", "running"}
             /\ status' = [status EXCEPT ![j] = "failed"]
             /\ UNCHANGED owned

(* The owner gives the row up, with or without managing to write its end.  *)
Finish(j) == /\ j \in owned
             /\ owned' = owned \ {j}
             /\ \/ /\ Exists(j)
                   /\ \E s \in {"completed", "failed"} :
                        status' = [status EXCEPT ![j] = s]
                \/ UNCHANGED status

Abandon == /\ owned # {}
           /\ owned' = {}
           /\ UNCHANGED status

Recover == /\ owned = {}
           /\ status' = [j \in Jobs |->
                           IF status[j] = "running" THEN "failed" ELSE status[j]]
           /\ UNCHANGED owned

Purge(S) == /\ S # {} /\ \A j \in S : Exists(j)
            /\ status' = [j \in Jobs |-> IF j \in S THEN "deleted" ELSE status[j]]
            /\ UNCHANGED owned

Next == \/ \E j \in Jobs : Submit(j) \/ Claim(j) \/ Cancel(j) \/ Finish(j)
        \/ Abandon \/ Recover
        \/ \E S \in SUBSET Jobs : Purge(S)

Spec == Init /\ [][Next]_vars

-----------------------------------------------------------------------------
(* No more rows are owned at once than the worker was configured for.      *)
BoundedOwners == Cardinality(owned) <= MaxConcurrency

(* A row somebody owns has been submitted and claimed: it is never handed  *)
(* out a second time.                                                      *)
OwnedRowsClaimed == \A j \in owned : status[j] \notin {"absent", "pending"}

(* A row that is finished or gone changes only by its owner or a DELETE:   *)
(* nothing else re-opens, completes or fails it.                           *)
FinishedRowsStable ==
    [][\A j \in Jobs :
         /\ status[j] = "deleted" => status'[j] = "deleted"
         /\ status[j] \in {"completed", "failed"} /\ j \notin owned
              => status'[j] \in {status[j], "deleted"}]_vars
=============================================================================
