----------------------------- MODULE Enrichment -----------------------------
(***************************************************************************)
(* The enrichment of the snapshots of one host (internal/enrichment).      *)
(* Every scan that was persisted, be it with a new snapshot or by touching *)
(* the newest one, starts a goroutine that loads the snapshot's row, loads *)
(* the enrichment to compare with, asks the providers for seconds, and     *)
(* writes raw_data, changes and change_details back as a whole, by id.     *)
(*                                                                         *)
(* A snapshot is the number of its place in the order of scanned_at.  An   *)
(* entry of change_details is the run that wrote it, the provider, and     *)
(* what happened; an HIBP breach entry comes only with one of those.       *)
(***************************************************************************)
EXTENDS FiniteSets, FiniteSetsExt, Naturals

CONSTANTS Runs,          \* the goroutines
          Providers,     \* the providers that are configured, or need no key
          AnswerValues,  \* what a provider may say of the host
          MaxSnapshots,  \* bound: how many snapshots there will be
          Scenarios      \* the circumstances to consider

EventKinds == {"rescan", "delete", "crash", "persistFails", "dbError", "providerError"}

ASSUME RunsAssumption == IsFiniteSet(Runs) /\ Providers # {} /\ AnswerValues # {}
ASSUME ReservedAssumption == AnswerValues \cap {"none", "error"} = {}
ASSUME BoundAssumption == MaxSnapshots \in Nat \ {0}

(* A scenario says which runs there are, how many overlap, how many        *)
(* snapshots there will be, and what else may happen.                      *)
ASSUME ScenariosAssumption ==
    Scenarios \subseteq [runs   : SUBSET Runs, atOnce : Nat \ {0},
                         upto   : 1 .. MaxSnapshots, events : SUBSET EventKinds]

VARIABLES env,          \* the scenario, which does not change
          row,          \* whether a snapshot is "absent", "present" or "deleted"
          enr,          \* its raw_data.enrichment
          details,      \* the entries of change_details that enrichment added
          pc,           \* where a run is
          snap,         \* the snapshot it enriches, 0 before it starts
          seenDetails,  \* the change_details it read
          prev,         \* prevEnrichment
          cur,          \* what the providers answered
          alerts        \* history: the entries handed to the webhooks, with their snapshot

store == <<row, enr, details>>
enrichmentVars == <<env, store, pc, snap, seenDetails, prev, cur, alerts>>

SnapshotNumbers == 1 .. MaxSnapshots
Entries  == Runs \X Providers \X {"added", "changed"}
Blocks   == [Providers -> AnswerValues \cup {"none", "error"}]
Payloads == [status : {"none", "pending", "completed", "partial"}, block : Blocks]
NoAnswers == [p \in Providers |-> "none"]

(* PendingPayload.                                                         *)
PendingPayload == [status |-> "pending", block |-> NoAnswers]

(* A nil prevEnrichment.                                                   *)
NoPayload == [status |-> "none", block |-> NoAnswers]

EnrichmentTypeOK == /\ env \in Scenarios
                    /\ row \in [SnapshotNumbers -> {"absent", "present", "deleted"}]
                    /\ enr \in [SnapshotNumbers -> Payloads]
                    /\ details \in [SnapshotNumbers -> SUBSET Entries]
                    /\ pc \in [Runs -> {"off", "load", "previous", "query", "store", "done"}]
                    /\ snap \in [Runs -> 0 .. MaxSnapshots]
                    /\ seenDetails \in [Runs -> SUBSET Entries]
                    /\ prev \in [Runs -> Payloads]
                    /\ cur \in [Runs -> Blocks]
                    /\ alerts \subseteq SnapshotNumbers \X Entries

EnrichmentInit == /\ env \in Scenarios
                  /\ row = [s \in SnapshotNumbers |-> "absent"]
                  /\ enr = [s \in SnapshotNumbers |-> NoPayload]
                  /\ details = [s \in SnapshotNumbers |-> {}]
                  /\ pc = [g \in Runs |-> "off"]
                  /\ snap = [g \in Runs |-> 0]
                  /\ seenDetails = [g \in Runs |-> {}]
                  /\ prev = [g \in Runs |-> NoPayload]
                  /\ cur = [g \in Runs |-> NoAnswers]
                  /\ alerts = {}

Present == {s \in SnapshotNumbers : row[s] = "present"}
ActiveRuns == {g \in Runs : pc[g] \notin {"off", "done"}}

-----------------------------------------------------------------------------
(* PersistScan starts runs.                                                *)

StartRun(g, s) == /\ pc[g] = "off" /\ g \in env.runs /\ Cardinality(ActiveRuns) < env.atOnce
                  /\ pc' = [pc EXCEPT ![g] = "load"]
                  /\ snap' = [snap EXCEPT ![g] = s]
                  /\ UNCHANGED <<env, seenDetails, prev, cur, alerts>>

(* storeSnapshot inserts a snapshot with a pending enrichment.             *)
Insert(s) == /\ row[s] = "absent" /\ s <= env.upto
             /\ \A t \in 1 .. s - 1 : row[t] # "absent"
             /\ row' = [row EXCEPT ![s] = "present"]
             /\ enr' = [enr EXCEPT ![s] = PendingPayload]
             /\ UNCHANGED details

ScanInserts(g, s) == Insert(s) /\ StartRun(g, s)

(* PersistScan returns an error between the INSERT and the goroutine.      *)
ScanInsertsOnly(s) == /\ "persistFails" \in env.events
                      /\ Insert(s)
                      /\ UNCHANGED <<env, pc, snap, seenDetails, prev, cur, alerts>>

(* A scan with the content of the newest snapshot enriches that one again. *)
Rescan(g) == /\ "rescan" \in env.events /\ Present # {}
             /\ StartRun(g, Max(Present))
             /\ UNCHANGED store

-----------------------------------------------------------------------------
(* EnrichSnapshot.                                                         *)

Goto(g, l) == pc' = [pc EXCEPT ![g] = l]

(* Any statement, and so the run, may fail; the error is dropped.          *)
Fails(g) == /\ "dbError" \in env.events
            /\ pc[g] \in {"load", "store"}
            /\ Goto(g, "done")
            /\ UNCHANGED <<env, store, snap, seenDetails, prev, cur, alerts>>

Load(g) ==
    /\ pc[g] = "load"
    /\ \/ /\ row[snap[g]] = "present"
          /\ seenDetails' = [seenDetails EXCEPT ![g] = details[snap[g]]]
          /\ Goto(g, "previous")
       \/ /\ row[snap[g]] # "present"
          /\ Goto(g, "done")
          /\ UNCHANGED seenDetails
    /\ UNCHANGED <<env, store, snap, prev, cur, alerts>>

(* Variant: the run forgets that it has to exclude its own snapshot.       *)
PreviousSelf(s) == IF Present = {} THEN NoPayload ELSE enr[Max(Present)]

(* The enrichment of the newest other snapshot.                            *)
Previous(s) == LET others == Present \ {s}
               IN  IF others = {} THEN NoPayload ELSE enr[Max(others)]

(* loadPreviousEnrichment; its error is dropped and leaves nil.            *)
LoadPrevious(g) ==
    /\ pc[g] = "previous"
    /\ \/ prev' = [prev EXCEPT ![g] = Previous(snap[g])]
       \/ "dbError" \in env.events /\ prev' = [prev EXCEPT ![g] = NoPayload]
    /\ Goto(g, "query")
    /\ UNCHANGED <<env, store, snap, seenDetails, cur, alerts>>

ProviderAnswers ==
    AnswerValues \cup {"none"} \cup (IF "providerError" \in env.events THEN {"error"} ELSE {})

(* The providers are asked one after the other.                            *)
Query(g) == /\ pc[g] = "query"
            /\ \E a \in [Providers -> ProviderAnswers] : cur' = [cur EXCEPT ![g] = a]
            /\ Goto(g, "store")
            /\ UNCHANGED <<env, store, snap, seenDetails, prev, alerts>>

StatusOf(a) == IF \E p \in Providers : a[p] = "error" THEN "partial" ELSE "completed"

(* Variant: what is there already is announced again.                      *)
DiffEnrichmentAlways(g, b, a) == {<<g, p, "changed">> : p \in {q \in Providers : a[q] \in AnswerValues}}

(* DiffEnrichment: the blocks that appeared and those that changed.        *)
DiffEnrichment(g, b, a) ==
    LET given == {p \in Providers : a[p] \in AnswerValues}
    IN  {<<g, p, "added">>   : p \in {q \in given : b[q] \notin AnswerValues}}
        \cup {<<g, p, "changed">> : p \in {q \in given : b[q] \in AnswerValues /\ b[q] # a[q]}}

Diff(g) == DiffEnrichment(g, prev[g].block, cur[g])

(* Variant: an enrichment with errors is not stored.                       *)
StoreCompletedOnly(g) ==
    /\ pc[g] = "store"
    /\ enr' = IF StatusOf(cur[g]) = "completed"
              THEN [enr EXCEPT ![snap[g]] = [status |-> "completed", block |-> cur[g]]]
              ELSE enr
    /\ Goto(g, "done")
    /\ UNCHANGED <<env, row, details, snap, seenDetails, prev, cur, alerts>>

(* The UPDATE by id, which finds no row when the snapshot is gone; then    *)
(* the webhooks, whether it did or not.  They get the entries that were    *)
(* read along with the new ones; those were told of when they were stored. *)
Store(g) ==
    /\ pc[g] = "store"
    /\ LET s == snap[g]
       IN  /\ IF row[s] = "present"
              THEN /\ enr' = [enr EXCEPT ![s] = [status |-> StatusOf(cur[g]), block |-> cur[g]]]
                   /\ details' = [details EXCEPT ![s] = seenDetails[g] \cup Diff(g)]
              ELSE UNCHANGED <<enr, details>>
           /\ alerts' = alerts \cup ({s} \X Diff(g))
    /\ Goto(g, "done")
    /\ UNCHANGED <<env, row, snap, seenDetails, prev, cur>>

-----------------------------------------------------------------------------
(* The snapshot is deleted or pruned.                                      *)
Delete(s) == /\ "delete" \in env.events
             /\ row[s] = "present"
             /\ row' = [row EXCEPT ![s] = "deleted"]
             /\ UNCHANGED <<env, enr, details, pc, snap, seenDetails, prev, cur, alerts>>

(* The process dies: nothing remembers that the runs were under way.       *)
ProcessDies == /\ "crash" \in env.events /\ ActiveRuns # {}
               /\ pc' = [g \in Runs |-> IF g \in ActiveRuns THEN "done" ELSE pc[g]]
               /\ UNCHANGED <<env, store, snap, seenDetails, prev, cur, alerts>>

(* There is no further scan.                                               *)
Finished == ActiveRuns = {} /\ UNCHANGED enrichmentVars

RunStep(g) == Load(g) \/ LoadPrevious(g) \/ Query(g) \/ Store(g)

EnrichmentNext == \/ \E g \in Runs : \/ RunStep(g) \/ Fails(g) \/ Rescan(g)
                                     \/ \E s \in SnapshotNumbers : ScanInserts(g, s)
                  \/ \E s \in SnapshotNumbers : ScanInsertsOnly(s) \/ Delete(s)
                  \/ ProcessDies \/ Finished

EnrichmentSpec == EnrichmentInit /\ [][EnrichmentNext]_enrichmentVars

(* A goroutine runs on; the providers' HTTP clients have timeouts.         *)
EnrichmentFairSpec == EnrichmentSpec /\ \A g \in Runs : WF_enrichmentVars(RunStep(g))

(* A pending enrichment is completed, or its snapshot goes away, unless a  *)
(* crash or an error of the database cuts a run off or PersistScan fails   *)
(* between the INSERT and the start of the run.                            *)
EnrichmentEnds ==
    \A s \in SnapshotNumbers :
       ( /\ row[s] = "present" /\ enr[s].status = "pending"
         /\ env.events \cap {"crash", "dbError", "persistFails"} = {} )
       ~> (row[s] # "present" \/ enr[s].status # "pending")

(* One run after the other, none of them lost to an error of the database, *)
(* and no snapshot deleted; scans may repeat and the process may die.      *)
Undisturbed == env.atOnce = 1 /\ env.events \subseteq {"rescan", "providerError", "crash"}

(* What the snapshot before s has stored.                                  *)
Before(s) == IF s = 1 THEN NoPayload ELSE enr[s - 1]

(* Then the differences are those with the snapshot before                 *)
(* (loadPreviousEnrichment in worker.go).                                  *)
ComparesWithPrevious ==
    [][Undisturbed =>
         \A g \in Runs : pc[g] = "previous" /\ pc'[g] = "query"
            => prev'[g] = Before(snap[g])]_enrichmentVars

(* Then the webhooks are told of a provider only when its answer is not    *)
(* what the snapshot before has; and a scan that enriches a snapshot again *)
(* and gets the answer it has can only repeat what was told of it already  *)
(* (DiffEnrichment in diff.go, Dispatch in worker.go).                     *)
AlertsOnlyOnChange ==
    [][Undisturbed =>
         \A a \in alerts' \ alerts :
            LET s == a[1]  p == a[2][2]
            IN  /\ enr'[s].block[p] # Before(s).block[p]
                /\ enr'[s].block[p] = enr[s].block[p] => \E b \in alerts : b[1] = s /\ b[2][2] = p
      ]_enrichmentVars
=============================================================================
