---------------------------- MODULE Annotations ----------------------------
(***************************************************************************)
(* What users keep beside the scans: investigation notes, collections of   *)
(* targets and saved graph views (handlers/notes.go, collections.go,       *)
(* graph_views.go, internal/notes), against the deletions of what they     *)
(* refer to.  Every handler issues single statements; the foreign keys of  *)
(* internal/db/db.go clear or cascade references inside the DELETE, and    *)
(* the CHECK of investigation_notes refuses a DELETE that would leave a    *)
(* note without an anchor.                                                 *)
(*                                                                         *)
(* Rescanning a collection holds the connection of its query while each    *)
(* job is inserted over another connection of the same pool.  Titles,      *)
(* names and the rest of a row's text are left out, and so are statements  *)
(* that fail without effect.                                               *)
(***************************************************************************)
EXTENDS FiniteSets, Integers

CONSTANTS Targets, Snapshots, Collections, Notes, Views,
          TargetOf,        \* snapshots.target_id
          Node,            \* a graph node, which is not a row and is never deleted
          Null,            \* NULL
          Adds, Rescans,   \* requests to addCollectionTarget and rescanCollection
          MaxConns,        \* the size of the connection pool
          Retention,       \* retention_max_snapshots
          Newer(_, _),     \* the order of scanned_at
          TrashRetention,  \* how long a note stays in the trash, in ticks
          Scenarios        \* sets of request kinds to consider together

ASSUME RowsAssumption ==
    /\ TargetOf \in [Snapshots -> Targets]
    /\ Node \notin Targets \cup Snapshots \cup Collections
    /\ Null \notin Nat
    /\ IsFiniteSet(Rescans)
ASSUME BoundsAssumption ==
    MaxConns \in Nat \ {0} /\ Retention \in Nat /\ TrashRetention \in Nat
ASSUME ScenariosAssumption ==
    Scenarios \subseteq SUBSET {"notes", "views", "collections", "rescans"}

VARIABLES
    env,          \* the scenario, which does not change
    targets, snapshots, collections,  \* the rows there are
    created,      \* the collections there were
    members,      \* target_collection_members
    status,       \* investigation_notes.status, "absent" without a row
    anchors,      \* the target, snapshot, collection and graph node of a note
    trashedAt,    \* the age of trashed_at, or Null
    archivedAt,   \* the notes whose archived_at is set
    stay,         \* history: how long a note has been in the trash
    views,        \* the views there are
    viewRefs,     \* the target and the snapshots of a view
    asked,        \* history: the snapshots and notes that a user asked to delete
    adding,       \* the member that addCollectionTarget is about to insert
    rescan,       \* the state of rescanCollection
    asks, jobs,   \* the members a rescan read, and those it enqueued
    conns         \* connections held by requests

notesVars == <<status, anchors, trashedAt, archivedAt, stay>>
viewVars  == <<views, viewRefs>>
tables    == <<targets, snapshots, collections, created, members>>
rowVars   == <<tables, asked>>
callVars  == <<adding, rescan, asks, jobs, conns>>
vars == <<env, rowVars, notesVars, viewVars, callVars>>

Rows    == Targets \cup Snapshots \cup Collections
Present == targets \cup snapshots \cup collections
Ages    == 0 .. TrashRetention + 1

(* One optional target, snapshot, collection and graph node.               *)
AnchorSets ==
    {A \in SUBSET (Rows \cup {Node}) :
        \A S \in {Targets, Snapshots, Collections} : Cardinality(A \cap S) <= 1}

(* A view has an optional target, a snapshot and one to compare it with.   *)
ViewRefSets ==
    {A \in SUBSET (Targets \cup Snapshots) :
        Cardinality(A \cap Targets) <= 1 /\ Cardinality(A \cap Snapshots) <= 2}

TypeOK ==
    /\ env \in Scenarios
    /\ targets \subseteq Targets
    /\ snapshots \subseteq Snapshots
    /\ collections \subseteq created /\ created \subseteq Collections
    /\ members \subseteq Collections \X Targets
    /\ status \in [Notes -> {"absent", "active", "archived", "trashed"}]
    /\ anchors \in [Notes -> SUBSET (Rows \cup {Node})]
    /\ trashedAt \in [Notes -> Ages \cup {Null}]
    /\ archivedAt \subseteq Notes
    /\ stay \in [Notes -> Ages]
    /\ views \subseteq Views
    /\ viewRefs \in [Views -> SUBSET (Targets \cup Snapshots)]
    /\ asked \subseteq Snapshots \cup Notes
    /\ adding \in [Adds -> (Collections \X Targets) \cup {<<>>}]
    /\ rescan \in [Rescans -> {"idle", "enqueue", "accepted", "failed"}]
    /\ asks \in [Rescans -> SUBSET Targets]
    /\ jobs \in [Rescans -> SUBSET Targets]
    /\ conns \in 0 .. MaxConns

Init ==
    /\ env \in Scenarios
    /\ targets = Targets /\ snapshots = Snapshots
    /\ collections = {} /\ created = {} /\ members = {}
    /\ status = [n \in Notes |-> "absent"]
    /\ anchors = [n \in Notes |-> {}]
    /\ trashedAt = [n \in Notes |-> Null]
    /\ archivedAt = {}
    /\ stay = [n \in Notes |-> 0]
    /\ views = {} /\ viewRefs = [v \in Views |-> {}]
    /\ asked = {}
    /\ adding = [a \in Adds |-> <<>>]
    /\ rescan = [r \in Rescans |-> "idle"]
    /\ asks = [r \in Rescans |-> {}] /\ jobs = [r \in Rescans |-> {}]
    /\ conns = 0

(* A statement needs a connection of the pool.                             *)
ConnFree == conns < MaxConns

-----------------------------------------------------------------------------
(* Notes.  The foreign keys want anchors that exist, the handler and the   *)
(* CHECK at least one.                                                     *)
Anchored(A) == A # {}

CreateNote(n) ==
    /\ "notes" \in env /\ ConnFree
    /\ status[n] = "absent"
    /\ \E A \in AnchorSets :
        /\ Anchored(A)
        /\ A \subseteq Present \cup {Node}
        /\ anchors' = [anchors EXCEPT ![n] = A]
    /\ status' = [status EXCEPT ![n] = "active"]
    /\ asked' = asked \ {n}
    /\ UNCHANGED <<env, trashedAt, archivedAt, stay, tables, viewVars, callVars>>

UpdateNote(n) ==
    /\ "notes" \in env /\ ConnFree
    /\ status[n] \in {"active", "archived"}
    /\ \E A \in AnchorSets :
        /\ Anchored(A)
        /\ A \subseteq Present \cup {Node}
        /\ anchors' = [anchors EXCEPT ![n] = A]
    /\ UNCHANGED <<env, status, trashedAt, archivedAt, stay, rowVars, viewVars, callVars>>

Archive(n) ==
    /\ "notes" \in env /\ ConnFree
    /\ status[n] = "active"
    /\ status' = [status EXCEPT ![n] = "archived"]
    /\ archivedAt' = archivedAt \cup {n}
    /\ trashedAt' = [trashedAt EXCEPT ![n] = Null]
    /\ UNCHANGED <<env, anchors, stay, rowVars, viewVars, callVars>>

Unarchive(n) ==
    /\ "notes" \in env /\ ConnFree
    /\ status[n] = "archived"
    /\ status' = [status EXCEPT ![n] = "active"]
    /\ archivedAt' = archivedAt \ {n}
    /\ UNCHANGED <<env, anchors, trashedAt, stay, rowVars, viewVars, callVars>>

Trash(n) ==
    /\ "notes" \in env /\ ConnFree
    /\ status[n] \in {"active", "archived"}
    /\ status' = [status EXCEPT ![n] = "trashed"]
    /\ trashedAt' = [trashedAt EXCEPT ![n] = 0]
    /\ archivedAt' = archivedAt \ {n}
    /\ stay' = [stay EXCEPT ![n] = 0]
    /\ UNCHANGED <<env, anchors, rowVars, viewVars, callVars>>

Restore(n) ==
    /\ "notes" \in env /\ ConnFree
    /\ status[n] = "trashed"
    /\ status' = [status EXCEPT ![n] = "active"]
    /\ trashedAt' = [trashedAt EXCEPT ![n] = Null]
    /\ archivedAt' = archivedAt \ {n}
    /\ stay' = [stay EXCEPT ![n] = 0]
    /\ UNCHANGED <<env, anchors, rowVars, viewVars, callVars>>

(* The rows of the notes in S go.                                          *)
DropNotes(S) ==
    /\ status' = [n \in Notes |-> IF n \in S THEN "absent" ELSE status[n]]
    /\ anchors' = [n \in Notes |-> IF n \in S THEN {} ELSE anchors[n]]
    /\ trashedAt' = [n \in Notes |-> IF n \in S THEN Null ELSE trashedAt[n]]
    /\ archivedAt' = archivedAt \ S
    /\ stay' = [n \in Notes |-> IF n \in S THEN 0 ELSE stay[n]]
    /\ UNCHANGED <<env, tables, viewVars, callVars>>

DeleteNote(n) ==
    /\ "notes" \in env /\ ConnFree
    /\ status[n] = "trashed"
    /\ DropNotes({n})
    /\ asked' = asked \cup {n}

(* Variant: the purge looks at the stamp alone.                            *)
ExpiredByStamp(n) == trashedAt[n] # Null /\ trashedAt[n] >= TrashRetention

Expired(n) == status[n] = "trashed" /\ trashedAt[n] # Null /\ trashedAt[n] > TrashRetention

(* listNotes and getNote begin with a purge; the rest of them only reads.  *)
PurgeExpiredTrashed ==
    /\ "notes" \in env /\ ConnFree
    /\ \E n \in Notes : Expired(n)
    /\ DropNotes({n \in Notes : Expired(n)})
    /\ UNCHANGED asked

(* Time passes for what is in the trash.                                   *)
Older(age) == IF age = Null THEN Null ELSE IF age > TrashRetention THEN age ELSE age + 1

Tick ==
    /\ \E n \in Notes : status[n] = "trashed" /\ stay[n] <= TrashRetention
    /\ trashedAt' = [n \in Notes |-> Older(trashedAt[n])]
    /\ stay' = [n \in Notes |-> IF status[n] = "trashed" THEN Older(stay[n]) ELSE stay[n]]
    /\ UNCHANGED <<env, status, anchors, archivedAt, rowVars, viewVars, callVars>>

-----------------------------------------------------------------------------
(* Graph views.                                                            *)
RefsChosen(v) ==
    \E R \in ViewRefSets : R \subseteq Present /\ viewRefs' = [viewRefs EXCEPT ![v] = R]

CreateView(v) ==
    /\ "views" \in env /\ ConnFree
    /\ v \notin views
    /\ RefsChosen(v)
    /\ views' = views \cup {v}
    /\ UNCHANGED <<env, rowVars, notesVars, callVars>>

UpdateView(v) ==
    /\ "views" \in env /\ ConnFree
    /\ v \in views
    /\ RefsChosen(v)
    /\ UNCHANGED <<env, views, rowVars, notesVars, callVars>>

DeleteView(v) ==
    /\ "views" \in env /\ ConnFree
    /\ v \in views
    /\ views' = views \ {v}
    /\ viewRefs' = [viewRefs EXCEPT ![v] = {}]
    /\ UNCHANGED <<env, rowVars, notesVars, callVars>>

-----------------------------------------------------------------------------
(* What a DELETE of the rows D takes with it: the snapshots of a target.   *)
Cascade(D) == D \cup {s \in snapshots : TargetOf[s] \in D}

(* The CHECK of investigation_notes on every row the SET NULLs change.     *)
CheckPasses(gone) ==
    \A n \in Notes : status[n] # "absent" => Anchored(anchors[n] \ gone)

(* Variant: a row forgets only what was asked to be deleted, not what went *)
(* with it.                                                                *)
DeleteForgetsCascade(D) ==
    LET gone == Cascade(D) IN
    /\ CheckPasses(gone)
    /\ targets' = targets \ gone
    /\ snapshots' = snapshots \ gone
    /\ collections' = collections \ gone
    /\ members' = {m \in members : m[1] \notin gone /\ m[2] \notin gone}
    /\ anchors' = [n \in Notes |-> anchors[n] \ gone]
    /\ viewRefs' = [v \in Views |-> viewRefs[v] \ D]
    /\ UNCHANGED <<env, created, status, trashedAt, archivedAt, stay, views, callVars>>

(* DELETE with its cascades and its SET NULLs, refused as a whole when the *)
(* CHECK fails.                                                            *)
Delete(D) ==
    LET gone == Cascade(D) IN
    /\ CheckPasses(gone)
    /\ targets' = targets \ gone
    /\ snapshots' = snapshots \ gone
    /\ collections' = collections \ gone
    /\ members' = {m \in members : m[1] \notin gone /\ m[2] \notin gone}
    /\ anchors' = [n \in Notes |-> anchors[n] \ gone]
    /\ viewRefs' = [v \in Views |-> viewRefs[v] \ gone]
    /\ UNCHANGED <<env, created, status, trashedAt, archivedAt, stay, views, callVars>>

DeleteTarget(t) ==
    /\ ConnFree
    /\ t \in targets
    /\ Delete({t})
    /\ UNCHANGED asked

(* The answer is an error when the CHECK refuses, and nothing changes.     *)
DeleteSnapshot(s) ==
    /\ ConnFree
    /\ s \in snapshots
    /\ asked' = asked \cup {s}
    /\ \/ Delete({s})
       \/ /\ ~CheckPasses({s})
          /\ UNCHANGED <<env, targets, snapshots, collections, created, members,
                         notesVars, viewVars, callVars>>

DeleteCollection(c) ==
    /\ ConnFree
    /\ c \in collections
    /\ Delete({c})
    /\ UNCHANGED asked

(* The snapshots of t beyond the newest Retention go in one statement.     *)
Surplus(t) ==
    {s \in snapshots :
        /\ TargetOf[s] = t
        /\ Cardinality({u \in snapshots : TargetOf[u] = t /\ Newer(u, s)}) >= Retention}

PruneTargetSnapshots(t) ==
    /\ ConnFree
    /\ Retention > 0
    /\ Surplus(t) # {}
    /\ Delete(Surplus(t))
    /\ UNCHANGED asked

-----------------------------------------------------------------------------
(* Collections.                                                            *)
CreateCollection(c) ==
    /\ ConnFree
    /\ c \notin created
    /\ created' = created \cup {c}
    /\ collections' = collections \cup {c}
    /\ UNCHANGED <<env, targets, snapshots, members, asked, notesVars, viewVars, callVars>>

(* addCollectionTarget looks for the target ...                            *)
AddCheck(a) ==
    /\ "collections" \in env /\ ConnFree
    /\ adding[a] = <<>>
    /\ \E c \in created, t \in targets : adding' = [adding EXCEPT ![a] = <<c, t>>]
    /\ UNCHANGED <<env, rescan, asks, jobs, conns, rowVars, notesVars, viewVars>>

(* ... and inserts it if both keys still resolve.                          *)
KeysResolve(m) == m[1] \in collections /\ m[2] \in targets

AddInsert(a) ==
    /\ ConnFree
    /\ adding[a] # <<>>
    /\ members' = IF KeysResolve(adding[a]) THEN members \cup {adding[a]} ELSE members
    /\ adding' = [adding EXCEPT ![a] = <<>>]
    /\ UNCHANGED <<env, targets, snapshots, collections, created, asked, rescan, asks, jobs,
                   conns, notesVars, viewVars>>

RemoveCollectionTarget(m) ==
    /\ "collections" \in env /\ ConnFree
    /\ members' = members \ {m}
    /\ UNCHANGED <<env, targets, snapshots, collections, created, asked, notesVars, viewVars,
                   callVars>>

(* rescanCollection: the query, whose connection is kept while the rows    *)
(* are read ...                                                            *)
RescanQuery(r) ==
    /\ "rescans" \in env /\ ConnFree
    /\ rescan[r] # "enqueue"
    /\ \E c \in created : asks' = [asks EXCEPT ![r] = {m[2] : m \in {x \in members : x[1] = c}}]
    /\ jobs' = [jobs EXCEPT ![r] = {}]
    /\ rescan' = [rescan EXCEPT ![r] = "enqueue"]
    /\ conns' = conns + 1
    /\ UNCHANGED <<env, adding, rowVars, notesVars, viewVars>>

(* ... one CreateJob per row, over another connection ...                  *)
RescanCreateJob(r) ==
    /\ ConnFree
    /\ rescan[r] = "enqueue"
    /\ \E t \in asks[r] \ jobs[r] : jobs' = [jobs EXCEPT ![r] = @ \cup {t}]
    /\ UNCHANGED <<env, adding, rescan, asks, conns, rowVars, notesVars, viewVars>>

(* Variant: the inserts run without the request's deadline.                *)
RescanFailsNever(r) == FALSE

(* ... which fails with the database, or with the request's context after  *)
(* 30 s ...                                                                *)
RescanFails(r) ==
    /\ rescan[r] = "enqueue"
    /\ asks[r] \ jobs[r] # {}
    /\ rescan' = [rescan EXCEPT ![r] = "failed"]
    /\ conns' = conns - 1
    /\ UNCHANGED <<env, adding, asks, jobs, rowVars, notesVars, viewVars>>

(* ... until no row is left, which gives the connection back.              *)
RescanAccepted(r) ==
    /\ rescan[r] = "enqueue"
    /\ asks[r] \subseteq jobs[r]
    /\ rescan' = [rescan EXCEPT ![r] = "accepted"]
    /\ conns' = conns - 1
    /\ UNCHANGED <<env, adding, asks, jobs, rowVars, notesVars, viewVars>>

(* When the reading breaks off, the handler does not ask why there is no   *)
(* next row, and accepts as well.                                          *)
RescanCut(r) ==
    /\ rescan[r] = "enqueue"
    /\ ~(asks[r] \subseteq jobs[r])
    /\ rescan' = [rescan EXCEPT ![r] = "accepted"]
    /\ conns' = conns - 1
    /\ UNCHANGED <<env, adding, asks, jobs, rowVars, notesVars, viewVars>>

-----------------------------------------------------------------------------
Next ==
    \/ \E n \in Notes : CreateNote(n) \/ UpdateNote(n)
    \/ \E n \in Notes : Archive(n) \/ Unarchive(n) \/ Trash(n) \/ Restore(n) \/ DeleteNote(n)
    \/ PurgeExpiredTrashed
    \/ Tick
    \/ \E v \in Views : CreateView(v) \/ UpdateView(v) \/ DeleteView(v)
    \/ \E t \in Targets : DeleteTarget(t) \/ PruneTargetSnapshots(t)
    \/ \E s \in Snapshots : DeleteSnapshot(s)
    \/ \E c \in Collections : CreateCollection(c) \/ DeleteCollection(c)
    \/ \E a \in Adds : AddCheck(a) \/ AddInsert(a)
    \/ \E m \in members : RemoveCollectionTarget(m)
    \/ \E r \in Rescans : RescanQuery(r) \/ RescanCreateJob(r)
    \/ \E r \in Rescans : RescanFails(r) \/ RescanAccepted(r) \/ RescanCut(r)

Spec == Init /\ [][Next]_vars

(* A rescan under way goes on: it gets a connection, or its deadline comes.*)
(* Nothing is assumed of RescanCut.                                        *)
Fairness == \A r \in Rescans : WF_vars(RescanCreateJob(r) \/ RescanFails(r) \/ RescanAccepted(r))

FairSpec == Spec /\ Fairness

-----------------------------------------------------------------------------
(* Whatever is deleted, and whenever, no note, view or membership refers   *)
(* to a row that is gone.                                                  *)
RefsResolve ==
    /\ \A n \in Notes : anchors[n] \subseteq Present \cup {Node}
    /\ \A v \in Views : viewRefs[v] \subseteq Present
    /\ \A m \in members : KeysResolve(m)

(* A note that exists says what it is about: no sequence of edits and      *)
(* deletions leaves one without an anchor.                                 *)
NotesAnchored == \A n \in Notes : status[n] # "absent" => anchors[n] # {}

(* trashed_at and archived_at agree with the status through every sequence *)
(* of transitions, so that the purge can rely on trashed_at.               *)
StampsMatchStatus ==
    \A n \in Notes :
        /\ trashedAt[n] # Null <=> status[n] = "trashed"
        /\ n \in archivedAt <=> status[n] = "archived"

(* A note disappears only out of the trash: by request, or after it has    *)
(* lain there for the whole retention since it was last put there.         *)
OnlyTrashVanishes ==
    [][\A n \in Notes :
        status[n] # "absent" /\ status'[n] = "absent" =>
            /\ status[n] = "trashed"
            /\ n \in asked' \/ stay[n] > TrashRetention]_vars

(* The connections in use are those of rescans under way: every path gives *)
(* its connection back.                                                    *)
ConnsAccounted == conns = Cardinality({r \in Rescans : rescan[r] = "enqueue"})

(* No rescan is under way for ever, even when rescans hold every           *)
(* connection and wait for each other to give one back.                    *)
RescansEnd == \A r \in Rescans : rescan[r] = "enqueue" ~> rescan[r] # "enqueue"
=============================================================================
