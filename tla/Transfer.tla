------------------------------ MODULE Transfer ------------------------------
(***************************************************************************)
(* Export and import of all investigation data (internal/export).  An      *)
(* export reads the tables one after another, outside any transaction,     *)
(* while the installation goes on working.  An import writes the bundle    *)
(* into another installation in one transaction that any violated          *)
(* constraint aborts; identifiers of targets and collections that are      *)
(* there under another one are mapped.                                     *)
(*                                                                         *)
(* A row carries the installation its content is from, so that what was    *)
(* written over can be told.  A target never changes its host, in either   *)
(* installation; a collection may be renamed.  Notes are anchored to a     *)
(* node of the graph besides, so that their CHECK refuses no deletion.     *)
(***************************************************************************)
EXTENDS Naturals, Sequences

CONSTANTS TargetIds, HostOf,        \* the hosts of the targets
          Sources, Destinations,    \* the installations to consider
          Later,                    \* what the source may store during the export
          MaxChanges                \* bounds these changes

Tables == <<"targets", "snapshots", "blobs", "collections", "members", "notes", "views", "config">>
NoRef  == "null"
NoRows == [x \in {} |-> NoRef]

(* A database: its targets, the rows by their ids, the pairs of a          *)
(* collection and a member, the snapshots with a blob, and where settings  *)
(* and webhooks are from.                                                  *)
Blank == [targets |-> {}, snapshots |-> NoRows, blobs |-> {}, collections |-> NoRows,
          members |-> {}, notes |-> NoRows, views |-> NoRows, config |-> "none"]

Rows(f, columns) == /\ f = [x \in DOMAIN f |-> f[x]]
                    /\ \A x \in DOMAIN f : f[x] = [k \in columns |-> f[x][k]]

Database(db) ==
    /\ db = [k \in DOMAIN Blank |-> db[k]]
    /\ db.collections = [c \in DOMAIN db.collections |-> db.collections[c]]
    /\ \A m \in db.members : m = <<m[1], m[2]>>
    /\ Rows(db.snapshots, {"target", "from"})
    /\ Rows(db.notes, {"target", "snapshot", "collection", "from"})
    /\ Rows(db.views, {"name", "target", "snapshot", "from"})

(* The constraints of the schema.                                          *)
Allowed(db) ==
    /\ \A t, u \in db.targets : HostOf[t] = HostOf[u] => t = u
    /\ \A s \in DOMAIN db.snapshots : db.snapshots[s].target \in db.targets
    /\ db.blobs \subseteq DOMAIN db.snapshots
    /\ \A c, d \in DOMAIN db.collections : db.collections[c] = db.collections[d] => c = d
    /\ \A m \in db.members : m[1] \in DOMAIN db.collections /\ m[2] \in db.targets
    /\ \A n \in DOMAIN db.notes :
        /\ db.notes[n].target \in db.targets \cup {NoRef}
        /\ db.notes[n].snapshot \in DOMAIN db.snapshots \cup {NoRef}
        /\ db.notes[n].collection \in DOMAIN db.collections \cup {NoRef}
    /\ \A v, w \in DOMAIN db.views : db.views[v].name = db.views[w].name => v = w
    /\ \A v \in DOMAIN db.views :
        /\ db.views[v].target \in db.targets \cup {NoRef}
        /\ db.views[v].snapshot \in DOMAIN db.snapshots \cup {NoRef}

(* A snapshot that two installations have came there by an import, which   *)
(* keeps its host.                                                         *)
ASSUME TransferAssumption ==
    /\ TargetIds \subseteq DOMAIN HostOf /\ MaxChanges \in Nat
    /\ \A db \in Sources \cup Destinations \cup Later : Database(db)
    /\ \A db \in Sources \cup Destinations : Allowed(db)
    /\ \A there \in Destinations, here \in Sources \cup Later :
        \A s \in DOMAIN there.snapshots \cap DOMAIN here.snapshots :
            HostOf[there.snapshots[s].target] = HostOf[here.snapshots[s].target]

VARIABLES
    src,      \* the installation that is exported
    dst,      \* the one that is imported into
    was,      \* dst before the import
    bundle,   \* what was read so far
    step,     \* the number of the next table to read
    result,   \* how the import ended
    conflict, \* how rows that exist are treated
    changes,  \* the changes of the source during the export
    gone      \* the targets it deleted

transferVars == <<src, dst, was, bundle, step, result, conflict, changes, gone>>

Over(f, g) == [x \in DOMAIN f \cup DOMAIN g |-> IF x \in DOMAIN f THEN f[x] ELSE g[x]]
Only(f, S) == [x \in DOMAIN f \cap S |-> f[x]]

TransferInit ==
    /\ src \in Sources /\ dst \in Destinations /\ was = dst
    /\ bundle = Blank
    /\ step = 1 /\ result = "none"
    /\ conflict \in {"skip", "overwrite"}
    /\ changes = 0 /\ gone = {}

-----------------------------------------------------------------------------
(* BuildBundle: one query for each table.                                  *)
ReadTable ==
    /\ step \in DOMAIN Tables
    /\ bundle' = [bundle EXCEPT ![Tables[step]] = src[Tables[step]]]
    /\ step' = step + 1
    /\ UNCHANGED <<src, dst, was, result, conflict, changes, gone>>

(* Meanwhile rows are added: a scan stores a target with a snapshot and    *)
(* its blob, a user writes a note or fills a collection.  An id that was   *)
(* deleted is never given again.                                           *)
StoreRows(addition) ==
    /\ step \in DOMAIN Tables /\ changes < MaxChanges
    /\ addition.targets \cap gone = {}
    /\ src' = [targets     |-> src.targets \cup addition.targets,
               snapshots   |-> Over(addition.snapshots, src.snapshots),
               blobs       |-> src.blobs \cup addition.blobs,
               collections |-> Over(addition.collections, src.collections),
               members     |-> src.members \cup addition.members,
               notes       |-> Over(addition.notes, src.notes),
               views       |-> Over(addition.views, src.views),
               config      |-> src.config]
    /\ src' # src /\ Allowed(src')
    /\ changes' = changes + 1
    /\ UNCHANGED <<dst, was, bundle, step, result, conflict, gone>>

Unlink(ref, kept) == IF ref \in kept THEN ref ELSE NoRef

Freed(rows, targets, snapshots) ==
    [x \in DOMAIN rows |->
        [rows[x] EXCEPT !.target = Unlink(@, targets), !.snapshot = Unlink(@, snapshots)]]

(* deleteTarget takes the snapshots along, and empties references to them. *)
DeleteTarget(t) ==
    /\ step \in DOMAIN Tables /\ changes < MaxChanges /\ t \in src.targets
    /\ LET targets   == src.targets \ {t}
           snapshots == {s \in DOMAIN src.snapshots : src.snapshots[s].target # t}
       IN  src' = [src EXCEPT
               !.targets = targets,
               !.snapshots = Only(@, snapshots),
               !.blobs = @ \cap snapshots,
               !.members = {m \in @ : m[2] # t},
               !.notes = Freed(@, targets, snapshots),
               !.views = Freed(@, targets, snapshots)]
    /\ changes' = changes + 1
    /\ gone' = gone \cup {t}
    /\ UNCHANGED <<dst, was, bundle, step, result, conflict>>

-----------------------------------------------------------------------------
(* ImportBundle, table by table: what dst has after each.                  *)

(* Variant: a skipped target that has another id is not mapped.            *)
SkippedUnmapped ==
    [t \in {x \in bundle.targets :
        x \in dst.targets \/ conflict = "overwrite" \/ \A o \in dst.targets : HostOf[o] # HostOf[x]}
     |-> IF \E o \in dst.targets : HostOf[o] = HostOf[t]
         THEN CHOOSE o \in dst.targets : HostOf[o] = HostOf[t] ELSE t]

(* A target is found by its id, or else by its host; it is written over    *)
(* or skipped, and mapped in each case.                                    *)
targetIDMap ==
    [t \in bundle.targets |->
        IF \E o \in dst.targets : HostOf[o] = HostOf[t]
        THEN CHOOSE o \in dst.targets : HostOf[o] = HostOf[t] ELSE t]

remap(ref, mapping) == IF ref \in DOMAIN mapping THEN mapping[ref] ELSE ref

importedTargets == dst.targets \cup {targetIDMap[t] : t \in DOMAIN targetIDMap}

(* Variant: the strategy is not looked at.                                 *)
Overwrite(new, old) == Over(new, old)

(* Rows with an id of their own: skipped or written over when it is there. *)
Keep(new, old) == IF conflict = "skip" THEN Over(old, new) ELSE Over(new, old)

(* A snapshot whose target the bundle lacks is skipped.                    *)
importedSnapshots ==
    LET mapped == {s \in DOMAIN bundle.snapshots : bundle.snapshots[s].target \in DOMAIN targetIDMap}
    IN  Keep([s \in mapped |-> [bundle.snapshots[s] EXCEPT !.target = targetIDMap[@]]], dst.snapshots)

importedBlobs == dst.blobs \cup bundle.blobs

(* The collections of a name when one of the bundle with that name is      *)
(* looked up.  They are taken in the order of their names: those before    *)
(* have their names in the bundle already, if they are written over.       *)
nameOwners(name) ==
    {o \in DOMAIN dst.collections :
        /\ dst.collections[o] = name
        /\ conflict = "overwrite" /\ o \in DOMAIN bundle.collections => bundle.collections[o] >= name}

(* Collections are found by id, or else by name.                           *)
underOwnId == {c \in DOMAIN bundle.collections :
                c \in DOMAIN dst.collections \/ nameOwners(bundle.collections[c]) = {}}

(* Variant: a name that is taken is skipped and its collection not mapped. *)
TakenUnmapped == [c \in underOwnId |-> c]

collectionIDMap ==
    [c \in DOMAIN bundle.collections |->
        IF c \in underOwnId THEN c ELSE CHOOSE o \in nameOwners(bundle.collections[c]) : TRUE]

importedCollections == Keep([c \in underOwnId |-> bundle.collections[c]], dst.collections)

(* A member counts when both its ends are mapped.                          *)
importedMembers ==
    dst.members \cup {<<collectionIDMap[m[1]], targetIDMap[m[2]]>> :
        m \in {x \in bundle.members : x[1] \in DOMAIN collectionIDMap /\ x[2] \in DOMAIN targetIDMap}}

(* Variant: a note keeps the ids of the bundle.                            *)
NotesUnmapped == Keep(bundle.notes, dst.notes)

importedNotes ==
    Keep([n \in DOMAIN bundle.notes |->
            [bundle.notes[n] EXCEPT !.target = remap(@, targetIDMap),
                                    !.collection = remap(@, collectionIDMap)]],
         dst.notes)

(* Variant: a view forgets the snapshot it is of.                          *)
ViewsAtLatest ==
    Keep([v \in DOMAIN bundle.views |->
            [bundle.views[v] EXCEPT !.target = remap(@, targetIDMap), !.snapshot = NoRef]],
         dst.views)

importedViews ==
    Keep([v \in DOMAIN bundle.views |->
            [bundle.views[v] EXCEPT !.target = remap(@, targetIDMap)]],
         dst.views)

(* Webhooks and settings are written over, whatever the strategy.          *)
importedConfig == IF bundle.config = "none" THEN dst.config ELSE bundle.config

imported ==
    [targets |-> importedTargets, snapshots |-> importedSnapshots, blobs |-> importedBlobs,
     collections |-> importedCollections, members |-> importedMembers,
     notes |-> importedNotes, views |-> importedViews, config |-> importedConfig]

(* A name is taken when the row that has it has not got another by then;   *)
(* views come in the order of their edits, which the model leaves out.     *)
CollectionNameTaken ==
    /\ conflict = "overwrite"
    /\ \E c \in DOMAIN bundle.collections \cap DOMAIN dst.collections :
        nameOwners(bundle.collections[c]) \ {c} # {}

ViewNameTaken ==
    \E v \in DOMAIN bundle.views : \E w \in DOMAIN dst.views \ {v} :
        /\ bundle.views[v].name = dst.views[w].name
        /\ conflict = "overwrite" \/ v \notin DOMAIN dst.views

ImportBundle ==
    /\ step > Len(Tables) /\ result = "none"
    /\ \/ /\ Allowed(imported) /\ ~CollectionNameTaken
          /\ dst' = imported /\ result' = "imported"
       \/ /\ ~Allowed(imported) \/ CollectionNameTaken \/ ViewNameTaken
          /\ UNCHANGED dst /\ result' = "failed"
    /\ UNCHANGED <<src, was, bundle, step, conflict, changes, gone>>

TransferNext == ReadTable \/ (\E a \in Later : StoreRows(a)) \/ (\E t \in TargetIds : DeleteTarget(t)) \/ ImportBundle

TransferSpec == TransferInit /\ [][TransferNext]_transferVars

-----------------------------------------------------------------------------
(* An installation that is exported at rest arrives in an empty one as it  *)
(* was, with every reference (export/service.go, BuildBundle and           *)
(* ImportBundle).                                                          *)
RoundTrip ==
    result # "none" /\ changes = 0 /\ was = Blank => dst = src

(* Skipping leaves every row that was there as it was, except settings,    *)
(* webhooks and blobs, and takes no member out of a collection (conflict   *)
(* "skip" in ImportBundle).                                                *)
SkipKeeps ==
    result = "imported" /\ conflict = "skip" =>
        /\ was.targets \subseteq dst.targets /\ was.members \subseteq dst.members
        /\ Only(dst.snapshots, DOMAIN was.snapshots) = was.snapshots
        /\ Only(dst.collections, DOMAIN was.collections) = was.collections
        /\ Only(dst.notes, DOMAIN was.notes) = was.notes
        /\ Only(dst.views, DOMAIN was.views) = was.views

(* After an import with either strategy every snapshot of the bundle whose *)
(* target is in it is there, under a target of the same host, though       *)
(* perhaps of another id (targetIDMap in ImportBundle).                    *)
SnapshotsFollow ==
    result = "imported" =>
        \A s \in DOMAIN bundle.snapshots : bundle.snapshots[s].target \in bundle.targets =>
            /\ s \in DOMAIN dst.snapshots
            /\ HostOf[dst.snapshots[s].target] = HostOf[bundle.snapshots[s].target]

SameNames == \A c \in DOMAIN bundle.collections \cap DOMAIN was.collections :
                bundle.collections[c] = was.collections[c]

(* Unless a collection was renamed, every member that the bundle has with  *)
(* both its ends is in the collection of that name afterwards, and none    *)
(* enters a collection that it was in in neither installation              *)
(* (collectionIDMap in ImportBundle).                                      *)
Named(db, t) ==
    {db.collections[m[1]] : m \in {x \in db.members : /\ x[1] \in DOMAIN db.collections
                                                    /\ x[2] \in db.targets
                                                    /\ HostOf[x[2]] = HostOf[t]}}

MembersFollow ==
    result = "imported" /\ SameNames =>
        \A t \in bundle.targets : Named(dst, t) = Named(bundle, t) \cup Named(was, t)

(* A bundle whose references it holds itself is never refused, unless a    *)
(* name of a view is taken, or a collection was renamed to a name that is  *)
(* (the mapping of ids throughout ImportBundle).                           *)
WholeBundle ==
    /\ bundle.blobs \subseteq {s \in DOMAIN bundle.snapshots : bundle.snapshots[s].target \in bundle.targets}
    /\ \A s \in {r.snapshot : r \in {bundle.notes[n] : n \in DOMAIN bundle.notes}
                                    \cup {bundle.views[v] : v \in DOMAIN bundle.views}} \ {NoRef} :
        s \in DOMAIN bundle.snapshots /\ bundle.snapshots[s].target \in bundle.targets
    /\ \A n \in DOMAIN bundle.notes :
        /\ bundle.notes[n].target \in bundle.targets \cup {NoRef}
        /\ bundle.notes[n].collection \in DOMAIN bundle.collections \cup {NoRef}
    /\ \A v \in DOMAIN bundle.views : bundle.views[v].target \in bundle.targets \cup {NoRef}

NoNameTaken ==
    \A v \in DOMAIN bundle.views : \A w \in DOMAIN was.views :
        bundle.views[v].name = was.views[w].name => v = w

WholeBundlesImport == result = "failed" => ~(WholeBundle /\ NoNameTaken /\ SameNames)
====
