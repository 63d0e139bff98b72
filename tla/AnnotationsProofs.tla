-------------------------- MODULE AnnotationsProofs --------------------------
(***************************************************************************)
(* The invariants of Annotations for every number of rows and requests and *)
(* every size of the connection pool.                                      *)
(***************************************************************************)
EXTENDS Annotations, FiniteSetTheorems, TLAPS

Holding == {r \in Rescans : rescan[r] = "enqueue"}

(* The stamp is the time since the note was last put in the trash.         *)
StampIsStay == \A n \in Notes : status[n] = "trashed" => trashedAt[n] = stay[n]

(* The inductive invariant: what concerns the notes and the references,    *)
(* and the connections of the rescans, which do not depend on each other.  *)
RowInv == RefsResolve /\ NotesAnchored /\ StampsMatchStatus /\ StampIsStay
IInv   == TypeOK /\ RowInv /\ ConnsAccounted

-----------------------------------------------------------------------------
(* Initially there are no notes, views or rescans.                         *)
LEMMA InitIInv == Init => IInv
<1> SUFFICES ASSUME Init PROVE IInv OBVIOUS
<1> USE RowsAssumption, BoundsAssumption
<1>1. TypeOK BY DEF Init, TypeOK, Ages
<1>2. RowInv
  BY DEF Init, RowInv, RefsResolve, NotesAnchored, StampsMatchStatus, StampIsStay
<1>3. ConnsAccounted
  <2>1. {r \in Rescans : rescan[r] = "enqueue"} = {} BY DEF Init
  <2> QED BY <2>1, FS_EmptySet DEF ConnsAccounted, Init
<1> QED BY <1>1, <1>2, <1>3 DEF IInv

(* A step that leaves the requests alone keeps what is said of them.       *)
LEMMA ConnsKept == ASSUME ConnsAccounted, UNCHANGED <<rescan, conns>> PROVE ConnsAccounted'
BY DEF ConnsAccounted

(* A step that leaves notes, views and rows alone keeps what is said of    *)
(* them.                                                                   *)
LEMMA RowKept == ASSUME RowInv, UNCHANGED <<rowVars, notesVars, viewVars>> PROVE RowInv'
BY DEF RowInv, RefsResolve, NotesAnchored, StampsMatchStatus, StampIsStay, KeysResolve, Present,
       rowVars, tables, notesVars, viewVars

-----------------------------------------------------------------------------
(* Creating and editing a note: the anchors resolve and there is one.      *)
LEMMA EditIInv == ASSUME IInv, NEW n \in Notes, CreateNote(n) \/ UpdateNote(n) PROVE IInv'
<1> USE DEF IInv
<1>1. PICK A \in AnchorSets : /\ A # {} /\ A \subseteq Present \cup {Node}
                              /\ anchors' = [anchors EXCEPT ![n] = A]
  BY DEF CreateNote, UpdateNote, Anchored
<1>2. A \subseteq Rows \cup {Node} BY DEF AnchorSets
<1>3. TypeOK'
  BY <1>1, <1>2 DEF TypeOK, CreateNote, UpdateNote, rowVars, tables, viewVars, callVars
<1>4. RowInv'
  BY <1>1 DEF RowInv, RefsResolve, NotesAnchored, StampsMatchStatus, StampIsStay, KeysResolve, Present,
              TypeOK, CreateNote, UpdateNote, rowVars, tables, viewVars
<1>5. ConnsAccounted' BY ConnsKept DEF CreateNote, UpdateNote, callVars
<1> QED BY <1>3, <1>4, <1>5

(* The transitions of the status set and clear the stamps.                 *)
LEMMA TransitionIInv ==
    ASSUME IInv, NEW n \in Notes, Archive(n) \/ Unarchive(n) \/ Trash(n) \/ Restore(n)
    PROVE  IInv'
<1> USE RowsAssumption, BoundsAssumption DEF IInv
<1>1. TypeOK'
  <2>1. 0 \in Ages BY DEF Ages
  <2> QED BY <2>1 DEF TypeOK, Archive, Unarchive, Trash, Restore, rowVars, tables, viewVars, callVars
<1>2. RefsResolve'
  BY DEF RowInv, RefsResolve, KeysResolve, Present, Archive, Unarchive, Trash, Restore,
         rowVars, tables, viewVars
<1>3. NotesAnchored'
  BY DEF RowInv, NotesAnchored, TypeOK, Archive, Unarchive, Trash, Restore
<1>4. StampsMatchStatus'
  <2> SUFFICES ASSUME NEW k \in Notes
               PROVE  /\ trashedAt'[k] # Null <=> status'[k] = "trashed"
                      /\ k \in archivedAt' <=> status'[k] = "archived"
    BY DEF StampsMatchStatus
  <2>1. /\ trashedAt[k] # Null <=> status[k] = "trashed"
        /\ k \in archivedAt <=> status[k] = "archived"
        /\ 0 # Null
    BY DEF RowInv, StampsMatchStatus
  <2>2. CASE k # n
    BY <2>1, <2>2 DEF TypeOK, Archive, Unarchive, Trash, Restore
  <2>3. CASE k = n
    BY <2>1, <2>3 DEF TypeOK, Archive, Unarchive, Trash, Restore
  <2> QED BY <2>2, <2>3
<1>5. StampIsStay'
  BY DEF RowInv, StampIsStay, TypeOK, Archive, Unarchive, Trash, Restore
<1>6. ConnsAccounted' BY ConnsKept DEF Archive, Unarchive, Trash, Restore, callVars
<1> QED BY <1>1, <1>2, <1>3, <1>4, <1>5, <1>6 DEF RowInv

(* A deleted or purged note leaves nothing behind.                         *)
LEMMA DropIInv ==
    ASSUME IInv, NEW S \in SUBSET Notes, DropNotes(S), asked' \subseteq Snapshots \cup Notes
    PROVE  IInv'
<1> USE RowsAssumption, BoundsAssumption DEF IInv
<1>1. TypeOK'
  <2>1. 0 \in Ages BY DEF Ages
  <2> QED BY <2>1 DEF TypeOK, DropNotes, rowVars, tables, viewVars, callVars
<1>2. RefsResolve'
  BY DEF RowInv, RefsResolve, KeysResolve, Present, DropNotes, rowVars, tables, viewVars
<1>3. NotesAnchored' /\ StampsMatchStatus' /\ StampIsStay'
  BY DEF RowInv, NotesAnchored, StampsMatchStatus, StampIsStay, TypeOK, DropNotes
<1>4. ConnsAccounted' BY ConnsKept DEF DropNotes, callVars
<1> QED BY <1>1, <1>2, <1>3, <1>4 DEF RowInv

(* Time changes the age of a stamp and never whether there is one.         *)
LEMMA TickIInv == ASSUME IInv, Tick PROVE IInv'
<1> USE RowsAssumption, BoundsAssumption DEF IInv
<1>1. \A a \in Ages \cup {Null} : Older(a) \in Ages \cup {Null} /\ (Older(a) = Null <=> a = Null)
  BY DEF Older, Ages
<1>2. \A a \in Ages : Older(a) \in Ages BY DEF Older, Ages
<1>3. TypeOK' BY <1>1, <1>2 DEF TypeOK, Tick, rowVars, tables, viewVars, callVars
<1>4. RefsResolve' /\ NotesAnchored'
  BY DEF RowInv, RefsResolve, NotesAnchored, KeysResolve, Present, Tick, rowVars, tables, viewVars
<1>5. StampsMatchStatus' /\ StampIsStay'
  BY <1>1 DEF RowInv, StampsMatchStatus, StampIsStay, TypeOK, Tick
<1>6. ConnsAccounted' BY ConnsKept DEF Tick, callVars
<1> QED BY <1>3, <1>4, <1>5, <1>6 DEF RowInv

(* Saving and deleting a view.                                             *)
LEMMA ViewIInv ==
    ASSUME IInv, NEW v \in Views, CreateView(v) \/ UpdateView(v) \/ DeleteView(v)
    PROVE  IInv'
<1> USE DEF IInv
<1>1. \A R \in ViewRefSets : R \subseteq Targets \cup Snapshots BY DEF ViewRefSets
<1>2. TypeOK' BY <1>1 DEF TypeOK, CreateView, UpdateView, RefsChosen, DeleteView, rowVars, tables, notesVars, callVars
<1>3. RefsResolve'
  BY DEF RowInv, RefsResolve, KeysResolve, Present, TypeOK, CreateView, UpdateView, RefsChosen, DeleteView,
         rowVars, tables, notesVars
<1>4. NotesAnchored' /\ StampsMatchStatus' /\ StampIsStay'
  BY DEF RowInv, NotesAnchored, StampsMatchStatus, StampIsStay, CreateView, UpdateView,
         DeleteView, notesVars
<1>5. ConnsAccounted' BY ConnsKept DEF CreateView, UpdateView, DeleteView, callVars
<1> QED BY <1>2, <1>3, <1>4, <1>5 DEF RowInv

(* A DELETE takes every reference to what goes, and the CHECK keeps every  *)
(* note anchored.                                                          *)
LEMMA DeleteIInv ==
    ASSUME IInv, NEW D, Delete(D), asked' \subseteq Snapshots \cup Notes PROVE IInv'
<1> DEFINE gone == Cascade(D)
<1> USE DEF IInv
<1>1. /\ targets' = targets \ gone /\ snapshots' = snapshots \ gone
      /\ collections' = collections \ gone
      /\ members' = {m \in members : m[1] \notin gone /\ m[2] \notin gone}
      /\ anchors' = [n \in Notes |-> anchors[n] \ gone]
      /\ viewRefs' = [v \in Views |-> viewRefs[v] \ gone]
      /\ CheckPasses(gone)
      /\ UNCHANGED <<env, created, status, trashedAt, archivedAt, stay, views, callVars>>
  BY DEF Delete
<1> HIDE DEF gone
<1>2. TypeOK' BY <1>1 DEF TypeOK, callVars
<1>3. RefsResolve' BY <1>1 DEF RowInv, RefsResolve, KeysResolve, Present, TypeOK
<1>4. NotesAnchored' BY <1>1 DEF CheckPasses, Anchored, NotesAnchored
<1>5. StampsMatchStatus' /\ StampIsStay'
  BY <1>1 DEF RowInv, StampsMatchStatus, StampIsStay
<1>6. ConnsAccounted' BY <1>1, ConnsKept DEF callVars
<1> QED BY <1>2, <1>3, <1>4, <1>5, <1>6 DEF RowInv

(* The deletions the handlers and the retention ask for.                   *)
LEMMA DeletionIInv ==
    ASSUME IInv,
           \/ \E t \in Targets : DeleteTarget(t) \/ PruneTargetSnapshots(t)
           \/ \E s \in Snapshots : DeleteSnapshot(s)
           \/ \E c \in Collections : DeleteCollection(c)
    PROVE  IInv'
<1> USE DEF IInv
<1>1. ASSUME NEW t \in Targets, DeleteTarget(t) \/ PruneTargetSnapshots(t) PROVE IInv'
  BY <1>1, DeleteIInv DEF DeleteTarget, PruneTargetSnapshots, TypeOK
<1>2. ASSUME NEW c \in Collections, DeleteCollection(c) PROVE IInv'
  BY <1>2, DeleteIInv DEF DeleteCollection, TypeOK
<1>3. ASSUME NEW s \in Snapshots, DeleteSnapshot(s) PROVE IInv'
  <2>1. asked' \subseteq Snapshots \cup Notes BY <1>3 DEF DeleteSnapshot, TypeOK
  <2>2. CASE Delete({s}) BY <2>1, <2>2, DeleteIInv
  <2>3. CASE UNCHANGED <<env, targets, snapshots, collections, created, members,
                         notesVars, viewVars, callVars>>
    <3>1. TypeOK' BY <2>1, <2>3 DEF TypeOK, notesVars, viewVars, callVars
    <3>2. RowInv'
      BY <2>3 DEF RowInv, RefsResolve, NotesAnchored, StampsMatchStatus, StampIsStay, KeysResolve, Present,
                  notesVars, viewVars
    <3>3. ConnsAccounted' BY <2>3, ConnsKept DEF callVars
    <3> QED BY <3>1, <3>2, <3>3
  <2> QED BY <1>3, <2>2, <2>3 DEF DeleteSnapshot
<1> QED BY <1>1, <1>2, <1>3

(* Creating a collection, and the two steps of adding a target to one.     *)
LEMMA CollectionIInv ==
    ASSUME IInv,
           \/ \E c \in Collections : CreateCollection(c)
           \/ \E a \in Adds : AddCheck(a) \/ AddInsert(a)
           \/ \E m \in members : RemoveCollectionTarget(m)
    PROVE  IInv'
<1> USE DEF IInv
<1>1. ASSUME NEW c \in Collections, CreateCollection(c) PROVE IInv'
  <2>1. TypeOK' BY <1>1 DEF TypeOK, CreateCollection, notesVars, viewVars, callVars
  <2>2. RowInv'
    BY <1>1 DEF RowInv, RefsResolve, NotesAnchored, StampsMatchStatus, StampIsStay, KeysResolve, Present,
                CreateCollection, notesVars, viewVars
  <2>3. ConnsAccounted' BY <1>1, ConnsKept DEF CreateCollection, callVars
  <2> QED BY <2>1, <2>2, <2>3
<1>2. ASSUME NEW a \in Adds, AddCheck(a) PROVE IInv'
  <2>1. TypeOK' BY <1>2 DEF TypeOK, AddCheck, rowVars, tables, notesVars, viewVars
  <2>2. RowInv' BY <1>2, RowKept DEF AddCheck
  <2>3. ConnsAccounted' BY <1>2, ConnsKept DEF AddCheck
  <2> QED BY <2>1, <2>2, <2>3
<1>3. ASSUME NEW a \in Adds, AddInsert(a) PROVE IInv'
  <2>1. adding[a] \in Collections \X Targets BY <1>3 DEF TypeOK, AddInsert
  <2>2. TypeOK' BY <1>3, <2>1 DEF TypeOK, AddInsert, notesVars, viewVars
  <2>3. RowInv'
    BY <1>3 DEF RowInv, RefsResolve, NotesAnchored, StampsMatchStatus, StampIsStay, KeysResolve, Present,
                AddInsert, notesVars, viewVars
  <2>4. ConnsAccounted' BY <1>3, ConnsKept DEF AddInsert
  <2> QED BY <2>2, <2>3, <2>4
<1>4. ASSUME NEW m \in members, RemoveCollectionTarget(m) PROVE IInv'
  <2>1. TypeOK' BY <1>4 DEF TypeOK, RemoveCollectionTarget, notesVars, viewVars, callVars
  <2>2. RowInv'
    BY <1>4 DEF RowInv, RefsResolve, NotesAnchored, StampsMatchStatus, StampIsStay, KeysResolve, Present,
                RemoveCollectionTarget, notesVars, viewVars
  <2>3. ConnsAccounted' BY <1>4, ConnsKept DEF RemoveCollectionTarget, callVars
  <2> QED BY <2>1, <2>2, <2>3
<1> QED BY <1>1, <1>2, <1>3, <1>4

-----------------------------------------------------------------------------
(* A rescan takes one connection when it queries, and only then.           *)
LEMMA RescanTakes == ASSUME IInv, NEW r \in Rescans, RescanQuery(r) PROVE IInv'
<1> USE RowsAssumption, BoundsAssumption DEF IInv
<1>1. TypeOK'
  BY DEF TypeOK, RescanQuery, ConnFree, rowVars, tables, notesVars, viewVars
<1>2. RowInv' BY RowKept DEF RescanQuery
<1>3. ConnsAccounted'
  <2>1. Holding' = Holding \cup {r} /\ r \notin Holding
    BY DEF Holding, TypeOK, RescanQuery
  <2>2. IsFiniteSet(Holding) BY FS_Subset DEF Holding
  <2>3. Cardinality(Holding') = Cardinality(Holding) + 1 BY <2>1, <2>2, FS_AddElement
  <2> QED BY <2>3 DEF ConnsAccounted, Holding, RescanQuery
<1> QED BY <1>1, <1>2, <1>3

(* It gives that connection back when it fails and when it is done.        *)
LEMMA RescanReturns ==
    ASSUME IInv, NEW r \in Rescans, RescanFails(r) \/ RescanAccepted(r) \/ RescanCut(r) PROVE IInv'
<1> USE RowsAssumption, BoundsAssumption DEF IInv
<1>1. /\ Holding' = Holding \ {r} /\ r \in Holding
      /\ conns' = conns - 1
  BY DEF Holding, TypeOK, RescanFails, RescanAccepted, RescanCut
<1>2. IsFiniteSet(Holding) BY FS_Subset DEF Holding
<1>3. /\ Cardinality(Holding') = Cardinality(Holding) - 1
      /\ Cardinality(Holding) \in Nat /\ Cardinality(Holding) # 0
  BY <1>1, <1>2, FS_RemoveElement, FS_CardinalityType, FS_EmptySet
<1>4. conns = Cardinality(Holding) BY DEF ConnsAccounted, Holding
<1>5. conns' \in 0 .. MaxConns BY <1>1, <1>3, <1>4 DEF TypeOK
<1>6. TypeOK'
  BY <1>5 DEF TypeOK, RescanFails, RescanAccepted, RescanCut, rowVars, tables, notesVars, viewVars
<1>7. RowInv' BY RowKept DEF RescanFails, RescanAccepted, RescanCut
<1>8. ConnsAccounted' BY <1>1, <1>3, <1>4 DEF ConnsAccounted, Holding
<1> QED BY <1>6, <1>7, <1>8

(* A job is created for a member that was read.                            *)
LEMMA RescanCreates == ASSUME IInv, NEW r \in Rescans, RescanCreateJob(r) PROVE IInv'
<1> USE DEF IInv
<1>1. TypeOK' BY DEF TypeOK, RescanCreateJob, rowVars, tables, notesVars, viewVars
<1>2. RowInv' BY RowKept DEF RescanCreateJob
<1>3. ConnsAccounted' BY DEF ConnsAccounted, TypeOK, RescanCreateJob
<1> QED BY <1>1, <1>2, <1>3

-----------------------------------------------------------------------------
(* The invariant holds throughout every behaviour.                         *)
THEOREM SpecIInv == Spec => []IInv
<1>1. IInv /\ UNCHANGED vars => IInv'
  <2> SUFFICES ASSUME IInv, UNCHANGED vars PROVE IInv' OBVIOUS
  <2>1. TypeOK'
    BY DEF IInv, TypeOK, vars, rowVars, tables, notesVars, viewVars, callVars
  <2>2. RowInv' BY RowKept DEF IInv, vars
  <2>3. ConnsAccounted' BY ConnsKept DEF IInv, vars, callVars
  <2> QED BY <2>1, <2>2, <2>3 DEF IInv
<1>2. IInv /\ Next => IInv'
  <2> SUFFICES ASSUME IInv, Next PROVE IInv' OBVIOUS
  <2>1. ASSUME NEW n \in Notes, DeleteNote(n) PROVE IInv'
    <3>1. asked' \subseteq Snapshots \cup Notes BY <2>1 DEF DeleteNote, IInv, TypeOK
    <3>2. DropNotes({n}) BY <2>1 DEF DeleteNote
    <3> QED BY <3>1, <3>2, DropIInv
  <2>2. ASSUME PurgeExpiredTrashed PROVE IInv'
    <3>1. asked' \subseteq Snapshots \cup Notes
      BY <2>2 DEF PurgeExpiredTrashed, IInv, TypeOK
    <3>2. DropNotes({n \in Notes : Expired(n)}) BY <2>2 DEF PurgeExpiredTrashed
    <3> QED BY <3>1, <3>2, DropIInv
  <2> QED BY <2>1, <2>2, EditIInv, TransitionIInv, TickIInv, ViewIInv, DeletionIInv,
             CollectionIInv, RescanTakes, RescanCreates, RescanReturns DEF Next
<1> QED BY InitIInv, <1>1, <1>2, PTL DEF Spec

(* Every variable keeps its type; the pool never lends more than it has.   *)
THEOREM AnnotationsTypeCorrect == Spec => []TypeOK
BY SpecIInv, PTL DEF IInv

(* No note, view or membership refers to a row that is gone.               *)
THEOREM ReferencesResolve == Spec => []RefsResolve
BY SpecIInv, PTL DEF IInv, RowInv

(* No note is left without an anchor.                                      *)
THEOREM NotesStayAnchored == Spec => []NotesAnchored
BY SpecIInv, PTL DEF IInv, RowInv

(* The stamps of a note agree with its status.                             *)
THEOREM StampsAgree == Spec => []StampsMatchStatus
BY SpecIInv, PTL DEF IInv, RowInv

(* A note disappears only out of the trash, by request or when its time    *)
(* there is over.                                                          *)
THEOREM OnlyTrashIsLost == Spec => OnlyTrashVanishes
<1> DEFINE Lost(n) == status[n] # "absent" /\ status'[n] = "absent"
           Ok(n)   == status[n] = "trashed" /\ (n \in asked' \/ stay[n] > TrashRetention)
<1>1. ASSUME IInv, Next, NEW n \in Notes, Lost(n) PROVE Ok(n)
  <2> USE DEF IInv
  <2>1. ASSUME NEW k \in Notes, DeleteNote(k) PROVE Ok(n)
    <3>1. k = n BY <1>1, <2>1 DEF DeleteNote, DropNotes
    <3> QED BY <2>1, <3>1 DEF DeleteNote
  <2>2. ASSUME PurgeExpiredTrashed PROVE Ok(n)
    <3>1. Expired(n) BY <1>1, <2>2 DEF PurgeExpiredTrashed, DropNotes
    <3> QED BY <1>1, <3>1 DEF Expired, RowInv, StampIsStay
  <2>3. ASSUME NEW k \in Notes,
               \/ CreateNote(k) \/ UpdateNote(k) \/ Archive(k) \/ Unarchive(k)
               \/ Trash(k) \/ Restore(k)
        PROVE  FALSE
    BY <1>1, <2>3 DEF TypeOK, CreateNote, UpdateNote, Archive, Unarchive, Trash, Restore
  <2>4. ASSUME status' = status PROVE FALSE BY <1>1, <2>4
  <2>5. Tick => status' = status BY DEF Tick
  <2>6. ASSUME NEW v \in Views, CreateView(v) \/ UpdateView(v) \/ DeleteView(v)
        PROVE  status' = status
    BY <2>6 DEF CreateView, UpdateView, DeleteView, notesVars
  <2>7. \A D : Delete(D) => status' = status BY DEF Delete
  <2>8. ASSUME NEW t \in Targets, DeleteTarget(t) \/ PruneTargetSnapshots(t)
        PROVE  status' = status
    BY <2>7, <2>8 DEF DeleteTarget, PruneTargetSnapshots
  <2>9. ASSUME NEW s \in Snapshots, DeleteSnapshot(s) PROVE status' = status
    BY <2>7, <2>9 DEF DeleteSnapshot, notesVars
  <2>10. ASSUME NEW c \in Collections, CreateCollection(c) \/ DeleteCollection(c)
         PROVE  status' = status
    BY <2>7, <2>10 DEF CreateCollection, DeleteCollection, notesVars
  <2>11. ASSUME NEW a \in Adds, AddCheck(a) \/ AddInsert(a) PROVE status' = status
    BY <2>11 DEF AddCheck, AddInsert, notesVars
  <2>12. ASSUME NEW m \in members, RemoveCollectionTarget(m) PROVE status' = status
    BY <2>12 DEF RemoveCollectionTarget, notesVars
  <2>13. ASSUME NEW r \in Rescans,
                \/ RescanQuery(r) \/ RescanCreateJob(r)
                \/ RescanFails(r) \/ RescanAccepted(r) \/ RescanCut(r)
         PROVE  status' = status
    BY <2>13 DEF RescanQuery, RescanCreateJob, RescanFails, RescanAccepted, RescanCut,
               notesVars
  <2> QED BY <1>1, <2>1, <2>2, <2>3, <2>4, <2>5, <2>6, <2>8, <2>9, <2>10, <2>11, <2>12,
             <2>13 DEF Next
<1>2. IInv /\ [Next]_vars =>
        [\A n \in Notes :
            status[n] # "absent" /\ status'[n] = "absent" =>
                /\ status[n] = "trashed"
                /\ n \in asked' \/ stay[n] > TrashRetention]_vars
  BY <1>1
<1> QED BY <1>2, SpecIInv, PTL DEF Spec, OnlyTrashVanishes

(* The connections in use are those of the rescans under way.              *)
THEOREM ConnectionsReturned == Spec => []ConnsAccounted
BY SpecIInv, PTL DEF IInv
=============================================================================
