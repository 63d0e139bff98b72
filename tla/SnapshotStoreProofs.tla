------------------------ MODULE SnapshotStoreProofs ------------------------
(***************************************************************************)
(* That the references of SnapshotStore resolve, that pruning keeps the    *)
(* newest snapshot and that retention holds, for any scans, contents and   *)
(* scenarios.                                                              *)
(***************************************************************************)
EXTENDS SnapshotStore, FiniteSetTheorems, WellFoundedInduction, TLAPS

-----------------------------------------------------------------------------
(* Where a scan is tells what it may have stored: the row it will insert   *)
(* is not there before, and what it completes with is a snapshot.          *)
Progress ==
    \A s \in Scans :
      /\ pc[s] \in {"scan", "read", "write"} => row[s] = "absent"
      /\ pc[s] \in {"scan", "read", "write", "blob"} => s \notin prunes
      /\ pc[s] \in InStore => tid[s] # 0
      /\ pc[s] = "write" => stamp[s] # 0
      /\ pc[s] \in {"blob", "complete"} => out[s] \in Scans
      /\ pc[s] = "blob" => out[s] = s \/ row[s] = "absent"
      /\ row[s] = "present" => owner[s] = tid[s]

(* A target being deleted is still there, and another may be created.      *)
Deleting ==
    /\ target <= targets
    /\ target = 0 => targets < MaxTargets
    /\ doomed # 0 => target = doomed /\ targets < MaxTargets

(* Every scan reads the clock at a time of its own, and its snapshot bears *)
(* that time.                                                              *)
Stamped ==
    /\ \A s \in Scans : /\ stamp[s] <= clock
                        /\ row[s] = "present" => at[s] = stamp[s] /\ stamp[s] # 0
    /\ \A s, x \in Scans : s # x /\ stamp[s] = stamp[x] => stamp[s] = 0

(* What a scan works with was a snapshot once, and of a target that was;   *)
(* a job left running was not recorded, or refers to what is gone.         *)
Settled ==
    \A s \in Scans :
      /\ tid[s] <= targets
      /\ prev[s] # None => row[prev[s]] # "absent"
      /\ out[s] # None => row[out[s]] # "absent" /\ tid[s] # 0
      /\ pc[s] = "done" /\ job[s] = "running" =>
           \/ s \in unrecorded
           \/ out[s] # None /\ (row[out[s]] # "present" \/ target # tid[s])

(* The snapshots whose scans have had their pruning, or need none.         *)
Counted == {s \in Present(target) : pc[s] # "blob" /\ s \notin prunes /\ s \notin unpruned}

(* Too many are only those whose scans have yet to start their pruning,    *)
(* have it outstanding, or lost it.                                        *)
Surplus == env.retention > 0 => Cardinality(Counted) <= env.retention

Inv0 == TypeOK /\ RefsResolve /\ Progress /\ Deleting /\ Stamped /\ Settled
IInv == Inv0 /\ Surplus

-----------------------------------------------------------------------------
(* Sets of scans.                                                          *)

LEMMA EnvType ==
    ASSUME env \in Scenarios
    PROVE  /\ env.scans \subseteq Scans /\ env.atOnce \in Nat /\ env.retention \in Nat
           /\ env.found \in [Scans -> Contents]
  BY ScenariosAssumption

(* A set of scans that is not empty has one with the least rank.           *)
LEMMA LeastExists ==
    ASSUME NEW T \in SUBSET Scans, T # {}, NEW rank \in [Scans -> Nat]
    PROVE  \E s \in T : \A x \in T : rank[s] <= rank[x]
<1> DEFINE N == {rank[s] : s \in T}
<1>1. N \subseteq Nat /\ N # {}
  OBVIOUS
<1>2. PICK n \in N : \A m \in N : ~ (<<m, n>> \in OpToRel(<, Nat))
  <2> HIDE DEF N
  <2> QED BY <1>1, NatLessThanWellFounded, WFMin
<1>3. \A m \in N : ~ (m < n)
  BY <1>1, <1>2 DEF OpToRel
<1>4. PICK s \in T : rank[s] = n
  BY <1>2
<1>5. \A x \in T : rank[x] \in N /\ rank[x] \in Nat /\ n \in Nat
  BY <1>1, <1>2
<1>6. \A x \in T : rank[s] <= rank[x]
  <2> HIDE DEF N
  <2> QED BY <1>3, <1>4, <1>5
<1> QED
  BY <1>6

(* The newest snapshot is one of the host's, when there is any.            *)
LEMMA NewestType ==
    ASSUME TypeOK, Stamped, NEW t
    PROVE  /\ Newest(t) \in Present(t) \cup {None}
           /\ Present(t) # {} => Newest(t) \in Present(t) /\ Newer(Newest(t), t) = {}
<1>1. ASSUME Present(t) # {}
      PROVE  \E s \in Present(t) : Newer(s, t) = {}
  <2> DEFINE rank == [s \in Scans |-> IF row[s] = "present" THEN clock - at[s] ELSE 0]
  <2>1. \A s \in Scans : /\ at[s] \in Nat /\ clock \in Nat
                         /\ row[s] = "present" => at[s] <= clock
    BY DEF TypeOK, Stamped
  <2>2. rank \in [Scans -> Nat]
    BY <2>1
  <2>3. Present(t) \in SUBSET Scans
    BY DEF Present
  <2>4. PICK s \in Present(t) : \A x \in Present(t) : rank[s] <= rank[x]
    <3> HIDE DEF rank
    <3> QED BY <1>1, <2>2, <2>3, LeastExists
  <2>5. \A x \in Present(t) : /\ x \in Scans /\ at[x] \in Nat /\ clock \in Nat
                              /\ rank[x] = clock - at[x]
    BY <2>1 DEF Present
  <2>6. \A x \in Present(t) : at[x] <= at[s]
    <3> HIDE DEF rank
    <3> QED BY <2>4, <2>5
  <2>7. Newer(s, t) = {}
    <3> HIDE DEF rank
    <3> QED BY <2>5, <2>6 DEF Newer
  <2> QED
    BY <2>7
<1>2. CASE Present(t) = {}
  BY <1>2 DEF Newest
<1>3. CASE Present(t) # {}
  BY <1>1, <1>3 DEF Newest
<1> QED
  BY <1>2, <1>3

(* No two snapshots of the host have the same time, so it has one newest.  *)
LEMMA NewestUnique ==
    ASSUME TypeOK, Stamped, NEW t, NEW s \in Present(t), Newer(s, t) = {}
    PROVE  Newest(t) = s
<1>1. Newest(t) \in Present(t) /\ Newer(Newest(t), t) = {}
  BY NewestType
<1> DEFINE n == Newest(t)
<1>2. n \in Scans /\ s \in Scans /\ at[n] \in Nat /\ at[s] \in Nat
  BY <1>1 DEF Present, TypeOK
<1>3. ~ (at[n] > at[s]) /\ ~ (at[s] > at[n])
  BY <1>1 DEF Newer
<1>4. at[n] = at[s]
  BY <1>2, <1>3
<1>5. stamp[n] = stamp[s] /\ stamp[n] # 0
  BY <1>1, <1>2, <1>4 DEF Stamped, Present
<1> QED
  BY <1>2, <1>5 DEF Stamped

(* No more than k scans have fewer than k that are newer.                  *)
LEMMA KeptAreFew ==
    ASSUME TypeOK, NEW t, NEW k \in Nat, k > 0,
           NEW T \in SUBSET Present(t),
           \A s \in T : Cardinality(Newer(s, t)) < k,
           \A s, x \in T : at[s] = at[x] => s = x
    PROVE  Cardinality(T) <= k
<1>1. CASE T = {}
  BY <1>1, FS_EmptySet
<1>2. CASE T # {}
  <2>1. T \in SUBSET Scans /\ at \in [Scans -> Nat]
    BY DEF Present, TypeOK
  <2>2. PICK s \in T : \A x \in T : at[s] <= at[x]
    BY <1>2, <2>1, LeastExists
  <2>3. T \ {s} \subseteq Newer(s, t)
    BY <2>1, <2>2 DEF Newer
  <2>4. IsFiniteSet(T) /\ IsFiniteSet(Newer(s, t)) /\ IsFiniteSet(T \ {s})
    <3>1. Newer(s, t) \in SUBSET Scans
      BY DEF Newer, Present
    <3> QED BY <2>1, <3>1, ScansAssumption, FS_Subset
  <2>5. Cardinality(T \ {s}) <= Cardinality(Newer(s, t))
    BY <2>3, <2>4, FS_Subset
  <2>6. Cardinality(T \ {s}) = Cardinality(T) - 1
    BY <2>4, FS_RemoveElement
  <2>7. Cardinality(T) \in Nat /\ Cardinality(T \ {s}) \in Nat /\ Cardinality(Newer(s, t)) \in Nat
    BY <2>4, FS_CardinalityType
  <2> QED
    BY <2>5, <2>6, <2>7
<1> QED
  BY <1>1, <1>2
-----------------------------------------------------------------------------
(* The invariant holds at first.                                           *)
LEMMA InitInv == Init => IInv
<1> SUFFICES ASSUME Init PROVE IInv
  OBVIOUS
<1>1. env \in Scenarios /\ env.retention \in Nat
  BY EnvType DEF Init
<1>2. TypeOK
  BY <1>1, BoundsAssumption DEF Init, TypeOK, InStore
<1>3. RefsResolve /\ Deleting /\ Stamped
  BY BoundsAssumption DEF Init, RefsResolve, Deleting, Stamped
<1>4. Progress /\ Settled
  BY DEF Init, Progress, Settled, InStore
<1>5. Counted = {}
  BY DEF Init, Present, Counted
<1>6. Surplus
  BY <1>1, <1>5, FS_EmptySet DEF Surplus
<1> QED
  BY <1>2, <1>3, <1>4, <1>6 DEF IInv, Inv0

-----------------------------------------------------------------------------
(* Deletions of snapshots.                                                 *)

(* What a DELETE of the snapshots in D leaves.                             *)
LEMMA CascadeEffect ==
    ASSUME TypeOK, NEW D \in SUBSET Scans, \A s \in D : row[s] = "present", Cascade(D)
    PROVE  /\ row' \in [Scans -> {"absent", "present", "deleted"}]
           /\ blobs' \subseteq Scans
           /\ link' \in [Scans -> Scans \cup {None}]
           /\ \A s \in Scans : /\ row'[s] = "present" <=> row[s] = "present" /\ s \notin D
                               /\ row'[s] = "absent" <=> row[s] = "absent"
  BY DEF Cascade, TypeOK

LEMMA PrunableType ==
    ASSUME NEW t
    PROVE  Prunable(t) \in SUBSET Scans /\ \A s \in Prunable(t) : row[s] = "present"
  BY DEF Prunable, Present

LEMMA PresentType ==
    ASSUME NEW t
    PROVE  Present(t) \in SUBSET Scans /\ \A s \in Present(t) : row[s] = "present"
  BY DEF Present

(* A DELETE of snapshots takes them out of every reference.                *)
LEMMA CascadeResolves ==
    ASSUME TypeOK, RefsResolve, NEW D \in SUBSET Scans, \A s \in D : row[s] = "present",
           Cascade(D), UNCHANGED <<target, owner, jobTid>>
    PROVE  RefsResolve'
<1>1. \A s \in Scans : row'[s] = "present" => owner'[s] = target' /\ target' # 0
  BY CascadeEffect DEF RefsResolve
<1>2. \A s \in blobs' : row'[s] = "present"
  BY CascadeEffect DEF RefsResolve, Cascade, TypeOK
<1>3. \A s \in Scans : jobTid'[s] \in {0, target'}
  BY DEF RefsResolve
<1>4. \A s \in Scans : link'[s] # None =>
                         /\ link'[s] = link[s] /\ link[s] \in Scans /\ link[s] \notin D
                         /\ row[link[s]] = "present" /\ owner[link[s]] = jobTid[s]
  BY DEF Cascade, RefsResolve, TypeOK
<1>5. \A s \in Scans : link'[s] # None =>
                         row'[link'[s]] = "present" /\ owner'[link'[s]] = jobTid'[s]
  BY <1>4, CascadeEffect
<1> QED
  BY <1>1, <1>2, <1>3, <1>5 DEF RefsResolve

-----------------------------------------------------------------------------
(* Every step preserves each part of the invariant.                        *)

LEMMA TypeStep == Inv0 /\ Next => TypeOK'
<1> SUFFICES ASSUME Inv0, Next PROVE TypeOK'
  OBVIOUS
<1> USE DEF Inv0
<1>0. TypeOK /\ Stamped /\ Deleting
  OBVIOUS
<1>1. ASSUME NEW s \in Scans, UpsertTarget(s) PROVE TypeOK'
  BY <1>0, <1>1, BoundsAssumption DEF UpsertTarget, TypeOK, Deleting, db, locals, lost, InStore
<1>2. ASSUME NEW s \in Scans, ReadPrevious(s) PROVE TypeOK'
  <2>1. Newest(tid[s]) \in Scans \cup {None}
    BY <1>0, NewestType DEF Present
  <2> QED BY <1>0, <2>1, <1>2 DEF ReadPrevious, TypeOK, db, lost, InStore
<1>3. ASSUME NEW s \in Scans, TouchPrevious(s) PROVE TypeOK'
  BY <1>0, <1>3 DEF TouchPrevious, TypeOK, db, locals, lost, InStore
<1>4. ASSUME NEW s \in Scans, InsertSnapshot(s) PROVE TypeOK'
  BY <1>0, <1>4 DEF InsertSnapshot, PersistFails, Unrecorded, TypeOK, db, locals, lost, InStore
<1>5. ASSUME NEW s \in Scans, StoreBlob(s) PROVE TypeOK'
  <2>1. out[s] \in Scans
    BY <1>5 DEF StoreBlob, Progress
  <2> QED BY <1>0, <2>1, <1>5 DEF StoreBlob, PersistFails, Unrecorded, TypeOK, db, locals, lost, InStore
<1>6. ASSUME NEW s \in Scans, MarkCompleted(s) PROVE TypeOK'
  BY <1>0, <1>6 DEF MarkCompleted, Unrecorded, TypeOK, db, locals, InStore
<1>7. ASSUME NEW s \in Scans, PruneTargetSnapshots(s) PROVE TypeOK'
  <2>1. Cascade(Prunable(tid[s]))
    BY <1>7 DEF PruneTargetSnapshots
  <2>2. /\ row' \in [Scans -> {"absent", "present", "deleted"}]
        /\ blobs' \subseteq Scans /\ link' \in [Scans -> Scans \cup {None}]
    BY <1>0, <2>1, CascadeEffect, PrunableType
  <2> QED BY <1>0, <2>2, <1>7 DEF PruneTargetSnapshots, TypeOK, locals
<1>8. ASSUME NEW s \in Scans, DeleteSnapshot(s) PROVE TypeOK'
  <2>1. Cascade({s}) /\ row[s] = "present"
    BY <1>8 DEF DeleteSnapshot
  <2>2. /\ row' \in [Scans -> {"absent", "present", "deleted"}]
        /\ blobs' \subseteq Scans /\ link' \in [Scans -> Scans \cup {None}]
    BY <1>0, <2>1, CascadeEffect
  <2> QED BY <1>0, <2>2, <1>8 DEF DeleteSnapshot, TypeOK, locals, lost
<1>9. ASSUME DeleteTargetJobs PROVE TypeOK'
  BY <1>0, <1>9 DEF DeleteTargetJobs, TypeOK, locals, lost
<1>10. ASSUME DeleteTargetRow PROVE TypeOK'
  <2>1. /\ row' \in [Scans -> {"absent", "present", "deleted"}]
        /\ blobs' \subseteq Scans /\ link' \in [Scans -> Scans \cup {None}]
    <3>1. CASE Cascade(Present(doomed))
      BY <1>0, <3>1, CascadeEffect, PresentType
    <3>2. CASE UNCHANGED <<row, blobs, link>>
      BY <1>0, <3>2 DEF TypeOK
    <3>3. Cascade(Present(doomed)) \/ UNCHANGED <<row, blobs, link>>
      BY <1>10 DEF DeleteTargetRow
    <3> QED BY <3>1, <3>2, <3>3
  <2> QED BY <1>0, <2>1, <1>10, BoundsAssumption DEF DeleteTargetRow, TypeOK, locals, lost
<1>11. ASSUME CrashRestart PROVE TypeOK'
  BY <1>0, <1>11, BoundsAssumption DEF CrashRestart, TypeOK, locals, InStore
<1>12. ASSUME Finished PROVE TypeOK'
  BY <1>0, <1>12 DEF Finished, vars, db, locals, lost, TypeOK
<1>13. ASSUME NEW s \in Scans, StatementFails(s) PROVE TypeOK'
  BY <1>0, <1>13 DEF StatementFails, PersistFails, Unrecorded, TypeOK, locals, InStore
<1>14. ASSUME NEW s \in Scans, PruneFails(s) PROVE TypeOK'
  BY <1>0, <1>14 DEF PruneFails, TypeOK, db, locals, InStore
<1>15. ASSUME DeleteTargetFails PROVE TypeOK'
  BY <1>0, <1>15, BoundsAssumption DEF DeleteTargetFails, TypeOK, db, locals, lost
<1> QED
  BY <1>1, <1>2, <1>3, <1>4, <1>5, <1>6, <1>7, <1>8, <1>9, <1>10, <1>11, <1>12, <1>13, <1>14,
     <1>15 DEF Next

LEMMA DeletingStep == Inv0 /\ Next => Deleting'
<1> SUFFICES ASSUME Inv0, Next PROVE Deleting'
  OBVIOUS
<1>0. /\ target \in Nat /\ targets \in Nat /\ MaxTargets \in Nat /\ target <= MaxTargets
      /\ targets <= MaxTargets /\ Deleting
  BY BoundsAssumption DEF Inv0, TypeOK
<1>1. ASSUME NEW s \in Scans, UpsertTarget(s) PROVE Deleting'
  BY <1>0, <1>1 DEF UpsertTarget, Deleting, db
<1>2. ASSUME NEW s \in Scans, ReadPrevious(s) PROVE Deleting'
  BY <1>0, <1>2 DEF ReadPrevious, Deleting, db
<1>3. ASSUME NEW s \in Scans, TouchPrevious(s) PROVE Deleting'
  BY <1>0, <1>3 DEF TouchPrevious, Deleting, db
<1>4. ASSUME NEW s \in Scans, InsertSnapshot(s) PROVE Deleting'
  BY <1>0, <1>4 DEF InsertSnapshot, Deleting, db
<1>5. ASSUME NEW s \in Scans, StoreBlob(s) PROVE Deleting'
  BY <1>0, <1>5 DEF StoreBlob, Deleting, db
<1>6. ASSUME NEW s \in Scans, MarkCompleted(s) PROVE Deleting'
  BY <1>0, <1>6 DEF MarkCompleted, Deleting, db
<1>7. ASSUME NEW s \in Scans, PruneTargetSnapshots(s) PROVE Deleting'
  BY <1>0, <1>7 DEF PruneTargetSnapshots, Deleting, db
<1>8. ASSUME NEW s \in Scans, DeleteSnapshot(s) PROVE Deleting'
  BY <1>0, <1>8 DEF DeleteSnapshot, Deleting, db
<1>9. ASSUME DeleteTargetJobs PROVE Deleting'
  BY <1>0, <1>9 DEF DeleteTargetJobs, Deleting
<1>10. ASSUME DeleteTargetRow PROVE Deleting'
  BY <1>0, <1>10 DEF DeleteTargetRow, Deleting
<1>11. ASSUME CrashRestart PROVE Deleting'
  BY <1>0, <1>11 DEF CrashRestart, Deleting
<1>12. ASSUME Finished PROVE Deleting'
  BY <1>0, <1>12 DEF Finished, vars, db, Deleting
<1>13. ASSUME NEW s \in Scans, StatementFails(s) PROVE Deleting'
  BY <1>0, <1>13 DEF StatementFails, Deleting
<1>14. ASSUME NEW s \in Scans, PruneFails(s) PROVE Deleting'
  BY <1>0, <1>14 DEF PruneFails, Deleting, db
<1>15. ASSUME DeleteTargetFails PROVE Deleting'
  BY <1>0, <1>15 DEF DeleteTargetFails, Deleting, db
<1> QED
  BY <1>1, <1>2, <1>3, <1>4, <1>5, <1>6, <1>7, <1>8, <1>9, <1>10, <1>11, <1>12, <1>13, <1>14,
     <1>15 DEF Next

(* RefsResolve does not depend on more than these.                         *)
LEMMA RefsStutter ==
    ASSUME RefsResolve, UNCHANGED <<target, row, owner, blobs, link, jobTid>>
    PROVE  RefsResolve'
  BY DEF RefsResolve

LEMMA RefsStep == Inv0 /\ Next => RefsResolve'
<1> SUFFICES ASSUME Inv0, Next PROVE RefsResolve'
  OBVIOUS
<1>0. TypeOK /\ RefsResolve /\ Progress /\ Deleting
  BY DEF Inv0
<1>1. ASSUME NEW s \in Scans, UpsertTarget(s) PROVE RefsResolve'
  <2>1. CASE target # 0
    BY <1>0, <2>1, <1>1, RefsStutter DEF UpsertTarget
  <2>2. CASE target = 0
    <3>1. \A x \in Scans : row[x] # "present" /\ link[x] = None /\ jobTid[x] = 0
      BY <1>0, <2>2 DEF RefsResolve, TypeOK
    <3>2. blobs = {}
      BY <1>0, <3>1 DEF RefsResolve, TypeOK
    <3> QED BY <3>1, <3>2, <1>1 DEF UpsertTarget, RefsResolve
  <2> QED BY <2>1, <2>2
<1>2. ASSUME NEW s \in Scans, ReadPrevious(s) PROVE RefsResolve'
  BY <1>0, <1>2, RefsStutter DEF ReadPrevious, db
<1>3. ASSUME NEW s \in Scans, TouchPrevious(s) PROVE RefsResolve'
  BY <1>0, <1>3, RefsStutter DEF TouchPrevious, db
<1>4. ASSUME NEW s \in Scans, InsertSnapshot(s) PROVE RefsResolve'
  <2>1. CASE target # tid[s]
    BY <1>0, <2>1, <1>4, RefsStutter DEF InsertSnapshot
  <2>2. CASE target = tid[s]
    <3>1. /\ row[s] = "absent" /\ tid[s] # 0
          /\ row' = [row EXCEPT ![s] = "present"] /\ owner' = [owner EXCEPT ![s] = tid[s]]
          /\ UNCHANGED <<target, blobs, link, jobTid>>
      BY <1>0, <2>2, <1>4 DEF InsertSnapshot, Progress, InStore
    <3>2. s \notin blobs /\ \A x \in Scans : link[x] # s
      BY <1>0, <3>1, ScansAssumption DEF RefsResolve
    <3>3. \A x \in Scans : row'[x] = "present" => owner'[x] = target' /\ target' # 0
      BY <1>0, <2>2, <3>1 DEF RefsResolve, TypeOK
    <3>4. \A x \in blobs' : row'[x] = "present"
      BY <1>0, <3>1, <3>2 DEF RefsResolve, TypeOK
    <3>5. \A x \in Scans :
            /\ jobTid'[x] \in {0, target'}
            /\ link'[x] # None => row'[link'[x]] = "present" /\ owner'[link'[x]] = jobTid'[x]
      BY <1>0, <3>1, <3>2 DEF RefsResolve, TypeOK
    <3> QED BY <3>3, <3>4, <3>5 DEF RefsResolve
  <2> QED BY <2>1, <2>2
<1>5. ASSUME NEW s \in Scans, StoreBlob(s) PROVE RefsResolve'
  <2>1. UNCHANGED <<target, row, owner, link, jobTid>>
    BY <1>5 DEF StoreBlob
  <2>2. \A x \in blobs' : row'[x] = "present"
    BY <1>0, <1>5 DEF StoreBlob, RefsResolve
  <2> QED BY <1>0, <2>1, <2>2 DEF RefsResolve
<1>6. ASSUME NEW s \in Scans, MarkCompleted(s) PROVE RefsResolve'
  <2>1. CASE UNCHANGED <<link, jobTid>>
    BY <1>0, <2>1, <1>6, RefsStutter DEF MarkCompleted
  <2>2. CASE /\ row[out[s]] = "present" /\ target = tid[s]
             /\ link' = [link EXCEPT ![s] = out[s]] /\ jobTid' = [jobTid EXCEPT ![s] = tid[s]]
    <3>1. out[s] \in Scans /\ owner[out[s]] = target
      BY <1>0, <2>2, <1>6 DEF MarkCompleted, Progress, RefsResolve
    <3>2. UNCHANGED <<target, row, owner, blobs>>
      BY <1>6 DEF MarkCompleted
    <3>3. \A x \in Scans :
            /\ jobTid'[x] \in {0, target'}
            /\ link'[x] # None => row'[link'[x]] = "present" /\ owner'[link'[x]] = jobTid'[x]
      BY <1>0, <2>2, <3>1, <3>2 DEF RefsResolve, TypeOK
    <3> QED BY <1>0, <3>2, <3>3 DEF RefsResolve
  <2> QED BY <2>1, <2>2, <1>6 DEF MarkCompleted
<1>7. ASSUME NEW s \in Scans, PruneTargetSnapshots(s) PROVE RefsResolve'
  <2>1. Cascade(Prunable(tid[s])) /\ UNCHANGED <<target, owner, jobTid>>
    BY <1>7 DEF PruneTargetSnapshots
  <2> QED BY <1>0, <2>1, PrunableType, CascadeResolves
<1>8. ASSUME NEW s \in Scans, DeleteSnapshot(s) PROVE RefsResolve'
  <2>1. Cascade({s}) /\ row[s] = "present" /\ UNCHANGED <<target, owner, jobTid>>
    BY <1>8 DEF DeleteSnapshot
  <2> QED BY <1>0, <2>1, CascadeResolves
<1>9. ASSUME DeleteTargetJobs PROVE RefsResolve'
  BY <1>0, <1>9 DEF DeleteTargetJobs, RefsResolve, TypeOK
<1>10. ASSUME DeleteTargetRow PROVE RefsResolve'
  <2>1. /\ target = doomed /\ target' = 0 /\ Cascade(Present(doomed))
        /\ jobTid' = [x \in Scans |-> IF jobTid[x] = doomed THEN 0 ELSE jobTid[x]]
    BY <1>0, <1>10 DEF DeleteTargetRow, Deleting
  <2>2. \A x \in Scans : row'[x] # "present"
    BY <1>0, <2>1, PresentType, CascadeEffect DEF Present, RefsResolve
  <2>3. blobs' = {}
    BY <1>0, <2>1 DEF Cascade, RefsResolve, TypeOK, Present
  <2>4. \A x \in Scans : link'[x] = None
    BY <1>0, <2>1 DEF Cascade, RefsResolve, TypeOK, Present
  <2>5. \A x \in Scans : jobTid'[x] = 0
    BY <1>0, <2>1 DEF RefsResolve, TypeOK
  <2> QED BY <2>1, <2>2, <2>3, <2>4, <2>5 DEF RefsResolve
<1>11. ASSUME CrashRestart PROVE RefsResolve'
  BY <1>0, <1>11, RefsStutter DEF CrashRestart
<1>12. ASSUME Finished PROVE RefsResolve'
  BY <1>0, <1>12, RefsStutter DEF Finished, vars, db
<1>13. ASSUME NEW s \in Scans, StatementFails(s) PROVE RefsResolve'
  BY <1>0, <1>13, RefsStutter DEF StatementFails
<1>14. ASSUME NEW s \in Scans, PruneFails(s) PROVE RefsResolve'
  BY <1>0, <1>14, RefsStutter DEF PruneFails, db
<1>15. ASSUME DeleteTargetFails PROVE RefsResolve'
  BY <1>0, <1>15, RefsStutter DEF DeleteTargetFails, db
<1> QED
  BY <1>1, <1>2, <1>3, <1>4, <1>5, <1>6, <1>7, <1>8, <1>9, <1>10, <1>11, <1>12, <1>13, <1>14,
     <1>15 DEF Next

(* A step of one scan leaves the progress of the others alone.             *)
LEMMA ProgressStep == Inv0 /\ Next => Progress'
<1> SUFFICES ASSUME Inv0, Next PROVE Progress'
  OBVIOUS
<1>0. TypeOK /\ RefsResolve /\ Progress /\ Deleting
  BY DEF Inv0
<1> USE DEF InStore
<1>1. ASSUME NEW s \in Scans, UpsertTarget(s) PROVE Progress'
  <2>1. tid' = [tid EXCEPT ![s] = target'] /\ target' # 0 /\ pc[s] = "scan"
    BY <1>0, <1>1 DEF UpsertTarget, TypeOK
  <2>2. pc' = [pc EXCEPT ![s] = "read"] /\ UNCHANGED <<row, owner, stamp, out, prunes>>
    BY <1>1 DEF UpsertTarget
  <2> QED BY <1>0, <2>1, <2>2 DEF Progress, TypeOK
<1>2. ASSUME NEW s \in Scans, ReadPrevious(s) PROVE Progress'
  <2>1. clock + 1 # 0
    BY <1>0 DEF TypeOK
  <2> QED BY <1>0, <2>1, <1>2 DEF ReadPrevious, Progress, TypeOK, db
<1>3. ASSUME NEW s \in Scans, TouchPrevious(s) PROVE Progress'
  <2>1. prev[s] \in Scans
    BY <1>0, <1>3 DEF TouchPrevious, Identical, TypeOK
  <2>2. /\ pc[s] = "write" /\ pc' = [pc EXCEPT ![s] = "blob"] /\ out' = [out EXCEPT ![s] = prev[s]]
        /\ UNCHANGED <<row, owner, tid, stamp, prunes>>
    BY <1>3 DEF TouchPrevious, db
  <2> QED BY <1>0, <2>1, <2>2 DEF Progress, TypeOK
<1>4. ASSUME NEW s \in Scans, InsertSnapshot(s) PROVE Progress'
  <2>1. CASE target = tid[s]
    <3>1. /\ pc[s] = "write" /\ pc' = [pc EXCEPT ![s] = "blob"] /\ out' = [out EXCEPT ![s] = s]
          /\ row' = [row EXCEPT ![s] = "present"] /\ owner' = [owner EXCEPT ![s] = tid[s]]
          /\ UNCHANGED <<tid, stamp, prunes>>
      BY <2>1, <1>4 DEF InsertSnapshot
    <3> QED BY <1>0, <3>1 DEF Progress, TypeOK
  <2>2. CASE target # tid[s]
    BY <1>0, <2>2, <1>4 DEF InsertSnapshot, PersistFails, Progress, TypeOK
  <2> QED BY <2>1, <2>2
<1>5. ASSUME NEW s \in Scans, StoreBlob(s) PROVE Progress'
  <2>1. pc[s] = "blob" /\ UNCHANGED <<row, owner, tid, stamp, out>>
    BY <1>5 DEF StoreBlob, locals
  <2>2. \/ pc' = [pc EXCEPT ![s] = "complete"] /\ prunes' = prunes \cup {s}
        \/ pc' = [pc EXCEPT ![s] = "done"] /\ prunes' = prunes
    BY <1>5 DEF StoreBlob, PersistFails
  <2> QED BY <1>0, <2>1, <2>2 DEF Progress, TypeOK
<1>6. ASSUME NEW s \in Scans, MarkCompleted(s) PROVE Progress'
  <2>1. pc' = [pc EXCEPT ![s] = "done"] /\ UNCHANGED <<row, owner, tid, stamp, out, prunes>>
    BY <1>6 DEF MarkCompleted, locals
  <2> QED BY <1>0, <2>1 DEF Progress, TypeOK
<1>7. ASSUME NEW s \in Scans, PruneTargetSnapshots(s) PROVE Progress'
  <2>1. Cascade(Prunable(tid[s]))
    BY <1>7 DEF PruneTargetSnapshots
  <2>2. /\ UNCHANGED <<owner, pc, tid, stamp, out>> /\ prunes' \subseteq prunes
    BY <1>7 DEF PruneTargetSnapshots, locals
  <2>3. \A x \in Scans : /\ row'[x] = "present" => row[x] = "present"
                         /\ row'[x] = "absent" <=> row[x] = "absent"
    BY <1>0, <2>1, PrunableType, CascadeEffect
  <2> QED BY <1>0, <2>2, <2>3 DEF Progress
<1>8. ASSUME NEW s \in Scans, DeleteSnapshot(s) PROVE Progress'
  <2>1. Cascade({s}) /\ row[s] = "present"
    BY <1>8 DEF DeleteSnapshot
  <2>2. /\ UNCHANGED <<owner, pc, tid, stamp, out>> /\ prunes' \subseteq prunes
    BY <1>8 DEF DeleteSnapshot, locals
  <2>3. \A x \in Scans : /\ row'[x] = "present" => row[x] = "present"
                         /\ row'[x] = "absent" <=> row[x] = "absent"
    BY <1>0, <2>1, CascadeEffect
  <2> QED BY <1>0, <2>2, <2>3 DEF Progress
<1>9. ASSUME DeleteTargetJobs PROVE Progress'
  <2>1. UNCHANGED <<row, owner, pc, tid, stamp, out, prunes>>
    BY <1>9 DEF DeleteTargetJobs, locals
  <2> QED BY <1>0, <2>1 DEF Progress
<1>10. ASSUME DeleteTargetRow PROVE Progress'
  <2>1. Cascade(Present(doomed))
    BY <1>0, <1>10 DEF DeleteTargetRow, Deleting
  <2>2. /\ UNCHANGED <<owner, pc, tid, stamp, out>> /\ prunes' \subseteq prunes
    BY <1>10 DEF DeleteTargetRow, locals
  <2>3. \A x \in Scans : /\ row'[x] = "present" => row[x] = "present"
                         /\ row'[x] = "absent" <=> row[x] = "absent"
    BY <1>0, <2>1, PresentType, CascadeEffect
  <2> QED BY <1>0, <2>2, <2>3 DEF Progress
<1>11. ASSUME CrashRestart PROVE Progress'
  <2>1. UNCHANGED <<row, owner, tid, stamp, out>> /\ prunes' = {}
    BY <1>11 DEF CrashRestart, locals
  <2>2. \A x \in Scans : pc'[x] = pc[x] \/ pc'[x] = "done"
    BY <1>11 DEF CrashRestart
  <2> QED BY <1>0, <2>1, <2>2 DEF Progress
<1>12. ASSUME Finished PROVE Progress'
  <2>1. UNCHANGED <<row, owner, pc, tid, stamp, out, prunes>>
    BY <1>12 DEF Finished, vars, db, locals
  <2> QED BY <1>0, <2>1 DEF Progress
<1>13. ASSUME NEW s \in Scans, StatementFails(s) PROVE Progress'
  <2>1. /\ pc' = [pc EXCEPT ![s] = "done"] /\ UNCHANGED <<row, owner, tid, stamp, out, prunes>>
    BY <1>13 DEF StatementFails, PersistFails, locals
  <2> QED BY <1>0, <2>1 DEF Progress, TypeOK
<1>14. ASSUME NEW s \in Scans, PruneFails(s) PROVE Progress'
  <2>1. UNCHANGED <<row, owner, pc, tid, stamp, out>> /\ prunes' \subseteq prunes
    BY <1>14 DEF PruneFails, db, locals
  <2> QED BY <1>0, <2>1 DEF Progress
<1>15. ASSUME DeleteTargetFails PROVE Progress'
  <2>1. UNCHANGED <<row, owner, pc, tid, stamp, out, prunes>>
    BY <1>15 DEF DeleteTargetFails, db, locals
  <2> QED BY <1>0, <2>1 DEF Progress
<1> QED
  BY <1>1, <1>2, <1>3, <1>4, <1>5, <1>6, <1>7, <1>8, <1>9, <1>10, <1>11, <1>12, <1>13, <1>14,
     <1>15 DEF Next

(* Only ReadPrevious takes a time, and only for a scan without a snapshot. *)
LEMMA StampedStutter ==
    ASSUME TypeOK, Stamped, UNCHANGED <<stamp, clock, at>>,
           \A s \in Scans : row'[s] = "present" => row[s] = "present"
    PROVE  Stamped'
  BY DEF Stamped

LEMMA StampedStep == Inv0 /\ Next => Stamped'
<1> SUFFICES ASSUME Inv0, Next PROVE Stamped'
  OBVIOUS
<1>0. TypeOK /\ Progress /\ Stamped /\ Deleting
  BY DEF Inv0
<1>1. ASSUME NEW s \in Scans, UpsertTarget(s) PROVE Stamped'
  BY <1>0, <1>1, StampedStutter DEF UpsertTarget, locals
<1>2. ASSUME NEW s \in Scans, ReadPrevious(s) PROVE Stamped'
  <2>1. /\ row[s] = "absent" /\ clock' = clock + 1 /\ stamp' = [stamp EXCEPT ![s] = clock + 1]
        /\ UNCHANGED <<row, at>>
    BY <1>0, <1>2 DEF ReadPrevious, Progress, db
  <2>2. clock \in Nat /\ \A x \in Scans : stamp[x] \in Nat /\ stamp[x] <= clock
    BY <1>0 DEF TypeOK, Stamped
  <2>3. \A x \in Scans : stamp'[x] = IF x = s THEN clock + 1 ELSE stamp[x]
    BY <1>0, <2>1 DEF TypeOK
  <2>4. \A x \in Scans : /\ stamp'[x] <= clock'
                         /\ row'[x] = "present" => at'[x] = stamp'[x] /\ stamp'[x] # 0
    BY <1>0, <2>1, <2>2, <2>3 DEF Stamped
  <2>5. \A x, y \in Scans : x # y /\ stamp'[x] = stamp'[y] => stamp'[x] = 0
    BY <1>0, <2>2, <2>3 DEF Stamped
  <2> QED BY <2>4, <2>5 DEF Stamped
<1>3. ASSUME NEW s \in Scans, TouchPrevious(s) PROVE Stamped'
  BY <1>0, <1>3, StampedStutter DEF TouchPrevious, db
<1>4. ASSUME NEW s \in Scans, InsertSnapshot(s) PROVE Stamped'
  <2>1. CASE target # tid[s]
    BY <1>0, <2>1, <1>4, StampedStutter DEF InsertSnapshot
  <2>2. CASE target = tid[s]
    <3>1. /\ pc[s] = "write" /\ row' = [row EXCEPT ![s] = "present"]
          /\ at' = [at EXCEPT ![s] = stamp[s]] /\ UNCHANGED <<stamp, clock>>
      BY <2>2, <1>4 DEF InsertSnapshot
    <3>2. stamp[s] # 0
      BY <1>0, <3>1 DEF Progress
    <3> QED BY <1>0, <3>1, <3>2 DEF Stamped, TypeOK
  <2> QED BY <2>1, <2>2
<1>5. ASSUME NEW s \in Scans, StoreBlob(s) PROVE Stamped'
  BY <1>0, <1>5, StampedStutter DEF StoreBlob, locals
<1>6. ASSUME NEW s \in Scans, MarkCompleted(s) PROVE Stamped'
  BY <1>0, <1>6, StampedStutter DEF MarkCompleted, locals
<1>7. ASSUME NEW s \in Scans, PruneTargetSnapshots(s) PROVE Stamped'
  <2>1. Cascade(Prunable(tid[s])) /\ UNCHANGED <<stamp, clock, at>>
    BY <1>7 DEF PruneTargetSnapshots, locals
  <2>2. \A x \in Scans : row'[x] = "present" => row[x] = "present"
    BY <1>0, <2>1, PrunableType, CascadeEffect
  <2> QED BY <1>0, <2>1, <2>2, StampedStutter
<1>8. ASSUME NEW s \in Scans, DeleteSnapshot(s) PROVE Stamped'
  <2>1. Cascade({s}) /\ row[s] = "present" /\ UNCHANGED <<stamp, clock, at>>
    BY <1>8 DEF DeleteSnapshot, locals
  <2>2. \A x \in Scans : row'[x] = "present" => row[x] = "present"
    BY <1>0, <2>1, CascadeEffect
  <2> QED BY <1>0, <2>1, <2>2, StampedStutter
<1>9. ASSUME DeleteTargetJobs PROVE Stamped'
  BY <1>0, <1>9, StampedStutter DEF DeleteTargetJobs, locals
<1>10. ASSUME DeleteTargetRow PROVE Stamped'
  <2>1. Cascade(Present(doomed)) /\ UNCHANGED <<stamp, clock, at>>
    BY <1>0, <1>10 DEF DeleteTargetRow, Deleting, locals
  <2>2. \A x \in Scans : row'[x] = "present" => row[x] = "present"
    BY <1>0, <2>1, PresentType, CascadeEffect
  <2> QED BY <1>0, <2>1, <2>2, StampedStutter
<1>11. ASSUME CrashRestart PROVE Stamped'
  BY <1>0, <1>11, StampedStutter DEF CrashRestart, locals
<1>12. ASSUME Finished PROVE Stamped'
  BY <1>0, <1>12, StampedStutter DEF Finished, vars, db, locals
<1>13. ASSUME NEW s \in Scans, StatementFails(s) PROVE Stamped'
  BY <1>0, <1>13, StampedStutter DEF StatementFails, locals
<1>14. ASSUME NEW s \in Scans, PruneFails(s) PROVE Stamped'
  BY <1>0, <1>14, StampedStutter DEF PruneFails, db, locals
<1>15. ASSUME DeleteTargetFails PROVE Stamped'
  BY <1>0, <1>15, StampedStutter DEF DeleteTargetFails, db, locals
<1> QED
  BY <1>1, <1>2, <1>3, <1>4, <1>5, <1>6, <1>7, <1>8, <1>9, <1>10, <1>11, <1>12, <1>13, <1>14,
     <1>15 DEF Next

(* Rows are never absent again and deleted ones never come back, a new     *)
(* target is none of an earlier scan, and what is recorded as lost stays.  *)
Onward == /\ UNCHANGED <<tid, prev, out>>
          /\ targets <= targets' /\ unrecorded \subseteq unrecorded'
          /\ target' \in {0, target} \/ target' = targets + 1
          /\ \A x \in Scans : row[x] # "absent" =>
               row'[x] # "absent" /\ (row[x] # "present" => row'[x] # "present")

(* Only a scan that ends can leave its job running.                        *)
EndsRunning(x) ==
    pc'[x] = "done" /\ job'[x] = "running"
    => x \in unrecorded' \/ (pc[x] = "done" /\ job[x] = "running")

LEMMA FailsEnd ==
    ASSUME TypeOK, NEW s \in Scans, PersistFails(s)
    PROVE  unrecorded \subseteq unrecorded' /\ \A x \in Scans : EndsRunning(x)
<1>1. ASSUME NEW x \in Scans, x # s PROVE EndsRunning(x)
  BY <1>1 DEF TypeOK, PersistFails, Unrecorded, EndsRunning
<1>2. EndsRunning(s)
  BY DEF TypeOK, PersistFails, Unrecorded, EndsRunning
<1> QED
  BY <1>1, <1>2 DEF PersistFails, Unrecorded

LEMMA SettledStay ==
    ASSUME TypeOK, Settled, Onward, targets' \in Nat,
           \A x \in Scans : \/ EndsRunning(x)
                            \/ out[x] # None /\ (row[out[x]] # "present" \/ target # tid[x])
    PROVE  Settled'
<1>1. \A x \in Scans : /\ targets \in Nat /\ tid[x] \in Nat /\ tid[x] <= targets
                       /\ prev[x] # None => prev[x] \in Scans
                       /\ out[x] # None => out[x] \in Scans
  BY BoundsAssumption DEF TypeOK, Settled
<1>2. \A x \in Scans : /\ tid'[x] <= targets'
                       /\ prev'[x] # None => row'[prev'[x]] # "absent"
                       /\ out'[x] # None => row'[out'[x]] # "absent" /\ tid'[x] # 0
  BY <1>1 DEF Settled, Onward
<1>3. ASSUME NEW x \in Scans, pc'[x] = "done", job'[x] = "running", x \notin unrecorded'
      PROVE  out'[x] # None /\ (row'[out'[x]] # "present" \/ target' # tid'[x])
  <2>1. out[x] # None /\ (row[out[x]] # "present" \/ target # tid[x])
    BY <1>3 DEF Settled, Onward, EndsRunning
  <2>2. out[x] \in Scans /\ row[out[x]] # "absent" /\ tid[x] # 0
    BY <1>1, <2>1 DEF Settled
  <2>3. target # tid[x] => target' # tid[x]
    BY <1>1, <2>2 DEF Onward
  <2> QED BY <2>1, <2>2, <2>3 DEF Onward
<1> QED
  BY <1>2, <1>3 DEF Settled

LEMMA SettledStep == Inv0 /\ Next => Settled'
<1> SUFFICES ASSUME Inv0, Next PROVE Settled'
  OBVIOUS
<1>0. TypeOK /\ RefsResolve /\ Progress /\ Deleting /\ Stamped /\ Settled
  BY DEF Inv0
<1>a. TypeOK' /\ MaxTargets \in Nat /\ targets \in Nat /\ targets' \in Nat
  BY <1>0, TypeStep, BoundsAssumption DEF TypeOK
<1>b. \A x \in Scans : tid[x] \in Nat /\ tid[x] <= targets
  BY <1>0, <1>a DEF Settled, TypeOK
<1> USE DEF InStore
<1>1. ASSUME NEW s \in Scans, UpsertTarget(s) PROVE Settled'
  <2>1. /\ pc[s] = "scan" /\ pc' = [pc EXCEPT ![s] = "read"] /\ tid' = [tid EXCEPT ![s] = target']
        /\ job' = [job EXCEPT ![s] = "running"] /\ UNCHANGED <<row, prev, out, unrecorded>>
        /\ \/ target # 0 /\ UNCHANGED <<target, targets>>
           \/ target = 0 /\ targets' = targets + 1 /\ target' = targets'
    BY <1>1 DEF UpsertTarget, lost
  <2>2. target \in Nat /\ target <= targets /\ target' # 0 /\ target' <= targets' /\ targets <= targets'
    BY <1>0, <1>a, <2>1, BoundsAssumption DEF Deleting, TypeOK
  <2>3. \A x \in Scans : tid'[x] <= targets' /\ (tid[x] # 0 => tid'[x] # 0)
    BY <1>0, <1>a, <1>b, <2>1, <2>2 DEF TypeOK
  <2>4. \A x \in Scans : /\ prev'[x] # None => row'[prev'[x]] # "absent"
                         /\ out'[x] # None => row'[out'[x]] # "absent" /\ tid'[x] # 0
    BY <1>0, <2>1, <2>3 DEF Settled
  <2>5. ASSUME NEW x \in Scans, pc'[x] = "done", job'[x] = "running"
        PROVE  \/ x \in unrecorded'
               \/ out'[x] # None /\ (row'[out'[x]] # "present" \/ target' # tid'[x])
    <3>1. x # s /\ pc[x] = "done" /\ job[x] = "running" /\ tid'[x] = tid[x]
      BY <1>0, <2>1, <2>5 DEF TypeOK
    <3>2. CASE x \in unrecorded
      BY <2>1, <3>2
    <3>3. CASE out[x] # None /\ row[out[x]] # "present"
      BY <2>1, <3>3
    <3>4. CASE out[x] # None /\ target # tid[x]
      <4>1. tid[x] <= targets /\ tid[x] \in Nat
        BY <1>b
      <4>2. target' # tid[x]
        BY <1>a, <2>1, <3>4, <4>1
      <4> QED BY <2>1, <3>1, <3>4, <4>2
    <3> QED BY <1>0, <3>1, <3>2, <3>3, <3>4 DEF Settled
  <2> QED BY <2>3, <2>4, <2>5 DEF Settled
<1>2. ASSUME NEW s \in Scans, ReadPrevious(s) PROVE Settled'
  <2>1. /\ prev' = [prev EXCEPT ![s] = Newest(tid[s])] /\ pc' = [pc EXCEPT ![s] = "write"]
        /\ UNCHANGED <<target, targets, row, job, tid, out, unrecorded>>
    BY <1>2 DEF ReadPrevious, db, lost
  <2>2. Newest(tid[s]) # None => row[Newest(tid[s])] = "present"
    BY <1>0, NewestType DEF Present
  <2> QED BY <1>0, <2>1, <2>2 DEF Settled, TypeOK
<1>3. ASSUME NEW s \in Scans, TouchPrevious(s) PROVE Settled'
  <2>1. /\ pc[s] = "write" /\ pc' = [pc EXCEPT ![s] = "blob"] /\ out' = [out EXCEPT ![s] = prev[s]]
        /\ prev[s] # None /\ UNCHANGED <<target, targets, row, job, tid, prev, unrecorded>>
    BY <1>3 DEF TouchPrevious, Identical, db, lost
  <2>2. tid[s] # 0
    BY <1>0, <2>1 DEF Progress
  <2> QED BY <1>0, <2>1, <2>2 DEF Settled, TypeOK
<1>4. ASSUME NEW s \in Scans, InsertSnapshot(s) PROVE Settled'
  <2>1. pc[s] = "write" /\ row[s] = "absent" /\ tid[s] # 0
    BY <1>0, <1>4 DEF InsertSnapshot, Progress
  <2>2. CASE target = tid[s]
    <3>1. /\ row' = [row EXCEPT ![s] = "present"] /\ out' = [out EXCEPT ![s] = s]
          /\ pc' = [pc EXCEPT ![s] = "blob"]
          /\ UNCHANGED <<target, targets, job, tid, prev, unrecorded>>
      BY <2>2, <1>4 DEF InsertSnapshot
    <3>2. \A x \in Scans : (out[x] # None => out[x] # s) /\ (prev[x] # None => prev[x] # s)
      BY <1>0, <2>1 DEF Settled
    <3>3. \A x \in Scans : /\ tid'[x] <= targets'
                           /\ prev'[x] # None => row'[prev'[x]] # "absent"
                           /\ out'[x] # None => row'[out'[x]] # "absent" /\ tid'[x] # 0
      BY <1>0, <2>1, <3>1, <3>2 DEF Settled, TypeOK
    <3>4. ASSUME NEW x \in Scans, pc'[x] = "done", job'[x] = "running", x \notin unrecorded'
          PROVE  out'[x] # None /\ (row'[out'[x]] # "present" \/ target' # tid'[x])
      <4>1. x # s /\ pc[x] = "done" /\ job[x] = "running"
        BY <1>0, <3>1, <3>4 DEF TypeOK
      <4>2. out[x] \in Scans /\ out'[x] = out[x] /\ out[x] # s /\ row'[out[x]] = row[out[x]]
        BY <1>0, <3>1, <3>2, <3>4, <4>1 DEF Settled, TypeOK
      <4> QED BY <1>0, <3>1, <3>4, <4>1, <4>2 DEF Settled
    <3> QED BY <3>3, <3>4 DEF Settled
  <2>3. CASE target # tid[s]
    <3>1. PersistFails(s) /\ UNCHANGED <<target, targets, row, tid, prev, out>>
      BY <2>3, <1>4 DEF InsertSnapshot
    <3>2. Onward /\ \A x \in Scans : EndsRunning(x)
      BY <1>0, <1>a, <3>1, FailsEnd DEF Onward
    <3> QED BY <1>0, <1>a, <3>2, SettledStay
  <2> QED BY <2>2, <2>3
<1>5. ASSUME NEW s \in Scans, StoreBlob(s) PROVE Settled'
  <2>1. pc[s] = "blob" /\ UNCHANGED <<target, targets, row, tid, prev, out>>
    BY <1>5 DEF StoreBlob, locals
  <2>2. PersistFails(s) \/ (pc' = [pc EXCEPT ![s] = "complete"] /\ UNCHANGED <<job, unrecorded>>)
    BY <1>5 DEF StoreBlob, lost
  <2>3. unrecorded \subseteq unrecorded' /\ \A x \in Scans : EndsRunning(x)
    <3>1. CASE PersistFails(s)
      BY <1>0, <3>1, FailsEnd
    <3>2. CASE pc' = [pc EXCEPT ![s] = "complete"] /\ UNCHANGED <<job, unrecorded>>
      BY <1>0, <3>2 DEF EndsRunning, TypeOK
    <3> QED BY <2>2, <3>1, <3>2
  <2>4. Onward
    BY <1>a, <2>1, <2>3 DEF Onward
  <2> QED BY <1>0, <1>a, <2>3, <2>4, SettledStay
<1>6. ASSUME NEW s \in Scans, MarkCompleted(s) PROVE Settled'
  <2>1. /\ pc[s] = "complete" /\ pc' = [pc EXCEPT ![s] = "done"]
        /\ UNCHANGED <<target, targets, row, tid, prev, out>>
    BY <1>6 DEF MarkCompleted, locals
  <2>2. out[s] # None
    BY <1>0, <2>1, ScansAssumption DEF Progress
  <2>3. \/ job' = [job EXCEPT ![s] = "completed"] /\ UNCHANGED unrecorded
        \/ (row[out[s]] # "present" \/ target # tid[s]) /\ UNCHANGED <<job, unrecorded>>
        \/ job' = [job EXCEPT ![s] = "running"] /\ unrecorded' = unrecorded \cup {s}
    BY <1>6 DEF MarkCompleted, Unrecorded
  <2>4. Onward
    BY <1>a, <2>1, <2>3 DEF Onward
  <2>5. \A x \in Scans : \/ EndsRunning(x)
                         \/ out[x] # None /\ (row[out[x]] # "present" \/ target # tid[x])
    <3> TAKE x \in Scans
    <3>1. CASE x # s
      BY <1>0, <2>1, <2>3, <3>1 DEF EndsRunning, TypeOK
    <3>2. CASE x = s /\ ~ (row[out[s]] # "present" \/ target # tid[s])
      BY <1>0, <2>1, <2>3, <3>2 DEF EndsRunning, TypeOK
    <3> QED BY <2>2, <3>1, <3>2
  <2> QED BY <1>0, <1>a, <2>4, <2>5, SettledStay
<1>7. ASSUME NEW s \in Scans, PruneTargetSnapshots(s) PROVE Settled'
  <2>1. /\ Cascade(Prunable(tid[s]))
        /\ UNCHANGED <<target, targets, job, pc, tid, prev, out, unrecorded>>
    BY <1>7 DEF PruneTargetSnapshots, locals
  <2>2. \A x \in Scans : /\ row'[x] = "present" => row[x] = "present"
                         /\ row'[x] = "absent" <=> row[x] = "absent"
    BY <1>0, <2>1, PrunableType, CascadeEffect
  <2>3. Onward /\ \A x \in Scans : EndsRunning(x)
    BY <1>a, <2>1, <2>2 DEF Onward, EndsRunning
  <2> QED BY <1>0, <1>a, <2>3, SettledStay
<1>8. ASSUME NEW s \in Scans, DeleteSnapshot(s) PROVE Settled'
  <2>1. /\ Cascade({s}) /\ row[s] = "present"
        /\ UNCHANGED <<target, targets, job, pc, tid, prev, out, unrecorded>>
    BY <1>8 DEF DeleteSnapshot, locals, lost
  <2>2. \A x \in Scans : /\ row'[x] = "present" => row[x] = "present"
                         /\ row'[x] = "absent" <=> row[x] = "absent"
    BY <1>0, <2>1, CascadeEffect
  <2>3. Onward /\ \A x \in Scans : EndsRunning(x)
    BY <1>a, <2>1, <2>2 DEF Onward, EndsRunning
  <2> QED BY <1>0, <1>a, <2>3, SettledStay
<1>9. ASSUME DeleteTargetJobs PROVE Settled'
  <2>1. /\ UNCHANGED <<target, targets, row, pc, tid, prev, out, unrecorded>>
        /\ \A x \in Scans : job'[x] \in {"deleted", job[x]}
    BY <1>9 DEF DeleteTargetJobs, locals, lost
  <2>2. Onward /\ \A x \in Scans : EndsRunning(x)
    BY <1>a, <2>1 DEF Onward, EndsRunning
  <2> QED BY <1>0, <1>a, <2>2, SettledStay
<1>10. ASSUME DeleteTargetRow PROVE Settled'
  <2>1. /\ target' = 0 /\ Cascade(Present(doomed))
        /\ UNCHANGED <<targets, job, pc, tid, prev, out, unrecorded>>
    BY <1>0, <1>10 DEF DeleteTargetRow, Deleting, locals, lost
  <2>2. \A x \in Scans : /\ row'[x] = "present" => row[x] = "present"
                         /\ row'[x] = "absent" <=> row[x] = "absent"
    BY <1>0, <2>1, PresentType, CascadeEffect
  <2>3. Onward /\ \A x \in Scans : EndsRunning(x)
    BY <1>a, <2>1, <2>2 DEF Onward, EndsRunning
  <2> QED BY <1>0, <1>a, <2>3, SettledStay
<1>11. ASSUME CrashRestart PROVE Settled'
  <2>1. /\ UNCHANGED <<target, targets, row, tid, prev, out, unrecorded>>
        /\ \A x \in Scans : job'[x] # "running"
    BY <1>11 DEF CrashRestart, locals
  <2>2. Onward /\ \A x \in Scans : EndsRunning(x)
    BY <1>a, <2>1 DEF Onward, EndsRunning
  <2> QED BY <1>0, <1>a, <2>2, SettledStay
<1>12. ASSUME Finished PROVE Settled'
  <2>1. Onward /\ \A x \in Scans : EndsRunning(x)
    BY <1>12, <1>a DEF Finished, vars, db, locals, lost, Onward, EndsRunning
  <2> QED BY <1>0, <1>a, <2>1, SettledStay
<1>13. ASSUME NEW s \in Scans, StatementFails(s) PROVE Settled'
  <2>1. PersistFails(s) /\ UNCHANGED <<target, targets, row, tid, prev, out>>
    BY <1>13 DEF StatementFails, locals
  <2>2. Onward /\ \A x \in Scans : EndsRunning(x)
    BY <1>0, <1>a, <2>1, FailsEnd DEF Onward
  <2> QED BY <1>0, <1>a, <2>2, SettledStay
<1>14. ASSUME NEW s \in Scans, PruneFails(s) PROVE Settled'
  <2>1. Onward /\ \A x \in Scans : EndsRunning(x)
    BY <1>14, <1>a DEF PruneFails, db, locals, Onward, EndsRunning
  <2> QED BY <1>0, <1>a, <2>1, SettledStay
<1>15. ASSUME DeleteTargetFails PROVE Settled'
  <2>1. Onward /\ \A x \in Scans : EndsRunning(x)
    BY <1>15, <1>a DEF DeleteTargetFails, db, locals, lost, Onward, EndsRunning
  <2> QED BY <1>0, <1>a, <2>1, SettledStay
<1> QED
  BY <1>1, <1>2, <1>3, <1>4, <1>5, <1>6, <1>7, <1>8, <1>9, <1>10, <1>11, <1>12, <1>13, <1>14,
     <1>15 DEF Next

-----------------------------------------------------------------------------
(* Retention.                                                              *)

LEMMA CountedFinite == IsFiniteSet(Counted) /\ IsFiniteSet(Counted')
<1>1. Counted \in SUBSET Scans /\ Counted' \in SUBSET Scans
  BY DEF Counted, Present
<1> QED
  BY <1>1, ScansAssumption, FS_Subset

(* When no more snapshots are counted, there are no more too many.         *)
LEMMA FewerCounted ==
    ASSUME TypeOK, Surplus, env' = env, Counted' \subseteq Counted
    PROVE  Surplus'
<1> SUFFICES ASSUME env.retention > 0 PROVE Cardinality(Counted') <= env.retention
  BY DEF Surplus
<1>1. Cardinality(Counted) <= env.retention
  BY DEF Surplus
<1>2. Cardinality(Counted') <= Cardinality(Counted)
  BY CountedFinite, FS_Subset
<1>3. Cardinality(Counted) \in Nat /\ Cardinality(Counted') \in Nat /\ env.retention \in Nat
  BY CountedFinite, FS_CardinalityType, EnvType DEF TypeOK
<1> QED
  BY <1>1, <1>2, <1>3

LEMMA NoneCounted ==
    ASSUME TypeOK, env' = env, \A s \in Scans : row'[s] # "present"
    PROVE  Surplus'
<1>1. Counted' = {}
  BY DEF Counted, Present
<1>2. Cardinality(Counted') = 0 /\ env.retention \in Nat
  BY <1>1, FS_EmptySet, EnvType DEF TypeOK
<1> QED
  BY <1>2 DEF Surplus

(* What a pruning of the host leaves.                                      *)
LEMMA PruneLeavesFew ==
    ASSUME TypeOK, Stamped, env' = env, target' = target, owner' = owner,
           Cascade(Prunable(target))
    PROVE  Surplus'
<1> SUFFICES ASSUME env.retention > 0 PROVE Cardinality(Counted') <= env.retention
  BY DEF Surplus
<1> DEFINE T == {x \in Present(target) : Cardinality(Newer(x, target)) < env.retention}
<1>1. env.retention \in Nat
  BY EnvType DEF TypeOK
<1>2. \A x \in Scans : Cardinality(Newer(x, target)) \in Nat
  <2> TAKE x \in Scans
  <2>1. Newer(x, target) \in SUBSET Scans
    BY DEF Newer, Present
  <2> QED BY <2>1, ScansAssumption, FS_Subset, FS_CardinalityType
<1>3. Counted' \subseteq T
  <2>1. \A x \in Scans : row'[x] = "present" <=> row[x] = "present" /\ x \notin Prunable(target)
    BY PrunableType, CascadeEffect
  <2> QED BY <1>1, <1>2, <2>1 DEF Counted, Present, Prunable
<1>4. \A x, y \in T : at[x] = at[y] => x = y
  BY DEF Present, Stamped
<1>5. Cardinality(T) <= env.retention
  BY <1>1, <1>4, KeptAreFew
<1>6. IsFiniteSet(T) /\ T \in SUBSET Scans
  <2>1. T \in SUBSET Scans
    BY DEF Present
  <2> QED BY <2>1, ScansAssumption, FS_Subset
<1>7. Cardinality(Counted') <= Cardinality(T)
  BY <1>3, <1>6, FS_Subset
<1>8. Cardinality(T) \in Nat /\ Cardinality(Counted') \in Nat
  BY <1>6, CountedFinite, FS_CardinalityType
<1> QED
  BY <1>1, <1>5, <1>7, <1>8

LEMMA SurplusStep == Inv0 /\ Surplus /\ Next => Surplus'
<1> SUFFICES ASSUME Inv0, Surplus, Next PROVE Surplus'
  OBVIOUS
<1>0. TypeOK /\ RefsResolve /\ Progress /\ Deleting /\ Stamped /\ Surplus
  BY DEF Inv0
<1>1. ASSUME NEW s \in Scans, UpsertTarget(s) PROVE Surplus'
  <2>1. CASE target = 0
    <3>1. \A x \in Scans : row'[x] # "present"
      BY <1>0, <2>1, <1>1 DEF UpsertTarget, RefsResolve
    <3> QED BY <1>0, <3>1, <1>1, NoneCounted DEF UpsertTarget
  <2>2. CASE target # 0
    <3>1. /\ pc[s] = "scan" /\ pc' = [pc EXCEPT ![s] = "read"]
          /\ UNCHANGED <<env, target, row, owner, prunes, unpruned>>
      BY <2>2, <1>1 DEF UpsertTarget, lost
    <3>2. Counted' \subseteq Counted
      BY <1>0, <3>1 DEF Counted, Present, TypeOK
    <3> QED BY <1>0, <3>1, <3>2, FewerCounted
  <2> QED BY <2>1, <2>2
<1>2. ASSUME NEW s \in Scans, ReadPrevious(s) PROVE Surplus'
  <2>1. /\ pc[s] = "read" /\ pc' = [pc EXCEPT ![s] = "write"]
        /\ UNCHANGED <<env, target, row, owner, prunes, unpruned>>
    BY <1>2 DEF ReadPrevious, db, lost
  <2>2. Counted' \subseteq Counted
    BY <1>0, <2>1 DEF Counted, Present, TypeOK
  <2> QED BY <1>0, <2>1, <2>2, FewerCounted
<1>3. ASSUME NEW s \in Scans, TouchPrevious(s) PROVE Surplus'
  <2>1. /\ pc' = [pc EXCEPT ![s] = "blob"]
        /\ UNCHANGED <<env, target, row, owner, prunes, unpruned>>
    BY <1>3 DEF TouchPrevious, db, lost
  <2>2. Counted' \subseteq Counted
    BY <1>0, <2>1 DEF Counted, Present, TypeOK
  <2> QED BY <1>0, <2>1, <2>2, FewerCounted
<1>4. ASSUME NEW s \in Scans, InsertSnapshot(s) PROVE Surplus'
  <2>1. /\ row[s] = "absent" /\ pc[s] = "write"
        /\ UNCHANGED <<env, target, prunes, unpruned>>
    BY <1>0, <1>4 DEF InsertSnapshot, Progress
  <2>2. Counted' \subseteq Counted
    <3>1. CASE target = tid[s]
      BY <1>0, <2>1, <3>1, <1>4 DEF InsertSnapshot, Counted, Present, TypeOK
    <3>2. CASE target # tid[s]
      BY <1>0, <2>1, <3>2, <1>4 DEF InsertSnapshot, PersistFails, Counted, Present, TypeOK
    <3> QED BY <3>1, <3>2
  <2> QED BY <1>0, <2>1, <2>2, FewerCounted
<1>5. ASSUME NEW s \in Scans, StoreBlob(s) PROVE Surplus'
  <2>1. UNCHANGED <<env, target, row, owner>>
    BY <1>5 DEF StoreBlob
  <2>2. /\ pc' \in {[pc EXCEPT ![s] = "complete"], [pc EXCEPT ![s] = "done"]}
        /\ prunes \subseteq prunes' /\ unpruned \subseteq unpruned'
        /\ s \in prunes' \cup unpruned'
    BY <1>5 DEF StoreBlob, PersistFails, lost
  <2>3. Counted' \subseteq Counted
    BY <1>0, <2>1, <2>2 DEF Counted, Present, TypeOK
  <2> QED BY <1>0, <2>1, <2>3, FewerCounted
<1>6. ASSUME NEW s \in Scans, MarkCompleted(s) PROVE Surplus'
  <2>1. /\ pc[s] = "complete" /\ pc' = [pc EXCEPT ![s] = "done"]
        /\ UNCHANGED <<env, target, row, owner, prunes, unpruned>>
    BY <1>6 DEF MarkCompleted
  <2>2. Counted' \subseteq Counted
    BY <1>0, <2>1 DEF Counted, Present, TypeOK
  <2> QED BY <1>0, <2>1, <2>2, FewerCounted
<1>7. ASSUME NEW s \in Scans, PruneTargetSnapshots(s) PROVE Surplus'
  <2>1. /\ Cascade(Prunable(tid[s])) /\ prunes' = prunes \ {s}
        /\ UNCHANGED <<env, target, owner, pc, tid>>
    BY <1>7 DEF PruneTargetSnapshots, locals
  <2>2. \A x \in Scans : row'[x] = "present" => row[x] = "present"
    BY <1>0, <2>1, PrunableType, CascadeEffect
  <2>3. CASE tid[s] = target
    BY <1>0, <2>1, <2>3, PruneLeavesFew
  <2>4. CASE tid[s] # target
    <3>1. s \notin Present(target) /\ unpruned' = unpruned
      BY <1>0, <2>4, <1>7 DEF PruneTargetSnapshots, Progress, Present
    <3>2. Counted' \subseteq Counted
      BY <2>1, <2>2, <3>1 DEF Counted, Present
    <3> QED BY <1>0, <2>1, <3>2, FewerCounted
  <2> QED BY <2>3, <2>4
<1>8. ASSUME NEW s \in Scans, DeleteSnapshot(s) PROVE Surplus'
  <2>1. /\ Cascade({s}) /\ row[s] = "present"
        /\ UNCHANGED <<env, target, owner, pc, prunes, unpruned>>
    BY <1>8 DEF DeleteSnapshot, lost
  <2>2. \A x \in Scans : row'[x] = "present" => row[x] = "present"
    BY <1>0, <2>1, CascadeEffect
  <2>3. Counted' \subseteq Counted
    BY <2>1, <2>2 DEF Counted, Present
  <2> QED BY <1>0, <2>1, <2>3, FewerCounted
<1>9. ASSUME DeleteTargetJobs PROVE Surplus'
  <2>1. UNCHANGED <<env, target, row, owner, pc, prunes, unpruned>>
    BY <1>9 DEF DeleteTargetJobs, lost
  <2> QED BY <1>0, <2>1, FewerCounted DEF Counted, Present
<1>10. ASSUME DeleteTargetRow PROVE Surplus'
  <2>1. target = doomed /\ Cascade(Present(doomed)) /\ env' = env
    BY <1>0, <1>10 DEF DeleteTargetRow, Deleting
  <2>2. \A x \in Scans : row'[x] # "present"
    BY <1>0, <2>1, PresentType, CascadeEffect DEF Present, RefsResolve
  <2> QED BY <1>0, <2>1, <2>2, NoneCounted
<1>11. ASSUME CrashRestart PROVE Surplus'
  <2>1. /\ \A x \in Scans : pc[x] # "blob" => pc'[x] # "blob"
        /\ unpruned' = unpruned \cup prunes \cup {x \in Scans : pc[x] = "blob"}
        /\ UNCHANGED <<env, target, row, owner>>
    BY <1>11 DEF CrashRestart
  <2>2. Counted' \subseteq Counted
    BY <2>1 DEF Counted, Present
  <2> QED BY <1>0, <2>1, <2>2, FewerCounted
<1>12. ASSUME Finished PROVE Surplus'
  <2>1. UNCHANGED <<env, target, row, owner, pc, prunes, unpruned>>
    BY <1>12 DEF Finished, db, lost, vars
  <2> QED BY <1>0, <2>1, FewerCounted DEF Counted, Present
<1>13. ASSUME NEW s \in Scans, StatementFails(s) PROVE Surplus'
  <2>1. /\ pc' = [pc EXCEPT ![s] = "done"]
        /\ unpruned \subseteq unpruned' /\ (pc[s] = "blob" => s \in unpruned')
        /\ UNCHANGED <<env, target, row, owner, prunes>>
    BY <1>13 DEF StatementFails, PersistFails
  <2>2. Counted' \subseteq Counted
    BY <1>0, <2>1 DEF Counted, Present, TypeOK
  <2> QED BY <1>0, <2>1, <2>2, FewerCounted
<1>14. ASSUME NEW s \in Scans, PruneFails(s) PROVE Surplus'
  <2>1. /\ prunes' = prunes \ {s} /\ unpruned' = unpruned \cup {s}
        /\ UNCHANGED <<env, target, row, owner, pc>>
    BY <1>14 DEF PruneFails, db
  <2>2. Counted' \subseteq Counted
    BY <2>1 DEF Counted, Present
  <2> QED BY <1>0, <2>1, <2>2, FewerCounted
<1>15. ASSUME DeleteTargetFails PROVE Surplus'
  <2>1. UNCHANGED <<env, target, row, owner, pc, prunes, unpruned>>
    BY <1>15 DEF DeleteTargetFails, db, lost
  <2> QED BY <1>0, <2>1, FewerCounted DEF Counted, Present
<1> QED
  BY <1>1, <1>2, <1>3, <1>4, <1>5, <1>6, <1>7, <1>8, <1>9, <1>10, <1>11, <1>12, <1>13, <1>14,
     <1>15 DEF Next

-----------------------------------------------------------------------------
(* Scans that do not overlap.                                              *)

(* A pruning, for whichever scan, leaves the newest snapshot.              *)
LEMMA PruneKeeps ==
    ASSUME Inv0, NEW s \in Scans, PruneTargetSnapshots(s)
    PROVE  Newest(target)' = Newest(target)
<1>0. TypeOK /\ Stamped
  BY DEF Inv0
<1>1. Cascade(Prunable(tid[s])) /\ UNCHANGED <<env, target, owner, at>>
  BY DEF PruneTargetSnapshots
<1>2. \A x \in Scans : row'[x] = "present" <=> row[x] = "present" /\ x \notin Prunable(tid[s])
  BY <1>0, <1>1, PrunableType, CascadeEffect
<1>3. CASE Present(target) = {}
  <2>1. Present(target)' = {}
    BY <1>1, <1>2, <1>3 DEF Present
  <2> QED BY <1>3, <2>1 DEF Newest
<1>4. CASE Present(target) # {}
  <2>1. PICK n \in Present(target) : n = Newest(target) /\ Newer(n, target) = {}
    BY <1>0, <1>4, NewestType
  <2>2. n \notin Prunable(tid[s])
    <3>1. n \in Present(tid[s]) => tid[s] = target
      BY <2>1 DEF Present
    <3>2. Cardinality(Newer(n, target)) = 0 /\ env.retention \in Nat
      BY <1>0, <2>1, FS_EmptySet, EnvType DEF TypeOK
    <3> QED BY <3>1, <3>2 DEF Prunable
  <2>3. Present(target)' \subseteq Present(target) /\ n \in Present(target)'
    BY <1>1, <1>2, <2>1, <2>2 DEF Present
  <2>4. Newer(n, target)' = {}
    BY <1>1, <2>1, <2>3 DEF Newer
  <2>5. ASSUME NEW m \in Present(target)', Newer(m, target)' = {} PROVE m = n
    <3>1. ~ (at[n] > at[m]) /\ ~ (at[m] > at[n])
      BY <1>1, <2>1, <2>3, <2>5 DEF Newer
    <3>2. m \in Scans /\ n \in Scans /\ at[n] \in Nat /\ at[m] \in Nat
      BY <1>0, <2>3 DEF Present, TypeOK
    <3>3. at[n] = at[m]
      BY <3>1, <3>2
    <3>4. stamp[n] = stamp[m] /\ stamp[n] # 0
      BY <1>0, <2>3, <3>2, <3>3 DEF Stamped, Present
    <3> QED BY <1>0, <3>2, <3>4 DEF Stamped
  <2>6. Newest(target)' = n
    BY <2>3, <2>4, <2>5 DEF Newest
  <2> QED BY <2>1, <2>6
<1> QED BY <1>3, <1>4

(* While the scans of the host persist one after the other and nobody      *)
(* deletes, the one that persists works on the newest snapshot: it was     *)
(* read as the previous one, and it is the one the scan completes with.    *)
AloneThen ==
    /\ doomed = 0
    /\ \A s \in Scans :
         /\ pc[s] \in InStore => tid[s] = target
         /\ pc[s] = "write" => prev[s] = Newest(target) /\ stamp[s] = clock
         /\ pc[s] \in {"blob", "complete"} => out[s] = Newest(target)
         /\ pc[s] = "done" /\ job[s] = "running" => s \in unrecorded
    /\ \A s, x \in Scans : pc[s] \in InStore /\ pc[x] \in InStore => s = x

Alone == Sequential => AloneThen

LEMMA NewestStutter ==
    UNCHANGED <<target, row, owner, at>> => Newest(target)' = Newest(target)
  BY DEF Newest, Present, Newer

(* The snapshot just inserted is the newest.                               *)
LEMMA InsertedIsNewest ==
    ASSUME Inv0, NEW s \in Scans, InsertSnapshot(s), target = tid[s], stamp[s] = clock
    PROVE  Newest(target)' = s
<1>0. TypeOK /\ Progress /\ Stamped
  BY DEF Inv0
<1>1. /\ row' = [row EXCEPT ![s] = "present"] /\ owner' = [owner EXCEPT ![s] = tid[s]]
      /\ at' = [at EXCEPT ![s] = stamp[s]] /\ UNCHANGED <<target, stamp, clock>>
  BY DEF InsertSnapshot
<1>2. s \in Present(target)'
  BY <1>0, <1>1 DEF Present, TypeOK
<1>3. ASSUME NEW x \in Present(target)', x # s
      PROVE  x \in Scans /\ at'[x] < at'[s]
  <2>1. x \in Scans /\ row[x] = "present" /\ at'[x] = at[x] /\ at'[s] = clock
    BY <1>0, <1>1, <1>3 DEF Present, TypeOK
  <2>2. at[x] = stamp[x] /\ stamp[x] # 0 /\ stamp[x] <= clock /\ stamp[x] # clock
    BY <1>0, <1>3, <2>1 DEF Stamped
  <2> QED BY <1>0, <2>1, <2>2 DEF TypeOK
<1>4. \A x \in Scans : at'[x] \in Nat
  BY <1>0, <1>1 DEF TypeOK
<1>5. Newer(s, target)' = {}
  <2>1. ~ \E x \in Present(target)' : at'[x] > at'[s]
    BY <1>3, <1>4
  <2> QED BY <2>1 DEF Newer
<1>6. ASSUME NEW m \in Present(target)', Newer(m, target)' = {} PROVE m = s
  BY <1>2, <1>3, <1>4, <1>6 DEF Newer
<1> QED
  BY <1>2, <1>5, <1>6 DEF Newest

(* What the scan completes with is still there.                            *)
LEMMA OutIsPresent ==
    ASSUME Inv0, Alone, Sequential, NEW s \in Scans, pc[s] \in {"blob", "complete"}
    PROVE  row[out[s]] = "present"
<1>1. TypeOK /\ Stamped /\ out[s] \in Scans /\ out[s] = Newest(target)
  BY DEF Inv0, Progress, Alone, AloneThen, InStore
<1>2. Newest(target) \in Present(target)
  BY <1>1, NewestType, ScansAssumption
<1> QED
  BY <1>1, <1>2 DEF Present

LEMMA EnvConstant == Next => env' = env
<1> SUFFICES ASSUME Next PROVE env' = env
  OBVIOUS
<1>1. ASSUME NEW s \in Scans,
             \/ UpsertTarget(s) \/ ReadPrevious(s) \/ TouchPrevious(s) \/ InsertSnapshot(s)
             \/ StoreBlob(s) \/ MarkCompleted(s) \/ PruneTargetSnapshots(s) \/ DeleteSnapshot(s)
             \/ StatementFails(s) \/ PruneFails(s)
      PROVE  env' = env
  BY <1>1 DEF UpsertTarget, ReadPrevious, TouchPrevious, InsertSnapshot, StoreBlob,
              MarkCompleted, PruneTargetSnapshots, DeleteSnapshot, StatementFails, PruneFails
<1>2. ASSUME \/ DeleteTargetJobs \/ DeleteTargetRow \/ DeleteTargetFails
             \/ CrashRestart \/ Finished
      PROVE  env' = env
  BY <1>2 DEF DeleteTargetJobs, DeleteTargetRow, DeleteTargetFails, CrashRestart, Finished, vars
<1> QED
  BY <1>1, <1>2 DEF Next

LEMMA AloneStep == Inv0 /\ Alone /\ Next => Alone'
<1> SUFFICES ASSUME Inv0, Alone, Next, Sequential PROVE AloneThen'
  BY EnvConstant DEF Alone, Sequential
<1>0. TypeOK /\ Progress /\ Stamped /\ AloneThen
  BY DEF Inv0, Alone
<1> USE DEF AloneThen
<1>1. ASSUME NEW s \in Scans, UpsertTarget(s) PROVE AloneThen'
  <2>1. {x \in Scans : pc[x] \in InStore} = {}
    <3> DEFINE P == {x \in Scans : pc[x] \in InStore}
    <3>1. IsFiniteSet(P)
      BY ScansAssumption, FS_Subset
    <3>2. Cardinality(P) \in Nat /\ Cardinality(P) < 1
      BY <3>1, <1>1, FS_CardinalityType DEF UpsertTarget, MayPersist, Sequential
    <3>3. Cardinality(P) = 0
      BY <3>2
    <3> QED BY <3>1, <3>3, FS_EmptySet
  <2>2. /\ tid' = [tid EXCEPT ![s] = target'] /\ pc' = [pc EXCEPT ![s] = "read"]
        /\ job' = [job EXCEPT ![s] = "running"] /\ UNCHANGED <<doomed, unrecorded>>
    BY <1>1 DEF UpsertTarget, lost
  <2> QED BY <1>0, <2>1, <2>2 DEF TypeOK, InStore
<1>2. ASSUME NEW s \in Scans, ReadPrevious(s) PROVE AloneThen'
  <2>1. /\ pc[s] = "read" /\ prev' = [prev EXCEPT ![s] = Newest(target)]
        /\ clock' = clock + 1 /\ stamp' = [stamp EXCEPT ![s] = clock'] /\ pc' = [pc EXCEPT ![s] = "write"]
        /\ UNCHANGED <<doomed, tid, target, job, out, unrecorded>>
    BY <1>0, <1>2 DEF ReadPrevious, db, locals, lost, InStore
  <2>2. Newest(target)' = Newest(target)
    BY <1>2, NewestStutter DEF ReadPrevious, db
  <2>3. \A x \in Scans : pc'[x] = "write" => x = s
    BY <1>0, <2>1 DEF TypeOK, InStore
  <2> QED BY <1>0, <2>1, <2>2, <2>3 DEF TypeOK, InStore
<1>3. ASSUME NEW s \in Scans, TouchPrevious(s) PROVE AloneThen'
  <2>1. /\ pc[s] = "write" /\ pc' = [pc EXCEPT ![s] = "blob"] /\ out' = [out EXCEPT ![s] = prev[s]]
        /\ UNCHANGED <<doomed, tid, target, job, prev, stamp, clock, unrecorded>>
    BY <1>3 DEF TouchPrevious, db, lost
  <2>2. Newest(target)' = Newest(target)
    BY <1>3, NewestStutter DEF TouchPrevious, db
  <2> QED BY <1>0, <2>1, <2>2 DEF TypeOK, InStore
<1>4. ASSUME NEW s \in Scans, InsertSnapshot(s) PROVE AloneThen'
  <2>1. /\ pc[s] = "write" /\ target = tid[s] /\ stamp[s] = clock
        /\ out' = [out EXCEPT ![s] = s] /\ pc' = [pc EXCEPT ![s] = "blob"]
        /\ UNCHANGED <<doomed, tid, target, job, prev, stamp, clock, unrecorded>>
    BY <1>0, <1>4 DEF InsertSnapshot, InStore
  <2>2. Newest(target)' = s
    BY <1>4, <2>1, InsertedIsNewest
  <2>3. \A x \in Scans : pc[x] \in InStore => x = s
    BY <1>0, <2>1 DEF InStore
  <2> QED BY <1>0, <2>1, <2>2, <2>3 DEF TypeOK, InStore
<1>5. ASSUME NEW s \in Scans, StoreBlob(s) PROVE AloneThen'
  <2>1. pc[s] = "blob"
    BY <1>5 DEF StoreBlob
  <2>2. row[out[s]] = "present"
    BY <2>1, OutIsPresent
  <2>3. /\ pc' = [pc EXCEPT ![s] = "complete"]
        /\ UNCHANGED <<doomed, tid, target, job, prev, stamp, clock, out, unrecorded>>
    BY <2>2, <1>5 DEF StoreBlob, locals, lost
  <2>4. Newest(target)' = Newest(target)
    BY <1>5, NewestStutter DEF StoreBlob
  <2> QED BY <1>0, <2>1, <2>3, <2>4 DEF TypeOK, InStore
<1>6. ASSUME NEW s \in Scans, MarkCompleted(s) PROVE AloneThen'
  <2>1. pc[s] = "complete"
    BY <1>6 DEF MarkCompleted
  <2>2. row[out[s]] = "present" /\ target = tid[s]
    BY <1>0, <2>1, OutIsPresent DEF InStore
  <2>3. /\ pc' = [pc EXCEPT ![s] = "done"]
        /\ \/ job' = [job EXCEPT ![s] = "completed"] /\ UNCHANGED unrecorded
           \/ job' = [job EXCEPT ![s] = "running"] /\ unrecorded' = unrecorded \cup {s}
        /\ UNCHANGED <<doomed, tid, target, prev, stamp, clock, out>>
    BY <2>2, <1>6 DEF MarkCompleted, Unrecorded, locals
  <2>4. Newest(target)' = Newest(target)
    BY <1>6, NewestStutter DEF MarkCompleted
  <2> QED BY <1>0, <2>1, <2>3, <2>4 DEF TypeOK, InStore
<1>7. ASSUME NEW s \in Scans, PruneTargetSnapshots(s) PROVE AloneThen'
  <2>1. UNCHANGED <<doomed, tid, target, prev, stamp, clock, out, pc, job, unrecorded>>
    BY <1>7 DEF PruneTargetSnapshots, locals
  <2>2. Newest(target)' = Newest(target)
    BY <1>7, PruneKeeps
  <2> QED BY <1>0, <2>1, <2>2
<1>8. ASSUME NEW s \in Scans, DeleteSnapshot(s) PROVE AloneThen'
  BY <1>8 DEF DeleteSnapshot, Sequential
<1>9. ASSUME DeleteTargetJobs PROVE AloneThen'
  BY <1>9 DEF DeleteTargetJobs, Sequential
<1>10. ASSUME DeleteTargetRow PROVE AloneThen'
  BY <1>0, <1>10 DEF DeleteTargetRow
<1>11. ASSUME CrashRestart PROVE AloneThen'
  <2>1. /\ doomed' = 0 /\ pc' = [x \in Scans |-> IF pc[x] \in InStore THEN "done" ELSE pc[x]]
        /\ job' = [x \in Scans |-> IF job[x] = "running" THEN "failed" ELSE job[x]]
    BY <1>11 DEF CrashRestart
  <2>2. \A x \in Scans : pc'[x] \notin InStore /\ job'[x] # "running"
    BY <2>1 DEF InStore
  <2> QED BY <2>1, <2>2 DEF InStore
<1>12. ASSUME Finished PROVE AloneThen'
  <2>1. UNCHANGED <<doomed, tid, target, prev, stamp, clock, out, pc, job, unrecorded>>
    BY <1>12 DEF Finished, vars, db, locals, lost
  <2>2. Newest(target)' = Newest(target)
    BY <1>12, NewestStutter DEF Finished, vars, db
  <2> QED BY <1>0, <2>1, <2>2
<1>13. ASSUME NEW s \in Scans, StatementFails(s) PROVE AloneThen'
  <2>1. /\ pc' = [pc EXCEPT ![s] = "done"]
        /\ \/ job' = [job EXCEPT ![s] = "failed"] /\ UNCHANGED unrecorded
           \/ job' = [job EXCEPT ![s] = "running"] /\ unrecorded' = unrecorded \cup {s}
        /\ UNCHANGED <<doomed, tid, target, prev, stamp, clock, out>>
    BY <1>13 DEF StatementFails, PersistFails, Unrecorded, locals
  <2>2. Newest(target)' = Newest(target)
    BY <1>13, NewestStutter DEF StatementFails
  <2> QED BY <1>0, <2>1, <2>2 DEF TypeOK, InStore
<1>14. ASSUME NEW s \in Scans, PruneFails(s) PROVE AloneThen'
  <2>1. UNCHANGED <<doomed, tid, target, prev, stamp, clock, out, pc, job, unrecorded>>
    BY <1>14 DEF PruneFails, db, locals
  <2>2. Newest(target)' = Newest(target)
    BY <1>14, NewestStutter DEF PruneFails, db
  <2> QED BY <1>0, <2>1, <2>2
<1>15. ASSUME DeleteTargetFails PROVE AloneThen'
  BY <1>0, <1>15 DEF DeleteTargetFails
<1> QED
  BY <1>1, <1>2, <1>3, <1>4, <1>5, <1>6, <1>7, <1>8, <1>9, <1>10, <1>11, <1>12, <1>13, <1>14,
     <1>15 DEF Next

-----------------------------------------------------------------------------
(* The theorems.                                                           *)
LEMMA InvStutter == IInv /\ UNCHANGED vars => IInv'
<1> SUFFICES ASSUME IInv, UNCHANGED vars PROVE IInv'
  OBVIOUS
<1>1. TypeOK' /\ RefsResolve' /\ Progress' /\ Deleting' /\ Stamped' /\ Settled'
  BY DEF IInv, Inv0, TypeOK, RefsResolve, Progress, Deleting, Stamped, Settled, vars, db, locals,
         lost
<1>2. Surplus'
  BY DEF IInv, Surplus, Counted, Present, vars, db, locals, lost
<1> QED
  BY <1>1, <1>2 DEF IInv, Inv0

LEMMA InvStep == IInv /\ [Next]_vars => IInv'
<1>1. IInv /\ Next => IInv'
  BY TypeStep, RefsStep, ProgressStep, DeletingStep, StampedStep, SettledStep,
     SurplusStep DEF IInv, Inv0
<1> QED
  BY <1>1, InvStutter

LEMMA Invariance == Spec => []IInv
  BY InitInv, InvStep, PTL DEF Spec

(* The foreign keys of snapshots, blobs and scan jobs resolve and agree in *)
(* any interleaving of PersistScan, pruning, deletions and crashes.        *)
THEOREM ReferencesResolve == Spec => []RefsResolve
<1>1. IInv => RefsResolve
  BY DEF IInv, Inv0
<1> QED
  BY <1>1, Invariance, PTL

(* With no pruning outstanding, the host keeps no more snapshots than      *)
(* retention_max_snapshots and those of scans whose pruning was lost, to a *)
(* failed DELETE, an error return of PersistScan or a crash, since one     *)
(* last succeeded; for any limit and any number of overlapping scans.      *)
THEOREM RetentionKept == Spec => []RetentionHolds
<1>1. IInv => RetentionHolds
  <2> SUFFICES ASSUME IInv, env.retention > 0, prunes = {}, \A s \in Scans : pc[s] # "blob"
               PROVE  Cardinality(Present(target) \ unpruned) <= env.retention
    BY DEF RetentionHolds
  <2>1. Counted = Present(target) \ unpruned
    BY DEF Counted, Present
  <2> QED BY <2>1 DEF IInv, Surplus
<1> QED
  BY <1>1, Invariance, PTL

(* PruneTargetSnapshots leaves the newest snapshot of the host where it    *)
(* is, however late it runs and for whichever scan.                        *)
THEOREM NewestOutlivesPruning == Spec => PruneKeepsNewest
<1>1. IInv /\ [Next]_vars
        => [prunes' # prunes /\ prunes' \subseteq prunes /\ pc' = pc
              => Newest(target)' = Newest(target)]_vars
  <2> SUFFICES ASSUME IInv, Next, prunes' # prunes, prunes' \subseteq prunes, pc' = pc
               PROVE  Newest(target)' = Newest(target)
    OBVIOUS
  <2>0. Inv0 /\ TypeOK
    BY DEF IInv, Inv0
  <2>1. ASSUME UNCHANGED <<target, row, owner, at>>
        PROVE  Newest(target)' = Newest(target)
    BY <2>1 DEF Newest, Present, Newer
  <2>2. ASSUME NEW s \in Scans, StoreBlob(s) PROVE FALSE
    BY <2>0, <2>2 DEF StoreBlob, PersistFails, TypeOK
  <2>3. CASE CrashRestart \/ \E s \in Scans : PruneFails(s)
    BY <2>1, <2>3 DEF CrashRestart, PruneFails, db
  <2>4. ASSUME NEW s \in Scans,
               \/ UpsertTarget(s) \/ ReadPrevious(s) \/ TouchPrevious(s)
               \/ InsertSnapshot(s) \/ MarkCompleted(s) \/ DeleteSnapshot(s)
               \/ StatementFails(s)
        PROVE  FALSE
    BY <2>4 DEF UpsertTarget, ReadPrevious, TouchPrevious, InsertSnapshot, MarkCompleted,
                DeleteSnapshot, StatementFails
  <2>5. ~ (DeleteTargetJobs \/ DeleteTargetRow \/ DeleteTargetFails \/ Finished)
    BY DEF DeleteTargetJobs, DeleteTargetRow, DeleteTargetFails, Finished, vars
  <2> QED
    BY <2>0, <2>2, <2>3, <2>4, <2>5, PruneKeeps DEF Next
<1> QED
  BY <1>1, Invariance, PTL DEF Spec, PruneKeepsNewest

LEMMA AloneInvariance == Spec => []Alone
<1>1. Init => Alone
  BY DEF Init, Alone, AloneThen, InStore
<1>2. IInv /\ Alone /\ [Next]_vars => Alone'
  <2>1. Alone /\ UNCHANGED vars => Alone'
    <3> SUFFICES ASSUME Alone, UNCHANGED vars PROVE Alone'
      OBVIOUS
    <3>1. UNCHANGED <<env, target, row, owner, at, job, clock, pc, tid, prev, stamp, out, doomed,
                      unrecorded>>
      BY DEF vars, db, locals, lost
    <3>2. Newest(target)' = Newest(target)
      BY <3>1, NewestStutter
    <3>3. Sequential' <=> Sequential
      BY <3>1 DEF Sequential
    <3>4. AloneThen => AloneThen'
      BY <3>1, <3>2 DEF AloneThen
    <3> QED BY <3>3, <3>4 DEF Alone
  <2> QED BY <2>1, AloneStep DEF IInv
<1> QED
  BY <1>1, <1>2, Invariance, PTL DEF Spec

(* A scan that is over leaves its job running only when the UPDATE that    *)
(* records its end failed by itself, or was refused for what had gone; and *)
(* not refused when the scans of a host do not overlap and nobody deletes: *)
(* the snapshot PersistScan returns is then the newest, which pruning      *)
(* spares, so the last UPDATE of runJob finds both of its references.      *)
THEOREM ScansEndTheirJobs == Spec => []JobsEnd
<1>1. IInv /\ Alone => JobsEnd
  BY DEF IInv, Inv0, Settled, Alone, AloneThen, JobsEnd
<1> QED
  BY <1>1, Invariance, AloneInvariance, PTL

(* The changes stored with a snapshot compare it with the newest one of    *)
(* the host at the moment it is inserted, when the scans of a host do not  *)
(* overlap and nobody deletes, whatever pruning does between the reading   *)
(* and the writing.                                                        *)
THEOREM ChangesCompareNewest == Spec => ChangesVersusPrevious
<1>1. IInv /\ Alone /\ [Next]_vars
        => [Sequential => \A s \in Scans : Inserted(s) => base'[s] = Newest(tid[s])]_vars
  <2> SUFFICES ASSUME IInv, Alone, Next, Sequential, NEW s \in Scans, Inserted(s)
               PROVE  base'[s] = Newest(tid[s])
    OBVIOUS
  <2>0. Inv0 /\ TypeOK /\ AloneThen
    BY DEF IInv, Inv0, Alone
  <2>1. ASSUME NEW x \in Scans, InsertSnapshot(x) PROVE x = s
    BY <2>0, <2>1 DEF InsertSnapshot, Inserted, TypeOK
  <2>2. CASE InsertSnapshot(s)
    BY <2>0, <2>2 DEF InsertSnapshot, Inserted, TypeOK, AloneThen, InStore
  <2>3. ASSUME UNCHANGED row PROVE FALSE
    BY <2>3 DEF Inserted
  <2>4. ASSUME NEW D, Cascade(D) PROVE FALSE
    BY <2>0, <2>4 DEF Cascade, Inserted
  <2> QED
    BY <2>1, <2>2, <2>3, <2>4
       DEF Next, UpsertTarget, ReadPrevious, TouchPrevious, StoreBlob, MarkCompleted,
           PruneTargetSnapshots, DeleteSnapshot, DeleteTargetJobs, DeleteTargetRow, CrashRestart,
           StatementFails, PruneFails, DeleteTargetFails, Finished, vars, db
<1> QED
  BY <1>1, AloneInvariance, Invariance, PTL DEF Spec, ChangesVersusPrevious
=============================================================================
