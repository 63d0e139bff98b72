-------------------------- MODULE MCSnapshotStore --------------------------
(* Instances of SnapshotStore: the first two scans find the same content   *)
(* unless all differ, the third another, the fourth the first again.       *)
EXTENDS SnapshotStore, TLC

CONSTANTS s1, s2, s3, s4

Some      == s1 :> "A" @@ s2 :> "A" @@ s3 :> "B" @@ s4 :> "A"
Different == s1 :> "A" @@ s2 :> "B" @@ s3 :> "C" @@ s4 :> "D"

Everything == [scans |-> {s1, s3}, found |-> Some, atOnce |-> 2, retention |-> 1,
               events |-> {"deleteSnapshot", "deleteTarget", "crash", "fault"}]
NoFault    == [scans |-> {s1, s2, s3}, found |-> Some, atOnce |-> 2, retention |-> 1,
               events |-> {"deleteSnapshot", "deleteTarget", "crash"}]
NoCrash    == [scans |-> {s1, s2, s3}, found |-> Different, atOnce |-> 2, retention |-> 2,
               events |-> {"deleteSnapshot", "deleteTarget"}]
Faults     == [scans |-> {s1, s2, s3}, found |-> Some, atOnce |-> 2, retention |-> 1,
               events |-> {"deleteTarget", "crash", "fault"}]
InOrder    == [scans |-> Scans, found |-> Some, atOnce |-> 1, retention |-> 2,
               events |-> {"crash", "fault"}]
Growing    == [scans |-> {s1, s2, s3}, found |-> Different, atOnce |-> 1, retention |-> 1,
               events |-> {"crash", "fault"}]
NoLimit    == [scans |-> {s1, s2, s3}, found |-> Some, atOnce |-> 3, retention |-> 0,
               events |-> {"deleteTarget"}]

AllScenarios == {Everything, NoFault, NoCrash, Faults, InOrder, Growing, NoLimit}
Thumbs == {s1, s3}
=============================================================================
