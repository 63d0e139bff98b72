---- MODULE MCTransfer ----
(* Instances of Transfer: s1, c1 and so on are ids of rows; t1 and t3 are  *)
(* the targets two installations keep for one host.                        *)
EXTENDS Transfer, TLC

MCHostOf == "t1" :> "a.net" @@ "t2" :> "b.net" @@ "t3" :> "a.net"

Snap(t, from) == [target |-> t, from |-> from]
Note(t, s, c, from) == [target |-> t, snapshot |-> s, collection |-> c, from |-> from]
View(name, t, s, from) == [name |-> name, target |-> t, snapshot |-> s, from |-> from]

Source ==
    [targets |-> {"t1"}, snapshots |-> "s1" :> Snap("t1", "here"), blobs |-> {"s1"},
     collections |-> "c1" :> 1 @@ "c2" :> 2, members |-> {<<"c1", "t1">>},
     notes |-> "n1" :> Note("t1", "s1", "c1", "here"),
     views |-> "v1" :> View("main", "t1", "s1", "here"), config |-> "here"]
Bare == [Source EXCEPT !.notes = <<>>, !.views = <<>>, !.config = "none"]

(* Installations with the same rows from an earlier import, with rows of   *)
(* their own for the same host and names, and with renamed collections.    *)
Copied == [Source EXCEPT !.snapshots = "s1" :> Snap("t1", "there"),
                         !.notes = "n1" :> Note(NoRef, NoRef, NoRef, "there"),
                         !.views = "v1" :> View("main", "t1", NoRef, "there"),
                         !.blobs = {}, !.members = {}, !.config = "there"]
Own == [targets |-> {"t2", "t3"}, snapshots |-> "s3" :> Snap("t3", "there"), blobs |-> {"s3"},
        collections |-> "c3" :> 1, members |-> {<<"c3", "t2">>},
        notes |-> "n3" :> Note("t3", "s3", "c3", "there"),
        views |-> "v3" :> View("other", "t3", "s3", "there"), config |-> "there"]
Taken == [Own EXCEPT !.views = "v3" :> View("main", "t3", "s3", "there")]
Renamed == [Copied EXCEPT !.collections = "c1" :> 2]
Swapped == [Copied EXCEPT !.collections = "c1" :> 2 @@ "c2" :> 1]
Moved   == [Copied EXCEPT !.collections = "c2" :> 1]

(* A scan of a new host with a note about it, one of the same host, and a  *)
(* member.                                                                 *)
NewScan == [Blank EXCEPT !.targets = {"t2"}, !.snapshots = "s2" :> Snap("t2", "here"), !.blobs = {"s2"}]
NewNote == [NewScan EXCEPT !.notes = "n2" :> Note("t2", "s2", NoRef, "here")]
Rescan  == [Blank EXCEPT !.targets = {"t1"}, !.snapshots = "s4" :> Snap("t1", "here")]
Member  == [Blank EXCEPT !.targets = {"t2"}, !.members = {<<"c2", "t2">>}]

MCSources == {Source, Bare}
MCDestinations == {Blank, Copied, Own, Taken, Renamed, Swapped, Moved}
MCLater == {NewScan, NewNote, Rescan, Member}
====
