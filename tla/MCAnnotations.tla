--------------------------- MODULE MCAnnotations ---------------------------
(* Two snapshots of one target and none of the other; notes and views      *)
(* against deletions, and collections with their rescans.                  *)
EXTENDS Annotations, TLC

CONSTANTS t1, t2, s1, s2

TwoOfOne == s1 :> t1 @@ s2 :> t1
SecondNewer(u, s) == u = s2 /\ s = s1
AllScenarios == {{"notes", "views"}, {"collections", "rescans"}}
=============================================================================
