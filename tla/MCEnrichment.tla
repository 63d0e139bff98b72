---- MODULE MCEnrichment ----
(* Instances of Enrichment.                                                *)
EXTENDS Enrichment

CONSTANTS g1, g2, g3

Everything == [runs |-> {g1, g2}, atOnce |-> 2, upto |-> 2, events |-> EventKinds]
NoLoss     == [runs |-> {g1, g2}, atOnce |-> 2, upto |-> 2, events |-> {"rescan", "delete", "providerError"}]
Repeated   == [runs |-> {g1, g2, g3}, atOnce |-> 3, upto |-> 1,
               events |-> {"rescan", "delete", "providerError"}]
InOrder    == [runs |-> {g1, g2, g3}, atOnce |-> 1, upto |-> 3, events |-> {"providerError"}]
CutOff     == [runs |-> {g1, g2, g3}, atOnce |-> 1, upto |-> 3, events |-> {"crash"}]
Repeats    == [runs |-> {g1, g2, g3}, atOnce |-> 1, upto |-> 2,
               events |-> {"rescan", "providerError", "crash"}]
Overlap    == [runs |-> {g1, g2}, atOnce |-> 2, upto |-> 2, events |-> {}]

AllScenarios == {Everything, NoLoss, Repeated, InOrder, CutOff, Repeats}
OnlyOverlap  == {Overlap}
====
