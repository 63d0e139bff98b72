--------------------------- MODULE MCReportQueue ---------------------------
(* Small instances of ReportQueue: a report that waits for the enrichment  *)
(* of its snapshot and one that does not, for two snapshots.               *)
EXTENDS ReportQueue, TLC

CONSTANTS r1, r2, s1, s2

MCReports == {r1, r2}
MCSnapshots == {s1, s2}
MCSnapshotOf == r1 :> s1 @@ r2 :> s2
MCWaitFor == {r1}
=============================================================================
