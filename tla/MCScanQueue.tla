---------------------------- MODULE MCScanQueue ----------------------------
(* Two rows of two hosts.                                                  *)
EXTENDS ScanQueue, TLC

CONSTANTS j1, j2, h1, h2

MCJobs == {j1, j2}
MCHosts == {h1, h2}
MCHostOf == j1 :> h1 @@ j2 :> h2
=============================================================================
