------------------------------ MODULE MCPwhois ------------------------------
(* Two snapshots, each from a public address or from one that may be       *)
(* private, or no address at all when the scheduler asked for the scan.    *)
EXTENDS Pwhois

CONSTANTS s1, s2, pub, other
=============================================================================
