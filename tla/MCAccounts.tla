----------------------------- MODULE MCAccounts -----------------------------
(* Two users and two tabs; wrong codes, and passkeys.                      *)
EXTENDS Accounts, TLC

CONSTANTS u1, u2, k1, k2, h1, h2, q1, q2

AllScenarios == {{"guesses"}, {"passkeys"}, {"guesses", "devices"}}
Symmetry == Permutations(Tabs) \cup Permutations(Tokens) \cup Permutations(Challenges)
=============================================================================
