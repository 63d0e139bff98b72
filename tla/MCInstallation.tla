--------------------------- MODULE MCInstallation ---------------------------
(* An installation: its users signing in, or an export taken to another.   *)
(* The two share no state, and a behaviour is of one of them.              *)
EXTENDS MCAccounts, MCTransfer

VARIABLE part  \* which of the two this behaviour is about

InitInstallation ==
    \/ /\ part = "accounts" /\ Init
       /\ src = Bare /\ dst = Blank /\ conflict = "skip" /\ TransferInit
    \/ /\ part = "transfer" /\ TransferInit
       /\ InitEmpty /\ Init

NextInstallation ==
    \/ part = "accounts" /\ Next /\ UNCHANGED <<part, transferVars>>
    \/ part = "transfer" /\ TransferNext /\ UNCHANGED <<part, vars>>

SpecInstallation == InitInstallation /\ [][NextInstallation]_<<part, vars, transferVars>>
=============================================================================
