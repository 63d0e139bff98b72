------------------------------- MODULE Settings -------------------------------
(***************************************************************************)
(* The settings: kept in memory by internal/config, where every part of    *)
(* the program reads them, and in a row of the table settings, from which  *)
(* they are read when the process starts and with every GET.               *)
(*                                                                         *)
(* Of the fields two are modelled.  The alert rules stand for those that   *)
(* normalizeSettings gives a default when they are empty, and that are     *)
(* always part of the JSON.  The key stands for the six secrets: it is     *)
(* masked in answers, a masked one is replaced by the current one in       *)
(* updates, and an empty one is left out of the JSON.                      *)
(*                                                                         *)
(* Each access to the memory takes the lock for itself, so that the steps  *)
(* of requests interleave.                                                 *)
(***************************************************************************)
EXTENDS Naturals, FiniteSets

CONSTANTS Requests,      \* the requests for settings that run at once
          RuleSets,      \* the alert rules that clients store: sets of rules
          DefaultRules,  \* defaultAlertRules
          Keys,          \* secrets, none of them empty or masked
          none           \* no row

ASSUME SettingsAssumption ==
    /\ DefaultRules # {}
    /\ Keys \cap {"", "masked"} = {}
    /\ none \notin [rules : RuleSets \cup {DefaultRules}, key : Keys \cup {""}]

VARIABLES memory,   \* GlobalSettings
          row,      \* the row app_settings
          request,  \* the requests in progress
          typed     \* the secrets that clients type, which do not change

settingsVars == <<memory, row, request, typed>>

SettingsValues == [rules : RuleSets \cup {DefaultRules}, key : Keys \cup {""}]

idle == [at |-> "idle", val |-> none, alone |-> FALSE]

RequestStates ==
    [at : {"idle", "selected", "overlaid", "merged", "kept", "reread", "stored"},
     val : SettingsValues \cup {none}, alone : BOOLEAN]

SettingsTypeOK ==
    /\ memory \in SettingsValues
    /\ row \in SettingsValues \cup {none}
    /\ request \in [Requests -> RequestStates]
    /\ typed \subseteq Keys \cup {""}

-----------------------------------------------------------------------------
(* normalizeSettings: what is empty gets its default.                      *)
normalizeSettings(s) == [s EXCEPT !.rules = IF @ = {} THEN DefaultRules ELSE @]

(* Variant: a masked secret empties the secret.                            *)
mergeSecretBlank(incoming, current) == IF incoming = "masked" THEN "" ELSE incoming

(* mergeSecret: a secret with asterisks is the one that was shown.         *)
mergeSecret(incoming, current) == IF incoming = "masked" THEN current ELSE incoming

(* json.Unmarshal over a copy of the memory: what the row leaves out stays.*)
overlay(copy, stored) == [stored EXCEPT !.key = IF @ = "" THEN copy.key ELSE @]

(* The program starts: from the row, or from the defaults.                 *)
loaded == IF row = none THEN [rules |-> DefaultRules, key |-> ""] ELSE normalizeSettings(row)

(* A request begins.  It is alone while no other is in progress.           *)
Begin(q, at, val) ==
    /\ request[q].at = "idle"
    /\ request' = [x \in Requests |->
                    IF x = q
                    THEN [at |-> at, val |-> val,
                          alone |-> \A y \in Requests \ {q} : request[y].at = "idle"]
                    ELSE [request[x] EXCEPT !.alone = FALSE]]

Goes(q, from, at, val) ==
    /\ request[q].at = from
    /\ request' = [request EXCEPT ![q].at = at, ![q].val = val]

Ends(q, from) ==
    /\ request[q].at = from
    /\ request' = [request EXCEPT ![q] = idle]

-----------------------------------------------------------------------------
(* getSettings selects the row; an error is as no row.                     *)
GetSelect(q) == /\ Begin(q, "selected", row) \/ Begin(q, "selected", none)
                /\ UNCHANGED <<memory, row, typed>>

GetCopy(q) == /\ request[q].val # none
              /\ Goes(q, "selected", "overlaid", overlay(memory, request[q].val))
              /\ UNCHANGED <<memory, row, typed>>

GetWithoutRow(q) == /\ request[q].val = none
                    /\ Ends(q, "selected")
                    /\ UNCHANGED <<memory, row, typed>>

(* Variant: a GET leaves the memory as it is.                              *)
GetAnswerOnly(q) == /\ Ends(q, "overlaid")
                    /\ UNCHANGED <<memory, row, typed>>

(* What was read goes back into the memory.                                *)
GetUpdate(q) == /\ Ends(q, "overlaid")
                /\ memory' = normalizeSettings(request[q].val)
                /\ UNCHANGED <<row, typed>>

(* updateSettings merges the secrets of the body with the current ones ... *)
PutMerge(q) == /\ \E rules \in RuleSets, key \in typed \cup {"masked"} :
                    Begin(q, "merged", [rules |-> rules, key |-> mergeSecret(key, memory.key)])
               /\ UNCHANGED <<memory, row, typed>>

(* ... puts the result into memory ...                                     *)
PutMemory(q) == /\ Goes(q, "merged", "kept", request[q].val)
                /\ memory' = normalizeSettings(request[q].val)
                /\ UNCHANGED <<row, typed>>

(* ... reads it back, normalised and perhaps another's ...                 *)
PutReread(q) == /\ Goes(q, "kept", "reread", memory)
                /\ UNCHANGED <<memory, row, typed>>

(* ... stores it ...                                                       *)
PutStore(q) == /\ Goes(q, "reread", "stored", request[q].val)
               /\ row' = request[q].val
               /\ UNCHANGED <<memory, typed>>

(* ... or fails to, with the memory changed ...                            *)
PutStoreFails(q) == /\ Ends(q, "reread")
                    /\ UNCHANGED <<memory, row, typed>>

(* ... and puts it into memory once more.                                  *)
PutAgain(q) == /\ Ends(q, "stored")
               /\ memory' = normalizeSettings(request[q].val)
               /\ UNCHANGED <<row, typed>>

(* An import replaces the row by one of an export, and the memory stays.   *)
ImportSettings ==
    /\ \E rules \in RuleSets \ {{}}, key \in typed : row' = [rules |-> rules, key |-> key]
    /\ request' = [q \in Requests |-> [request[q] EXCEPT !.alone = FALSE]]
    /\ UNCHANGED <<memory, typed>>

(* The process ends and starts again.                                      *)
ReloadSettings == /\ memory' = loaded
                  /\ request' = [q \in Requests |-> idle]
                  /\ UNCHANGED <<row, typed>>

SettingsInit == /\ row \in SettingsValues \cup {none}
                /\ typed \in SUBSET (Keys \cup {""})
                /\ memory = loaded
                /\ row # none => row.rules # {}
                /\ request = [q \in Requests |-> idle]

SettingsStep(q) ==
    \/ GetSelect(q) \/ GetCopy(q) \/ GetWithoutRow(q) \/ GetUpdate(q)
    \/ PutMerge(q) \/ PutMemory(q) \/ PutReread(q) \/ PutStore(q) \/ PutStoreFails(q)
    \/ PutAgain(q)

-----------------------------------------------------------------------------
(* What memory and row agree on when the row, read again, changes nothing. *)
Agree(m, r) == r # none => m = normalizeSettings(overlay(m, r))

(* Requests that overlap, writes that fail and imports may leave memory    *)
(* and row apart (updateSettings changes the memory first, getSettings     *)
(* writes an old row over it); but the next request that runs alone, GET   *)
(* or PUT, and succeeds, brings them together again.                       *)
LoneRequestsAgree ==
    [][\A q \in Requests :
         request[q].alone /\ request[q].at \in {"overlaid", "stored"} /\ request'[q].at = "idle"
           => Agree(memory', row')]_settingsVars

(* As long as nobody types a secret, the secret stays in memory and row:   *)
(* no order of GETs, of PUTs that send back the masked one, of failures    *)
(* and of restarts loses it or stores the mask (maskSecret, mergeSecret).  *)
SecretsSurvive ==
    [][typed = {} => memory'.key = memory.key /\ (row # none => row'.key = row.key)]_settingsVars
=============================================================================
