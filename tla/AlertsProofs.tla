---------------------------- MODULE AlertsProofs ----------------------------
(***************************************************************************)
(* That settings keep their secrets and come together again in memory and  *)
(* row, that no entry of change_details is a false alarm, and that whoever *)
(* follows the entries knows the target, for any settings, requests,       *)
(* webhooks and raw data.                                                  *)
(***************************************************************************)
EXTENDS Alerts, TLAPS

-----------------------------------------------------------------------------
(* The settings.                                                           *)

(* What a request that is alone has read is what is there, and a request   *)
(* that has got to the memory or the row carries settings.                 *)
LoneInv ==
    \A q \in Requests :
        /\ request[q].at \notin {"idle", "selected"} => request[q].val # none
        /\ request[q].alone =>
            /\ \A y \in Requests \ {q} : request[y].at = "idle"
            /\ request[q].at = "selected" => request[q].val \in {row, none}
            /\ request[q].at = "overlaid" => row # none /\ request[q].val = overlay(memory, row)
            /\ request[q].at = "stored" => request[q].val = row

(* While nobody types a secret there is but one: in memory, in the row and *)
(* in whatever a request carries.                                          *)
KeysAgree ==
    typed = {} =>
        /\ row = none => memory.key = ""
        /\ row # none => row.key = memory.key
        /\ \A q \in Requests : request[q].val # none => request[q].val.key = memory.key

SettingsInv == SettingsTypeOK /\ LoneInv /\ KeysAgree

(* The operators on settings.                                              *)
LEMMA Fields ==
    ASSUME NEW A, NEW B, NEW s \in [rules : A, key : B], NEW x
    PROVE  /\ s = [rules |-> s.rules, key |-> s.key] /\ s.rules \in A /\ s.key \in B
           /\ [s EXCEPT !.rules = x] = [rules |-> x, key |-> s.key]
           /\ [s EXCEPT !.key = x] = [rules |-> s.rules, key |-> x]
<1>1. s = [rules |-> s.rules, key |-> s.key] /\ s.rules \in A /\ s.key \in B
  OBVIOUS
<1>2. [s EXCEPT !.rules = x] = [rules |-> x, key |-> s.key]
  OBVIOUS
<1>3. [s EXCEPT !.key = x] = [rules |-> s.rules, key |-> x]
  OBVIOUS
<1> QED
  BY <1>1, <1>2, <1>3

LEMMA Valid ==
    ASSUME NEW rules \in RuleSets \cup {DefaultRules}, NEW key \in Keys \cup {""}
    PROVE  /\ [rules |-> rules, key |-> key] \in SettingsValues
           /\ [rules |-> rules, key |-> key] # none
<1>1. [rules |-> rules, key |-> key] \in SettingsValues
  BY DEF SettingsValues
<1>2. none \notin SettingsValues
  BY SettingsAssumption DEF SettingsValues
<1> QED
  BY <1>1, <1>2

LEMMA Normalized ==
    ASSUME NEW s \in SettingsValues
    PROVE  /\ normalizeSettings(s) \in SettingsValues
           /\ normalizeSettings(s).key = s.key
           /\ normalizeSettings(s) =
                [rules |-> IF s.rules = {} THEN DefaultRules ELSE s.rules, key |-> s.key]
<1> DEFINE rules == IF s.rules = {} THEN DefaultRules ELSE s.rules
<1>1. s.rules \in RuleSets \cup {DefaultRules} /\ s.key \in Keys \cup {""}
  BY DEF SettingsValues
<1>2. normalizeSettings(s) = [s EXCEPT !.rules = rules]
  BY DEF normalizeSettings
<1>3. rules \in RuleSets \cup {DefaultRules}
  BY <1>1
<1>4. normalizeSettings(s) = [rules |-> rules, key |-> s.key]
  <2> HIDE DEF rules
  <2> QED BY <1>2, Fields DEF SettingsValues
<1>5. [rules |-> rules, key |-> s.key] \in SettingsValues
  <2> HIDE DEF rules
  <2> QED BY <1>1, <1>3, Valid
<1> QED
  BY <1>4, <1>5

LEMMA Overlaid ==
    ASSUME NEW m \in SettingsValues, NEW r \in SettingsValues
    PROVE  /\ overlay(m, r) \in SettingsValues
           /\ overlay(m, r) = [rules |-> r.rules, key |-> IF r.key = "" THEN m.key ELSE r.key]
<1> DEFINE key == IF r.key = "" THEN m.key ELSE r.key
<1>1. r.rules \in RuleSets \cup {DefaultRules} /\ key \in Keys \cup {""}
  BY DEF SettingsValues
<1>2. overlay(m, r) = [r EXCEPT !.key = key]
  BY DEF overlay
<1>3. overlay(m, r) = [rules |-> r.rules, key |-> key]
  <2> HIDE DEF key
  <2> QED BY <1>2, Fields DEF SettingsValues
<1>4. [rules |-> r.rules, key |-> key] \in SettingsValues
  <2> HIDE DEF key
  <2> QED BY <1>1, Valid
<1> QED
  BY <1>3, <1>4

(* The row read again after it was put into the memory changes nothing.    *)
LEMMA OverlaidAgrees ==
    ASSUME NEW m \in SettingsValues, NEW r \in SettingsValues
    PROVE  Agree(normalizeSettings(overlay(m, r)), r)
<1> DEFINE o == overlay(m, r)
           n == normalizeSettings(o)
<1>1. o \in SettingsValues /\ o = [rules |-> r.rules, key |-> IF r.key = "" THEN m.key ELSE r.key]
  BY Overlaid
<1>2. /\ n \in SettingsValues
      /\ n = [rules |-> IF o.rules = {} THEN DefaultRules ELSE o.rules, key |-> o.key]
  BY <1>1, Normalized
<1>3. overlay(n, r) = [rules |-> r.rules, key |-> IF r.key = "" THEN n.key ELSE r.key]
  BY <1>2, Overlaid
<1>4. n.key = o.key /\ o.key = (IF r.key = "" THEN m.key ELSE r.key)
  <2> HIDE DEF o, n
  <2> QED BY <1>1, <1>2
<1>5. overlay(n, r) = o
  <2> HIDE DEF o, n
  <2> QED BY <1>1, <1>3, <1>4
<1> QED
  BY <1>5 DEF Agree

LEMMA StoredAgrees ==
    ASSUME NEW r \in SettingsValues
    PROVE  Agree(normalizeSettings(r), r)
<1> DEFINE n == normalizeSettings(r)
<1>1. n \in SettingsValues /\ n.key = r.key
  BY Normalized
<1>2. overlay(n, r) = [rules |-> r.rules, key |-> IF r.key = "" THEN n.key ELSE r.key]
  BY <1>1, Overlaid
<1>3. n.key = r.key /\ r = [rules |-> r.rules, key |-> r.key]
  BY <1>1, Fields DEF SettingsValues
<1>4. overlay(n, r) = r
  <2> HIDE DEF n
  <2> QED BY <1>2, <1>3
<1> QED
  BY <1>4 DEF Agree

LEMMA Loaded ==
    ASSUME row \in SettingsValues \cup {none}
    PROVE  /\ loaded \in SettingsValues
           /\ row = none => loaded.key = ""
           /\ row # none => loaded.key = row.key
<1>1. CASE row = none
  BY <1>1 DEF loaded, SettingsValues
<1>2. CASE row # none
  BY <1>2, Normalized DEF loaded
<1> QED
  BY <1>1, <1>2

LEMMA StateFields ==
    ASSUME NEW A, NEW B, NEW s \in [at : A, val : B, alone : BOOLEAN], NEW c \in BOOLEAN
    PROVE  [at |-> s.at, val |-> s.val, alone |-> c] \in [at : A, val : B, alone : BOOLEAN]
  OBVIOUS

LEMMA Overtaken ==
    ASSUME NEW s \in RequestStates
    PROVE  [at |-> s.at, val |-> s.val, alone |-> FALSE] \in RequestStates
  BY StateFields DEF RequestStates

(* What the steps of a request do to the requests.                         *)
LEMMA BeginEffect ==
    ASSUME SettingsTypeOK, NEW q \in Requests, NEW at, NEW val, Begin(q, at, val),
           at \in {"selected", "merged"}, val \in SettingsValues \cup {none}
    PROVE  /\ request' \in [Requests -> RequestStates]
           /\ request'[q].at = at /\ request'[q].val = val
           /\ request'[q].alone => \A y \in Requests \ {q} : request[y].at = "idle"
           /\ \A y \in Requests \ {q} : /\ request'[y].at = request[y].at
                                        /\ request'[y].val = request[y].val
                                        /\ ~request'[y].alone
<1> DEFINE others == \A y \in Requests \ {q} : request[y].at = "idle"
<1>1. /\ request'[q] = [at |-> at, val |-> val, alone |-> others]
      /\ request' = [y \in Requests |-> request'[y]]
  BY DEF Begin
<1>2. ASSUME NEW y \in Requests \ {q}
      PROVE  request'[y] = [at |-> request[y].at, val |-> request[y].val, alone |-> FALSE]
  <2>1. request'[y] = [request[y] EXCEPT !.alone = FALSE]
    BY DEF Begin
  <2>2. request[y] \in RequestStates
    BY DEF SettingsTypeOK
  <2> QED BY <2>1, <2>2 DEF RequestStates
<1>3. others \in BOOLEAN
  OBVIOUS
<1>4. request'[q] \in RequestStates
  <2> HIDE DEF others
  <2> QED BY <1>1, <1>3 DEF RequestStates
<1>5. ASSUME NEW y \in Requests \ {q} PROVE request'[y] \in RequestStates
  <2>1. request[y] \in RequestStates
    BY DEF SettingsTypeOK
  <2> QED BY <1>2, <2>1, Overtaken
<1>6. request' \in [Requests -> RequestStates]
  <2>1. \A y \in Requests : request'[y] \in RequestStates
    BY <1>4, <1>5
  <2> QED BY <1>1, <2>1
<1>7. request'[q].at = at /\ request'[q].val = val
  BY <1>1
<1>8. request'[q].alone = others
  BY <1>1
<1> QED
  BY <1>2, <1>6, <1>7, <1>8

LEMMA GoesEffect ==
    ASSUME SettingsTypeOK, NEW q \in Requests, NEW from, NEW at, NEW val, Goes(q, from, at, val),
           at \in {"overlaid", "kept", "reread", "stored"}, val \in SettingsValues \cup {none}
    PROVE  /\ request' \in [Requests -> RequestStates]
           /\ request[q].at = from
           /\ request'[q].at = at /\ request'[q].val = val
           /\ request'[q].alone = request[q].alone
           /\ \A y \in Requests \ {q} : request'[y] = request[y]
<1>1. request[q] \in RequestStates /\ request \in [Requests -> RequestStates]
  BY DEF SettingsTypeOK
<1>2. request'[q] = [at |-> at, val |-> val, alone |-> request[q].alone]
  BY <1>1 DEF Goes, RequestStates
<1>3. \A y \in Requests \ {q} : request'[y] = request[y]
  BY <1>1 DEF Goes
<1>4. request'[q] \in RequestStates
  BY <1>1, <1>2 DEF RequestStates
<1>5. request' = [y \in Requests |-> request'[y]]
  BY <1>1 DEF Goes
<1>6. request' \in [Requests -> RequestStates]
  BY <1>1, <1>3, <1>4, <1>5
<1> QED
  BY <1>2, <1>3, <1>6 DEF Goes

LEMMA IdleType == idle \in RequestStates /\ idle.at = "idle" /\ idle.val = none /\ ~idle.alone
  BY DEF idle, RequestStates

LEMMA EndsEffect ==
    ASSUME SettingsTypeOK, NEW q \in Requests, NEW from, Ends(q, from)
    PROVE  /\ request' \in [Requests -> RequestStates]
           /\ request[q].at = from
           /\ request'[q] = idle
           /\ \A y \in Requests \ {q} : request'[y] = request[y]
<1>1. request \in [Requests -> RequestStates]
  BY DEF SettingsTypeOK
<1> QED
  BY <1>1, IdleType DEF Ends

(* Who is in progress keeps the others from being alone.                   *)
LEMMA NoneAlone ==
    ASSUME LoneInv, NEW q \in Requests, request[q].at # "idle"
    PROVE  \A y \in Requests \ {q} : ~request[y].alone
  BY DEF LoneInv

(* What a request carries that has got past the row.                       *)
LEMMA Carried ==
    ASSUME SettingsInv, NEW q \in Requests
    PROVE  /\ request[q].val \in SettingsValues \cup {none}
           /\ request[q].at \notin {"idle", "selected"} => request[q].val \in SettingsValues
  BY DEF SettingsInv, SettingsTypeOK, RequestStates, LoneInv

(* What a PUT begins with.                                                 *)
LEMMA Merged ==
    ASSUME SettingsInv, NEW rules \in RuleSets, NEW key \in typed \cup {"masked"}
    PROVE  LET s == [rules |-> rules, key |-> mergeSecret(key, memory.key)]
           IN  s \in SettingsValues /\ s # none /\ (typed = {} => s.key = memory.key)
<1> DEFINE new == mergeSecret(key, memory.key)
<1>1. memory.key \in Keys \cup {""} /\ typed \subseteq Keys \cup {""}
  BY DEF SettingsInv, SettingsTypeOK, SettingsValues
<1>2. new \in Keys \cup {""} /\ (typed = {} => new = memory.key)
  BY <1>1 DEF mergeSecret
<1> HIDE DEF new
<1>3. [rules |-> rules, key |-> new] \in SettingsValues /\ [rules |-> rules, key |-> new] # none
  BY <1>2, Valid
<1> QED
  BY <1>2, <1>3 DEF new

LEMMA SettingsTypeStep ==
    ASSUME SettingsInv, NEW q \in Requests, SettingsStep(q)
    PROVE  SettingsTypeOK'
<1>t. SettingsTypeOK
  BY DEF SettingsInv
<1>v. /\ memory \in SettingsValues /\ row \in SettingsValues \cup {none}
      /\ typed \subseteq Keys \cup {""}
  BY <1>t DEF SettingsTypeOK
<1>c. /\ request[q].val \in SettingsValues \cup {none}
      /\ request[q].at \notin {"idle", "selected"} => request[q].val \in SettingsValues
  BY Carried
<1>n. \A s \in SettingsValues : normalizeSettings(s) \in SettingsValues
  BY Normalized
<1>1. CASE GetSelect(q)
  <2>1. request' \in [Requests -> RequestStates]
    BY <1>1, <1>t, <1>v, BeginEffect DEF GetSelect
  <2> QED BY <1>1, <1>v, <2>1 DEF GetSelect, SettingsTypeOK
<1>2. CASE GetCopy(q)
  <2>1. overlay(memory, request[q].val) \in SettingsValues
    BY <1>2, <1>c, <1>v, Overlaid DEF GetCopy
  <2>2. request' \in [Requests -> RequestStates]
    BY <1>2, <1>t, <2>1, GoesEffect DEF GetCopy
  <2> QED BY <1>2, <1>v, <2>2 DEF GetCopy, SettingsTypeOK
<1>3. CASE GetWithoutRow(q)
  <2>1. request' \in [Requests -> RequestStates]
    BY <1>3, <1>t, EndsEffect DEF GetWithoutRow
  <2> QED BY <1>3, <1>v, <2>1 DEF GetWithoutRow, SettingsTypeOK
<1>4. CASE GetUpdate(q)
  <2>1. request' \in [Requests -> RequestStates] /\ request[q].at = "overlaid"
    BY <1>4, <1>t, EndsEffect DEF GetUpdate
  <2>2. memory' \in SettingsValues
    BY <1>4, <2>1, <1>c, <1>n DEF GetUpdate
  <2> QED BY <1>4, <1>v, <2>1, <2>2 DEF GetUpdate, SettingsTypeOK
<1>5. CASE PutMerge(q)
  <2>1. PICK rules \in RuleSets, key \in typed \cup {"masked"} :
          Begin(q, "merged", [rules |-> rules, key |-> mergeSecret(key, memory.key)])
    BY <1>5 DEF PutMerge
  <2>2. [rules |-> rules, key |-> mergeSecret(key, memory.key)] \in SettingsValues
    BY Merged
  <2>3. request' \in [Requests -> RequestStates]
    BY <2>1, <1>t, <2>2, BeginEffect
  <2> QED BY <1>5, <1>v, <2>3 DEF PutMerge, SettingsTypeOK
<1>6. CASE PutMemory(q)
  <2>1. request' \in [Requests -> RequestStates] /\ request[q].at = "merged"
    BY <1>6, <1>t, <1>c, GoesEffect DEF PutMemory
  <2>2. memory' \in SettingsValues
    BY <1>6, <2>1, <1>c, <1>n DEF PutMemory
  <2> QED BY <1>6, <1>v, <2>1, <2>2 DEF PutMemory, SettingsTypeOK
<1>7. CASE PutReread(q)
  <2>1. request' \in [Requests -> RequestStates]
    BY <1>7, <1>t, <1>v, GoesEffect DEF PutReread
  <2> QED BY <1>7, <1>v, <2>1 DEF PutReread, SettingsTypeOK
<1>8. CASE PutStore(q)
  <2>1. request' \in [Requests -> RequestStates]
    BY <1>8, <1>t, <1>c, GoesEffect DEF PutStore
  <2> QED BY <1>8, <1>v, <1>c, <2>1 DEF PutStore, SettingsTypeOK
<1>9. CASE PutStoreFails(q)
  <2>1. request' \in [Requests -> RequestStates]
    BY <1>9, <1>t, EndsEffect DEF PutStoreFails
  <2> QED BY <1>9, <1>v, <2>1 DEF PutStoreFails, SettingsTypeOK
<1>10. CASE PutAgain(q)
  <2>1. request' \in [Requests -> RequestStates] /\ request[q].at = "stored"
    BY <1>10, <1>t, EndsEffect DEF PutAgain
  <2>2. memory' \in SettingsValues
    BY <1>10, <2>1, <1>c, <1>n DEF PutAgain
  <2> QED BY <1>10, <1>v, <2>1, <2>2 DEF PutAgain, SettingsTypeOK
<1> QED
  BY <1>1, <1>2, <1>3, <1>4, <1>5, <1>6, <1>7, <1>8, <1>9, <1>10 DEF SettingsStep

(* What LoneInv asks of one request, after a step.                         *)
LEMMA LoneStep ==
    ASSUME SettingsInv, NEW q \in Requests, SettingsStep(q)
    PROVE  LoneInv'
<1>t. SettingsTypeOK /\ LoneInv
  BY DEF SettingsInv
<1>v. memory \in SettingsValues /\ row \in SettingsValues \cup {none}
  BY <1>t DEF SettingsTypeOK
<1>i. \A y \in Requests : request[y].at \notin {"idle", "selected"} => request[y].val # none
  BY <1>t DEF LoneInv
<1>c. /\ request[q].val \in SettingsValues \cup {none}
      /\ request[q].at \notin {"idle", "selected"} => request[q].val \in SettingsValues
  BY Carried
<1>s. \A s \in SettingsValues : s # none
  BY SettingsAssumption DEF SettingsValues
<1>b. ASSUME NEW at \in {"selected", "merged"}, NEW val \in SettingsValues \cup {none},
             Begin(q, at, val), at = "selected" => val \in {row, none},
             at = "merged" => val # none, UNCHANGED <<memory, row>>
      PROVE  LoneInv'
  <2>1. /\ request'[q].at = at /\ request'[q].val = val
        /\ request'[q].alone => \A y \in Requests \ {q} : request[y].at = "idle"
        /\ \A y \in Requests \ {q} : /\ request'[y].at = request[y].at
                                     /\ request'[y].val = request[y].val
                                     /\ ~request'[y].alone
    BY <1>b, <1>t, BeginEffect
  <2> QED BY <1>b, <1>i, <2>1 DEF LoneInv
<1>g. ASSUME NEW from, NEW at \in {"overlaid", "kept", "reread", "stored"},
             NEW val \in SettingsValues, Goes(q, from, at, val), from # "idle",
             request[q].alone /\ at = "overlaid" => row' # none /\ val = overlay(memory', row'),
             at = "stored" => val = row'
      PROVE  LoneInv'
  <2>1. /\ request[q].at = from /\ request'[q].at = at /\ request'[q].val = val
        /\ request'[q].alone = request[q].alone
        /\ \A y \in Requests \ {q} : request'[y] = request[y]
    BY <1>g, <1>t, GoesEffect
  <2>2. \A y \in Requests \ {q} : ~request[y].alone
    BY <1>g, <1>t, <2>1, NoneAlone
  <2>3. request[q].alone => \A y \in Requests \ {q} : request[y].at = "idle"
    BY <1>t DEF LoneInv
  <2> QED BY <1>g, <1>i, <1>s, <2>1, <2>2, <2>3 DEF LoneInv
<1>e. ASSUME NEW from, Ends(q, from), from # "idle"
      PROVE  LoneInv'
  <2>1. /\ request[q].at = from /\ request'[q] = idle
        /\ \A y \in Requests \ {q} : request'[y] = request[y]
    BY <1>e, <1>t, EndsEffect
  <2>2. \A y \in Requests \ {q} : ~request[y].alone
    BY <1>e, <1>t, <2>1, NoneAlone
  <2> QED BY <1>i, <2>1, <2>2, IdleType DEF LoneInv
<1>1. CASE GetSelect(q)
  BY <1>1, <1>b, <1>v DEF GetSelect
<1>2. CASE GetCopy(q)
  <2>1. /\ request[q].val \in SettingsValues /\ request[q].at = "selected"
        /\ overlay(memory, request[q].val) \in SettingsValues
        /\ UNCHANGED <<memory, row>>
    BY <1>2, <1>c, <1>v, Overlaid DEF GetCopy, Goes
  <2>2. request[q].alone => request[q].val = row
    BY <1>t, <1>2, <2>1 DEF LoneInv, GetCopy
  <2> QED BY <1>2, <1>g, <1>s, <2>1, <2>2 DEF GetCopy
<1>3. CASE GetWithoutRow(q)
  BY <1>3, <1>e DEF GetWithoutRow
<1>4. CASE GetUpdate(q)
  BY <1>4, <1>e DEF GetUpdate
<1>5. CASE PutMerge(q)
  <2>1. PICK rules \in RuleSets, key \in typed \cup {"masked"} :
          Begin(q, "merged", [rules |-> rules, key |-> mergeSecret(key, memory.key)])
    BY <1>5 DEF PutMerge
  <2>2. /\ [rules |-> rules, key |-> mergeSecret(key, memory.key)] \in SettingsValues
        /\ [rules |-> rules, key |-> mergeSecret(key, memory.key)] # none
    BY Merged
  <2> QED BY <1>5, <1>b, <2>1, <2>2 DEF PutMerge
<1>6. CASE PutMemory(q)
  BY <1>6, <1>c, <1>g DEF PutMemory, Goes
<1>7. CASE PutReread(q)
  BY <1>7, <1>v, <1>g DEF PutReread
<1>8. CASE PutStore(q)
  BY <1>8, <1>c, <1>g DEF PutStore, Goes
<1>9. CASE PutStoreFails(q)
  BY <1>9, <1>e DEF PutStoreFails
<1>10. CASE PutAgain(q)
  BY <1>10, <1>e DEF PutAgain
<1> QED
  BY <1>1, <1>2, <1>3, <1>4, <1>5, <1>6, <1>7, <1>8, <1>9, <1>10 DEF SettingsStep

(* Nobody types a secret: a step keeps the one in memory and the row's.    *)
LEMMA KeysStep ==
    ASSUME SettingsInv, NEW q \in Requests, SettingsStep(q)
    PROVE  /\ typed' = typed
           /\ typed = {} => memory'.key = memory.key /\ (row # none => row'.key = row.key)
           /\ KeysAgree'
<1>t. SettingsTypeOK /\ LoneInv /\ KeysAgree
  BY DEF SettingsInv
<1>v. memory \in SettingsValues /\ row \in SettingsValues \cup {none}
  BY <1>t DEF SettingsTypeOK
<1>c. /\ request[q].val \in SettingsValues \cup {none}
      /\ request[q].at \notin {"idle", "selected"} => request[q].val \in SettingsValues
  BY Carried
<1>s. \A s \in SettingsValues : s # none /\ normalizeSettings(s).key = s.key
  BY SettingsAssumption, Normalized DEF SettingsValues
<1>k. typed = {} => /\ row = none => memory.key = ""
                    /\ row # none => row.key = memory.key
                    /\ \A y \in Requests : request[y].val # none => request[y].val.key = memory.key
  BY <1>t DEF KeysAgree
<1>0. typed' = typed
  BY DEF SettingsStep, GetSelect, GetCopy, GetWithoutRow, GetUpdate, PutMerge, PutMemory,
         PutReread, PutStore, PutStoreFails, PutAgain
(* It is enough that what the step puts somewhere has the secret.          *)
<1>m. ASSUME typed = {} =>
                /\ memory'.key = memory.key
                /\ row' # row => row' # none /\ row'.key = memory.key
                /\ request'[q].val # none => request'[q].val.key = memory.key
                /\ \A y \in Requests \ {q} : request'[y].val = request[y].val
      PROVE  /\ typed = {} => memory'.key = memory.key /\ (row # none => row'.key = row.key)
             /\ KeysAgree'
  BY <1>m, <1>0, <1>k DEF KeysAgree
<1>b. ASSUME NEW at \in {"selected", "merged"}, NEW val \in SettingsValues \cup {none},
             Begin(q, at, val), typed = {} /\ val # none => val.key = memory.key,
             UNCHANGED <<memory, row>>
      PROVE  /\ typed = {} => memory'.key = memory.key /\ (row # none => row'.key = row.key)
             /\ KeysAgree'
  <2>1. /\ request'[q].val = val
        /\ \A y \in Requests \ {q} : request'[y].val = request[y].val
    BY <1>b, <1>t, BeginEffect
  <2> QED BY <1>b, <1>m, <2>1
<1>g. ASSUME NEW from, NEW at \in {"overlaid", "kept", "reread", "stored"},
             NEW val \in SettingsValues, Goes(q, from, at, val),
             typed = {} => /\ val.key = memory.key /\ memory'.key = memory.key
                           /\ row' # row => row' # none /\ row'.key = memory.key
      PROVE  /\ typed = {} => memory'.key = memory.key /\ (row # none => row'.key = row.key)
             /\ KeysAgree'
  <2>1. /\ request'[q].val = val
        /\ \A y \in Requests \ {q} : request'[y] = request[y]
    BY <1>g, <1>t, GoesEffect
  <2> QED BY <1>g, <1>m, <2>1
<1>e. ASSUME NEW from, Ends(q, from), row' = row, typed = {} => memory'.key = memory.key
      PROVE  /\ typed = {} => memory'.key = memory.key /\ (row # none => row'.key = row.key)
             /\ KeysAgree'
  <2>1. request'[q] = idle /\ \A y \in Requests \ {q} : request'[y] = request[y]
    BY <1>e, <1>t, EndsEffect
  <2> QED BY <1>e, <1>m, <2>1, IdleType
<1>1. CASE GetSelect(q)
  BY <1>1, <1>b, <1>k, <1>v DEF GetSelect
<1>2. CASE GetCopy(q)
  <2>1. request[q].val \in SettingsValues
    BY <1>2, <1>c DEF GetCopy
  <2>2. /\ overlay(memory, request[q].val) \in SettingsValues
        /\ overlay(memory, request[q].val) =
               [rules |-> request[q].val.rules,
                key |-> IF request[q].val.key = "" THEN memory.key ELSE request[q].val.key]
    BY <2>1, <1>v, Overlaid
  <2>3. typed = {} => overlay(memory, request[q].val).key = memory.key
    BY <2>1, <2>2, <1>k, <1>s
  <2> QED BY <1>2, <1>g, <2>2, <2>3 DEF GetCopy
<1>3. CASE GetWithoutRow(q)
  BY <1>3, <1>e DEF GetWithoutRow
<1>4. CASE GetUpdate(q)
  BY <1>4, <1>c, <1>e, <1>k, <1>s DEF GetUpdate, Ends
<1>5. CASE PutMerge(q)
  <2>1. PICK rules \in RuleSets, key \in typed \cup {"masked"} :
          Begin(q, "merged", [rules |-> rules, key |-> mergeSecret(key, memory.key)])
    BY <1>5 DEF PutMerge
  <2>2. LET s == [rules |-> rules, key |-> mergeSecret(key, memory.key)]
        IN  s \in SettingsValues /\ (typed = {} => s.key = memory.key)
    BY Merged
  <2> QED BY <1>5, <1>b, <2>1, <2>2 DEF PutMerge
<1>6. CASE PutMemory(q)
  BY <1>6, <1>c, <1>g, <1>k, <1>s DEF PutMemory, Goes
<1>7. CASE PutReread(q)
  BY <1>7, <1>v, <1>g DEF PutReread
<1>8. CASE PutStore(q)
  BY <1>8, <1>c, <1>g, <1>k, <1>s DEF PutStore, Goes
<1>9. CASE PutStoreFails(q)
  BY <1>9, <1>e DEF PutStoreFails
<1>10. CASE PutAgain(q)
  BY <1>10, <1>c, <1>e, <1>k, <1>s DEF PutAgain, Ends
<1>11. /\ typed = {} => memory'.key = memory.key /\ (row # none => row'.key = row.key)
       /\ KeysAgree'
  BY <1>1, <1>2, <1>3, <1>4, <1>5, <1>6, <1>7, <1>8, <1>9, <1>10 DEF SettingsStep
<1> QED
  BY <1>0, <1>11

LEMMA ImportStep ==
    ASSUME SettingsInv, ImportSettings
    PROVE  /\ SettingsInv'
           /\ typed = {} => memory'.key = memory.key /\ (row # none => row'.key = row.key)
           /\ \A q \in Requests : request'[q].at = request[q].at
<1>t. SettingsTypeOK /\ LoneInv /\ request \in [Requests -> RequestStates]
  BY DEF SettingsInv, SettingsTypeOK
<1>1. PICK rules \in RuleSets \ {{}}, key \in typed : row' = [rules |-> rules, key |-> key]
  BY DEF ImportSettings
<1>2. typed # {} /\ UNCHANGED <<memory, typed>>
  BY <1>1 DEF ImportSettings
<1>3. row' \in SettingsValues
  BY <1>1, <1>t, Valid DEF SettingsTypeOK
<1>4. ASSUME NEW q \in Requests
      PROVE  request'[q] = [at |-> request[q].at, val |-> request[q].val, alone |-> FALSE]
  <2>1. request'[q] = [request[q] EXCEPT !.alone = FALSE] /\ request[q] \in RequestStates
    BY <1>t DEF ImportSettings
  <2> QED BY <2>1 DEF RequestStates
<1>5. \A q \in Requests : request'[q] \in RequestStates
  BY <1>t, <1>4, Overtaken
<1>6. request' = [q \in Requests |-> request'[q]]
  BY DEF ImportSettings
<1>7. request' \in [Requests -> RequestStates]
  BY <1>5, <1>6
<1>8. SettingsTypeOK'
  BY <1>t, <1>2, <1>3, <1>7 DEF SettingsTypeOK
<1>9. ASSUME NEW q \in Requests
      PROVE  /\ request'[q].at = request[q].at
             /\ request'[q].val = request[q].val /\ ~request'[q].alone
  <2>1. request'[q] = [at |-> request[q].at, val |-> request[q].val, alone |-> FALSE]
    BY <1>4
  <2> QED BY <2>1
<1>10. LoneInv'
  BY <1>t, <1>9 DEF LoneInv
<1>11. KeysAgree'
  BY <1>2 DEF KeysAgree
<1> QED
  BY <1>2, <1>8, <1>9, <1>10, <1>11 DEF SettingsInv

LEMMA ReloadStep ==
    ASSUME SettingsInv, ReloadSettings
    PROVE  /\ SettingsInv'
           /\ typed = {} => memory'.key = memory.key /\ (row # none => row'.key = row.key)
           /\ Agree(memory', row')
<1>t. SettingsTypeOK /\ KeysAgree /\ row \in SettingsValues \cup {none}
  BY DEF SettingsInv, SettingsTypeOK
<1>1. /\ memory' = loaded /\ row' = row /\ typed' = typed
      /\ request' = [q \in Requests |-> idle]
  BY DEF ReloadSettings
<1>2. /\ loaded \in SettingsValues
      /\ row = none => loaded.key = ""
      /\ row # none => loaded.key = row.key
  BY <1>t, Loaded
<1>3. SettingsTypeOK'
  BY <1>t, <1>1, <1>2, IdleType DEF SettingsTypeOK
<1>4. LoneInv'
  BY <1>1, IdleType DEF LoneInv
<1>5. KeysAgree'
  BY <1>1, <1>2, IdleType DEF KeysAgree
<1>6. typed = {} => memory'.key = memory.key /\ (row # none => row'.key = row.key)
  BY <1>1, <1>2, <1>t DEF KeysAgree
<1>7. Agree(memory', row')
  <2>1. CASE row = none
    BY <1>1, <2>1 DEF Agree
  <2>2. CASE row # none
    BY <1>1, <1>t, <2>2, StoredAgrees DEF loaded
  <2> QED BY <2>1, <2>2
<1> QED
  BY <1>3, <1>4, <1>5, <1>6, <1>7 DEF SettingsInv

LEMMA SettingsStart ==
    ASSUME SettingsInit
    PROVE  SettingsInv
<1>1. row \in SettingsValues \cup {none} /\ memory = loaded /\ typed \subseteq Keys \cup {""}
  BY DEF SettingsInit
<1>2. request = [q \in Requests |-> idle]
  BY DEF SettingsInit
<1>3. /\ loaded \in SettingsValues
      /\ row = none => loaded.key = ""
      /\ row # none => loaded.key = row.key
  BY <1>1, Loaded
<1>4. SettingsTypeOK
  BY <1>1, <1>2, <1>3, IdleType DEF SettingsTypeOK
<1>5. LoneInv
  BY <1>2, IdleType DEF LoneInv
<1>6. KeysAgree
  BY <1>1, <1>2, <1>3, IdleType DEF KeysAgree
<1> QED
  BY <1>4, <1>5, <1>6 DEF SettingsInv

(* A request that ends alone has put into the memory what the row gives.   *)
LEMMA LoneEnds ==
    ASSUME SettingsInv, NEW p \in Requests, SettingsStep(p), NEW q \in Requests,
           request[q].alone, request[q].at \in {"overlaid", "stored"}, request'[q].at = "idle"
    PROVE  Agree(memory', row')
<1>t. /\ SettingsTypeOK /\ LoneInv /\ memory \in SettingsValues
      /\ row \in SettingsValues \cup {none}
  BY DEF SettingsInv, SettingsTypeOK
<1>1. /\ request[q].at = "overlaid" => row # none /\ request[q].val = overlay(memory, row)
      /\ request[q].at = "stored" => request[q].val = row
      /\ request[q].val \in SettingsValues
  BY <1>t, Carried DEF LoneInv
<1>2. CASE p = q /\ GetUpdate(q)
  <2>1. memory' = normalizeSettings(overlay(memory, row)) /\ row' = row /\ row # none
    BY <1>1, <1>2 DEF GetUpdate, Ends
  <2> QED BY <1>t, <2>1, OverlaidAgrees
<1>3. CASE p = q /\ PutAgain(q)
  <2>1. memory' = normalizeSettings(row) /\ row' = row /\ row \in SettingsValues
    BY <1>1, <1>3 DEF PutAgain, Ends
  <2> QED BY <2>1, StoredAgrees
<1>4. CASE p = q /\ ~GetUpdate(q) /\ ~PutAgain(q)
  BY <1>4 DEF SettingsStep, GetSelect, GetCopy, GetWithoutRow, PutMerge, PutMemory, PutReread,
              PutStore, PutStoreFails, Begin, Goes, Ends
<1>5. CASE p # q
  <2>1. request[p].at = "idle"
    BY <1>5, <1>t DEF LoneInv
  <2>2. \/ \E at \in {"selected", "merged"}, val \in SettingsValues \cup {none} : Begin(p, at, val)
    <3>1. CASE GetSelect(p)
      BY <1>t, <3>1 DEF GetSelect
    <3>2. CASE PutMerge(p)
      <4>1. PICK rules \in RuleSets, key \in typed \cup {"masked"} :
              Begin(p, "merged", [rules |-> rules, key |-> mergeSecret(key, memory.key)])
        BY <3>2 DEF PutMerge
      <4>2. [rules |-> rules, key |-> mergeSecret(key, memory.key)] \in SettingsValues
        BY Merged
      <4> QED BY <4>1, <4>2
    <3> QED
      BY <2>1, <3>1, <3>2 DEF SettingsStep, GetCopy, GetWithoutRow, GetUpdate, PutMemory,
         PutReread, PutStore, PutStoreFails, PutAgain, Goes, Ends
  <2>3. request'[q].at = request[q].at
    BY <1>5, <1>t, <2>2, BeginEffect
  <2> QED BY <2>3
<1> QED
  BY <1>2, <1>3, <1>4, <1>5

-----------------------------------------------------------------------------
(* The invariant of the alerts, and what Next leaves to Settings.          *)
AlertsInv == /\ case \in Cases
             /\ SettingsInv
             /\ newest \in case.finds \cup {noRaw}

LEMMA AlertsStart == ASSUME Init PROVE AlertsInv
  BY SettingsStart DEF Init, AlertsInv

(* What a step does to the settings.                                       *)
LEMMA SettingsPart ==
    ASSUME AlertsInv, [Next]_vars
    PROVE  \/ UNCHANGED settingsVars
           \/ \E q \in Requests : SettingsStep(q)
           \/ ImportSettings
           \/ ReloadSettings
<1>1. case.requests \subseteq Requests
  BY CasesAssumption DEF AlertsInv
<1>2. ASSUME NEW r, FirstScan(r) \/ Rescan(r) PROVE UNCHANGED settingsVars
  BY <1>2 DEF FirstScan, Rescan
<1>3. CASE Enriched
  BY <1>3 DEF Enriched
<1>4. ASSUME NEW d \in Slots, Work(d) \/ ReadHooksFails(d) PROVE UNCHANGED settingsVars
  BY <1>4 DEF Work, ReadHooks, FilterHook, ReadHooksFails
<1>5. ASSUME NEW m, Sent(m) PROVE UNCHANGED settingsVars
  BY <1>5 DEF Sent
<1>6. ASSUME NEW h, SetHook(h) PROVE UNCHANGED settingsVars
  BY <1>6 DEF SetHook
<1>7. ASSUME NEW q \in case.requests, Edit(q) PROVE \E p \in Requests : SettingsStep(p)
  BY <1>1, <1>7 DEF Edit
<1>8. CASE Import
  BY <1>8 DEF Import
<1>9. CASE Restart
  BY <1>9 DEF Restart
<1>10. CASE UNCHANGED vars
  BY <1>10 DEF vars
<1> QED
  BY <1>2, <1>3, <1>4, <1>5, <1>6, <1>7, <1>8, <1>9, <1>10 DEF Next

(* What a step does to the newest snapshot and its changes.                *)
LEMMA HistoryPart ==
    ASSUME [Next]_vars
    PROVE  /\ case' = case
           /\ newest' # newest => \E r \in case.finds :
                /\ newest' = r
                /\ newest # noRaw => newest # r /\ details' = Compute(newest, r)
<1>1. ASSUME NEW r \in case.finds, FirstScan(r)
      PROVE  case' = case /\ newest = noRaw /\ newest' = r
  BY <1>1 DEF FirstScan
<1>2. ASSUME NEW r \in case.finds, Rescan(r)
      PROVE  case' = case /\ newest # r /\ newest' = r /\ details' = Compute(newest, r)
  BY <1>2 DEF Rescan
<1>3. CASE Enriched
  BY <1>3 DEF Enriched
<1>4. ASSUME NEW d \in Slots, Work(d) \/ ReadHooksFails(d) PROVE UNCHANGED <<newest, case>>
  BY <1>4 DEF Work, ReadHooks, FilterHook, ReadHooksFails, history
<1>5. ASSUME NEW m, Sent(m) PROVE UNCHANGED <<newest, case>>
  BY <1>5 DEF Sent, history
<1>6. ASSUME NEW h, SetHook(h) PROVE UNCHANGED <<newest, case>>
  BY <1>6 DEF SetHook, history
<1>7. ASSUME NEW q, Edit(q) PROVE UNCHANGED <<newest, case>>
  BY <1>7 DEF Edit, history
<1>8. CASE Import
  BY <1>8 DEF Import, history
<1>9. CASE Restart
  BY <1>9 DEF Restart, history
<1>10. CASE UNCHANGED vars
  BY <1>10 DEF vars, history
<1> QED
  BY <1>1, <1>2, <1>3, <1>4, <1>5, <1>6, <1>7, <1>8, <1>9, <1>10 DEF Next

LEMMA AlertsStep == ASSUME AlertsInv, [Next]_vars PROVE AlertsInv'
<1>1. SettingsInv
  BY DEF AlertsInv
<1>2. ASSUME UNCHANGED settingsVars PROVE SettingsInv'
  BY <1>1, <1>2 DEF SettingsInv, SettingsTypeOK, LoneInv, KeysAgree, settingsVars
<1>3. ASSUME NEW q \in Requests, SettingsStep(q) PROVE SettingsInv'
  <2>1. SettingsTypeOK' /\ LoneInv' /\ KeysAgree'
    BY <1>1, <1>3, SettingsTypeStep, LoneStep, KeysStep
  <2> QED BY <2>1 DEF SettingsInv
<1>4. ASSUME ImportSettings PROVE SettingsInv'
  BY <1>1, <1>4, ImportStep
<1>5. ASSUME ReloadSettings PROVE SettingsInv'
  BY <1>1, <1>5, ReloadStep
<1>6. SettingsInv'
  BY <1>2, <1>3, <1>4, <1>5, SettingsPart
<1>7. case' = case /\ newest' \in case.finds \cup {noRaw}
  BY HistoryPart DEF AlertsInv
<1> QED
  BY <1>6, <1>7 DEF AlertsInv, noRaw

(* Memory and row hold settings, and so does whatever a request carries:   *)
(* neither a PUT nor an import brings in anything else.                    *)
THEOREM SettingsTyped == Spec => []SettingsTypeOK
<1>1. Init => AlertsInv
  BY AlertsStart
<1>2. AlertsInv /\ [Next]_vars => AlertsInv'
  BY AlertsStep
<1>3. AlertsInv => SettingsTypeOK
  BY DEF AlertsInv, SettingsInv
<1> QED
  BY <1>1, <1>2, <1>3, PTL DEF Spec

(* A request that ran alone and succeeded, or a restart, leaves memory and *)
(* row in agreement, whatever came before it.                              *)
THEOREM LoneRequestsBringTogether == Spec => LoneRequestsAgree
<1>1. Init => AlertsInv
  BY AlertsStart
<1>2. AlertsInv /\ [Next]_vars => AlertsInv'
  BY AlertsStep
<1>3. AlertsInv /\ [Next]_vars =>
        [\A q \in Requests :
           request[q].alone /\ request[q].at \in {"overlaid", "stored"} /\ request'[q].at = "idle"
             => Agree(memory', row')]_settingsVars
  <2> SUFFICES ASSUME AlertsInv, [Next]_vars, ~UNCHANGED settingsVars, NEW q \in Requests,
                      request[q].alone, request[q].at \in {"overlaid", "stored"},
                      request'[q].at = "idle"
               PROVE  Agree(memory', row')
    OBVIOUS
  <2>1. SettingsInv
    BY DEF AlertsInv
  <2>2. ASSUME NEW p \in Requests, SettingsStep(p) PROVE Agree(memory', row')
    BY <2>1, <2>2, LoneEnds
  <2> QED BY <2>1, <2>2, ImportStep, ReloadStep, SettingsPart
<1> QED
  BY <1>1, <1>2, <1>3, PTL DEF Spec, LoneRequestsAgree

(* Without anyone typing a secret the one there is survives every order of *)
(* requests, failures and restarts.                                        *)
THEOREM SecretsKept == Spec => SecretsSurvive
<1>1. Init => AlertsInv
  BY AlertsStart
<1>2. AlertsInv /\ [Next]_vars => AlertsInv'
  BY AlertsStep
<1>3. AlertsInv /\ [Next]_vars =>
        [typed = {} => memory'.key = memory.key /\ (row # none => row'.key = row.key)]_settingsVars
  <2> SUFFICES ASSUME AlertsInv, [Next]_vars, ~UNCHANGED settingsVars
               PROVE  typed = {} => memory'.key = memory.key /\ (row # none => row'.key = row.key)
    OBVIOUS
  <2>1. SettingsInv
    BY DEF AlertsInv
  <2>2. ASSUME NEW p \in Requests, SettingsStep(p)
        PROVE  typed = {} => memory'.key = memory.key /\ (row # none => row'.key = row.key)
    BY <2>1, <2>2, KeysStep
  <2> QED BY <2>1, <2>2, ImportStep, ReloadStep, SettingsPart
<1> QED
  BY <1>1, <1>2, <1>3, PTL DEF Spec, SecretsSurvive

-----------------------------------------------------------------------------
(* The changes.  An entry has a cause when an attribute that its Field is  *)
(* about is there in only one of the two raw data, or differs.             *)
Apart(p, c, a) == \/ Has(p, a) # Has(c, a)
                  \/ Has(p, a) /\ p[a] # c[a]

Caused(p, c, e) == \E a \in DOMAIN p \cup DOMAIN c : e.Field \in About(a) /\ Apart(p, c, a)

AllCaused(p, c, entries) == \A e \in entries : Caused(p, c, e)

LEMMA AboutItself == \A a : a \in About(a)
  BY DEF About

LEMMA AboutParts == "asn" \in About("asn.asn") /\ \A a \in Route : "traceroute" \in About(a)
  BY DEF About, Route

(* What is read differs only where an attribute does.                      *)
LEMMA GetApart ==
    ASSUME NEW p, NEW c, NEW a, NEW d, Get(p, a, d) # Get(c, a, d)
    PROVE  a \in DOMAIN p \cup DOMAIN c /\ Apart(p, c, a)
  BY DEF Get, Has, Apart

LEMMA HasApart ==
    ASSUME NEW p, NEW c, NEW a, \/ Has(p, a) /\ ~Has(c, a)
                                \/ Has(c, a) /\ ~Has(p, a)
    PROVE  a \in DOMAIN p \cup DOMAIN c /\ Apart(p, c, a)
  BY DEF Has, Apart

LEMMA EntryField == \A t, s, f, x : Entry(t, s, f, x).Field = f
  BY DEF Entry

(* What follows the attribute in a Field changes nothing else.             *)
LEMMA BelowField ==
    \A t, s, f, x, y : /\ Below(Entry(t, s, f, x), y).Field = f
                       /\ Below(Entry(t, s, f, x), y).Type = t
                       /\ Below(Entry(t, s, f, x), y).Detail = x
  BY DEF Below, Entry

LEMMA ApartCauses ==
    ASSUME NEW p, NEW c, NEW a \in DOMAIN p \cup DOMAIN c, Apart(p, c, a)
    PROVE  \A t, s, x : /\ Caused(p, c, Entry(t, s, a, x))
                        /\ \A y : Caused(p, c, Below(Entry(t, s, a, x), y))
  BY AboutItself, EntryField, BelowField DEF Caused

LEMMA CausedEitherWay ==
    ASSUME NEW p, NEW c, NEW e, Caused(c, p, e)
    PROVE  Caused(p, c, e)
<1>1. PICK a \in DOMAIN c \cup DOMAIN p : e.Field \in About(a) /\ Apart(c, p, a)
  BY DEF Caused
<1>2. Apart(p, c, a)
  BY <1>1 DEF Apart, Has
<1> QED
  BY <1>1, <1>2 DEF Caused

LEMMA OneIfCaused ==
    ASSUME NEW p, NEW c, NEW condition, NEW entry, condition => Caused(p, c, entry)
    PROVE  AllCaused(p, c, OneIf(condition, entry))
  BY DEF OneIf, AllCaused

(* The ways in which attributes are compared.                              *)
LEMMA ChangedCaused ==
    ASSUME NEW p, NEW c
    PROVE  \A a, t, s : /\ AllCaused(p, c, Changed(p, c, a, t, s))
                        /\ AllCaused(p, c, BothChanged(p, c, a, t, s))
<1>1. ASSUME NEW a, NEW t, NEW s
      PROVE  AllCaused(p, c, Changed(p, c, a, t, s))
  <2>1. stringVal(c, a) \notin {"", stringVal(p, a)} => Caused(p, c, Entry(t, s, a, ""))
    BY GetApart, ApartCauses DEF stringVal
  <2> QED BY <2>1, OneIfCaused DEF Changed
<1>2. ASSUME NEW a, NEW t, NEW s
      PROVE  AllCaused(p, c, BothChanged(p, c, a, t, s))
  BY <1>1 DEF BothChanged, AllCaused
<1> QED
  BY <1>1, <1>2

LEMMA NumberChangedCaused ==
    ASSUME NEW p, NEW c, NEW a, NEW t
    PROVE  AllCaused(p, c, NumberChanged(p, c, a, t))
<1>1. intVal(c, a) # intVal(p, a) => Caused(p, c, Entry(t, "info", a, ""))
  BY GetApart, ApartCauses DEF intVal
<1> QED
  BY <1>1, OneIfCaused DEF NumberChanged

LEMMA PresenceChangedCaused ==
    ASSUME NEW p, NEW c, NEW a, NEW v, NEW t1, NEW t2, NEW t3
    PROVE  AllCaused(p, c, PresenceChanged(p, c, a, v, t1, t2, t3))
<1>1. stringVal(c, a) # stringVal(p, a) =>
        \A t : /\ Caused(p, c, Entry(t, "info", a, ""))
               /\ Caused(p, c, Below(Entry(t, "info", a, ""), v))
  BY GetApart, ApartCauses DEF stringVal
<1>2. \A e \in PresenceChanged(p, c, a, v, t1, t2, t3) :
        /\ stringVal(c, a) # stringVal(p, a)
        /\ \E t : e = Entry(t, "info", a, "") \/ e = Below(Entry(t, "info", a, ""), v)
  BY DEF PresenceChanged, OneIf
<1> QED
  BY <1>1, <1>2 DEF AllCaused

LEMMA AddedCaused ==
    ASSUME NEW p, NEW c
    PROVE  \A a, t, s : AllCaused(p, c, Added(p, c, a, t, s))
<1> SUFFICES ASSUME NEW a, NEW t, NEW s, NEW x \in set(c, a) \ set(p, a)
             PROVE  Caused(p, c, Entry(t, s, a, x))
  BY DEF Added, AllCaused
<1>1. set(c, a) # set(p, a)
  OBVIOUS
<1> QED
  BY <1>1, GetApart, ApartCauses DEF set

LEMMA SetChangedCaused ==
    ASSUME NEW p, NEW c, NEW a, NEW t1, NEW t2, NEW s1, NEW s2
    PROVE  AllCaused(p, c, SetChanged(p, c, a, t1, t2, s1, s2))
<1>1. AllCaused(p, c, Added(p, c, a, t1, s1)) /\ AllCaused(c, p, Added(c, p, a, t2, s2))
  BY AddedCaused
<1>2. AllCaused(p, c, Added(c, p, a, t2, s2))
  BY <1>1, CausedEitherWay DEF AllCaused
<1> QED
  BY <1>1, <1>2 DEF SetChanged, AllCaused

LEMMA UnionCaused ==
    ASSUME NEW p, NEW c
    PROVE  /\ AllCaused(p, c, {})
           /\ \A S, T : AllCaused(p, c, S) /\ AllCaused(p, c, T) => AllCaused(p, c, S \cup T)
  BY DEF AllCaused

(* The comparisons, one by one.                                            *)
LEMMA TLSCaused ==
    ASSUME NEW p, NEW c,
           intVal(p, "tls.days_remaining") \in Int, intVal(c, "tls.days_remaining") \in Int
    PROVE  AllCaused(p, c, diffTLS(p, c))
<1>1. AllCaused(p, c, CertExpiry(p, c))
  <2> DEFINE days == intVal(c, "tls.days_remaining")
             was  == intVal(p, "tls.days_remaining")
  <2>1. days >= 0 /\ (was < 0 \/ days < was) => days # was
    OBVIOUS
  <2>2. days # was => \A s : Caused(p, c, Entry("cert_expiry", s, "tls.days_remaining", ""))
    BY GetApart, ApartCauses DEF intVal
  <2> QED BY <2>1, <2>2, OneIfCaused DEF CertExpiry
<1>2. AllCaused(p, c, CertExpired(p, c))
  <2>1. boolVal(c, "tls.expired") /\ ~boolVal(p, "tls.expired") =>
            Caused(p, c, Entry("cert_expired", "critical", "tls.expired", ""))
    BY GetApart, ApartCauses DEF boolVal
  <2> QED BY <2>1, OneIfCaused DEF CertExpired
<1>3. AllCaused(p, c, OCSPStapling(p, c))
  <2>1. boolVal(c, "tls.ocsp_stapled") # boolVal(p, "tls.ocsp_stapled") =>
            \A s : Caused(p, c, Entry("tls_ocsp_stapling", s, "tls.ocsp_stapled", ""))
    BY GetApart, ApartCauses DEF boolVal
  <2> QED BY <2>1, OneIfCaused DEF OCSPStapling
<1>4. AllCaused(p, c, diffTLSExtended(p, c))
  BY <1>3, ChangedCaused, UnionCaused DEF diffTLSExtended
<1> QED
  BY <1>1, <1>2, <1>4, ChangedCaused, UnionCaused DEF diffTLS

LEMMA BGPCaused ==
    ASSUME NEW p, NEW c
    PROVE  AllCaused(p, c, diffBGP(p, c))
<1>1. CASE ~Has(c, "asn")
  <2>1. Has(p, "asn") => Caused(p, c, Entry("removed", "info", "asn", ""))
    BY <1>1, HasApart, ApartCauses
  <2> QED BY <1>1, <2>1, OneIfCaused DEF diffBGP
<1>2. CASE Has(c, "asn")
  <2>1. stringVal(p, "asn.asn") = "" /\ stringVal(c, "asn.asn") # ""
            => Caused(p, c, Entry("added", "info", "asn", ""))
    <3> SUFFICES ASSUME stringVal(p, "asn.asn") # stringVal(c, "asn.asn")
                 PROVE  Caused(p, c, Entry("added", "info", "asn", ""))
      OBVIOUS
    <3>1. "asn.asn" \in DOMAIN p \cup DOMAIN c /\ Apart(p, c, "asn.asn")
      BY GetApart DEF stringVal
    <3>2. Entry("added", "info", "asn", "").Field \in About("asn.asn")
      BY AboutParts DEF Entry
    <3> QED BY <3>1, <3>2 DEF Caused
  <2>2. AllCaused(p, c, OneIf(stringVal(p, "asn.asn") = "" /\ stringVal(c, "asn.asn") # "",
                              Entry("added", "info", "asn", "")))
    BY <2>1, OneIfCaused
  <2> QED BY <1>2, <2>2, ChangedCaused, UnionCaused DEF diffBGP
<1> QED
  BY <1>1, <1>2

LEMMA RouteDriftCaused ==
    ASSUME NEW p, NEW c
    PROVE  AllCaused(p, c, diffBGPRouteDrift(p, c))
  BY ChangedCaused, SetChangedCaused, UnionCaused DEF diffBGPRouteDrift

LEMMA TracerouteCaused ==
    ASSUME NEW p, NEW c
    PROVE  AllCaused(p, c, diffTracerouteDrift(p, c))
<1> DEFINE hops(r) == Members(tracerouteHopIPs(r))
           new  == hops(c) \ hops(p)
           gone == hops(p) \ hops(c)
           reordered == hops(c) = hops(p) /\ tracerouteHopIPs(c) # tracerouteHopIPs(p)
<1>1. list(p, "traceroute.hops") = list(c, "traceroute.hops")
        => tracerouteHopIPs(p) = tracerouteHopIPs(c)
  BY Zenon DEF tracerouteHopIPs
<1>2. tracerouteHopIPs(p) # tracerouteHopIPs(c)
        => \A t, s, x : Caused(p, c, Entry(t, s, "traceroute.hops", x))
  BY <1>1, GetApart, ApartCauses DEF list
<1>3. AllCaused(p, c,
        {Entry("graph_traceroute_hop_added", "info", "traceroute.hops", h) : h \in new})
  BY <1>2 DEF AllCaused
<1>4. AllCaused(p, c,
        {Entry("graph_traceroute_hop_removed", "warning", "traceroute.hops", h) : h \in gone})
  BY <1>2 DEF AllCaused
<1>5. AllCaused(p, c, OneIf(reordered,
        Entry("graph_traceroute_reordered", "warning", "traceroute.hops", "")))
  BY <1>2, OneIfCaused
<1> QED
  BY <1>3, <1>4, <1>5, UnionCaused DEF diffTracerouteDrift

LEMMA CTCaused ==
    ASSUME NEW p, NEW c
    PROVE  AllCaused(p, c, diffCT(p, c))
  BY AddedCaused, UnionCaused DEF diffCT

LEMMA DNSCaused ==
    ASSUME NEW p, NEW c
    PROVE  AllCaused(p, c, diffDNS(p, c))
<1>1. AllCaused(p, c, diffDMARC(p, c)) /\ AllCaused(p, c, diffMailPosture(p, c))
  BY ChangedCaused DEF diffDMARC, diffMailPosture
<1>2. AllCaused(p, c, diffDNSSEC(p, c)) /\ AllCaused(p, c, diffMTASTS(p, c))
  BY ChangedCaused DEF diffDNSSEC, diffMTASTS
<1>3. AllCaused(p, c, diffSOA(p, c))
  BY ChangedCaused, NumberChangedCaused, UnionCaused DEF diffSOA
<1>4. AllCaused(p, c, diffDNSIntel(p, c))
  BY <1>2, ChangedCaused, SetChangedCaused, PresenceChangedCaused, UnionCaused DEF diffDNSIntel
<1> QED
  BY <1>1, <1>3, <1>4, UnionCaused DEF diffDNS

LEMMA CrawlCaused ==
    ASSUME NEW p, NEW c
    PROVE  AllCaused(p, c, diffCrawlIntel(p, c))
<1>1. AllCaused(p, c, diffSecurityTxt(p, c))
  <2> DEFINE txt == "crawl.security_txt"
  <2>1. CASE Has(p, txt) /\ ~Has(c, txt)
    <3>1. Caused(p, c, Entry("security_txt_removed", "warning", txt, ""))
      BY <2>1, HasApart, ApartCauses
    <3> QED BY <2>1, <3>1 DEF diffSecurityTxt, AllCaused
  <2>2. CASE Has(c, txt) /\ ~Has(p, txt)
    <3>1. Caused(p, c, Entry("security_txt_added", "info", txt, ""))
      BY <2>2, HasApart, ApartCauses
    <3> QED BY <2>2, <3>1 DEF diffSecurityTxt, AllCaused
  <2>3. CASE Has(c, txt) /\ Has(p, txt)
    BY <2>3, AddedCaused, ChangedCaused, UnionCaused DEF diffSecurityTxt
  <2>4. CASE ~Has(c, txt) /\ ~Has(p, txt)
    BY <2>4, UnionCaused DEF diffSecurityTxt
  <2> QED BY <2>1, <2>2, <2>3, <2>4
<1>2. ASSUME NEW a, NEW type
      PROVE  AllCaused(p, c, diffOptionalCrawlFile(p, c, a, type))
  <2>1. ASSUME NEW t, \/ Has(p, a) /\ ~Has(c, a)
                      \/ Has(c, a) /\ ~Has(p, a)
        PROVE  Caused(p, c, Entry(t, "info", a, ""))
    BY <2>1, HasApart, ApartCauses
  <2>2. CASE Has(c, a) /\ ~Has(p, a)
    BY <2>1, <2>2 DEF diffOptionalCrawlFile, AllCaused
  <2>3. CASE Has(p, a) /\ ~Has(c, a)
    BY <2>1, <2>3 DEF diffOptionalCrawlFile, AllCaused
  <2>4. CASE Has(p, a) /\ Has(c, a)
    <3>1. diffOptionalCrawlFile(p, c, a, type) = Changed(p, c, a, type[3], "info")
      BY <2>4 DEF diffOptionalCrawlFile
    <3> QED BY <3>1, ChangedCaused
  <2>5. CASE ~Has(p, a) /\ ~Has(c, a)
    <3>1. diffOptionalCrawlFile(p, c, a, type) = Changed(p, c, a, type[3], "info")
      BY <2>5 DEF diffOptionalCrawlFile
    <3> QED BY <3>1, ChangedCaused
  <2> QED BY <2>2, <2>3, <2>4, <2>5
<1> QED
  BY <1>1, <1>2, UnionCaused DEF diffCrawlIntel

LEMMA ItemsCaused ==
    ASSUME NEW p, NEW c, NEW a, NEW t1, NEW t2, NEW t3
    PROVE  AllCaused(p, c, diffWordPressItems(p, c, a, t1, t2, t3))
<1>1. ASSUME list(p, a) = list(c, a)
      PROVE  diffWordPressItems(p, c, a, t1, t2, t3) = {}
  BY <1>1 DEF diffWordPressItems
<1>2. list(p, a) # list(c, a) =>
        \A t, x : /\ Caused(p, c, Entry(t, "info", a, x))
                  /\ \A y : Caused(p, c, Below(Entry(t, "info", a, x), y))
  BY GetApart, ApartCauses DEF list
<1>3. \A e \in diffWordPressItems(p, c, a, t1, t2, t3) :
        \E t, x, y : e = Entry(t, "info", a, x) \/ e = Below(Entry(t, "info", a, x), y)
  BY DEF diffWordPressItems
<1> QED
  BY <1>1, <1>2, <1>3 DEF AllCaused

LEMMA RedirectsCaused ==
    ASSUME NEW p, NEW c
    PROVE  AllCaused(p, c, diffRedirectChain(p, c))
<1> DEFINE a == "web.redirect_chain"
<1>1. ASSUME list(p, a) = list(c, a)
      PROVE  diffRedirectChain(p, c) = {}
  <2>1. redirectFinalURL(p) = redirectFinalURL(c) /\ redirectHopCount(p) = redirectHopCount(c)
    BY <1>1 DEF redirectFinalURL, redirectHopCount
  <2> QED BY <2>1 DEF diffRedirectChain
<1>2. list(p, a) # list(c, a) => \A t, s : Caused(p, c, Entry(t, s, a, ""))
  BY GetApart, ApartCauses DEF list
<1>3. \A e \in diffRedirectChain(p, c) : \E t, s : e = Entry(t, s, a, "")
  BY DEF diffRedirectChain
<1> QED
  BY <1>1, <1>2, <1>3 DEF AllCaused

LEMMA WebCaused ==
    ASSUME NEW p, NEW c
    PROVE  AllCaused(p, c, diffWeb(p, c))
<1>1. AllCaused(p, c, diffSecurityHeaders(p, c))
  BY ChangedCaused, UnionCaused DEF diffSecurityHeaders
<1>2. CASE ~Has(c, "web")
  BY <1>2, UnionCaused DEF diffWeb
<1>3. CASE Has(c, "web") /\ ~Has(p, "web")
  <2>1. Caused(p, c, Entry("added", "info", "web", ""))
    BY <1>3, HasApart, ApartCauses
  <2> QED BY <1>3, <2>1 DEF diffWeb, AllCaused
<1>4. CASE Has(c, "web") /\ Has(p, "web")
  BY <1>1, <1>4, ChangedCaused, AddedCaused, ItemsCaused, RedirectsCaused, UnionCaused DEF diffWeb
<1> QED
  BY <1>2, <1>3, <1>4

LEMMA WholeCaused ==
    ASSUME NEW p, NEW c
    PROVE  AllCaused(p, c, diffGeneric(p, c))
<1>1. ASSUME NEW k, \/ Has(p, k) /\ ~Has(c, k)
                    \/ Has(c, k) /\ ~Has(p, k)
      PROVE  \A t : Caused(p, c, Entry(t, "info", k, ""))
  BY <1>1, HasApart, ApartCauses
<1>2. ASSUME NEW k, Has(p, k), Has(c, k), Whole(p, k) # Whole(c, k)
      PROVE  Caused(p, c, Entry("changed", "info", k, ""))
  <2>1. CASE k = "traceroute"
    <3>1. \/ list(p, "traceroute.hops") # list(c, "traceroute.hops")
          \/ stringVal(p, "traceroute.rest") # stringVal(c, "traceroute.rest")
      BY <1>2, <2>1 DEF Whole
    <3>2. \E a \in Route : a \in DOMAIN p \cup DOMAIN c /\ Apart(p, c, a)
      BY <3>1, GetApart DEF list, stringVal, Route
    <3>3. \A a \in Route : Entry("changed", "info", k, "").Field \in About(a)
      BY <2>1, AboutParts DEF Entry
    <3> QED BY <3>2, <3>3 DEF Caused
  <2>2. CASE k # "traceroute"
    <3>1. k \in DOMAIN p \cup DOMAIN c /\ Apart(p, c, k)
      BY <1>2, <2>2 DEF Whole, Has, Apart
    <3> QED BY <3>1, ApartCauses
  <2> QED BY <2>1, <2>2
<1> QED
  BY <1>1, <1>2 DEF diffGeneric, AllCaused

LEMMA ComputeCaused ==
    ASSUME NEW p, NEW c,
           intVal(p, "tls.days_remaining") \in Int, intVal(c, "tls.days_remaining") \in Int
    PROVE  AllCaused(p, c, Compute(p, c))
  BY TLSCaused, BGPCaused, RouteDriftCaused, TracerouteCaused, CTCaused, DNSCaused, CrawlCaused,
     WebCaused, WholeCaused, UnionCaused DEF Compute

(* The numbers of raw data are numbers, and not 0 where 0 means missing.   *)
LEMMA NumbersTyped ==
    ASSUME NEW r, RawData(r)
    PROVE  /\ \A a \in Numbers : intVal(r, a) \in Int
           /\ \A a \in {"dns.soa.serial", "dns.soa.refresh"} : Has(r, a) => intVal(r, a) > 0
<1>1. \A a \in DOMAIN r \cap Numbers : r[a] \in IF a = "tls.days_remaining" THEN Int ELSE Nat \ {0}
  BY DEF RawData
<1>2. \A a \in Numbers : intVal(r, a) \in Int
  BY <1>1 DEF intVal, Get, Has
<1>3. \A a \in {"dns.soa.serial", "dns.soa.refresh"} : Has(r, a) => intVal(r, a) > 0
  BY <1>1 DEF intVal, Get, Has, Numbers
<1> QED
  BY <1>2, <1>3

(* Where nothing differs nothing is reported: no comparison of             *)
(* internal/diff announces raw data as different from itself, whatever is  *)
(* in it or missing from it (diff.go, Compute).                            *)
THEOREM SameDataNoChanges == ASSUME NEW r, RawData(r) PROVE Compute(r, r) = {}
<1>1. AllCaused(r, r, Compute(r, r))
  BY NumbersTyped, ComputeCaused DEF Numbers
<1>2. \A a : ~Apart(r, r, a)
  BY DEF Apart
<1> QED
  BY <1>1, <1>2 DEF AllCaused, Caused

(* Every change that is stored and reported of a scan has its cause in the *)
(* raw data of the two snapshots that are compared: no false alarm.        *)
THEOREM NoFalseAlarms == Spec => EntriesAreDifferences
<1>1. Init => AlertsInv
  BY AlertsStart
<1>2. AlertsInv /\ [Next]_vars => AlertsInv'
  BY AlertsStep
<1>3. AlertsInv /\ [Next]_vars =>
        [newest # noRaw /\ newest' # newest =>
            \A e \in details' : \E a \in Names : e.Field \in About(a) /\ Differs(a)]_vars
  <2> SUFFICES ASSUME AlertsInv, [Next]_vars, newest # noRaw, newest' # newest,
                      NEW e \in details'
               PROVE  \E a \in Names : e.Field \in About(a) /\ Differs(a)
    OBVIOUS
  <2>1. PICK r \in case.finds : newest' = r /\ details' = Compute(newest, r)
    BY HistoryPart
  <2>2. newest \in case.finds /\ case \in Cases
    BY DEF AlertsInv
  <2>3. \A x \in case.finds : intVal(x, "tls.days_remaining") \in Int
    BY <2>2, CasesAssumption, NumbersTyped DEF Numbers
  <2>4. Caused(newest, r, e)
    BY <2>1, <2>2, <2>3, ComputeCaused DEF AllCaused
  <2>5. PICK a \in DOMAIN newest \cup DOMAIN r : e.Field \in About(a) /\ Apart(newest, r, a)
    BY <2>4 DEF Caused
  <2>6. a \in Names
    BY <2>2, <2>5 DEF Names
  <2>7. Differs(a)
    BY <2>1, <2>5 DEF Differs, Apart, Has
  <2> QED BY <2>5, <2>6, <2>7
<1> QED
  BY <1>1, <1>2, <1>3, PTL DEF Spec, EntriesAreDifferences

-----------------------------------------------------------------------------
(* Who follows the changes.  First, what it says that no entry is about an *)
(* attribute.                                                              *)
Silent(entries, a) == \A e \in entries : e.Field \notin About(a)

LEMMA SilentUnion == \A S, T, a : Silent(S \cup T, a) <=> Silent(S, a) /\ Silent(T, a)
  BY DEF Silent

LEMMA NotSilent ==
    ASSUME NEW S, NEW t, NEW s, NEW f, NEW x, NEW a, f \in About(a), Entry(t, s, f, x) \in S
    PROVE  ~Silent(S, a)
<1>1. Entry(t, s, f, x).Field = f
  BY EntryField
<1> QED
  BY <1>1 DEF Silent

LEMMA OneIfSilent ==
    ASSUME NEW condition, NEW t, NEW s, NEW f, NEW x, NEW a, f \in About(a),
           Silent(OneIf(condition, Entry(t, s, f, x)), a)
    PROVE  ~condition
<1> SUFFICES ASSUME condition PROVE FALSE
  OBVIOUS
<1>1. Entry(t, s, f, x) \in OneIf(condition, Entry(t, s, f, x))
  BY DEF OneIf
<1> QED
  BY <1>1, NotSilent

LEMMA NotSilentBelow ==
    ASSUME NEW S, NEW t, NEW s, NEW f, NEW x, NEW y, NEW a, f \in About(a),
           Below(Entry(t, s, f, x), y) \in S
    PROVE  ~Silent(S, a)
<1>1. Below(Entry(t, s, f, x), y).Field = f
  BY BelowField
<1> QED
  BY <1>1 DEF Silent

(* What silence says, for each way of comparing.                           *)
LEMMA ChangedSilent ==
    ASSUME NEW p, NEW c
    PROVE  \A a, t, s : Silent(Changed(p, c, a, t, s), a) => stringVal(c, a) \in {"", stringVal(p, a)}
<1> SUFFICES ASSUME NEW a, NEW t, NEW s, Silent(Changed(p, c, a, t, s), a),
                    stringVal(c, a) \notin {"", stringVal(p, a)}
             PROVE  FALSE
  OBVIOUS
<1>1. Entry(t, s, a, "") \in Changed(p, c, a, t, s)
  BY DEF Changed, OneIf
<1> QED
  BY <1>1, AboutItself, NotSilent

LEMMA BothSilent ==
    ASSUME NEW p, NEW c
    PROVE  \A a, t, s : Silent(BothChanged(p, c, a, t, s), a) =>
                            stringVal(p, a) = "" \/ stringVal(c, a) \in {"", stringVal(p, a)}
  BY ChangedSilent DEF BothChanged

LEMMA NumberSilent ==
    ASSUME NEW p, NEW c
    PROVE  \A a, t : Silent(NumberChanged(p, c, a, t), a) /\ intVal(c, a) > 0 /\ intVal(p, a) > 0 =>
                         intVal(c, a) = intVal(p, a)
<1> SUFFICES ASSUME NEW a, NEW t, Silent(NumberChanged(p, c, a, t), a),
                    intVal(c, a) > 0 /\ intVal(p, a) > 0, intVal(c, a) # intVal(p, a)
             PROVE  FALSE
  OBVIOUS
<1>1. Entry(t, "info", a, "") \in NumberChanged(p, c, a, t)
  BY DEF NumberChanged, OneIf
<1> QED
  BY <1>1, AboutItself, NotSilent

LEMMA PresenceSilent ==
    ASSUME NEW p, NEW c
    PROVE  \A a, v, t1, t2, t3 : Silent(PresenceChanged(p, c, a, v, t1, t2, t3), a) =>
                                     stringVal(c, a) = stringVal(p, a)
<1> SUFFICES ASSUME NEW a, NEW v, NEW t1, NEW t2, NEW t3,
                    Silent(PresenceChanged(p, c, a, v, t1, t2, t3), a),
                    stringVal(c, a) # stringVal(p, a)
             PROVE  FALSE
  OBVIOUS
<1>1. \E t : \/ Entry(t, "info", a, "") \in PresenceChanged(p, c, a, v, t1, t2, t3)
             \/ Below(Entry(t, "info", a, ""), v) \in PresenceChanged(p, c, a, v, t1, t2, t3)
  BY DEF PresenceChanged, OneIf
<1> QED
  BY <1>1, AboutItself, NotSilent, NotSilentBelow

LEMMA ItemsSilent ==
    ASSUME NEW p, NEW c
    PROVE  \A a, t1, t2, t3 : Silent(diffWordPressItems(p, c, a, t1, t2, t3), a) =>
                /\ DOMAIN list(p, a) = DOMAIN list(c, a)
                /\ \A x \in DOMAIN list(p, a) : list(p, a)[x] = list(c, a)[x]
<1> SUFFICES ASSUME NEW a, NEW t1, NEW t2, NEW t3, Silent(diffWordPressItems(p, c, a, t1, t2, t3), a)
             PROVE  /\ DOMAIN list(p, a) = DOMAIN list(c, a)
                    /\ \A x \in DOMAIN list(p, a) : list(p, a)[x] = list(c, a)[x]
  OBVIOUS
<1>1. \A t, s, x : /\ Entry(t, s, a, x) \notin diffWordPressItems(p, c, a, t1, t2, t3)
                   /\ \A y : Below(Entry(t, s, a, x), y) \notin diffWordPressItems(p, c, a, t1, t2, t3)
  BY AboutItself, NotSilent, NotSilentBelow
<1>2. ASSUME NEW x \in DOMAIN list(c, a) PROVE x \in DOMAIN list(p, a)
  BY <1>1 DEF diffWordPressItems
<1>3. ASSUME NEW x \in DOMAIN list(p, a) PROVE x \in DOMAIN list(c, a)
  BY <1>1 DEF diffWordPressItems
<1>4. ASSUME NEW x \in DOMAIN list(p, a), x \in DOMAIN list(c, a) PROVE list(p, a)[x] = list(c, a)[x]
  BY <1>1, <1>4 DEF diffWordPressItems
<1> QED
  BY <1>2, <1>3, <1>4

(* What silence says of each attribute.                                    *)
LEMMA ComputeSilent ==
    ASSUME NEW p, NEW c, NEW a, Silent(Compute(p, c), a)
    PROVE  /\ Silent(diffTLS(p, c), a) /\ Silent(diffBGP(p, c), a) /\ Silent(diffBGPRouteDrift(p, c), a)
           /\ Silent(diffTracerouteDrift(p, c), a) /\ Silent(diffDNS(p, c), a)
           /\ Silent(diffCrawlIntel(p, c), a) /\ Silent(diffWeb(p, c), a) /\ Silent(diffGeneric(p, c), a)
  BY SilentUnion DEF Compute

LEMMA TLSSilent ==
    ASSUME NEW p, NEW c, Has(c, "tls"), NEW a, Silent(diffTLS(p, c), a)
    PROVE  /\ a \in InTLS \ BothSet => stringVal(c, a) \in {"", stringVal(p, a)}
           /\ a \in InTLS \cap BothSet =>
                stringVal(p, a) = "" \/ stringVal(c, a) \in {"", stringVal(p, a)}
           /\ a = "tls.days_remaining" =>
                ~(intVal(c, a) >= 0 /\ (intVal(p, a) < 0 \/ intVal(c, a) < intVal(p, a)))
           /\ a = "tls.expired" => ~(boolVal(c, a) /\ ~boolVal(p, a))
           /\ a = "tls.ocsp_stapled" => boolVal(c, a) = boolVal(p, a)
<1>1. /\ Silent(BothChanged(p, c, "tls.issuer", "tls_issuer", "warning"), a)
      /\ Silent(CertExpiry(p, c), a) /\ Silent(CertExpired(p, c), a)
      /\ Silent(diffTLSExtended(p, c), a)
      /\ Silent(Changed(p, c, "tls.ja3s", "tls_ja3s", "warning"), a)
  BY SilentUnion DEF diffTLS
<1>2. /\ Silent(Changed(p, c, "tls.tls_version", "tls_version", "info"), a)
      /\ Silent(Changed(p, c, "tls.negotiated_cipher", "tls_cipher", "info"), a)
      /\ Silent(BothChanged(p, c, "tls.serial", "tls_serial", "warning"), a)
      /\ Silent(OCSPStapling(p, c), a)
  BY <1>1, SilentUnion DEF diffTLSExtended
<1>3. a \in InTLS \ BothSet => a \in {"tls.tls_version", "tls.negotiated_cipher", "tls.ja3s"}
  BY DEF InTLS, BothSet
<1>4. a \in InTLS \cap BothSet => a \in {"tls.issuer", "tls.serial"}
  BY DEF InTLS, BothSet
<1>5. ASSUME a = "tls.days_remaining"
      PROVE  ~(intVal(c, a) >= 0 /\ (intVal(p, a) < 0 \/ intVal(c, a) < intVal(p, a)))
  BY <1>1, <1>5, AboutItself, OneIfSilent DEF CertExpiry
<1>6. ASSUME a = "tls.expired" PROVE ~(boolVal(c, a) /\ ~boolVal(p, a))
  BY <1>1, <1>6, AboutItself, OneIfSilent DEF CertExpired
<1>7. ASSUME a = "tls.ocsp_stapled" PROVE boolVal(c, a) = boolVal(p, a)
  BY <1>2, <1>7, AboutItself, OneIfSilent DEF OCSPStapling
<1>8. ASSUME a \in {"tls.tls_version", "tls.negotiated_cipher", "tls.ja3s"}
      PROVE  stringVal(c, a) \in {"", stringVal(p, a)}
  BY <1>1, <1>2, <1>8, ChangedSilent
<1>9. ASSUME a \in {"tls.issuer", "tls.serial"}
      PROVE  stringVal(p, a) = "" \/ stringVal(c, a) \in {"", stringVal(p, a)}
  BY <1>1, <1>2, <1>9, BothSilent
<1> QED
  BY <1>3, <1>4, <1>5, <1>6, <1>7, <1>8, <1>9

LEMMA RoutingSilent ==
    ASSUME NEW p, NEW c, Has(c, "asn"), NEW a, Silent(diffBGP(p, c), a)
    PROVE  /\ a = "asn.asn" => stringVal(c, a) \in {"", stringVal(p, a)}
           /\ a \in InRouting \ {"asn.routing.rpki"} => stringVal(c, a) \in {"", stringVal(p, a)}
<1> DEFINE appears == stringVal(p, "asn.asn") = "" /\ stringVal(c, "asn.asn") # ""
           grave == IF stringVal(c, "asn.routing.hijack_risk") \in {"high", "critical"}
                    THEN "critical" ELSE "warning"
           worse == WarningIf(\/ stringVal(c, pathStability) = "volatile"
                              \/ stringVal(p, pathStability) = "stable" /\ stringVal(c, pathStability) # "stable")
           origin == OneIf(appears, Entry("added", "info", "asn", ""))
           moved  == BothChanged(p, c, "asn.asn", "bgp_origin", "critical")
           risk   == Changed(p, c, "asn.routing.hijack_risk", "bgp_hijack_risk", grave)
           path   == Changed(p, c, pathStability, "bgp_path_stability", worse)
<1>0. diffBGP(p, c) = origin \cup moved \cup risk \cup path
  BY Zenon DEF diffBGP
<1> HIDE DEF origin, moved, risk, path
<1>a. Silent(origin, a) /\ Silent(moved, a) /\ Silent(risk, a) /\ Silent(path, a)
  BY <1>0, SilentUnion
<1> HIDE DEF appears, grave, worse
<1>1. /\ Silent(OneIf(appears, Entry("added", "info", "asn", "")), a)
      /\ Silent(BothChanged(p, c, "asn.asn", "bgp_origin", "critical"), a)
      /\ \E s : Silent(Changed(p, c, "asn.routing.hijack_risk", "bgp_hijack_risk", s), a)
      /\ \E s : Silent(Changed(p, c, pathStability, "bgp_path_stability", s), a)
  BY <1>a DEF origin, moved, risk, path
<1>2. ASSUME a = "asn.asn" PROVE ~(stringVal(p, a) = "" /\ stringVal(c, a) # "")
  BY <1>1, <1>2, AboutParts, OneIfSilent DEF appears
<1>3. ASSUME a = "asn.asn" PROVE stringVal(c, a) \in {"", stringVal(p, a)}
  BY <1>1, <1>2, <1>3, BothSilent
<1>4. ASSUME a \in {"asn.routing.hijack_risk", pathStability}
      PROVE  stringVal(c, a) \in {"", stringVal(p, a)}
  BY <1>1, <1>4, ChangedSilent
<1> QED
  BY <1>3, <1>4 DEF InRouting

LEMMA DNSSilent ==
    ASSUME NEW p, NEW c, Has(c, "dns"), NEW a, Silent(diffDNS(p, c), a)
    PROVE  /\ a \in InDNS => stringVal(c, a) \in {"", stringVal(p, a)}
           /\ a \in {"dns.soa.serial", "dns.soa.refresh"} /\ intVal(c, a) > 0 /\ intVal(p, a) > 0 =>
                intVal(c, a) = intVal(p, a)
<1>1. /\ Silent(diffDMARC(p, c), a) /\ Silent(diffMailPosture(p, c), a)
      /\ Silent(diffDNSIntel(p, c), a) /\ Silent(diffSOA(p, c), a)
  BY SilentUnion DEF diffDNS
<1>2. /\ \E t, s : Silent(Changed(p, c, "dns.dmarc.policy", t, s), a)
      /\ \E t, s : Silent(Changed(p, c, "dns.mail_posture.grade", t, s), a)
  BY <1>1 DEF diffDMARC, diffMailPosture
<1>3. /\ Silent(diffDNSSEC(p, c), a) /\ Silent(diffMTASTS(p, c), a)
      /\ \E v, t1, t2, t3 : Silent(PresenceChanged(p, c, "dns.TLS_RPT", v, t1, t2, t3), a)
      /\ \E v, t1, t2, t3 : Silent(PresenceChanged(p, c, "dns.BIMI", v, t1, t2, t3), a)
      /\ \E t, s : Silent(Changed(p, c, "dns.PTR", t, s), a)
  BY <1>1, SilentUnion DEF diffDNSIntel
<1>4. /\ \E t, s : Silent(Changed(p, c, "dns.DNSSEC.status", t, s), a)
      /\ \E t, s : Silent(Changed(p, c, "dns.MTA_STS.mode", t, s), a)
  BY <1>3 DEF diffDNSSEC, diffMTASTS
<1>5. /\ \E t, s : Silent(Changed(p, c, "dns.soa.mname", t, s), a)
      /\ \E t, s : Silent(Changed(p, c, "dns.soa.rname", t, s), a)
      /\ \E t : Silent(NumberChanged(p, c, "dns.soa.serial", t), a)
      /\ \E t : Silent(NumberChanged(p, c, "dns.soa.refresh", t), a)
  BY <1>1, SilentUnion DEF diffSOA
<1>6. ASSUME a \in InDNS \ {"dns.TLS_RPT", "dns.BIMI"} PROVE stringVal(c, a) \in {"", stringVal(p, a)}
  BY <1>2, <1>3, <1>4, <1>5, <1>6, ChangedSilent DEF InDNS
<1>7. ASSUME a \in {"dns.TLS_RPT", "dns.BIMI"} PROVE stringVal(c, a) = stringVal(p, a)
  BY <1>3, <1>7, PresenceSilent
<1>8. ASSUME a \in {"dns.soa.serial", "dns.soa.refresh"}, intVal(c, a) > 0, intVal(p, a) > 0
      PROVE  intVal(c, a) = intVal(p, a)
  BY <1>5, <1>8, NumberSilent
<1> QED
  BY <1>6, <1>7, <1>8

LEMMA DriftSilent ==
    ASSUME NEW p, NEW c, Has(c, "asn.routing"), Silent(diffBGPRouteDrift(p, c), "asn.routing.rpki")
    PROVE  stringVal(c, "asn.routing.rpki") \in {"", stringVal(p, "asn.routing.rpki")}
<1>1. Silent(Changed(p, c, "asn.routing.rpki", "graph_rpki_changed", "warning"), "asn.routing.rpki")
  BY SilentUnion DEF diffBGPRouteDrift
<1> QED
  BY <1>1, ChangedSilent

LEMMA HopsSilent ==
    ASSUME NEW p, NEW c, Silent(diffTracerouteDrift(p, c), "traceroute.hops")
    PROVE  tracerouteHopIPs(c) = tracerouteHopIPs(p)
<1> DEFINE hops(r) == Members(tracerouteHopIPs(r))
           new  == {Entry("graph_traceroute_hop_added", "info", "traceroute.hops", h) : h \in hops(c) \ hops(p)}
           gone == {Entry("graph_traceroute_hop_removed", "warning", "traceroute.hops", h) : h \in hops(p) \ hops(c)}
           moved == OneIf(hops(c) = hops(p) /\ tracerouteHopIPs(c) # tracerouteHopIPs(p),
                          Entry("graph_traceroute_reordered", "warning", "traceroute.hops", ""))
<1>1. diffTracerouteDrift(p, c) = new \cup gone \cup moved
  BY Zenon DEF diffTracerouteDrift
<1>2. Silent(new, "traceroute.hops") /\ Silent(gone, "traceroute.hops") /\ Silent(moved, "traceroute.hops")
  <2> HIDE DEF new, gone, moved
  <2> QED BY <1>1, SilentUnion
<1>3. hops(c) \subseteq hops(p)
  <2> SUFFICES ASSUME NEW h \in hops(c) \ hops(p) PROVE FALSE
    OBVIOUS
  <2>1. Entry("graph_traceroute_hop_added", "info", "traceroute.hops", h) \in new
    OBVIOUS
  <2> HIDE DEF new
  <2> QED BY <1>2, <2>1, AboutItself, NotSilent
<1>4. hops(p) \subseteq hops(c)
  <2> SUFFICES ASSUME NEW h \in hops(p) \ hops(c) PROVE FALSE
    OBVIOUS
  <2>1. Entry("graph_traceroute_hop_removed", "warning", "traceroute.hops", h) \in gone
    OBVIOUS
  <2> HIDE DEF gone
  <2> QED BY <1>2, <2>1, AboutItself, NotSilent
<1>5. ~(hops(c) = hops(p) /\ tracerouteHopIPs(c) # tracerouteHopIPs(p))
  <2> DEFINE reordered == hops(c) = hops(p) /\ tracerouteHopIPs(c) # tracerouteHopIPs(p)
  <2>1. Silent(OneIf(reordered, Entry("graph_traceroute_reordered", "warning", "traceroute.hops", "")),
               "traceroute.hops")
    BY <1>2
  <2> HIDE DEF reordered
  <2>2. ~reordered
    BY <2>1, AboutItself, OneIfSilent
  <2> QED BY <2>2 DEF reordered
<1> HIDE DEF hops
<1> QED
  BY <1>3, <1>4, <1>5

LEMMA CrawlSilent ==
    ASSUME NEW p, NEW c, Has(c, "crawl"), NEW a, Silent(diffCrawlIntel(p, c), a)
    PROVE  /\ a \in InFiles /\ Has(c, a) => Has(p, a) /\ stringVal(c, a) \in {"", stringVal(p, a)}
           /\ /\ a = "crawl.security_txt.expires"
              /\ Has(c, "crawl.security_txt") /\ Has(p, "crawl.security_txt")
              => stringVal(c, a) \in {"", stringVal(p, a)}
<1>1. /\ Silent(diffSecurityTxt(p, c), a)
      /\ \E type : Silent(diffOptionalCrawlFile(p, c, "crawl.humans_txt", type), a)
      /\ \E type : Silent(diffOptionalCrawlFile(p, c, "crawl.ads_txt", type), a)
  BY SilentUnion DEF diffCrawlIntel
<1>2. ASSUME a = "crawl.security_txt.expires", Has(c, "crawl.security_txt"), Has(p, "crawl.security_txt")
      PROVE  stringVal(c, a) \in {"", stringVal(p, a)}
  <2>1. diffSecurityTxt(p, c) =
            Added(p, c, "crawl.security_txt.contacts", "security_contact_added", "info")
            \cup Changed(p, c, "crawl.security_txt.expires", "security_txt_expires", "info")
    BY <1>2 DEF diffSecurityTxt
  <2>2. Silent(Changed(p, c, a, "security_txt_expires", "info"), a)
    BY <1>1, <1>2, <2>1, SilentUnion
  <2> QED BY <2>2, ChangedSilent
<1>3. ASSUME NEW type, Silent(diffOptionalCrawlFile(p, c, a, type), a), Has(c, a)
      PROVE  Has(p, a) /\ stringVal(c, a) \in {"", stringVal(p, a)}
  <2>1. CASE ~Has(p, a)
    <3>1. diffOptionalCrawlFile(p, c, a, type) = {Entry(type[1], "info", a, "")}
      BY <1>3, <2>1 DEF diffOptionalCrawlFile
    <3>2. Entry(type[1], "info", a, "") \in diffOptionalCrawlFile(p, c, a, type)
      BY <3>1
    <3> QED BY <1>3, <3>2, AboutItself, NotSilent
  <2>2. CASE Has(p, a)
    <3>1. diffOptionalCrawlFile(p, c, a, type) = Changed(p, c, a, type[3], "info")
      BY <1>3, <2>2 DEF diffOptionalCrawlFile
    <3>2. stringVal(c, a) \in {"", stringVal(p, a)}
      <4> DEFINE t == type[3]
      <4>1. Silent(Changed(p, c, a, t, "info"), a)
        BY <1>3, <3>1
      <4> HIDE DEF t
      <4> QED BY <4>1, ChangedSilent
    <3> QED BY <2>2, <3>2
  <2> QED BY <2>1, <2>2
<1> QED
  BY <1>1, <1>2, <1>3 DEF InFiles

(* Silence of the page is silence of each of its comparisons.              *)
LEMMA WebParts ==
    ASSUME NEW p, NEW c, Has(c, "web"), Has(p, "web"), NEW a, Silent(diffWeb(p, c), a)
    PROVE  /\ Silent(Changed(p, c, "web.title", "web_title", "info"), a)
           /\ \E t1, t2, t3 : Silent(diffWordPressItems(p, c, "web.wordpress_plugins", t1, t2, t3), a)
           /\ \E t1, t2, t3 : Silent(diffWordPressItems(p, c, "web.wordpress_themes", t1, t2, t3), a)
           /\ Silent(diffRedirectChain(p, c), a)
           /\ Silent(Changed(p, c, "web.hsts_preload.preload_status", "hsts_preload_status", "info"), a)
           /\ Silent(diffSecurityHeaders(p, c), a)
<1>1. diffWeb(p, c) =
          Changed(p, c, "web.title", "web_title", "info")
          \cup diffWordPressItems(p, c, "web.wordpress_plugins",
                  "wp_plugin_added", "wp_plugin_removed", "wp_plugin_version")
          \cup diffWordPressItems(p, c, "web.wordpress_themes",
                  "wp_theme_added", "wp_theme_removed", "wp_theme_version")
          \cup diffRedirectChain(p, c)
          \cup Changed(p, c, "web.hsts_preload.preload_status", "hsts_preload_status", "info")
          \cup Added(p, c, "web.cookie_names", "cookie_name_added", "info")
          \cup diffSecurityHeaders(p, c)
  BY DEF diffWeb
<1> QED BY <1>1, SilentUnion

(* Of lists of plugins and themes only equal ones are silent.              *)
LEMMA WebItemsSilent ==
    ASSUME NEW p, NEW c, NEW a \in Items, Silent(diffWeb(p, c), a), Has(p, "web"), Has(c, "web")
    PROVE  DOMAIN list(p, a) = DOMAIN list(c, a) /\ \A x \in DOMAIN list(p, a) : list(p, a)[x] = list(c, a)[x]
<1>1. /\ \E t1, t2, t3 : Silent(diffWordPressItems(p, c, "web.wordpress_plugins", t1, t2, t3), a)
      /\ \E t1, t2, t3 : Silent(diffWordPressItems(p, c, "web.wordpress_themes", t1, t2, t3), a)
  BY WebParts
<1> QED BY <1>1, ItemsSilent DEF Items

LEMMA PageSilent ==
    ASSUME NEW p, NEW c, Has(c, "web"), Has(p, "web"), NEW a, Silent(diffWeb(p, c), a)
    PROVE  /\ a \in InPage => stringVal(c, a) \in {"", stringVal(p, a)}
           /\ a \in Items => /\ DOMAIN list(p, a) = DOMAIN list(c, a)
                             /\ \A x \in DOMAIN list(p, a) : list(p, a)[x] = list(c, a)[x]
           /\ a = "web.redirect_chain" =>
                \/ redirectFinalURL(c) = ""
                \/ redirectFinalURL(p) = redirectFinalURL(c) /\ redirectHopCount(p) = redirectHopCount(c)
<1>1. /\ Silent(Changed(p, c, "web.title", "web_title", "info"), a)
      /\ \E t1, t2, t3 : Silent(diffWordPressItems(p, c, "web.wordpress_plugins", t1, t2, t3), a)
      /\ \E t1, t2, t3 : Silent(diffWordPressItems(p, c, "web.wordpress_themes", t1, t2, t3), a)
      /\ Silent(diffRedirectChain(p, c), a)
      /\ Silent(Changed(p, c, "web.hsts_preload.preload_status", "hsts_preload_status", "info"), a)
      /\ Silent(diffSecurityHeaders(p, c), a)
  BY WebParts
<1>2. /\ \E t, s : Silent(Changed(p, c, "web.security_headers.content-security-policy", t, s), a)
      /\ \E t, s : Silent(Changed(p, c, "web.security_headers.strict-transport-security", t, s), a)
      /\ \E t, s : Silent(Changed(p, c, "web.security_headers.permissions-policy", t, s), a)
      /\ \E t, s : Silent(Changed(p, c, "web.security_headers.referrer-policy", t, s), a)
  <2> DEFINE s1 == WarningIf(stringVal(p, "web.security_headers.content-security-policy") # "")
             s2 == WarningIf(stringVal(p, "web.security_headers.strict-transport-security") # "")
             h1 == Changed(p, c, "web.security_headers.content-security-policy", "csp_changed", s1)
             h2 == Changed(p, c, "web.security_headers.strict-transport-security", "hsts_changed", s2)
             h3 == Changed(p, c, "web.security_headers.permissions-policy", "permissions_policy_changed", "info")
             h4 == Changed(p, c, "web.security_headers.referrer-policy", "referrer_policy_changed", "info")
  <2>1. diffSecurityHeaders(p, c) = h1 \cup h2 \cup h3 \cup h4
    BY Zenon DEF diffSecurityHeaders
  <2> HIDE DEF h1, h2, h3, h4
  <2>2. Silent(h1, a) /\ Silent(h2, a) /\ Silent(h3, a) /\ Silent(h4, a)
    BY <1>1, <2>1, SilentUnion
  <2> HIDE DEF s1, s2
  <2> QED BY <2>2 DEF h1, h2, h3, h4
<1>3. ASSUME a = "web.redirect_chain", redirectFinalURL(c) # "",
             \/ redirectFinalURL(p) # redirectFinalURL(c)
             \/ redirectHopCount(p) # redirectHopCount(c)
      PROVE  FALSE
  <2>1. \E t, s : Entry(t, s, a, "") \in diffRedirectChain(p, c)
    BY <1>3 DEF diffRedirectChain
  <2> QED BY <1>1, <2>1, AboutItself, NotSilent
<1>4. ASSUME a \in Items
      PROVE  /\ DOMAIN list(p, a) = DOMAIN list(c, a)
             /\ \A x \in DOMAIN list(p, a) : list(p, a)[x] = list(c, a)[x]
  BY <1>4, WebItemsSilent
<1>5. ASSUME a \in InPage PROVE stringVal(c, a) \in {"", stringVal(p, a)}
  BY <1>1, <1>2, <1>5, ChangedSilent DEF InPage
<1> QED
  BY <1>3, <1>4, <1>5

LEMMA RouteInside ==
    ASSUME NEW r, RawData(r)
    PROVE  \A a \in Route : Has(r, a) => Has(r, "traceroute")
<1>1. \A x \in DOMAIN r \ Sections : Container(x) \in DOMAIN r
  BY DEF RawData
<1>2. \A a \in Route : a \notin Sections
  BY DEF Route, Sections
<1>3. ASSUME NEW a \in Route PROVE Container(a) = "traceroute"
  <2>1. /\ a \notin InTLS \cup Flags \cup {"tls.days_remaining"}
        /\ a \notin InRouting \cup {"asn.routing.visible_origins", "asn.routing.as_paths"}
        /\ a # "asn.asn" /\ a \notin {"ct.subdomains", "ct.certificates"}
        /\ a \notin {"crawl.security_txt.contacts", "crawl.security_txt.expires"}
    BY DEF Route, InTLS, Flags, InRouting, pathStability
  <2>2. /\ a \notin InFiles
        /\ a \notin InPage \cup Items \cup {"web.redirect_chain", "web.cookie_names"}
        /\ a \notin Untracked
    BY DEF Route, InFiles, InPage, Items, Untracked
  <2> QED BY <2>1, <2>2 DEF Container
<1> QED
  BY <1>1, <1>2, <1>3 DEF Has

LEMMA WholeSilent ==
    ASSUME NEW p, NEW c, NEW a \in Untracked \ {"traceroute"}, Silent(diffGeneric(p, c), a)
    PROVE  stringVal(p, a) = stringVal(c, a)
<1>1. \A t : Entry(t, "info", a, "") \notin diffGeneric(p, c)
  BY AboutItself, NotSilent
<1>2. Has(p, a) <=> Has(c, a)
  BY <1>1 DEF diffGeneric
<1>3. Has(p, a) /\ Has(c, a) => Whole(p, a) = Whole(c, a)
  BY <1>1 DEF diffGeneric
<1> QED
  BY <1>2, <1>3 DEF Whole, stringVal, Get

(* ... and of a traceroute one of which nothing changed.                   *)
LEMMA RestSilent ==
    ASSUME NEW p, NEW c, RawData(p), RawData(c), Silent(diffGeneric(p, c), "traceroute.rest")
    PROVE  stringVal(p, "traceroute.rest") = stringVal(c, "traceroute.rest")
<1> DEFINE tr == "traceroute"
<1>1. \A t : Entry(t, "info", tr, "") \notin diffGeneric(p, c)
  BY AboutParts, NotSilent DEF Route
<1>2. tr \in Untracked
  BY DEF Untracked
<1>3. Has(p, tr) <=> Has(c, tr)
  BY <1>1, <1>2 DEF diffGeneric
<1>4. Has(p, tr) /\ Has(c, tr) => Whole(p, tr) = Whole(c, tr)
  BY <1>1, <1>2 DEF diffGeneric
<1>5. CASE Has(p, tr) /\ Has(c, tr)
  BY <1>4, <1>5 DEF Whole
<1>6. CASE ~Has(p, tr) /\ ~Has(c, tr)
  <2>1. ~Has(p, "traceroute.rest") /\ ~Has(c, "traceroute.rest")
    BY <1>6, RouteInside DEF Route
  <2> QED BY <2>1 DEF stringVal, Get
<1> QED
  BY <1>3, <1>5, <1>6

(* Entries about sets say what comes and what goes, and nothing else.      *)
Exact(p, c, entries) ==
    \A e \in entries : e.Field \in OneWay \cup TwoWay =>
        \/ /\ e.Type \in Removals /\ e.Field \in TwoWay
           /\ e.Detail \in set(p, e.Field) \ set(c, e.Field)
        \/ e.Type \notin Removals /\ e.Detail \in set(c, e.Field) \ set(p, e.Field)

LEMMA EntryParts ==
    \A t, s, f, x : /\ Entry(t, s, f, x).Type = t /\ Entry(t, s, f, x).Field = f
                    /\ Entry(t, s, f, x).Detail = x
  BY DEF Entry

LEMMA ExactUnion ==
    ASSUME NEW p, NEW c
    PROVE  /\ Exact(p, c, {})
           /\ \A S, T : Exact(p, c, S) /\ Exact(p, c, T) => Exact(p, c, S \cup T)
  BY DEF Exact

LEMMA ExactElsewhere ==
    ASSUME NEW p, NEW c
    PROVE  \A a, t, s, x, condition : a \notin OneWay \cup TwoWay =>
                /\ Exact(p, c, {Entry(t, s, a, x)})
                /\ Exact(p, c, OneIf(condition, Entry(t, s, a, x)))
  BY EntryField DEF Exact, OneIf

LEMMA ExactChanged ==
    ASSUME NEW p, NEW c
    PROVE  /\ \A a, t, s : a \notin OneWay \cup TwoWay =>
                /\ Exact(p, c, Changed(p, c, a, t, s))
                /\ Exact(p, c, BothChanged(p, c, a, t, s))
           /\ \A a, t : a \notin OneWay \cup TwoWay => Exact(p, c, NumberChanged(p, c, a, t))
<1>1. ASSUME NEW a, NEW t, NEW s, a \notin OneWay \cup TwoWay PROVE Exact(p, c, Changed(p, c, a, t, s))
  <2>1. \A e \in Changed(p, c, a, t, s) : e = Entry(t, s, a, "")
    BY DEF Changed, OneIf
  <2>2. Entry(t, s, a, "").Field = a
    BY DEF Entry
  <2>3. \A e \in Changed(p, c, a, t, s) : e.Field = a
    BY <2>1, <2>2
  <2> QED BY <1>1, <2>3 DEF Exact
<1>2. ASSUME NEW a, NEW t, NEW s, a \notin OneWay \cup TwoWay PROVE Exact(p, c, BothChanged(p, c, a, t, s))
  BY <1>1, <1>2, ExactUnion DEF BothChanged
<1>3. ASSUME NEW a, NEW t, a \notin OneWay \cup TwoWay PROVE Exact(p, c, NumberChanged(p, c, a, t))
  <2>1. \A e \in NumberChanged(p, c, a, t) : e = Entry(t, "info", a, "")
    BY DEF NumberChanged, OneIf
  <2>2. Entry(t, "info", a, "").Field = a
    BY DEF Entry
  <2>3. \A e \in NumberChanged(p, c, a, t) : e.Field = a
    BY <2>1, <2>2
  <2> QED BY <1>3, <2>3 DEF Exact
<1> QED
  BY <1>1, <1>2, <1>3

LEMMA ExactPresence ==
    ASSUME NEW p, NEW c, NEW a, NEW v, NEW t1, NEW t2, NEW t3, a \notin OneWay \cup TwoWay
    PROVE  Exact(p, c, PresenceChanged(p, c, a, v, t1, t2, t3))
<1>1. \A t : Entry(t, "info", a, "").Field = a
  BY DEF Entry
<1>2. \A t : Below(Entry(t, "info", a, ""), v).Field = a
  BY DEF Below, Entry
<1>3. \A e \in PresenceChanged(p, c, a, v, t1, t2, t3) :
        \E t : e = Entry(t, "info", a, "") \/ e = Below(Entry(t, "info", a, ""), v)
  BY DEF PresenceChanged, OneIf
<1>4. \A e \in PresenceChanged(p, c, a, v, t1, t2, t3) : e.Field = a
  BY <1>1, <1>2, <1>3
<1> QED
  BY <1>4 DEF Exact

LEMMA ExactItems ==
    ASSUME NEW p, NEW c, NEW a, NEW t1, NEW t2, NEW t3, a \notin OneWay \cup TwoWay
    PROVE  Exact(p, c, diffWordPressItems(p, c, a, t1, t2, t3))
<1>1. \A e \in diffWordPressItems(p, c, a, t1, t2, t3) :
        \E t, x, y : e = Entry(t, "info", a, x) \/ e = Below(Entry(t, "info", a, x), y)
  BY DEF diffWordPressItems
<1>2. \A e \in diffWordPressItems(p, c, a, t1, t2, t3) : e.Field = a
  BY <1>1, EntryField, BelowField
<1> QED
  BY <1>2 DEF Exact

LEMMA ExactAdded ==
    ASSUME NEW p, NEW c
    PROVE  \A a, t, s : t \notin Removals => Exact(p, c, Added(p, c, a, t, s))
  BY EntryParts DEF Added, Exact

LEMMA ExactSets ==
    ASSUME NEW p, NEW c
    PROVE  \A a, t1, t2, s1, s2 : a \in TwoWay /\ t1 \notin Removals /\ t2 \in Removals =>
                Exact(p, c, SetChanged(p, c, a, t1, t2, s1, s2))
<1> SUFFICES ASSUME NEW a \in TwoWay, NEW t1, NEW t2, NEW s1, NEW s2, t1 \notin Removals, t2 \in Removals
             PROVE  Exact(p, c, SetChanged(p, c, a, t1, t2, s1, s2))
  OBVIOUS
<1>1. Exact(p, c, Added(p, c, a, t1, s1))
  BY ExactAdded
<1>2. Exact(p, c, Added(c, p, a, t2, s2))
  BY EntryParts DEF Added, Exact
<1> QED
  BY <1>1, <1>2, ExactUnion DEF SetChanged

LEMMA SetNames ==
    /\ OneWay = {"ct.subdomains", "ct.certificates", "web.cookie_names", "crawl.security_txt.contacts"}
    /\ TwoWay = {"dns.CAA", "asn.routing.visible_origins", "asn.routing.as_paths"}
    /\ Removals = {"caa_removed", "graph_bgp_origin_removed", "graph_as_path_removed"}
  BY DEF OneWay, TwoWay, Removals

LEMMA ComputeExact ==
    ASSUME NEW p, NEW c
    PROVE  Exact(p, c, Compute(p, c))
<1> USE SetNames
<1>1. Exact(p, c, diffTLS(p, c))
  <2>1. Exact(p, c, CertExpiry(p, c)) /\ Exact(p, c, CertExpired(p, c)) /\ Exact(p, c, OCSPStapling(p, c))
    BY ExactElsewhere DEF CertExpiry, CertExpired, OCSPStapling
  <2>2. Exact(p, c, diffTLSExtended(p, c))
    BY <2>1, ExactChanged, ExactUnion DEF diffTLSExtended
  <2> QED BY <2>1, <2>2, ExactChanged, ExactUnion DEF diffTLS
<1>2. Exact(p, c, diffBGP(p, c))
  BY ExactElsewhere, ExactChanged, ExactUnion DEF diffBGP, pathStability
<1>3. Exact(p, c, diffBGPRouteDrift(p, c))
  BY ExactSets, ExactChanged, ExactUnion DEF diffBGPRouteDrift
<1>4. Exact(p, c, diffTracerouteDrift(p, c))
  <2>1. \A e \in diffTracerouteDrift(p, c) : e.Field = "traceroute.hops"
    <3>1. \A e \in diffTracerouteDrift(p, c) : \E t, s, x : e = Entry(t, s, "traceroute.hops", x)
      BY DEF diffTracerouteDrift, OneIf
    <3>2. \A t, s, x : Entry(t, s, "traceroute.hops", x).Field = "traceroute.hops"
      BY DEF Entry
    <3> QED BY <3>1, <3>2
  <2> QED BY <2>1 DEF Exact
<1>5. Exact(p, c, diffCT(p, c))
  BY ExactAdded, ExactUnion DEF diffCT
<1>6. Exact(p, c, diffDNS(p, c))
  <2>1. Exact(p, c, diffDMARC(p, c)) /\ Exact(p, c, diffMailPosture(p, c))
    BY ExactChanged DEF diffDMARC, diffMailPosture
  <2>2. Exact(p, c, diffDNSSEC(p, c)) /\ Exact(p, c, diffMTASTS(p, c))
    BY ExactChanged DEF diffDNSSEC, diffMTASTS
  <2>3. Exact(p, c, diffSOA(p, c))
    BY ExactChanged, ExactUnion DEF diffSOA
  <2>4. Exact(p, c, diffDNSIntel(p, c))
    BY <2>2, ExactChanged, ExactSets, ExactPresence, ExactUnion DEF diffDNSIntel
  <2> QED BY <2>1, <2>3, <2>4, ExactUnion DEF diffDNS
<1>7. Exact(p, c, diffCrawlIntel(p, c))
  <2>1. Exact(p, c, diffSecurityTxt(p, c))
    <3> DEFINE txt == "crawl.security_txt"
    <3>1. CASE Has(p, txt) /\ ~Has(c, txt)
      BY <3>1, ExactElsewhere DEF diffSecurityTxt
    <3>2. CASE Has(c, txt) /\ ~Has(p, txt)
      BY <3>2, ExactElsewhere DEF diffSecurityTxt
    <3>3. CASE Has(c, txt) /\ Has(p, txt)
      BY <3>3, ExactAdded, ExactChanged, ExactUnion DEF diffSecurityTxt
    <3>4. CASE ~Has(c, txt) /\ ~Has(p, txt)
      BY <3>4, ExactUnion DEF diffSecurityTxt
    <3> QED BY <3>1, <3>2, <3>3, <3>4
  <2>2. ASSUME NEW a, NEW type, a \notin OneWay \cup TwoWay
        PROVE  Exact(p, c, diffOptionalCrawlFile(p, c, a, type))
    <3>1. CASE Has(c, a) /\ ~Has(p, a)
      BY <2>2, <3>1, ExactElsewhere DEF diffOptionalCrawlFile
    <3>2. CASE Has(p, a) /\ ~Has(c, a)
      BY <2>2, <3>2, ExactElsewhere DEF diffOptionalCrawlFile
    <3>3. CASE ~(Has(p, a) /\ ~Has(c, a)) /\ ~(Has(c, a) /\ ~Has(p, a))
      <4>1. diffOptionalCrawlFile(p, c, a, type) = Changed(p, c, a, type[3], "info")
        BY <3>3 DEF diffOptionalCrawlFile
      <4> QED BY <2>2, <4>1, ExactChanged
    <3> QED BY <3>1, <3>2, <3>3
  <2> QED BY <2>1, <2>2, ExactUnion DEF diffCrawlIntel
<1>8. Exact(p, c, diffWeb(p, c))
  <2>1. Exact(p, c, diffSecurityHeaders(p, c))
    BY ExactChanged, ExactUnion DEF diffSecurityHeaders
  <2>2. Exact(p, c, diffRedirectChain(p, c))
    <3>1. \A t, s : Entry(t, s, "web.redirect_chain", "").Field = "web.redirect_chain"
      BY DEF Entry
    <3>2. \A e \in diffRedirectChain(p, c) : e.Field = "web.redirect_chain"
      BY <3>1 DEF diffRedirectChain
    <3> QED BY <3>2 DEF Exact
  <2>3. CASE ~Has(c, "web")
    BY <2>3, ExactUnion DEF diffWeb
  <2>4. CASE Has(c, "web") /\ ~Has(p, "web")
    BY <2>4, ExactElsewhere DEF diffWeb
  <2>5. CASE Has(c, "web") /\ Has(p, "web")
    BY <2>1, <2>2, <2>5, ExactChanged, ExactAdded, ExactItems, ExactUnion DEF diffWeb
  <2> QED BY <2>3, <2>4, <2>5
<1>9. Exact(p, c, diffGeneric(p, c))
  <2>1. \A e \in diffGeneric(p, c) : e.Field \in Untracked
    <3>1. \A t, k : Entry(t, "info", k, "").Field = k
      BY DEF Entry
    <3> QED BY <3>1 DEF diffGeneric
  <2> QED BY <2>1 DEF Exact, Untracked
<1> QED
  BY <1>1, <1>2, <1>3, <1>4, <1>5, <1>6, <1>7, <1>8, <1>9, ExactUnion DEF Compute

(* What comes into a set is told with a type that adds, and what goes out  *)
(* of one that can shrink with a type that removes.                        *)
Told(S, a, x, types) == \E t, s : t \in types /\ Entry(t, s, a, x) \in S

Comings == {"new_ct_subdomain", "new_ct_certificate", "cookie_name_added", "security_contact_added",
            "caa_added", "graph_bgp_origin_added", "graph_as_path_added"}

LEMMA ToldUnion ==
    \A S, T, a, x, types : Told(S, a, x, types) \/ Told(T, a, x, types) => Told(S \cup T, a, x, types)
  BY DEF Told

LEMMA AddedTold ==
    ASSUME NEW p, NEW c
    PROVE  \A a, t, s, x, types : x \in set(c, a) \ set(p, a) /\ t \in types =>
                Told(Added(p, c, a, t, s), a, x, types)
  BY DEF Told, Added

LEMMA ChangedSetTold ==
    ASSUME NEW p, NEW c
    PROVE  \A a, t1, t2, s1, s2, x, types :
                /\ x \in set(c, a) \ set(p, a) /\ t1 \in types =>
                        Told(SetChanged(p, c, a, t1, t2, s1, s2), a, x, types)
                /\ x \in set(p, a) \ set(c, a) /\ t2 \in types =>
                        Told(SetChanged(p, c, a, t1, t2, s1, s2), a, x, types)
<1>1. \A a, t1, s1, x, types : x \in set(c, a) \ set(p, a) /\ t1 \in types =>
            Told(Added(p, c, a, t1, s1), a, x, types)
  BY AddedTold
<1>2. \A a, t2, s2, x, types : x \in set(p, a) \ set(c, a) /\ t2 \in types =>
            Told(Added(c, p, a, t2, s2), a, x, types)
  BY AddedTold
<1>3. \A a, t1, t2, s1, s2 :
            SetChanged(p, c, a, t1, t2, s1, s2) = Added(p, c, a, t1, s1) \cup Added(c, p, a, t2, s2)
  BY DEF SetChanged
<1>4. ASSUME NEW a, NEW t1, NEW t2, NEW s1, NEW s2, NEW x, NEW types,
             \/ x \in set(c, a) \ set(p, a) /\ t1 \in types
             \/ x \in set(p, a) \ set(c, a) /\ t2 \in types
      PROVE  Told(SetChanged(p, c, a, t1, t2, s1, s2), a, x, types)
  <2>1. Told(Added(p, c, a, t1, s1), a, x, types) \/ Told(Added(c, p, a, t2, s2), a, x, types)
    BY <1>1, <1>2, <1>4
  <2> QED BY <1>3, <2>1, ToldUnion
<1> QED
  BY <1>4

LEMMA ComputeTold ==
    ASSUME NEW p, NEW c, NEW a, NEW x, NEW types,
           \/ Told(diffBGPRouteDrift(p, c), a, x, types)
           \/ Told(diffCT(p, c), a, x, types)
           \/ Told(diffDNS(p, c), a, x, types)
           \/ Told(diffCrawlIntel(p, c), a, x, types)
           \/ Told(diffWeb(p, c), a, x, types)
    PROVE  Told(Compute(p, c), a, x, types)
  BY DEF Compute, Told

(* The sections that attributes are in.                                    *)
LEMMA Elsewhere ==
    ASSUME NEW a, a \notin InTLS, a \notin Flags, a # "tls.days_remaining", a \notin InRouting,
           a \notin {"asn.routing.visible_origins", "asn.routing.as_paths"}, a # "asn.asn",
           a \notin {"ct.subdomains", "ct.certificates"}, a \notin InFiles,
           a \notin {"crawl.security_txt.contacts", "crawl.security_txt.expires"},
           a \notin InPage, a \notin Items, a \notin {"web.redirect_chain", "web.cookie_names"},
           a \notin Untracked, a \notin Route
    PROVE  Container(a) = "dns"
  BY DEF Container

LEMMA Containers ==
    /\ \A a \in InTLS \cup Flags \cup {"tls.days_remaining"} : Container(a) = "tls"
    /\ \A a \in InRouting \cup {"asn.routing.visible_origins", "asn.routing.as_paths"} :
            Container(a) = "asn.routing"
    /\ Container("asn.asn") = "asn"
    /\ \A a \in {"ct.subdomains", "ct.certificates"} : Container(a) = "ct"
    /\ \A a \in InDNS \cup {"dns.soa.serial", "dns.soa.refresh", "dns.CAA"} : Container(a) = "dns"
    /\ \A a \in InFiles : Container(a) = "crawl"
    /\ \A a \in InPage \cup Items \cup {"web.redirect_chain", "web.cookie_names"} : Container(a) = "web"
    /\ \A a \in {"crawl.security_txt.contacts", "crawl.security_txt.expires"} :
            Container(a) = "crawl.security_txt"
<1> USE DEF InTLS, Flags, InRouting, InFiles, InPage, Items, Untracked, Route, pathStability
<1>1. \A a \in InTLS \cup Flags \cup {"tls.days_remaining"} : Container(a) = "tls"
  BY DEF Container
<1>2. \A a \in InRouting \cup {"asn.routing.visible_origins", "asn.routing.as_paths"} :
            Container(a) = "asn.routing"
  BY DEF Container
<1>3. Container("asn.asn") = "asn"
  BY DEF Container
<1>4. \A a \in {"ct.subdomains", "ct.certificates"} : Container(a) = "ct"
  BY DEF Container
<1>5. \A a \in InDNS \cup {"dns.soa.serial", "dns.soa.refresh", "dns.CAA"} : Container(a) = "dns"
  BY Elsewhere DEF InDNS
<1>6. \A a \in InFiles : Container(a) = "crawl"
  BY DEF Container
<1>7. \A a \in InPage \cup Items \cup {"web.redirect_chain", "web.cookie_names"} : Container(a) = "web"
  BY DEF Container
<1>8. \A a \in {"crawl.security_txt.contacts", "crawl.security_txt.expires"} :
            Container(a) = "crawl.security_txt"
  BY DEF Container
<1> QED
  BY <1>1, <1>2, <1>3, <1>4, <1>5, <1>6, <1>7, <1>8

LEMMA InSection ==
    ASSUME NEW r, RawData(r), NEW a, a \notin Sections, Has(r, a)
    PROVE  Has(r, Container(a))
<1>1. \A x \in DOMAIN r \ Sections : Container(x) \in DOMAIN r
  BY DEF RawData
<1> QED
  BY <1>1 DEF Has

LEMMA ShrinkingTold ==
    ASSUME NEW p, NEW c, NEW a \in TwoWay, NEW x, NEW types, Has(c, Container(a)),
           \/ x \in set(c, a) \ set(p, a) /\ Comings \subseteq types
           \/ x \in set(p, a) \ set(c, a) /\ Removals \subseteq types
    PROVE  Told(Compute(p, c), a, x, types)
<1> USE SetNames
<1>1. CASE a = "dns.CAA"
  <2>1. Has(c, "dns")
    BY <1>1, Containers
  <2>2. Told(SetChanged(p, c, "dns.CAA", "caa_added", "caa_removed", "info", "info"), a, x, types)
    BY <1>1, ChangedSetTold DEF Comings
  <2>3. Told(diffDNSIntel(p, c), a, x, types)
    BY <2>2, ToldUnion DEF diffDNSIntel
  <2>4. Told(diffDNS(p, c), a, x, types)
    BY <2>1, <2>3, ToldUnion DEF diffDNS
  <2> QED BY <2>4, ComputeTold
<1>2. CASE a \in {"asn.routing.visible_origins", "asn.routing.as_paths"}
  <2>1. Has(c, "asn.routing")
    BY <1>2, Containers
  <2> DEFINE rpki == Changed(p, c, "asn.routing.rpki", "graph_rpki_changed", "warning")
             origins == SetChanged(p, c, "asn.routing.visible_origins", "graph_bgp_origin_added",
                             "graph_bgp_origin_removed", "warning", "warning")
             moved == /\ (set(c, "asn.routing.as_paths") \ set(p, "asn.routing.as_paths")) # {}
                      /\ (set(p, "asn.routing.as_paths") \ set(c, "asn.routing.as_paths")) # {}
             sev == WarningIf(moved)
             paths == SetChanged(p, c, "asn.routing.as_paths", "graph_as_path_added",
                             "graph_as_path_removed", sev, "warning")
  <2>2. diffBGPRouteDrift(p, c) = rpki \cup origins \cup paths
    BY <2>1, Zenon DEF diffBGPRouteDrift
  <2> HIDE DEF sev
  <2>3. Told(origins, a, x, types) \/ Told(paths, a, x, types)
    BY <1>2, ChangedSetTold DEF Comings
  <2> HIDE DEF rpki, origins, paths
  <2>4. Told(diffBGPRouteDrift(p, c), a, x, types)
    BY <2>2, <2>3, ToldUnion
  <2> QED BY <2>4, ComputeTold
<1> QED BY <1>1, <1>2

LEMMA GrowingTold ==
    ASSUME NEW p, NEW c, NEW a \in OneWay, NEW x \in set(c, a) \ set(p, a),
           RawData(c), OnPage(a) => Has(p, Container(a))
    PROVE  Told(Compute(p, c), a, x, Comings)
<1> USE SetNames
<1>1. a \notin Sections /\ Has(c, a)
  BY DEF set, Get, Sections
<1>2. Has(c, Container(a))
  BY <1>1, InSection
<1>3. CASE a \in {"ct.subdomains", "ct.certificates"}
  <2>1. Has(c, "ct")
    BY <1>2, <1>3, Containers
  <2>2. Told(diffCT(p, c), a, x, Comings)
    BY <2>1, <1>3, AddedTold, ToldUnion DEF diffCT, Comings
  <2> QED BY <2>2, ComputeTold
<1>4. CASE a = "web.cookie_names"
  <2>1. Container(a) = "web"
    BY <1>4, Containers
  <2>2. Has(c, "web") /\ Has(p, "web")
    BY <1>2, <2>1 DEF OnPage
  <2>3. Told(Added(p, c, a, "cookie_name_added", "info"), a, x, Comings)
    BY AddedTold DEF Comings
  <2>4. Added(p, c, a, "cookie_name_added", "info") \subseteq diffWeb(p, c)
    BY <1>4, <2>2 DEF diffWeb
  <2>5. Told(diffWeb(p, c), a, x, Comings)
    BY <2>3, <2>4 DEF Told
  <2> QED BY <2>5, ComputeTold
<1>5. CASE a = "crawl.security_txt.contacts"
  <2>1. Container(a) = "crawl.security_txt"
    BY <1>5, Containers
  <2>2. Has(c, "crawl.security_txt") /\ Has(p, "crawl.security_txt") /\ Has(c, "crawl")
    BY <1>2, <2>1 DEF OnPage, RawData, Has
  <2>3. Told(Added(p, c, a, "security_contact_added", "info"), a, x, Comings)
    BY AddedTold DEF Comings
  <2>4. Added(p, c, a, "security_contact_added", "info") \subseteq diffSecurityTxt(p, c)
    BY <1>5, <2>2 DEF diffSecurityTxt
  <2>5. Told(diffCrawlIntel(p, c), a, x, Comings)
    BY <2>2, <2>3, <2>4 DEF Told, diffCrawlIntel
  <2> QED BY <2>5, ComputeTold
<1> QED BY <1>3, <1>4, <1>5

(* What is seen of an attribute, by the way it is read.                    *)
LEMMA TextView ==
    ASSUME NEW r, NEW a \in Texts \cup (Untracked \ {"traceroute"}) \cup {"traceroute.rest"}
    PROVE  View(r, a) = stringVal(r, a)
<1>1. /\ a \notin Numbers /\ a \notin Flags /\ a \notin OneWay \cup TwoWay /\ a \notin Items
      /\ a # "traceroute.hops" /\ a # "web.redirect_chain"
  BY DEF Texts, InTLS, InRouting, InDNS, InFiles, InPage, Numbers, Flags, OneWay, TwoWay, Items,
         Untracked, pathStability
<1> QED
  BY <1>1 DEF View

LEMMA OtherViews ==
    ASSUME NEW r
    PROVE  /\ \A a \in Numbers : View(r, a) = intVal(r, a)
           /\ \A a \in Flags : View(r, a) = boolVal(r, a)
           /\ \A a \in OneWay \cup TwoWay : View(r, a) = set(r, a)
           /\ \A a \in Items : View(r, a) = list(r, a)
           /\ View(r, "traceroute.hops") = tracerouteHopIPs(r)
           /\ View(r, "web.redirect_chain") = <<redirectHopCount(r), redirectFinalURL(r)>>
<1>1. /\ \A a \in Flags : a \notin Numbers
      /\ \A a \in OneWay \cup TwoWay : a \notin Numbers /\ a \notin Flags
      /\ \A a \in Items : a \notin Numbers /\ a \notin Flags /\ a \notin OneWay \cup TwoWay
      /\ \A a \in {"traceroute.hops", "web.redirect_chain"} :
            /\ a \notin Numbers /\ a \notin Flags /\ a \notin OneWay \cup TwoWay /\ a \notin Items
  BY DEF Numbers, Flags, OneWay, TwoWay, Items
<1>2. \A a \in Numbers : View(r, a) = intVal(r, a)
  BY <1>1 DEF View, Numbers
<1>3. \A a \in Flags : View(r, a) = boolVal(r, a)
  BY <1>1 DEF View, Flags
<1>4. \A a \in OneWay \cup TwoWay : View(r, a) = set(r, a)
  BY <1>1 DEF View, OneWay, TwoWay
<1>5. \A a \in Items : View(r, a) = list(r, a)
  BY <1>1 DEF View, Items
<1>6. View(r, "traceroute.hops") = tracerouteHopIPs(r)
  BY <1>1 DEF View
<1>7. View(r, "web.redirect_chain") = <<redirectHopCount(r), redirectFinalURL(r)>>
  BY <1>1 DEF View
<1> QED
  BY <1>2, <1>3, <1>4, <1>5, <1>6, <1>7

(* What ReaderKnows says of one attribute, that is known as known, of a    *)
(* target whose data is r and where gone was missing from a snapshot.      *)
Whiles   == Untracked \cup Route
Versions == Items \cup {"tls.ocsp_stapled"}
Plain(a) == /\ a \notin Whiles /\ a \notin OneWay /\ a \notin TwoWay \cup Versions
            /\ a \notin BothSet /\ a # "tls.days_remaining" /\ a # "tls.expired"

Believed(a, r, known, gone) ==
    /\ a \in Whiles => known = View(r, a)
    /\ a \in OneWay => (OnPage(a) /\ Container(a) \in gone) \/ View(r, a) \subseteq known
    /\ a \in TwoWay \cup Versions => Container(a) \in gone \/ known = View(r, a)
    /\ a \in BothSet => Container(a) \in gone \/ a \in gone \/ known = View(r, a)
    /\ a = "tls.days_remaining" => (View(r, a) >= 0 => known \in 0 .. View(r, a))
    /\ a = "tls.expired" => (View(r, a) => known)
    /\ Plain(a) => ~Has(r, a) \/ (OnPage(a) /\ Container(a) \in gone) \/ known = View(r, a)

LEMMA Apartness ==
    /\ Whiles \cap (OneWay \cup TwoWay \cup Versions \cup BothSet) = {}
    /\ OneWay \cap (TwoWay \cup Versions \cup BothSet) = {}
    /\ (TwoWay \cup Versions) \cap BothSet = {}
    /\ {"tls.days_remaining", "tls.expired"} \cap
            (Whiles \cup OneWay \cup TwoWay \cup Versions \cup BothSet) = {}
  BY DEF Whiles, OneWay, TwoWay, Versions, BothSet, Untracked, Items, Route

LEMMA KnowsBelieved ==
    ReaderKnows <=> (newest # noRaw => \A a \in Attributes : Believed(a, newest, told[a], missed))
<1> DEFINE dates(a) == View(newest, a) >= 0 => told[a] \in 0 .. View(newest, a)
           over(a)  == View(newest, a) => told[a]
           clause(a) ==
            CASE a \in Untracked \cup Route -> Known(a)
              [] a \in OneWay -> (OnPage(a) /\ Lost(a)) \/ View(newest, a) \subseteq told[a]
              [] a \in TwoWay \cup Items \cup {"tls.ocsp_stapled"} -> Lost(a) \/ Known(a)
              [] a \in BothSet -> Lost(a) \/ a \in missed \/ Known(a)
              [] a = "tls.days_remaining" -> dates(a)
              [] a = "tls.expired" -> over(a)
              [] OTHER -> ~Has(newest, a) \/ (OnPage(a) /\ Lost(a)) \/ Known(a)
<1>0. ReaderKnows <=> (newest # noRaw => \A a \in Attributes : clause(a))
  BY DEF ReaderKnows
<1>1. ASSUME NEW a PROVE clause(a) <=> Believed(a, newest, told[a], missed)
  <2> USE Apartness
  <2>1. CASE a \in Whiles
    BY <2>1 DEF Believed, Plain, Known, Whiles, Versions
  <2>2. CASE a \in OneWay
    BY <2>2 DEF Believed, Plain, Lost, Whiles, Versions
  <2>3. CASE a \in TwoWay \cup Versions
    BY <2>3 DEF Believed, Plain, Known, Lost, Whiles, Versions
  <2>4. CASE a \in BothSet
    BY <2>4 DEF Believed, Plain, Known, Lost, Whiles, Versions
  <2>5. a \in {"tls.days_remaining", "tls.expired"} =>
            /\ a \notin Whiles /\ a \notin OneWay /\ a \notin TwoWay \cup Versions /\ a \notin BothSet
            /\ a \notin Untracked \cup Route
            /\ a \notin TwoWay \cup Items \cup {"tls.ocsp_stapled"}
    BY DEF Whiles, Versions
  <2>6. CASE a = "tls.days_remaining"
    <3>1. clause(a) <=> dates(a)
      <4> HIDE DEF dates, over
      <4> QED BY <2>5, <2>6
    <3>2. Believed(a, newest, told[a], missed) <=>
            (View(newest, a) >= 0 => told[a] \in 0 .. View(newest, a))
      BY <2>5, <2>6 DEF Believed, Plain
    <3> QED BY <3>1, <3>2
  <2>7. CASE a = "tls.expired"
    <3>1. clause(a) <=> over(a)
      <4> HIDE DEF dates, over
      <4> QED BY <2>5, <2>7
    <3>2. Believed(a, newest, told[a], missed) <=> (View(newest, a) => told[a])
      BY Zenon, <2>5, <2>7 DEF Believed, Plain
    <3> QED BY <3>1, <3>2
  <2>8. CASE Plain(a)
    BY <2>8 DEF Believed, Plain, Known, Lost, Whiles, Versions
  <2> QED BY <2>1, <2>2, <2>3, <2>4, <2>6, <2>7, <2>8 DEF Plain
<1> HIDE DEF clause
<1> QED
  BY <1>0, <1>1

(* Silence about a text that is there means that it was the same before.   *)
LEMMA TextSilent ==
    ASSUME NEW p, NEW c, RawData(c), NEW a \in Texts, Has(c, a), Silent(Compute(p, c), a),
           OnPage(a) => Has(p, Container(a)), a \in BothSet => Has(p, a) /\ RawData(p)
    PROVE  Has(p, a) /\ stringVal(c, a) = stringVal(p, a)
<1>1. a \in DOMAIN c \ Sections
  BY DEF Has, Sections, Texts, InTLS, InRouting, InDNS, InFiles, InPage, pathStability
<1>2. stringVal(c, a) # "" /\ Has(c, Container(a))
  BY <1>1 DEF RawData, stringVal, Get, Has
<1>3. Has(p, a) \/ stringVal(p, a) = ""
  BY DEF stringVal, Get
<1>4. a \in BothSet => stringVal(p, a) # ""
  BY DEF RawData, stringVal, Get, Has
<1>5. ASSUME stringVal(c, a) \in {"", stringVal(p, a)}
      PROVE  Has(p, a) /\ stringVal(c, a) = stringVal(p, a)
  BY <1>2, <1>3, <1>5
<1>6. CASE a \in InTLS
  <2>1. Has(c, "tls")
    BY <1>2, <1>6, Containers
  <2> QED BY <1>4, <1>5, <1>6, <2>1, ComputeSilent, TLSSilent
<1>7. CASE a \in InRouting \cup {"asn.asn"}
  <2>1. Has(c, "asn") /\ (a \in InRouting => Has(c, "asn.routing"))
    <3>1. IF a = "asn.asn" THEN Container(a) = "asn" ELSE Container(a) = "asn.routing"
      BY <1>7, Containers
    <3>2. Has(c, "asn.routing") => Has(c, "asn")
      BY DEF RawData, Has
    <3>3. "asn.asn" \notin InRouting
      BY DEF InRouting, pathStability
    <3> QED BY <1>2, <3>1, <3>2, <3>3
  <2>2. CASE a # "asn.routing.rpki"
    BY <1>5, <1>7, <2>1, <2>2, ComputeSilent, RoutingSilent
  <2>3. CASE a = "asn.routing.rpki"
    BY <1>5, <2>1, <2>3, ComputeSilent, DriftSilent DEF InRouting
  <2> QED BY <2>2, <2>3
<1>8. CASE a \in InDNS
  <2>1. Has(c, "dns")
    BY <1>2, <1>8, Containers
  <2> QED BY <1>5, <1>8, <2>1, ComputeSilent, DNSSilent
<1>9. CASE a \in InFiles
  <2>1. Has(c, "crawl")
    BY <1>2, <1>9, Containers
  <2> QED BY <1>5, <1>9, <2>1, ComputeSilent, CrawlSilent
<1>10. CASE a = "crawl.security_txt.expires"
  <2>1. Has(c, "crawl.security_txt") /\ Has(c, "crawl") /\ Has(p, "crawl.security_txt")
    BY <1>2, <1>10, Containers DEF OnPage, RawData, Has
  <2> QED BY <1>5, <1>10, <2>1, ComputeSilent, CrawlSilent
<1>11. CASE a \in InPage
  <2>1. Has(c, "web") /\ Has(p, "web")
    BY <1>2, <1>11, Containers DEF OnPage
  <2> QED BY <1>5, <1>11, <2>1, ComputeSilent, PageSilent
<1> QED
  BY <1>6, <1>7, <1>8, <1>9, <1>10, <1>11 DEF Texts

(* What silence says of the other attributes.                              *)
LEMMA ListSilent ==
    ASSUME NEW p, NEW c, RawData(p), RawData(c), NEW a \in Items, Has(p, "web"), Has(c, "web"),
           Silent(Compute(p, c), a)
    PROVE  list(p, a) = list(c, a)
<1>1. /\ DOMAIN list(p, a) = DOMAIN list(c, a)
      /\ \A x \in DOMAIN list(p, a) : list(p, a)[x] = list(c, a)[x]
  <2>1. Silent(diffWeb(p, c), a)
    BY ComputeSilent
  <2> QED BY <2>1, WebItemsSilent
<1>2. ASSUME NEW r, RawData(r) PROVE list(r, a) = [x \in DOMAIN list(r, a) |-> list(r, a)[x]]
  <2>1. CASE Has(r, a)
    BY <1>2, <2>1 DEF RawData, list, Get, Has
  <2>2. CASE ~Has(r, a)
    BY <2>2 DEF list, Get
  <2> QED BY <2>1, <2>2
<1> QED
  BY <1>1, <1>2

LEMMA RedirectsSilent ==
    ASSUME NEW p, NEW c, RawData(c), Has(c, "web.redirect_chain"), Has(p, "web"),
           Silent(Compute(p, c), "web.redirect_chain")
    PROVE  View(p, "web.redirect_chain") = View(c, "web.redirect_chain") /\ Has(p, "web.redirect_chain")
<1>1. redirectFinalURL(c) # ""
  BY DEF RawData, Has
<1>2. Has(c, "web")
  BY InSection, Containers DEF Sections
<1>3. redirectFinalURL(p) = redirectFinalURL(c) /\ redirectHopCount(p) = redirectHopCount(c)
  BY <1>1, <1>2, ComputeSilent, PageSilent
<1>4. Has(p, "web.redirect_chain")
  BY <1>1, <1>3 DEF redirectFinalURL, list, Get
<1> QED
  BY <1>3, <1>4, OtherViews

(* How the reader follows: what is not mentioned is kept.                  *)
LEMMA FollowOther ==
    ASSUME NEW r, NEW S, NEW a, a \notin OneWay \cup TwoWay
    PROVE  /\ Silent(S, a) => Follow(a, r, S) = told[a]
           /\ ~Silent(S, a) => Follow(a, r, S) = View(r, a)
  BY DEF Follow, Silent

LEMMA FollowSet ==
    ASSUME NEW r, NEW S, NEW a \in OneWay \cup TwoWay
    PROVE  \A x : x \in Follow(a, r, S) <=>
                    \/ /\ x \in told[a]
                       /\ ~\E e \in S : e.Field = a /\ e.Type \in Removals /\ e.Detail = x
                    \/ \E e \in S : e.Field = a /\ e.Type \notin Removals /\ e.Detail = x
<1>1. About(a) = {a}
  BY DEF About, OneWay, TwoWay, Route
<1> DEFINE es == {e \in S : e.Field = a}
<1>2. Follow(a, r, S) = (told[a] \ {e.Detail : e \in {x \in es : x.Type \in Removals}})
                        \cup {e.Detail : e \in {x \in es : x.Type \notin Removals}}
  BY <1>1 DEF Follow
<1> QED
  BY <1>2

LEMMA ToldEntry ==
    ASSUME NEW S, NEW a, NEW x, NEW types, Told(S, a, x, types)
    PROVE  \E e \in S : e.Field = a /\ e.Type \in types /\ e.Detail = x
  BY EntryParts DEF Told

LEMMA ComingsAdd == Comings \cap Removals = {}
  BY DEF Comings, Removals

(* A set that can shrink is followed exactly.                              *)
LEMMA ShrinkingFollowed ==
    ASSUME NEW p, NEW c, NEW a \in TwoWay, told[a] = set(p, a), Has(c, Container(a))
    PROVE  Follow(a, c, Compute(p, c)) = set(c, a)
<1> DEFINE S == Compute(p, c)
<1>1. ASSUME NEW x \in set(c, a) \ set(p, a)
      PROVE  \E e \in S : e.Field = a /\ e.Type \notin Removals /\ e.Detail = x
  BY ShrinkingTold, ToldEntry, ComingsAdd
<1>2. ASSUME NEW x \in set(p, a) \ set(c, a)
      PROVE  \E e \in S : e.Field = a /\ e.Type \in Removals /\ e.Detail = x
  <2>1. Told(S, a, x, Removals)
    BY ShrinkingTold
  <2> HIDE DEF S
  <2> QED BY <2>1, ToldEntry
<1>3. ASSUME NEW e \in S, e.Field = a
      PROVE  \/ e.Type \in Removals /\ e.Detail \in set(p, a) \ set(c, a)
             \/ e.Type \notin Removals /\ e.Detail \in set(c, a) \ set(p, a)
  BY <1>3, ComputeExact DEF Exact
<1> HIDE DEF S
<1>4. ASSUME NEW x PROVE x \in Follow(a, c, S) <=> x \in set(c, a)
  BY <1>1, <1>2, <1>3, FollowSet
<1> QED
  BY <1>4 DEF S

(* A set that only grows is followed where it grows.                       *)
LEMMA GrowingFollowed ==
    ASSUME NEW p, NEW c, NEW a \in OneWay, set(p, a) \subseteq told[a],
           RawData(c), OnPage(a) => Has(p, Container(a))
    PROVE  set(c, a) \subseteq Follow(a, c, Compute(p, c))
<1> DEFINE S == Compute(p, c)
<1>1. ASSUME NEW x \in set(c, a) \ set(p, a)
      PROVE  \E e \in S : e.Field = a /\ e.Type \notin Removals /\ e.Detail = x
  BY GrowingTold, ToldEntry, ComingsAdd
<1>2. OneWay \cap TwoWay = {}
  BY SetNames
<1>3. ASSUME NEW e \in S, e.Field = a PROVE e.Type \notin Removals
  BY <1>2, <1>3, ComputeExact DEF Exact
<1> HIDE DEF S
<1>4. ASSUME NEW x \in set(c, a) PROVE x \in Follow(a, c, S)
  BY <1>1, <1>3, FollowSet
<1> QED
  BY <1>4 DEF S

(* A scan of which the changes are followed leaves the reader with what    *)
(* ReaderKnows says, and what was missing is known to be.                  *)
LEMMA BelievedStep ==
    ASSUME NEW p, NEW c, RawData(p), RawData(c), NEW gone, NEW a,
           a \notin Sections, \E r : RawData(r) /\ a \in DOMAIN r,
           Believed(a, p, told[a], missed), missed \subseteq gone,
           Has(p, a) \/ a \in missed, Has(p, Container(a)) \/ Container(a) \in missed,
           Has(c, a) \/ a \in gone, Has(c, Container(a)) \/ Container(a) \in gone
    PROVE  Believed(a, c, Follow(a, c, Compute(p, c)), gone)
<1> DEFINE S   == Compute(p, c)
           new == Follow(a, c, S)
<1>0. a \in Texts \cup Numbers \cup Flags \cup OneWay \cup TwoWay \cup Items
             \cup (Untracked \ {"traceroute"}) \cup Route \cup {"web.redirect_chain"}
  BY DEF RawData, Sections
<1>1. ASSUME a \in Whiles PROVE new = View(c, a)
  <2>1. told[a] = View(p, a)
    BY <1>1 DEF Believed
  <2>2. a \notin OneWay \cup TwoWay
    BY <1>1, Apartness
  <2>3. CASE ~Silent(S, a)
    BY <2>2, <2>3, FollowOther
  <2>4. CASE Silent(S, a) /\ a = "traceroute.hops"
    <3>1. View(p, a) = View(c, a)
      BY <2>4, ComputeSilent, HopsSilent, OtherViews
    <3> QED BY <2>1, <2>2, <2>4, <3>1, FollowOther
  <2>5. CASE Silent(S, a) /\ a = "traceroute.rest"
    <3>1. View(p, a) = View(c, a)
      BY <2>5, ComputeSilent, RestSilent, TextView
    <3> QED BY <2>1, <2>2, <2>5, <3>1, FollowOther
  <2>6. CASE Silent(S, a) /\ a \notin Route
    <3>1. a \in Untracked \ {"traceroute"}
      BY <1>1, <2>6 DEF Whiles, Sections
    <3>2. View(p, a) = View(c, a)
      BY <2>6, <3>1, ComputeSilent, WholeSilent, TextView
    <3> QED BY <2>1, <2>2, <2>6, <3>2, FollowOther
  <2> QED BY <2>3, <2>4, <2>5, <2>6 DEF Route
<1>2. ASSUME a \in OneWay, ~(OnPage(a) /\ Container(a) \in gone) PROVE View(c, a) \subseteq new
  <2>1. View(p, a) \subseteq told[a]
    BY <1>2 DEF Believed
  <2>2. OnPage(a) => Has(p, Container(a))
    BY <1>2
  <2> QED BY <1>2, <2>1, <2>2, GrowingFollowed, OtherViews
<1>3. ASSUME a \in TwoWay, Container(a) \notin gone PROVE new = View(c, a)
  <2>1. told[a] = View(p, a)
    BY <1>3 DEF Believed
  <2> QED BY <1>3, <2>1, ShrinkingFollowed, OtherViews
<1>4. ASSUME a \in Versions, Container(a) \notin gone PROVE new = View(c, a)
  <2>0. a \in TwoWay \cup Versions /\ a \notin OneWay \cup TwoWay
    BY <1>4 DEF Versions, Items, OneWay, TwoWay
  <2>1. told[a] = View(p, a)
    BY <1>4, <2>0 DEF Believed
  <2>2. Has(p, Container(a)) /\ Has(c, Container(a))
    BY <1>4
  <2>3. CASE ~Silent(S, a)
    BY <2>0, <2>3, FollowOther
  <2>4. CASE Silent(S, a) /\ a \in Items
    <3>1. Has(p, "web") /\ Has(c, "web")
      BY <2>2, <2>4, Containers
    <3>2. list(p, a) = list(c, a)
      BY <2>4, <3>1, ListSilent
    <3>3. View(p, a) = View(c, a)
      BY <2>4, <3>2, OtherViews
    <3> QED BY <2>0, <2>1, <2>4, <3>3, FollowOther
  <2>5. CASE Silent(S, a) /\ a = "tls.ocsp_stapled"
    <3>1. Has(c, "tls")
      BY <2>2, <2>5, Containers DEF Flags
    <3>2. boolVal(c, a) = boolVal(p, a)
      BY <2>5, <3>1, ComputeSilent, TLSSilent
    <3>3. View(p, a) = View(c, a)
      BY <2>5, <3>2, OtherViews DEF Flags
    <3> QED BY <2>0, <2>1, <2>5, <3>3, FollowOther
  <2> QED BY <1>4, <2>3, <2>4, <2>5 DEF Versions
<1>5. ASSUME a \in BothSet, Container(a) \notin gone, a \notin gone PROVE new = View(c, a)
  <2>1. told[a] = View(p, a) /\ a \notin OneWay \cup TwoWay
    BY <1>5, Apartness DEF Believed
  <2>2. Has(p, a) /\ Has(c, a) /\ Has(p, Container(a)) /\ Has(c, Container(a))
    BY <1>5
  <2>3. CASE ~Silent(S, a)
    BY <2>1, <2>3, FollowOther
  <2>4. CASE Silent(S, a) /\ a \in Texts
    <3>1. View(p, a) = View(c, a)
      BY <2>2, <2>4, TextSilent, TextView
    <3> QED BY <2>1, <2>4, <3>1, FollowOther
  <2>5. CASE Silent(S, a) /\ a \in {"dns.soa.serial", "dns.soa.refresh"}
    <3>1. intVal(p, a) > 0 /\ intVal(c, a) > 0 /\ Has(c, "dns")
      BY <2>2, <2>5, NumbersTyped, Containers
    <3>2. intVal(c, a) = intVal(p, a)
      BY <2>5, <3>1, ComputeSilent, DNSSilent
    <3>3. View(p, a) = View(c, a)
      BY <2>5, <3>2, OtherViews DEF Numbers
    <3> QED BY <2>1, <2>5, <3>3, FollowOther
  <2> QED BY <1>5, <2>3, <2>4, <2>5 DEF BothSet, Texts, InTLS
<1>6. ASSUME a = "tls.days_remaining", View(c, a) >= 0 PROVE new \in 0 .. View(c, a)
  <2>1. View(c, a) = intVal(c, a) /\ View(p, a) = intVal(p, a) /\ intVal(c, a) \in Int /\ intVal(p, a) \in Int
    BY <1>6, OtherViews, NumbersTyped DEF Numbers
  <2>2. a \notin OneWay \cup TwoWay
    BY <1>6, Apartness
  <2>3. CASE ~Silent(S, a)
    BY <1>6, <2>1, <2>2, <2>3, FollowOther
  <2>4. CASE Silent(S, a)
    <3>1. Has(c, a)
      BY <1>6, <2>1 DEF intVal, Get
    <3>2. Has(c, "tls")
      BY <1>6, <3>1, InSection, Containers
    <3>3. ~(intVal(c, a) >= 0 /\ (intVal(p, a) < 0 \/ intVal(c, a) < intVal(p, a)))
      BY <1>6, <2>4, <3>2, ComputeSilent, TLSSilent
    <3>4. told[a] \in 0 .. View(p, a) /\ View(p, a) <= View(c, a)
      BY <1>6, <2>1, <3>3 DEF Believed
    <3>5. new = told[a]
      BY <2>2, <2>4, FollowOther
    <3> QED BY <2>1, <3>4, <3>5
  <2> QED BY <2>3, <2>4
<1>7. ASSUME a = "tls.expired", View(c, a) PROVE new
  <2>1. View(c, a) = boolVal(c, a) /\ View(p, a) = boolVal(p, a)
    BY <1>7, OtherViews DEF Flags
  <2>2. a \notin OneWay \cup TwoWay
    BY <1>7, Apartness
  <2>3. CASE ~Silent(S, a)
    <3>1. new = View(c, a)
      BY <2>2, <2>3, FollowOther
    <3> QED BY <1>7, <3>1
  <2>4. CASE Silent(S, a)
    <3>1. Has(c, a)
      BY <1>7, <2>1 DEF boolVal, Get
    <3>2. Has(c, "tls")
      BY <1>7, <3>1, InSection, Containers DEF Flags
    <3>3. boolVal(p, a)
      BY <1>7, <2>1, <2>4, <3>2, ComputeSilent, TLSSilent
    <3>4. told[a]
      BY <1>7, <2>1, <3>3 DEF Believed
    <3>5. new = told[a]
      BY <2>2, <2>4, FollowOther
    <3> QED BY <3>4, <3>5
  <2> QED BY <2>3, <2>4
<1>8. ASSUME Plain(a), Has(c, a), ~(OnPage(a) /\ Container(a) \in gone) PROVE new = View(c, a)
  <2>1. a \notin OneWay \cup TwoWay
    BY <1>8 DEF Plain
  <2>2. a \in (Texts \ BothSet) \cup {"web.redirect_chain"}
    BY <1>0, <1>8 DEF Plain, Whiles, Versions, Flags, Numbers, BothSet
  <2>3. OnPage(a) => Has(p, Container(a))
    BY <1>8
  <2>4. CASE ~Silent(S, a)
    BY <2>1, <2>4, FollowOther
  <2>5. CASE Silent(S, a)
    <3>1. ASSUME a \in Texts \ BothSet PROVE Has(p, a) /\ View(p, a) = View(c, a)
      BY <1>8, <2>3, <2>5, <3>1, TextSilent, TextView
    <3>2. ASSUME a = "web.redirect_chain" PROVE Has(p, a) /\ View(p, a) = View(c, a)
      <4>1. Has(p, "web")
        BY <2>3, <3>2, Containers DEF OnPage
      <4> QED BY <1>8, <2>5, <3>2, <4>1, RedirectsSilent
    <3>3. Has(p, a) /\ View(p, a) = View(c, a)
      BY <2>2, <3>1, <3>2
    <3>4. told[a] = View(p, a)
      BY <1>8, <3>3 DEF Believed
    <3> QED BY <2>1, <2>5, <3>3, <3>4, FollowOther
  <2> QED BY <2>4, <2>5
<1> HIDE DEF new
<1>9. a = "tls.expired" => (View(c, a) => new)
  BY <1>7
<1>10. a \in TwoWay \cup Versions => Container(a) \in gone \/ new = View(c, a)
  BY <1>3, <1>4
<1>11. a \in OneWay => (OnPage(a) /\ Container(a) \in gone) \/ View(c, a) \subseteq new
  BY <1>2
<1>12. a \in BothSet => Container(a) \in gone \/ a \in gone \/ new = View(c, a)
  BY <1>5
<1>13. a = "tls.days_remaining" => (View(c, a) >= 0 => new \in 0 .. View(c, a))
  BY <1>6
<1>14. Plain(a) => ~Has(c, a) \/ (OnPage(a) /\ Container(a) \in gone) \/ new = View(c, a)
  BY <1>8
<1>15. Believed(a, c, new, gone)
  BY Zenon, <1>1, <1>9, <1>10, <1>11, <1>12, <1>13, <1>14 DEF Believed
<1> QED
  BY <1>15 DEF new

LEMMA BelievedStart ==
    ASSUME NEW r, RawData(r), NEW gone, NEW a
    PROVE  Believed(a, r, View(r, a), gone)
<1>1. a = "tls.days_remaining" => (View(r, a) >= 0 => View(r, a) \in 0 .. View(r, a))
  <2> SUFFICES ASSUME a = "tls.days_remaining", View(r, a) >= 0 PROVE View(r, a) \in 0 .. View(r, a)
    OBVIOUS
  <2>1. View(r, a) \in Int
    BY OtherViews, NumbersTyped DEF Numbers
  <2> QED BY <2>1
<1>2. a = "tls.expired" => (View(r, a) => View(r, a))
  OBVIOUS
<1>3. View(r, a) \subseteq View(r, a)
  OBVIOUS
<1> QED
  BY Zenon, <1>1, <1>2, <1>3 DEF Believed

(* Where there is a snapshot, what is not in it is known to be missing.    *)
ReaderInv ==
    /\ AlertsInv
    /\ newest # noRaw => /\ Names \ DOMAIN newest \subseteq missed
                         /\ \A a \in Attributes : Believed(a, newest, told[a], missed)

LEMMA ReaderPart ==
    ASSUME [Next]_vars
    PROVE  /\ case' = case
           /\ \/ UNCHANGED <<newest, told, missed>>
              \/ \E r \in case.finds : FirstScan(r) \/ Rescan(r)
<1>1. ASSUME NEW r \in case.finds, FirstScan(r) \/ Rescan(r) PROVE case' = case
  BY <1>1 DEF FirstScan, Rescan
<1>2. CASE Enriched
  BY <1>2 DEF Enriched
<1>3. ASSUME NEW d \in Slots, Work(d) \/ ReadHooksFails(d) PROVE UNCHANGED <<newest, told, missed, case>>
  BY <1>3 DEF Work, ReadHooks, FilterHook, ReadHooksFails, history
<1>4. ASSUME NEW m, Sent(m) PROVE UNCHANGED <<newest, told, missed, case>>
  BY <1>4 DEF Sent, history
<1>5. ASSUME NEW h, SetHook(h) PROVE UNCHANGED <<newest, told, missed, case>>
  BY <1>5 DEF SetHook, history
<1>6. ASSUME NEW q, Edit(q) PROVE UNCHANGED <<newest, told, missed, case>>
  BY <1>6 DEF Edit, history
<1>7. CASE Import
  BY <1>7 DEF Import, history
<1>8. CASE Restart
  BY <1>8 DEF Restart, history
<1>9. CASE UNCHANGED vars
  BY <1>9 DEF vars, history
<1> QED
  BY <1>1, <1>2, <1>3, <1>4, <1>5, <1>6, <1>7, <1>8, <1>9 DEF Next

LEMMA ReaderStep == ASSUME ReaderInv, [Next]_vars PROVE ReaderInv'
<1>1. AlertsInv /\ AlertsInv'
  BY AlertsStep DEF ReaderInv
<1>2. case' = case /\ Names' = Names /\ Attributes' = Attributes
  BY ReaderPart DEF Names, Attributes
<1>3. \A r \in case.finds : RawData(r)
  BY <1>1, CasesAssumption DEF AlertsInv
<1>4. CASE UNCHANGED <<newest, told, missed>>
  BY <1>1, <1>2, <1>4 DEF ReaderInv, noRaw
<1>5. ASSUME NEW r \in case.finds, FirstScan(r) PROVE ReaderInv'
  <2>1. newest' = r /\ missed' = Names \ DOMAIN r /\ told' = [a \in Attributes |-> View(r, a)]
    BY <1>5 DEF FirstScan
  <2>2. \A a \in Attributes : Believed(a, newest', told'[a], missed')
    BY <1>3, <2>1, BelievedStart
  <2>3. Names \ DOMAIN newest' \subseteq missed'
    BY <2>1
  <2> QED BY <1>1, <1>2, <2>2, <2>3 DEF ReaderInv, noRaw
<1>6. ASSUME NEW r \in case.finds, Rescan(r) PROVE ReaderInv'
  <2>1. /\ newest # noRaw /\ newest' = r /\ missed' = missed \cup (Names \ DOMAIN r)
        /\ told' = [a \in Attributes |-> Follow(a, r, Compute(newest, r))]
    BY <1>6 DEF Rescan
  <2>2. RawData(newest) /\ RawData(r) /\ Names \ DOMAIN newest \subseteq missed
    BY <1>1, <1>3, <2>1 DEF AlertsInv, ReaderInv
  <2>3. Names \ DOMAIN newest' \subseteq missed'
    BY <2>1
  <2>4. ASSUME NEW a \in Attributes PROVE Believed(a, newest', told'[a], missed')
    <3>1. PICK s \in case.finds : a \in DOMAIN s
      BY DEF Attributes
    <3>2. a \notin Sections /\ RawData(s)
      <4>1. a \notin Sections
        BY DEF Attributes
      <4>2. RawData(s)
        BY <1>3, <3>1
      <4> QED BY <4>1, <4>2
    <3>3. a \in Names /\ Container(a) \in Names
      BY <3>1, <3>2, InSection DEF Names, Has
    <3>4. /\ Has(newest, a) \/ a \in missed
          /\ Has(newest, Container(a)) \/ Container(a) \in missed
      BY <2>2, <3>3 DEF Has
    <3>5. /\ Has(r, a) \/ a \in missed'
          /\ Has(r, Container(a)) \/ Container(a) \in missed'
      BY <2>1, <3>3 DEF Has
    <3>6. Believed(a, newest, told[a], missed)
      BY <2>1 DEF ReaderInv
    <3>7. missed \subseteq missed'
      BY <2>1
    <3>8. \A gone : /\ missed \subseteq gone
                    /\ Has(r, a) \/ a \in gone
                    /\ Has(r, Container(a)) \/ Container(a) \in gone
                    => Believed(a, r, Follow(a, r, Compute(newest, r)), gone)
      BY <2>2, <3>1, <3>2, <3>4, <3>6, BelievedStep
    <3>9. Believed(a, r, Follow(a, r, Compute(newest, r)), missed')
      BY <3>5, <3>7, <3>8
    <3> QED BY <2>1, <3>9
  <2> QED BY <1>1, <1>2, <2>3, <2>4 DEF ReaderInv, noRaw
<1> QED
  BY <1>4, <1>5, <1>6, ReaderPart

(* Whoever knows the first snapshot and follows the changes that are       *)
(* reported of the scans knows the target, as far as ReaderKnows says:     *)
(* however many scans there are, and whichever sections are not gathered   *)
(* for a while.                                                            *)
THEOREM ReportsCanBeFollowed == Spec => []ReaderKnows
<1>1. Init => ReaderInv
  BY AlertsStart DEF Init, ReaderInv
<1>2. ReaderInv /\ [Next]_vars => ReaderInv'
  BY ReaderStep
<1>3. ReaderInv => ReaderKnows
  BY KnowsBelieved DEF ReaderInv
<1> QED
  BY <1>1, <1>2, <1>3, PTL DEF Spec
=============================================================================
