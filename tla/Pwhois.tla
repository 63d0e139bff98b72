------------------------------- MODULE Pwhois -------------------------------
(***************************************************************************)
(* The worker of internal/pwhois that looks up the addresses from which    *)
(* scans were submitted: it polls for snapshots whose address was not      *)
(* looked up within a day, asks the pWhois server for a batch of           *)
(* addresses, and writes the answers into all snapshots of an address.     *)
(* What was found is also kept in memory for a time of its own.            *)
(*                                                                         *)
(* Meanwhile scans insert snapshots, an identical rescan replaces the      *)
(* address of a snapshot, records grow old in the table and in the cache,  *)
(* statements fail, and the process stops, dies and starts again with an   *)
(* empty cache.                                                            *)
(***************************************************************************)
EXTENDS FiniteSets, Naturals

CONSTANTS Snapshots, Addresses,
          Routable,    \* which addresses isRoutable lets through: the cases to consider
          maxRetries,
          Limits       \* the values of maxBatchSize to consider

ASSUME AddressesAssumption ==
    /\ IsFiniteSet(Addresses)
    /\ Addresses \cap {"none", "null"} = {}
    /\ Routable \subseteq SUBSET Addresses
ASSUME LimitsAssumption == maxRetries \in Nat /\ Limits \subseteq Nat \ {0}

VARIABLES
    maxBatchSize,  \* bounds the query and the batch, and does not change
    isRoutable,    \* the routable addresses, which do not change
    clientIP,      \* client_ip of a snapshot
    looked,        \* pwhois_looked_up_at of a snapshot: when, if ever
    data,          \* pwhois_data of a snapshot: the address it describes
    cache,         \* the cache entry of an address
    phase,         \* where the loop is
    todo,          \* the addresses process has still to look at
    batch,         \* the addresses to look up, then those to record
    attempt,       \* the failed attempts of lookupBatch
    found          \* the addresses the server answered

rows   == <<clientIP, looked, data>>
locals == <<todo, batch, attempt, found>>
given  == <<maxBatchSize, isRoutable>>
pwhoisVars == <<given, rows, cache, phase, locals>>

PwhoisTypeOK ==
    /\ maxBatchSize \in Limits
    /\ isRoutable \in Routable
    /\ clientIP \in [Snapshots -> Addresses]
    /\ looked \in [Snapshots -> {"absent", "never", "today", "before"}]
    /\ data \in [Snapshots -> Addresses \cup {"none", "null"}]
    /\ cache \in [Addresses -> {"empty", "record", "nil"}]
    /\ phase \in {"down", "idle", "filter", "lookup", "record"}
    /\ todo \subseteq Addresses
    /\ batch \subseteq Addresses /\ Cardinality(batch) <= maxBatchSize
    /\ attempt \in 0 .. maxRetries
    /\ found \subseteq Addresses

PwhoisInit ==
    /\ maxBatchSize \in Limits
    /\ isRoutable \in Routable
    /\ clientIP \in [Snapshots -> Addresses]
    /\ looked = [s \in Snapshots |-> "absent"]
    /\ data = [s \in Snapshots |-> "none"]
    /\ cache = [a \in Addresses |-> "empty"]
    /\ phase = "idle"
    /\ todo = {} /\ batch = {} /\ attempt = 0 /\ found = {}

-----------------------------------------------------------------------------
(* A snapshot waits when it was never looked up, or more than a day ago.   *)
Waiting(s) == looked[s] \in {"never", "before"}

pendingIPs == {clientIP[s] : s \in {x \in Snapshots : Waiting(x)}}

(* The query returns any of them, up to the limit.                         *)
Poll ==
    /\ phase = "idle"
    /\ \E S \in SUBSET pendingIPs :
        /\ S # {}
        /\ Cardinality(S) <= maxBatchSize
        /\ S = pendingIPs \/ Cardinality(S) = maxBatchSize
        /\ todo' = S
    /\ phase' = "filter"
    /\ UNCHANGED <<given, rows, cache, batch, attempt, found>>

(* Variant: the record is written over whatever there is.                  *)
WriteAlways(a, value) ==
    /\ looked' = [s \in Snapshots |->
                    IF clientIP[s] = a /\ looked[s] # "absent" THEN "today" ELSE looked[s]]
    /\ data' = [s \in Snapshots |->
                    IF clientIP[s] = a /\ looked[s] # "absent" THEN value ELSE data[s]]
    /\ UNCHANGED clientIP

(* updateSnapshot: every snapshot of the address that waits.               *)
updateSnapshot(a, value) ==
    /\ looked' = [s \in Snapshots |->
                    IF clientIP[s] = a /\ Waiting(s) THEN "today" ELSE looked[s]]
    /\ data' = [s \in Snapshots |->
                    IF clientIP[s] = a /\ Waiting(s) THEN value ELSE data[s]]
    /\ UNCHANGED clientIP

(* An UPDATE that fails is logged and forgotten.                           *)
UpdateOrFail(a, value) == updateSnapshot(a, value) \/ UNCHANGED rows

(* cache.get returns a record that has not expired; a nil that was set is  *)
(* not told from no entry.                                                 *)
Cached(a) == cache[a] = "record"

Room == Cardinality(batch) < maxBatchSize

(* process leaves an address with a cached record alone ...                *)
FilterCached(a) ==
    /\ phase = "filter" /\ Room
    /\ a \in todo
    /\ Cached(a)
    /\ todo' = todo \ {a}
    /\ UNCHANGED <<given, rows, cache, phase, batch, attempt, found>>

(* ... marks one that is not routable as looked up ...                     *)
FilterSkipped(a) ==
    /\ phase = "filter" /\ Room
    /\ a \in todo
    /\ ~Cached(a)
    /\ a \notin isRoutable
    /\ cache' = [cache EXCEPT ![a] = "nil"]
    /\ UpdateOrFail(a, "null")
    /\ todo' = todo \ {a}
    /\ UNCHANGED <<given, phase, batch, attempt, found>>

(* ... and puts the others into the batch.                                 *)
FilterBatched(a) ==
    /\ phase = "filter" /\ Room
    /\ a \in todo
    /\ ~Cached(a)
    /\ a \in isRoutable
    /\ batch' = batch \cup {a}
    /\ todo' = todo \ {a}
    /\ UNCHANGED <<given, rows, cache, phase, attempt, found>>

(* A full batch is looked up at once, the last one when it is not empty.   *)
BatchReady ==
    /\ phase = "filter"
    /\ ~Room \/ (todo = {} /\ batch # {})
    /\ phase' = "lookup"
    /\ attempt' = 0
    /\ UNCHANGED <<given, rows, cache, todo, batch, found>>

ProcessDone ==
    /\ phase = "filter"
    /\ todo = {} /\ batch = {}
    /\ phase' = "idle"
    /\ UNCHANGED <<given, rows, cache, locals>>

(* lookupBatch: a failed attempt is repeated after a pause, the last one   *)
(* ends the batch.                                                         *)
LookupRetry ==
    /\ phase = "lookup"
    /\ attempt < maxRetries
    /\ attempt' = attempt + 1
    /\ UNCHANGED <<given, rows, cache, phase, todo, batch, found>>

LookupGivesUp ==
    /\ phase = "lookup"
    /\ attempt = maxRetries
    /\ batch' = {}
    /\ phase' = "filter"
    /\ UNCHANGED <<given, rows, cache, todo, attempt, found>>

(* The server answers some of the addresses; what it answered is cached.   *)
LookupAnswers ==
    /\ phase = "lookup"
    /\ \E F \in SUBSET batch :
        /\ found' = F
        /\ cache' = [a \in Addresses |-> IF a \in F THEN "record" ELSE cache[a]]
    /\ phase' = "record"
    /\ UNCHANGED <<given, rows, todo, batch, attempt>>

(* Each address of the batch is recorded, an unanswered one as null.       *)
RecordAddress(a) ==
    /\ phase = "record"
    /\ a \in batch
    /\ UpdateOrFail(a, IF a \in found THEN a ELSE "null")
    /\ cache' = IF a \in found THEN cache ELSE [cache EXCEPT ![a] = "nil"]
    /\ batch' = batch \ {a}
    /\ UNCHANGED <<given, phase, todo, attempt, found>>

BatchDone ==
    /\ phase = "record"
    /\ batch = {}
    /\ found' = {}
    /\ phase' = "filter"
    /\ UNCHANGED <<given, rows, cache, todo, batch, attempt>>

-----------------------------------------------------------------------------
(* A scan stores a snapshot with the address it was asked for from.        *)
NewSnapshot(s) ==
    /\ looked[s] = "absent"
    /\ looked' = [looked EXCEPT ![s] = "never"]
    /\ UNCHANGED <<given, clientIP, data, cache, phase, locals>>

(* An identical rescan replaces the address and leaves the record.         *)
IdenticalRescan(s) ==
    /\ looked[s] # "absent"
    /\ \E a \in Addresses \ {clientIP[s]} : clientIP' = [clientIP EXCEPT ![s] = a]
    /\ UNCHANGED <<given, looked, data, cache, phase, locals>>

(* A day passes for the record of a snapshot.                              *)
DayPasses(s) ==
    /\ looked[s] = "today"
    /\ looked' = [looked EXCEPT ![s] = "before"]
    /\ UNCHANGED <<given, clientIP, data, cache, phase, locals>>

(* Variant: entries stay for ever.                                         *)
CacheKeeps(a) == FALSE

(* The time to live of a cache entry, which is configured, is over.        *)
CacheExpires(a) ==
    /\ cache[a] # "empty"
    /\ cache' = [cache EXCEPT ![a] = "empty"]
    /\ UNCHANGED <<given, rows, phase, locals>>

Down ==
    /\ phase' = "down"
    /\ todo' = {} /\ batch' = {} /\ attempt' = 0 /\ found' = {}
    /\ cache' = [a \in Addresses |-> "empty"]
    /\ UNCHANGED <<given, rows>>

(* Stop, or the end of the context, is seen between two polls and in the   *)
(* pause before another attempt.                                           *)
Stop ==
    /\ \/ phase = "idle"
       \/ phase = "lookup" /\ attempt > 0
    /\ Down

(* The process dies.                                                       *)
Crash == phase # "down" /\ Down

Start ==
    /\ phase = "down"
    /\ phase' = "idle"
    /\ UNCHANGED <<given, rows, cache, locals>>

-----------------------------------------------------------------------------
Process ==
    \/ \E a \in Addresses : FilterCached(a) \/ FilterSkipped(a) \/ FilterBatched(a)
    \/ BatchReady \/ ProcessDone \/ BatchDone
    \/ LookupRetry \/ LookupGivesUp \/ LookupAnswers
    \/ \E a \in Addresses : RecordAddress(a)

PwhoisNext ==
    \/ Poll
    \/ Process
    \/ \E s \in Snapshots : NewSnapshot(s) \/ IdenticalRescan(s) \/ DayPasses(s)
    \/ \E a \in Addresses : CacheExpires(a)
    \/ Stop \/ Crash
    \/ Start

PwhoisSpec == PwhoisInit /\ [][PwhoisNext]_pwhoisVars

(* The UPDATEs that take effect.                                           *)
Recorded(a) == RecordAddress(a) /\ updateSnapshot(a, IF a \in found THEN a ELSE "null")
Skipped(a)  == FilterSkipped(a) /\ updateSnapshot(a, "null")

(* The ticker polls, process goes on, days pass and entries expire.  The   *)
(* server answers, and the database takes the UPDATE, every now and then.  *)
PwhoisFairness ==
    /\ WF_pwhoisVars(Poll) /\ WF_pwhoisVars(Process) /\ SF_pwhoisVars(LookupAnswers)
    /\ \A s \in Snapshots : WF_pwhoisVars(DayPasses(s))
    /\ \A a \in Addresses :
        WF_pwhoisVars(CacheExpires(a)) /\ SF_pwhoisVars(Recorded(a)) /\ SF_pwhoisVars(Skipped(a))

PwhoisFairSpec == PwhoisSpec /\ PwhoisFairness

-----------------------------------------------------------------------------
(* What was recorded today is not written over, whoever else asks for the  *)
(* same address and whatever the server answers then.                      *)
TodayKept ==
    [][\A s \in Snapshots : looked[s] = "today" /\ looked'[s] = "today" => data'[s] = data[s]]_pwhoisVars

(* Every snapshot is looked up, and its record is one of the address it    *)
(* has, although addresses change and are cached, UPDATEs fail and batches *)
(* are lost: once the worker stays up and addresses stay as they are, and  *)
(* as long as the query can return all of them.                            *)
Settled == <>[](phase # "down") /\ <>[][FALSE]_clientIP

EventuallyLookedUp ==
    (Cardinality(Addresses) <= maxBatchSize /\ Settled) =>
        \A s \in Snapshots :
            looked[s] # "absent" ~> looked[s] = "today" /\ data[s] \in {clientIP[s], "null"}
=============================================================================
