------------------------------ MODULE Scheduler ------------------------------
(***************************************************************************)
(* The rescan scheduler of internal/scheduler, against the queue it feeds  *)
(* and the snapshots it decides by.                                        *)
(*                                                                         *)
(* A tick asks the database once for the stale targets and then inserts    *)
(* one scan job after the other, while users add jobs of their own and     *)
(* jobs end.  Staleness is judged by the scanned_at of the newest snapshot,*)
(* which only a scan with new content moves: an identical rescan updates   *)
(* last_seen alone.                                                        *)
(*                                                                         *)
(* The hours are a Go int, passed for a parameter of type text.  Whether   *)
(* the query runs at all is therefore up to what the driver can encode.    *)
(***************************************************************************)
EXTENDS Naturals, SequencesExt

CONSTANTS Hosts,     \* the targets
          Selected,  \* those with a tag of schedule_tags (all when it is empty)
          Changing,  \* those whose scans find something new
          Limit,     \* the LIMIT of the query
          Encodable, \* external: the pairs of a Go type and a parameter's type the driver can encode
          MaxUser    \* bound: jobs of users active at once for one host

ASSUME HostsAssumption == Selected \subseteq Hosts /\ Changing \subseteq Hosts
ASSUME LimitAssumption == Limit \in Nat \ {0} /\ MaxUser \in Nat

VARIABLES older,      \* which host comes before which: none, then by scanned_at of the newest snapshot
          scanned,    \* the hosts that have a snapshot
          fresh,      \* the hosts whose scanned_at is within schedule_stale_hours
          scheduled,  \* active (pending or running) jobs per host made by the scheduler
          byUser,     \* active jobs per host made by users
          enabled,    \* the setting schedule_enabled
          tick,       \* where the tick is: "idle", "query" or "enqueue"
          list        \* the hosts the tick has still to enqueue

schedulerVars == <<older, scanned, fresh, scheduled, byUser, enabled, tick, list>>

ActiveJobs(h) == scheduled[h] + byUser[h]

(* The orders in which the query may find the hosts.                       *)
Orders == {o \in SUBSET (Hosts \X Hosts) :
             /\ \A h \in Hosts : <<h, h>> \notin o
             /\ \A h, k \in Hosts : h = k \/ <<h, k>> \in o \/ <<k, h>> \in o
             /\ \A p, q \in o : p[2] = q[1] => <<p[1], q[2]>> \in o}

SchedulerTypeOK == /\ older \in Orders
                   /\ scanned \subseteq Hosts
                   /\ fresh \subseteq scanned
                   /\ scheduled \in [Hosts -> Nat]
                   /\ byUser \in [Hosts -> 0 .. MaxUser]
                   /\ enabled \in {"on", "off"}
                   /\ tick \in {"idle", "query", "enqueue"}
                   /\ list \in Seq(Hosts)

SchedulerInit == /\ older \in Orders
                 /\ scanned \in {S \in SUBSET Hosts : \A p \in older : p[1] \in S => p[2] \in S}
                 /\ fresh = {}
                 /\ scheduled = [h \in Hosts |-> 0]
                 /\ byUser = [h \in Hosts |-> 0]
                 /\ enabled = "on"
                 /\ tick = "idle"
                 /\ list = <<>>

(* Variant: the query without its NOT EXISTS.                              *)
EligibleBusy(h) == h \in Selected \ fresh

(* The WHERE clause of staleTargets.                                       *)
Eligible(h) == h \in Selected \ fresh /\ ActiveJobs(h) = 0

(* staleTargets: NULLS FIRST, oldest scanned_at first, LIMIT.              *)
StaleTargets ==
    LET hosts == {h \in Hosts : Eligible(h)}
    IN  {s \in BoundedSeq(hosts, Limit) :
            /\ \A i, j \in DOMAIN s : i < j => <<s[i], s[j]>> \in older
            /\ \A h \in hosts \ Range(s) :
                 Len(s) = Limit /\ \A i \in DOMAIN s : <<s[i], h>> \in older}

(* The arguments of the query: staleHours for $1::text, tags for           *)
(* $2::text[].                                                             *)
Arguments == {<<"int", "text">>, <<"[]string", "text[]">>}

(* A tick that finds the scheduler disabled returns at once.               *)
TickStarts == /\ tick = "idle" /\ enabled = "on"
              /\ tick' = "query"
              /\ UNCHANGED <<older, scanned, fresh, scheduled, byUser, enabled, list>>

QueryReturns == /\ tick = "query" /\ Arguments \subseteq Encodable
                /\ list' \in StaleTargets
                /\ tick' = "enqueue"
                /\ UNCHANGED <<older, scanned, fresh, scheduled, byUser, enabled>>

(* An argument cannot be encoded, or the statement fails: the tick logs    *)
(* the error and is over.                                                  *)
QueryFails == /\ tick = "query"
              /\ tick' = "idle"
              /\ UNCHANGED <<older, scanned, fresh, scheduled, byUser, enabled, list>>

(* CreateJob for the next host; an error is logged and the host skipped.   *)
Enqueue == /\ tick = "enqueue" /\ list # <<>>
           /\ scheduled' = [scheduled EXCEPT ![Head(list)] = @ + 1]
           /\ list' = Tail(list)
           /\ UNCHANGED <<older, scanned, fresh, byUser, enabled, tick>>

EnqueueFails == /\ tick = "enqueue" /\ list # <<>>
                /\ list' = Tail(list)
                /\ UNCHANGED <<older, scanned, fresh, scheduled, byUser, enabled, tick>>

(* Variant: the timer is not armed again after a tick.                     *)
TickEndsForGood == /\ tick = "enqueue" /\ list = <<>>
                   /\ tick' = "stopped"
                   /\ UNCHANGED <<older, scanned, fresh, scheduled, byUser, enabled, list>>

TickEnds == /\ tick = "enqueue" /\ list = <<>>
            /\ tick' = "idle"
            /\ UNCHANGED <<older, scanned, fresh, scheduled, byUser, enabled, list>>

(* POST /api/scan: no check for active jobs of the same host.              *)
UserScan(h) == /\ byUser[h] < MaxUser
               /\ byUser' = [byUser EXCEPT ![h] = @ + 1]
               /\ UNCHANGED <<older, scanned, fresh, scheduled, enabled, tick, list>>

OneLess(h) ==
    \/ /\ scheduled[h] > 0
       /\ scheduled' = [scheduled EXCEPT ![h] = @ - 1]
       /\ UNCHANGED byUser
    \/ /\ byUser[h] > 0
       /\ byUser' = [byUser EXCEPT ![h] = @ - 1]
       /\ UNCHANGED scheduled

(* A job completes: storeSnapshot inserts a snapshot when it is the first  *)
(* one or its content is new, and otherwise updates last_seen.             *)
JobCompletes(h) ==
    /\ OneLess(h)
    /\ IF h \in Changing \/ h \notin scanned
       THEN /\ older' = {p \in older : h \notin {p[1], p[2]}} \cup {<<k, h>> : k \in Hosts \ {h}}
            /\ scanned' = scanned \cup {h}
            /\ fresh' = fresh \cup {h}
       ELSE UNCHANGED <<older, scanned, fresh>>
    /\ UNCHANGED <<enabled, tick, list>>

(* A job fails or is cancelled.                                            *)
JobFails(h) == /\ OneLess(h)
               /\ UNCHANGED <<older, scanned, fresh, enabled, tick, list>>

(* schedule_stale_hours pass: snapshots grow stale in the order of their   *)
(* scanned_at.                                                             *)
GrowStale(h) == /\ h \in fresh
                /\ \A k \in fresh \ {h} : <<h, k>> \in older
                /\ fresh' = fresh \ {h}
                /\ UNCHANGED <<older, scanned, scheduled, byUser, enabled, tick, list>>

SetEnabled == /\ enabled' \in {"on", "off"} \ {enabled}
              /\ UNCHANGED <<older, scanned, fresh, scheduled, byUser, tick, list>>

TickStep == TickStarts \/ QueryReturns \/ QueryFails \/ Enqueue \/ EnqueueFails \/ TickEnds

SchedulerNext == \/ TickStep
                 \/ \E h \in Hosts : UserScan(h) \/ JobCompletes(h) \/ JobFails(h)
                                     \/ GrowStale(h)
                 \/ SetEnabled

SchedulerSpec == SchedulerInit /\ [][SchedulerNext]_schedulerVars

(* The timer fires again and again, a query that can be asked and an       *)
(* INSERT are not refused for ever, and a host's jobs do not fail for ever *)
(* (for jobs whose deadline passes see RunningEnds of ScanQueue).          *)
SchedulerFairness == /\ WF_schedulerVars(TickStep)
                     /\ SF_schedulerVars(QueryReturns)
                     /\ \A h \in Hosts : /\ SF_schedulerVars(Enqueue /\ Head(list) = h)
                                         /\ SF_schedulerVars(JobCompletes(h))

SchedulerFairSpec == SchedulerSpec /\ SchedulerFairness

-----------------------------------------------------------------------------
(* The scheduler never has two active jobs for one host, although it asks  *)
(* once and inserts later while users insert too (tick in scheduler.go).   *)
OneScheduledJob == \A h \in Hosts : scheduled[h] <= 1

(* Once scheduling stays on, a stale selected target gets a job, or stops  *)
(* being stale, as the README says of scheduled rescans (tick and          *)
(* staleTargets in scheduler.go).                                          *)
StaleRescanned ==
    <>[](enabled = "on")
      => \A h \in Selected : h \notin fresh ~> (h \in fresh \/ ActiveJobs(h) > 0)
=============================================================================
