-------------------------------- MODULE Alerts --------------------------------
(***************************************************************************)
(* From a scan to an alert.  A scan of a target stores a snapshot with the *)
(* changes since the one before (Diff); webhooks.Dispatch reads the        *)
(* webhooks and the alert rules (Settings) and sends to each webhook the   *)
(* changes that its rules ask for; the enrichment of the snapshot adds     *)
(* changes and dispatches again.  Meanwhile administrators change webhooks *)
(* and settings.                                                           *)
(*                                                                         *)
(* To say what the changes are good for there is a reader, who knows the   *)
(* first snapshot and afterwards only the changes that are reported.       *)
(***************************************************************************)
EXTENDS Diff, Settings

CONSTANTS Hooks,   \* webhooks
          Slots,   \* bound: the dispatches at a time
          Cases    \* what scans and enrichment find, the requests for settings and
                   \* what they type, the webhooks that are there at first and that
                   \* change, and whether queries fail and the process ends

(* The attributes by the ways they are read; of the other numbers of a SOA *)
(* record refresh stands for all.                                          *)
Numbers == {"tls.days_remaining", "dns.soa.serial", "dns.soa.refresh"}
Flags   == {"tls.expired", "tls.ocsp_stapled"}
OneWay  == {"ct.subdomains", "ct.certificates", "web.cookie_names",
            "crawl.security_txt.contacts"}
TwoWay  == {"dns.CAA", "asn.routing.visible_origins", "asn.routing.as_paths"}
Items   == {"web.wordpress_plugins", "web.wordpress_themes"}
Route   == {"traceroute.hops", "traceroute.rest"}
BothSet == {"tls.issuer", "tls.serial", "dns.soa.serial", "dns.soa.refresh"}

InTLS     == {"tls.issuer", "tls.tls_version", "tls.negotiated_cipher", "tls.serial", "tls.ja3s"}
InRouting == {"asn.routing.hijack_risk", pathStability, "asn.routing.rpki"}
InDNS     == {"dns.dmarc.policy", "dns.mail_posture.grade", "dns.soa.mname", "dns.soa.rname",
              "dns.DNSSEC.status", "dns.MTA_STS.mode", "dns.TLS_RPT", "dns.BIMI", "dns.PTR"}
InFiles   == {"crawl.humans_txt", "crawl.ads_txt"}
InPage    == {"web.title", "web.hsts_preload.preload_status",
              "web.security_headers.content-security-policy",
              "web.security_headers.strict-transport-security",
              "web.security_headers.permissions-policy",
              "web.security_headers.referrer-policy"}
Texts     == InTLS \cup InRouting \cup InDNS \cup InFiles \cup InPage
             \cup {"asn.asn", "crawl.security_txt.expires"}

Sections == {"host", "tls", "asn", "asn.routing", "traceroute", "ct", "dns", "web",
             "crawl", "crawl.security_txt"}

(* The section that an attribute is found in.                              *)
Container(a) ==
    CASE a \in InTLS \cup Flags \cup {"tls.days_remaining"} -> "tls"
      [] a \in InRouting \cup {"asn.routing.visible_origins", "asn.routing.as_paths"} -> "asn.routing"
      [] a = "asn.asn" -> "asn"
      [] a \in {"ct.subdomains", "ct.certificates"} -> "ct"
      [] a \in {"crawl.security_txt.contacts", "crawl.security_txt.expires"} -> "crawl.security_txt"
      [] a \in InFiles -> "crawl"
      [] a \in InPage \cup Items \cup {"web.redirect_chain", "web.cookie_names"} -> "web"
      [] a \in Route -> "traceroute"
      [] a \in Untracked -> "host"
      [] OTHER -> "dns"

(* Raw data has the attributes that are compared, and the sections they    *)
(* are in.  What is empty, or 0 in a SOA record, is as if it was missing.  *)
RawData(r) ==
    /\ DOMAIN r \subseteq Sections \cup Untracked \cup Texts \cup Numbers \cup Flags
                          \cup OneWay \cup TwoWay \cup Items \cup Route
                          \cup {"web.redirect_chain"}
    /\ \A a \in DOMAIN r \ Sections : Container(a) \in DOMAIN r
    /\ "asn.routing" \in DOMAIN r => "asn" \in DOMAIN r
    /\ "crawl.security_txt" \in DOMAIN r => "crawl" \in DOMAIN r
    /\ \A a \in DOMAIN r \cap Texts : r[a] # ""
    /\ "web.redirect_chain" \in DOMAIN r => redirectFinalURL(r) # ""
    /\ \A a \in DOMAIN r \cap Flags : r[a] \in BOOLEAN
    /\ \A a \in DOMAIN r \cap Numbers :
        r[a] \in IF a = "tls.days_remaining" THEN Int ELSE Nat \ {0}
    /\ \A a \in DOMAIN r \cap Items : r[a] = [s \in DOMAIN r[a] |-> r[a][s]]

ASSUME CasesAssumption ==
    \A c \in Cases : c.requests \subseteq Requests /\ \A r \in c.finds : RawData(r)

VARIABLES newest,    \* raw data of the newest snapshot of the target
          details,   \* its change_details
          told,      \* what the reader takes each attribute for
          missed,    \* what was missing from a snapshot
          hooks,     \* the webhooks: "absent", "enabled" or "disabled"
          flights,   \* the dispatches, each a goroutine
          outbox,    \* the messages that goroutines are sending
          case       \* the case, which does not change

history  == <<newest, details, told, missed>>
delivery == <<flights, outbox>>
vars     == <<settingsVars, history, hooks, delivery, case>>

noRaw  == <<>>
landed == [at |-> "idle", entries |-> {}, todo |-> {}]

-----------------------------------------------------------------------------
(* What a snapshot says of an attribute, as far as it is compared.         *)
View(r, a) ==
    CASE a \in Numbers           -> intVal(r, a)
      [] a \in Flags             -> boolVal(r, a)
      [] a \in OneWay \cup TwoWay -> set(r, a)
      [] a \in Items             -> list(r, a)
      [] a = "traceroute.hops"   -> tracerouteHopIPs(r)
      [] a = "web.redirect_chain" -> <<redirectHopCount(r), redirectFinalURL(r)>>
      [] OTHER                   -> stringVal(r, a)

(* The Fields of entries that are about an attribute.                      *)
About(a) == CASE a = "asn.asn" -> {"asn", "asn.asn"}
              [] a \in Route -> {"traceroute", a}
              [] OTHER -> {a}

Attributes == (UNION {DOMAIN r : r \in case.finds}) \ Sections
Names      == UNION {DOMAIN r : r \in case.finds}

Removals == {"caa_removed", "graph_bgp_origin_removed", "graph_as_path_removed"}

(* The reader takes an attribute that is reported for what it is now, and  *)
(* follows the members of a set one by one.                                *)
Follow(a, r, entries) ==
    LET es == {e \in entries : e.Field \in About(a)}
    IN  IF a \in OneWay \cup TwoWay
        THEN (told[a] \ {e.Detail : e \in {x \in es : x.Type \in Removals}})
             \cup {e.Detail : e \in {x \in es : x.Type \notin Removals}}
        ELSE IF es # {} THEN View(r, a) ELSE told[a]

-----------------------------------------------------------------------------
Free(d) == flights[d].at = "idle"

Dispatch(d, entries) ==
    flights' = [flights EXCEPT ![d] = [at |-> "hooks", entries |-> entries, todo |-> {}]]

FirstScan(r) ==
    /\ newest = noRaw
    /\ newest' = r
    /\ details' = {}
    /\ told' = [a \in Attributes |-> View(r, a)]
    /\ missed' = Names \ DOMAIN r
    /\ UNCHANGED <<settingsVars, hooks, delivery, case>>

(* storeSnapshot, where the content is new, and PersistScan, which starts  *)
(* a dispatch; without changes Dispatch returns at once.                   *)
Rescan(r) ==
    /\ newest \notin {noRaw, r}
    /\ newest' = r
    /\ details' = Compute(newest, r)
    /\ told' = [a \in Attributes |-> Follow(a, r, details')]
    /\ missed' = missed \cup (Names \ DOMAIN r)
    /\ \E d \in Slots : /\ Free(d)
                        /\ IF details' = {} THEN UNCHANGED flights ELSE Dispatch(d, details')
    /\ UNCHANGED <<settingsVars, hooks, outbox, case>>

breach == Entry("enrichment_hibp_breach", "warning", "enrichment.hibp", "")

(* storeEnrichment: found changes are added, and all are dispatched.       *)
Enriched ==
    /\ case.breaches
    /\ newest # noRaw
    /\ breach \notin details
    /\ details' = details \cup {breach}
    /\ \E d \in Slots : Free(d) /\ Dispatch(d, details')
    /\ UNCHANGED <<settingsVars, newest, told, missed, hooks, outbox, case>>

-----------------------------------------------------------------------------
(* Dispatch reads the enabled webhooks.                                    *)
ReadHooks(d) ==
    /\ flights[d].at = "hooks"
    /\ LET enabled == {h \in Hooks : hooks[h] = "enabled"}
       IN  flights' = [flights EXCEPT ![d] =
                IF enabled = {} THEN landed ELSE [@ EXCEPT !.at = "filter", !.todo = enabled]]
    /\ UNCHANGED <<settingsVars, history, hooks, outbox, case>>

(* An error of the query is the end of it.                                 *)
ReadHooksFails(d) ==
    /\ case.fails
    /\ flights[d].at = "hooks"
    /\ flights' = [flights EXCEPT ![d] = landed]
    /\ UNCHANGED <<settingsVars, history, hooks, outbox, case>>

(* Variant: a rule that names no webhooks is for none.                     *)
AppliesNamed(rule, h) == rule.Enabled /\ h \in rule.WebhookIDs

Applies(rule, h) == rule.Enabled /\ (rule.WebhookIDs = {} \/ h \in rule.WebhookIDs)

(* filterChangesForHook: no rules at all let everything pass.              *)
filterChangesForHook(entries, rules, h) ==
    IF rules = {} THEN entries
    ELSE {e \in entries : \E rule \in rules :
            Applies(rule, h) /\ MatchesRule(e, rule.MatchTypes, rule.MinSeverity)}

(* The rules are read for each webhook anew.                               *)
FilterHook(d, h) ==
    /\ flights[d].at = "filter"
    /\ h \in flights[d].todo
    /\ LET filtered == filterChangesForHook(flights[d].entries, memory.rules, h)
           left     == flights[d].todo \ {h}
       IN  /\ outbox' = IF filtered = {} THEN outbox
                        ELSE outbox \cup {[to |-> h, entries |-> filtered]}
           /\ flights' = [flights EXCEPT ![d] =
                             IF left = {} THEN landed ELSE [@ EXCEPT !.todo = left]]
    /\ UNCHANGED <<settingsVars, history, hooks, case>>

(* The POST is answered, or fails: it is not looked at.                    *)
Sent(m) == /\ m \in outbox
           /\ outbox' = outbox \ {m}
           /\ UNCHANGED <<settingsVars, history, hooks, flights, case>>

(* createWebhook, updateWebhook, deleteWebhook.                            *)
SetHook(h) == /\ h \in case.changed
              /\ \E state \in {"absent", "enabled", "disabled"} \ {hooks[h]} :
                    hooks' = [hooks EXCEPT ![h] = state]
              /\ UNCHANGED <<settingsVars, history, delivery, case>>

(* A step of a request for settings, or an import.                         *)
Edit(q) == /\ SettingsStep(q)
           /\ UNCHANGED <<history, hooks, delivery, case>>

Import == /\ ImportSettings
          /\ UNCHANGED <<history, hooks, delivery, case>>

(* The process ends and starts again: dispatches and messages are lost.    *)
Restart == /\ case.fails
           /\ ReloadSettings
           /\ flights' = [d \in Slots |-> landed]
           /\ outbox' = {}
           /\ UNCHANGED <<history, hooks, case>>

Init == /\ case \in Cases
        /\ typed = case.typed
        /\ row \in case.rows
        /\ SettingsInit
        /\ newest = noRaw /\ details = {} /\ told = <<>> /\ missed = {}
        /\ hooks = [h \in Hooks |-> IF h \in case.enabled THEN "enabled" ELSE "absent"]
        /\ flights = [d \in Slots |-> landed]
        /\ outbox = {}

Work(d) == ReadHooks(d) \/ \E h \in Hooks : FilterHook(d, h)

Next ==
    \/ \E r \in case.finds : FirstScan(r) \/ Rescan(r)
    \/ Enriched
    \/ \E d \in Slots : Work(d) \/ ReadHooksFails(d)
    \/ \E m \in outbox : Sent(m)
    \/ \E h \in Hooks : SetHook(h)
    \/ \E q \in case.requests : Edit(q)
    \/ Import
    \/ Restart

Spec == Init /\ [][Next]_vars

(* A dispatch is a goroutine that nothing holds up.                        *)
FairSpec == Spec /\ \A d \in Slots : WF_vars(Work(d))

-----------------------------------------------------------------------------
(* Whether the reader takes an attribute for what it is.                   *)
Known(a) == told[a] = View(newest, a)

OnPage(a) == Container(a) \in {"web", "crawl.security_txt"}
Lost(a)   == Container(a) \in missed

(* Who follows the reported changes knows the target, over any sequence of *)
(* scans and also where sections could not be gathered for a while:        *)
(*   - the sections compared as a whole are always known, a traceroute     *)
(*     with its hops and the rest of it;                                   *)
(*   - a text that is there is known, unless its page was once missing;    *)
(*   - the members of a set that can shrink, versions and OCSP stapling,   *)
(*     unless their section was once missing;                              *)
(*   - issuer, serial and SOA numbers, unless once missing themselves;     *)
(*   - what only grows is known to be there, and a certificate is never    *)
(*     believed to last longer than it does.                               *)
ReaderKnows ==
    newest # noRaw =>
        \A a \in Attributes :
            CASE a \in Untracked \cup Route -> Known(a)
              [] a \in OneWay -> (OnPage(a) /\ Lost(a)) \/ View(newest, a) \subseteq told[a]
              [] a \in TwoWay \cup Items \cup {"tls.ocsp_stapled"} -> Lost(a) \/ Known(a)
              [] a \in BothSet -> Lost(a) \/ a \in missed \/ Known(a)
              [] a = "tls.days_remaining" ->
                    View(newest, a) >= 0 => told[a] \in 0 .. View(newest, a)
              [] a = "tls.expired" -> View(newest, a) => told[a]
              [] OTHER -> ~Has(newest, a) \/ (OnPage(a) /\ Lost(a)) \/ Known(a)

(* No false alarm: every change that is reported of a scan is about        *)
(* something that is there now and was not, was there and is not, or has   *)
(* another value than in the snapshot before.  Round-trip times count:     *)
(* that a traceroute "changed" says that something of it did, perhaps      *)
(* nothing but these; only the graph_traceroute entries are about hops.    *)
Differs(a) == \/ Has(newest, a) # Has(newest', a)
              \/ Has(newest, a) /\ newest[a] # newest'[a]

EntriesAreDifferences ==
    [][newest # noRaw /\ newest' # newest =>
        \A e \in details' : \E a \in Names : e.Field \in About(a) /\ Differs(a)]_vars

(* A rule for all types asks for the change, and the webhook is enabled.   *)
Insists(h, e) ==
    /\ hooks[h] = "enabled"
    /\ \E rule \in memory.rules :
        /\ rule.Enabled
        /\ rule.WebhookIDs = {} \/ h \in rule.WebhookIDs
        /\ rule.MatchTypes = {} /\ rule.MinSeverity \in {"info", e.Severity}

(* Where neither statements fail nor the process ends, a change that a     *)
(* rule asks for reaches the webhook, whatever else is dispatched and      *)
(* whoever edits settings and webhooks meanwhile: changes of the scan, and *)
(* those that its enrichment adds later (Dispatch, storeEnrichment).       *)
AskedForReaches ==
    \A h \in Hooks, e \in {breach, Entry("bgp_origin", "critical", "asn.asn", "")} :
        (~case.fails /\ <>[]Insists(h, e)) =>
            \A d \in Slots :
                <>[](flights[d].at = "hooks" /\ e \in flights[d].entries
                        => <>(\E m \in outbox : m.to = h /\ e \in m.entries))
=============================================================================
