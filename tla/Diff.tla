--------------------------------- MODULE Diff ---------------------------------
(***************************************************************************)
(* internal/diff: the changes between the raw data of two snapshots of a   *)
(* target.                                                                 *)
(*                                                                         *)
(* Raw data is a function whose domain is what was gathered: the sections  *)
(* ("tls", "dns", ...) and, under the name of the Field a change of it is  *)
(* reported with, each attribute that the comparison looks at.  Texts are  *)
(* strings, numbers integers, lists sets or sequences.  Of the texts of an *)
(* entry only the member of a list that it is about is kept; its Field is  *)
(* the attribute and, for a few entries, something after it (Suffix).      *)
(* Entries form a set: their order is that of their severity, and else     *)
(* that of Go's maps and of an unstable sort.                              *)
(***************************************************************************)
EXTENDS Integers, Sequences

Severities == {"info", "warning", "critical"}

severityRank(s) == CASE s = "critical" -> 3 [] s = "warning" -> 2 [] OTHER -> 1

Entry(type, severity, field, detail) ==
    [Type |-> type, Severity |-> severity, Field |-> field, Suffix |-> "", Detail |-> detail]

(* An entry whose Field goes on after the attribute.                       *)
Below(entry, suffix) == [entry EXCEPT !.Suffix = suffix]

WarningIf(condition) == IF condition THEN "warning" ELSE "info"

(* What is read from a section or an attribute that is not there.          *)
Has(r, a)     == a \in DOMAIN r
Get(r, a, d)  == IF Has(r, a) THEN r[a] ELSE d
stringVal(r, a) == Get(r, a, "")
intVal(r, a)    == Get(r, a, -1)
boolVal(r, a)   == Get(r, a, FALSE)
set(r, a)       == Get(r, a, {})
list(r, a)      == Get(r, a, <<>>)

-----------------------------------------------------------------------------
(* The ways in which attributes are compared.                              *)

OneIf(condition, entry) == IF condition THEN {entry} ELSE {}

(* Variant: a value that appears is no change.                             *)
ChangedBetween(p, c, a, type, severity) ==
    OneIf(stringVal(p, a) # "" /\ stringVal(c, a) \notin {"", stringVal(p, a)},
          Entry(type, severity, a, ""))

(* There is a value now, and there was another one or none.                *)
Changed(p, c, a, type, severity) ==
    OneIf(stringVal(c, a) \notin {"", stringVal(p, a)}, Entry(type, severity, a, ""))

(* Both have a value, and the values differ.                               *)
BothChanged(p, c, a, type, severity) ==
    IF stringVal(p, a) = "" THEN {} ELSE Changed(p, c, a, type, severity)

NumberChanged(p, c, a, type) ==
    OneIf(intVal(c, a) > 0 /\ intVal(p, a) > 0 /\ intVal(c, a) # intVal(p, a),
          Entry(type, "info", a, ""))

(* A record that is added, removed or changed; of the change its value is  *)
(* the Field.                                                              *)
PresenceChanged(p, c, a, value, added, removed, changed) ==
    LET was   == stringVal(p, a)
        is    == stringVal(c, a)
        entry == CASE was = "" -> Entry(added, "info", a, "")
                   [] is = "" -> Entry(removed, "info", a, "")
                   [] OTHER -> Below(Entry(changed, "info", a, ""), value)
    IN  OneIf(is # was, entry)

Added(p, c, a, type, severity) ==
    {Entry(type, severity, a, x) : x \in set(c, a) \ set(p, a)}

(* diffStringSetChanges, stringSetDiff.                                    *)
SetChanged(p, c, a, added, removed, addedSeverity, removedSeverity) ==
    Added(p, c, a, added, addedSeverity) \cup Added(c, p, a, removed, removedSeverity)

-----------------------------------------------------------------------------
CertExpiry(p, c) ==
    LET days == intVal(c, "tls.days_remaining")
        was  == intVal(p, "tls.days_remaining")
    IN  OneIf(days >= 0 /\ (was < 0 \/ days < was),
              Entry("cert_expiry", IF days <= 7 THEN "critical" ELSE WarningIf(days <= 30),
                    "tls.days_remaining", ""))

CertExpired(p, c) ==
    OneIf(boolVal(c, "tls.expired") /\ ~boolVal(p, "tls.expired"),
          Entry("cert_expired", "critical", "tls.expired", ""))

(* Variant: stapling that is there is news.                                *)
OCSPStapled(p, c) ==
    OneIf(boolVal(c, "tls.ocsp_stapled"),
          Entry("tls_ocsp_stapling", "info", "tls.ocsp_stapled", ""))

OCSPStapling(p, c) ==
    LET was == boolVal(p, "tls.ocsp_stapled")
        is  == boolVal(c, "tls.ocsp_stapled")
    IN  OneIf(is # was, Entry("tls_ocsp_stapling", WarningIf(was), "tls.ocsp_stapled", ""))

diffTLSExtended(p, c) ==
    Changed(p, c, "tls.tls_version", "tls_version", "info")
    \cup Changed(p, c, "tls.negotiated_cipher", "tls_cipher", "info")
    \cup BothChanged(p, c, "tls.serial", "tls_serial", "warning")
    \cup OCSPStapling(p, c)

diffTLS(p, c) ==
    IF ~Has(c, "tls") THEN {}
    ELSE BothChanged(p, c, "tls.issuer", "tls_issuer", "warning")
         \cup CertExpiry(p, c) \cup CertExpired(p, c)
         \cup diffTLSExtended(p, c)
         \cup Changed(p, c, "tls.ja3s", "tls_ja3s", "warning")

pathStability == "asn.routing.path_profile.stability"

diffBGP(p, c) ==
    LET origin(r) == stringVal(r, "asn.asn")
        was    == stringVal(p, pathStability)
        is     == stringVal(c, pathStability)
        risk   == stringVal(c, "asn.routing.hijack_risk")
    IN  IF ~Has(c, "asn")
        THEN OneIf(Has(p, "asn"), Entry("removed", "info", "asn", ""))
        ELSE OneIf(origin(p) = "" /\ origin(c) # "", Entry("added", "info", "asn", ""))
             \cup BothChanged(p, c, "asn.asn", "bgp_origin", "critical")
             \cup Changed(p, c, "asn.routing.hijack_risk", "bgp_hijack_risk",
                          IF risk \in {"high", "critical"} THEN "critical" ELSE "warning")
             \cup Changed(p, c, pathStability, "bgp_path_stability",
                          WarningIf(is = "volatile" \/ (was = "stable" /\ is # "stable")))

diffBGPRouteDrift(p, c) ==
    LET paths(r) == set(r, "asn.routing.as_paths")
        moved    == (paths(c) \ paths(p)) # {} /\ (paths(p) \ paths(c)) # {}
    IN  IF ~Has(c, "asn.routing") THEN {}
        ELSE Changed(p, c, "asn.routing.rpki", "graph_rpki_changed", "warning")
             \cup SetChanged(p, c, "asn.routing.visible_origins", "graph_bgp_origin_added",
                             "graph_bgp_origin_removed", "warning", "warning")
             \cup SetChanged(p, c, "asn.routing.as_paths", "graph_as_path_added",
                             "graph_as_path_removed", WarningIf(moved), "warning")

(* The hops that answered; "*" stands for one that did not.                *)
tracerouteHopIPs(r) == SelectSeq(list(r, "traceroute.hops"), LAMBDA h : h # "*")

Members(s) == {s[i] : i \in DOMAIN s}

diffTracerouteDrift(p, c) ==
    LET hops(r) == Members(tracerouteHopIPs(r))
        hop(t, sev, S) == {Entry(t, sev, "traceroute.hops", h) : h \in S}
    IN  hop("graph_traceroute_hop_added", "info", hops(c) \ hops(p))
        \cup hop("graph_traceroute_hop_removed", "warning", hops(p) \ hops(c))
        \cup OneIf(hops(c) = hops(p) /\ tracerouteHopIPs(c) # tracerouteHopIPs(p),
                   Entry("graph_traceroute_reordered", "warning", "traceroute.hops", ""))

diffCT(p, c) ==
    IF ~Has(c, "ct") THEN {}
    ELSE Added(p, c, "ct.subdomains", "new_ct_subdomain", "info")
         \cup Added(p, c, "ct.certificates", "new_ct_certificate", "info")

-----------------------------------------------------------------------------
gradeRank(g) == CASE g = "A" -> 5 [] g = "B" -> 4 [] g = "C" -> 3 [] g = "D" -> 2 [] OTHER -> 1

diffDMARC(p, c) == Changed(p, c, "dns.dmarc.policy", "dmarc_policy", "warning")

diffMailPosture(p, c) ==
    LET grade(r) == stringVal(r, "dns.mail_posture.grade")
    IN  Changed(p, c, "dns.mail_posture.grade", "mail_posture",
                WarningIf(gradeRank(grade(c)) < gradeRank(grade(p))))

(* The other numbers of the record are compared as the serial is.          *)
diffSOA(p, c) ==
    Changed(p, c, "dns.soa.mname", "soa_mname", "warning")
    \cup NumberChanged(p, c, "dns.soa.serial", "soa_serial")
    \cup Changed(p, c, "dns.soa.rname", "soa_rname", "info")
    \cup NumberChanged(p, c, "dns.soa.refresh", "soa_refresh")

diffDNSSEC(p, c) ==
    LET status(r) == stringVal(r, "dns.DNSSEC.status")
    IN  Changed(p, c, "dns.DNSSEC.status", "dnssec_status",
                WarningIf(status(p) = "signed" /\ status(c) = "unsigned"))

(* A policy that disappears is not reported.                               *)
diffMTASTS(p, c) ==
    LET was == stringVal(p, "dns.MTA_STS.mode")
    IN  Changed(p, c, "dns.MTA_STS.mode",
                IF was = "" THEN "mta_sts_added" ELSE "mta_sts_mode",
                WarningIf(was = "enforce"))

diffDNSIntel(p, c) ==
    SetChanged(p, c, "dns.CAA", "caa_added", "caa_removed", "info", "info")
    \cup diffDNSSEC(p, c)
    \cup diffMTASTS(p, c)
    \cup PresenceChanged(p, c, "dns.TLS_RPT", ".rua",
                         "tls_rpt_added", "tls_rpt_removed", "tls_rpt_changed")
    \cup PresenceChanged(p, c, "dns.BIMI", ".record",
                         "bimi_added", "bimi_removed", "bimi_changed")
    \cup Changed(p, c, "dns.PTR", "dns_ptr", "info")

diffDNS(p, c) ==
    IF ~Has(c, "dns") THEN {}
    ELSE diffDMARC(p, c) \cup diffMailPosture(p, c) \cup diffDNSIntel(p, c) \cup diffSOA(p, c)

-----------------------------------------------------------------------------
diffSecurityTxt(p, c) ==
    LET txt == "crawl.security_txt"
    IN  CASE Has(p, txt) /\ ~Has(c, txt) -> {Entry("security_txt_removed", "warning", txt, "")}
          [] Has(c, txt) /\ ~Has(p, txt) -> {Entry("security_txt_added", "info", txt, "")}
          [] Has(c, txt) /\ Has(p, txt) ->
                Added(p, c, "crawl.security_txt.contacts", "security_contact_added", "info")
                \cup Changed(p, c, "crawl.security_txt.expires", "security_txt_expires", "info")
          [] OTHER -> {}

(* humans.txt and ads.txt, whose attribute is the source.                  *)
diffOptionalCrawlFile(p, c, a, type) ==
    CASE Has(c, a) /\ ~Has(p, a) -> {Entry(type[1], "info", a, "")}
      [] Has(p, a) /\ ~Has(c, a) -> {Entry(type[2], "info", a, "")}
      [] OTHER -> Changed(p, c, a, type[3], "info")

diffCrawlIntel(p, c) ==
    IF ~Has(c, "crawl") THEN {}
    ELSE diffSecurityTxt(p, c)
         \cup diffOptionalCrawlFile(p, c, "crawl.humans_txt",
                    <<"humans_txt_added", "humans_txt_removed", "humans_txt_changed">>)
         \cup diffOptionalCrawlFile(p, c, "crawl.ads_txt",
                    <<"ads_txt_added", "ads_txt_removed", "ads_txt_changed">>)

(* Plugins, and themes alike: the version of each slug.  The Field of a    *)
(* change of version ends in the slug.                                     *)
diffWordPressItems(p, c, a, added, removed, version) ==
    LET was == list(p, a)
        is  == list(c, a)
    IN  {Entry(added, "info", a, s) : s \in DOMAIN is \ DOMAIN was}
        \cup {Entry(removed, "info", a, s) : s \in DOMAIN was \ DOMAIN is}
        \cup {Below(Entry(version, "info", a, s), "." \o s) :
                s \in {x \in DOMAIN is \cap DOMAIN was : is[x] # was[x]}}

redirectHopCount(r) ==
    LET chain == list(r, "web.redirect_chain") IN IF chain = <<>> THEN 0 ELSE Len(chain) - 1

redirectFinalURL(r) ==
    LET chain == list(r, "web.redirect_chain") IN IF chain = <<>> THEN "" ELSE chain[Len(chain)]

diffRedirectChain(p, c) ==
    LET chain(type, severity) == {Entry(type, severity, "web.redirect_chain", "")}
        same == /\ redirectFinalURL(p) = redirectFinalURL(c)
                /\ redirectHopCount(p) = redirectHopCount(c)
    IN  IF redirectFinalURL(c) = "" \/ same THEN {}
        ELSE IF redirectFinalURL(p) = "" /\ redirectHopCount(c) > 0
             THEN chain("redirect_chain_added", "info")
             ELSE chain("redirect_chain_changed",
                        WarningIf(redirectHopCount(c) > redirectHopCount(p) + 1))

diffSecurityHeaders(p, c) ==
    LET news(a, type) == Changed(p, c, a, type, WarningIf(stringVal(p, a) # ""))
        info(a, type) == Changed(p, c, a, type, "info")
    IN  news("web.security_headers.content-security-policy", "csp_changed")
        \cup news("web.security_headers.strict-transport-security", "hsts_changed")
        \cup info("web.security_headers.permissions-policy", "permissions_policy_changed")
        \cup info("web.security_headers.referrer-policy", "referrer_policy_changed")

(* The first page that is seen is one change, whatever is on it.           *)
diffWeb(p, c) ==
    CASE ~Has(c, "web") -> {}
      [] Has(c, "web") /\ ~Has(p, "web") -> {Entry("added", "info", "web", "")}
      [] OTHER ->
            Changed(p, c, "web.title", "web_title", "info")
            \cup diffWordPressItems(p, c, "web.wordpress_plugins",
                    "wp_plugin_added", "wp_plugin_removed", "wp_plugin_version")
            \cup diffWordPressItems(p, c, "web.wordpress_themes",
                    "wp_theme_added", "wp_theme_removed", "wp_theme_version")
            \cup diffRedirectChain(p, c)
            \cup Changed(p, c, "web.hsts_preload.preload_status", "hsts_preload_status", "info")
            \cup Added(p, c, "web.cookie_names", "cookie_name_added", "info")
            \cup diffSecurityHeaders(p, c)

(* The sections that are compared as a whole.  A traceroute is, besides    *)
(* the comparison of its hops: with all that there is next to the          *)
(* addresses, such as round-trip times, places, vantages and warnings.     *)
Untracked == {"whois", "favicon", "storage", "traceroute"}

Whole(r, k) ==
    IF k = "traceroute" THEN <<list(r, "traceroute.hops"), stringVal(r, "traceroute.rest")>>
    ELSE r[k]

diffGeneric(p, c) ==
    {Entry("added", "info", k, "") : k \in {x \in Untracked : Has(c, x) /\ ~Has(p, x)}}
    \cup {Entry("removed", "info", k, "") : k \in {x \in Untracked : Has(p, x) /\ ~Has(c, x)}}
    \cup {Entry("changed", "info", k, "") :
            k \in {x \in Untracked : Has(p, x) /\ Has(c, x) /\ Whole(p, x) # Whole(c, x)}}

(* A scan stores its host, so that data that is stored is never empty.     *)
Compute(p, c) ==
    diffTLS(p, c) \cup diffBGP(p, c)
    \cup diffBGPRouteDrift(p, c) \cup diffTracerouteDrift(p, c)
    \cup diffCT(p, c) \cup diffDNS(p, c) \cup diffCrawlIntel(p, c)
    \cup diffWeb(p, c) \cup diffGeneric(p, c)

-----------------------------------------------------------------------------
(* MatchesRule: the types of a rule name types or Fields, none means any.  *)
MatchesRule(e, matchTypes, minSeverity) ==
    /\ matchTypes = {} \/ e.Type \in matchTypes \/ (e.Field \o e.Suffix) \in matchTypes
    /\ severityRank(e.Severity) >= severityRank(minSeverity)
=============================================================================
