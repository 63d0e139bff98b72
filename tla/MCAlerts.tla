------------------------------- MODULE MCAlerts -------------------------------
(* What the scans of a target find is taken from one group of data at a    *)
(* time, together with scans in which the section is missing; settings are *)
(* edited by two clients at once, or by one while alerts are dispatched.   *)
EXTENDS Alerts, TLC

CONSTANTS q1, q2, h1, h2

(* Attributes with each of the values, or also without any; and each of    *)
(* one group with each of another.                                         *)
One(a, S) == {a :> x : x \in S}
Opt(a, S) == {<<>>} \cup One(a, S)
F (+) G   == {f @@ g : f \in F, g \in G}

Bare == "host" :> "yes"

Of(section, fs) == {Bare} \cup {f @@ (section :> "yes") @@ Bare : f \in fs}

TLSChain == Of("tls", Opt("tls.issuer", {"i1", "i2"}) (+) Opt("tls.ja3s", {"j1", "j2"}))
TLSDates == Of("tls", {"tls.days_remaining" :> d @@ "tls.expired" :> (d < 0) : d \in {-2, 5, 20, 60}}
                      (+) One("tls.ocsp_stapled", BOOLEAN))
TLSRest  == Of("tls", Opt("tls.serial", {"s1", "s2"}) (+) One("tls.tls_version", {"v1", "v2"})
                      (+) One("tls.negotiated_cipher", {"c1", "c2"}))
Origin   == Of("asn", Opt("asn.asn", {"o1", "o2"})
                      (+) Opt("asn.routing", {"yes"}))
Risks    == Of("asn", One("asn.asn", {"o1"}) (+) One("asn.routing", {"yes"})
                      (+) Opt("asn.routing.hijack_risk", {"low", "high"})
                      (+) Opt(pathStability, {"stable", "volatile"}))
Routes   == Of("asn", Opt("asn.routing.visible_origins", {{"o1"}, {"o1", "o2"}})
                      (+) One("asn.routing.as_paths", {{}, {"p1"}, {"p2"}})
                      (+) One("asn.routing.rpki", {"valid", "invalid"})
                      (+) One("asn.routing", {"yes"}))
            \cup Of("asn", {<<>>})
Hops     == Of("traceroute", One("traceroute.hops",
                {<<>>, <<"a">>, <<"a", "*">>, <<"a", "b">>, <<"b", "a">>, <<"a", "*", "b">>,
                 <<"a", "b", "a">>}) (+) One("traceroute.rest", {"10 ms", "11 ms"}))
Mail     == Of("dns", Opt("dns.dmarc.policy", {"none", "reject"})
                      (+) One("dns.mail_posture.grade", {"A", "F"})
                      (+) Opt("dns.BIMI", {"b1", "b2"}))
Zone     == Of("dns", Opt("dns.soa.mname", {"m1", "m2"}) (+) One("dns.soa.rname", {"r1", "r2"})
                      (+) Opt("dns.soa.serial", {1, 2}))
Records  == Of("dns", One("dns.CAA", {{}, {"c1"}, {"c1", "c2"}, {"c2"}})
                      (+) Opt("dns.PTR", {"p1"}) (+) Opt("dns.TLS_RPT", {"t1", "t2"}))
Policies == Of("dns", Opt("dns.DNSSEC.status", {"signed", "unsigned"})
                      (+) Opt("dns.MTA_STS.mode", {"enforce", "testing"})
                      (+) One("dns.soa.refresh", {1, 2}))
Pages    == Of("web", Opt("web.title", {"t1", "t2"})
                      (+) Opt("web.wordpress_plugins",
                              {"p" :> "1", "p" :> "2", "p" :> "1" @@ "q" :> "1"}))
Themes   == Of("web", Opt("web.wordpress_themes", {"p" :> "1", "q" :> "1"})
                      (+) Opt("web.hsts_preload.preload_status", {"preloaded"}))
Chains   == Of("web", Opt("web.redirect_chain",
                {<<"u">>, <<"u", "v">>, <<"w", "v">>, <<"u", "v", "u", "v">>}))
Headers  == Of("web", One("web.cookie_names", {{}, {"c"}, {"d"}})
                      (+) Opt("web.security_headers.content-security-policy", {"csp1", "csp2"})
                      (+) Opt("web.security_headers.referrer-policy", {"r1"}))
Crawls   == Of("crawl", Opt("crawl.humans_txt", {"s1", "s2"}) (+) Opt("crawl.ads_txt", {"s1"}))
Contacts == Of("crawl", {<<>>} \cup
                (One("crawl.security_txt", {"yes"})
                 (+) One("crawl.security_txt.contacts", {{"c1"}, {"c2"}, {"c1", "c2"}})
                 (+) Opt("crawl.security_txt.expires", {"e1", "e2"})))
Certs    == Of("ct", One("ct.subdomains", {{}, {"s1"}, {"s2"}})
                     (+) One("ct.certificates", {{}, {"x1"}, {"x2"}}))
Others   == Of("host", Opt("whois", {"w1", "w2"}) (+) Opt("favicon", {"f1"}))

(* Scans alone, no webhooks and nobody who edits settings.                 *)
Scans(finds) == [finds |-> finds, typed |-> {}, rows |-> {none}, changed |-> {}, enabled |-> {},
                 requests |-> {}, fails |-> FALSE, breaches |-> FALSE]

Rule(severity, types, ids) ==
    [Enabled |-> TRUE, MinSeverity |-> severity, MatchTypes |-> types, WebhookIDs |-> ids]

MCDefaultRules == {Rule("critical", {}, {}), Rule("info", {"enrichment_hibp_breach"}, {})}
ForH2 == {Rule("warning", {}, {h2}), [Rule("info", {}, {}) EXCEPT !.Enabled = FALSE]}
MCRuleSets == {{}, MCDefaultRules, ForH2}

Stored(k) == [rules : {MCDefaultRules, ForH2}, key : k]

Editing(types, rows) ==
    [finds |-> {}, typed |-> types, rows |-> rows, changed |-> {}, enabled |-> {},
     requests |-> {q1, q2}, fails |-> TRUE, breaches |-> FALSE]

Moves == Of("asn", One("asn.asn", {"o1", "o2"})) \ {Bare}

Alerting(requests, fails) ==
    [finds |-> Moves, typed |-> {}, rows |-> {none}, changed |-> {h1}, enabled |-> {h1, h2},
     requests |-> requests, fails |-> fails, breaches |-> TRUE]

MCCases ==
    {Scans(g) : g \in {TLSChain, TLSDates, TLSRest, Origin, Risks, Routes, Hops, Mail, Zone,
                       Records, Policies, Pages, Themes, Chains, Headers, Crawls, Contacts,
                       Certs, Others}}
    \cup {Editing({"", "k1"}, {none}), Editing({}, Stored({"k1"})), Alerting({}, TRUE), Alerting({q1}, FALSE)}
=============================================================================
