---- MODULE MCGraphStore ----
(* Instances of GraphStore.                                                *)
EXTENDS GraphStore

MCTargetOf == 1 :> "A" @@ 2 :> "A" @@ 3 :> "B"
MCHost == [A |-> "a.net", B |-> "b.net"]

Empty ==
    [asn |-> {}, ip |-> {}, prefix |-> {}, visible_origins |-> {}, as_paths |-> <<>>,
     ixlan |-> {}, jarm |-> {}, ja3s |-> {}, issuer |-> {}, dns_names |-> {}, favicon |-> {},
     subdomains |-> {}, NS |-> {}, MX |-> {}, CNAME |-> {}, DMARC |-> {}, SOA |-> {},
     MTA_STS |-> {}, DNSSEC |-> {}, CAA |-> {}, BIMI |-> {}, contacts |-> {}, urls |-> {},
     vantages |-> <<>>, changes |-> {}, providers |-> {}]

H(hop, ip) == [hop |-> hop, ip |-> ip, timeout |-> FALSE]
Lost(hop) == [hop |-> hop, ip |-> "none", timeout |-> TRUE]

(* Routes: the path, of as many ASes as a view shows, gets shorter and     *)
(* prepended, hops change and one answer is lost; the other target shares  *)
(* ASes, prefix, exchange and hop, and has a path longer than that.        *)
RouteBase == [Empty EXCEPT !.asn = {"64500"}, !.prefix = {"p"}, !.visible_origins = {"64500"},
                           !.ixlan = {"ix"}, !.ip = {"ip1"}]
Routes ==
    1 :> [RouteBase EXCEPT
            !.as_paths = <<<<"1", "2", "3", "4", "64500">>, <<"3", "64500">>>>,
            !.vantages = [local |-> <<H(1, "r1"), H(2, "ip1")>>]] @@
    2 :> [RouteBase EXCEPT
            !.as_paths = <<<<"1", "1", "64500">>>>, !.changes = {"path"},
            !.vantages = [local |-> <<Lost(1), H(2, "r2"), H(3, "ip1")>>, far |-> <<H(2, "ip1")>>]] @@
    3 :> [RouteBase EXCEPT
            !.as_paths = <<<<"1", "2", "5", "6", "7", "64501">>>>,
            !.vantages = [local |-> <<H(1, "r1"), H(3, "ip1")>>]]

(* Names: what certificates, DNS and crawls found, some of it shared.      *)
Names ==
    1 :> [Empty EXCEPT !.jarm = {"j"}, !.issuer = {"ca"}, !.dns_names = {"a.net", "b.net"},
            !.subdomains = {"b.net"}, !.NS = {"ns1", "ns2"}, !.DMARC = {"reject"}, !.CAA = {"c"},
            !.providers = {"wayback"}, !.urls = {"u"}] @@
    2 :> [Empty EXCEPT !.jarm = {"j2"}, !.issuer = {"ca"}, !.dns_names = {"b.net"}, !.favicon = {"f"},
            !.NS = {"ns1"}, !.MX = {"mx"}, !.SOA = {"z"}, !.DNSSEC = {"signed"}, !.contacts = {"c"},
            !.changes = {"jarm", "ns"}] @@
    3 :> [Empty EXCEPT !.jarm = {"j"}, !.issuer = {"ca"}, !.dns_names = {"a.net"}, !.ja3s = {"s"},
            !.NS = {"ns1"}, !.CNAME = {"cdn"}, !.MTA_STS = {"enforce"}, !.BIMI = {"b"}]

Worlds == {Routes, Names}
====
