-------------------------- MODULE GraphStoreProofs --------------------------
(***************************************************************************)
(* That the rows of the table reach the graph, that a traceroute is read   *)
(* back as it was found, that the targets leave each other alone, and that *)
(* each has a snapshot that is shown complete, for any targets, snapshots  *)
(* and scan results.                                                       *)
(***************************************************************************)
EXTENDS GraphStore, SequenceTheorems, TLAPS

-----------------------------------------------------------------------------
(* The invariant.                                                          *)

(* The goroutines are those that the callers start.                        *)
TasksInv ==
    \A k \in tasks :
        \/ k.kind \in {"sync", "enrich"} /\ k.snap \in Snapshots /\ k.target = TargetOf[k.snap]
        \/ k.kind = "delete" /\ k.target \in gone

(* A target that is deleted has no rows, and what is in the table is in    *)
(* the graph, on its way there, or missed.                                 *)
RowsInv ==
    /\ \A s \in Snapshots : TargetOf[s] \in gone => ~Stored(s)
    /\ \A s \in Snapshots : Stored(s) =>
            InGraph(s) \/ s \in storing \cup missed \cup Passed(tasks)

TraceEdge(s, h) == Edge(TargetNode(s), "TRACEROUTE_HOP", HopNode(s, h), <<HopAt(s, h).hop, h[1]>>)

PathEdgeTypes == {"AS_PATH_NEXT", "PATH_TO_PREFIX"}

(* What leads to a snapshot or to a target, and what does not.             *)
Shape(e, mark) ==
    /\ e.rel = "HAS_SNAPSHOT" =>
            \E s \in Snapshots : e = Edge(TargetNode(s), "HAS_SNAPSHOT", <<"Snapshot", s>>, NoKey)
    /\ e.to[1] = "Snapshot" => e.rel = "HAS_SNAPSHOT" /\ mark = NoSnapshot
    /\ e.to[1] = "Target" => e.rel = "SCANNED_AS" /\ e.from[1] \in {"Subdomain", "CertSAN"}
    /\ e.rel \in PathEdgeTypes => e.from[1] = "ASN"
    /\ e.rel = "TRACEROUTE_HOP" =>
            \E s \in Snapshots : mark = s /\ \E h \in HopsOf(s) : e = TraceEdge(s, h)

ShapeInv == \A e \in DOMAIN edges : Shape(e, edges[e])

(* What a snapshot in the graph has brought with it.                       *)
SnapshotInv ==
    \A s \in Snapshots : InGraph(s) =>
        /\ Edge(TargetNode(s), "HAS_SNAPSHOT", <<"Snapshot", s>>, NoKey) \in DOMAIN edges
        /\ \A h \in HopsOf(s) :
            /\ TraceEdge(s, h) \in DOMAIN edges /\ edges[TraceEdge(s, h)] = s
            /\ HopNode(s, h) \in DOMAIN nodes
            /\ nodes[HopNode(s, h)] = [ip |-> HopAt(s, h).ip, timeout |-> HopAt(s, h).timeout]

CountInv == lost \in Nat /\ repeats \in Nat /\ raw \in RawData

(* What the scans and the enrichments work on.                             *)
WorkInv == /\ storing \cup missed \subseteq Snapshots
           /\ enriching \subseteq {s \in Snapshots : Stored(s)}

EdgesInv == /\ Ends(DOMAIN edges) \subseteq DOMAIN nodes
            /\ \A e \in DOMAIN edges : edges[e] \in Snapshots \cup {NoSnapshot}

GraphInv == TypeOK /\ CountInv /\ TasksInv /\ RowsInv /\ ShapeInv /\ SnapshotInv

-----------------------------------------------------------------------------
(* What a snapshot draws.                                                  *)

(* Nodes whose edges carry no snapshot.                                    *)
Bare == {"Target", "Snapshot", "IntelEvent", "EnrichmentHit"}

Drawn(s, e) ==
    /\ e.rel # "HAS_SNAPSHOT"
    /\ e.to[1] \notin Bare
    /\ \/ e.from = TargetNode(s) /\ e.rel \notin PathEdgeTypes
       \/ e.from[1] = "ASN" /\ e.rel \in PathEdgeTypes \cup SharedEdgeTypes
       \/ e.from[1] = "Hop" /\ e.from[2].target = TargetOf[s] /\ e.rel \notin PathEdgeTypes
    /\ e.rel \in PathEdgeTypes => e.key[1] = TargetOf[s]
    /\ e.rel = "TRACEROUTE_HOP" => \E h \in HopsOf(s) : e = TraceEdge(s, h)

AllDrawn(s, E) == \A e \in E : Drawn(s, e)

LEMMA EdgeFields ==
    ASSUME NEW f, NEW r, NEW t, NEW k
    PROVE  /\ Edge(f, r, t, k).from = f /\ Edge(f, r, t, k).rel = r
           /\ Edge(f, r, t, k).to = t /\ Edge(f, r, t, k).key = k
  BY DEF Edge

Special == PathEdgeTypes \cup {"HAS_SNAPSHOT", "TRACEROUTE_HOP"}

LEMMA DrawnEnds ==
    ASSUME NEW s, NEW e, e.to[1] \notin Bare,
           \/ e.rel \notin Special /\ e.from = TargetNode(s)
           \/ e.rel \in SharedEdgeTypes /\ e.from[1] = "ASN"
           \/ e.rel \in PathEdgeTypes /\ e.from[1] = "ASN" /\ e.key[1] = TargetOf[s]
    PROVE  Drawn(s, e)
  BY DEF Drawn, Special, PathEdgeTypes, SharedEdgeTypes

(* An edge from the target, or from an AS.                                 *)
LEMMA PlainDrawn ==
    ASSUME NEW s, NEW f, NEW r, NEW label, NEW v, NEW k, label \notin Bare,
           \/ r \notin Special /\ f = TargetNode(s)
           \/ r \in SharedEdgeTypes /\ f[1] = "ASN"
    PROVE  Drawn(s, Edge(f, r, <<label, v>>, k))
<1> DEFINE e == Edge(f, r, <<label, v>>, k)
<1>1. e.from = f /\ e.rel = r /\ e.to = <<label, v>>
  BY EdgeFields
<1>2. e.to[1] = label
  BY <1>1
<1>3. /\ e.to[1] \notin Bare
      /\ \/ e.rel \notin Special /\ e.from = TargetNode(s)
         \/ e.rel \in SharedEdgeTypes /\ e.from[1] = "ASN"
  BY <1>1, <1>2
<1> QED
  BY <1>3, DrawnEnds

LEMMA LinkDrawn ==
    ASSUME NEW s, NEW r, NEW label, NEW S, r \notin Special, label \notin Bare
    PROVE  AllDrawn(s, Link(s, r, label, S))
  BY PlainDrawn DEF Link, AllDrawn

LEMMA UnionDrawn ==
    ASSUME NEW s
    PROVE  /\ AllDrawn(s, {})
           /\ \A S, T : AllDrawn(s, S) /\ AllDrawn(s, T) => AllDrawn(s, S \cup T)
           /\ \A S : (\A T \in S : AllDrawn(s, T)) => AllDrawn(s, UNION S)
  BY DEF AllDrawn

LEMMA FingerprintsDrawn ==
    ASSUME NEW s
    PROVE  AllDrawn(s, FingerprintEdges(s))
<1>1. /\ AllDrawn(s, Link(s, "HOSTED_ON", "ASN", raw[s].asn))
      /\ AllDrawn(s, Link(s, "RESOLVES_TO", "IP", raw[s].ip))
      /\ AllDrawn(s, Link(s, "HAS_JARM", "JARM", raw[s].jarm))
      /\ AllDrawn(s, Link(s, "HAS_JA3S", "JA3S", raw[s].ja3s))
      /\ AllDrawn(s, Link(s, "SIGNED_BY", "CertIssuer", raw[s].issuer))
      /\ AllDrawn(s, Link(s, "HAS_FAVICON", "Favicon", raw[s].favicon))
  BY LinkDrawn DEF Special, PathEdgeTypes, Bare
<1> QED
  BY <1>1 DEF FingerprintEdges, AllDrawn

LEMMA NamesDrawn ==
    ASSUME NEW s
    PROVE  /\ AllDrawn(s, syncCTGraph(s)) /\ AllDrawn(s, syncCertSANGraph(s))
           /\ AllDrawn(s, syncDNSGraph(s)) /\ AllDrawn(s, syncMailDNSIntelGraph(s))
           /\ AllDrawn(s, syncCrawlIntelGraph(s))
           /\ \A hits : AllDrawn(s, syncWaybackGraph(s, hits))
<1>1. AllDrawn(s, syncCTGraph(s)) /\ AllDrawn(s, syncCertSANGraph(s))
  BY LinkDrawn DEF Special, PathEdgeTypes, Bare, syncCTGraph, syncCertSANGraph
<1>2. AllDrawn(s, syncDNSGraph(s))
  <2>1. /\ AllDrawn(s, Link(s, "USES_NS", "DNSHost", raw[s].NS))
        /\ AllDrawn(s, Link(s, "USES_MX", "DNSHost", raw[s].MX))
        /\ AllDrawn(s, Link(s, "ALIASES_TO", "DNSHost", raw[s].CNAME))
        /\ AllDrawn(s, Link(s, "HAS_DMARC", "DMARCPolicy", raw[s].DMARC))
        /\ AllDrawn(s, Link(s, "HAS_SOA", "SOAZone", raw[s].SOA))
    BY LinkDrawn DEF Special, PathEdgeTypes, Bare
  <2> QED BY <2>1 DEF syncDNSGraph, AllDrawn
<1>3. AllDrawn(s, syncMailDNSIntelGraph(s))
  <2>1. /\ AllDrawn(s, Link(s, "HAS_MTA_STS", "MTASTSPolicy", raw[s].MTA_STS))
        /\ AllDrawn(s, Link(s, "HAS_DNSSEC", "DNSSECStatus", raw[s].DNSSEC))
        /\ AllDrawn(s, Link(s, "HAS_CAA", "CAARecord", raw[s].CAA))
        /\ AllDrawn(s, Link(s, "HAS_BIMI", "BIMIRecord", raw[s].BIMI))
    BY LinkDrawn DEF Special, PathEdgeTypes, Bare
  <2> QED BY <2>1 DEF syncMailDNSIntelGraph, AllDrawn
<1>4. AllDrawn(s, syncCrawlIntelGraph(s))
  BY LinkDrawn DEF Special, PathEdgeTypes, Bare, syncCrawlIntelGraph
<1>5. ASSUME NEW hits PROVE AllDrawn(s, syncWaybackGraph(s, hits))
  <2>1. AllDrawn(s, Link(s, "ARCHIVED_AT", "WaybackURL", raw[s].urls))
    BY LinkDrawn DEF Special, PathEdgeTypes, Bare
  <2> QED BY <2>1, UnionDrawn DEF syncWaybackGraph
<1> QED
  BY <1>1, <1>2, <1>3, <1>4, <1>5

LEMMA PathsDrawn ==
    ASSUME NEW s, NEW prefix
    PROVE  AllDrawn(s, syncASPaths(s, prefix))
<1> SUFFICES ASSUME NEW i \in {k \in DOMAIN raw[s].as_paths : raw[s].as_paths[k] # <<>>}
             PROVE  LET path == raw[s].as_paths[i]
                        at(j) == <<"ASN", path[j]>>
                    IN  AllDrawn(s,
                           {Edge(TargetNode(s), "HAS_AS_PATH", at(1), <<i, 0>>)}
                           \cup {Edge(at(j - 1), "AS_PATH_NEXT", at(j), <<TargetOf[s], i, j - 1>>) :
                                    j \in 2 .. Len(path)}
                           \cup {Edge(at(Len(path)), "PATH_TO_PREFIX", <<"Prefix", prefix>>,
                                      <<TargetOf[s], i>>)})
  BY UnionDrawn DEF syncASPaths
<1> DEFINE path == raw[s].as_paths[i]
           at(j) == <<"ASN", path[j]>>
<1>1. Drawn(s, Edge(TargetNode(s), "HAS_AS_PATH", at(1), <<i, 0>>))
  BY PlainDrawn DEF Special, PathEdgeTypes, Bare
<1>2. ASSUME NEW j
      PROVE  Drawn(s, Edge(at(j - 1), "AS_PATH_NEXT", at(j), <<TargetOf[s], i, j - 1>>))
  <2> DEFINE e == Edge(at(j - 1), "AS_PATH_NEXT", at(j), <<TargetOf[s], i, j - 1>>)
  <2> HIDE DEF at
  <2>1. /\ e.from = at(j - 1) /\ e.rel = "AS_PATH_NEXT" /\ e.to = at(j)
        /\ e.key = <<TargetOf[s], i, j - 1>>
    BY EdgeFields
  <2> HIDE DEF e
  <2>2. e.from[1] = "ASN" /\ e.to[1] = "ASN" /\ e.key[1] = TargetOf[s]
    BY <2>1 DEF at
  <2>3. e.rel \in PathEdgeTypes /\ e.to[1] \notin Bare
    BY <2>1, <2>2 DEF PathEdgeTypes, Bare
  <2>4. Drawn(s, e)
    BY <2>2, <2>3, DrawnEnds
  <2> QED BY <2>4 DEF e
<1>3. Drawn(s, Edge(at(Len(path)), "PATH_TO_PREFIX", <<"Prefix", prefix>>, <<TargetOf[s], i>>))
  <2> DEFINE e == Edge(at(Len(path)), "PATH_TO_PREFIX", <<"Prefix", prefix>>, <<TargetOf[s], i>>)
  <2> HIDE DEF at, path
  <2>1. /\ e.from = at(Len(path)) /\ e.rel = "PATH_TO_PREFIX" /\ e.to = <<"Prefix", prefix>>
        /\ e.key = <<TargetOf[s], i>>
    BY EdgeFields
  <2> HIDE DEF e
  <2>2. e.from[1] = "ASN" /\ e.to[1] = "Prefix" /\ e.key[1] = TargetOf[s]
    BY <2>1 DEF at
  <2>3. e.rel \in PathEdgeTypes /\ e.to[1] \notin Bare
    BY <2>1, <2>2 DEF PathEdgeTypes, Bare
  <2>4. Drawn(s, e)
    BY <2>2, <2>3, DrawnEnds
  <2> QED BY <2>4 DEF e
<1> HIDE DEF path, at
<1> QED
  BY <1>1, <1>2, <1>3 DEF AllDrawn, path, at

LEMMA RoutesDrawn ==
    ASSUME NEW s
    PROVE  AllDrawn(s, syncBGPGraph(s)) /\ AllDrawn(s, syncPeeringGraph(s))
<1>1. ASSUME NEW a, NEW v, NEW r \in {"ANNOUNCES", "VISIBLE_ORIGIN", "PRESENT_AT_IX"},
             NEW label \in {"Prefix", "IX"}
      PROVE  Drawn(s, Edge(<<"ASN", a>>, r, <<label, v>>, NoKey))
  <2>1. <<"ASN", a>>[1] = "ASN" /\ r \in SharedEdgeTypes /\ label \notin Bare
    BY DEF SharedEdgeTypes, Bare
  <2> QED BY <2>1, PlainDrawn
<1>2. ASSUME NEW p
      PROVE  AllDrawn(s,
                Link(s, "IN_PREFIX", "Prefix", {p})
                \cup {Edge(<<"ASN", a>>, "ANNOUNCES", <<"Prefix", p>>, NoKey) : a \in raw[s].asn}
                \cup {Edge(<<"ASN", a>>, "VISIBLE_ORIGIN", <<"Prefix", p>>, NoKey) :
                         a \in raw[s].visible_origins}
                \cup syncASPaths(s, p))
  <2>1. AllDrawn(s, Link(s, "IN_PREFIX", "Prefix", {p}))
    BY LinkDrawn DEF Special, PathEdgeTypes, Bare
  <2> QED BY <1>1, <2>1, PathsDrawn DEF AllDrawn
<1>3. AllDrawn(s, syncBGPGraph(s))
  BY <1>2, UnionDrawn DEF syncBGPGraph
<1>4. AllDrawn(s, syncPeeringGraph(s))
  <2>1. ASSUME NEW x
        PROVE  AllDrawn(s, {Edge(<<"ASN", a>>, "PRESENT_AT_IX", <<"IX", x>>, NoKey) : a \in raw[s].asn})
    BY <1>1 DEF AllDrawn
  <2>2. \A T \in {{Edge(<<"ASN", a>>, "PRESENT_AT_IX", <<"IX", x>>, NoKey) : a \in raw[s].asn} :
                    x \in raw[s].ixlan} : AllDrawn(s, T)
    BY <2>1, Zenon
  <2> QED BY <2>2, UnionDrawn DEF syncPeeringGraph
<1> QED
  BY <1>3, <1>4

LEMMA HopIsHop ==
    ASSUME NEW s, NEW h
    PROVE  /\ HopNode(s, h)[1] = "Hop" /\ HopNode(s, h)[2].target = TargetOf[s]
           /\ HopNode(s, h)[2].snap = s /\ HopNode(s, h)[2].vantage = h[1]
           /\ HopNode(s, h)[2].hop = HopAt(s, h).hop
  BY DEF HopNode, Hop

LEMMA HopDrawn ==
    ASSUME NEW s, NEW g, NEW h, NEW r, NEW v, NEW label,
           r \in {"NEXT_HOP", "SHARED_AT", "REACHES"}, label \notin Bare
    PROVE  /\ Drawn(s, Edge(HopNode(s, g), r, <<label, v>>, NoKey))
           /\ Drawn(s, Edge(HopNode(s, g), r, HopNode(s, h), NoKey))
<1>1. ASSUME NEW e, e.from = HopNode(s, g), e.rel = r, e.to[1] \notin Bare
      PROVE  Drawn(s, e)
  <2>1. e.from[1] = "Hop" /\ e.from[2].target = TargetOf[s]
    BY <1>1, HopIsHop
  <2>2. e.rel \notin PathEdgeTypes /\ e.rel \notin {"HAS_SNAPSHOT", "TRACEROUTE_HOP"}
    BY <1>1 DEF PathEdgeTypes
  <2> QED BY <1>1, <2>1, <2>2 DEF Drawn
<1>2. Drawn(s, Edge(HopNode(s, g), r, <<label, v>>, NoKey))
  <2> DEFINE e == Edge(HopNode(s, g), r, <<label, v>>, NoKey)
  <2>1. e.from = HopNode(s, g) /\ e.rel = r /\ e.to[1] = label
    BY EdgeFields
  <2> QED BY <1>1, <2>1
<1>3. Drawn(s, Edge(HopNode(s, g), r, HopNode(s, h), NoKey))
  <2> DEFINE e == Edge(HopNode(s, g), r, HopNode(s, h), NoKey)
  <2>1. e.from = HopNode(s, g) /\ e.rel = r /\ e.to[1] = "Hop"
    BY EdgeFields, HopIsHop
  <2> QED BY <1>1, <2>1 DEF Bare
<1> QED
  BY <1>2, <1>3

LEMMA TraceDrawn ==
    ASSUME NEW s, NEW h \in HopsOf(s)
    PROVE  Drawn(s, TraceEdge(s, h))
<1> DEFINE e == TraceEdge(s, h)
<1>1. e.from = TargetNode(s) /\ e.rel = "TRACEROUTE_HOP" /\ e.to[1] = "Hop"
  BY EdgeFields, HopIsHop DEF TraceEdge
<1>2. e.rel \notin PathEdgeTypes
  BY <1>1 DEF PathEdgeTypes
<1> QED
  BY <1>1, <1>2 DEF Drawn, Bare

LEMMA TracerouteDrawn ==
    ASSUME NEW s
    PROVE  AllDrawn(s, syncTracerouteGraph(s))
<1> SUFFICES ASSUME NEW h \in HopsOf(s), NEW e,
                    \/ e = Edge(TargetNode(s), "TRACEROUTE_HOP", HopNode(s, h), <<HopAt(s, h).hop, h[1]>>)
                    \/ \E i : e = Edge(HopNode(s, <<h[1], i>>), "NEXT_HOP", HopNode(s, h), NoKey)
                    \/ \E a : e = Edge(HopNode(s, h), "SHARED_AT", <<"SharedHop", a>>, NoKey)
                    \/ \E a : e = Edge(HopNode(s, h), "REACHES", <<"IP", a>>, NoKey)
             PROVE  Drawn(s, e)
  BY Zenon DEF syncTracerouteGraph, HopEdges, AllDrawn
<1>1. CASE e = Edge(TargetNode(s), "TRACEROUTE_HOP", HopNode(s, h), <<HopAt(s, h).hop, h[1]>>)
  BY <1>1, TraceDrawn DEF TraceEdge
<1>2. CASE \E i : e = Edge(HopNode(s, <<h[1], i>>), "NEXT_HOP", HopNode(s, h), NoKey)
  BY <1>2, HopDrawn DEF Bare
<1>3. CASE \E a : e = Edge(HopNode(s, h), "SHARED_AT", <<"SharedHop", a>>, NoKey)
  BY <1>3, HopDrawn DEF Bare
<1>4. CASE \E a : e = Edge(HopNode(s, h), "REACHES", <<"IP", a>>, NoKey)
  BY <1>4, HopDrawn DEF Bare
<1> QED
  BY <1>1, <1>2, <1>3, <1>4

LEMMA AllEdgesDrawn ==
    ASSUME NEW s, NEW hits
    PROVE  AllDrawn(s, AllEdges(s, hits))
  BY FingerprintsDrawn, NamesDrawn, RoutesDrawn, TracerouteDrawn DEF AllEdges, AllDrawn

(* What is told apart by target, vantage, number and snapshot.             *)
LEMMA HopsDiffer ==
    ASSUME raw \in RawData, NEW s \in Snapshots, NEW h \in HopsOf(s), NEW g \in HopsOf(s),
           HopNode(s, g) = HopNode(s, h)
    PROVE  g = h
<1>1. g[1] = h[1] /\ HopAt(s, g).hop = HopAt(s, h).hop
  BY HopIsHop
<1>2. \A x \in HopsOf(s) : /\ x = <<x[1], x[2]>>
                            /\ x[1] \in DOMAIN raw[s].vantages
                            /\ x[2] \in DOMAIN raw[s].vantages[x[1]]
  BY DEF HopsOf
<1>3. raw[s].vantages[h[1]][g[2]].hop = raw[s].vantages[h[1]][h[2]].hop
  BY <1>1 DEF HopAt
<1>4. g[2] = h[2]
  BY <1>1, <1>2, <1>3, GraphAssumption
<1> QED
  BY <1>1, <1>2, <1>4

LEMMA HopPropsOf ==
    ASSUME raw \in RawData, NEW s \in Snapshots
    PROVE  /\ DOMAIN HopProps(s) = {HopNode(s, h) : h \in HopsOf(s)}
           /\ \A h \in HopsOf(s) : HopProps(s)[HopNode(s, h)] =
                   [ip |-> HopAt(s, h).ip, timeout |-> HopAt(s, h).timeout]
<1>1. DOMAIN HopProps(s) = {HopNode(s, h) : h \in HopsOf(s)}
  BY DEF HopProps
<1>2. ASSUME NEW h \in HopsOf(s)
      PROVE  HopProps(s)[HopNode(s, h)] = [ip |-> HopAt(s, h).ip, timeout |-> HopAt(s, h).timeout]
  <2> DEFINE g == CHOOSE g \in HopsOf(s) : HopNode(s, g) = HopNode(s, h)
  <2>1. g \in HopsOf(s) /\ HopNode(s, g) = HopNode(s, h)
    OBVIOUS
  <2>2. g = h
    <3> HIDE DEF g
    <3> QED BY <2>1, HopsDiffer
  <2>3. HopProps(s)[HopNode(s, h)] = [ip |-> HopAt(s, g).ip, timeout |-> HopAt(s, g).timeout]
    BY DEF HopProps
  <2> QED BY <2>2, <2>3
<1> QED
  BY <1>1, <1>2

LEMMA Override ==
    ASSUME NEW f, NEW g
    PROVE  /\ DOMAIN Over(f, g) = DOMAIN f \cup DOMAIN g
           /\ \A x \in DOMAIN f : Over(f, g)[x] = f[x]
           /\ \A x \in DOMAIN g \ DOMAIN f : Over(f, g)[x] = g[x]
  BY DEF Over

-----------------------------------------------------------------------------
(* What a snapshot books besides: edges without a snapshot.                *)
Booked(s, e) ==
    \/ e = Edge(TargetNode(s), "HAS_SNAPSHOT", <<"Snapshot", s>>, NoKey)
    \/ e.rel = "SCANNED_AS" /\ e.from[1] \in {"Subdomain", "CertSAN"} /\ e.to[1] = "Target"
    \/ /\ e.rel \in {"DETECTED", "HAS_INTEL_EVENT", "ENRICHED_BY", "HAS_ENRICHMENT_HIT"}
       /\ e.to[1] \in {"IntelEvent", "EnrichmentHit"}
       /\ e.from \in {TargetNode(s), <<"Snapshot", s>>}

LEMMA NamesBooked ==
    ASSUME NEW s, NEW known
    PROVE  \A e \in ScannedAs(s, known) : Booked(s, e) /\ e.to \in known
<1> DEFINE L == syncCTGraph(s) \cup syncCertSANGraph(s)
<1>1. \A l \in L : l.to[1] \in {"Subdomain", "CertSAN"}
  <2>1. ASSUME NEW r, NEW label, NEW S, NEW l \in Link(s, r, label, S)
        PROVE  l.to[1] = label
    <3>1. PICK v : l = Edge(TargetNode(s), r, <<label, v>>, NoKey)
      BY DEF Link
    <3> QED BY <3>1, EdgeFields
  <2> QED BY <2>1 DEF syncCTGraph, syncCertSANGraph
<1>2. ASSUME NEW l \in L, NEW t
      PROVE  LET e == Edge(l.to, "SCANNED_AS", <<"Target", t>>, NoKey)
             IN  Booked(s, e) /\ e.to = <<"Target", t>>
  <2> DEFINE e == Edge(l.to, "SCANNED_AS", <<"Target", t>>, NoKey)
  <2>1. e.from = l.to /\ e.rel = "SCANNED_AS" /\ e.to = <<"Target", t>>
    BY EdgeFields
  <2>2. e.from[1] \in {"Subdomain", "CertSAN"} /\ e.to[1] = "Target"
    BY <1>1, <2>1
  <2> QED BY <2>1, <2>2 DEF Booked
<1> HIDE DEF L
<1>3. ASSUME NEW e \in ScannedAs(s, known)
      PROVE  \E l \in L : \E t : /\ e = Edge(l.to, "SCANNED_AS", <<"Target", t>>, NoKey)
                                 /\ <<"Target", t>> \in known
  BY DEF ScannedAs, L
<1> QED
  BY <1>2, <1>3

LEMMA HitsBooked ==
    ASSUME NEW s, NEW hits, NEW known
    PROVE  \A e \in syncEnrichmentHits(s, hits, known) :
              /\ Booked(s, e) /\ e.rel # "HAS_SNAPSHOT"
              /\ e.from \in known /\ e.to \in HitNodes(s, hits)
<1>1. ASSUME NEW n \in HitNodes(s, hits), NEW f \in {TargetNode(s), <<"Snapshot", s>>},
             NEW r \in {"ENRICHED_BY", "HAS_ENRICHMENT_HIT"}
      PROVE  LET e == Edge(f, r, n, NoKey)
             IN  Booked(s, e) /\ e.from = f /\ e.to = n /\ e.rel = r
  <2> DEFINE e == Edge(f, r, n, NoKey)
  <2>1. e.from = f /\ e.rel = r /\ e.to = n /\ n[1] = "EnrichmentHit"
    BY EdgeFields DEF HitNodes
  <2> QED BY <2>1 DEF Booked
<1>2. ASSUME NEW e \in syncEnrichmentHits(s, hits, known)
      PROVE  \E n \in HitNodes(s, hits), f \in {TargetNode(s), <<"Snapshot", s>>} \cap known,
                r \in {"ENRICHED_BY", "HAS_ENRICHMENT_HIT"} : e = Edge(f, r, n, NoKey)
  BY DEF syncEnrichmentHits
<1> QED
  BY <1>1, <1>2

LEMMA EventsBooked ==
    ASSUME NEW s
    PROVE  \A e \in syncIntelEvents(s) : Booked(s, e) /\ e.to[1] = "IntelEvent"
<1>1. ASSUME NEW f \in {TargetNode(s), <<"Snapshot", s>>}, NEW r \in {"DETECTED", "HAS_INTEL_EVENT"},
             NEW c
      PROVE  LET e == Edge(f, r, <<"IntelEvent", c>>, NoKey)
             IN  Booked(s, e) /\ e.to[1] = "IntelEvent"
  <2> DEFINE e == Edge(f, r, <<"IntelEvent", c>>, NoKey)
  <2>1. e.from = f /\ e.rel = r /\ e.to[1] = "IntelEvent"
    BY EdgeFields
  <2> QED BY <2>1 DEF Booked
<1>2. ASSUME NEW e \in syncIntelEvents(s)
      PROVE  \E c : \/ e = Edge(<<"Snapshot", s>>, "DETECTED", <<"IntelEvent", c>>, NoKey)
                   \/ e = Edge(TargetNode(s), "HAS_INTEL_EVENT", <<"IntelEvent", c>>, NoKey)
  BY DEF syncIntelEvents
<1> QED
  BY <1>1, <1>2

(* An edge is not both, and a trace edge is drawn.                         *)
LEMMA BookedApart ==
    ASSUME NEW s, NEW e, Booked(s, e)
    PROVE  /\ e.rel \notin PathEdgeTypes /\ e.rel # "TRACEROUTE_HOP"
           /\ e.to[1] \in {"Snapshot", "Target", "IntelEvent", "EnrichmentHit"}
           /\ e.from[1] # "Hop" /\ e.from[1] # "ASN"
<1>1. CASE e = Edge(TargetNode(s), "HAS_SNAPSHOT", <<"Snapshot", s>>, NoKey)
  <2>1. e.rel = "HAS_SNAPSHOT" /\ e.from = <<"Target", TargetOf[s]>> /\ e.to = <<"Snapshot", s>>
    BY <1>1, EdgeFields DEF TargetNode
  <2>2. e.from[1] = "Target" /\ e.to[1] = "Snapshot"
    BY <2>1
  <2> QED BY <2>1, <2>2 DEF PathEdgeTypes
<1>2. CASE e.rel = "SCANNED_AS" /\ e.from[1] \in {"Subdomain", "CertSAN"} /\ e.to[1] = "Target"
  BY <1>2 DEF PathEdgeTypes
<1>3. CASE /\ e.rel \in {"DETECTED", "HAS_INTEL_EVENT", "ENRICHED_BY", "HAS_ENRICHMENT_HIT"}
           /\ e.to[1] \in {"IntelEvent", "EnrichmentHit"}
           /\ e.from \in {TargetNode(s), <<"Snapshot", s>>}
  <2>1. e.from[1] \in {"Target", "Snapshot"}
    BY <1>3 DEF TargetNode
  <2> QED BY <1>3, <2>1 DEF PathEdgeTypes
<1> QED
  BY <1>1, <1>2, <1>3 DEF Booked

(* What the transaction does to the edges.                                 *)
LEMMA SyncEdges ==
    ASSUME NEW s, NEW hits, NEW withEvents, SyncSnapshot(s, hits, withEvents)
    PROVE  /\ DOMAIN edges \subseteq DOMAIN edges'
           /\ \A e \in DOMAIN edges' :
                 \/ e \in DOMAIN edges /\ edges'[e] = edges[e]
                 \/ e \notin DOMAIN edges /\ Booked(s, e) /\ edges'[e] = NoSnapshot
                 \/ Drawn(s, e) /\ edges'[e] = s
           /\ Edge(TargetNode(s), "HAS_SNAPSHOT", <<"Snapshot", s>>, NoKey) \in DOMAIN edges'
           /\ \A e \in AllEdges(s, hits) : e \in DOMAIN edges' /\ edges'[e] = s
           /\ \A h \in HopsOf(s) : TraceEdge(s, h) \in DOMAIN edges' /\ edges'[TraceEdge(s, h)] = s
<1> DEFINE marked == AllEdges(s, hits)
           known  == DOMAIN nodes \cup {TargetNode(s), <<"Snapshot", s>>}
           events == IF withEvents THEN syncIntelEvents(s) ELSE {}
           has    == Edge(TargetNode(s), "HAS_SNAPSHOT", <<"Snapshot", s>>, NoKey)
           plain  == {has} \cup ScannedAs(s, known) \cup events \cup syncEnrichmentHits(s, hits, known)
<1>1. edges' = Over(Plain(plain), Marked(marked, s))
  BY DEF SyncSnapshot
<1>2. \A e \in plain : Booked(s, e)
  BY NamesBooked, EventsBooked, HitsBooked DEF Booked
<1>3. \A e \in marked : Drawn(s, e)
  BY AllEdgesDrawn DEF AllDrawn
<1>4. has \in plain
  OBVIOUS
<1>5. \A h \in HopsOf(s) : TraceEdge(s, h) \in marked
  <2>1. ASSUME NEW h \in HopsOf(s)
        PROVE  TraceEdge(s, h) \in syncTracerouteGraph(s)
    <3>1. TraceEdge(s, h) \in HopEdges(s, h)
      BY DEF HopEdges, TraceEdge
    <3> QED BY <3>1 DEF syncTracerouteGraph
  <2> QED BY <2>1 DEF AllEdges
<1>6. \A e \in marked : e \notin plain
  <2> HIDE DEF plain, marked
  <2>1. ASSUME NEW e, Booked(s, e), Drawn(s, e) PROVE FALSE
    <3>1. e.to[1] \in {"Snapshot", "Target", "IntelEvent", "EnrichmentHit"}
      BY <2>1, BookedApart
    <3>2. e.to[1] \notin Bare
      BY <2>1 DEF Drawn
    <3> QED BY <3>1, <3>2 DEF Bare
  <2> QED BY <1>2, <1>3, <2>1
<1> HIDE DEF plain, marked, has
<1>7. DOMAIN Plain(plain) = plain /\ DOMAIN Marked(marked, s) = DOMAIN edges \cup marked
  BY DEF Plain, Marked
<1>8. DOMAIN edges' = plain \cup DOMAIN edges \cup marked
  BY <1>1, <1>7 DEF Over
<1>9. ASSUME NEW e \in plain
      PROVE  edges'[e] = IF e \in DOMAIN edges THEN edges[e] ELSE NoSnapshot
  <2>1. edges'[e] = Plain(plain)[e]
    BY <1>1, <1>7, Override
  <2> QED BY <2>1 DEF Plain
<1>10. ASSUME NEW e \in DOMAIN edges', e \notin plain
       PROVE  edges'[e] = IF e \in marked THEN s ELSE edges[e]
  <2>1. e \in (DOMAIN Marked(marked, s)) \ DOMAIN Plain(plain)
    BY <1>7, <1>8, <1>10
  <2>2. edges'[e] = Marked(marked, s)[e]
    BY <1>1, <2>1 DEF Over
  <2> QED BY <2>2, <1>7, <2>1 DEF Marked
<1>11. ASSUME NEW e \in DOMAIN edges'
       PROVE  \/ e \in DOMAIN edges /\ edges'[e] = edges[e]
              \/ e \notin DOMAIN edges /\ Booked(s, e) /\ edges'[e] = NoSnapshot
              \/ Drawn(s, e) /\ edges'[e] = s
  BY <1>2, <1>3, <1>8, <1>9, <1>10
<1>12. \A e \in marked : e \in DOMAIN edges' /\ edges'[e] = s
  BY <1>6, <1>8, <1>10
<1> QED
  BY <1>4, <1>5, <1>8, <1>11, <1>12 DEF has, marked

(* What it does to the nodes.                                              *)
LEMMA SyncNodes ==
    ASSUME raw \in RawData, NEW s \in Snapshots, NEW hits, NEW withEvents,
           SyncSnapshot(s, hits, withEvents), Ends(DOMAIN edges) \subseteq DOMAIN nodes
    PROVE  /\ DOMAIN nodes \subseteq DOMAIN nodes' /\ <<"Snapshot", s>> \in DOMAIN nodes'
           /\ Ends(DOMAIN edges') \subseteq DOMAIN nodes'
           /\ \A x : <<"Snapshot", x>> \in DOMAIN nodes' => x = s \/ <<"Snapshot", x>> \in DOMAIN nodes
           /\ \A t : <<"Target", t>> \in DOMAIN nodes' => t = TargetOf[s] \/ <<"Target", t>> \in DOMAIN nodes
           /\ \A h \in HopsOf(s) :
                 /\ HopNode(s, h) \in DOMAIN nodes'
                 /\ nodes'[HopNode(s, h)] = [ip |-> HopAt(s, h).ip, timeout |-> HopAt(s, h).timeout]
           /\ \A n \in DOMAIN nodes : n[2].snap # s => nodes'[n] = nodes[n]
<1> DEFINE marked == AllEdges(s, hits)
           known  == DOMAIN nodes \cup {TargetNode(s), <<"Snapshot", s>>}
           events == IF withEvents THEN syncIntelEvents(s) ELSE {}
           has    == Edge(TargetNode(s), "HAS_SNAPSHOT", <<"Snapshot", s>>, NoKey)
           plain  == {has} \cup ScannedAs(s, known) \cup events \cup syncEnrichmentHits(s, hits, known)
           named  == known \cup Ends(marked \cup plain) \cup HitNodes(s, hits)
           rest   == Over(nodes, [n \in named |-> NoProps])
<1>1. edges' = Over(Plain(plain), Marked(marked, s)) /\ nodes' = Over(HopProps(s), rest)
  BY DEF SyncSnapshot
<1>2. \A e \in plain : Booked(s, e) /\ (e.to[1] = "Target" => e.to \in known)
  <2>1. \A e \in ScannedAs(s, known) : Booked(s, e) /\ e.to \in known
    BY NamesBooked
  <2>2. \A e \in events \cup syncEnrichmentHits(s, hits, known) : Booked(s, e) /\ e.to[1] # "Target"
    BY EventsBooked, HitsBooked DEF HitNodes
  <2>3. Booked(s, has) /\ has.to[1] # "Target"
    BY EdgeFields DEF Booked
  <2> HIDE DEF known, events, has
  <2> QED BY <2>1, <2>2, <2>3
<1>3. \A e \in marked : Drawn(s, e)
  BY AllEdgesDrawn DEF AllDrawn
<1>4. known = DOMAIN nodes \cup {TargetNode(s), <<"Snapshot", s>>}
  OBVIOUS
<1>5. named = known \cup Ends(marked \cup plain) \cup HitNodes(s, hits)
  OBVIOUS
<1>6. rest = Over(nodes, [n \in named |-> NoProps])
  OBVIOUS
<1> HIDE DEF plain, marked, known, named, rest
<1>7. DOMAIN rest = DOMAIN nodes \cup named /\ \A n \in DOMAIN nodes : rest[n] = nodes[n]
  BY <1>6, Override
<1>8. DOMAIN nodes' = DOMAIN HopProps(s) \cup DOMAIN nodes \cup named
  BY <1>1, <1>7 DEF Over
<1>9. DOMAIN edges' = plain \cup DOMAIN edges \cup marked
  <2>1. DOMAIN Plain(plain) = plain /\ DOMAIN Marked(marked, s) = DOMAIN edges \cup marked
    BY DEF Plain, Marked
  <2> QED BY <1>1, <2>1 DEF Over
<1>10. Ends(DOMAIN edges') \subseteq DOMAIN nodes'
  <2>1. Ends(DOMAIN edges') = Ends(DOMAIN edges) \cup Ends(marked \cup plain)
    BY <1>9 DEF Ends
  <2> QED BY <1>5, <1>8, <2>1
<1>11. ASSUME NEW x, <<"Snapshot", x>> \in DOMAIN nodes', <<"Snapshot", x>> \notin DOMAIN nodes
       PROVE  x = s
  <2>1. <<"Snapshot", x>> \notin DOMAIN HopProps(s)
    <3>1. \A h : HopNode(s, h) # <<"Snapshot", x>>
      BY DEF HopNode, Hop
    <3> QED BY <3>1, HopPropsOf
  <2>2. <<"Snapshot", x>> \notin HitNodes(s, hits)
    BY DEF HitNodes
  <2>3. ASSUME NEW e \in marked PROVE e.from # <<"Snapshot", x>> /\ e.to # <<"Snapshot", x>>
    BY <1>3 DEF Drawn, Bare, TargetNode
  <2>4. ASSUME NEW e \in plain, e.from = <<"Snapshot", x>> \/ e.to = <<"Snapshot", x>>
        PROVE  x = s
    BY <1>2, <2>4, EdgeFields DEF Booked, TargetNode
  <2>5. <<"Snapshot", x>> \in named
    BY <1>8, <1>11, <2>1
  <2>6. CASE <<"Snapshot", x>> \in known
    BY <1>4, <1>11, <2>6 DEF TargetNode
  <2>7. CASE <<"Snapshot", x>> \in Ends(marked \cup plain)
    BY <2>3, <2>4, <2>7 DEF Ends
  <2> QED BY <1>5, <2>2, <2>5, <2>6, <2>7
<1>12. ASSUME NEW h \in HopsOf(s)
       PROVE  /\ HopNode(s, h) \in DOMAIN nodes'
              /\ nodes'[HopNode(s, h)] = [ip |-> HopAt(s, h).ip, timeout |-> HopAt(s, h).timeout]
  <2>1. HopNode(s, h) \in DOMAIN HopProps(s)
    BY HopPropsOf
  <2>2. nodes'[HopNode(s, h)] = HopProps(s)[HopNode(s, h)]
    BY <1>1, <2>1 DEF Over
  <2> QED BY <1>8, <2>1, <2>2, HopPropsOf
<1>13. ASSUME NEW n \in DOMAIN nodes, n[2].snap # s
       PROVE  nodes'[n] = nodes[n]
  <2>1. n \notin DOMAIN HopProps(s)
    <3> SUFFICES ASSUME n \in DOMAIN HopProps(s) PROVE FALSE
      OBVIOUS
    <3>1. PICK h \in HopsOf(s) : n = HopNode(s, h)
      BY HopPropsOf
    <3> QED BY <1>13, <3>1, HopIsHop
  <2> QED BY <1>1, <1>7, <2>1 DEF Over
<1>14. ASSUME NEW t, <<"Target", t>> \in DOMAIN nodes', <<"Target", t>> \notin DOMAIN nodes
       PROVE  t = TargetOf[s]
  <2>1. <<"Target", t>> \notin DOMAIN HopProps(s)
    <3>1. \A h : HopNode(s, h) # <<"Target", t>>
      BY DEF HopNode, Hop
    <3> QED BY <3>1, HopPropsOf
  <2>2. <<"Target", t>> \notin HitNodes(s, hits)
    BY DEF HitNodes
  <2>3. ASSUME NEW e \in marked PROVE e.to # <<"Target", t>> /\ (e.from = <<"Target", t>> => t = TargetOf[s])
    BY <1>3 DEF Drawn, Bare, TargetNode
  <2>4. ASSUME NEW e \in plain
        PROVE  /\ e.from = <<"Target", t>> => t = TargetOf[s]
               /\ e.to = <<"Target", t>> => <<"Target", t>> \in known
    BY <1>2, EdgeFields DEF Booked, TargetNode
  <2>5. <<"Target", t>> \in named
    BY <1>8, <1>14, <2>1
  <2>6. CASE <<"Target", t>> \in known
    BY <1>4, <1>14, <2>6 DEF TargetNode
  <2>7. CASE <<"Target", t>> \in Ends(marked \cup plain)
    BY <2>3, <2>4, <2>6, <2>7 DEF Ends
  <2> QED BY <1>5, <2>2, <2>5, <2>6, <2>7
<1> QED
  BY <1>14, <1>4, <1>5, <1>8, <1>10, <1>11, <1>12, <1>13

LEMMA EnrichEffect ==
    ASSUME NEW s, NEW hits, SyncEnrichment(s, hits), Ends(DOMAIN edges) \subseteq DOMAIN nodes
    PROVE  /\ DOMAIN edges \subseteq DOMAIN edges' /\ \A e \in DOMAIN edges : edges'[e] = edges[e]
           /\ \A e \in DOMAIN edges' \ DOMAIN edges :
                 Booked(s, e) /\ e.rel # "HAS_SNAPSHOT" /\ edges'[e] = NoSnapshot
           /\ DOMAIN nodes \subseteq DOMAIN nodes' /\ \A n \in DOMAIN nodes : nodes'[n] = nodes[n]
           /\ \A n \in DOMAIN nodes' \ DOMAIN nodes : n[1] = "EnrichmentHit"
           /\ Ends(DOMAIN edges') \subseteq DOMAIN nodes'
<1> DEFINE new == syncEnrichmentHits(s, hits, DOMAIN nodes)
<1>1. /\ edges' = Over(Plain(new), edges)
      /\ nodes' = Over(nodes, [n \in HitNodes(s, hits) |-> NoProps])
  BY DEF SyncEnrichment
<1>2. \A e \in new : /\ Booked(s, e) /\ e.rel # "HAS_SNAPSHOT"
                      /\ e.from \in DOMAIN nodes /\ e.to \in HitNodes(s, hits)
  BY HitsBooked
<1> HIDE DEF new
<1>3. DOMAIN Plain(new) = new
      /\ \A e \in new : Plain(new)[e] = IF e \in DOMAIN edges THEN edges[e] ELSE NoSnapshot
  BY DEF Plain
<1>4. DOMAIN edges' = new \cup DOMAIN edges
  BY <1>1, <1>3 DEF Over
<1>5. ASSUME NEW e \in DOMAIN edges'
      PROVE  edges'[e] = IF e \in DOMAIN edges THEN edges[e] ELSE NoSnapshot
  BY <1>1, <1>3, <1>4 DEF Over
<1>6. DOMAIN nodes' = DOMAIN nodes \cup HitNodes(s, hits)
      /\ \A n \in DOMAIN nodes : nodes'[n] = nodes[n]
  BY <1>1 DEF Over
<1>7. \A n \in HitNodes(s, hits) : n[1] = "EnrichmentHit"
  BY DEF HitNodes
<1>8. Ends(DOMAIN edges') \subseteq DOMAIN nodes'
  BY <1>2, <1>4, <1>6 DEF Ends
<1> QED
  BY <1>2, <1>4, <1>5, <1>6, <1>7, <1>8

(* A deletion removes the target and the snapshots that hang on it.        *)
LEMMA DeleteEffect ==
    ASSUME NEW t, DeleteTarget(t), ShapeInv, Ends(DOMAIN edges) \subseteq DOMAIN nodes
    PROVE  \E removed :
              /\ \A n \in removed :
                    \/ n = <<"Target", t>>
                    \/ \E s \in Snapshots : /\ TargetOf[s] = t /\ n = <<"Snapshot", s>>
              /\ <<"Target", t>> \in removed
              /\ \A s \in Snapshots :
                    TargetOf[s] = t
                    /\ Edge(TargetNode(s), "HAS_SNAPSHOT", <<"Snapshot", s>>, NoKey) \in DOMAIN edges
                        => <<"Snapshot", s>> \in removed
              /\ DOMAIN nodes' = DOMAIN nodes \ removed
              /\ \A n \in DOMAIN nodes' : nodes'[n] = nodes[n]
              /\ DOMAIN edges' = {e \in DOMAIN edges : e.from \notin removed /\ e.to \notin removed}
              /\ \A e \in DOMAIN edges' : edges'[e] = edges[e]
              /\ Ends(DOMAIN edges') \subseteq DOMAIN nodes'
<1> DEFINE own == {x \in DOMAIN edges : x.from = <<"Target", t>> /\ x.rel = "HAS_SNAPSHOT"}
           removed == {<<"Target", t>>} \cup {e.to : e \in own}
<1>1. Without(removed)
  BY DEF DeleteTarget
<1>2. ASSUME NEW e \in own
      PROVE  \E s \in Snapshots : TargetOf[s] = t /\ e.to = <<"Snapshot", s>>
  <2>1. PICK s \in Snapshots : e = Edge(TargetNode(s), "HAS_SNAPSHOT", <<"Snapshot", s>>, NoKey)
    BY DEF ShapeInv, Shape
  <2>2. e.from = <<"Target", TargetOf[s]>> /\ e.to = <<"Snapshot", s>>
    BY <2>1, EdgeFields DEF TargetNode
  <2>3. TargetOf[s] = t
    BY <2>2
  <2> QED BY <2>2, <2>3
<1>3. ASSUME NEW n \in removed
      PROVE  \/ n = <<"Target", t>>
             \/ \E s \in Snapshots : TargetOf[s] = t /\ n = <<"Snapshot", s>>
  BY <1>2
<1>4. ASSUME NEW s \in Snapshots, TargetOf[s] = t,
             Edge(TargetNode(s), "HAS_SNAPSHOT", <<"Snapshot", s>>, NoKey) \in DOMAIN edges
      PROVE  <<"Snapshot", s>> \in removed
  <2> DEFINE e == Edge(TargetNode(s), "HAS_SNAPSHOT", <<"Snapshot", s>>, NoKey)
  <2>1. e.from = <<"Target", t>> /\ e.rel = "HAS_SNAPSHOT" /\ e.to = <<"Snapshot", s>>
    BY <1>4, EdgeFields DEF TargetNode
  <2>2. e \in own
    BY <1>4, <2>1
  <2> QED BY <2>1, <2>2
<1>7. <<"Target", t>> \in removed
  OBVIOUS
<1> HIDE DEF removed
<1>5. /\ DOMAIN nodes' = DOMAIN nodes \ removed
      /\ \A n \in DOMAIN nodes' : nodes'[n] = nodes[n]
      /\ DOMAIN edges' = {e \in DOMAIN edges : e.from \notin removed /\ e.to \notin removed}
      /\ \A e \in DOMAIN edges' : edges'[e] = edges[e]
  BY <1>1 DEF Without
<1>6. Ends(DOMAIN edges') \subseteq DOMAIN nodes'
  BY <1>5 DEF Ends
<1> QED
  BY <1>3, <1>4, <1>5, <1>6, <1>7

(* The scan results do not change, nor what is drawn from them.            *)
LEMMA RawSame ==
    ASSUME raw' = raw
    PROVE  \A s, h : /\ HopsOf(s)' = HopsOf(s) /\ HopAt(s, h)' = HopAt(s, h)
                     /\ HopNode(s, h)' = HopNode(s, h) /\ TraceEdge(s, h)' = TraceEdge(s, h)
  BY DEF HopsOf, HopAt, HopNode, TraceEdge

LEMMA ShapeSame ==
    ASSUME raw' = raw
    PROVE  \A e, mark : Shape(e, mark)' = Shape(e, mark)
  BY RawSame DEF Shape

LEMMA BookedShape ==
    ASSUME NEW s \in Snapshots, NEW e, Booked(s, e)
    PROVE  Shape(e, NoSnapshot)
<1>1. e.rel \notin PathEdgeTypes /\ e.rel # "TRACEROUTE_HOP"
  BY BookedApart
<1>2. CASE e = Edge(TargetNode(s), "HAS_SNAPSHOT", <<"Snapshot", s>>, NoKey)
  <2>1. e.rel = "HAS_SNAPSHOT" /\ e.to = <<"Snapshot", s>>
    BY <1>2, EdgeFields
  <2>2. e.to[1] = "Snapshot"
    BY <2>1
  <2> QED BY <1>1, <1>2, <2>1, <2>2 DEF Shape
<1>3. CASE e.rel = "SCANNED_AS" /\ e.from[1] \in {"Subdomain", "CertSAN"} /\ e.to[1] = "Target"
  BY <1>1, <1>3 DEF Shape
<1>4. CASE /\ e.rel \in {"DETECTED", "HAS_INTEL_EVENT", "ENRICHED_BY", "HAS_ENRICHMENT_HIT"}
           /\ e.to[1] \in {"IntelEvent", "EnrichmentHit"}
  BY <1>1, <1>4 DEF Shape
<1> QED
  BY <1>2, <1>3, <1>4 DEF Booked

LEMMA DrawnShape ==
    ASSUME NEW s \in Snapshots, NEW e, Drawn(s, e)
    PROVE  Shape(e, s)
  BY DEF Drawn, Shape, Bare, TargetNode

-----------------------------------------------------------------------------
(* What the transactions keep of the graph.                                *)
LEMMA SyncKeeps ==
    ASSUME raw \in RawData, EdgesInv, ShapeInv, SnapshotInv,
           NEW s \in Snapshots, NEW hits, NEW withEvents, SyncSnapshot(s, hits, withEvents), raw' = raw
    PROVE  /\ EdgesInv' /\ ShapeInv' /\ SnapshotInv'
           /\ InGraph(s)' /\ \A x \in Snapshots : InGraph(x) => InGraph(x)'
<1>1. /\ DOMAIN edges \subseteq DOMAIN edges'
      /\ \A e \in DOMAIN edges' :
            \/ e \in DOMAIN edges /\ edges'[e] = edges[e]
            \/ e \notin DOMAIN edges /\ Booked(s, e) /\ edges'[e] = NoSnapshot
            \/ Drawn(s, e) /\ edges'[e] = s
      /\ Edge(TargetNode(s), "HAS_SNAPSHOT", <<"Snapshot", s>>, NoKey) \in DOMAIN edges'
      /\ \A h \in HopsOf(s) : TraceEdge(s, h) \in DOMAIN edges' /\ edges'[TraceEdge(s, h)] = s
  BY SyncEdges
<1>2. /\ DOMAIN nodes \subseteq DOMAIN nodes' /\ <<"Snapshot", s>> \in DOMAIN nodes'
      /\ Ends(DOMAIN edges') \subseteq DOMAIN nodes'
      /\ \A x : <<"Snapshot", x>> \in DOMAIN nodes' => x = s \/ <<"Snapshot", x>> \in DOMAIN nodes
      /\ \A h \in HopsOf(s) :
            /\ HopNode(s, h) \in DOMAIN nodes'
            /\ nodes'[HopNode(s, h)] = [ip |-> HopAt(s, h).ip, timeout |-> HopAt(s, h).timeout]
      /\ \A n \in DOMAIN nodes : n[2].snap # s => nodes'[n] = nodes[n]
  BY SyncNodes DEF EdgesInv
<1>3. EdgesInv'
  BY <1>1, <1>2 DEF EdgesInv
<1>4. ShapeInv'
  <2> SUFFICES ASSUME NEW e \in DOMAIN edges' PROVE Shape(e, edges'[e])
    BY ShapeSame DEF ShapeInv
  <2>1. CASE e \in DOMAIN edges /\ edges'[e] = edges[e]
    BY <2>1 DEF ShapeInv
  <2>2. CASE Booked(s, e) /\ edges'[e] = NoSnapshot
    BY <2>2, BookedShape
  <2>3. CASE Drawn(s, e) /\ edges'[e] = s
    BY <2>3, DrawnShape
  <2> QED BY <1>1, <2>1, <2>2, <2>3
<1>5. ASSUME NEW x \in Snapshots, <<"Snapshot", x>> \in DOMAIN nodes'
      PROVE  /\ Edge(TargetNode(x), "HAS_SNAPSHOT", <<"Snapshot", x>>, NoKey) \in DOMAIN edges'
             /\ \A h \in HopsOf(x) :
                 /\ TraceEdge(x, h) \in DOMAIN edges' /\ edges'[TraceEdge(x, h)] = x
                 /\ HopNode(x, h) \in DOMAIN nodes'
                 /\ nodes'[HopNode(x, h)] = [ip |-> HopAt(x, h).ip, timeout |-> HopAt(x, h).timeout]
  <2>1. CASE x = s
    BY <1>1, <1>2, <2>1
  <2>2. CASE x # s
    <3>1. InGraph(x)
      BY <1>2, <1>5, <2>2 DEF InGraph
    <3>2. ASSUME NEW h \in HopsOf(x)
          PROVE  edges'[TraceEdge(x, h)] = x
      <4>1. TraceEdge(x, h) \in DOMAIN edges /\ edges[TraceEdge(x, h)] = x
        BY <3>1 DEF SnapshotInv
      <4>2. ASSUME Drawn(s, TraceEdge(x, h)) PROVE FALSE
        <5>1. TraceEdge(x, h).rel = "TRACEROUTE_HOP" /\ TraceEdge(x, h).to = HopNode(x, h)
          BY EdgeFields DEF TraceEdge
        <5>2. PICK g \in HopsOf(s) : TraceEdge(x, h) = TraceEdge(s, g)
          BY <4>2, <5>1 DEF Drawn
        <5>3. HopNode(x, h) = HopNode(s, g)
          BY <5>1, <5>2, EdgeFields DEF TraceEdge
        <5> QED BY <2>2, <5>3, HopIsHop
      <4> QED BY <1>1, <4>1, <4>2
    <3>3. ASSUME NEW h \in HopsOf(x)
          PROVE  nodes'[HopNode(x, h)] = nodes[HopNode(x, h)]
      <4>1. HopNode(x, h)[2].snap = x
        BY HopIsHop
      <4>2. HopNode(x, h) \in DOMAIN nodes
        BY <3>1 DEF SnapshotInv
      <4> QED BY <1>2, <2>2, <4>1, <4>2
    <3> QED BY <1>1, <1>2, <3>1, <3>2, <3>3 DEF SnapshotInv
  <2> QED BY <2>1, <2>2
<1>6. SnapshotInv'
  BY <1>5, RawSame DEF SnapshotInv, InGraph
<1> QED
  BY <1>2, <1>3, <1>4, <1>6 DEF InGraph

LEMMA EnrichKeeps ==
    ASSUME EdgesInv, ShapeInv, SnapshotInv,
           NEW s \in Snapshots, NEW hits, SyncEnrichment(s, hits), raw' = raw
    PROVE  /\ EdgesInv' /\ ShapeInv' /\ SnapshotInv'
           /\ \A x \in Snapshots : InGraph(x) => InGraph(x)'
<1>1. /\ DOMAIN edges \subseteq DOMAIN edges' /\ \A e \in DOMAIN edges : edges'[e] = edges[e]
      /\ \A e \in DOMAIN edges' \ DOMAIN edges :
            Booked(s, e) /\ e.rel # "HAS_SNAPSHOT" /\ edges'[e] = NoSnapshot
      /\ DOMAIN nodes \subseteq DOMAIN nodes' /\ \A n \in DOMAIN nodes : nodes'[n] = nodes[n]
      /\ \A n \in DOMAIN nodes' \ DOMAIN nodes : n[1] = "EnrichmentHit"
      /\ Ends(DOMAIN edges') \subseteq DOMAIN nodes'
  BY EnrichEffect DEF EdgesInv
<1>2. EdgesInv'
  BY <1>1 DEF EdgesInv
<1>3. ShapeInv'
  <2> SUFFICES ASSUME NEW e \in DOMAIN edges' PROVE Shape(e, edges'[e])
    BY ShapeSame DEF ShapeInv
  <2>1. CASE e \in DOMAIN edges
    BY <1>1, <2>1 DEF ShapeInv
  <2>2. CASE e \notin DOMAIN edges
    BY <1>1, <2>2, BookedShape
  <2> QED BY <2>1, <2>2
<1>4. ASSUME NEW x \in Snapshots, <<"Snapshot", x>> \in DOMAIN nodes' PROVE InGraph(x)
  <2>1. <<"Snapshot", x>>[1] # "EnrichmentHit"
    OBVIOUS
  <2> QED BY <1>1, <1>4, <2>1 DEF InGraph
<1>5. SnapshotInv'
  BY <1>1, <1>4, RawSame DEF SnapshotInv, InGraph
<1> QED
  BY <1>1, <1>2, <1>3, <1>5 DEF InGraph

LEMMA DeleteKeeps ==
    ASSUME EdgesInv, ShapeInv, SnapshotInv, NEW t, DeleteTarget(t), raw' = raw
    PROVE  /\ EdgesInv' /\ ShapeInv' /\ SnapshotInv'
           /\ \A x \in Snapshots : InGraph(x) /\ TargetOf[x] # t => InGraph(x)'
<1>1. PICK removed :
        /\ \A n \in removed :
              \/ n = <<"Target", t>>
              \/ \E s \in Snapshots : /\ TargetOf[s] = t /\ n = <<"Snapshot", s>>
        /\ \A s \in Snapshots :
              TargetOf[s] = t
              /\ Edge(TargetNode(s), "HAS_SNAPSHOT", <<"Snapshot", s>>, NoKey) \in DOMAIN edges
                  => <<"Snapshot", s>> \in removed
        /\ DOMAIN nodes' = DOMAIN nodes \ removed
        /\ \A n \in DOMAIN nodes' : nodes'[n] = nodes[n]
        /\ DOMAIN edges' = {e \in DOMAIN edges : e.from \notin removed /\ e.to \notin removed}
        /\ \A e \in DOMAIN edges' : edges'[e] = edges[e]
        /\ Ends(DOMAIN edges') \subseteq DOMAIN nodes'
  BY DeleteEffect DEF EdgesInv
<1>2. EdgesInv'
  BY <1>1 DEF EdgesInv
<1>3. ShapeInv'
  <2> SUFFICES ASSUME NEW e \in DOMAIN edges' PROVE Shape(e, edges'[e])
    BY ShapeSame DEF ShapeInv
  <2> QED BY <1>1 DEF ShapeInv
<1>4. ASSUME NEW x \in Snapshots, TargetOf[x] # t
      PROVE  TargetNode(x) \notin removed /\ <<"Snapshot", x>> \notin removed
  BY <1>1, <1>4 DEF TargetNode
<1>5. \A n \in removed : n[1] # "Hop"
  BY <1>1
<1>6. ASSUME NEW x \in Snapshots, <<"Snapshot", x>> \in DOMAIN nodes'
      PROVE  /\ Edge(TargetNode(x), "HAS_SNAPSHOT", <<"Snapshot", x>>, NoKey) \in DOMAIN edges'
             /\ \A h \in HopsOf(x) :
                 /\ TraceEdge(x, h) \in DOMAIN edges' /\ edges'[TraceEdge(x, h)] = x
                 /\ HopNode(x, h) \in DOMAIN nodes'
                 /\ nodes'[HopNode(x, h)] = [ip |-> HopAt(x, h).ip, timeout |-> HopAt(x, h).timeout]
  <2>1. InGraph(x) /\ <<"Snapshot", x>> \notin removed
    BY <1>1, <1>6 DEF InGraph
  <2>2. TargetOf[x] # t
    BY <1>1, <2>1 DEF SnapshotInv
  <2>3. TargetNode(x) \notin removed
    BY <1>4, <2>2
  <2>4. Edge(TargetNode(x), "HAS_SNAPSHOT", <<"Snapshot", x>>, NoKey) \in DOMAIN edges'
    BY <1>1, <2>1, <2>3, EdgeFields DEF SnapshotInv
  <2>5. ASSUME NEW h \in HopsOf(x)
        PROVE  /\ TraceEdge(x, h) \in DOMAIN edges' /\ edges'[TraceEdge(x, h)] = x
               /\ HopNode(x, h) \in DOMAIN nodes'
               /\ nodes'[HopNode(x, h)] = [ip |-> HopAt(x, h).ip, timeout |-> HopAt(x, h).timeout]
    <3>1. /\ TraceEdge(x, h) \in DOMAIN edges /\ edges[TraceEdge(x, h)] = x
          /\ HopNode(x, h) \in DOMAIN nodes
          /\ nodes[HopNode(x, h)] = [ip |-> HopAt(x, h).ip, timeout |-> HopAt(x, h).timeout]
      BY <2>1 DEF SnapshotInv
    <3>2. HopNode(x, h) \notin removed
      BY <1>5, HopIsHop
    <3>3. TraceEdge(x, h).from = TargetNode(x) /\ TraceEdge(x, h).to = HopNode(x, h)
      BY EdgeFields DEF TraceEdge
    <3> QED BY <1>1, <2>3, <3>1, <3>2, <3>3
  <2> QED BY <2>4, <2>5
<1>7. SnapshotInv'
  BY <1>6, RawSame DEF SnapshotInv, InGraph
<1> QED
  BY <1>1, <1>2, <1>3, <1>4, <1>7 DEF InGraph

LEMMA GraphSame ==
    ASSUME EdgesInv, ShapeInv, SnapshotInv, UNCHANGED graph, raw' = raw
    PROVE  /\ EdgesInv' /\ ShapeInv' /\ SnapshotInv'
           /\ \A x \in Snapshots : InGraph(x)' = InGraph(x)
<1>1. nodes' = nodes /\ edges' = edges
  BY DEF graph
<1> QED
  BY <1>1, ShapeSame, RawSame DEF EdgesInv, ShapeInv, SnapshotInv, InGraph, Ends

-----------------------------------------------------------------------------
(* The callers leave the graph alone.                                      *)
GraphPart == EdgesInv /\ ShapeInv /\ SnapshotInv

LEMMA GraphInvParts ==
    GraphInv <=>
        /\ rows \in [Snapshots -> {"absent", "pending", "completed", "deleted"}]
        /\ gone \subseteq Targets /\ lost + repeats <= MaxExtra
        /\ CountInv /\ TasksInv /\ RowsInv /\ WorkInv /\ GraphPart
  BY DEF GraphInv, TypeOK, GraphPart, EdgesInv, WorkInv

LEMMA GraphStart == Init => GraphInv
<1> SUFFICES ASSUME Init PROVE GraphInv
  OBVIOUS
<1>1. rows = [s \in Snapshots |-> "absent"] /\ gone = {} /\ tasks = {} /\ lost = 0 /\ repeats = 0
      /\ nodes = <<>> /\ edges = <<>> /\ raw \in RawData
      /\ storing = {} /\ enriching = {} /\ missed = {}
  BY DEF Init
<1>2. rows \in [Snapshots -> {"absent", "pending", "completed", "deleted"}]
      /\ gone \subseteq Targets /\ lost + repeats <= MaxExtra /\ CountInv /\ WorkInv
  BY <1>1, GraphAssumption DEF CountInv, WorkInv
<1>3. TasksInv /\ RowsInv
  BY <1>1 DEF TasksInv, RowsInv, Stored
<1>4. DOMAIN edges = {} /\ DOMAIN nodes = {}
  BY <1>1
<1>5. GraphPart
  BY <1>4 DEF GraphPart, EdgesInv, ShapeInv, SnapshotInv, InGraph, Ends
<1> QED
  BY <1>2, <1>3, <1>5, GraphInvParts

(* What leaves the graph alone, starts no more than it should and loses    *)
(* nothing unseen preserves the invariant.                                 *)
LEMMA CallersKeep ==
    ASSUME GraphInv, raw' = raw, UNCHANGED graph,
           rows' \in [Snapshots -> {"absent", "pending", "completed", "deleted"}],
           gone' \subseteq Targets, lost' + repeats' <= MaxExtra, lost' \in Nat, repeats' \in Nat,
           WorkInv', TasksInv',
           \A x \in Snapshots : TargetOf[x] \in gone' => ~Stored(x)',
           \A x \in Snapshots : Stored(x)' =>
               (Stored(x) /\ x \notin storing \cup missed \cup Passed(tasks))
               \/ x \in storing' \cup missed' \cup Passed(tasks')
    PROVE  GraphInv'
<1>1. GraphPart' /\ \A x \in Snapshots : InGraph(x)' = InGraph(x)
  BY GraphInvParts, GraphSame DEF GraphPart
<1>2. CountInv'
  BY GraphInvParts DEF CountInv
<1>3. Passed(tasks)' = Passed(tasks')
  BY DEF Passed
<1>4. RowsInv'
  BY <1>1, <1>3, GraphInvParts DEF RowsInv
<1> QED
  BY <1>1, <1>2, <1>4 DEF GraphInv, TypeOK, GraphPart, EdgesInv, WorkInv

LEMMA PersistKeeps ==
    ASSUME GraphInv, NEW s \in Snapshots, PersistScan(s)
    PROVE  GraphInv'
<1>1. /\ TargetOf[s] \notin gone /\ rows' = [rows EXCEPT ![s] = "pending"]
      /\ storing' = storing \cup {s}
      /\ raw' = raw /\ gone' = gone /\ repeats' = repeats /\ UNCHANGED graph
      /\ enriching' = enriching /\ tasks' = tasks /\ lost' = lost /\ missed' = missed
  BY DEF PersistScan, fate
<1>2. /\ rows \in [Snapshots -> {"absent", "pending", "completed", "deleted"}]
      /\ gone \subseteq Targets /\ lost + repeats <= MaxExtra
      /\ CountInv /\ TasksInv /\ RowsInv /\ WorkInv
  BY GraphInvParts
<1>3. \A x \in Snapshots : (x # s => Stored(x)' = Stored(x)) /\ Stored(s)'
  BY <1>1, <1>2 DEF Stored
<1>4. WorkInv' /\ TasksInv'
  BY <1>1, <1>2, <1>3 DEF WorkInv, TasksInv
<1>5. \A x \in Snapshots : TargetOf[x] \in gone' => ~Stored(x)'
  BY <1>1, <1>2, <1>3 DEF RowsInv
<1>6. \A x \in Snapshots : Stored(x)' =>
          (Stored(x) /\ x \notin storing \cup missed \cup Passed(tasks))
          \/ x \in storing' \cup missed' \cup Passed(tasks')
  BY <1>1, <1>3
<1> QED
  BY <1>1, <1>2, <1>4, <1>5, <1>6, CallersKeep DEF CountInv

(* The scans and the goroutines, which leave the table alone: what they    *)
(* were to pass on is missed, or under way.                                *)
LEMMA TableKept ==
    ASSUME GraphInv, UNCHANGED table \/ (raw' = raw /\ rows' = rows /\ gone' = gone), UNCHANGED graph,
           lost' + repeats' <= MaxExtra, lost' \in Nat, repeats' \in Nat, WorkInv', TasksInv',
           \A x \in storing \cup missed \cup Passed(tasks) :
               x \in storing' \cup missed' \cup Passed(tasks')
    PROVE  GraphInv'
<1>1. raw' = raw /\ rows' = rows /\ gone' = gone
  BY DEF table
<1>2. \A x \in Snapshots : Stored(x)' = Stored(x)
  BY <1>1 DEF Stored
<1> QED
  BY <1>1, <1>2, GraphInvParts, CallersKeep DEF RowsInv

LEMMA StoringKeeps ==
    ASSUME GraphInv, NEW s \in Snapshots, PersistFails(s) \/ PassOnNew(s)
    PROVE  GraphInv'
<1>1. /\ CountInv /\ TasksInv /\ WorkInv /\ lost + repeats <= MaxExtra
  BY GraphInvParts
<1>2. CASE PersistFails(s)
  <2>1. /\ lost + repeats < MaxExtra /\ lost' = lost + 1 /\ repeats' = repeats
        /\ storing' = storing \ {s} /\ missed' = missed \cup {s}
        /\ UNCHANGED <<table, graph>> /\ enriching' = enriching /\ tasks' = tasks /\ rows' = rows
    BY <1>2 DEF PersistFails, table
  <2>2. lost' + repeats' <= MaxExtra /\ lost' \in Nat /\ repeats' \in Nat
    BY <1>1, <2>1, GraphAssumption DEF CountInv
  <2>3. WorkInv' /\ TasksInv'
    BY <1>1, <2>1 DEF WorkInv, TasksInv, Stored, table
  <2>4. \A x \in storing \cup missed \cup Passed(tasks) :
            x \in storing' \cup missed' \cup Passed(tasks')
    BY <2>1
  <2> QED BY <2>1, <2>2, <2>3, <2>4, TableKept
<1>3. CASE PassOnNew(s)
  <2> DEFINE k == Task("sync", s, {"status"}, TRUE)
  <2>1. /\ storing' = storing \ {s} /\ tasks' = tasks \cup {k}
        /\ enriching' = enriching \cup {x \in {s} : Stored(x)}
        /\ UNCHANGED <<table, graph>> /\ lost' = lost /\ missed' = missed /\ rows' = rows
        /\ repeats' = repeats /\ gone' = gone
    BY <1>3 DEF PassOnNew, table, fate
  <2>2. k.kind = "sync" /\ k.snap = s /\ k.target = TargetOf[s]
    BY DEF Task
  <2> HIDE DEF k
  <2>3. WorkInv' /\ TasksInv'
    BY <1>1, <2>1, <2>2 DEF WorkInv, TasksInv, Stored
  <2>4. Passed(tasks) \cup {s} \subseteq Passed(tasks')
    BY <2>1, <2>2 DEF Passed
  <2>5. \A x \in storing \cup missed \cup Passed(tasks) :
            x \in storing' \cup missed' \cup Passed(tasks')
    BY <2>1, <2>4
  <2> QED BY <1>1, <2>1, <2>3, <2>5, TableKept DEF CountInv
<1> QED
  BY <1>2, <1>3

LEMMA PassOnKeeps ==
    ASSUME GraphInv, NEW s \in Snapshots, PersistRepeated(s) \/ RebuildGraph(s)
    PROVE  GraphInv'
<1>1. PICK withEvents : PassOn(s, withEvents) /\ enriching' \in {enriching, enriching \cup {s}}
  BY DEF PersistRepeated, RebuildGraph
<1> DEFINE k == Task("sync", s, RowHits(s), withEvents)
<1>2. /\ Stored(s) /\ lost + repeats < MaxExtra /\ repeats' = repeats + 1 /\ tasks' = tasks \cup {k}
      /\ raw' = raw /\ gone' = gone /\ rows' = rows /\ lost' = lost /\ UNCHANGED graph
      /\ storing' = storing /\ missed' = missed
  BY <1>1 DEF PassOn, fate
<1>3. k.kind = "sync" /\ k.snap = s /\ k.target = TargetOf[s]
  BY DEF Task
<1> HIDE DEF k
<1>4. CountInv /\ TasksInv /\ WorkInv /\ lost + repeats <= MaxExtra
  BY GraphInvParts
<1>5. lost' + repeats' <= MaxExtra /\ lost' \in Nat /\ repeats' \in Nat
  BY <1>2, <1>4, GraphAssumption DEF CountInv
<1>6. WorkInv' /\ TasksInv'
  BY <1>1, <1>2, <1>3, <1>4 DEF WorkInv, TasksInv, Stored
<1>7. Passed(tasks) \subseteq Passed(tasks')
  BY <1>2 DEF Passed
<1>8. \A x \in storing \cup missed \cup Passed(tasks) :
          x \in storing' \cup missed' \cup Passed(tasks')
  BY <1>2, <1>7
<1> QED
  BY <1>2, <1>5, <1>6, <1>8, TableKept

LEMMA EnrichRowKeeps ==
    ASSUME GraphInv, NEW s \in Snapshots, EnrichSnapshot(s)
    PROVE  GraphInv'
<1> DEFINE k == Task("enrich", s, {"status"} \cup raw[s].providers, FALSE)
<1>1. /\ s \in enriching /\ enriching' = enriching \ {s}
      /\ rows' = [rows EXCEPT ![s] = "completed"] /\ tasks' = tasks \cup {k}
      /\ raw' = raw /\ gone' = gone /\ repeats' = repeats /\ lost' = lost /\ UNCHANGED graph
      /\ storing' = storing /\ missed' = missed
  BY DEF EnrichSnapshot, fate
<1>2. k.kind = "enrich" /\ k.snap = s /\ k.target = TargetOf[s]
  BY DEF Task
<1> HIDE DEF k
<1>3. /\ rows \in [Snapshots -> {"absent", "pending", "completed", "deleted"}]
      /\ gone \subseteq Targets /\ lost + repeats <= MaxExtra
      /\ CountInv /\ TasksInv /\ RowsInv /\ WorkInv
  BY GraphInvParts
<1>4. \A x \in Snapshots : Stored(x)' = Stored(x)
  BY <1>1, <1>3 DEF Stored, WorkInv
<1>5. WorkInv' /\ TasksInv'
  BY <1>1, <1>2, <1>3, <1>4 DEF WorkInv, TasksInv
<1>6. Passed(tasks) \subseteq Passed(tasks')
  BY <1>1 DEF Passed
<1>7. \A x \in Snapshots : Stored(x)' =>
          (Stored(x) /\ x \notin storing \cup missed \cup Passed(tasks))
          \/ x \in storing' \cup missed' \cup Passed(tasks')
  BY <1>1, <1>4, <1>6
<1>8. /\ rows' \in [Snapshots -> {"absent", "pending", "completed", "deleted"}]
      /\ \A x \in Snapshots : TargetOf[x] \in gone' => ~Stored(x)'
  BY <1>1, <1>3, <1>4 DEF RowsInv
<1> QED
  BY <1>1, <1>3, <1>5, <1>7, <1>8, CallersKeep DEF CountInv

LEMMA DeleteRowsKeep ==
    ASSUME GraphInv,
           \/ \E s \in Snapshots : DeleteSnapshotRow(s)
           \/ \E t \in Targets : DeleteTargetRow(t)
    PROVE  GraphInv'
<1>1. /\ rows \in [Snapshots -> {"absent", "pending", "completed", "deleted"}]
      /\ gone \subseteq Targets /\ lost + repeats <= MaxExtra
      /\ CountInv /\ TasksInv /\ RowsInv /\ WorkInv
  BY GraphInvParts
<1>2. /\ raw' = raw /\ repeats' = repeats /\ lost' = lost /\ UNCHANGED graph
      /\ storing' = storing /\ missed' = missed /\ enriching' \subseteq enriching
      /\ tasks \subseteq tasks' /\ gone \subseteq gone' /\ gone' \subseteq Targets
      /\ rows' \in [Snapshots -> {"absent", "pending", "completed", "deleted"}]
      /\ \A x \in Snapshots : Stored(x)' => Stored(x)
  BY <1>1 DEF DeleteSnapshotRow, DeleteTargetRow, Stored, fate
<1>3. \A x \in Snapshots : TargetOf[x] \in gone' => ~Stored(x)'
  <2>1. CASE \E s \in Snapshots : DeleteSnapshotRow(s)
    BY <1>1, <1>2, <2>1 DEF DeleteSnapshotRow, RowsInv
  <2>2. ASSUME NEW t \in Targets, DeleteTargetRow(t), NEW x \in Snapshots, TargetOf[x] \in gone'
        PROVE  ~Stored(x)'
    <3>1. gone' = gone \cup {t}
          /\ rows' = [s \in Snapshots |-> IF TargetOf[s] = t /\ Stored(s) THEN "deleted" ELSE rows[s]]
      BY <2>2 DEF DeleteTargetRow
    <3>2. CASE TargetOf[x] = t
      BY <3>1, <3>2 DEF Stored
    <3>3. CASE TargetOf[x] \in gone
      BY <1>1, <1>2, <3>3 DEF RowsInv
    <3> QED BY <2>2, <3>1, <3>2, <3>3
  <2> QED BY <2>1, <2>2
<1>4. WorkInv'
  <2>1. ASSUME NEW x \in enriching' PROVE x \in Snapshots /\ Stored(x)'
    <3>1. x \in Snapshots /\ Stored(x)
      BY <1>1, <1>2, <2>1 DEF WorkInv
    <3>2. CASE \E s \in Snapshots : DeleteSnapshotRow(s)
      BY <1>1, <2>1, <3>1, <3>2 DEF DeleteSnapshotRow, Stored
    <3>3. CASE \E t \in Targets : DeleteTargetRow(t)
      BY <1>1, <2>1, <3>1, <3>3 DEF DeleteTargetRow, Stored, SnapshotsOf
    <3> QED BY <3>1, <3>2, <3>3
  <2> QED BY <1>1, <1>2, <2>1 DEF WorkInv
<1>5. TasksInv'
  <2>1. CASE \E s \in Snapshots : DeleteSnapshotRow(s)
    BY <1>1, <2>1 DEF DeleteSnapshotRow, TasksInv
  <2>2. ASSUME NEW t \in Targets, DeleteTargetRow(t)
        PROVE  TasksInv'
    <3>1. gone' = gone \cup {t} /\ tasks' = tasks \cup {[kind |-> "delete", target |-> t]}
      BY <2>2 DEF DeleteTargetRow
    <3> QED BY <1>1, <3>1 DEF TasksInv
  <2> QED BY <2>1, <2>2
<1>6. Passed(tasks) \subseteq Passed(tasks')
  BY <1>2 DEF Passed
<1>7. \A x \in Snapshots : Stored(x)' =>
          (Stored(x) /\ x \notin storing \cup missed \cup Passed(tasks))
          \/ x \in storing' \cup missed' \cup Passed(tasks')
  BY <1>2, <1>6
<1> QED
  BY <1>1, <1>2, <1>3, <1>4, <1>5, <1>7, CallersKeep DEF CountInv

(* What a failure or a restart loses is missed.                            *)
LEMMA LossKeeps ==
    ASSUME GraphInv, (\E k \in tasks : Fail(k)) \/ Restart
    PROVE  GraphInv'
<1>1. CountInv /\ TasksInv /\ WorkInv /\ lost + repeats <= MaxExtra
  BY GraphInvParts
<1>2. /\ UNCHANGED <<table, graph>> /\ repeats' = repeats /\ rows' = rows /\ gone' = gone
      /\ lost' = lost + 1 /\ lost + repeats < MaxExtra /\ tasks' \subseteq tasks
      /\ storing' \subseteq storing /\ enriching' \subseteq enriching
      /\ missed' = missed \cup (storing \ storing') \cup Passed(tasks \ tasks')
  BY DEF Fail, Restart, table, work
<1>3. lost' + repeats' <= MaxExtra /\ lost' \in Nat /\ repeats' \in Nat
  BY <1>1, <1>2, GraphAssumption DEF CountInv
<1>4. Passed(tasks \ tasks') \subseteq Snapshots /\ Passed(tasks) \subseteq Passed(tasks \ tasks') \cup Passed(tasks')
  BY DEF Passed
<1>5. WorkInv' /\ TasksInv'
  BY <1>1, <1>2, <1>4 DEF WorkInv, TasksInv, Stored
<1>6. \A x \in storing \cup missed \cup Passed(tasks) :
          x \in storing' \cup missed' \cup Passed(tasks')
  BY <1>2, <1>4
<1> QED
  BY <1>2, <1>3, <1>5, <1>6, TableKept

-----------------------------------------------------------------------------
(* The goroutines.                                                         *)
LEMMA RunEffect ==
    ASSUME GraphInv, NEW k \in tasks, Run(k)
    PROVE  \/ /\ k.kind = "sync" /\ k.snap \in Snapshots /\ k.target = TargetOf[k.snap]
              /\ SyncSnapshot(k.snap, k.hits, k.events)
           \/ /\ k.kind = "enrich" /\ k.snap \in Snapshots /\ k.target = TargetOf[k.snap]
              /\ SyncEnrichment(k.snap, k.hits)
           \/ k.kind = "delete" /\ k.target \in gone /\ DeleteTarget(k.target)
<1>1. CASE k.kind = "sync"
  BY <1>1, GraphInvParts DEF Run, TasksInv
<1>2. CASE k.kind = "enrich"
  BY <1>2, GraphInvParts DEF Run, TasksInv
<1>3. CASE k.kind = "delete"
  BY <1>3, GraphInvParts DEF Run, TasksInv
<1> QED
  BY <1>1, <1>2, <1>3, GraphInvParts DEF TasksInv

LEMMA RunKeeps ==
    ASSUME GraphInv, NEW k \in tasks, Run(k)
    PROVE  GraphInv'
<1>1. /\ raw' = raw /\ rows' = rows /\ gone' = gone /\ repeats' = repeats /\ lost' = lost
      /\ tasks' = tasks \ {k} /\ missed' = missed \ Passed({k})
      /\ storing' = storing /\ enriching' = enriching
  BY DEF Run, table, work
<1>2. CountInv' /\ lost' + repeats' <= MaxExtra /\ TasksInv' /\ WorkInv' /\ raw \in RawData
  BY <1>1, GraphInvParts DEF CountInv, TasksInv, WorkInv, Stored
<1>3. /\ GraphPart'
      /\ k.kind = "sync" => InGraph(k.snap)'
      /\ \A x \in Snapshots : InGraph(x) /\ TargetOf[x] \notin gone => InGraph(x)'
  <2>1. CASE k.kind = "sync" /\ k.snap \in Snapshots /\ SyncSnapshot(k.snap, k.hits, k.events)
    BY <1>1, <1>2, <2>1, GraphInvParts, SyncKeeps DEF GraphPart
  <2>2. CASE k.kind = "enrich" /\ k.snap \in Snapshots /\ SyncEnrichment(k.snap, k.hits)
    BY <1>1, <2>2, GraphInvParts, EnrichKeeps DEF GraphPart
  <2>3. CASE k.kind = "delete" /\ k.target \in gone /\ DeleteTarget(k.target)
    BY <1>1, <2>3, GraphInvParts, DeleteKeeps DEF GraphPart
  <2> QED BY <2>1, <2>2, <2>3, RunEffect
<1>4. \A x : Stored(x)' = Stored(x)
  BY <1>1 DEF Stored
<1>5. RowsInv'
  <2> SUFFICES ASSUME NEW x \in Snapshots, Stored(x)
               PROVE  InGraph(x)' \/ x \in storing' \cup missed' \cup Passed(tasks')
    BY <1>1, <1>4, GraphInvParts DEF RowsInv, Passed
  <2>1. TargetOf[x] \notin gone
    BY GraphInvParts DEF RowsInv
  <2>2. CASE InGraph(x)
    BY <1>3, <2>1, <2>2
  <2>3. CASE x \in Passed({k})
    BY <1>3, <2>3 DEF Passed
  <2>4. CASE x \in storing \cup missed \cup Passed(tasks) /\ x \notin Passed({k})
    <3>1. Passed(tasks) \ Passed({k}) \subseteq Passed(tasks')
      BY <1>1 DEF Passed
    <3> QED BY <1>1, <2>4, <3>1
  <2> QED BY <2>2, <2>3, <2>4, GraphInvParts DEF RowsInv
<1> QED
  BY <1>1, <1>2, <1>3, <1>5 DEF GraphInv, TypeOK, GraphPart, EdgesInv, WorkInv

LEMMA GraphStep == GraphInv /\ [Next]_vars => GraphInv'
<1> SUFFICES ASSUME GraphInv, [Next]_vars PROVE GraphInv'
  OBVIOUS
<1>1. CASE \E s \in Snapshots : PersistScan(s)
  BY <1>1, PersistKeeps
<1>2. CASE \E s \in Snapshots : PersistFails(s) \/ PassOnNew(s)
  BY <1>2, StoringKeeps
<1>3. CASE \E s \in Snapshots : PersistRepeated(s) \/ RebuildGraph(s)
  BY <1>3, PassOnKeeps
<1>4. CASE \E s \in Snapshots : EnrichSnapshot(s)
  BY <1>4, EnrichRowKeeps
<1>5. CASE (\E s \in Snapshots : DeleteSnapshotRow(s)) \/ (\E t \in Targets : DeleteTargetRow(t))
  BY <1>5, DeleteRowsKeep
<1>6. CASE \E k \in tasks : Run(k)
  BY <1>6, RunKeeps
<1>7. CASE (\E k \in tasks : Fail(k)) \/ Restart
  BY <1>7, LossKeeps
<1>8. CASE UNCHANGED vars
  <2>1. /\ UNCHANGED <<table, graph>> /\ rows' = rows /\ gone' = gone /\ tasks' = tasks
        /\ lost' = lost /\ repeats' = repeats /\ storing' = storing /\ missed' = missed
        /\ enriching' = enriching
    BY <1>8 DEF vars, table, work, fate
  <2>2. CountInv /\ TasksInv /\ WorkInv /\ lost + repeats <= MaxExtra
    BY GraphInvParts
  <2>3. WorkInv' /\ TasksInv'
    BY <2>1, <2>2 DEF WorkInv, TasksInv, Stored
  <2> QED BY <2>1, <2>2, <2>3, TableKept DEF CountInv
<1> QED
  BY <1>1, <1>2, <1>3, <1>4, <1>5, <1>6, <1>7, <1>8 DEF Next

-----------------------------------------------------------------------------
(* The graph is well formed: rows and deleted targets are as declared, an  *)
(* edge has both its ends, and carries a snapshot or none (neo4j_sync.go). *)
THEOREM GraphTyped == Spec => []TypeOK
<1>1. GraphInv => TypeOK
  BY DEF GraphInv
<1> QED
  BY <1>1, GraphStart, GraphStep, PTL DEF Spec

(* When no scan is storing and no goroutine is left, a snapshot of the     *)
(* table is in the graph unless its own passing on was lost, to an error   *)
(* of PersistScan after the INSERT, a failed transaction or a death of the *)
(* process, and did not succeed since; whatever was deleted meanwhile      *)
(* (handlers/snapshot.go, PersistScan, and browse.go, deleteTarget).       *)
THEOREM RowsArrive == Spec => []RowsReachGraph
<1>1. GraphInv => RowsReachGraph
  <2> SUFFICES ASSUME GraphInv, storing = {}, tasks = {} PROVE RowsReachGraph
    BY DEF RowsReachGraph
  <2>1. Passed(tasks) = {}
    BY DEF Passed
  <2> QED BY <2>1, GraphInvParts DEF RowsInv, RowsReachGraph
<1> QED
  BY <1>1, GraphStart, GraphStep, PTL DEF Spec

LEMMA TraceroutesRead == GraphInv => TraceroutesKept
<1> SUFFICES ASSUME GraphInv, NEW s \in Snapshots, InGraph(s)
             PROVE  getTraceroutePaths(TargetOf[s], s) =
                      {<<h[1], HopAt(s, h).hop, [ip |-> HopAt(s, h).ip, timeout |-> HopAt(s, h).timeout]>> :
                          h \in HopsOf(s)}
  BY DEF TraceroutesKept
<1> DEFINE E == {x \in DOMAIN edges : /\ x.from = <<"Target", TargetOf[s]>> /\ x.rel = "TRACEROUTE_HOP"
                                      /\ edges[x] = s /\ x.to[2].snap = s}
<1>1. ASSUME NEW x \in E PROVE \E h \in HopsOf(s) : x = TraceEdge(s, h)
  BY GraphInvParts DEF GraphPart, ShapeInv, Shape
<1>2. ASSUME NEW h \in HopsOf(s) PROVE TraceEdge(s, h) \in E
  <2>1. TraceEdge(s, h) \in DOMAIN edges /\ edges[TraceEdge(s, h)] = s
    BY GraphInvParts DEF GraphPart, SnapshotInv
  <2>2. /\ TraceEdge(s, h).from = <<"Target", TargetOf[s]>> /\ TraceEdge(s, h).rel = "TRACEROUTE_HOP"
        /\ TraceEdge(s, h).to = HopNode(s, h)
    BY EdgeFields DEF TraceEdge, TargetNode
  <2> QED BY <2>1, <2>2, HopIsHop
<1> DEFINE Read(x) == <<x.to[2].vantage, x.to[2].hop, nodes[x.to]>>
           Found(h) == <<h[1], HopAt(s, h).hop, [ip |-> HopAt(s, h).ip, timeout |-> HopAt(s, h).timeout]>>
<1>3. ASSUME NEW h \in HopsOf(s) PROVE Read(TraceEdge(s, h)) = Found(h)
  <2>1. TraceEdge(s, h).to = HopNode(s, h)
    BY EdgeFields DEF TraceEdge
  <2>2. nodes[HopNode(s, h)] = [ip |-> HopAt(s, h).ip, timeout |-> HopAt(s, h).timeout]
    BY GraphInvParts DEF GraphPart, SnapshotInv
  <2> QED BY <2>1, <2>2, HopIsHop
<1>4. getTraceroutePaths(TargetOf[s], s) = {Read(x) : x \in E}
  BY DEF getTraceroutePaths
<1>5. {Read(x) : x \in E} = {Found(h) : h \in HopsOf(s)}
  <2> HIDE DEF Read, Found, E
  <2>1. ASSUME NEW x \in E PROVE Read(x) \in {Found(h) : h \in HopsOf(s)}
    BY <1>1, <1>3
  <2>2. ASSUME NEW h \in HopsOf(s) PROVE Found(h) \in {Read(x) : x \in E}
    BY <1>2, <1>3, Zenon
  <2> QED BY <2>1, <2>2
<1> QED
  BY <1>4, <1>5

(* Of every snapshot the graph knows, however many came after it and in    *)
(* whatever order they were written, the traceroute that is read back has  *)
(* exactly the hops the scan found (neo4j_sync.go, syncTracerouteGraph,    *)
(* and neo4j_graph.go, getTraceroutePaths).                                *)
THEOREM TraceroutesComeBack == Spec => []TraceroutesKept
  BY GraphStart, GraphStep, TraceroutesRead, PTL DEF Spec

-----------------------------------------------------------------------------
(* What belongs to a target.                                               *)
Own(t, e, mark) ==
    \/ e.from = <<"Target", t>> /\ mark # NoSnapshot
    \/ e.rel \in PathEdgeTypes /\ e.key[1] = t
    \/ e.from[1] = "Hop" /\ e.from[2].target = t

LEMMA OwnParts ==
    ASSUME NEW t
    PROVE  /\ OwnPart(t) = {<<e, edges[e]>> : e \in {x \in DOMAIN edges : Own(t, x, edges[x])}}
           /\ OwnPart(t)' = {<<e, edges'[e]>> : e \in {x \in DOMAIN edges' : Own(t, x, edges'[x])}}
  BY DEF OwnPart, Own, PathEdgeTypes

(* What is drawn or booked for a snapshot of one target is no other's.     *)
LEMMA DrawnElsewhere ==
    ASSUME NEW s, NEW t, t # TargetOf[s], NEW e, Drawn(s, e), NEW mark
    PROVE  ~Own(t, e, mark)
<1>1. TargetNode(s) # <<"Target", t>> /\ TargetNode(s)[1] = "Target"
  BY DEF TargetNode
<1>2. <<"Target", t>>[1] = "Target"
  OBVIOUS
<1>3. CASE e.from = TargetNode(s) /\ e.rel \notin PathEdgeTypes
  BY <1>1, <1>3 DEF Own
<1>4. CASE e.from[1] = "ASN"
  BY <1>2, <1>4 DEF Own, Drawn
<1>5. CASE e.from[1] = "Hop" /\ e.from[2].target = TargetOf[s] /\ e.rel \notin PathEdgeTypes
  BY <1>2, <1>5 DEF Own
<1> QED
  BY <1>3, <1>4, <1>5 DEF Drawn

LEMMA BookedElsewhere ==
    ASSUME NEW s, NEW t, NEW e, Booked(s, e)
    PROVE  ~Own(t, e, NoSnapshot)
  BY BookedApart DEF Own

(* Edges that a step changes, adds or removes without their being the      *)
(* target's own leave its part as it is.                                   *)
LEMMA PartSame ==
    ASSUME NEW t,
           \A e \in DOMAIN edges' :
              \/ e \in DOMAIN edges /\ edges'[e] = edges[e]
              \/ ~Own(t, e, edges'[e]) /\ (e \in DOMAIN edges => ~Own(t, e, edges[e])),
           \A e \in DOMAIN edges \ DOMAIN edges' : ~Own(t, e, edges[e])
    PROVE  OwnPart(t)' = OwnPart(t)
  BY OwnParts

LEMMA RunElsewhere ==
    ASSUME GraphInv, NEW k \in tasks, Run(k), NEW t, t # k.target
    PROVE  OwnPart(t)' = OwnPart(t)
<1>1. ASSUME k.snap \in Snapshots, k.target = TargetOf[k.snap], SyncSnapshot(k.snap, k.hits, k.events)
      PROVE  OwnPart(t)' = OwnPart(t)
  <2>1. /\ DOMAIN edges \subseteq DOMAIN edges'
        /\ \A e \in DOMAIN edges' :
              \/ e \in DOMAIN edges /\ edges'[e] = edges[e]
              \/ e \notin DOMAIN edges /\ Booked(k.snap, e) /\ edges'[e] = NoSnapshot
              \/ Drawn(k.snap, e) /\ edges'[e] = k.snap
    BY <1>1, SyncEdges
  <2>2. \A e : Drawn(k.snap, e) => \A mark : ~Own(t, e, mark)
    BY <1>1, DrawnElsewhere
  <2> QED BY <2>1, <2>2, BookedElsewhere, PartSame
<1>2. ASSUME k.snap \in Snapshots, SyncEnrichment(k.snap, k.hits)
      PROVE  OwnPart(t)' = OwnPart(t)
  <2>1. /\ DOMAIN edges \subseteq DOMAIN edges' /\ \A e \in DOMAIN edges : edges'[e] = edges[e]
        /\ \A e \in DOMAIN edges' \ DOMAIN edges : Booked(k.snap, e) /\ edges'[e] = NoSnapshot
    BY <1>2, EnrichEffect, GraphInvParts DEF GraphPart, EdgesInv
  <2> QED BY <2>1, BookedElsewhere, PartSame
<1>3. ASSUME DeleteTarget(k.target)
      PROVE  OwnPart(t)' = OwnPart(t)
  <2>1. PICK removed :
          /\ \A n \in removed :
                \/ n = <<"Target", k.target>>
                \/ \E s \in Snapshots : TargetOf[s] = k.target /\ n = <<"Snapshot", s>>
          /\ DOMAIN edges' = {e \in DOMAIN edges : e.from \notin removed /\ e.to \notin removed}
          /\ \A e \in DOMAIN edges' : edges'[e] = edges[e]
    BY <1>3, DeleteEffect, GraphInvParts DEF GraphPart, EdgesInv
  <2>2. ASSUME NEW e \in DOMAIN edges, e.from \in removed
        PROVE  ~Own(t, e, edges[e])
    <3>1. e.from # <<"Target", t>> /\ e.from[1] \in {"Target", "Snapshot"}
      BY <2>1, <2>2
    <3>2. e.rel \in PathEdgeTypes => e.from[1] = "ASN"
      BY GraphInvParts DEF GraphPart, ShapeInv, Shape
    <3> QED BY <3>1, <3>2 DEF Own
  <2>3. ASSUME NEW e \in DOMAIN edges, e.to \in removed
        PROVE  ~Own(t, e, edges[e])
    <3>1. Shape(e, edges[e]) /\ e.to[1] \in {"Target", "Snapshot"}
      BY <2>1, <2>3, GraphInvParts DEF GraphPart, ShapeInv
    <3>2. CASE e.to[1] = "Target"
      BY <3>1, <3>2 DEF Shape, Own, PathEdgeTypes
    <3>3. CASE e.to[1] = "Snapshot"
      <4>1. e.rel = "HAS_SNAPSHOT" /\ edges[e] = NoSnapshot
        BY <3>1, <3>3 DEF Shape
      <4>2. PICK s \in Snapshots : e = Edge(TargetNode(s), "HAS_SNAPSHOT", <<"Snapshot", s>>, NoKey)
        BY <3>1, <4>1 DEF Shape
      <4>3. e.from[1] = "Target"
        BY <4>2, EdgeFields DEF TargetNode
      <4> QED BY <4>1, <4>3 DEF Own, PathEdgeTypes
    <3> QED BY <3>1, <3>2, <3>3
  <2>4. \A e \in DOMAIN edges \ DOMAIN edges' : ~Own(t, e, edges[e])
    BY <2>1, <2>2, <2>3
  <2> QED BY <2>1, <2>4, PartSame
<1> QED
  BY <1>1, <1>2, <1>3, RunEffect

(* Writing or deleting one target changes nothing of its own that another  *)
(* target shows, neither its edges nor the snapshot they carry (neo4j.go,  *)
(* SyncSnapshot and DeleteTarget).                                         *)
THEOREM TargetsLeaveEachOther == Spec => OthersUntouched
<1>1. ASSUME GraphInv, [Next]_vars, NEW k \in tasks \ tasks', NEW t \in Targets \ {k.target},
             graph' # graph
      PROVE  OwnPart(t)' = OwnPart(t)
  <2>1. ASSUME NEW j \in tasks, Run(j) PROVE j = k
    BY <2>1 DEF Run
  <2>2. \E j \in tasks : Run(j)
    BY <1>1 DEF Next, vars, PersistScan, PersistFails, PassOnNew, PersistRepeated, RebuildGraph, PassOn,
                EnrichSnapshot,
                DeleteSnapshotRow, DeleteTargetRow, Fail, Restart
  <2> QED BY <1>1, <2>1, <2>2, RunElsewhere
<1>2. GraphInv /\ [Next]_vars =>
        [\A k \in tasks \ tasks' : \A t \in Targets \ {k.target} :
            graph' # graph => OwnPart(t)' = OwnPart(t)]_vars
  BY <1>1
<1> QED
  BY <1>2, GraphStart, GraphStep, PTL DEF Spec, OthersUntouched

-----------------------------------------------------------------------------
(* One snapshot that is shown complete.  First, what a snapshot has for    *)
(* its own: it is the target's, and no other target's writes touch it.     *)
Proper(s) == {e \in AllEdges(s, {}) : e.rel \notin SharedEdgeTypes}

Marks(s) == \A e \in Proper(s) : e \in DOMAIN edges /\ edges[e] = s

LEMMA ProperOwn ==
    ASSUME NEW s \in Snapshots, NEW e \in Proper(s)
    PROVE  Own(TargetOf[s], e, s)
<1>1. Drawn(s, e) /\ e.rel \notin SharedEdgeTypes
  BY AllEdgesDrawn DEF Proper, AllDrawn
<1>2. s # NoSnapshot
  BY GraphAssumption DEF NoSnapshot
<1> QED
  BY <1>1, <1>2 DEF Drawn, Own, TargetNode

LEMMA ProperSame ==
    ASSUME raw' = raw
    PROVE  \A s : Proper(s)' = Proper(s)
<1>1. \A s : /\ HopsOf(s)' = HopsOf(s)
             /\ \A h : HopEdges(s, h)' = HopEdges(s, h)
  BY DEF HopsOf, HopEdges, HopNode, HopAt
<1>2. \A s : syncTracerouteGraph(s)' = syncTracerouteGraph(s)
  BY <1>1 DEF syncTracerouteGraph
<1>3. \A s : syncPeeringGraph(s)' = syncPeeringGraph(s)
  BY DEF syncPeeringGraph
<1>4. \A s : syncBGPGraph(s)' = syncBGPGraph(s)
  BY DEF syncBGPGraph, syncASPaths
<1>5. \A s : /\ FingerprintEdges(s)' = FingerprintEdges(s)
             /\ syncCTGraph(s)' = syncCTGraph(s) /\ syncDNSGraph(s)' = syncDNSGraph(s)
             /\ syncMailDNSIntelGraph(s)' = syncMailDNSIntelGraph(s)
             /\ syncCrawlIntelGraph(s)' = syncCrawlIntelGraph(s)
             /\ syncWaybackGraph(s, {})' = syncWaybackGraph(s, {})
             /\ syncCertSANGraph(s)' = syncCertSANGraph(s)
  BY DEF FingerprintEdges, syncCTGraph, syncDNSGraph, syncMailDNSIntelGraph, syncCrawlIntelGraph,
         syncWaybackGraph, syncCertSANGraph
<1> QED
  BY <1>2, <1>3, <1>4, <1>5 DEF Proper, AllEdges

LEMMA MarksElsewhere ==
    ASSUME GraphInv, NEW k \in tasks, Run(k), NEW s \in Snapshots, TargetOf[s] # k.target, Marks(s)
    PROVE  Marks(s)'
<1> DEFINE t == TargetOf[s]
<1>1. OwnPart(t)' = OwnPart(t)
  BY RunElsewhere
<1>2. Proper(s)' = Proper(s)
  BY ProperSame DEF Run, table
<1>3. ASSUME NEW e \in Proper(s)
      PROVE  e \in DOMAIN edges' /\ edges'[e] = s
  <2>1. e \in DOMAIN edges /\ edges[e] = s /\ Own(t, e, edges[e])
    BY ProperOwn DEF Marks
  <2>2. <<e, s>> \in OwnPart(t)'
    BY <1>1, <2>1, OwnParts
  <2> QED BY <2>2, OwnParts
<1> QED
  BY <1>2, <1>3 DEF Marks

(* A target in the graph has a snapshot there whose edges are all its own  *)
(* still: the one written last.                                            *)
ShownInv ==
    \A t \in Targets : <<"Target", t>> \in DOMAIN nodes =>
        \E s \in SnapshotsOf(t) : InGraph(s) /\ Marks(s)

LEMMA ShownSame ==
    ASSUME ShownInv, UNCHANGED graph, raw' = raw
    PROVE  ShownInv'
<1>1. nodes' = nodes /\ edges' = edges
  BY DEF graph
<1>2. \A s : Marks(s) => Marks(s)'
  BY <1>1, ProperSame DEF Marks
<1> QED
  BY <1>1, <1>2 DEF ShownInv, InGraph, SnapshotsOf

LEMMA SyncMarks ==
    ASSUME NEW s, NEW hits, NEW withEvents, SyncSnapshot(s, hits, withEvents), raw' = raw
    PROVE  Marks(s)'
<1>1. Proper(s) \subseteq AllEdges(s, hits)
  <2>1. syncWaybackGraph(s, {}) = {}
    BY DEF syncWaybackGraph
  <2> QED BY <2>1 DEF Proper, AllEdges
<1>2. \A e \in Proper(s) : e \in DOMAIN edges' /\ edges'[e] = s
  BY <1>1, SyncEdges
<1> QED
  BY <1>2, ProperSame DEF Marks

(* What was true of another target remains true.                           *)
LEMMA ShownElsewhere ==
    ASSUME GraphInv, ShownInv, NEW k \in tasks, Run(k), NEW t \in Targets, t # k.target,
           <<"Target", t>> \in DOMAIN nodes
    PROVE  \E s \in SnapshotsOf(t) : InGraph(s)' /\ Marks(s)'
<1>1. PICK s \in Snapshots : TargetOf[s] = t /\ InGraph(s) /\ Marks(s)
  BY DEF ShownInv, SnapshotsOf
<1>2. raw' = raw /\ raw \in RawData
  BY GraphInvParts DEF Run, table, CountInv
<1>3. InGraph(s)'
  <2>1. CASE k.snap \in Snapshots /\ SyncSnapshot(k.snap, k.hits, k.events)
    BY <1>1, <1>2, <2>1, GraphInvParts, SyncKeeps DEF GraphPart
  <2>2. CASE k.snap \in Snapshots /\ SyncEnrichment(k.snap, k.hits)
    BY <1>1, <1>2, <2>2, GraphInvParts, EnrichKeeps DEF GraphPart
  <2>3. CASE DeleteTarget(k.target)
    BY <1>1, <1>2, <2>3, GraphInvParts, DeleteKeeps DEF GraphPart
  <2> QED BY <2>1, <2>2, <2>3, RunEffect
<1>4. Marks(s)'
  BY <1>1, MarksElsewhere
<1> QED
  BY <1>1, <1>3, <1>4 DEF SnapshotsOf

LEMMA RunShows ==
    ASSUME GraphInv, ShownInv, NEW k \in tasks, Run(k)
    PROVE  ShownInv'
<1>1. raw' = raw /\ raw \in RawData /\ EdgesInv /\ ShapeInv /\ SnapshotInv
  BY GraphInvParts DEF Run, table, CountInv, GraphPart
<1>2. SUFFICES ASSUME NEW t \in Targets, <<"Target", t>> \in DOMAIN nodes'
               PROVE  \E s \in SnapshotsOf(t) : InGraph(s)' /\ Marks(s)'
  BY DEF ShownInv, SnapshotsOf
<1>3. ASSUME k.snap \in Snapshots, k.target = TargetOf[k.snap], SyncSnapshot(k.snap, k.hits, k.events)
      PROVE  \E s \in SnapshotsOf(t) : InGraph(s)' /\ Marks(s)'
  <2>1. CASE t = k.target
    <3>1. Marks(k.snap)'
      BY <1>1, <1>3, SyncMarks
    <3>2. InGraph(k.snap)'
      BY <1>1, <1>3, SyncKeeps
    <3> QED BY <1>3, <2>1, <3>1, <3>2 DEF SnapshotsOf
  <2>2. CASE t # k.target
    <3>1. <<"Target", t>> \in DOMAIN nodes
      BY <1>1, <1>2, <1>3, <2>2, SyncNodes DEF EdgesInv
    <3> QED BY <2>2, <3>1, ShownElsewhere
  <2> QED BY <2>1, <2>2
<1>4. ASSUME k.snap \in Snapshots, k.target = TargetOf[k.snap], SyncEnrichment(k.snap, k.hits)
      PROVE  \E s \in SnapshotsOf(t) : InGraph(s)' /\ Marks(s)'
  <2>1. /\ DOMAIN edges \subseteq DOMAIN edges' /\ \A e \in DOMAIN edges : edges'[e] = edges[e]
        /\ \A n \in DOMAIN nodes' \ DOMAIN nodes : n[1] = "EnrichmentHit"
    BY <1>1, <1>4, EnrichEffect DEF EdgesInv
  <2>2. <<"Target", t>> \in DOMAIN nodes
    BY <1>2, <2>1
  <2>3. PICK s \in SnapshotsOf(t) : InGraph(s) /\ Marks(s)
    BY <2>2 DEF ShownInv
  <2>4. InGraph(s)'
    BY <1>1, <1>4, <2>3, EnrichKeeps DEF SnapshotsOf
  <2>5. Marks(s)'
    BY <1>1, <2>1, <2>3, ProperSame DEF Marks
  <2> QED BY <2>3, <2>4, <2>5
<1>5. ASSUME DeleteTarget(k.target)
      PROVE  \E s \in SnapshotsOf(t) : InGraph(s)' /\ Marks(s)'
  <2>1. /\ <<"Target", k.target>> \notin DOMAIN nodes' /\ DOMAIN nodes' \subseteq DOMAIN nodes
    BY <1>1, <1>5, DeleteEffect DEF EdgesInv
  <2> QED BY <1>2, <2>1, ShownElsewhere
<1> QED
  BY <1>3, <1>4, <1>5, RunEffect

LEMMA ShownStep == GraphInv /\ ShownInv /\ [Next]_vars => ShownInv'
<1> SUFFICES ASSUME GraphInv, ShownInv, [Next]_vars PROVE ShownInv'
  OBVIOUS
<1>1. CASE \E k \in tasks : Run(k)
  BY <1>1, RunShows
<1>2. CASE UNCHANGED graph /\ raw' = raw
  BY <1>2, ShownSame
<1>3. (\E k \in tasks : Run(k)) \/ (UNCHANGED graph /\ raw' = raw)
  BY DEF Next, vars, table, PersistScan, PersistFails, PassOnNew, PersistRepeated, RebuildGraph,
         PassOn, EnrichSnapshot, DeleteSnapshotRow, DeleteTargetRow, Fail, Restart
<1> QED
  BY <1>1, <1>2, <1>3

(* Second, how far the edges of a snapshot are from its target.            *)
LEMMA WiderHolds ==
    ASSUME NEW N
    PROVE  /\ N \subseteq Wider(N)
           /\ \A e \in DOMAIN edges : /\ e.from \in N => e.to \in Wider(N)
                                      /\ e.to \in N => e.from \in Wider(N)
  BY DEF Wider, Beside

FromTarget(s, E) == \A e \in E : e.from = TargetNode(s)

LEMMA LinkFrom ==
    ASSUME NEW s, NEW r, NEW label, NEW S
    PROVE  FromTarget(s, Link(s, r, label, S))
<1>1. \A v : Edge(TargetNode(s), r, <<label, v>>, NoKey).from = TargetNode(s)
  BY EdgeFields
<1> QED
  BY <1>1, Zenon DEF Link, FromTarget

LEMMA ProperKinds ==
    ASSUME NEW s, NEW e \in Proper(s)
    PROVE  \/ e.from = TargetNode(s)
           \/ \E h \in HopsOf(s) : e \in HopEdges(s, h)
           \/ \E p \in raw[s].prefix : e \in syncASPaths(s, p)
<1>1. FromTarget(s, FingerprintEdges(s))
  BY LinkFrom DEF FingerprintEdges, FromTarget
<1>2. /\ FromTarget(s, syncCTGraph(s)) /\ FromTarget(s, syncCertSANGraph(s))
      /\ FromTarget(s, syncCrawlIntelGraph(s)) /\ syncWaybackGraph(s, {}) = {}
  BY LinkFrom DEF syncCTGraph, syncCertSANGraph, syncCrawlIntelGraph, syncWaybackGraph
<1>3. FromTarget(s, syncDNSGraph(s)) /\ FromTarget(s, syncMailDNSIntelGraph(s))
  BY LinkFrom DEF syncDNSGraph, syncMailDNSIntelGraph, FromTarget
<1>4. e.rel \notin SharedEdgeTypes /\ e \in AllEdges(s, {})
  BY DEF Proper
<1>5. CASE e \in syncPeeringGraph(s)
  <2>1. PICK a, x : e = Edge(<<"ASN", a>>, "PRESENT_AT_IX", <<"IX", x>>, NoKey)
    BY <1>5 DEF syncPeeringGraph
  <2> QED BY <1>4, <2>1, EdgeFields DEF SharedEdgeTypes
<1>6. CASE e \in syncTracerouteGraph(s)
  BY <1>6 DEF syncTracerouteGraph
<1>7. CASE e \in syncBGPGraph(s)
  <2>1. PICK p \in raw[s].prefix :
           \/ e \in Link(s, "IN_PREFIX", "Prefix", {p})
           \/ \E a : e = Edge(<<"ASN", a>>, "ANNOUNCES", <<"Prefix", p>>, NoKey)
           \/ \E a : e = Edge(<<"ASN", a>>, "VISIBLE_ORIGIN", <<"Prefix", p>>, NoKey)
           \/ e \in syncASPaths(s, p)
    BY <1>7 DEF syncBGPGraph
  <2>2. ~\E a : e = Edge(<<"ASN", a>>, "ANNOUNCES", <<"Prefix", p>>, NoKey)
    <3>1. \A a : Edge(<<"ASN", a>>, "ANNOUNCES", <<"Prefix", p>>, NoKey).rel = "ANNOUNCES"
      BY EdgeFields
    <3> QED BY <1>4, <3>1 DEF SharedEdgeTypes
  <2>3. ~\E a : e = Edge(<<"ASN", a>>, "VISIBLE_ORIGIN", <<"Prefix", p>>, NoKey)
    <3>1. \A a : Edge(<<"ASN", a>>, "VISIBLE_ORIGIN", <<"Prefix", p>>, NoKey).rel = "VISIBLE_ORIGIN"
      BY EdgeFields
    <3> QED BY <1>4, <3>1 DEF SharedEdgeTypes
  <2> QED BY <2>1, <2>2, <2>3, LinkFrom DEF FromTarget
<1> QED
  BY <1>1, <1>2, <1>3, <1>4, <1>5, <1>6, <1>7 DEF AllEdges, FromTarget

(* The edges of a path.                                                    *)
PathAt(s, i, j)  == <<"ASN", raw[s].as_paths[i][j]>>
First(s, i)      == Edge(TargetNode(s), "HAS_AS_PATH", PathAt(s, i, 1), <<i, 0>>)
Step(s, i, j)    == Edge(PathAt(s, i, j - 1), "AS_PATH_NEXT", PathAt(s, i, j), <<TargetOf[s], i, j - 1>>)
Final(s, i, p)   == Edge(PathAt(s, i, Len(raw[s].as_paths[i])), "PATH_TO_PREFIX", <<"Prefix", p>>,
                         <<TargetOf[s], i>>)
InPrefix(s, p)   == Edge(TargetNode(s), "IN_PREFIX", <<"Prefix", p>>, NoKey)
PathsOf(s)       == {k \in DOMAIN raw[s].as_paths : raw[s].as_paths[k] # <<>>}

(* The ends and the keys of the edges of a path.                           *)
LEMMA FirstFields ==
    ASSUME NEW s, NEW i
    PROVE  /\ First(s, i).from = <<"Target", TargetOf[s]>> /\ First(s, i).rel = "HAS_AS_PATH"
           /\ First(s, i).to = PathAt(s, i, 1) /\ First(s, i).key = <<i, 0>>
  BY EdgeFields DEF First, TargetNode

LEMMA StepFields ==
    ASSUME NEW s, NEW i, NEW j
    PROVE  /\ Step(s, i, j).from = PathAt(s, i, j - 1) /\ Step(s, i, j).to = PathAt(s, i, j)
           /\ Step(s, i, j).rel = "AS_PATH_NEXT" /\ Step(s, i, j).key = <<TargetOf[s], i, j - 1>>
  BY EdgeFields DEF Step

LEMMA FinalFields ==
    ASSUME NEW s, NEW i, NEW p
    PROVE  /\ Final(s, i, p).from = PathAt(s, i, Len(raw[s].as_paths[i]))
           /\ Final(s, i, p).to = <<"Prefix", p>>
  BY EdgeFields DEF Final

LEMMA PathEdges ==
    ASSUME NEW s, NEW p
    PROVE  \A e : e \in syncASPaths(s, p) <=>
              \E i \in PathsOf(s) :
                 \/ e = First(s, i)
                 \/ \E j \in 2 .. Len(raw[s].as_paths[i]) : e = Step(s, i, j)
                 \/ e = Final(s, i, p)
<1> DEFINE Of(i) == {First(s, i)} \cup {Step(s, i, j) : j \in 2 .. Len(raw[s].as_paths[i])}
                    \cup {Final(s, i, p)}
<1>1. syncASPaths(s, p) = UNION {Of(i) : i \in PathsOf(s)}
  BY Zenon DEF syncASPaths, PathAt, First, Step, Final, PathsOf
<1>2. ASSUME NEW e, NEW i
      PROVE  e \in Of(i) <=> \/ e = First(s, i)
                             \/ \E j \in 2 .. Len(raw[s].as_paths[i]) : e = Step(s, i, j)
                             \/ e = Final(s, i, p)
  BY Zenon
<1> HIDE DEF Of
<1>3. \A e : e \in syncASPaths(s, p) <=> \E i \in PathsOf(s) : e \in Of(i)
  BY <1>1
<1> QED
  BY <1>2, <1>3, Zenon

LEMMA PathProper ==
    ASSUME NEW s, NEW p \in raw[s].prefix, NEW i \in PathsOf(s)
    PROVE  /\ InPrefix(s, p) \in Proper(s) /\ First(s, i) \in Proper(s) /\ Final(s, i, p) \in Proper(s)
           /\ \A j \in 2 .. Len(raw[s].as_paths[i]) : Step(s, i, j) \in Proper(s)
<1>1. syncASPaths(s, p) \subseteq syncBGPGraph(s) /\ InPrefix(s, p) \in syncBGPGraph(s)
  BY DEF syncBGPGraph, InPrefix, Link
<1>2. syncBGPGraph(s) \subseteq AllEdges(s, {})
  BY DEF AllEdges
<1>3. /\ First(s, i).rel = "HAS_AS_PATH" /\ Final(s, i, p).rel = "PATH_TO_PREFIX"
      /\ InPrefix(s, p).rel = "IN_PREFIX" /\ \A j : Step(s, i, j).rel = "AS_PATH_NEXT"
  BY EdgeFields DEF First, Final, InPrefix, Step
<1> QED
  BY <1>1, <1>2, <1>3, PathEdges DEF Proper, SharedEdgeTypes

LEMMA PathLength ==
    ASSUME raw \in RawData, NEW s \in Snapshots, NEW i \in PathsOf(s)
    PROVE  Len(raw[s].as_paths[i]) \in Nat \ {0}
<1>1. raw[s].as_paths[i] \in Seq(STRING)
  BY GraphAssumption, ElementOfSeq DEF PathsOf
<1> QED
  BY <1>1, EmptySeq DEF PathsOf

LEMMA PathNear ==
    ASSUME raw \in RawData, NEW s \in Snapshots, TargetNode(s) \in DOMAIN nodes, Marks(s),
           NEW p \in raw[s].prefix, NEW i \in PathsOf(s)
    PROVE  LET n  == Len(raw[s].as_paths[i])
               W1 == Wider({TargetNode(s)} \cap DOMAIN nodes)
               W2 == Wider(W1)
               W3 == Wider(W2)
           IN  /\ <<"Prefix", p>> \in W3 /\ PathAt(s, i, 1) \in W3 /\ PathAt(s, i, n) \in W3
               /\ n >= 2 => PathAt(s, i, 2) \in W3 /\ PathAt(s, i, n - 1) \in W3
               /\ n >= 3 => PathAt(s, i, 3) \in W3
<1> DEFINE n  == Len(raw[s].as_paths[i])
           W0 == {TargetNode(s)} \cap DOMAIN nodes
           W1 == Wider(W0)
           W2 == Wider(W1)
           W3 == Wider(W2)
<1>1. n \in Nat \ {0}
  BY PathLength
<1>2. /\ InPrefix(s, p) \in DOMAIN edges /\ First(s, i) \in DOMAIN edges /\ Final(s, i, p) \in DOMAIN edges
      /\ \A j \in 2 .. n : Step(s, i, j) \in DOMAIN edges
  BY PathProper DEF Marks
<1>3. /\ InPrefix(s, p).from = TargetNode(s) /\ InPrefix(s, p).to = <<"Prefix", p>>
      /\ First(s, i).from = TargetNode(s) /\ First(s, i).to = PathAt(s, i, 1)
      /\ Final(s, i, p).from = PathAt(s, i, n) /\ Final(s, i, p).to = <<"Prefix", p>>
      /\ \A j : Step(s, i, j).from = PathAt(s, i, j - 1) /\ Step(s, i, j).to = PathAt(s, i, j)
  BY EdgeFields DEF InPrefix, First, Final, Step
<1>4. TargetNode(s) \in W0
  OBVIOUS
<1> HIDE DEF n, W0
<1>5. <<"Prefix", p>> \in W1 /\ PathAt(s, i, 1) \in W1
  BY <1>2, <1>3, <1>4, WiderHolds
<1> HIDE DEF W1
<1>6. PathAt(s, i, n) \in W2 /\ (n >= 2 => PathAt(s, i, 2) \in W2) /\ W1 \subseteq W2
  <2>1. PathAt(s, i, n) \in W2 /\ W1 \subseteq W2
    BY <1>2, <1>3, <1>5, WiderHolds
  <2>2. ASSUME n >= 2 PROVE PathAt(s, i, 2) \in W2
    <3>1. Step(s, i, 2) \in DOMAIN edges /\ Step(s, i, 2).from = PathAt(s, i, 1)
      BY <1>1, <1>2, <1>3, <2>2
    <3> QED BY <1>3, <1>5, <3>1, WiderHolds
  <2> QED BY <2>1, <2>2
<1> HIDE DEF W2
<1>7. /\ W2 \subseteq W3
      /\ n >= 2 => PathAt(s, i, n - 1) \in W3
      /\ n >= 3 => PathAt(s, i, 3) \in W3
  <2>1. W2 \subseteq W3
    BY WiderHolds
  <2>2. ASSUME n >= 2 PROVE PathAt(s, i, n - 1) \in W3
    <3>1. Step(s, i, n) \in DOMAIN edges
      BY <1>1, <1>2, <2>2
    <3> QED BY <1>3, <1>6, <3>1, WiderHolds
  <2>3. ASSUME n >= 3 PROVE PathAt(s, i, 3) \in W3
    <3>1. Step(s, i, 3) \in DOMAIN edges /\ Step(s, i, 3).from = PathAt(s, i, 2)
      BY <1>1, <1>2, <1>3, <2>3
    <3> QED BY <1>1, <1>3, <1>6, <2>3, <3>1, WiderHolds
  <2> QED BY <2>1, <2>2, <2>3
<1> HIDE DEF W3
<1>8. /\ <<"Prefix", p>> \in W3 /\ PathAt(s, i, 1) \in W3 /\ PathAt(s, i, n) \in W3
      /\ n >= 2 => PathAt(s, i, 2) \in W3 /\ PathAt(s, i, n - 1) \in W3
      /\ n >= 3 => PathAt(s, i, 3) \in W3
  BY <1>5, <1>6, <1>7
<1> QED
  BY <1>8 DEF n, W0, W1, W2, W3

LEMMA HopsNear ==
    ASSUME NEW s, TargetNode(s) \in DOMAIN nodes, Marks(s), NEW h \in HopsOf(s), NEW e \in HopEdges(s, h),
           e \in Proper(s)
    PROVE  LET W3 == Wider(Wider(Wider({TargetNode(s)} \cap DOMAIN nodes)))
           IN  e.from \in W3 /\ e.to \in W3
<1> DEFINE W0 == {TargetNode(s)} \cap DOMAIN nodes
           W1 == Wider(W0)
           W2 == Wider(W1)
           W3 == Wider(W2)
<1>1. e \in DOMAIN edges
  BY DEF Marks
<1>2. TraceEdge(s, h) \in DOMAIN edges
  <2>1. TraceEdge(s, h) \in HopEdges(s, h)
    BY DEF HopEdges, TraceEdge
  <2>2. TraceEdge(s, h) \in AllEdges(s, {})
    BY <2>1 DEF AllEdges, syncTracerouteGraph
  <2>3. TraceEdge(s, h).rel = "TRACEROUTE_HOP"
    BY EdgeFields DEF TraceEdge
  <2> QED BY <2>2, <2>3 DEF Proper, SharedEdgeTypes, Marks
<1>3. TraceEdge(s, h).from = TargetNode(s) /\ TraceEdge(s, h).to = HopNode(s, h)
  BY EdgeFields DEF TraceEdge
<1>4. e.from = TargetNode(s) \/ e.from = HopNode(s, h) \/ e.to = HopNode(s, h)
  <2>1. \/ e = Edge(TargetNode(s), "TRACEROUTE_HOP", HopNode(s, h), <<HopAt(s, h).hop, h[1]>>)
        \/ \E i : e = Edge(HopNode(s, <<h[1], i>>), "NEXT_HOP", HopNode(s, h), NoKey)
        \/ \E a : e = Edge(HopNode(s, h), "SHARED_AT", <<"SharedHop", a>>, NoKey)
        \/ \E a : e = Edge(HopNode(s, h), "REACHES", <<"IP", a>>, NoKey)
    BY Zenon DEF HopEdges
  <2>2. /\ \A i : Edge(HopNode(s, <<h[1], i>>), "NEXT_HOP", HopNode(s, h), NoKey).to = HopNode(s, h)
        /\ \A a : Edge(HopNode(s, h), "SHARED_AT", <<"SharedHop", a>>, NoKey).from = HopNode(s, h)
        /\ \A a : Edge(HopNode(s, h), "REACHES", <<"IP", a>>, NoKey).from = HopNode(s, h)
        /\ \A k : Edge(TargetNode(s), "TRACEROUTE_HOP", HopNode(s, h), k).from = TargetNode(s)
    BY EdgeFields
  <2> QED BY <2>1, <2>2, Zenon
<1>5. TargetNode(s) \in W0
  OBVIOUS
<1> HIDE DEF W0
<1>6. HopNode(s, h) \in W1 /\ TargetNode(s) \in W1
  BY <1>2, <1>3, <1>5, WiderHolds
<1> HIDE DEF W1
<1>7. e.from \in W2 /\ e.to \in W2
  BY <1>1, <1>4, <1>6, WiderHolds
<1>8. e.from \in W3 /\ e.to \in W3
  BY <1>7, WiderHolds
<1> QED
  BY <1>8 DEF W0, W1, W2

LEMMA ShownNear ==
    ASSUME raw \in RawData, NEW s \in Snapshots, TargetNode(s) \in DOMAIN nodes, Marks(s),
           NEW e \in Proper(s), e.rel = "AS_PATH_NEXT" => Len(raw[s].as_paths[e.key[2]]) <= 5
    PROVE  e.from \in Around(TargetOf[s]) /\ e.to \in Around(TargetOf[s])
<1> DEFINE W0 == {TargetNode(s)} \cap DOMAIN nodes
           W3 == Wider(Wider(Wider(W0)))
<1>1. Around(TargetOf[s]) = W3
  BY DEF Around, TargetNode
<1>2. CASE e.from = TargetNode(s)
  <2>1. e \in DOMAIN edges
    BY DEF Marks
  <2>2. TargetNode(s) \in W0
    OBVIOUS
  <2> HIDE DEF W0
  <2>3. e.from \in Wider(W0) /\ e.to \in Wider(W0)
    BY <1>2, <2>1, <2>2, WiderHolds
  <2>4. \A N : N \subseteq Wider(N)
    BY WiderHolds
  <2> QED BY <1>1, <2>3, <2>4
<1>3. CASE \E h \in HopsOf(s) : e \in HopEdges(s, h)
  BY <1>1, <1>3, HopsNear
<1>4. ASSUME NEW p \in raw[s].prefix, e \in syncASPaths(s, p), e.from # TargetNode(s)
      PROVE  e.from \in W3 /\ e.to \in W3
  <2>1. PICK i \in PathsOf(s) : \/ e = First(s, i)
                                \/ \E j \in 2 .. Len(raw[s].as_paths[i]) : e = Step(s, i, j)
                                \/ e = Final(s, i, p)
    BY <1>4, PathEdges
  <2> DEFINE n == Len(raw[s].as_paths[i])
  <2>2. /\ <<"Prefix", p>> \in W3 /\ PathAt(s, i, 1) \in W3 /\ PathAt(s, i, n) \in W3
        /\ n >= 2 => PathAt(s, i, 2) \in W3 /\ PathAt(s, i, n - 1) \in W3
        /\ n >= 3 => PathAt(s, i, 3) \in W3
    BY PathNear
  <2>3. n \in Nat \ {0}
    BY PathLength
  <2>4. e # First(s, i)
    BY <1>4, EdgeFields DEF First
  <2>5. ASSUME e = Final(s, i, p) PROVE e.from \in W3 /\ e.to \in W3
    <3> HIDE DEF W3
    <3>1. e.from = PathAt(s, i, n) /\ e.to = <<"Prefix", p>>
      BY <2>5, FinalFields
    <3> HIDE DEF n
    <3> QED BY <2>2, <3>1
  <2>6. ASSUME NEW j \in 2 .. n, e = Step(s, i, j) PROVE e.from \in W3 /\ e.to \in W3
    <3> HIDE DEF W3
    <3>1. /\ e.from = PathAt(s, i, j - 1) /\ e.to = PathAt(s, i, j)
          /\ e.rel = "AS_PATH_NEXT" /\ e.key = <<TargetOf[s], i, j - 1>>
      BY <2>6, StepFields
    <3>2. n <= 5
      BY <3>1
    <3> HIDE DEF n
    <3>3. j \in {2, 3, n - 1, n} /\ j - 1 \in {1, 2, 3, n - 1}
      BY <2>3, <2>6, <3>2
    <3>4. ASSUME NEW m \in {1, 2, 3, n - 1, n}, m <= n, m >= 1 PROVE PathAt(s, i, m) \in W3
      <4>1. CASE m = 1 \/ m = n
        BY <2>2, <4>1
      <4>2. CASE m = 2 \/ m = n - 1
        BY <2>2, <2>3, <3>4, <4>2
      <4>3. CASE m = 3
        BY <2>2, <2>3, <3>4, <4>3
      <4> QED BY <3>4, <4>1, <4>2, <4>3
    <3>5. PathAt(s, i, j - 1) \in W3 /\ PathAt(s, i, j) \in W3
      BY <2>3, <2>6, <3>3, <3>4
    <3> QED BY <3>1, <3>5
  <2> QED BY <2>1, <2>4, <2>5, <2>6
<1> HIDE DEF W3
<1> QED
  BY <1>1, <1>2, <1>3, <1>4, ProperKinds

(* A path is found again, along the edges that it drew.                    *)
LEMMA PathRead ==
    ASSUME raw \in RawData, NEW s \in Snapshots, Marks(s), raw[s].prefix # {},
           NEW i \in DOMAIN raw[s].as_paths, Len(raw[s].as_paths[i]) \in 1 .. 21
    PROVE  getBGPASPaths(TargetOf[s], s, raw[s].as_paths[i])
<1>1. 1 <= Len(raw[s].as_paths[i]) /\ Len(raw[s].as_paths[i]) <= 21
  <2>1. \A n \in 1 .. 21 : 1 <= n /\ n <= 21
    OBVIOUS
  <2> QED BY <2>1, Zenon
<1>2. i \in PathsOf(s)
  <2>1. raw[s].as_paths[i] \in Seq(STRING)
    BY GraphAssumption, ElementOfSeq
  <2> QED BY <1>1, <2>1 DEF PathsOf
<1> DEFINE path  == raw[s].as_paths[i]
           first == First(s, i)
           next  == {e \in DOMAIN edges : /\ e.rel = "AS_PATH_NEXT" /\ edges[e] = s
                                          /\ e.key[1] = TargetOf[s] /\ e.key[2] = first.key[1]}
           walk  == [j \in 2 .. Len(path) |-> Step(s, i, j)]
<1>3. PICK p : p \in raw[s].prefix
  OBVIOUS
<1>4. /\ first \in DOMAIN edges /\ edges[first] = s
      /\ \A j \in 2 .. Len(path) : Step(s, i, j) \in DOMAIN edges /\ edges[Step(s, i, j)] = s
  BY <1>2, <1>3, PathProper DEF Marks
<1>5. /\ first.from = <<"Target", TargetOf[s]>> /\ first.rel = "HAS_AS_PATH"
      /\ first.to[2] = path[1] /\ first.key[1] = i
  <2>1. PathAt(s, i, 1)[2] = path[1] /\ <<i, 0>>[1] = i
    BY DEF PathAt
  <2> QED BY <2>1, FirstFields
<1>6. \A j : /\ Step(s, i, j).from[2] = path[j - 1] /\ Step(s, i, j).to[2] = path[j]
             /\ Step(s, i, j).rel = "AS_PATH_NEXT" /\ Step(s, i, j).key = <<TargetOf[s], i, j - 1>>
  <2>1. \A j : PathAt(s, i, j)[2] = path[j]
    BY DEF PathAt
  <2>2. \A j : /\ Step(s, i, j).from = PathAt(s, i, j - 1) /\ Step(s, i, j).to = PathAt(s, i, j)
               /\ Step(s, i, j).rel = "AS_PATH_NEXT" /\ Step(s, i, j).key = <<TargetOf[s], i, j - 1>>
    BY StepFields
  <2> QED BY <2>1, <2>2
<1>7. \A j : /\ Step(s, i, j).key[1] = TargetOf[s] /\ Step(s, i, j).key[2] = i
             /\ Step(s, i, j).key[3] = j - 1
  BY <1>6
<1> HIDE DEF first, path
<1>8. \A j \in 2 .. Len(path) : Step(s, i, j) \in next
  <2> SUFFICES ASSUME NEW j \in 2 .. Len(path) PROVE Step(s, i, j) \in next
    OBVIOUS
  <2>1. Step(s, i, j) \in DOMAIN edges /\ edges[Step(s, i, j)] = s
    BY <1>4
  <2>2. Step(s, i, j).rel = "AS_PATH_NEXT"
    BY <1>6
  <2>3. Step(s, i, j).key[1] = TargetOf[s] /\ Step(s, i, j).key[2] = first.key[1]
    BY <1>5, <1>7
  <2> QED BY <2>1, <2>2, <2>3
<1>9. walk \in [2 .. Len(path) -> next]
  BY <1>8
<1>10. IsInjective(walk)
  <2>1. ASSUME NEW a \in 2 .. Len(path), NEW b \in 2 .. Len(path), walk[a] = walk[b] PROVE a = b
    <3>1. Step(s, i, a).key[3] = Step(s, i, b).key[3]
      BY <2>1
    <3> QED BY <1>7, <3>1
  <2> QED BY <2>1 DEF IsInjective
<1>11. \A j \in 2 .. Len(path) : walk[j].from[2] = path[j - 1] /\ walk[j].to[2] = path[j]
  BY <1>6
<1> HIDE DEF walk
<1>12. /\ first \in {e \in DOMAIN edges : /\ e.from = <<"Target", TargetOf[s]>> /\ e.rel = "HAS_AS_PATH"
                                           /\ edges[e] = s /\ e.to[2] = path[1]}
       /\ Len(path) <= 21
  BY <1>1, <1>4, <1>5 DEF path
<1> HIDE DEF next
<1>13. \E w \in [2 .. Len(path) -> next] :
          /\ IsInjective(w)
          /\ \A j \in 2 .. Len(path) : w[j].from[2] = path[j - 1] /\ w[j].to[2] = path[j]
  BY <1>9, <1>10, <1>11
<1>14. getBGPASPaths(TargetOf[s], s, path)
  BY <1>12, <1>13 DEF getBGPASPaths, next
<1> QED
  BY <1>14 DEF path

(* At any moment every target in the graph has one snapshot that is shown  *)
(* complete: in all seven views, with all edges of its own, and with all   *)
(* its AS paths of up to 21 ASes.  What other targets write, and what      *)
(* goroutines write out of order, never leaves it with none                *)
(* (neo4j_graph.go, fetchGraph and getBGPASPaths).                         *)
THEOREM OneIsShownComplete == Spec => []OneShownComplete
<1>1. Init => ShownInv
  BY DEF Init, ShownInv
<1>2. ASSUME GraphInv, ShownInv PROVE OneShownComplete
  <2> SUFFICES ASSUME NEW t \in Targets, <<"Target", t>> \in DOMAIN nodes
               PROVE  \E s \in SnapshotsOf(t) : InGraph(s) /\ ShownComplete(s)
    BY DEF OneShownComplete
  <2>1. PICK s \in SnapshotsOf(t) : InGraph(s) /\ Marks(s)
    BY <1>2 DEF ShownInv
  <2>2. s \in Snapshots /\ TargetOf[s] = t /\ TargetNode(s) \in DOMAIN nodes /\ raw \in RawData
    BY <1>2, GraphInvParts DEF SnapshotsOf, TargetNode, CountInv
  <2>3. ASSUME NEW view \in DOMAIN graphViewEdgeTypes, NEW e \in OwnEdges(AllEdges(s, {}), s, view)
        PROVE  e \in fetchGraph(view, Around(t), s)
    <3>1. /\ e \in Proper(s) /\ e.rel \in graphViewEdgeTypes[view]
          /\ e.rel = "AS_PATH_NEXT" => Len(raw[s].as_paths[e.key[2]]) <= 5
      BY DEF OwnEdges, Proper
    <3>2. e \in DOMAIN edges /\ edges[e] = s
      BY <2>1, <3>1 DEF Marks
    <3>3. e.from \in Around(t) /\ e.to \in Around(t)
      BY <2>1, <2>2, <3>1, ShownNear
    <3> QED BY <3>1, <3>2, <3>3 DEF fetchGraph
  <2>4. ShownComplete(s)
    BY <2>1, <2>2, <2>3, PathRead DEF ShownComplete
  <2> QED BY <2>1, <2>4
<1> QED
  BY <1>1, <1>2, GraphStart, GraphStep, ShownStep, PTL DEF Spec
=============================================================================
