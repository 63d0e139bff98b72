----------------------------- MODULE GraphStore -----------------------------
(***************************************************************************)
(* The Neo4j mirror of the snapshots (internal/db/neo4j*.go).  A scan, an  *)
(* enrichment, a deletion of a target and an import change the tables      *)
(* first and then start a goroutine that brings the graph up to date: one  *)
(* transaction per goroutine, in no order, and its error is dropped.       *)
(*                                                                         *)
(* Nodes are pairs of a label and a key; edges are known by their ends,    *)
(* their type and the properties named in their MERGE, and carry the       *)
(* snapshot that was last written to them.  The reads take one target and  *)
(* one snapshot, as the history slider of the graph page does.             *)
(***************************************************************************)
EXTENDS FiniteSets, Naturals, Sequences, SequencesExt

CONSTANTS Targets,
          Snapshots,  \* numbered in the order of their scans
          TargetOf,   \* the target of a snapshot
          Host,       \* the host of a target
          RawData,    \* the scan results to consider: functions on Snapshots
          MaxExtra    \* bounds the failures, the restarts and the repeats, together

ASSUME GraphAssumption ==
    /\ Snapshots \subseteq Nat \ {0}
    /\ TargetOf \in [Snapshots -> Targets]
    /\ DOMAIN Host = Targets
    /\ MaxExtra \in Nat
    /\ \A r \in RawData, s \in Snapshots : r[s].as_paths \in Seq(Seq(STRING))
    (* parseTracerouteOutput takes each number of a hop once.              *)
    /\ \A r \in RawData, s \in Snapshots : \A v \in DOMAIN r[s].vantages :
        LET hops == r[s].vantages[v]
        IN  \A i, j \in DOMAIN hops : hops[i].hop = hops[j].hop => i = j

VARIABLES
    raw,      \* raw_data of each snapshot, from which the graph is drawn
    rows,     \* the row of each snapshot, and whether its enrichment has ended
    gone,     \* the targets deleted from the table
    storing,  \* the snapshots that PersistScan inserted and has yet to pass on
    enriching,\* the snapshots of the table with an enrichment under way
    tasks,    \* the goroutines started
    nodes,    \* the nodes, with the properties that matter
    edges,    \* the edges, with the snapshot last written to each
    lost,     \* the scans and transactions that failed so far, and the restarts
    repeats,  \* the rescans so far that found nothing new, and the rebuilds
    missed    \* history: the snapshots whose passing on failed since it last succeeded

table == <<raw, rows, gone, repeats>>
graph == <<nodes, edges>>
work  == <<storing, enriching>>
fate  == <<lost, missed>>
vars  == <<table, graph, work, tasks, fate>>

NoKey == <<>>
NoSnapshot == 0
NoProps == [ip |-> "none", timeout |-> FALSE]

Init ==
    /\ raw \in RawData
    /\ rows = [s \in Snapshots |-> "absent"]
    /\ gone = {} /\ tasks = {}
    /\ storing = {} /\ enriching = {} /\ missed = {}
    /\ nodes = <<>> /\ edges = <<>>
    /\ lost = 0 /\ repeats = 0

-----------------------------------------------------------------------------
(* What a snapshot puts into the graph.  Each Link is a MERGE of a node,   *)
(* and of an edge to it from the target.                                   *)
Edge(from, rel, to, key) == [from |-> from, rel |-> rel, to |-> to, key |-> key]
TargetNode(s) == <<"Target", TargetOf[s]>>
Link(s, rel, label, values) == {Edge(TargetNode(s), rel, <<label, v>>, NoKey) : v \in values}

FingerprintEdges(s) ==
    UNION {Link(s, "HOSTED_ON", "ASN", raw[s].asn),
           Link(s, "RESOLVES_TO", "IP", raw[s].ip),
           Link(s, "HAS_JARM", "JARM", raw[s].jarm),
           Link(s, "HAS_JA3S", "JA3S", raw[s].ja3s),
           Link(s, "SIGNED_BY", "CertIssuer", raw[s].issuer),
           Link(s, "HAS_FAVICON", "Favicon", raw[s].favicon)}

(* syncASPaths: a chain of edges for each path, keyed by the target, the   *)
(* number of the path and the place in it.                                 *)
syncASPaths(s, prefix) ==
    UNION {LET path == raw[s].as_paths[i]
               at(j) == <<"ASN", path[j]>>
           IN  {Edge(TargetNode(s), "HAS_AS_PATH", at(1), <<i, 0>>)}
               \cup {Edge(at(j - 1), "AS_PATH_NEXT", at(j), <<TargetOf[s], i, j - 1>>) :
                        j \in 2 .. Len(path)}
               \cup {Edge(at(Len(path)), "PATH_TO_PREFIX", <<"Prefix", prefix>>, <<TargetOf[s], i>>)} :
           i \in {k \in DOMAIN raw[s].as_paths : raw[s].as_paths[k] # <<>>}}

(* syncBGPGraph does nothing for a snapshot without a prefix.  The edges   *)
(* between an AS and the prefix are shared by all targets.                 *)
syncBGPGraph(s) ==
    UNION {Link(s, "IN_PREFIX", "Prefix", {p})
           \cup {Edge(<<"ASN", a>>, "ANNOUNCES", <<"Prefix", p>>, NoKey) : a \in raw[s].asn}
           \cup {Edge(<<"ASN", a>>, "VISIBLE_ORIGIN", <<"Prefix", p>>, NoKey) :
                    a \in raw[s].visible_origins}
           \cup syncASPaths(s, p) : p \in raw[s].prefix}

syncPeeringGraph(s) ==
    UNION {{Edge(<<"ASN", a>>, "PRESENT_AT_IX", <<"IX", x>>, NoKey) : a \in raw[s].asn} :
           x \in raw[s].ixlan}

syncCTGraph(s) == Link(s, "DISCOVERED_VIA_CT", "Subdomain", raw[s].subdomains)

syncCertSANGraph(s) == Link(s, "HAS_SAN", "CertSAN", raw[s].dns_names)

syncDNSGraph(s) ==
    UNION {Link(s, "USES_NS", "DNSHost", raw[s].NS),
           Link(s, "USES_MX", "DNSHost", raw[s].MX),
           Link(s, "ALIASES_TO", "DNSHost", raw[s].CNAME),
           Link(s, "HAS_DMARC", "DMARCPolicy", raw[s].DMARC),
           Link(s, "HAS_SOA", "SOAZone", raw[s].SOA)}

syncMailDNSIntelGraph(s) ==
    UNION {Link(s, "HAS_MTA_STS", "MTASTSPolicy", raw[s].MTA_STS),
           Link(s, "HAS_DNSSEC", "DNSSECStatus", raw[s].DNSSEC),
           Link(s, "HAS_CAA", "CAARecord", raw[s].CAA),
           Link(s, "HAS_BIMI", "BIMIRecord", raw[s].BIMI)}

syncCrawlIntelGraph(s) == Link(s, "HAS_SECURITY_CONTACT", "SecurityContact", raw[s].contacts)

(* syncWaybackGraph: only of a snapshot already enriched.                  *)
syncWaybackGraph(s, hits) == IF "wayback" \in hits
                             THEN Link(s, "ARCHIVED_AT", "WaybackURL", raw[s].urls)
                             ELSE {}

-----------------------------------------------------------------------------
(* The hops of a traceroute are nodes of their own for each snapshot.      *)

(* Variant: one node per target, vantage and hop.                          *)
HopSharedBySnapshots(s, vantage, hop) ==
    <<"Hop", [target |-> TargetOf[s], vantage |-> vantage, hop |-> hop, snap |-> NoSnapshot]>>

Hop(s, vantage, hop) ==
    <<"Hop", [target |-> TargetOf[s], vantage |-> vantage, hop |-> hop, snap |-> s]>>

(* The answers of a traceroute, by vantage and place.                      *)
HopsOf(s) == UNION {{<<v, i>> : i \in DOMAIN raw[s].vantages[v]} : v \in DOMAIN raw[s].vantages}
HopAt(s, h) == raw[s].vantages[h[1]][h[2]]
HopNode(s, h) == Hop(s, h[1], HopAt(s, h).hop)

HopEdges(s, h) ==
    {Edge(TargetNode(s), "TRACEROUTE_HOP", HopNode(s, h), <<HopAt(s, h).hop, h[1]>>)}
    \cup {Edge(HopNode(s, <<h[1], i>>), "NEXT_HOP", HopNode(s, h), NoKey) : i \in {h[2] - 1} \ {0}}
    \cup {Edge(HopNode(s, h), "SHARED_AT", <<"SharedHop", a>>, NoKey) :
            a \in IF HopAt(s, h).timeout THEN {} ELSE {HopAt(s, h).ip} \ {""}}
    \cup {Edge(HopNode(s, h), "REACHES", <<"IP", a>>, NoKey) : a \in raw[s].ip \cap {HopAt(s, h).ip}}

syncTracerouteGraph(s) == UNION {HopEdges(s, h) : h \in HopsOf(s)}

HopProps(s) ==
    [n \in {HopNode(s, h) : h \in HopsOf(s)} |->
        LET h == CHOOSE h \in HopsOf(s) : HopNode(s, h) = n
        IN  [ip |-> HopAt(s, h).ip, timeout |-> HopAt(s, h).timeout]]

-----------------------------------------------------------------------------
(* The writes.  MERGE finds what is there, SET writes over it.             *)

(* f over g: where both say something, f does.                             *)
Over(f, g) == [x \in DOMAIN f \cup DOMAIN g |-> IF x \in DOMAIN f THEN f[x] ELSE g[x]]

Ends(E) == {e.from : e \in E} \cup {e.to : e \in E}

(* Variant: an edge keeps the snapshot that created it.                    *)
MarkOnCreate(E, s) == [e \in DOMAIN edges \cup E |->
    IF e \in DOMAIN edges THEN edges[e] ELSE s]

Marked(E, s) == [e \in DOMAIN edges \cup E |->
    IF e \in E THEN s ELSE edges[e]]

(* What does not carry a snapshot: the history of the target, the targets  *)
(* a subdomain or a certificate name stands for, the events and the hits.  *)
ScannedAs(s, known) ==
    UNION {{Edge(l.to, "SCANNED_AS", <<"Target", t>>, NoKey) :
                t \in {x \in Targets \ {TargetOf[s]} :
                         l.to[2] = Host[x] /\ <<"Target", x>> \in known}} :
           l \in syncCTGraph(s) \cup syncCertSANGraph(s)}

syncIntelEvents(s) ==
    UNION {{Edge(<<"Snapshot", s>>, "DETECTED", <<"IntelEvent", <<s, c>>>>, NoKey),
            Edge(TargetNode(s), "HAS_INTEL_EVENT", <<"IntelEvent", <<s, c>>>>, NoKey)} :
           c \in raw[s].changes}

HitNodes(s, hits) == {<<"EnrichmentHit", <<s, p>>>> : p \in hits}

(* syncEnrichmentHits: the hit is merged first, the links only when the    *)
(* snapshot, and then the target, are found.                               *)
syncEnrichmentHits(s, hits, known) ==
    IF <<"Snapshot", s>> \notin known THEN {}
    ELSE {Edge(<<"Snapshot", s>>, "ENRICHED_BY", n, NoKey) : n \in HitNodes(s, hits)}
         \cup (IF TargetNode(s) \notin known THEN {}
               ELSE {Edge(TargetNode(s), "HAS_ENRICHMENT_HIT", n, NoKey) : n \in HitNodes(s, hits)})

Plain(E) == [e \in E |-> IF e \in DOMAIN edges THEN edges[e] ELSE NoSnapshot]

AllEdges(s, hits) ==
    UNION {FingerprintEdges(s), syncBGPGraph(s), syncPeeringGraph(s), syncCTGraph(s),
           syncDNSGraph(s), syncMailDNSIntelGraph(s), syncCrawlIntelGraph(s),
           syncWaybackGraph(s, hits), syncTracerouteGraph(s), syncCertSANGraph(s)}

(* SyncSnapshot: one transaction.                                          *)
SyncSnapshot(s, hits, withEvents) ==
    LET marked == AllEdges(s, hits)
        known  == DOMAIN nodes \cup {TargetNode(s), <<"Snapshot", s>>}
        events == IF withEvents THEN syncIntelEvents(s) ELSE {}
        plain  == {Edge(TargetNode(s), "HAS_SNAPSHOT", <<"Snapshot", s>>, NoKey)}
                  \cup ScannedAs(s, known) \cup events \cup syncEnrichmentHits(s, hits, known)
        named  == known \cup Ends(marked \cup plain) \cup HitNodes(s, hits)
    IN  /\ edges' = Over(Plain(plain), Marked(marked, s))
        /\ nodes' = Over(HopProps(s), Over(nodes, [n \in named |-> NoProps]))

(* SyncEnrichment: the hits alone.                                         *)
SyncEnrichment(s, hits) ==
    /\ edges' = Over(Plain(syncEnrichmentHits(s, hits, DOMAIN nodes)), edges)
    /\ nodes' = Over(nodes, [n \in HitNodes(s, hits) |-> NoProps])

Without(removed) ==
    /\ nodes' = [n \in DOMAIN nodes \ removed |-> nodes[n]]
    /\ edges' = [e \in {x \in DOMAIN edges : x.from \notin removed /\ x.to \notin removed} |-> edges[e]]

(* Variant: the nodes that hang on the target go with it.                  *)
DeleteNeighbours(t) ==
    Without({<<"Target", t>>} \cup {e.to : e \in {x \in DOMAIN edges : x.from = <<"Target", t>>}})

(* DeleteTarget: the target and its snapshots, with their edges.           *)
DeleteTarget(t) ==
    Without({<<"Target", t>>} \cup
            {e.to : e \in {x \in DOMAIN edges : x.from = <<"Target", t>> /\ x.rel = "HAS_SNAPSHOT"}})

-----------------------------------------------------------------------------
(* The callers, which change the tables and start the goroutines.          *)
Stored(s) == rows[s] \in {"pending", "completed"}
SnapshotsOf(t) == {s \in Snapshots : TargetOf[s] = t}

RowHits(s) == {"status"} \cup (IF rows[s] = "completed" THEN raw[s].providers ELSE {})

Task(kind, s, hits, withEvents) ==
    [kind |-> kind, target |-> TargetOf[s], snap |-> s, hits |-> hits, events |-> withEvents]

(* PersistScan of a scan that found something new: the INSERT, with the    *)
(* enrichment pending.                                                     *)
PersistScan(s) ==
    /\ rows[s] = "absent" /\ TargetOf[s] \notin gone
    /\ \A x \in SnapshotsOf(TargetOf[s]) : x < s => rows[x] # "absent"
    /\ rows' = [rows EXCEPT ![s] = "pending"]
    /\ storing' = storing \cup {s}
    /\ UNCHANGED <<raw, gone, repeats, graph, enriching, tasks, fate>>

(* Storing the tags or the thumbnail fails, the latter perhaps because its *)
(* snapshot is gone: PersistScan returns and starts no goroutine.          *)
PersistFails(s) ==
    /\ s \in storing /\ lost + repeats < MaxExtra
    /\ lost' = lost + 1
    /\ storing' = storing \ {s}
    /\ missed' = missed \cup {s}
    /\ UNCHANGED <<table, graph, enriching, tasks>>

(* Variant: only the first scan of a target is passed on.                  *)
PassOnFirst(s) ==
    /\ s \in storing
    /\ storing' = storing \ {s}
    /\ tasks' = IF \E x \in SnapshotsOf(TargetOf[s]) \ {s} : Stored(x) THEN tasks
                ELSE tasks \cup {Task("sync", s, {"status"}, TRUE)}
    /\ enriching' = enriching \cup {x \in {s} : Stored(x)}
    /\ UNCHANGED <<table, graph, fate>>

(* The snapshot is passed on, and its enrichment started, whether or not   *)
(* its row is still there; the enrichment then does nothing.               *)
PassOnNew(s) ==
    /\ s \in storing
    /\ storing' = storing \ {s}
    /\ tasks' = tasks \cup {Task("sync", s, {"status"}, TRUE)}
    /\ enriching' = enriching \cup {x \in {s} : Stored(x)}
    /\ UNCHANGED <<table, graph, fate>>

PassOn(s, withEvents) ==
    /\ Stored(s) /\ lost + repeats < MaxExtra
    /\ repeats' = repeats + 1
    /\ tasks' = tasks \cup {Task("sync", s, RowHits(s), withEvents)}
    /\ UNCHANGED <<raw, rows, gone, graph, storing, fate>>

(* PersistScan of a scan that found the same as the last one passes on the *)
(* row there is, without its changes, and has it enriched again.           *)
PersistRepeated(s) ==
    /\ \A x \in SnapshotsOf(TargetOf[s]) : x > s => ~Stored(x)
    /\ PassOn(s, FALSE)
    /\ enriching' = enriching \cup {s}

(* An import that rebuilds the graph passes on each row it wrote.          *)
RebuildGraph(s) == PassOn(s, TRUE) /\ UNCHANGED enriching

EnrichSnapshot(s) ==
    /\ s \in enriching
    /\ enriching' = enriching \ {s}
    /\ rows' = [rows EXCEPT ![s] = "completed"]
    /\ tasks' = tasks \cup {Task("enrich", s, {"status"} \cup raw[s].providers, FALSE)}
    /\ UNCHANGED <<raw, gone, repeats, graph, storing, fate>>

(* Deleting a snapshot, or pruning it, leaves the graph alone.             *)
DeleteSnapshotRow(s) ==
    /\ Stored(s)
    /\ rows' = [rows EXCEPT ![s] = "deleted"]
    /\ enriching' = enriching \ {s}
    /\ UNCHANGED <<raw, gone, repeats, graph, storing, tasks, fate>>

DeleteTargetRow(t) ==
    /\ t \notin gone
    /\ \E s \in SnapshotsOf(t) : rows[s] # "absent"
    /\ gone' = gone \cup {t}
    /\ rows' = [s \in Snapshots |-> IF TargetOf[s] = t /\ Stored(s) THEN "deleted" ELSE rows[s]]
    /\ enriching' = enriching \ SnapshotsOf(t)
    /\ tasks' = tasks \cup {[kind |-> "delete", target |-> t]}
    /\ UNCHANGED <<raw, repeats, graph, storing, fate>>

-----------------------------------------------------------------------------
(* The goroutines.                                                         *)
Passed(K) == {s \in Snapshots : \E k \in K : k.kind = "sync" /\ k.snap = s}

Run(k) ==
    /\ k \in tasks
    /\ CASE k.kind = "sync"   -> SyncSnapshot(k.snap, k.hits, k.events)
         [] k.kind = "enrich" -> SyncEnrichment(k.snap, k.hits)
         [] k.kind = "delete" -> DeleteTarget(k.target)
    /\ tasks' = tasks \ {k}
    /\ missed' = missed \ Passed({k})
    /\ UNCHANGED <<table, work, lost>>

(* A transaction that fails leaves nothing; nobody hears of it.            *)
Fail(k) ==
    /\ k \in tasks /\ lost + repeats < MaxExtra
    /\ lost' = lost + 1
    /\ tasks' = tasks \ {k}
    /\ missed' = missed \cup Passed({k})
    /\ UNCHANGED <<table, graph, work>>

(* The process dies, with all that is under way, and starts again.         *)
Restart ==
    /\ tasks # {} \/ storing # {} \/ enriching # {}
    /\ lost + repeats < MaxExtra
    /\ lost' = lost + 1
    /\ tasks' = {} /\ storing' = {} /\ enriching' = {}
    /\ missed' = missed \cup storing \cup Passed(tasks)
    /\ UNCHANGED <<table, graph>>

Next ==
    \/ \E s \in Snapshots :
        PersistScan(s) \/ PersistFails(s) \/ PassOnNew(s) \/ PersistRepeated(s) \/ RebuildGraph(s)
        \/ EnrichSnapshot(s) \/ DeleteSnapshotRow(s)
    \/ \E t \in Targets : DeleteTargetRow(t)
    \/ \E k \in tasks : Run(k) \/ Fail(k)
    \/ Restart

Spec == Init /\ [][Next]_vars

TypeOK ==
    /\ rows \in [Snapshots -> {"absent", "pending", "completed", "deleted"}]
    /\ gone \subseteq Targets /\ storing \cup missed \subseteq Snapshots
    /\ enriching \subseteq {s \in Snapshots : Stored(s)}
    /\ lost + repeats <= MaxExtra
    /\ Ends(DOMAIN edges) \subseteq DOMAIN nodes
    /\ \A e \in DOMAIN edges : edges[e] \in Snapshots \cup {NoSnapshot}

-----------------------------------------------------------------------------
(* The reads of one target and one snapshot.                               *)

graphViewEdgeTypes ==
    [infra      |-> {"HAS_SNAPSHOT", "HOSTED_ON", "RESOLVES_TO", "HAS_JARM", "HAS_JA3S",
                     "HAS_FAVICON", "SIGNED_BY"},
     bgp        |-> {"HOSTED_ON", "IN_PREFIX", "ANNOUNCES", "VISIBLE_ORIGIN", "HAS_AS_PATH",
                     "AS_PATH_NEXT", "PATH_TO_PREFIX"},
     traceroute |-> {"TRACEROUTE_HOP", "NEXT_HOP", "REACHES", "RESOLVES_TO", "SHARED_AT"},
     ct         |-> {"DISCOVERED_VIA_CT", "SCANNED_AS"},
     dns        |-> {"USES_NS", "USES_MX", "ALIASES_TO", "HAS_DMARC", "HAS_SOA"},
     cert       |-> {"HAS_SAN", "SCANNED_AS", "SIGNED_BY"},
     peering    |-> {"HOSTED_ON", "PRESENT_AT_IX"}]

(* The nodes up to three edges away, in either direction.                  *)
Beside(near) == {e.to : e \in {x \in DOMAIN edges : x.from \in near}}
                \cup {e.from : e \in {x \in DOMAIN edges : x.to \in near}}

Wider(near) == near \cup Beside(near)
Around(t)   == Wider(Wider(Wider({<<"Target", t>>} \cap DOMAIN nodes)))

(* fetchGraph with a snapshot: the edges of the view that carry it, among  *)
(* the nodes around the target.                                            *)
fetchGraph(view, around, s) ==
    {e \in DOMAIN edges : /\ e.rel \in graphViewEdgeTypes[view]
                          /\ edges[e] = s
                          /\ e.from \in around /\ e.to \in around}

getTraceroutePaths(t, s) ==
    {<<e.to[2].vantage, e.to[2].hop, nodes[e.to]>> :
        e \in {x \in DOMAIN edges : /\ x.from = <<"Target", t>> /\ x.rel = "TRACEROUTE_HOP"
                                    /\ edges[x] = s /\ x.to[2].snap = s}}

(* getBGPASPaths: whether a path is among those read.  It starts at the    *)
(* first AS of a path and follows any edges of its number, each once and   *)
(* at most twenty, in whatever order they come.                            *)
getBGPASPaths(t, s, path) ==
    \E first \in {e \in DOMAIN edges : /\ e.from = <<"Target", t>> /\ e.rel = "HAS_AS_PATH"
                                        /\ edges[e] = s /\ e.to[2] = path[1]} :
        LET next == {e \in DOMAIN edges : /\ e.rel = "AS_PATH_NEXT" /\ edges[e] = s
                                          /\ e.key[1] = t /\ e.key[2] = first.key[1]}
        IN  /\ Len(path) <= 21
            /\ \E walk \in [2 .. Len(path) -> next] :
                /\ IsInjective(walk)
                /\ \A j \in 2 .. Len(path) :
                    walk[j].from[2] = path[j - 1] /\ walk[j].to[2] = path[j]

-----------------------------------------------------------------------------
InGraph(s) == <<"Snapshot", s>> \in DOMAIN nodes

(* The edges of a view that no other target writes, and that carry a       *)
(* snapshot: HAS_SNAPSHOT and SCANNED_AS do not, so that the view of one   *)
(* snapshot shows neither.  Of an AS path longer than five the middle is   *)
(* further than three edges from the target.                               *)
SharedEdgeTypes == {"ANNOUNCES", "VISIBLE_ORIGIN", "PRESENT_AT_IX"}
OwnEdges(drawn, s, view) ==
    {e \in drawn :
        /\ e.rel \in graphViewEdgeTypes[view] \ SharedEdgeTypes
        /\ e.rel = "AS_PATH_NEXT" => Len(raw[s].as_paths[e.key[2]]) <= 5}

(* Of every snapshot the graph knows, however many came after it and in    *)
(* whatever order they were written, the traceroute that is read back has  *)
(* exactly the hops the scan found (neo4j_sync.go, syncTracerouteGraph,    *)
(* and neo4j_graph.go, getTraceroutePaths).                                *)
TraceroutesKept ==
    \A s \in Snapshots : InGraph(s) =>
        getTraceroutePaths(TargetOf[s], s) =
            {<<h[1], HopAt(s, h).hop, [ip |-> HopAt(s, h).ip, timeout |-> HopAt(s, h).timeout]>> :
                h \in HopsOf(s)}

(* At any moment every target in the graph has one snapshot that is shown  *)
(* complete: in all seven views, with all edges of its own, and with all   *)
(* its AS paths of up to 21 ASes.  What other targets write, and what      *)
(* goroutines write out of order, never leaves it with none                *)
(* (neo4j_graph.go, fetchGraph and getBGPASPaths).                         *)
ShownComplete(s) ==
    /\ LET drawn  == AllEdges(s, {})
           around == Around(TargetOf[s])
       IN  \A view \in DOMAIN graphViewEdgeTypes :
               OwnEdges(drawn, s, view) \subseteq fetchGraph(view, around, s)
    /\ \A i \in DOMAIN raw[s].as_paths :
        raw[s].prefix # {} /\ Len(raw[s].as_paths[i]) \in 1 .. 21
            => getBGPASPaths(TargetOf[s], s, raw[s].as_paths[i])

OneShownComplete ==
    \A t \in Targets : <<"Target", t>> \in DOMAIN nodes =>
        \E s \in SnapshotsOf(t) : InGraph(s) /\ ShownComplete(s)

(* When no scan is storing and no goroutine is left, a snapshot of the     *)
(* table is in the graph unless its own passing on was lost, to an error   *)
(* of PersistScan after the INSERT, a failed transaction or a death of the *)
(* process, and did not succeed since; whatever was deleted meanwhile      *)
(* (handlers/snapshot.go, PersistScan, and browse.go, deleteTarget).       *)
RowsReachGraph ==
    storing = {} /\ tasks = {} => \A s \in Snapshots : Stored(s) => InGraph(s) \/ s \in missed

(* Writing or deleting one target changes nothing of its own that another  *)
(* target shows, neither its edges nor the snapshot they carry (neo4j.go,  *)
(* SyncSnapshot and DeleteTarget).                                         *)
OwnPart(t) ==
    {<<e, edges[e]>> : e \in {x \in DOMAIN edges :
        \/ x.from = <<"Target", t>> /\ edges[x] # NoSnapshot
        \/ x.rel \in {"AS_PATH_NEXT", "PATH_TO_PREFIX"} /\ x.key[1] = t
        \/ x.from[1] = "Hop" /\ x.from[2].target = t}}

OthersUntouched ==
    [][\A k \in tasks \ tasks' : \A t \in Targets \ {k.target} :
          graph' # graph => OwnPart(t)' = OwnPart(t)]_vars
=============================================================================
