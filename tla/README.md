# EchoState: a verification project

EchoState scans hosts (DNS, TLS, routes, WHOIS, screenshots ...), keeps what it
finds as *snapshots* in PostgreSQL, compares each snapshot with the one before,
enriches it from external providers, mirrors it into a Neo4j graph, renders PDF
reports, and sends webhooks when something changed. It is one Go process with a
dozen background goroutines that meet only in the database: almost no operation
spans more than one statement, there are few transactions, and the process may
be stopped or die between any two of them. That is where its difficulty lies
and what these modules are about.

The project consists of TLA+ modules translated from the source, TLC
configurations that check them on small instances, and TLAPS proofs, for every
size, of safety properties of every one of them. `PROJECT.json` names, for
every definition, the source lines it stands for, and for every property of a
run a mutant of the code that violates it.

## 1. Inventory

| component | state | operations | correct when |
|---|---|---|---|
| scan worker (`internal/scans`) | `scan_jobs` rows; wake channel of one; semaphore; contexts | create, cancel, claim, run, complete/fail, Start, Stop | a row is claimed once and its slot comes back on every path; finished rows stay finished; Stop ends; a restart ends what was cut off |
| report worker (`internal/reports`) | `reports` rows, the same channels, a renderer goroutine per job | create, delete, claim, wait for enrichment, load, render, store | as above, and a report that was deleted does not come back |
| rescan scheduler (`internal/scheduler`) | a timer, the stale list of a tick | tick, enqueue | one scheduled job per host; every stale target gets its turn |
| snapshot store (`handlers/snapshot.go`, `retention`, `db/blobs.go`) | `targets`, `snapshots`, `snapshot_blobs` | PersistScan, prune, delete | references resolve; the diff is with the predecessor; retention holds up to the prunings that were lost and keeps the newest |
| enrichment (`internal/enrichment`) | `raw_data.enrichment`, `change_details` | EnrichSnapshot per persisted scan | compared with the enrichment before; alerts only for changes; pending ends |
| pWhois worker (`internal/pwhois`) | ASN cache, addresses without a record | poll, batch, retry, update | every address is eventually looked up; a record of today is kept |
| change detection (`internal/diff`) | none (pure) | Compute, rules | following the reported changes tells what is there now; no false alarm |
| webhooks (`internal/webhooks`) | hooks, their rules | dispatch, filter, edit | a change somebody asked for all along reaches the hook |
| settings (`internal/config`, `handlers/settings.go`) | settings in memory and in a row | GET, PUT, import, start | memory and row come together again; a masked secret is never stored nor lost |
| notes, collections, graph views (handlers, `internal/notes`) | rows with foreign keys and CHECKs; connections of the pool | create, edit, trash, purge, delete, cascades, rescan of a collection | references resolve; only the trash is purged; rescans end although they compete for connections |
| accounts (`internal/auth`, `middleware/session.go`) | users, codes, challenges, passkeys, sessions, attempts | bootstrap, issue, verify, register, log in, revoke | limits on guesses hold; a live code is not spent by others' guesses; a passkey belongs to whom the challenge was made for |
| rate limiter (`middleware/ratelimit.go`) | token buckets | allow, clean up | never more than burst plus rate |
| graph store (`internal/db/neo4j*`) | Neo4j nodes and edges | sync, delete, rebuild, query | every row reaches the graph; the newest write of a target is shown whole; traceroutes stay those of their scans |
| export and import (`internal/export`) | rows, remapped ids | export, import | a round trip is the identity; references follow the remapping; skip keeps what was there |
| scanner (`internal/scanner`) | the result of one scan | gather concurrently, finalize, hash | each failure is listed once; the hash does not depend on timing |
| audit, route differences, PDF renderer, observability, version check, CLI, frontend | rows nobody reads back, display and I/O | | |

Interactions. Handlers insert `scan_jobs` and `reports` rows and wake a worker;
the scheduler does so too. A scan's goroutine calls `PersistScan`, which writes
target and snapshot and starts pruning, enrichment, graph sync and webhooks as
goroutines nobody waits for. Webhooks read the rules in the settings, which
administrators edit meanwhile, and the changes that `diff` computed. Enrichment rewrites the snapshot that the report
worker may be waiting for. Deletions by an admin, and pruning, remove rows that
any of these still refer to; the foreign keys of `internal/db/db.go` decide
what happens then. `main.go` starts the workers and stops them on a signal.

Hard behaviours: statements of several goroutines interleave; contexts end
while their owner still has to record the failure; a commit may be
acknowledged to nobody; an error that is ignored, or returned half way, loses what was to come;
a crash forgets goroutines that only memory knew of;
queries with LIMIT and ORDER BY decide who is served; a renderer outlives its
job. `PROJECT.json` lists them, each at its line, under `hazards`.

## 2. Modules and their correspondence to the code

Every SQL statement (or committed transaction) is one step, because that is
what PostgreSQL makes atomic; Go code between two statements belongs to the
step before. A statement fails when its context is done, or when the instance
allows database errors (`"db"` in `Faults`). Definitions whose comment begins
with *Variant* are the mutated forms used to show that a property can fail.

* **JobQueue** is the abstract specification: rows that are submitted, claimed
  once, cancelled, finished by their owner, recovered while nobody owns
  anything, or deleted. Its state is the status column and the set of owned rows.
* **ScanQueue** models `internal/scans/worker.go` whole. `loop` is the
  program counter of the loop goroutine (`select`, `acquire` a slot, `claim`),
  `runner[j]` that of the goroutine of a claimed row (`run`, `check` for a
  cancellation, `persist`, `complete`, `release`), `sem` and `wake` are the two
  channels, `ctx[j]` the context `runJob` derives. `Claim` is the transaction
  with `FOR UPDATE SKIP LOCKED`; `ClaimCommitLost` is the same transaction when
  its COMMIT took effect and its answer did not arrive. `Start` includes
  `failStaleRunning`. The row's host matters only to `deleteTarget`, which
  deletes rows by `target_id`. It implements JobQueue with `owned` the rows
  whose goroutine may still write them.
* **ReportQueue** models `internal/reports/worker.go` in the same way, with its
  own difficulties: time (`age`, in units that keep the ratio of the 30 s
  context and the 45 s wait), the cancellation that `AfterFunc` passes on
  (`cut`), renderers that outlive the job (`rendering`), and reports deleted
  with their snapshots while they are being rendered. It implements JobQueue.
* **Scheduler** models a tick of `internal/scheduler/scheduler.go` against the
  jobs it creates. Dates are abstracted to `older`, the strict order of the targets by
  `scanned_at`, and the set of those within `schedule_stale_hours`;
  `StaleTargets` is the lists the query may return. A completed job moves a target to the end of that order only when its scan found
  something new (`storeSnapshot`). A tick gets its list (`QueryReturns`), or an error (`QueryFails`) and is over. `Arguments` are the
  Go types and the parameter types of the query; what the driver can encode is a constant, as it decides whether the
  query runs at all.
* **SnapshotStore** models `PersistScan` and `storeSnapshot`
  (`internal/handlers/snapshot.go`) statement by statement for several scans of
  one host, with the pruning goroutines (`internal/retention`), `deleteSnapshot`,
  the two statements of `deleteTarget` (`internal/handlers/browse.go`), the
  foreign keys, and a crash. Statements fail where a scenario has the event `"fault"`: those of `PersistScan` before and
  after the INSERT (`StatementFails`), the pruning's DELETE, whose error is ignored (`PruneFails`), the second of
  `deleteTarget`, and the UPDATE that records how a scan ended, as it does on a finished context (`Unrecorded`).
  `unpruned` and `unrecorded` are history: the scans whose pruning, or whose end, was lost. `scanned_at` is a logical clock
  read where the code reads the time, before the INSERT.
* **Enrichment** models `EnrichSnapshot` and `DiffEnrichment`
  (`internal/enrichment`). A provider's answer is an arbitrary value, nothing,
  or an error. `alerts` and `last` are history variables.

* **Annotations** models the notes, collections and saved views of
  `internal/handlers` and the purge of `internal/notes`. `Delete` is any DELETE
  with what the foreign keys of `internal/db/db.go` make of it: cascades, SET
  NULLs, and the refusal of the whole statement by the CHECK of
  `investigation_notes`. `rescanCollection` is a state machine of its own, since it
  keeps the connection of its query while `CreateJob` asks the pool for another
  (`conns`). `stay` and `asked` are history variables.
* **Pwhois** models the worker of `internal/pwhois`: `phase` is where its loop is,
  `todo` the result of `pendingIPs` not looked at yet, `batch` the addresses of
  `lookupBatch`. `data` of a snapshot is the address its record describes, as an
  identical rescan replaces `client_ip` and leaves the record. A crash between two
  steps empties the cache.

* **Accounts** models codes, the limits on guessing, enrollment sessions, both
  passkey ceremonies and sessions, as one browser with several tabs sees them:
  cookies are shared, each tab has one request whose statements are steps (`pc`,
  `call`); the administrator, the command line and the clock are the
  environment. A passkey is named by the challenge it answered; `issuedTo` is
  history.
* **RateLimiter** models one store of buckets in integer arithmetic (`Unit`
  parts make a token). A request or a cleanup is one step, because the code holds the
  mutex. `since` and `passed` are history: a watcher who counts what gets
  through. It has no run: what matters is the bound for all sizes, which is
  proved.
* **Scanner** models how `scanner.go` joins its gatherers, merges the page's
  findings (`finalize.go`) and hashes the result (`hash.go`). A gatherer's answer
  is an arbitrary map with or without an error. It is proved as well, for any
  fields and values.
* **GraphStore** models the Cypher of `internal/db/neo4j*.go` as sets of nodes
  and edges known by what their MERGE names, every goroutine of `tasks` being one
  transaction that runs, fails or is lost with the process. `PersistScan` inserts the row; it is then passed on
  (`PassOnNew`), unless a statement in between fails or the process dies (`storing`). Transactions are serial, so that a MERGE
  finds what an earlier one created. The code declares no uniqueness constraint: that two which overlap may create a node twice
  is left out, and a deadlock is a failure.
  `missed` is history: the snapshots whose passing on was lost. The reads of the graph page (views, traceroutes, AS paths) are operators.
* **Transfer** models `BuildBundle` table by table, with scans, edits and deletions between
  the reads, and `ImportBundle`, one transaction that a violated constraint
  undoes, for both conflict strategies. A row carries the installation its content is from. The loop over the
  collections is in closed form: which ids it keeps and whose name it finds (`underOwnId`, `nameOwners`), and the
  statement that fails on a name on the way (`CollectionNameTaken`).
* **Diff** translates the comparisons of `internal/diff` (`diff.go`, `intel.go`): raw data is a function from the attributes that were gathered.
  A section without a comparison of its own is compared whole (`Whole`); of a traceroute, the only one of them that has another
  comparison besides, that is the hops and `traceroute.rest`, which stands for round-trip times, vantage points and warnings.
  What a Field adds to the name of its attribute (the slug of a plugin, `.rua`, `.record`) is the `Suffix` of an entry.
* **Settings** models memory and row of the settings under overlapping GETs and
  PUTs. The rules stand for the fields with defaults, the key for the secrets.
* **Alerts** extends Diff and Settings: scans of a target store changes, each
  dispatch reads hooks and rules step by step while both are edited, and
  enrichment dispatches again. `told` and `missed` are history: a reader who knows the
  first snapshot and the reported changes only.

In SnapshotStore, Enrichment, Annotations, Accounts and Alerts a *scenario*
(`env` or `case`, chosen initially and never changed) says how many actors
overlap and which disturbances occur, so that one run covers the combinations;
properties that the code offers only under a condition name it (`Sequential`, no
crash, `WholeBundle` ...). `Undisturbed` of Enrichment is one run after another with rescans and crashes, but without deletions
and errors of the database. In Accounts each scenario starts where it gets interesting:
an empty database, a fresh enrollment session, or a user signed in.

## 3. Runs

Every action of the modules that have a run fires in a passing one.

| run | instance | shows |
|---|---|---|
| `scan` | 2 rows, 1 slot, all faults, fairness | implements JobQueue; pending rows are served although wake-ups are dropped and claims fail; Stop ends; a restart ends what was left running |
| `report` | 2 reports of 2 snapshots, one waiting for enrichment, 1 slot, all faults, fairness | implements JobQueue, so that a report deleted while it is rendered does not come back; pending reports are served; a restart ends what was left running |
| `sched_rescans` | 3 hosts, 2 of which change, LIMIT 2, a driver that accepts an int for text, fairness | one scheduled job per host; every stale target is rescanned when fewer than LIMIT targets never change |
| `snap_store` | 2 to 4 scans, 7 scenarios | references resolve, retention up to one for each lost pruning, newest kept, and for scans in order: diffs against the predecessor; a job stays running only when its end could not be recorded |
| `enrich` | 2 or 3 runs, 1 to 3 snapshots, 6 scenarios, fairness | pending ends, and for runs one after another, rescans included: compared with the predecessor, alerts only for changes, and only what was told is repeated |
| `annotations` | 2 targets, 2 snapshots of one, a note and a view, or a collection and 2 rescans with 2 connections; fairness | references resolve, only the trash vanishes, rescans end although they hold all connections |
| `pwhois` | 2 snapshots, 2 addresses of which one may be private, 1 retry, limits of 1 and 2, fairness | a record of today is kept, every snapshot gets the record of its address |
| `installation` | accounts: 2 users, 2 tabs, 1 code, 2 challenges, 3 scenarios; or transfer: 2 sources, 7 destinations, 4 kinds of rows stored meanwhile, at most 2 changes | concurrent guesses exceed the limit by no more than the requests under way; no code that still counts is used up; every passkey and sign-in goes to the user of its challenge; a round trip changes nothing; skip keeps; snapshots and members follow the remapping; a whole bundle imports |
| `graph` | 2 targets, 3 snapshots, two worlds of findings, 1 failure, restart or repeat | traceroutes read back as scanned; each target has a snapshot shown whole; a row reaches the graph unless its own passing on was lost; targets leave each other's part alone |
| `alerts` | 19 groups of attributes, or 2 requests for settings, or 2 hooks and a dispatch; fairness | a reader of the changes knows the target; no false alarm; secrets survive; lone requests bring memory and row together; what was asked for all along arrives |
| `scan_timeout_stuck` | violation | a scan whose deadline passes stays `running` |
| `sched_pgx` | violation; `sched_rescans` with what pgx encodes | no tick ever gets its list, and no stale target is rescanned |

The run `installation` puts two components side by side that share no state: a behaviour is of one of them (`part`), and
nothing is claimed of both together. The passing runs have between 10 000 and 3 million distinct states, the largest being
`snap_store` and `installation`, and take from seconds to two minutes.

Bounds. One slot and two rows are the smallest instance in which one row waits
for another's slot while that one is cancelled, times out or is deleted; with
more slots the safety properties are proved. Two
reports of different snapshots suffice for deletion under the renderer's feet,
as reports interact only through slots. Three hosts and LIMIT 2 let a host be
cut off from a tick. Three overlapping scans give a prune that runs between
another scan's read and insert; two of different content, with a limit of one, suffice for a failed pruning to leave one too
many while everything else happens; four in order give the content A, A, B, A, so
that equality with an older snapshot is told apart from equality with the
newest. Three enrichments give a first, a previous and a current one.
Two rescans and two connections are the smallest pool that rescans can exhaust.
One note suffices, as notes do not interact; its anchors range over all
combinations. Two snapshots of one target make a prune that removes one.
Two addresses under a limit of one let one of them keep the other out of a
poll; under a limit of two a batch holds both. Two tabs and one code make both
races of the limits, and two challenges let one be answered with the other's
cookie; more of each are covered by the proofs. Two snapshots of a target and
one of another, whose findings partly coincide, make an edge be overwritten by a later
snapshot, by an earlier one and by another target; a path of five ASes is the longest of which a view shows every
edge, one of six is not. The destinations of
an import are empty, a copy, one with the same host under another id, one whose view
has the name of an imported one, two with a renamed collection, and one with two names exchanged. Attributes that are
compared apart are told apart by group, each with two or three values, missing, and
with its section missing, in any sequence of scans.
`MaxAge`, `MaxTargets`, `MaxUser`, `MaxSnapshots`, `MaxExtra`, `MaxChanges` and
the sets `Slots`, `Codes`, `Tokens`, `Challenges` bound counters that are
unbounded in the code: time beyond both deadlines changes nothing more, and two
incarnations of a target suffice for a stale id.

Fairness. Goroutines that can run do run (WF on the loop, on each runner, and on each
dispatch): gatherers, renderers, providers and requests to hooks are bounded by timeouts of their own. The
loop's `select` picks at random among ready cases, so a Done case that stays
ready is taken (SF on `LoopExit`). The database does not refuse every single
claim, nor every INSERT of a tick or every query that can be asked (SF on `Claim`, `Enqueue`, `QueryReturns`); a host's scans do
not all fail (SF on `JobCompletes`). A rescan of a collection gets a connection
or reaches its deadline. The pWhois poll is repeated by a ticker, cache
entries expire, days pass, and neither the server nor the UPDATE of an address
fails for ever (SF on `LookupAnswers`, `Recorded`, `Skipped`). A stopped process is started again
(`restart: unless-stopped` in `docker-compose.yml`). No fairness is assumed of
requests, crashes or Stop. Deadlock is checked in every run but `installation`,
`graph` and `alerts`, whose instances do end when their codes,
repeats, import or requests are used up.

## 4. Disagreements between the code and what is said of it

Found while modelling. The first two have a run with a counterexample; the others
follow from the modules' definitions, and the passing properties exclude
exactly them by a named condition.

Workers and scheduler:

* A scan or a report whose context ended cannot record that on the same
  context and stays `running` until a restart (`scans/worker.go:290`,
  `reports/worker.go:373`; clients "poll until complete"). Run
  `scan_timeout_stuck`; `RestartEnds` says what does hold.
* The scheduler never rescans anything: `staleTargets` passes a Go int for `$1::text` (`scheduler/scheduler.go:99`,
  `:109`), which pgx (`go.mod:16`, in its default mode, as `db/db.go:23` sets none) cannot encode, so that every tick logs an
  error and returns (`:71`); `README.md:18` of the repository speaks of scheduled rescans. Run `sched_pgx`. Everything else said
  of the scheduler here is about what it does once the query is accepted.
* A cancellation between the check and the last UPDATE is lost
  (`scans/worker.go:306`, the UPDATE is by id alone; `MarkCompleted` of ScanQueue).
* The 45 s wait for enrichment (`appmap.md:156`) runs under a 30 s context
  (`reports/worker.go:278`; `WaitForEnrichment` and `CtxDone` of ReportQueue).
* A timed-out renderer goes on after its slot was given back, so more than the
  configured number may render (`reports/worker.go:35`, `:365`).
* Targets that never change keep their place at the head of the scheduler's
  order; as many as its LIMIT keep the others out for ever
  (`scheduler/scheduler.go:115`, `README.md:18` of the repository). For the same reason they are rescanned at every
  tick, however recently they were scanned (`CHANGELOG.md:511`).

Snapshots and enrichment:

* Overlapping scans of one host may both insert identical content, or skip each
  other in their diffs (`README.md:16`, `:217` of the repository), and a job
  whose snapshot or target is deleted before its last UPDATE stays `running`, as does one whose last UPDATE fails.
  `ChangesVersusPrevious` therefore says `Sequential`, and `JobsEnd` names both.
* A pruning whose DELETE fails, or that an error after the INSERT kept from starting, is not made up for before the next scan
  of the host (`handlers/snapshot.go:46`, `:79`): until then there are more than `retention_max_snapshots`. The same errors
  lose the graph sync, the webhooks and the enrichment of the snapshot for good.
* Overlapping enrichments of one snapshot lose each other's `change_details`
  (`appmap.md:89`); a late one is compared with a later snapshot
  (`enrichment/worker.go:211`, `Previous` of Enrichment); a rescan repeats the alerts of the first enrichment
  (`CHANGELOG.md:223`) and dispatches the snapshot's old changes again
  (`enrichment/worker.go:169`); a crash leaves `pending` for good (`CHANGELOG.md:222`).
* Two gatherers that fail enter the hash in the order they fail, while
  `scanner/hash.go:13` "computes a stable SHA256 hash": the same findings may make a new
  snapshot. `DedupStable` says at most one failure.

Notes, collections, pWhois:

* A note whose only anchor is a snapshot, even one in the trash, makes the
  deletion of that snapshot fail, of its target, and of everything a pruning
  DELETE would remove together with it (`db/db.go:198` against `README.md:9` of
  the repository; the refusal in `Delete` of Annotations).
* A rescan of a collection whose reading breaks off is accepted with jobs for
  some of the members (`handlers/collections.go:275`, no `rows.Err`); `RescanCut`
  of Annotations.
* An identical rescan replaces the address of a snapshot and not its record,
  which describes another submitter until a day is over; after a rescan by the
  scheduler, whose address is the word `scheduler`, the record is then replaced
  by null (`handlers/snapshot.go:157`). Addresses with a cached record are not
  updated from the cache, and fill the query's LIMIT while they wait
  (`pwhois/worker.go:119`, `:146`). `EventuallyLookedUp` says what holds.

Changes, webhooks, settings:

* A change of issuer, serial number or SOA numbers is not reported when the
  value was missing in between; a new origin after a scan without an `asn` section is only
  an "added" of severity info (`diff/diff.go:93`, `:147`); removed MTA-STS, PTR and
  DMARC records are not reported, nor a redirect hop between the first and the last.
  `ReaderKnows` names the attributes it speaks of.
* Round-trip times enter both the hash and the comparison of a traceroute (`scanner/hash.go:51`, `diff/diff.go:513`): a scan
  that found nothing else new is stored and reported as "Changed traceroute". `EntriesAreDifferences` counts these as differences; the
  `graph_traceroute` entries are about hops alone.
* Removing the last webhook from a rule, or deleting it, widens the rule to all webhooks
  (`webhooks/dispatcher.go:66`). Empty rules are replaced by the defaults, so that "no
  rules, everything is sent" never happens.
* Overlapping GETs and PUTs leave memory and row apart, and a GET may undo a
  PUT in memory (`handlers/settings.go:37`, `:60`); a failed write leaves the memory
  changed, an import changes the row alone, and a secret missing from the row is not
  taken out of memory by a GET. `json.Unmarshal` over the copy writes the array of the rules that
  other goroutines read, a data race (`:39`). `CensysAPIID` and `RiskIQAPIUser`
  are not masked.

Accounts and rate limiter:

* The branch that gives up a code after its own attempts (`auth/service.go:312`)
  cannot be taken: attempts are only counted on codes that are used or expired
  (`LiveCodesUncounted`).
* Two recovery registrations at once may delete each other's new passkey
  (`handlers/auth.go:134`).
* The enrollment limiter's bucket refills in 15 minutes and is forgotten after
  10 without a request (`middleware/ratelimit.go:107`, `:129`), when it is full again.
  The general limiter keeps its rate from `rate_limit` 3 on. `b.tokens` is read after the unlock, a data
  race, and `retry_after` is rounded down (`:98`).

Graph store:

* An edge found by MERGE is moved to the snapshot that writes it
  (`db/neo4j.go:84`), so that the views of older snapshots lose it, while
  `CHANGELOG.md:458` and `frontend/lib/help-copy.ts:89` speak of stepping through them.
  Traceroutes are kept (`TraceroutesKept`), the rest only for one snapshot (`OneShownComplete`).
* The views take what is within three edges of the target (`db/neo4j_graph.go:255`), so that of an AS path
  of six or more ASes the middle may be missing, and `getBGPASPaths` shows at most 21 of one (`:781`).
* A sync that runs after the deletion brings the target back (`db/neo4j.go:25`); the sync of
  an identical rescan writes the year 1 as `scanned_at` (`handlers/snapshot.go:135`, `:167`);
  an enrichment synced first leaves its hits without a snapshot, and its `status`
  and dates become hits (`db/neo4j_events.go:65`).
* The edges ANNOUNCES, VISIBLE_ORIGIN and PRESENT_AT_IX are shared between
  targets, which move them to each other's snapshots; the canvas follows three hops and cuts longer AS paths.

Export and import:

* A scan or a note stored between the reads of two tables gives a bundle whose
  import aborts (`export/service.go:108`). So does a view whose name is taken, even with "skip"
  (`:627`, `db/db.go:224`). A renamed collection gets the members of two
  (`:492`): with "overwrite" one that is found by its old name, which the import then takes from it, so that a second import
  of the same bundle creates what the first did not. `MembersFollow` and `ImportsRepeat` say `SameNames`.
* Settings, webhooks and blobs are overwritten also by "skip", against
  `settings-data-panel.tsx:198` and `help-copy.ts:19` of the frontend.

## 5. Proofs

**PartsProofs** holds the proofs of the smaller modules, a section each, at the end of this one.

**ScanQueueProofs** proves, for every finite set of rows, every concurrency and
every combination of faults, from the three named assumptions of ScanQueue:

* `TypeCorrect`, `ConcurrencyBounded`, `RowsClaimedOnce`: at most `MaxConcurrency` scans, and no
  row claimed twice; `StoppedWorkerQuiet`, `CompletedScanStored`: parts of the inductive
  invariant that say something by themselves;
* `FinishedRowsStayFinal`: the action property on failed rows;
* `ScanQueueImplementsJobQueue`: every step of the worker is a step of the
  abstract queue or leaves its state alone; the run `scan` shows it on its instance.

The argument is one inductive invariant, `IInv`. The properties are not
inductive by themselves. That a slot is given back only by who holds it
(`SemCounts`) needs that a claim *adds* a goroutine and does not replace one,
hence `UnclaimedIdle`: rows not claimed yet have none. That completed rows have
a snapshot needs it one step earlier, hence `CompletingPersisted`. That
`failStaleRunning` does no harm needs `DownIsQuiet`. There is one lemma per group of
actions, and the refinement uses the invariant: `SemCounts` gives the abstract
bound on owners, `WorkedRowsClaimed` that a finished row is not absent,
`DownIsQuiet` that recovery happens while nobody owns anything.

**ReportQueueProofs** proves the invariants and the
refinement for the report worker in the same way, from the assumptions of
ReportQueue.

**SnapshotStoreProofs** proves, for any scans, contents and scenarios, the
four properties of the run `snap_store`: `RefsResolve`, `RetentionHolds`, `JobsEnd`, and as action
properties `PruneKeepsNewest` and `ChangesVersusPrevious`, whatever statements fail. The inductive invariant adds where each
scan is (`Progress`: the row it will insert is not there yet, what it completes with is a
snapshot), that the target being deleted is still there (`Deleting`), and that the
times of snapshots are distinct (`Stamped`). That retention holds needs
`Surplus`: with no pruning of the host outstanding, the snapshots whose scans have come
to start theirs are few enough, those of lost prunings (`unpruned`) not counted; one whose scan has not does not count yet, and
losing it to a deletion does no harm. Newest and oldest snapshots exist because natural numbers
are well-founded (`LeastExists`), are unique because times are, and `KeptAreFew` bounds
what a pruning leaves. `ChangesVersusPrevious`, and what `JobsEnd` says of a refused UPDATE, are about scans that persist one after the other
while nobody deletes; their invariant, `Alone`, says that the scan that persists is then the only one to work on the
newest snapshot: it read that one as the previous one, and completes with it.

**AnnotationsProofs** proves, for every finite set of requests, any rows and any
size of the pool, `RefsResolve` and the action property
`OnlyTrashVanishes` of the run `annotations`, and invariants that no run repeats: `NotesAnchored`,
`StampsMatchStatus` and `ConnsAccounted`. `RefsResolve` and `NotesAnchored` are independent of each other, but
both rest on a DELETE taking its whole cascade out of every reference. The
purge is safe because `trashedAt` is the true stay of a note in the trash
(`StampIsStay`), an auxiliary invariant that `StampsMatchStatus` alone does not give.
The connections are counted as in the workers, by the cardinality of the set
of requests that hold one.

**AccountsProofs** proves the first three properties of the run `installation`, for any users, tabs,
codes and limits. `LiveCodesUncounted` needs that a request that is about to count an
attempt holds a code that is used or expired, which is stable (`CodeInv`). `GuessesBounded`
counts the requests that have passed the check as attempts already made
(`GuessInv`, a cardinality). `AnswersFitChallenges` needs that the requests of a ceremony carry the
user of their challenge from the moment they have loaded it (`KeyInv`).

**AlertsProofs** proves of settings and changes, for any settings, requests, webhooks and raw data:

* `LoneRequestsBringTogether` (`LoneRequestsAgree`): what a request that is alone has read is still what is there when it
  writes (`LoneInv`), wherever it is between its SELECT and its UPDATE;
* `SecretsKept` (`SecretsSurvive`): while nobody types a secret there is but one, in memory, in the row and in every request
  under way (`KeysAgree`), so no order of writes can lose it;
* `NoFalseAlarms` (`EntriesAreDifferences`): every entry of `Compute` has a cause (`Caused`), an attribute it is
  about that is there in one scan only or differs; one lemma per comparison of `internal/diff`.
  So raw data is never reported to differ from itself (`SameDataNoChanges`);
* `ReportsCanBeFollowed` (`ReaderKnows`): the converse, over any number of scans. When no entry of `Compute` is about an
  attribute (`Silent`), its value is what it was, where the comparison looks at all; entries about the members of a set
  are exact (`Exact`, `Told`). What is known of each attribute (`Believed`) is then kept by every scan, given that
  whatever the newest snapshot lacks is known to have been missing (`ReaderInv`). Raw data has an attribute only with its section,
  and what is empty, or 0 in a SOA record, is left out, as `stringVal` and `intVal` make no difference (`RawData`).

**GraphStoreProofs** proves, for any targets, snapshots and findings, the four properties of the run `graph`
besides the types (`GraphTyped`):

* `RowsArrive` (`RowsReachGraph`): a row is in the graph, or its scan is about to pass it on, or its sync is among the
  goroutines, or it is the one whose passing on was lost (`RowsInv`);
* `TraceroutesComeBack` (`TraceroutesKept`): the hops drawn by a snapshot stay its own, as the key of a hop's node holds
  what is found there, and no other edge can be mistaken for one (`SnapshotInv`, `ShapeInv`). It rests on the hop numbers
  of a vantage point being distinct, which the parser sees to (`scanner/traceroute.go:256`; `GraphAssumption`);
* `TargetsLeaveEachOther` (`OthersUntouched`): whatever a goroutine writes or removes is its target's (`Drawn`);
* `OneIsShownComplete` (`OneShownComplete`): a target in the graph has a snapshot there that all edges of its own
  that carry one at all (HAS_SNAPSHOT and SCANNED_AS do not, and no view of a single snapshot shows them) carry, the one written last (`ShownInv`). Its edges are within three of the target (`ShownNear`), those of an AS path from either end, which is why
  only paths of up to five ASes are shown whole, and a path is read along the edges it drew (`PathRead`).

**PartsProofs**, section by section:

* JobQueue: what every implementation inherits, the bound on owners, that an owned row is never handed out
  again, and that finished rows change only by their owner or a DELETE.
* RateLimiter, `RequestsWithinRate`: in no stretch of time does an
  address get more requests through than the cap and the refill allow, provided that a
  bucket would be full by the time the cleanup drops it (`Sensible`), which is an hypothesis of the
  theorem, not of the module, as one of the two limiters does not meet it (section 4). The
  invariant is an account: requests paid and tokens left came out of a full bucket and its refills.
* Scanner: the errors of a scan are those of the gatherers that
  failed, each once, and `HashIsStable`: with at most one failure the hash is a function of the answers.
  The invariant `ScanInv` says that sections are the answers, finalized or not; the two
  lemmas it takes are that sanitizing removes what varies before and after the final
  merge alike (`SanitizeCommutes`), and that one error has one place (`ErrorsDetermined`).
* Scheduler, `RescansScheduledOnce` (`OneScheduledJob`), for any hosts and LIMIT. It needs what a tick's list is worth
  while time passes (`ListInv`): each host once, and none with a job of the scheduler. That users
  may have added jobs of their own by then is why it says no more.
* Pwhois, `TodaysRecordsKept` (`TodayKept`): only `updateSnapshot` writes over a record, and it passes those of today by.
  `PwhoisTyped` bounds the batch, and `OnlyRoutableLookedUp` says that no address `isRoutable` refuses is asked about, cached or
  recorded, and that a snapshot has a record just when it was looked up. Both come from one invariant (`PwhoisInv`) that
  every failed UPDATE, lost batch and restart keeps.
* Enrichment, `DifferencesAreWithPrevious` (`ComparesWithPrevious`) and `AlertsMeanChange`
  (`AlertsOnlyOnChange`), for any providers, answers and runs that follow one another. `OneRun` says that
  the run under way enriches the newest snapshot and that those before are all there, `ComparesBefore` that it compares with
  what the snapshot before has stored. A rescan repeats alerts, and the property says which: `ChangesTold` adds that of every answer a
  snapshot has and the one before does not the webhooks were told. Of runs that overlap, crash, repeat or lose their snapshot, `RunsTellOnce`
  and `EndedEnrichmentsStay` say what remains: a run tells at most one thing of a provider and only of its own snapshot, and
  no enrichment that has ended is pending again. They need that what a run has read of `change_details` is of runs that have
  ended (`HistoryInv`), and that a rescan finds a newest snapshot (`NewestThere`, as natural numbers are well-founded).
* Transfer, the other five properties of the run `installation`, for any two installations, any rows stored meanwhile and
  both strategies: `RoundTripHolds`, `SkipKeepsHolds`, `SnapshotsFollowTargets`, `MembersFollowCollections` and
  `WholeBundlesAreImported`. `TransferInv` says that what is exported meets the constraints of the schema after every change, that
  a bundle, though its tables are of different moments, has one target for a host and one row for a name, and that
  nothing read has changed while nothing was. The rest says of `ImportBundle` where a target and a
  collection are mapped to (`TargetMapped`, `CollectionMapped`), that collections keep their names (`NamesKept`), and that
  the constraints hold again (`WholeAllowed`). `ImportsRepeat` says that an import whose answer was lost may be asked for
  again: it succeeds and changes nothing, since targets and collections are found where the first one put them
  (`MappedAgain`, `CollectedAgain`). It excludes writing over renamed collections (section 4).
  `TransferAssumption` says of the constants that databases have the columns
  and constraints of the schema, and that a snapshot two installations share is of one host in both: ids are random
  UUIDs, so that it came there by an import, which keeps the host.

What the proofs found in the models: a member of a collection must be a pair for a round trip to be the identity,
and rows can only be added when the constraints hold (both are in Transfer now); two guards of `Diff` overlapped, so that the value of a comparison was not determined; they
are exclusive now, in the order the code tests them; and `ReaderKnows` asked too much of two security headers no group
of the run has: it took them to be in the section of DNS, where a missing page is no excuse. `OneShownComplete`
was false of AS paths longer than those of the run; the property now names the length, and the run has a longer one.
That an import can be repeated held on every installation the run had, but not in the proof: the missing case, a collection
that has the name of one and the id of another, is the seventh destination now.

Only model-checked: all liveness properties (`PendingServed`, `StopCompletes`, `RestartEnds`, `StaleRescanned`,
`EnrichmentEnds`, `RescansEnd`, `EventuallyLookedUp`, `AskedForReaches`), as fairness and ENABLED are out of the
prover's reach. Every other property of the passing runs is a theorem.

## 6. Not modelled

* Gatherers, providers, the pWhois client, PDF layout, the HTTP requests to hooks,
  observability, the version check, the output of the command line, handlers that only read and the
  frontend: I/O or presentation, without state of their own that interacts. Their
  outcomes are choices of the modules that call them.
* Route differences (`db/route_diff.go`) and the topology diff with its `FilterByTypes` (`diff/graph.go`): comparisons of two stored
  results for display. The rest of `diff/graph.go`, which `Compute` calls, is in Diff.
* In the graph: clusters, reads that span targets, the comparison of vantage points, and the limit of 3000 edges a view has.
* The audit log: rows nobody reads back, purged by age.
* Automatic tags and the edit of tags, of profiles, names, titles and bodies: single writes
  of a text. The checks of roles in front of handlers.
* Of the settings, fields that are neither rules nor secrets: they are clamped one by one.
* `snapshotReport`'s search for an existing report only
  decides whether one is created; two requests may both find none.

## 7. Plan

1. Done: the workers, the store, enrichment, notes, pWhois, accounts, the rate limiter,
   the scanner, the graph, export and import, changes with settings and webhooks.
2. A composition of scan worker, snapshot store and enrichment as PersistScan
   joins them, refining the three.
3. Clusters and route differences as operators against reference definitions; the purge of
   the audit log beside the deletions it records.
4. Proofs: that the composition of 2 refines its parts.
