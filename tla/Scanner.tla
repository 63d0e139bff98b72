------------------------------ MODULE Scanner -------------------------------
(***************************************************************************)
(* One scan (internal/scanner: scanner.go, finalize.go, hash.go): the      *)
(* gatherers run concurrently, each under its own timeout, and write their *)
(* answers into one result under a mutex; then what the rendered page told *)
(* of storage buckets is merged into the storage section.  The hash of the *)
(* result decides whether the scan is a new snapshot.                      *)
(*                                                                         *)
(* A section is a map from some of the Fields to Values; a map of no fields*)
(* stands for nil too.  What a gatherer asks and finds out is left open:   *)
(* it may answer, fail or time out, with or without part of an answer.     *)
(***************************************************************************)
EXTENDS Integers, Sequences, SequencesExt

CONSTANTS Fields, Values,
          Failures,      \* texts of errors
          None           \* of an answer without an error

VARIABLES
    running,    \* gatherers that have not answered
    answers,    \* history: what each gatherer returned
    sections,   \* of result: one map for each gatherer
    errors,     \* of result
    finalized   \* finalizeScanResult has run

scannerVars == <<running, answers, sections, errors, finalized>>

Gatherers == {"whois", "asn", "tls", "dns", "favicon", "crawl", "storage", "ct",
              "traceroute", "web", "screenshot"}

Empty == [f \in {} |-> None]
Maps  == UNION {[names -> Values] : names \in SUBSET Fields}
Answers == [value : Maps, err : Failures \cup {None}]

mergeMap(dst, src) ==
    [f \in DOMAIN dst \cup DOMAIN src |-> IF f \in DOMAIN src THEN src[f] ELSE dst[f]]

-----------------------------------------------------------------------------
(* Lists of buckets and provider hints: the first of several items with the*)
(* same key is kept.                                                       *)
ListOf(section, field) == IF field \in DOMAIN section THEN section[field] ELSE <<>>

SameBucket(a, b) == a.provider = b.provider /\ a.name = b.name /\ a.match = b.match
SameHint(a, b)   == a.provider = b.provider /\ a.match = b.match

mergeBucketLists(existing, extra) ==
    FoldLeft(LAMBDA kept, item :
                 IF \E i \in DOMAIN kept : SameBucket(kept[i], item) THEN kept
                 ELSE Append(kept, item),
             <<>>, existing \o extra)

mergeProviderHints(existing, extra) ==
    FoldLeft(LAMBDA kept, item :
                 IF \E i \in DOMAIN kept : SameHint(kept[i], item) THEN kept
                 ELSE Append(kept, item),
             <<>>, existing \o extra)

(* The buckets are there afterwards, if only as an empty list; the hints   *)
(* only when there are some.                                               *)
mergeWebStorageIntel(storage, web) ==
    LET buckets == mergeBucketLists(ListOf(storage, "buckets"), ListOf(web, "detected_buckets"))
        hints   == mergeProviderHints(ListOf(storage, "provider_hints"),
                                      ListOf(web, "provider_hints"))
        listed  == mergeMap(storage, [f \in {"buckets"} |-> buckets])
    IN  IF hints = <<>> THEN listed
        ELSE mergeMap(listed, [f \in {"provider_hints"} |-> hints])

finalizeScanResult(s) ==
    IF DOMAIN s["web"] = {} THEN s
    ELSE [s EXCEPT !["storage"] = mergeWebStorageIntel(s["storage"], s["web"])]

-----------------------------------------------------------------------------
(* HashForDedup: two results have the same hash when these are the same.   *)
Volatile(g) == CASE g = "screenshot" -> {"thumbnail", "captured_at", "blob_id"}
                 [] g = "traceroute" -> {"probed_at"}
                 [] OTHER -> {}

Without(section, names) == [f \in DOMAIN section \ names |-> section[f]]

Sanitized(s) == [g \in Gatherers |-> Without(s[g], Volatile(g))]

HashForDedup(s, errs) == <<Sanitized(s), errs>>

-----------------------------------------------------------------------------
ScannerInit ==
    /\ running = Gatherers
    /\ answers = [g \in Gatherers |-> [value |-> Empty, err |-> None]]
    /\ sections = [g \in Gatherers |-> Empty]
    /\ errors = <<>>
    /\ finalized = FALSE

Returns(g, answer) ==
    /\ g \in running
    /\ running' = running \ {g}
    /\ answers' = [answers EXCEPT ![g] = answer]
    /\ UNCHANGED finalized

Succeed(g) ==
    \E value \in Maps :
        /\ Returns(g, [value |-> value, err |-> None])
        /\ sections' = [sections EXCEPT ![g] = value]
        /\ UNCHANGED errors

(* Part of an answer may come with the error.                              *)
Fail(g) ==
    \E value \in Maps, e \in Failures \ {None} :
        /\ Returns(g, [value |-> value, err |-> e])
        /\ errors' = Append(errors, [key |-> g, err |-> e])
        /\ sections' = IF DOMAIN value = {} THEN sections
                       ELSE [sections EXCEPT ![g] = mergeMap(@, value)]

(* After wg.Wait.                                                          *)
Finalize ==
    /\ running = {} /\ ~finalized
    /\ sections' = finalizeScanResult(sections)
    /\ finalized' = TRUE
    /\ UNCHANGED <<running, answers, errors>>

ScannerNext == (\E g \in Gatherers : Succeed(g) \/ Fail(g)) \/ Finalize

ScannerSpec == ScannerInit /\ [][ScannerNext]_scannerVars

-----------------------------------------------------------------------------
Failed == {g \in Gatherers : answers[g].err # None}

(* The errors of a scan are those of the gatherers that failed, each once, *)
(* whatever the order they came in.                                        *)
ErrorsListedOnce ==
    running = {} =>
        /\ \A i \in 1..Len(errors) :
               /\ errors[i].key \in Failed
               /\ errors[i].err = answers[errors[i].key].err
        /\ \A g \in Failed : \E i \in 1..Len(errors) : errors[i].key = g
        /\ \A i, j \in 1..Len(errors) : errors[i].key = errors[j].key => i = j

(* A scan in which at most one gatherer failed hashes the same whatever the*)
(* order of the answers and the volatile fields were: identical scans are  *)
(* recognised.  (With two failures the order of the errors counts.)        *)
Stable == [g \in Gatherers |-> Without(answers[g].value, Volatile(g))]

StableErrors ==
    IF Failed = {} THEN <<>>
    ELSE LET g == CHOOSE x \in Failed : TRUE IN <<[key |-> g, err |-> answers[g].err]>>

DedupStable ==
    finalized /\ (\A g, h \in Failed : g = h) =>
        HashForDedup(sections, errors) = <<finalizeScanResult(Stable), StableErrors>>
=============================================================================
