# A formal model of update-ipsets

update-ipsets is a daemon that downloads IP lists ("feeds") from hundreds of
sources, turns each into a canonical set, keeps its history and retention
ledgers, and publishes text files, binary sets, comparisons, entity pages and a
web site from them. This directory holds TLA+ modules of the parts of it whose
correctness depends on order, concurrency, failure or arithmetic, TLC
configurations that check them on small instances, and TLAPS proofs for every
instance.

Every definition is translated from the Go code; the file `PROJECT.json` maps each to
its lines, and lists the hazards with the line where each one bites and the
properties that cover it. Paths below are relative to `src/`.

## 1. Inventory of the system

| Component | State it keeps | Operations | Talks to | Modules |
|---|---|---|---|---|
| Fetch loop and download queue (`pkg/scheduler/download_loop.go`, `queue_admission.go`, `automatic_due.go`) | `download.waiting`, `download.active`, `refetchPending`, wake-up channel of capacity 1 | admit, merge, put aside, dispatch in order among feeds with settled inputs, finish, release | workers; action and processing loops | `DownloadQueue`, `QueueChoice` |
| Download worker (`pkg/engine/download_stage.go`, `feed_body_stage.go`) | raw file `<feed>.source`, staged body `<feed>.new` | fetch, rebuild, compare, stage, touch, decide who is processed | processing queue | `FeedHandoff` |
| Downloader (`pkg/downloader`) | reference dates | fetch over HTTP, from a file, from a provider inside the program | download worker | `Fetching` |
| Processing loop and queue (`pkg/scheduler/processing_loop.go`) | `processing.waiting`, `active`, `deferred`, wake-up channel | drain, mark active, run, promote archives, release or queue again, recover from a panic | engine run; download queue | `ProcessingQueue` |
| Engine run (`pkg/engine/run.go`, `run_pipeline.go`, `process.go`, `finalize.go`) | `<feed>.processing`, `<feed>.ipset`/`.netset`, `lib/<feed>/latest`, run lease | claim, parse, diff, write latest, commit, update ledgers, publish | work lane, cache, publication | `FeedHandoff`, `EngineRun` |
| Recovery at start (`pkg/scheduler/recovery.go`, `pkg/engine/download_recovery.go`) | the files of the previous process | claim staged bodies, queue feeds and artifacts | both queues | `FeedHandoff`, `DownloadQueue`, `SupportingDownloads` |
| Action loop (`pkg/scheduler/actions.go`) | channel of 64 actions | recheck, reprocess, run due, integrity recovery | both queues | `DownloadQueue`, `ProcessingQueue` |
| Next-due rules, feed health (`pkg/scheduler/snapshot_build.go`, `pkg/feedhealth`, `pkg/cache/entry_lifecycle.go`) | timestamps, streaks and failure counts of entries | cadence, retry delay, next wait, class of a feed | fetch loop, web | `FeedChecks` |
| Providers and archives (`pkg/engine/artifact_stage.go`, `download_queries.go`) | staged and promoted archives, materialized children | stage, fan out a wave of reprocesses, promote, materialize | processing queue | `SupportingDownloads` |
| History windows, merges (`pkg/engine/download_stage.go`, `merge_inputs.go`) | bodies kept by time; bodies composed of others | compose, stage | download queue | `Derivatives` |
| Retention and change ledgers (`pkg/engine/retention_update.go`, `finalize.go`) | cohorts of addresses per feed, change and retention rows | add, age out, rotate, repair | engine run | `Retention` |
| History ledger (`pkg/engine/runtime_ledger_cache.go`) | sums in the entry, in memory, in the public file | append, note, finalize, reload | engine run | `HistoryLedger` |
| Work lane (`pkg/engine/work_lane.go`) | queued, active and coalesced work, a limit | run, submit, try, resize, shut down | everything heavy | `WorkLane` |
| Cache persistence (`pkg/engine/cache_persistence*.go`, `pkg/cache`) | entries, one save in flight, one pending | hand over, save, wait, start, reload, repair | everything | `CachePersistence`, `CacheEntries` |
| Entity artifacts (`pkg/engine/entity_*.go`) | generations, pending and committed sidecars, details, pages, index, home page | coalesce, plan from a snapshot, publish if nothing was published meanwhile, check, repair, aggregate | work lane | `EntityRefresh`, `EntityDocuments` |
| Publication and web cache (`pkg/engine/web_batch.go`, `pkg/web/cache.go`) | staged and live files; bodies kept by path | stage, commit in order, remove stale files; serve | engine run, readers | `WebFiles` |
| Comparison of feeds (`pkg/engine/output_comparison*.go`) | published rows, pair ledger | compare updated feeds with all others, merge rows | engine run | `ComparisonRows` |
| Integrity (`pkg/engine/integrity*.go`, `pkg/web/integrity.go`) | cached findings, refresh queue, recovery plan | check, plan rechecks and reprocesses, cache | action loop, admin | `Integrity` |
| Configuration (`pkg/config/load.go`, `config.go`, `expand.go`, `dependents.go`, `validate*.go`) | catalog, dependency graph | merging of documents, validation, expansion of windows and merges, closure of dependents, cycle detection | everything | `Catalog`, `CatalogRules` |
| IP set algebra (`pkg/iprange`) | none, files | union, intersection, exclusion, difference, counts, filters, lookups, binary files, IPv6 | engine run | `AddressRanges`, `RangeStreams`, `MaterializedRanges`, `RangeFilter`, `RangeAlgorithms`, `IPSets`, `IPv6Sets`, `SetFiles` |
| Processors (`pkg/processor`) | none | pipelines over lines, tables, XML elements and archives, streamed or in memory | download worker | `Processors` |
| Evidence from providers (`pkg/asnloc`, `pkg/geoloc`, `pkg/engine/asn.go`, `bogons*.go`, `critical*.go`, `ip_context.go`) | tables of ASes and countries, public files per feed, databases open for lookups | load, attribute, count, compare with critical infrastructure, look up one address | engine run, web | `ProviderEvidence` |
| Kernel sets, telemetry, logging, command line, rendering of pages and answers | connections, rendered output | I/O | — | not modelled |

How they interact: the two scheduler loops, the action loop and up to
`parallel_downloads` workers share the two queues under one mutex (`stateMu`) and
wake each other through channels that hold one token. Downloads and processing
share *files*, without a lock: a feed may be downloaded while an older body of it
is being processed. The queues live in memory only, so a restart has to rebuild
them from what it finds on disk. Everything heavy (runs, entity refreshes,
repairs, scans) takes turns in one lane of a limited number of slots, but a run
publishes after it has left the lane.

What is hard, and what makes each part correct:

- **Hand-off of bodies**: both sides choose files by name and act on them later; a
  crash can fall between any two file operations; a body claimed by a failed batch
  is retried while newer ones are staged. Correct: bodies only move forward, nothing
  staged or claimed is forgotten, what readers see was served by the source, an
  "unchanged" verdict is right.
- **Download queue**: requests merge, are put aside while the feed downloads, and come
  back in a critical section of their own. Correct: none is lost or weakened, inputs
  come before what is composed of them, recovery comes before fetching, the loop never
  sleeps through work, and the item that starts does not depend on the order of a map.
- **Processing queue**: drain and mark-active are two critical sections, and success and
  failure are settled in two more; batches fail as a whole, in part, or panic. Correct:
  an admitted request is processed, a requested promotion stays with its feed, no
  wake-up is lost.
- **Work lane**: callers that give up, a limit that changes and a shutdown race with
  promotion from the queue. Correct: no slot idles while work waits, every caller is
  answered, a shut-down lane falls silent.
- **Cache**: a save is in flight while newer states are handed over. Correct: who was
  told that its state is saved finds it saved; the file never goes back.
- **Entity artifacts**: runs, refreshes and rebuilds stage from snapshots and publish
  later, a stale staging starts over. Correct: no older sidecar replaces a newer one;
  when nothing is queued, nothing is stale.
- **Retention**: four files are replaced one by one after the body. Correct: without
  failures the ledgers agree with the set; after any interruption the next update that
  removes something repairs the cohorts and their index, and what left a cohort is
  recorded. What an interrupted update was to *add* is lost to the ledgers (section 6).
- **Pure parts**: sweeps over sorted ranges with ends at which adding one wraps, carries
  between machine words, dates that mean "unknown", plans that depend on several options
  at a time. Correct: they agree with a definition over sets.

## 2. Modules

| Module | Models | Checked by |
|---|---|---|
| `FeedRegister` | abstract promise to the readers of a published feed: a version that was served, moving forward only | refined by `FeedHandoff` |
| `FeedHandoff`, `FeedHandoffProofs` | download worker, files, processing queue and batch of plain feeds, faults, crash, restart | `MCFeedHandoff` |
| `DownloadQueue`, `QueueChoice`, `DownloadQueueProofs` | download queue, fetch loop, workers, other loops, recovery at start; the scan that picks the next item | `MCDownloadQueue` |
| `ProcessingQueue`, `ProcessingQueueProofs` | processing queue and loop, failures, panics, promotions | itself |
| `WorkLane`, `WorkLaneProofs` | the lane: run, submit, try, coalescing, changing limit, cancellation, shutdown | itself |
| `CacheRegister` | abstract promise of the cache file: it only advances, to a state handed over | refined by `CachePersistence` |
| `CachePersistence`, `CachePersistenceProofs` | hand-over, worker, save in flight, direct run and daemon, end of the daemon | `MCCachePersistence` |
| `EntityRefresh`, `EntityRefreshProofs` | runs, refresh queue, rebuilds, generations, pending and committed sidecars | `MCEntityRefresh` |
| `Retention`, `RetentionProofs` | cohorts, change rows, retention rows and their cache, faults, crashes, repeated times | `MCRetention` |
| `AddressRanges`, `RangeStreams`, `MaterializedRanges`, `RangeFilter`, `RangeProofs` | the sweeps of the set algebra, one turn of the loop a step; materialized and counted results with read errors; the overlap filter | proofs |
| `RangeAlgorithms`, `IPSets`, `IPv6Sets`, `SetFiles` | lookups, counts and CIDR split; sets in memory; 128-bit numbers, counters and texts of IPv6; binary files, their readers and locks | `MCRetention` |
| `Processors`, `SupportingDownloads`, `ProviderEvidence` | pipelines over texts; waves of providers, archives and their children; what providers say of a feed and of an address | `MCRetention` |
| `CacheEntries`, `HistoryLedger`, `EntityDocuments` | entries at a start or reload; the sums over history rows; details, pages and index of countries and ASNs, their checks and repairs, the home page and the maintainers | `MCCachePersistence` |
| `EngineRun`, `ComparisonRows`, `WebFiles` | what a run publishes and the marker and lease around it; rows and pair ledger; publication file by file and the cache that serves them | `MCEntityRefresh` |
| `FeedChecks`, `Catalog`, `CatalogRules`, `Derivatives`, `Integrity`, `Fetching` | when a feed is checked, what a check makes of it and when its class changed; expansion and cycles; what a catalog may say; windows and merges; checks, recovery plans and their cache; what a fetch brings | `MCDownloadQueue` |

The operators marked "Faulty variant" are plausible bugs of the code. They are not
part of a specification; each property is known to fail when one of them replaces
the operator it follows.

Two styles. What interleaves is a specification with `Init` and `Next`. What one call
computes is an operator, and what it must guarantee is a named `ASSUME` over all small
inputs, which TLC evaluates in the run named in the last column; several of those
modules also explore the states of one feed, document or file by a fixpoint of sets of
reachable states (`HistoryLedger`, `Derivatives`, `SupportingDownloads`, `Integrity`,
`EntityDocuments`, `WebFiles`). Assumptions whose name says that something goes wrong
(`SameSizeForgotten`, `OrphansStay`, ...) state the existence of a case in which the
code does not do what one would expect; section 6 lists them.

### 2.1 FeedHandoff

A body is the *version* of the upstream content it was made from, `None` (no file) or
`Blank` (an empty file made up by a touch). Versions with equal canonical sets have
equal `Content`, because the code compares bodies semantically
(`feed_body_stage.go:122`). State and code:

| Variable | Code |
|---|---|
| `raw`, `staged`, `claimed`, `committed`, `latest` | `<feed>.source`, `.new`, `.processing`, `.ipset`/`.netset`, `lib/<feed>/latest` |
| `dpc`, `dpath`, `admit` | the worker: its position in `FetchAndStage`, the path it chose by name, whether its decision names the feed |
| `handing` | between `finishDownload` and `enqueueProcessing` in `runDownload` |
| `waiting`, `active`, `deferred` | `r.processing` |
| `batch`, `items`, `ppc`, `psrc`, `parsed` | `runQueuedProcessing` and `RunOnce` |

Every file operation is a step, in the order of the code: `StatusOK` replaces the raw
file *before* the body is prepared, compared and staged; the staged file is removed
before its successor is written; `touchFileAt` looks at a file and then stamps or
creates it; a claim prefers `.processing` to `.new` to the committed body; `latest` is
written before the committed text, and the claimed file goes last. Each step has a
failure. Bodies are the same when their lines are, comments left aside; feeds stay
enabled (the skip of `process.go:98-101` is left out). A crash forgets everything but the files; `Recover` claims staged bodies and
queues each feed once.

Abstractions: the feed's slot in the download queue (one worker per feed is what
`DownloadQueue` guarantees, up to the instant between `finishDownload` and the
worker's return, bounded by `handing`); the history and retention ledgers
(`Complete`); publication (`Publish`); a recomputed body is the body of the raw file.
An automatic fetch never runs on content older than what the raw file holds: sources
serve versions in order, and content that *returns* is a new version with old content.
A body is parsed in one step.

`races` counts how often the processing loop moves or removes a body while a worker is
about to touch it. This is what the code permits and what invalidates several
promises; bounding it apart from crashes and faults lets the properties say exactly
when they hold. `MaxRaces = 0` means the unlucky interleaving does not happen, not
that the code prevents it.

### 2.2 DownloadQueue and QueueChoice

Each critical section of `stateMu` is a step; between them a finished worker has yet
to enqueue, release, or wake (`tail`), and other loops have yet to wake (`wakers`).
Items keep the kind (recovered or normal) and whether processing is forced. Which
feeds are due, and which of the feeds that may start is chosen, are left open: the
properties hold whatever the cadence and the order. `QueueAssumption` says that
every nonempty set of names has a member without an input in the set, which is what
`Catalog` finds of every catalog that loads (`RefusedForCause`).
`owed` and `unrecovered` are history variables; a recovery that was tried counts, and one
that fails for another reason than corruption is only logged (`download_loop.go:93-102`).
`QueueChoice` is the scan itself: a map
is visited in any order, keeping the best item by `queuedWorkBefore`.

### 2.3 ProcessingQueue

An item is `plain` or asks for a promotion (`Promote`). The loop's positions are those
between its critical sections: drain, mark active, run, finish the feeds that
succeeded, finish those that failed, wake itself, refresh entities. A run ends with a
report that names any subset as failed, with an error, or with a panic; the refresh
may panic after everything was released, and the whole batch is queued again then.
`RequestWave` queues without a wake-up (`enqueueProviderDefaultsReprocess`).
`owed`, `fresh` and `wanted` are history variables.

### 2.4 WorkLane and CachePersistence

`WorkLane`: an item is a caller of `Run`, `Submit` or `TryRun`; what happens between a
slot being handed over and the caller noticing is explicit, and so is the context that
ends at that moment. The limit may change at any time. `CachePersistence`: a snapshot
is the number of the run it was taken after; the worker saves the newest it was handed,
and each hand-over, save, answer and stop is a step.

### 2.5 EntityRefresh

A sidecar is the version of the feed it was computed from. `lane` is the engine lane as
far as these items use it, `wanted`, `running` and `parity` are the refresh queue with
its two alternating coalescing keys, `loop` is the processing loop with its run, `task`
what each refresh or rebuild has staged, `stale` the stagings whose generation has been
overtaken. `lost` is a history variable: the feeds of a refresh that was given up after
three stale stagings, or all feeds if it was a rebuild, until a publication brings them
up to date. Every feed is entity-eligible, and the health-transition requests of the
refresh queue are left out.

### 2.6 Retention

Addresses are elements of a set, a time is a number; a body is a set of addresses. An
update writes `latest`, commits, and then writes each ledger file in the order of the
code; a fault or crash may fall before each. `repeats` bounds how often two bodies bear
the same second, which is when a cohort file is overwritten.

### 2.7 Ranges

`RangeStreams` is one turn of the loop of each sweep over pulled iterators; the last
address is a parameter, so IPv4 and IPv6 are two instances. A union of one source passes
its ranges on as they are (`UnionPass`), which may touch; several are merged.
`MaterializedRanges` puts the collecting and counting callers on top and lets a read by
index fail half way. Intersection, exclusion and union then return an error. The
difference does not: `diffIndexedIter` stops and drops what it held back (`DiffStops`), and
`CountIterContext` returns the total so far as a success. Only tests call `DiffIter`.
A set made of a single source takes the count that source has of its own (`Stored`).
Sources that are not read by index, whose failure looks like their end, are left out.
`RangeFilter` builds the prefix evidence in one pass, changing from fine to coarse prefixes in
the middle.

## 3. Runs

| Run | Bounds | Shows |
|---|---|---|
| `handoff_safety` | 1 feed, 3 versions (the third has the content of the first), 2 faults, 1 crash, no race | all safety properties, the two action properties and the refinement of `FeedRegister` |
| `handoff_live` | 1 feed, 2 versions, 1 fault, 1 race | `ClaimedIsCommitted`, and `UpToDate` on the behaviours without a fault or race |
| `handoff_orphan`, `handoff_blank`, `handoff_unchanged` | 1 feed, 2 versions, 1 crash / race / fault | findings of section 6 |
| `download_queue` | two names, one composed of the other, 2 workers | safety, `InputsFirst`, `Served`; and the functions of `FeedChecks`, `Catalog`, `CatalogRules`, `Derivatives`, `Integrity`, `Fetching` |
| `processing_queue` | 2 feeds, 2 requesters, unbounded requests, failures and panics | safety, `Served` |
| `work_lane` | 3 items, 1 key, limit at most 2 | safety, `Settles` |
| `cache_persistence` | 3 runs, 3 workers | `ToldIsSaved`, the refinement of `CacheRegister` (`OnlyAdvances`), `Returns`; and `CacheEntries`, `HistoryLedger`, `EntityDocuments` |
| `entity_refresh` | 2 feeds, 2 versions, batches of 1, 2 slots, symmetric feeds | `NothingStale`, `NeverOlder`; and `EngineRun`, `ComparisonRows`, `WebFiles` |
| `entity_deferred` | 1 feed, 1 slot | a finding of section 6 |
| `retention` | 2 addresses (symmetric), 3 times, 1 fault, 1 repeated time | `LedgersAgree`, `Heals`, `RemovalsRecorded`; and `RangeAlgorithms`, `IPSets`, `IPv6Sets`, `SetFiles`, `Processors`, `SupportingDownloads`, `ProviderEvidence` |

Why the bounds are enough. Feeds of the hand-off share no file, and what they share —
the batch — is exercised with two feeds in `processing_queue`, where partial failure
needs them. Three versions are what it takes for one body to be committed, one
claimed and one staged; the third returning to the first's content is the one case
in which content and version disagree. Two faults let a batch fail, be retried behind a
newer staged body, and something else fail; a crash at any step of that is included. In
`download_queue`, two names give every state of waiting / active / put aside for an
input and what is composed from it, and a second worker lets both loops race;
requests are unbounded. Three items in the lane are one active, one queued and one that
coalesces or arrives, with a limit that grows and shrinks around them. Three saves are one
on disk, one in flight and one pending. Two feeds of the entity artifacts are one in a batch
and one in a refresh meanwhile. Two addresses are one that stays and one that leaves, three
times a cohort, its successor and one that repeats. The proofs remove the bounds for the
safety properties; where two feeds were too few they showed it (section 4, `EntityRefresh`).

Bounds of the pure modules: `FeedChecks` 4 checks in a row with thresholds of a few minutes;
`Catalog` 3 base names, one window, two merges; `CatalogRules` sources that take or break each rule on its own or in pairs, catalogs of up to three; `Derivatives` 6 seconds, windows of 2 and 4,
two bodies, three fetches in any order, merges of two additive and one subtractive input of
2 addresses; `Integrity` 5 feeds and 3 rounds from every state, 2 callers of the cache;
`Fetching` sizes 0 to 4, commands of 3 words, 3 seconds; `CacheEntries` dates -1, 0, 1, 2
and 9; `HistoryLedger` 3 dates, 2 sizes, charts of 2 rows; `EntityDocuments` 2 feeds and
2 actors, a crash at every step, and 3 feeds of 2 categories on the home page; `EngineRun` 8 sources, one for each role, and all
combinations of option, drift and batch; `ComparisonRows` 3 feeds, 3 bodies of 2 addresses,
2 faulty runs; `WebFiles` 2 paths to publish, 3 to serve; sets of 3-bit addresses (texts of
IPv6 4 bits, its 128-bit numbers as pairs of 8-bit words), files of 2 records; `Processors`
texts of 3 tokens (5 for addresses) and pipelines of up to 5 steps; `SupportingDownloads`
2 feeds, 3 versions, 1 failure, 1 crash; `ProviderEvidence` 8 addresses, 2 ASes, up to 3 rows of a
table, 2 countries, 3 providers, and 2 callers, 2 versions of the file and 1 publication for the
databases kept open. In each the smallest case that shows every
branch fits, and the whole space of inputs inside the bound is enumerated.

The safety properties of the hand-off that assume calm (`StagedNotForgotten`,
`UnchangedInCalm`), a daemon that runs without faults or races but with crashes
(`ClaimedNotForgotten`), or no race (`NewestKept`) do so because without that
assumption the code violates them: section 6.

**Fairness.** `FeedHandoff`: a feed becomes due again and again (its cadence), a
worker and a batch that run go on (they block on no lock held by the other side; every
fetch and every command has a timeout), a stopped daemon is restarted by systemd. The
batch's steps have strong fairness because the bound on races disables a claim for as
long as a worker stands before a touch; in the code the claim is just not blocked.
Faults, crashes, rechecks and new content are not assumed. `DownloadQueue`: loop and
workers go on; strong fairness of `Start` stands for the order among feeds that
may start; the timer is *not* assumed to fire. `ProcessingQueue`: the loop and the
wake-ups; the timer only in the hypothesis of `Served`, because retries and provider
waves rely on it in the code (`finishProcessing` reports only deferred requests).
`WorkLane`: only `Execute`, that is, callbacks return and callers who were told go on.
`CachePersistence`: the goroutines of a run and of the worker go on. `EntityRefresh` and
`Retention` state safety only and assume nothing.

Deadlock is checked wherever the cfg does not say that the system may stop.

## 4. Proofs

For every value of the constants that satisfies the named assumptions. `PROJECT.json` lists
the theorems; each module of proofs states first what the steps do to the helpers, then the
parts of the inductive invariant, then the theorems.

**FeedHandoff.** `TypeOK` is inductive. `BodyOrder` (committed ≤ claimed ≤ staged ≤
raw ≤ upstream, as far as they exist) is inductive relative to it, even with races:
`OrderKept`. A commit copies the claimed body, or rewrites the committed one, so
`NeverBackwards` follows. `Aligned` is the strengthening behind `LatestBacked` and
`NoInventedBody`: it adds what the batch knows between claim and removal (`parsed` is
the body in the file, `latest` equals it, `committed` equals it) and that the file a
worker is about to touch exists. It is inductive while no race happens, so the theorems
are `Spec => [](races = 0 => ...)`; `RacesGrow` supplies that races are never undone.
`NewestIsKept` uses both: a body is removed only when it is committed, or by the
worker that is about to write a newer one. `Refinement`, under `MaxRaces = 0`, shows that
every step is an `Advance` or `Serve` of `FeedRegister` or changes nothing it sees.
`ClaimedNeverForgotten`, which admits crashes, rests on `BatchShape` (which feeds are at work at
each position of the batch) and on `ClaimsFirst` (a batch that reads the committed body found no
claimed one). `StagedNeverForgotten` and `UnchangedIsRight` are parts of `Serene`, what holds
until the first fault, race or crash: a claimed body is in the hands of the batch, a staged one is
attended, and some local body is the newest one and equivalent to the raw file, except while a
worker is between its fetch and the staging of what it fetched.

**DownloadQueue, QueueChoice.** `Inv` is the conjunction of the invariants and `Disjoint` (a feed
that waits is not being downloaded), without which a start could overwrite recovered work in
`active`. `EnqueueKeeps` and `ReleaseKeeps` state what the two queue operations preserve.
`InputsComeFirst` needs `QueueAssumption`: in an acyclic graph some waiting feed has
no waiting input, so the branch that breaks cycles is never taken. `BeforeIsAnOrder`,
`MergeKeepsPlace` and `ChoiceIsUnique`: the comparison of queued items is strict and total,
merging moves no item back, and every order of the scan ends with the same item.

**ProcessingQueue.** The invariants are strengthened by `BatchShape` (what is active and
failed at each position of the loop) and `WakeShape` (fresh requests imply a token, a
requester about to wake, a release the loop will announce, or a loop about to look).

**WorkLane.** `Inv` relates each item's position to the queue, to the active set, to the
key it owns and to the answer it was given. `NoIdleSlot`, `KeysMatch`, `EveryCallerAnswered`
and `QuietAfterShutdown` follow from it.

**CachePersistence.** At most one worker is not over; what it holds is newer than the file and
older than the next snapshot; the snapshot a direct run waits for is the last one the
worker accepted. `SavedStaysSaved` follows, and `Refinement`: every step is an `Advance` of
`CacheRegister` or changes nothing it sees.

**Retention.** `Base` says that the body an update works on stays the one to be processed, and which
files belong to it at each position; `Healed` that the cohorts the update is done with are right,
which gives `UpdatesRepair` even after faults. `Recorded` bounds what left each cohort by the rows
written, while no time comes back: `NothingUnrecorded`. `Agreed` relates cohorts, the last change
row, and the counts in memory and in the index file at each position of an update without
faults: `LedgersStayTrue`.

**EntityRefresh.** `TypeCorrect` rests on `Shape`: whoever works on a refresh or rebuild holds a
place in the lane, no item is in it twice (`AppendKeeps`, `WithoutKeeps`, `SubmittedKeeps`), and
the bounds on waves and attempts hold. `NeverBackwards` rests on `Order`: committed ≤ pending ≤
published, a plan is not newer than what is published, and one that may still be published is not
older than what is committed; who publishes makes every other plan stale (`PublishingStales`).
`NothingStaleInQuiet` rests on `Attendance`: a sidecar at risk (pending, stale, or about to be made
stale by a plan that may still be published) is wanted, or in the hands of the run, or a task is
responsible for it that will not itself publish the old one, or is not the only one. It needs
`Deferral`, the relation between runs and rebuilds: an old pending sidecar is left to a run in
progress or to a rebuild, and a run that may still publish is never overtaken by a rebuild.
When the lane is empty nobody is responsible, so nothing is at risk.

The attempt to prove `NothingStale` failed first, for a good reason: see section 6. Two feeds
do not show it, and TLC with three feeds and one attempt does.

**Ranges.** For each sweep of `RangeStreams` the invariant is that what was yielded, what is
pending and what the operation makes of the rest are together what it makes of the
whole, in order and apart from each other. The hypotheses on the inputs (sorted, disjoint,
no address beyond the last) are inside the theorems; no run is needed, since the proofs cover all
instances. `UnionCorrect` has two invariants, one for a single input, whose ranges stay as they are
and may touch, and one for inputs that are merged, which `OptimizeCorrect` shares. `...Counted`
add that the number `MaterializedRanges` accumulates is the cardinality of
the result, from a refinement of `RangeStreams`: of every result without an error, except that the
difference of sources whose reads fail is only a beginning, every address of it right and
counted once, and that a single source brings a count that is believed. `FilterCorrect` and
`FilterDisjointSound`: whatever the moment at which the evidence changes its form, "disjoint" is
never said of sets that share an address.

Only model-checked: the liveness properties (`UpToDate`, `ClaimedIsCommitted`, `Served`,
`Settles`, `Returns`), because fairness and `ENABLED` are out of the prover's reach;
and the assumptions of the pure modules, which are defined by
recursion over their data, whose induction the provers cannot do.

## 5. Not modelled, and plan

Not modelled, by component: configuration reload and shutdown of the scheduler (both
cancel or swap state under the same locks); the bounded action channel; the import of the legacy shell cache and the status texts;
the caches of latest sets and of queries; histograms, `retention.json` and the past-counts
cache; the rotation summary and provider entries of feed health; regular
expressions, quoting and markup of texts, corrupt archives; YAML and the syntax of single fields
of the configuration; names of ASes and percentages in evidence; health-transition requests of the
entity refresh queue; kernel sets; site map, web handlers, markdown and MCP rendering; telemetry,
logging, command line. They are I/O, formatting, or repeat a structure that is modelled.

Next: the cache of latest sets and its lookups; the action channel composed with the two
queues; the liveness of the entity refresh queue; proofs that the indexed sweeps follow the
pulled ones.

## 6. What disagrees with the documentation

Four runs expect a violation.

- `handoff_orphan`: after a restart a claimed body and a newer staged one share one
  queue entry. The batch commits the claimed one; nobody is left to process the newer
  one until the source changes again or the next restart. `.agents/sow/specs/pipeline.md:887`
  promises that no work is lost.
- `handoff_blank`: `touchFileAt` creates the file it was to stamp, if the processing
  loop moved it away meanwhile. The next batch commits an empty feed, and
  `docs/pipeline/pipeline-overview.md:62` says a `.new` is a complete body.
- `handoff_unchanged`: the raw file is replaced before the body is staged, so after a
  failure in between the next fetch finds "same" and clears the failure;
  `docs/pipeline/download-lifecycle.md:23` says that `same` is relative to the current
  local version.
- `entity_deferred`: a body that is processed again builds the sidecar it has committed,
  leaves nothing pending, and is refreshed all the same (a run without targets asks for all
  updated feeds, `processing_loop.go:123`); the refresh takes the missing pending sidecar for
  a removal. Quoted in `PROJECT.json`.

Noticed while modelling, without a run of their own. Names in parentheses are assumptions
that TLC evaluates.

*Hand-off and queues.* A crash between the removal of a staged body and the rename of its
successor loses it (`feed_body_stage.go:56`; `NewestKept` exempts that one step). A merge
replaces the reason of a waiting request, so a reprocess can run as an ordinary one
(`queue_admission.go:39`). Two callers give `Run` a coalescing key no `Submit` uses
(`stale_publish_stages.go:57-64`, `metadata.go:41-60`).

*Entity artifacts.* A full rebuild given up after three stale stagings
(`entity_artifact_publish.go:128-153`) can leave the committed sidecar of a feed at an older
version with nothing left to repair it, when a run that deferred to the rebuild
(`run_pipeline.go:326-349`) left an older pending sidecar that a refresh promoted
meanwhile. It takes three feeds; a proof attempt found it, and `NothingStale` now
counts the feeds of such a rebuild as lost. With two lane slots a refresh request can be stranded
(`entity_refresh_queue.go:246` against `:124`). In `EntityDocuments`: documents of actors
that nobody names stay (`OrphansStay`); a sidecar that cannot be read is found, but no repair short of
a full rebuild gets past it (`BadSidecarStuck`, `entity_feed_sidecar_build.go:278-289`); a page older than its
private detail is only touched, and looks current afterwards (`TouchHidesStale`,
`entity_artifact_selected_repair.go:115-128`); a crash in a refresh leaves pages and index rows that
no check finds (`CrashHidden`); one missing private detail keeps all pages that mention
a feed from being rendered again when its health changes (`HealthAllOrNothing`).

*Engine run.* A reference of critical infrastructure that is added to the catalog gets no countries, networks
or bogons of its own until it changes again (`ReferenceLeftBehind`); the setting
`skip_comparison_if_no_updates` changes nothing a run does (`SkippingIsMoot`,
`run_pipeline.go:154-166`); a reload that takes the configuration back after a publication broke off
hides what that publication wrote (`BackAgainUnseen`); what was committed before a crash
stays unpublished until its feed is processed again (`CrashStaysStale`); a call can be refused by a run
that has left its only slot and still publishes (`RefusedByPublication`).

*Files and caches.* A published file with the same time and size as the one it replaces is
served from the cache, and answered with 304 (`SameStampStale`, `output_comparison.go:609-632`,
`surface_routes.go:140-150`). A pair of feeds that a run could not compare is no
pair of the next run, and its rows stay wrong until one of the two is updated (`MissedStays`,
`output_comparison.go:228-231`). After a reload between staging and processing, a body of the size of the
one before looks as if it was counted already (`SameSizeForgotten`, `download_stage.go:483,548,599`), and the row
before it can stay out of the public history (`RowNeverShown`); dates that go backwards split a chart
(`BackwardsSplits`, `runtime_ledger_loaders.go:145-152`). Entries made again from disk do not
remember an empty body (`EmptyIsForgotten`) or a recovery (`RecoveryForgotten`,
`legacy_failure_bootstrap.go:29-48`), and a reload replaces an entry a worker holds
(`ReplacedUnderWorker`, `bootstrap_entries.go:54,69`).

*Retention.* The first update's counts include the new cohort already
(`retention_update.go:268-273`; `files-layout.md:464-465`); a failure between `WriteLatest` and
the ledgers breaks the partition until the next update, and the addresses it should have added stay
without a cohort, which no property states (`LedgersAgree` speaks of calm, `Heals` of removals) (`files-layout.md:441-442`); a retry
writes a second row to `history.csv`.

*Checks and integrity.* A retry delay above a month is 43200 minutes or the cadence, depending on
where doubling stopped (`snapshot_build.go:296-323`); a feed long unchanged is archived by its
first failed check (`feedhealth.go:198-221` against `docs/feeds/feed-visibility-lifecycle.md:74`);
`missing_env` records no start of failure (`entry_lifecycle.go:341`); composed feeds clear the
failure streak before the snapshot is appended (`download_stage.go:376-384`). A mark that
arrives during a check is lost (`MarkIsLost`, `integrity_cache.go:469`); a late note sticks
(`LateNoteSticks`); the admin's recovery reprocesses less than the one at startup
(`AdminReprocessesLess`); a corrupt snapshot in a window is kept by the recheck that was to mend it (`CorruptStays`,
`feed_body_stage.go:310-316`); a merge with a disabled subtractive input is recovered in vain at every
check (`DisabledExcludeStays`, `integrity_recovery.go:98-123`).

*Composed feeds and archives.* A parent served unchanged under new times leaves no snapshots, so that its windows
lose at once what it listed until its body changes (`StayersForgotten`,
`download_stage.go:205-219,597-612`); a source time that goes back loses what was observed
(`BackwardsForgets`); a disabled subtractive input fails its merge. Merges' history windows of
merges are refused as unknown (`validate.go:208-228`); synthetic sources are injected after the
cycle check (`expand.go:301-304`). A provider of networks that is replaced while its
wave runs leaves feeds with the older one (`HastyASNStays`, `asn_provider_processing.go:87-110`),
a crash forgets a wave (`CrashForgets`, `download_queries.go:62-93`), and a child whose staging
failed waits for a restart (`ChildStranded`, `artifact_stage.go:217-248`).

*Configuration.* Critical infrastructure may declare history windows although
`docs/feeds/history-derivatives.md:72` forbids it: the windows are expanded and emptied before validation looks
(`WindowsAccepted`, `config.go:647`), and the rules for merges are likewise never applied to a
loaded catalog (`MergeRulesSurvive`).

*Evidence from providers.* A current file of a provider is deleted when its name ends like a file of critical
infrastructure or reads as another feed's (`DeletesOnlyStale`), and the file of a
dropped provider stays when a longer public name begins it (`DeletesStale`). The identity of the set of providers
ignores what a merge is made of (`IdentityTells`). Two zones of one country do not add
up, the last one wins (`LastZoneCounts`). The key of the country cache is time XOR size, which two files may share
(`NeverStale` assumes that it tells them apart). A feed whose set cannot be opened loses its tiers of overlap while
its files stay (`OverlapTiers`).

*Home page and classes.* The home page can spell and link a maintainer as its first category does, the index as
the first feed does (`MaintainersAgree`). A page rendered before a feed became "delayed", or before its
grace ended, is not found stale (`TransitionFound`, `entity_integrity_refs.go:258-293` against
`feedhealth.go:230`).

*Texts.* A limited reader of compressed bodies can refuse one of exactly the limit
(`LimitHolds`); `filter_net4` lets IPv6 networks through (`FamiliesKept`); an XML element is also found inside longer
tags (`ElementsFound`); `csv_column` is strict in memory, lenient and blind to `#` rows in a stream
(`ColumnsAlike`). Of addresses one character apart every other one is lost (`FoundInText`, `processor.go:21,36-41`);
some pipelines differ between stream and memory (`SomeDiffer`). Options joined with their value
are ignored by the downloader (`JoinedHeaderIgnored`). A reversed range aborts a whole
text (`parse.go:202-204`) and host names with hyphens are dropped (`parse.go:190-199`).

*Sets.* The whole IPv6 space counts as 0 (`Range6.Size` wraps); an IPv4 token with a prefix above 32 is read
as a prefix of the mapped address in IPv6 mode; `mulHi64` (`range6.go:323-331`) drops a
carry, so some decimals are read wrongly and an overflow goes unseen (`ParsedWrongly`, `OverflowUnseen`);
a failed read by index shortens a result, which callers learn only from `Err`
(`ShortenedSilently`). A wrong count in a header is believed, so that sets of equal
addresses compare different (`TrustAndCountsMislead`), and a failed probe followed by a good read
answers "contains" with `Err` set (`FailedReadsMislead`, `fileset.go:605-624`). A set file of no
bytes is refused by `ReadBinary` and opened as empty. A set whose first range is larger than a /11
never gets coarse evidence (`range_source.go:353`). A union of one indexed source passes its
ranges on uncoalesced, with the count of its header (`materialize.go:307-329`); touching ranges are
accepted in a file (`fileset_validate.go:18`). The difference of two sources that cannot be
read to the end loses the range it held back, and `CountIterContext` reports what was counted so
far without an error (`iter_ops_indexed.go:67-69`, `range_source.go:113-127`); only tests call `DiffIter`.
