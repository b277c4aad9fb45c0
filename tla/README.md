# Verification of StockResearchAgents

TLA+ models of what StockResearchAgents owns: the lifecycle of an analytics
run, the stores that keep and publish its result, the viewer and the exports
that serve it, and the checks that decide which evidence may enter a result
and how forecasts are scored afterwards. TLC checks the models on small
instances; TLAPS proves the run record, its harness, the publication saga with
its readers, the result store, the viewer, the export, the gate before a state
root and the research history for every size.

The repository delegates the research itself to a caller (a language model
harness, the CLI, MCP clients). What it owns is durable state that several
processes change at once, and rules over time: no document, metric or retained
observation that became available after a cutoff may stand behind a claim.
That is where its hard behaviours lie.
Paths below are relative to `src/src/stock_research_agents/` unless they say
otherwise; `host/` stands for `src/src/stock_research_agents_host/`.

## Inventory

| Component | State | Operations | Hard behaviours | What makes it correct |
|---|---|---|---|---|
| `lifecycle.py` LifecycleRecordV1, LifecycleStore | one row per run: revision and JSON record | create, get, update (mutation under lock and transaction, whole record validated) | concurrent updates of one revision, failed transactions | no lost update, a revision names one record |
| `company_lifecycle.py` CompanyAnalyticsCoordinator | none of its own | create, start, append_receipts, commit_stage, pause, resume, request_cancel, acknowledge_cancel, fail, finalize, control, poll_events | commit_stage and finalize read outside the lock and write later | append-only commitments in order, unique attempts, attested outputs, no progress after a stop |
| `company_lifecycle.py` CompletedPublicationSaga | none; local record of the call | publish, resumable | eleven steps over four stores, failure between any two, two finalizers | all or nothing for readers, eventually all |
| `publication.py`, `company_analytics.py` direct import | none | publish | check, then act, on a shared result identifier | nothing missing, no deadlock with a saga |
| `store.py` RunStore | bundles/, staged/, results, events, current pointer, recovery intent, a cache per process | stage, publish_staged, put, put_events, append_event, get_* | multi-file put, crash between files, stale caches, readers without the lock | a put takes effect at once and for good, a pair is of one publication |
| `state_write_lock.py` | lock file, holds per thread | enter, leave, fork | reentrancy, threads that share a descriptor, deaths | mutual exclusion, release at depth zero |
| `bootstrap.py`, `state_migrations.py` | manifest, backups | plan, ensure, migrate | no lock: other starts, a migration and running programs change what was validated; runs before recovery | adopted only whole, validated and with a backup; whoever retries gets in |
| `company_lifecycle.py`, `application.py` gate and queries | none | require_completed_publication, get | reads of several stores, no common lock | pending publications stay hidden |
| `research_quality_v1/` store, scoring, cohorts | registrations, staged registrations, outcomes, scorecards | stage/publish_registration, append_outcome, projection, evaluate | two files for an outcome, corrections, boundaries of bins | immutable registrations, a loadable journal, no leak into a cohort |
| `memory.py` ResearchHistoryRepository | decisions, outcomes (SQLite) | stage, publish, append_outcome, recall | visibility, cutoffs, limits | the newest visible decisions, nothing from after the cutoff |
| `research_contracts.py`, `research_conformance.py` | none | validate a submission, report on a dossier | references between parts, instants along chains of calculations, tolerances and roundings applied twice | evidence precedes the cutoff, metrics follow from their inputs |
| `host/source_portfolio.py`, `host/source_router.py` | none | collect, route, cluster | provider order, partial failures, limits | clusters do not depend on the order, the status matches the attempts |
| `host/adapters/` public providers, browser host | none | fetch: typed query, transport with retries, selection, bounds, status | pages, files and rows that fail, retries, redirects | an answer that calls itself complete omits nothing |
| `presentation.py`, `viewer_daemon.py` | registry, lease, daemon | ensure, stop, serve | two starters, builds, old daemon cleaning up, timeouts | one viewer that can be found, every caller answered |
| `export.py` | target, staging and backup directories, overwrite journal | export_run_bundle with recovery | two renames, no lock, calls that recover from each other, a check apart from the removal it allows | what was delivered survives, other data is left alone |
| `harness.py` | none; local stage, context and revision | create or pick up, execute, commit, finalize | interruption anywhere, other callers, two reads in next_stage | outputs were executed on what is committed, a harness run again completes |
| `cli.py`, `mcp_server.py`, `viewer_server.py`, `host/research_data_mcp.py` | none | argument parsing, JSON | none of their own | callers of the above |
| `analytics_v1/`, reports, views, manifests, schemas | none | decimal arithmetic, projections, data | numeric data | outside this project |

How they interact: CLI, MCP server, viewer and harness call the coordinator and
the gate. The coordinator writes the record through LifecycleStore.update with
the revision its caller named. finalize moves the record to `finalizing`,
stages the result, the quality registration and the decision, completes the
record, and publishes the three; control derives from the four stores whether
that is still pending, and the gate and poll_events ask control. A direct
import writes the result and quality stores and no record. Every store writes
under the state write lock. Before a run its host recalls earlier decisions
and collects sources through the portfolio, whose routes are the adapters; the
submission is validated by the contracts; after publication outcomes are
recorded in the quality store and in memory. The viewer and the export read
completed runs through the gate.

## Modules

| Module | Models |
|---|---|
| `LifecycleRecord` | the record, its validation, and each mutation as a guard and a new record |
| `RunControl` | one run under concurrent callers: every operation that changes the record |
| `SequentialHarness` | on RunControl: harnesses that create or pick up the run, execute stages and finalize |
| `StageLedger` | abstract: an append-only ledger of commitments, sealed when full |
| `PublicationSaga` | finalize step by step over the record and the three other stores, with direct imports, failures and concurrent finalizers |
| `AtomicPublication` | abstract: a sealed run becomes visible in one step, for good, and in the end |
| `PublicationReaders` | PublicationSaga with readers that go through the gate and pollers of events |
| `WriteLock` | state_write_lock: gate, flock, nesting, exceptions, deaths |
| `RunStore` | on WriteLock: the files of the result store, the cache of each process, writers and readers file by file, recovery; the validation at startup |
| `AtomicStore` | abstract: publications that change in one step and are never lost |
| `StateSchema` | the gate before a state root: plan, first manifest, migration with backup, and the programs let in |
| `ViewerDaemon` | presenters, stops and detached daemons over the registry, its lock and the lease |
| `BundleExport` | exports to one target with the overwrite journal and its recovery |
| `Instants` | instants and dates |
| `SourcePortfolio` | one collection: attempts, status, coverage gaps, clusters, receipt |
| `PublicSources`, `ChromeSource` | the public adapters and the browser host: what an answer is made of |
| `ResearchDossier`, `ResearchConformance` | what a submission must satisfy, and what the conformance checks report |
| `ForecastQuality` | forecasts, journals of observations, scores, cohorts |
| `DecisionRecall` | recall of earlier decisions at a cutoff |
| `ResearchHistory` | composes the eight modules from `Instants` on with the quality store and the decision memory, run beside run |
| `LifecycleRecordProofs`, `RunControlProofs` (with the harness), `PublicationProofs`, `RunStoreProofs`, `ViewerDaemonProofs`, `BundleExportProofs`, `StateSchemaProofs`, `ResearchHistoryProofs` | proofs |
| `MC*` | instances for TLC |

### LifecycleRecord and RunControl

A stage is its ordinal, an envelope is a digest, and the run identifier of a
result, a hash of the content of the submission, is the content it is derived
from: the list of commitments. `ValidRecord` conjoins the checks of
`from_mapping` that relate fields; checks of one field (identifiers, texts,
timestamps, sizes) and fields that a mutation always writes together with the
status are left out. The event log is contiguous by validation, so its length
stands for it.

`update` holds a process lock and a transaction from the revision check to the
commit: an operation that reads nothing beforehand is one action, and a failed
one changes nothing. `commit_stage` reads the record, computes the commitment
and the list of commitments it will write, and calls update with the revision
its caller named, which may be later than the one it read. The actions
`ReadForCommit` and `CommitStage` keep that apart. `ReadForFinalize` and four
update steps do the same for finalize, each against the revision the previous
step returned. Any call in flight can be dropped (`Leave`: return, exception,
death). The memory receipts are flags of the record.

### SequentialHarness

A harness holds what `next_stage` told it. That call reads the record for the
stage, the attempt and the context (`ReadStage`), and again for the revision
(`ReadControl`) the harness will name; `commit_stage` reads a third time
(`Execute`, with RunControl's `ReadForCommit`) before its update (`Commit`).
Entering, committing and finalizing are RunControl's own updates, so what they
refuse is what the coordinator refuses, and a refused call ends the harness
(`Raise`). One harness, the `Keeper`, is run again whenever it raised. Deaths,
other harnesses of the run and other callers (pauses, receipts,
cancellations) are counted by `MaxInterruptions`. `contexts` is history: the
outputs each committed stage was executed on. Of the saga only the updates of
the record are here.

### PublicationSaga and PublicationReaders

Every call of the saga to a store is an action, for each store operation holds
a lock or a transaction. The stores map a result to the origin of its bundle
(a run, or `Import`), to the visibility of its quality registration, and of
its decision. `PublishBundle` leaves the staged file when it cannot be
unlinked. `FailFinalize` and `FailImport` drop a call at any step: an
exception and a death look the same to the stores, and finalize and import are
called again. Runs may share their content, and so their result identifier.
Runs start with every stage committed, as RunControl leaves them, each stage
at its first attempt. That the files inside one store operation may be taken
as one step is what `RunStore` shows.

`require_completed_publication` and `get` read the origin, the control of an
alias, the origin again, the control of the origin, and the bundle, one step
each. `poll_events` reads the record, then the control. control itself reads
the record before the stores; a completed record and published entries never
go back (`ReadyStaysReady`), so when it says ready that holds at its last
read, and one step stands for it. `completedAt` is a history variable: the
sequence number of the completed event.

### WriteLock, RunStore and AtomicStore

A thread takes the gate of its process, then the flock, and counts nested
entries; the kernel drops the flock of a process that dies. A writer takes the
lock, the lock of its instance, recovers what an intent announces, reloads,
and writes one file per action (`WriteFile`, the `Full` order of a put); any
write may raise, and a process may die anywhere. Readers hold the lock of
their instance only and read the files of a run one by one (`Look`, `Pending`,
`ReadEvents`, `Single`). A publication is its version: a result with the event
stream that ends in completion. Reading a whole directory is one step, since
what is loaded of a run depends on that run's files alone. A child of a fork
has a lock of its own (`_reset_after_fork`) and is a process that starts idle.

`ImplementsAtomicStore` maps a publication to the intent if there is one and
to the bundle otherwise: a put takes effect when its intent is written, and
every death, recovery and split file after that is invisible. `AcceptedRun`
is the validation of `state_migrations` of the run files.

### StateSchema

Starters run `ensure_runtime_state`, migrators `migrate_state` with a backup
directory of their own. Looking for the manifest, listing, reading each file,
deciding, creating the backup, copying each file, creating the temporary
manifest and renaming it are single actions, for no lock orders them. A file
is whole, broken, begun (a database that exists before its tables), gone or
absent. A starter that was let in writes and removes artifacts and creates
databases; it may die at any step and leave a temporary manifest or a begun
database behind. `Wedged` is what only an operator gets past. Links, sizes and
the meaning of rows are left out.

### ViewerDaemon

`ensure_completed_run_presentation` and `stop_presentation_daemon` are the
steps of a presenter under the lock of the registry: look, probe, reuse,
retire, spawn, wait, hand out the link. A daemon takes the lease, registers,
serves, idles out and cleans up. Timeouts are choices; deaths, slow daemons
and probes that fail are counted by `MaxFaults`. `disturbed` records the two
cases in which the code gives up what it knows: a presenter is killed inside
its call, or a stop cannot reach a live daemon. Then a live daemon without an
entry remains, and presenters are answered `viewer_generation_conflict` until
it has idled out; `OneLiveDaemon` and `ServingIsRegistered` are stated for
undisturbed executions, `ReadyNamesTheServer` and `Presented` for all.

### BundleExport

A directory is worth the bundle that validates in it, or is `Partial` while it
is written or removed, or `Edited`: somebody's data. Each rename, write,
unlink and removal of a bundle is an action, and a call dies or fails at any
of them; the reads that decide a recovery are one step. `Recovery` is the
decision table of `_recover_interrupted_overwrite`. Somebody puts other data
into a directory only while no export runs: the code validates a directory and
removes it in a later step without a lock, so data that arrives in between is
lost. Calls take no lock either. `delivered` and `overlapped` are history.

### Research history

`ResearchHistory` runs several runs one beside another. `Plan` takes a request
and reads the decisions, the recall filters them (`VisibleEntries`) and reads
outcomes; `Collect` asks the routes of a capability in order and builds the
receipt; `Submit` accepts a submission that satisfies `ResearchDossier`;
publication keeps the order of the saga, whose failures `PublicationSaga`
models; outcomes are appended to the journal of a forecast and to memory, and
the quality store may die between an outcome and its scorecard. Instants are
what the records state, not when a step happens: a host may prepare a run for
a past cutoff at any time.

Instants are naturals, dates are days of `DayLength` instants, probabilities
and values integers, and a digest or an identifier is the value it is derived
from. What the code sorts is ordered by rank (`InOrder`), and what it takes of
a list up to a limit is a set of places (`FirstOf`). A provider is a *world*: what it would answer to each request of a
fetch, every attempt included. `PublicSources` keeps the query checks, the
retries with their wait, each provider's pages, files, windows and limits, and
the status that results; `ChromeSource` the approvals and attestations, the
redirects and the contacts of the browser host. One fetch is one step, for an
adapter shares nothing with other calls. In the dossier a collection is a
function from its identifiers; filings, transcripts, factors, historical
events and prior outcomes are "dated" items, which differ in the instant that
has to precede the cutoff and in what they refer to. A formula is its postfix
form over integers, evaluated to rationals.

## Runs

| Run | Instance | Shows |
|---|---|---|
| control | 2 stages, 2 digests, 2 receipts, attempts to 2, 7 updates, one call in flight beside the operations of others | commits stay attested, attempts unique, the active stage current, no wedge by receipts, no progress after a stop |
| harness | 2 stages, 2 harnesses, 2 interruptions, 14 updates, liveness | outputs were executed on the committed ones before them, revisions identify records, the completed event is last, the ledger is implemented, a harness run again completes |
| saga | 1 run, 2 finalizers, 2 failures, a reader by lifecycle run, liveness | sidecars before results, atomic publication with eventual visibility, readers see complete publications only |
| shared_content | 2 runs and an import of one content, 2 finalizers, 1 failure | nothing staged is found missing, a ready run stays ready |
| shared_liveness | 2 runs of one content, 1 finalizer, 1 failure, 1 poller with pages of 2, liveness | no event skipped, the completed event arrives and means done |
| store | 2 processes, 1 run, 2 versions, partial streams to 2 events, 1 failure or death at any file | mutual exclusion, whole caches, appends extend what is durable, the atomic store is implemented |
| schema | 2 programs, 1 migrator, 2 artifacts (one transient), 1 database, every initial root, 1 failure, liveness | adopted with a backup, validated, and whoever retries gets in |
| viewer | 2 presenters of different builds, 2 daemons, 2 faults, liveness | one live daemon, it is registered, links name the server, every caller is answered |
| history | 2 runs after 3 earlier decisions, every kind of world and submission | portfolio, evidence, recall, journals and cohorts, see below |
| export | 3 exports, at most 2 at a time, 2 bundles, 2 failures, 1 when they overlap | interrupted overwrites recover, nothing is destroyed |
| startup | the instance of store | violated, see below |
| first_start | 2 programs, 1 migrator, no failure | violated, see below |

Bounds. Two stages make a first and a terminal one with a commit between them.
In `control` seven updates reach past a whole finalize, or a terminal commit
through start, receipts and a pause; `MaxAhead` 1 is enough for a call whose
read is stale and whose revision is right. In `harness` two interruptions let
another harness commit between two steps of the first, or a start receipt and
a completion receipt arrive; the bound of 14 updates is never reached unless a
receipt contradicts the harness, and if it were lower, HarnessCompletes would
fail. A run in the saga has one stage, since its content is used as a whole.
Two failures allow one in the first call and one in its retry; two finalizers
a conflict at each update; pages of two make a run of five or six events need
three polls. Two processes with a cache each are what a stale read needs, two
versions what a mix of publications needs. Two builds force a viewer to be
replaced, two faults let a retry fail as well. Three exports let one recover
what another left while a third arrives; with two failures and two live
exports at once the instance is too large, so overlapping ones have one. Two
programs and a migrator are every pair of actors that can meet at a root.

In `history` the worlds vary one dimension at a time (a page, a file, a row, a
retry, a limit), and every combination of browser, stored and host access is
there only for the news world of two articles. A submission does not depend on
what was collected, so r1 tries every world under one request and every
submission under another. Limits are small enough to be
hit: 1 historical file, 2 facts, 2 pages, 2 gaps, 3 items of a query, 4
observations, 2 redirects, 1 contact; a day has 4 instants, a journal 2
outcomes. Numbers of a dossier are in tenths (`Scale`), and calculations are
rounded to one digit, to none, or not at all (`RoundingUnits`), with
tolerances from nothing to more than the unit: values that lie between two
results, and halves that go to the even one, occur. Cohorts have at most `MaxCohort` forecasts. Runs of the model may stop: a run is cancelled or published, an
operator is needed, or a bound is used up; deadlock is therefore not checked,
and what must happen is stated as liveness.

Type invariants are theorems for RunControl, PublicationSaga, RunStore,
ViewerDaemon, BundleExport and StateSchema and take no part in the runs.
`TypeOK` of ResearchHistory is a theorem too, and `history` checks it as well,
for it says that every receipt the collector builds passes its own validation.

## Fairness

- `saga`, `shared_liveness`: a call that runs goes on (weak fairness of
  `SagaStep`). finalize is called again while control says that the
  publication of a run is pending: strong fairness of `Retry` for each run and
  finalizer, since a finalizer that is busy with one run for ever would
  otherwise never see another. The repository does not do this by itself;
  `docs/OPERATIONS.md` asks it of the operator ("run-finalize retries
  recoverable publication staging"). Pollers keep polling.
- `harness`: a harness that runs goes on, and the keeper is run again while
  its run can be picked up ("run-resume continues from the first incomplete
  stage"). Nothing is assumed of other harnesses and callers.
- `viewer`: presenters and daemons go on (weak and strong fairness of their
  steps; strong for taking the lock, which others take in between), a refused
  caller asks again, and a daemon nobody can find idles out after its timeout.
- `schema`: a program that is refused is started again and opens its database;
  a migration that began goes on; no operator has to begin or repeat one.
- Failures, deaths, timeouts, imports, cancellations and readers are never
  fair.

## Disagreements with the documentation

- `startup`: a direct put that is interrupted after its intent is meant to be
  recovered by the next process. The validation at startup runs before there
  is a store, compares the files with each other and refuses to start when the
  put replaced an earlier bundle or followed a partial stream.
- `first_start`: ensure_runtime_state initializes "a new/empty root", and
  several processes may use one root. Two first starts can meet: one takes the
  temporary or the fresh manifest of the other for unversioned state and is
  refused. Trying again helps unless the other died and left its temporary
  file (`EveryStartSucceeds`, `Wedged`).

Two more that no run of this project keeps:

- "A direct completed import has no lifecycle origin and remains readable."
  `publish_staged` of a lifecycle run of the same content replaces the bundle,
  and until its decision memory is published the gate refuses the result.
- The gate requires "every lifecycle publication side effect". Asked for a
  result identifier that has no bundle yet it returns unchecked, and the
  bundle is read afterwards. Asked by lifecycle run the check holds
  (`LifecycleReadersSeeComplete`).

## Proofs

All theorems hold for any number of actors, stages, files and retries, from
the assumptions named in the modules (`RecordAssumption`, `ControlAssumption`,
`HarnessAssumption`, `SagaAssumption`, `ReadersAssumption`, `LockAssumption`,
`StoreAssumption`, `ViewerAssumption`, `ExportAssumption`, `SchemaAssumption`,
`HistoryAssumption`, `EarlierAssumption`, `CandidatesAssumption`,
`SourcesAssumption`, `DayAssumption`, `ScaleAssumption`, `WorldsAssumption`): constants are numbers, absent values
are no values, sets of actors are disjoint, the keeper is a caller, and there
is a presenter. Earlier decisions are of distinct runs, since the registration
of a run that has one is refused (`memory.py:283`), and have the form
(`IsDecision`) that every decision written by a modelled run is proved to have. Of the providers
`WorldsAssumption` says that their lists agree with what they list: SEC's
historical files hold filings of the days they state, World Bank has no page
beyond those its first page announces, and a request is tried again only after
a retryable answer. Only `CompleteAnswersOmitNothing` needs that, and no
adapter could keep it otherwise. `ScaleAssumption` says that what decimals
are rounded to is a positive number of the units they are counted in. Hosts and browser hosts may answer anything,
and there may be any number of routes.

`RunControlProofs`: the type invariant, `EachAttemptStartsOnce`,
`ActiveIsLatestAttemptOfNextStage`, `CompletionReceiptsMatchOutputs`,
`RevisionIdentifiesRecord`, `NoProgressAfterStop`, `CompletedEventIsLast`, and
that RunControl implements `StageLedger`. The properties are not inductive: a
commit writes a list computed from an earlier record, and what makes it right
is the validation of the whole record at the write. `LifecycleRecordProofs`
therefore collects in `SoundRecord` what every written record satisfies:
completed stages are a prefix, commitments repeat stages, attempts and
outputs, receipts are well formed and attest the committed outputs, every
start receipt is counted in the attempts, starts are unique, and the active
stage is the next one at its latest attempt. One lemma per mutation shows that
it keeps `SoundRecord`. The cases that carry weight are `CommittedSound`,
where validation forces the attempt of the stale commitment to be the one the
receipts were checked against, and `LoggedSound`, where receipts must name the
active stage and so cannot concern a completed one. `RunInv` adds that the
copies finalizers hold are of no later revision, and equal to the record at
the same one. `AnyOutputCommitsAfterResume` needs only that the record is
valid and that attempts stay within `MaxAttempt`: the attempt one beyond the
bound is one that no receipt names, and with it every check of a commit and of
the record it would write passes.

The harness, in `RunControlProofs` too: `HarnessInv` conjoins `RunInv`, since
each step of a harness is one of the coordinator's even when the revision it
names is old, with what a harness holds: from the read of its stage to its commit its
context is a prefix of the committed outputs, as long as its stage less one.
commit_stage accepts only the next stage, so at the commit that prefix is all
of them, and `CommittedInContext` follows whoever else commits, pauses or
sends receipts between the three reads.

`PublicationProofs`: `SagaInv` says what each call relies on: its copy of the
record can only have become the present one by losing nothing (`KnowsRecord`),
what its earlier steps wrote is still there (`KnowsStores`), and receipts and
bundles have their origin (`Receipted`, `Origin`). That others cannot take any
of it away is one lemma (`RecordsGrow`, `StoresGrow`), so `NothingIsMissing`
and `ReadyStaysReady` hold with runs and imports that share their content.
`ResultFollowsSidecars`, and that the saga implements the safety half of
`AtomicPublication`, are proved under `Separate`: no other run and no import
has the content of a run. Without it they are false, as TLC shows on two runs
of one content: what the first staged is published by the second before the
first is completed. For readers `ReaderInv` adds what a query knows after its
gate, that a poller has every event up to its cursor, and that the completed
event is the last of its run; `LifecycleReadersSeeComplete` is proved while
no two runs have the same content (`DistinctContents`), imports allowed.

`ViewerDaemonProofs`: whoever holds the lock of the registry knows what lives
(`KnowsLive`): nothing before it spawns, and only the daemon it waits for or
retires afterwards. A daemon that does not serve yet is waited for
(`Awaited`), one that serves is registered (`Registered`). `OneLiveDaemon` and
`ServingIsRegistered` follow, which both speak of executions in which no
presenter was killed and no stop missed its daemon; `ReadyNamesTheServer`
holds in all.

`RunStoreProofs`: `StoreInv` says what each call holds (the gate, the flock,
its nesting), which files an interrupted put has written by the step it
reached, and what each instance knows of the files it read. Mutual exclusion,
whole caches and extending appends follow. For the refinement, a put takes
effect when its intent is written; every later file, death and recovery leaves
the mapped publication as it is, because until the intent is gone the files of
the run are some prefix of what it announces.

`BundleExportProofs`: `ExportInv` collects what a call knows at each step, and
that its staging and backup directories are its own (`Fresh`, `Own`).
`KeepInv` adds that a backup without a journal is never removed, and that of
the places that hold what was delivered one is always spared. From it follows
`NothingIsDestroyed`, for exports that overlap in any way. For `Recoverable`
`WholeInv` says that without overlap one call lives at a time, and that under
a journal the three directories are in one of three states: nothing was moved
yet (`Untried`), the old bundle is in the backup (`Retired`), or the new one
is in place (`Installed`); `Placed` names those that the step of the call
allows, and the recovery brings back what was delivered from each.

`StateSchemaProofs`: while there is no manifest nobody has been let in, so the
files are those of the beginning. `Found` says for every actor what its plan
or backup found out, and that it is still true when the manifest is written;
with `CopyHasTarget`, `Held` (the root of a manifest that is being written
exists) and the types it makes up `SchemaInv`.

`ResearchHistoryProofs`: `WorkForm` says what a run holds at each step: a
request of its own, a submission that passed the contracts, the forecasts it
registers. `CollectedByPortfolio` says that a receipt is the one the portfolio
builds from what its routes answer to a query of the request's cutoff in the
world of the run, `RecallInvariant` that rows keep their form and that what is
recalled was known, and `JournalInvariant` that forecasts of different runs
have different identifiers and that each journal can be loaded. With them a
property of the state becomes one of the operators that computed it, and most
of the module is lemmas about those:

- `DecisionRecall`: what is recalled is a prefix of the visible decisions in
  order, by their rank (`RecallTakesNewestVisible`), and each decision, its
  documents and facts, and each outcome were known at the cutoff
  (`RecallNeverLooksAhead`). The program never compares the documents with
  the cutoff of the later run: that they precede it follows from the cutoff of
  their own dossier or bundle, the completion of its run, and the cutoff of
  the later one.
- `SourcePortfolio`: a receipt has one attempt for each route in order, batches
  that could be built, and no more observations than the bound, so it passes
  its own validation (`TypeOK`). Clusters (`ClustersAreExactMatches`): the parents of the
  union-find only decrease, so following them ends at a root; each union keeps
  the classes it does not join and joins the two of its edge; hence two items
  are of one class exactly when edges connect them, and edges join exactly the
  items that share a basis. Sorting is by rank, and ranks are distinct.
- `PublicSources` (`CompleteAnswersOmitNothing`): one lemma per provider follows
  its failures and limits to the status. When the status is `complete` no
  outcome ended the fetch, every file and page that was asked for was read, and
  no limit cut anything off; a file that was not asked for holds no day of the
  window, and an article that was left out has the address of an earlier one.
- `ForecastQuality`: an accepted outcome leaves a journal that loads again, and
  a cohort that is evaluated has distinct instruments, outcomes that were
  available when they could be and by the cutoff, and one bin per forecast
  (`JournalStaysLoadable`, `CohortIsLeakFree`).
- `ResearchConformance` and `ResearchDossier`: the stack of a formula that is
  well formed holds rationals at each position. The contract compares a metric
  with the rounded result, the validator the rounded value of the formula with
  the result; each rounding moves a number by at most half a unit
  (`NearestIsNear`), so a metric that passed is within two tolerances and one
  unit of its formula. When two tolerances are less than a unit, the result
  lies too close to a multiple of the unit to be rounded to another
  (`NearestUnique`), and the metric is within one tolerance of the rounded
  value (`PassedMetricsReproduce`). What a valid submission cites, through any chain
  of calculations, was available before the cutoff (`EvidencePrecedesCutoff`).

Folds and recursive functions are unrolled with a schema of induction stated
for sets of naturals (`AllNat`, `LeastNat`), which needs no operator as a
parameter and follows from the well-foundedness of the order of the naturals.

Only model-checked is liveness (`EventualVisibility`, the liveness half of
`AtomicPublication`, `HarnessCompletes` and what the other fairness runs
check), which is out of TLAPS' reach here. Every other property of a passing
run is a theorem, `ResultFollowsSidecars` and `LifecycleReadersSeeComplete`
under the conditions named above.

## Observations

Found while modelling, and not contradicted by a statement of the repository
that a run could check:

- Whole answers of a provider are lost, not single rows: a filing accepted
  before the first instant of its filing date is observed after it was
  published (`host/adapters/providers/sec.py:268`), a saturated GDELT window
  without a hit and a SEC history gap without filings are `partial` without
  items, more than 64 missing statements exceed the limit on gaps. Each raises
  in the constructor of the batch, which the portfolio records as an error.
- A page of World Bank whose observations are no list adds nothing, and the
  answer may still call itself complete. `CompleteAnswersOmitNothing` takes
  such a page for an empty one, as the code does.
- The analyst opinions, estimates, insider transactions, ownership and short
  interest of an analytics bundle may have become available after its cutoff
  and after the run was completed: `analytics_v1/bundle.py:115` compares the
  facts alone, and the decision of such a run is recalled like any other.
  `EvidencePrecedesCutoff` and `RecallNeverLooksAhead` therefore speak of
  claims and metrics, documents and facts. The instance has submissions with
  such late records (`Late`).
- With a declared rounding a metric may differ from its formula by a whole
  unit besides the tolerances, since the contract rounds the result once more
  after the validator has rounded the value: with no digits and a tolerance of
  0.5, a formula that gives 15.4 passes with a result of 14.5 and a metric of
  13.5.
- The day under which a decision is stored is that of its timestamp as written,
  at whatever offset (`memory.py:413`), while instants are compared in UTC.
- Exports that overlap can wedge a target: a recovery deletes the journal of a
  live call or moves its half-written staging into the target, or another
  bundle arrives between the two renames and every later recovery refuses the
  journal. `Recoverable` is stated without overlap, `NothingIsDestroyed` for
  all. A recovery validates a directory and then removes it, two steps of the
  model between which other exports act. That somebody else writes into the
  directory in between, and loses it, is not: other data arrives only while no
  export runs.
- A viewer that a stop could not reach lives on without an entry, and
  presenters are refused until it has idled out.
- A database whose creator died before its tables were committed makes every
  later start and migration refuse, though opening it would repair it.
- A harness always names the attempt after the last started one. A completion
  receipt for that attempt with another output refuses it for as long as no
  start receipt moves the attempt on (`Contradicted`); another caller could
  commit under a later attempt (`AnyOutputCommitsAfterResume`).
- The scorecard of an outcome whose append died between the two files is never
  written (`research_quality_v1/store.py:228`); nothing reads scorecards.
- Nothing relates the cutoff of the analytics bundle, or the instants of its
  forecasts, to the cutoff of the research. A formula may use metrics that are
  calculated from each other in a cycle of two or more; conformance reports
  such things and does not gate publication.

## Plan

What is left is to say more, not to prove what is said: the SEC filing whose
acceptance lies before its filing date (see Observations) as a property of the
batches that a public adapter may build, and the HTTP side of the viewer.

## Not modelled

- The command line, the MCP servers and the HTTP side of the viewer parse
  arguments and print JSON over operations that are modelled; their callers
  are the actors of RunControl, SequentialHarness and PublicationReaders.
- The analytics calculators and validators (`analytics_v1/`) compute decimals
  field by field, apart from the licensing of sources, which `ResearchDossier`
  has: no state, no control that several actors or steps could
  break, and numbers outside what TLC or TLAPS express usefully. Reports,
  views, semantics and diagnostics are projections of a completed result.
- Workflow manifests, profiles and schemas are data.
- Of what is modelled, the following is left out: texts, names, units, sizes
  and digests; the syntax of payloads and addresses; file permissions and
  links; numbers are exact, so the error of binary floating point is not in
  the model, and an exponent is a natural number of at most 10, while the code
  takes fractions and negative ones too; in a dossier guidance, peers, risks, monitoring, entities and the
  portfolio, which only refer to the rest; the research lab.
