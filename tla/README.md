# A TLA+ model of banhmi

banhmi builds and serves a corpus of legal texts. Sites of publishers are swept
in windows, the documents found are fetched, converted and accepted by durable
workflows, accepted revisions are built into immutable releases, and releases
are served over MCP and HTTP behind an OAuth server. An older batch pipeline
still fetches, extracts, normalises, indexes and embeds the same sources into
the tables that today's retrieval reads. Both halves are modelled here.

Most lines of the program transform data. What is hard to get right, and hard to
test, is the control around them: fenced leases, transactions that wait for a
lock and go on with what they read before, workflows and workers that die or
come late, limits shared by queues, files shared by processes, tables that one
stage rewrites while another reads, and parsers that keep state from line to
line. This directory models that control and states what must hold of it.

PostgreSQL, Temporal, the object store, the container runtime and the GPU
services are outside `src/`. They are modelled by what the code relies on: row
locks under READ COMMITTED, unique indexes, the database clock read after a
wait, a workflow observation that may be old, a command that may take effect
although its reply is lost.

1. [Inventory](#1-inventory)
2. [Modules](#2-modules)
3. [Runs](#3-runs)
4. [Fairness](#4-fairness)
5. [Proofs](#5-proofs)
6. [What the checks say about the code](#6-what-the-checks-say-about-the-code)
7. [Not modelled](#7-not-modelled)
8. [Plan](#8-plan)

## 1. Inventory

The new corpus (`internal/corpus`, `internal/evidence`):

| component | state | operations | interacts with | what makes it correct |
|---|---|---|---|---|
| intake ledger (`store/intake/ledger.go`) | admission row of a country, execution leases, executions, decisions, results, acceptance events and their projection | RotateAdmission, ClaimLease, RegisterExecution, RecordDecision, Apply | every writer goes through Apply | no write under a superseded grant; one result per unit of work; acceptance is never undone |
| document admission (`store/intake/admission*.go`) | limits, slots, receipts, two queues with a persisted turn | Configure, Reserve, Bind, Settle, RequestResume, Resume, Close, Reconcile, Resolve | reads leases, deliveries, events; cancels leases | capacity is held by whoever may still write; evidence is settled before a closure; the queues are fair |
| acceptance (`store/intake/acceptance*.go`, `conversion_catalog.go`) | revisions, gaps, catalog rows, blob locks | Acceptance.Apply, Register | wraps Ledger.Apply | catalog and ledger commit together; a later version never loses to an older baseline |
| sources (`store/intake/sources*.go`) | windows, pages, request claims, host slots, deliveries | open, claim, capture, retry, launch, complete | holds window leases; hands deliveries to admission | one request per claim; host limits; each document is launched once; no lock cycle |
| document store (`store/document`) | identities, revisions, provisions, reports, comparisons | mint, batch, report and compare calls, paged reads | runs under the ledger's grants | a stale grant commits nothing; equal calls converge, unequal ones are told apart |
| document workflow (`workflow/temporal/document_ingest_v2.go`) | checkpoint, inbox, timers, activities | Advance, waits, continue-as-new, the control sweep | ledger, admission | an attempt that comes late releases nothing that is not its own |
| corpus runs, corpus refresh (`corpus/run`, `workflow/temporal`) | run rows, leases, external jobs | Execute, renew, apply, cancel, sweep | executors and providers as ports | an outcome counts what was done; no job is submitted twice |
| conversion (`corpus/conversion`) | a container, staged files, blocks and findings | Run, teardown, stage checks, two readings of each original | blob staging | nothing outside the sandbox is written; no output is used that a second reading does not derive |
| chunking (`corpus/chunking`, `pkg/pipeline/index_activities.go`) | rows of sections, chunks | splitting at the cap | Index | a chunk is within the cap and cites where its text is |
| release catalog (`release/publication.go`, `retention.go`) | readiness, selection, holds, claims | Publish, Activate, Claim, Renew, Release, Finalize | acceptance; the pool | one switch per request; current, previous and held releases are kept |
| serving pool (`release/pool.go`, `resolver.go`, `operations.go`) | entries with refs and flags, leases, holds | Pin, acquire, operations, close, Drain | catalog | no bundle is closed under a request; no answer from a deleted release |
| retrieval (`pkg/rag/retrieve`) | one search over live tables | SearchEvidence | the pipeline writes in between | what is ranked, collapsed and promoted agrees with the law it shows |

Servers and the batch pipeline (`pkg`):

| component | state | operations | interacts with | what makes it correct |
|---|---|---|---|---|
| OAuth server (`oauthserver`) | consents, grants, codes, access and refresh tokens | authorize, token, rotate, replay, revoke, cleanup | identity epochs | one successor per credential; a replay revokes the family for good |
| identity (`identity`) | accounts, logins, sessions | login, callback, logout, block, cleanup | OAuth | a session dies with its account's epoch |
| discovery (`ingest/*/discover.go`, `pipeline/activities.go`) | listings, watermark, ledger rows | Discover | fetch | the watermark never passes a document nobody recorded |
| fetch (`pipeline/fetch_activities.go`) | fetch_doc and fetch_artifact rows | plan, claim, store, finalise, recheck | stages | a complete document is the one its fingerprint names |
| stages (`pipeline/*_activities.go`) | bronze and silver rows, chunks, vectors | Extract, Normalize, OCR, Index, Embed | all of them, through tables | a fetched document comes to rest and is searched; the best tree is kept |
| validity, relations (`pipeline/vbhn_validity.go`, `bnm_supersession.go`, `relation_*.go`) | validity rows, references, edges | Normalize, passes, backfill, recompute | stages | one open row; a superseded document is not in force; edges survive |
| parsers (`pipeline/*parse.go`) | parser state over lines | one line at a time | Normalize | a tree holds every line once, and only real sections |
| shards and jobs (`pipeline/*shard*`, `rag/embed/*batch`, `extract/ocr`) | shard files, cursors, cloud jobs | export, run, import, poll, cancel | OCR and Embed | nothing is stored twice or lost; a cursor passes only what is on disk |

`PROJECT.json` lists every component with its status and every hazard with the
line where it bites. The behaviours that make this code hard:

* **a transaction waits.** `Apply` checks its grant, waits for up to four locks,
  reads and writes. What it checked may have changed each time;
* **zombies and repeats.** A worker whose lease ran out keeps going, its successor
  repeats its work, a reply is lost and the same call comes again;
* **stale observations.** Reconciliation asks Temporal between two transactions;
* **one capacity, two queues,** whose limits an operator lowers while it is in use;
* **work outside a mutex.** `Bundle.Close` runs between two critical sections, may
  fail, and is repeated by whoever comes next;
* **two readers of one text** that must agree although they share no code;
* **stages without a transaction around them.** Each reads what is due, works, and
  writes, with another worker, a new fetch or a crash in between;
* **state carried from line to line** where a list item looks like a section.

## 2. Modules

A component is a module with its variables, one action per operation, `Init`,
`Next`, and its properties. Bounds and instances are `CONSTANTS` with a named
`ASSUME` where a proof or an instance relies on them. A suite (`MC...`)
instantiates several components on small constants (section 3).

| module | models | lines of |
|---|---|---|
| `AtomicLedger` | what the ledger promises: one atomic fenced write per result | `ledger.go`, as its callers see it |
| `IntakeLedger` | the ledger, with Apply split at every wait | `ledger.go`, `queries/ledger.sql`, `run/intake.go`, writer migration 00002 |
| `DocumentAdmission` | admission, with the part of ledger, launches and workflows it depends on | `admission.go`, `admission_transitions.go`, `admission_receipts.go`, `admission_resolve.go` |
| `Acceptance` | registration and acceptance over the catalog, per lock | `acceptance*.go`, `conversion_catalog.go` |
| `Sources` | windows, pages, hosts, requests, launches | `sources*.go` |
| `SourceLocks` | the order in which source transactions lock rows | `sources.go`, `intakedb/sources.sql.go` |
| `DocumentStore` | statements of the document store with snapshots, waits and retries | `revisions.go`, `conversion.go` |
| `DocumentWorkflow` | the ingest workflow, its activities and the control sweep | `document_ingest_v2.go`, `intake_activities_v2.go` |
| `ReleasePool` | the pool, request pins, guarded operations | `pool.go`, `resolver.go`, `operations.go` |
| `ReleaseCatalog` | publication, activation, retention claims | `publication.go`, `retention.go` and their queries |
| `Identity`, `OAuthServer` | logins and sessions; consents, grants and token families (extends `Identity`) | `pkg/identity`, `pkg/oauthserver` |
| `Retrieval` | one search, statement by statement, over tables that change | `retrieve.go`, `evidence.go` |
| `FetchLedger`, `Discovery` | one document's fetch; a sweep of each of 23 clients | `fetch_activities.go`, `activities.go`, `ingest/*/discover.go` |
| `DocumentStages` | selectors and writes of Extract to Embed for one document | `process_activities.go`, `normalize_activities.go`, `index_activities.go`, `silver/queries.sql.go` |
| `Validity`, `Relations` | validity rows; references, evidence and edges | `vbhn_validity.go`, `bnm_supersession.go`, `relation_*.go`, `resolve_refs.go`, `recompute_relations.go` |
| `CorpusRun`, `CorpusRefresh` | direct and scheduled runs; the refresh workflow | `run/*.go`, `workflow/temporal/workflow.go`, `activities.go` |
| `Sandbox`, `StagedOutputs`, `Converter` | supervisor and container; checks on staged files; the converter's call | `conversion/sandbox`, `bundle.go`, `convert.go` |
| `HtmlDerivation`, `DocxDerivation`, `BlockChains` | converter and validator reading one original; the evidence chains | `html.go`, `html_derivation.go`, `docx.go`, `derivation.go`, `blocks.go`, `validation.go` |
| `OcrShard`, `EmbedShard`, `KaggleJob` | shard files and cursors; one cloud job | `pipeline` OCR and embedding shards, `kagglebatch`, `sagebatch`, `docai` |
| `SectionTree` | the tree all parsers build | `malaysiaparse.go` |
| `MalaysiaParse`, `SingaporeParse`, `ThailandParse`, `IndonesiaParse`, `VietnamParse` | one parser each, over lines of every shape its expressions tell apart | `*parse.go` |
| `Chunking` | rows to chunks under the cap | `split.go`, `index_activities.go` |
| `IntakeLedger_proofs` (ledger and source locks), `DocumentAdmission_proofs`, `Serving_proofs` (pool, catalogue, logins), `Workers_proofs` (sandbox and runners) | theorems | |
| `MCIntake`, `MCDocuments`, `MCServing`, `MCPipeline`, `MCWorkers`, `MCTexts` | suites of small instances | |

The operators that `PROJECT.json` lists as `as` under "mutants" (most of their names
start with `M`) are forms of a definition below them with one plausible mistake in it;
no specification uses them.

### IntakeLedger and AtomicLedger

State is the tables: `admission` is the row of `ingest.country_admission`,
`lease` is `ingest.execution_lease` by resource, `results` is
`ingest.execution_result`, `events` and `projection` are
`ingest.revision_acceptance` and its state, `nextId` the identity sequence.
`grants` is what workers remember: any tuple ever handed out may be presented
again, so a zombie needs no action of its own. `Apply` is one action for each
point at which the transaction waits or others can see a difference:

    Begin                lockAdmission: FOR SHARE on the admission row, grant check
    ApplyLockLease       FOR UPDATE on the lease row, grant check at the clock's time
    ApplyLockAcceptance  the acceptance_lock row of the attempt, grant check
    ApplyResolve         execution, decision, first lookup of the key, grant check
    ApplyWrite           verified outputs, prior acceptance, INSERT ... ON CONFLICT
                         DO NOTHING, second lookup, grant check
    ApplyCheck           the last grant check
    ApplyCommit          row, delivery, event, projection, receipt
    ApplyAbort           a failure or crash anywhere: rollback

The locks a call holds are read off its control state, so the model cannot
forget one. Ids are allocated before commit and lost by a rollback.
`AtomicLedger` has four variables and the actions Rotate, Allocate and Commit;
`ImplementsAtomicLedger` says that locks, waits and rechecks are invisible.

### DocumentAdmission

Each operation locks the admission row, leases, delivery, capacity row and slot in
one order and reads what it decides on after the last wait, so an action per
operation is exact. `Reconcile` is two, because it observes the workflow chain in
between; an activity is two, `CheckPermission` (Resolve finds the slot processing
under the caller's grant) and the ledger's `Apply` after any delay, with `permit`
the grant in between. Time is abstract: a lease's expiry is ahead or past, an
event young or old. A delivery number is its place in the order of launches. A
fence stands for the lease tuple, because the ledger hands out one owner and one
epoch per fence (`IntakeLedger` shows it). Replayed and refused calls change
nothing and are no steps; what a replay needs is `EffectFound`.

### ReleasePool and ReleaseCatalog

A goroutine's `pc` says where it stands; each critical section of `PoolSet.mu` is
an action. `Bundle.Close` is an action of its own, with success or failure, between
the section that sets `closing` and `FinishClose`. An entry and its bundle share a
number, as the pointer comparison of `finishClose` tells an old entry from the one
that replaced it. `PinStore` has no implementation in the repository: its contract
in `types.go` and the retention queries are what Pin, LoseHold and Finalize model.
The catalog is an action per statement or row lock of its queries.

### The pipeline

`FetchLedger` follows one document through discovery slices, plan, jobs with
leases, backoff and rechecks, with revisions of the site in between.
`Discovery` has one set of actions; a client is the record of its decisions (how it
pages, what it does with the watermark, which date it reports, what a failed
request means). `DocumentStages` models the selectors, because which document is due is what
goes wrong: each command selects, then works through its page, and crashes or other
writers come in between. `Validity` and `Relations` are the writes that several
documents share. What a failed statement does is decided where its error is handled:
a failed read of the current validity row goes on to write, a failed write or failed
relations are a warning, and a failure in a corpus-wide pass ends that pass.

`Retrieval` takes the scan of the vector index as what it is, approximate: it returns
any set of vectors, no larger than asked for. `OcrShard` takes the output of a remote
kernel likewise: rows may be missing, repeated or malformed.

### Parsers and texts

A line is a record of what the regular expressions see in it: its shape, its
number, what stands behind the number, and whether a reader of the law would call
it the heading it looks like; `real` keeps where such a reader is, and whether the
text has led the parser astray. A behaviour reads lines up to a bound and
ends with the rows that are stored. The converter and the validator of
`HtmlDerivation` and `DocxDerivation` read the same tokens side by side; a token
is its ordinal, which stands for its byte range.

## 3. Runs

A suite's variables are those of all its components; `case` names the instance
that a behaviour explores and the variables of the others stay `"off"`. Each
property of a suite is a `CASE` over the instances: a conjunction of the
component's named properties where they are meaningful. Bounds stand at the
`INSTANCE`.

`CHECK_DEADLOCK FALSE` is used everywhere because the bounded systems stop: when
the clock, the ids, the lines or the faults of the instance are used up.

| run | what it explores | distinct states |
|---|---|---|
| `intake` | two workers for one lease across a rotation; two resources for one acceptance; decisions that expire; host slots, request claims, listings with continuations, two requests for one document; four lock orders; a baseline race, replays and shared blobs | 546 000 |
| `intake_live` | calls with overlapping locks, source transactions, acceptance jobs: all end | 43 000 |
| `documents` | one slot under every outside event; two attempts of one version; three documents in two queues; the ingest workflow under crashes, decisions and a control sweep; races of mints, revisions, batches and reports | 1 170 000 |
| `documents_live` | reconciliation frees capacity; workflows end; store calls end | 175 000 |
| `serving` | two requests and two drainers on a pool of one release; two publishers, activations, collectors; logins, code redemption, consents; ranking over every answer of the index, and searches while the law changes | 750 000 |
| `serving_live` | pins, activations, callbacks, tokens and searches end | 88 000 |
| `pipeline` | a document with one and with two files, discovery beside a fetch; sweeps of busy, late, failing and limited sources; two copies of a document through all stages; consolidation families, two workers, supersession; a graph of references, replaces edges under repair | 1 550 000 |
| `pipeline_live` | fetch, record, settle, heal, backfill and repair are delivered in spite of faults | 117 000 |
| `validity_race` | two workers normalise two policy documents at once: **violated** (section 6) | |
| `workers` | sandbox, staged files, converter, OCR and embedding shards, cloud jobs, corpus runs, refresh | 1 600 000 |
| `workers_live` | all of them end | 104 000 |
| `texts` | 19 instances of five parsers, three of HTML, two of DOCX, evidence chains, chunks, for texts of a few lines or tokens, misleading ones included | 1 650 000 |

What the properties say, and the hazards behind them (their definitions carry the
same words):

* `SingleReceipt`, `FencedWrites`, `ResultsDecided`, `ProjectionIsLatest`,
  `ImplementsAtomicLedger`: what is stored of an execution was written under the
  grant, the decision and the acceptance that were in force when it was written;
* `SourcesAccounted`, `EndedIsFinal`: every launch, claim and host slot is
  accounted for, row locks are taken whole and in an order without circles, and what
  ended stays ended;
* `AcceptanceSound`: a baseline has one version, catalog and ledger agree;
* `AdmissionSound`: evidence is settled before a slot is closed over it, a repeated
  call finds its effect, a queue that was passed over is next; `OneLiveSlot`: a
  version has one slot that is not closed; `WorkersHoldCapacity`: an activity that may still
  apply has its slot in processing; `WithinLimits`: no step admits beyond the
  limits; `ReplacementSpared`: a closure cancels no lease but its own;
* `AnswersHonest`, `CommitsPermitted`: what the store answered is stored, a
  traversal misses nothing, and nothing commits under a stale grant;
* `LeasedOpen`, `BundlesAccounted`, `EvidenceRetained`: bundles are open while
  leased, closed once, and no evidence is read from a deleted release;
* `CatalogConsistent`: what is selected, active, retired and held agrees, `Activate` answers
  what the history holds, claims exclude use; `ShortfallsRefilled`: when filtering the
  candidates of the index leaves fewer chunks than asked for, the vector arm's list is
  the exact one. Which chunks fill a full list is the index's choice;
* `CredentialsSingle`, `RefusalsStick`: one successor per code and token; what was
  refused or revoked stays so; `AnswersSound`: the cap never shrinks a result, the
  first pass shows no provision of a document twice and nothing that was not current
  law during the request; twins in two documents of one family may both be shown;
* `FetchedWhole`: a complete document has the body and files of its fingerprint, and
  none falls out of the reach of later sweeps. Exempt are a document re-opened while a
  job worked on it, and one passed by a limited run, hidden by a swallowed failure or
  pushed past pages that were counted once;
* `ValidityAgrees`: one worker leaves one open row, the derived status and no superseded
  document in force; each of two workers leaves one open row of its kind, the
  publisher's or the derived one;
* `RelationsKept`: no stub for a target in the corpus, backfill for one hop; a replaces
  edge goes only with a pass over the document that owns it, and a pass of Normalize
  that returns leaves every such edge; `TreeKept`: the best publisher's tree is kept;
* `AttemptContained`: nothing runs while an output is validated or sealed, both phases
  stay within one CPU budget, what is left behind is named by the receipt;
  `OutputContained`: exactly safe manifests are accepted, and nothing is retained that
  was not read whole and validated; `WorkAccounted`: no admitted document, vector or job of
  a shard, cloud job or refresh is lost, and none is counted or submitted twice, but for
  an OCR row that a remote output repeats; `LateStepsHarmless`: a late predecessor's
  release frees nobody else's lease, and a lost poll or two do not end a running kernel;
  `RunsAccounted`: a committed result was written under the grant that was current, once
  per unit of work; what a runner answers is stored, what is stored is counted, and a
  cancelled run never completes;
* `TreesFaithful`: every line from the first heading on is stored, and headings, paths
  and places are the document's unless a line misleads the parser (section 6 names the
  lines that do); `DerivationsAgree`: a second reading accepts what the converter made
  and rejects what was altered; `ChunksFaithful`: chunks keep the cap, the lines and the
  articles, and citations are unique, unless a provision has children of two kinds or
  repeats a label;
* the five liveness properties say that what was begun ends (section 4); `WorkDelivered`
  excepts a document whose job stops between its last artifact and `finalizeDoc`.

Every property has a mutant in `PROJECT.json`: one mapped definition with a
plausible mistake, under which TLC reports that property violated in that run.

**Why the bounds are enough.** Conflicts over rows are pairwise: two calls, two
tuples of a lease (a fence and its successor), two epochs, two resources that
share an attempt, exhaust every order of the waits; three result ids allow two
commits and one id lost to a rollback. A slot's operations touch that slot, so one
delivery with all outside events covers its life, two cover versions, and three
is the least number with both queues waiting behind an occupied place. In the
pool two requests let one lease remain while another closes, and three bundles let a
release be opened again beside one that is closing; any number of requests, drainers
and releases is a matter of the proofs. The catalogue's run has no pins: pinned releases
are in the liveness run, and `CatalogConsistentHolds` has any number of them. The limits
of admission are configured once in a run; `WithinLimitsHolds` speaks of every
configuration. A sweep's errors need one document it recorded and one it missed, and
days up to the overlap. A stage's errors need one document in two copies and one
fault. Validity needs a base and two consolidations, relations a chain of three.
A parser's state is at most a few levels deep: four or five lines open, interrupt
and reopen every level, and let one of them be a list item, a quotation or an insert
that carries the number expected next; DOCX and HTML need a start, an inner start, text and both
ends. The catalogue starts from releases activated before, so that two operators
meet at a rollback and one publisher meets a collector within five versions; its
history and fences are bounded by `MaxVersion` and `MaxFence`. The sandbox may burn
one unit of CPU more than its budget, write twice and lose one call; its cases cut
the one step relation by fault, by CPU and by writes, because each property needs
only two of the three. Of three runners two have the same work, so that a result can be
replayed, and one has a clock that is behind, so that it believes in a grant that has
ended; the cases cut the step relation by fencing, by replay and by control. The main
results on ledger, admission, pool, catalogue, sandbox and runners are proved for all
values.

## 4. Fairness

Only what the code or its servers schedule is fair. Clients, operators,
publishers and clocks may stop, unless a line says otherwise; faults are finite.

* `IntakeLedger`: a statement that runs ends (weak); PostgreSQL grants row locks
  in queue order (strong fairness of the lock waits). The same for
  `DocumentStore` (weak for reads, resolution, check and commit; strong for the
  lock of the grant and for inserts that wait on an index entry), `Acceptance`
  (weak for its statements, strong for its locks) and `SourceLocks` (weak).
* `DocumentAdmission`: the control workflow keeps sweeping, and a terminal chain is
  observed if asked again and again. Strong, because other operations invalidate
  an observation in between. Workers and operators may stop.
* `DocumentWorkflow`: Temporal schedules workflow tasks and activities, repeats the
  sweep, and an activity that lost its lease claims it again (weak).
* `ReleasePool`: scheduled goroutines run; a request ends, because every operation
  closes its pin in a deferred call; a bundle opened again and again opens.
* `ReleaseCatalog`: a transaction that has begun goes on.
* `OAuthServer`: handlers go on (weak); a browser that retries begins again and the
  credential's lock is granted in queue order (strong).
* `Retrieval`: a search goes on (weak); its connection is not cut for ever.
* `FetchLedger`: goroutines of a slice and of a job run (weak); the command is
  repeated, so discovery, claims and the clock recur (strong). `Discovery`: a sweep goes
  on and is begun again and again without a full scan (weak).
* `DocumentStages`: a stage goes on and fetches end (weak); `RunAll` without force
  and limit is started again and again (strong).
* `Validity`: workers go on and a page is started (weak). `Relations`: workers go on
  (weak), commands and backfill are repeated (strong).
* `CorpusRun`: the clock ticks, runners go on except for the executor's answer,
  locks are granted (strong). `CorpusRefresh`: workflow, calls and clock go on.
* `OcrShard`, `EmbedShard`, `KaggleJob`: owner, provider and client go on; a
  stopped export is resumed.
* `Sandbox`: the supervisor runs, contexts end at their deadline. `Converter`: its
  steps go on.

Parsers, converters and chunks have safety properties only: they end by their
bound.

## 5. Proofs

The theorems hold for every number of owners, resources, attempts, calls,
deliveries, versions, requests, drainers, releases, publishers, operators, pins,
collectors, runners, source transactions, accounts, browsers, callbacks and token
requests, and for every bound. They rest on the assumptions of the modules,
which the suites evaluate for their instances: `ConstantsAssumption` (each owner
has a writer identity, a content has a known acceptance state, bounds are natural
numbers), `AdmissionAssumption` (finitely many deliveries, numbered from 1; an
operator configures at least one processing place and no more than there are open
ones, as `DocumentAdmissionLimits` requires), `PoolAssumption` (finitely many
requests, none of which is a drainer, at least one release), `BudgetAssumption`
(the sandbox's bounds are natural numbers), `RunAssumption` (finitely many runners,
whose clocks differ from the database's by any whole number; what a result counts is a
natural number) and `CatalogAssumption` (the releases
activated so far were published, validate, and none was activated twice in a row;
an operator's call is no other session's), `IdentityAssumption` (lifetimes and bounds
are natural numbers, the first epoch is 1, a callback is no other request) and
`JobAssumption` (finitely many source transactions; a page that a transaction
registers belongs to a window it names). `BudgetAssumption`, `CatalogAssumption`,
`IdentityAssumption` and `JobAssumption` are hypotheses of their theorems and not
`ASSUME`s of the module; the suites evaluate them for each instance.

| theorem | says, of every reachable state or step |
|---|---|
| `IntakeLedger_proofs!SingleReceiptHolds` | one stored row per unit of work and epoch; a receipt names it |
| `FencedWritesHolds` | nothing is committed under a superseded admission or lease |
| `ProjectionIsLatestHolds` | the projection of an attempt is its newest event |
| `ResultsDecidedHolds` | a decided result has its decision; the results of a resource were written in the order of its fences |
| `NeverDowngradedHolds`, `TypeCorrect` | an accepted attempt stays so; types |
| `Refinement` | the ledger implements `AtomicLedger` |
| `LocksOrderedHolds` | a row has one holder; a body of a source transaction has locked every page and host of its windows; no group of source transactions waits for itself |
| `DocumentAdmission_proofs!AdmissionSoundHolds` | evidence is settled before a closure, replays find their effect, queues take turns |
| `OneLiveSlotHolds` | one slot of a version is open |
| `WorkersHoldCapacityHolds` | who may still apply occupies a processing slot under its grant |
| `WithinLimitsHolds`, `ReplacementSparedHolds` | no step admits beyond the limits; a closure cancels no lease but its own |
| `Serving_proofs!LeasedOpenHolds` | a leased bundle is open and reachable |
| `BundlesAccountedHolds` | one closer, one open bundle of a release, no deletion under a lease with its hold |
| `EvidenceRetainedHolds` | no answer comes from a deleted release |
| `CatalogConsistentHolds` | one release is active, its predecessor retired, each with its hold; an answer of `Activate` is in the history; a claim excludes every use; fences are unique |
| `ReadinessForwardHolds` | failed stays failed, a selected release only retires |
| `LoginsSafe` | a login makes one session; a session is made for an active account in its epoch; the session that a login replaces has ended |
| `ServerLoginsSafe` | the same for the whole authorization server |
| `Workers_proofs!AttemptContainedHolds` | no task is left while an output is validated or sealed, both phases stay within one budget, a leak is named |
| `FinalSampleExactHolds` | a teardown without error sampled the CPU when nothing could burn any more |
| `RunsAccountedHolds` | results of a stage were written in the order of their fences, by the current holder; what was answered is stored, what is stored is counted; a cancelled run does not complete |
| `NotReleasedByOthersHolds` | no step of one runner ends the grant of another |

### The ledger

`FencedWrites` is not inductive: that the tuple is current at commit depends on
what was checked before, on the locks held since, and on nobody changing a locked
row. `IInv` adds exactly that:

* `WorkInv`: a running call has a request, and its mode fits its place in Apply;
* `AdmissionInv`: while any call runs, the admission row is the one its request
  names, because rotation waits for the shared lock;
* `LeaseInv`: once a call has the lease lock the row still has its tuple and is
  not cancelled;
* `LockInv`: two calls never hold one lease row or one acceptance lock;
* `StoredInv`: what a call has read of the stored rows stays true while it holds its
  lease, because only that lease's holder can write the same key;
* `IdInv`: ids in use, committed or pending, are distinct and not above the
  sequence;
* `AcceptanceInv`: what a call checked against the projection stays true while it
  holds the acceptance lock.

`Invariance` proves `Spec => []IInv`, one lemma per action. `SingleReceipt`,
`FencedWrites` and `NeverDowngraded` follow from it. `ProjectionIsLatest` is inductive beside it: an event takes the id of
its result, `IdInv` keeps that id apart from every other and `AcceptanceInv` keeps
it above the watermark until the commit. `ResultsDecided` needs two more parts:
`DecisionInv` (a call past `ApplyResolve` that needs a decision has found one, and
decisions are never removed) and `OrderInv` (a stored result's fence is at most
its resource's, and the id of a call that is about to write is above all that are
stored of the resource, because the lease lock is held from before the id is drawn
until the commit).

`Refinement` proves `Spec => ImplementsAtomicLedger`: initial states map to
initial states; rotation, a lease's claim or reclaim and the commit of a fresh row
map to the actions of `AtomicLedger`; everything else is a stutter.

### Source locks

`prelockSourceAccounting` reads the pages of its windows only when it holds the
windows, and the hosts of those pages only when it holds the pages, so the set of rows
a transaction wants is not known when it starts. The parts of `LocksIInv`:

* `HolderInv`: a row has one holder, which is still running;
* `ReachedInv`: a transaction holds rows of classes it has reached, and in the class it
  is locking they come before the ones that are left;
* `ReadInv`: the windows of the payload are locked before a page is read; the pages of
  the locked windows, and their hosts, are locked or still to be locked. A commit that
  adds a page keeps it, because the page's window is then locked by the committing
  transaction and so by nobody else.

`BodyHoldsAll` follows from `ReadInv`. For `NoCircle`, `MoreDone` compares the places
of two transactions (the class first, then the least key that is left): it is a strict
order, and whoever is waited for is further (`WaitsForMoreDone`). A group in which
everybody waits for one of the group would have no furthest member; the sets of members
ahead of each, ordered by strict inclusion, are finite and have a minimal one.

### Admission

What a slot may still become depends on the lease it is bound to, on the
permission an activity carries, and on when evidence can exist at all. The parts
of the invariant:

* `TypeInv`: types, with each slot at most once in the resume queue;
* `FenceInv`: a slot and a permission name a fence that was granted, and no lease is
  from a future epoch. So a grant that is lost stays lost, and a new one has a fence
  nobody names;
* `PermitInv`: while a permission is good its slot is processing under the same
  fence and nothing is unsettled. Every operation that would take the place away
  needs the opposite of one of the three, or cancels the lease as it does so;
* `EvidenceInv`: a closed slot is settled, and before processing there is none;
* `EffectInv`: a processing slot has been bound, not only while its lease lives;
* `TurnInv`: a queue that was passed over has the turn, so it is not passed again;
* `OneLiveSlot` is inductive with the check in `HasRoom`.

`Transitions` first shows that every operation is one of eight transitions of one
slot, each with what the code has checked for it (`Reserves`, `Binds`, `Settles`,
`RequestsResume`, `Resumes`, `Closes`, `Releases`, `LosesWorker`); the two ways to
settle, and the two to close, are one from there on. Each part has a lemma over
these eight. The steps of the world fall into four kinds: those under which no
lease gets better (`Fades`: rotation, expiry, cancellation, the sources, an
observation), a new grant, the age of a quarantine, and a permission given or
spent. `UndemandedKeeps` says that taking one slot out of the resume queue loses
no other.

`WithinLimits` follows from `Transitions` by the cardinality of finite sets, and
`ReplacementSpared` because only `Closes` writes a lease.

### The pool

`LeasedOpen` needs the meaning of the three fields of an entry. `IInv` says:
`refs` is the number of leases (`RefsInv`, by the cardinality theorems for finite
sets); a lease points to the entry its release has, which is not closing
(`LeaseInv`); an entry stays in the map until its bundle is closed, so every
bundle not closed is the entry of its release (`EntryInv`); closed bundles are
closing and closing entries are draining (`FlagInv`), which is why `acquire` may
share an entry by looking at `draining` alone; a closer is alone with its entry
and knows whether it closed it (`CloserInv`); a request keeps its hold until the
end (`HoldInv`).

### The catalogue

An activation reads the selection, checks the release, locks its row, evaluates
its statement, waits for the activation row and the row of the release it retires,
and commits. What it read first is old by then, and a claim must not have come in
between. The parts of the invariant:

* `LockInv`: whoever is inside a transaction holds the rows it works on, and the
  operator that retires holds the activation row. So the history changes under
  nobody who waits to commit;
* `OperatorInv`: past the selection check, the request names what was current at
  its version; at the commit that version is the last one, and the release is
  available, unclaimed and not the current one. Availability is stable because
  publishers write candidates and validated releases only (`Readies`), and the
  claim because a collector claims rows it has locked;
* `FenceInv`: nobody was handed a fence above the claim's, the one who has the
  claim's own fence is its owner, and the fence of a row about to be claimed can grow;
* `SelectionConsistent`, `HonestActivation`, `ClaimExcludesUse` and `UniqueFence`
  are inductive beside them.

`LocksKept` and `OthersAsk` say once and for all that a step of one session, which
respects foreign locks (`LockStep`) and only lengthens the history (`Extends`),
keeps what the others checked. Each action is then shown to be such a step:
`OperatorStep`, `CollectStep`, or a step of a pin or publisher. `CommitSwitches` is
the heart: what was checked before the two waits holds at the commit.
`ReadinessForward` follows from the shapes `Readies` and `Switches`.

### Logins and sessions

A callback consumes its login transaction, fetches the profile, revokes the session its
cookie names, locks the account and inserts the new session, in steps between which the
browser may repeat the callback, the account may be blocked and the cleanup may run.
The parts of `IdentityIInv`:

* `LoginInv`: a login that was consumed belongs to one callback on its way or to the one
  session it made, also when cleanup has deleted its row;
* `AccountInv`: a callback past the check of the status holds the lock of an account
  that is active, because a block waits for that lock;
* `OldInv`: past the revocation the session a callback came with has ended, and no step
  revives a session.

The authorization server shares the clock, the accounts, the sessions and their locks.
`Outside` says what it may do to them: lock and unlock accounts that no callback holds,
change the consent handle of a cookie, start a login, and lose all requests in a restart.
`LoginsSafe` is proved with such steps added to those of `Identity`, and `ServerStep` shows
that each action of `OAuthServer` is a step of `Identity` or one of these, so
`ServerLoginsSafe` follows.

### The sandbox

`Run` starts a container for each phase, samples it, and tears it down from one of
two goroutines: its own loop, or the one that the end of the context starts. What a
receipt may say depends on what the teardown established before, so the invariant
follows it through its steps:

* `BoxInv`: a container that was never started, or that is removed, has no tasks;
* `PlaceInv`: where the supervisor is, and what it knows there. Before the launch
  nothing was started; behind the client the teardown is final; a decision is made on a
  phase that is cleanly down; at the seal the hash is that of the file on disk;
* `PhaseInv`: the second phase begins when the first is removed and its CPU is booked;
* `CancelInv`: only the end of the context starts the second goroutine;
* `TeardownInv`: one of the two holds the teardown at a time, never after it is final; the
  snapshot is taken of an exited container, `rm` finds no tasks, and from there on the
  sample is the CPU that was burned or the sample is lost; a final teardown has removed
  everything or failed, and named what stayed;
* `ReceiptInv`: a sealed attempt is cleanly down, within the budget, with the hash of
  the file; and `LeakNamed`.

`BudgetHeld` speaks of what was burned and not of what was sampled. It follows
because a sealed attempt's last samples were exact (`TeardownInv`) and the first
phase's was booked before the second began (`PhaseInv`). `FailureKeeps` and
`LoopKeeps` are the two lemmas most actions share: a failure ends the attempt where
nothing was started or the teardown named what is left, and the monitor moves on
without touching a box.

### The runners

A runner takes the scheduler's lease, waits for the executor by its own clock, and
commits in a transaction that locks the lease row again. By then its lease may have
expired and been granted to another, its context may have ended, and another runner
may have stored the same work. The parts of the invariant:

* `GrantInv`: each fence is granted once, the row's fence is the number of grants, and
  a runner's fence is at most that. So two runners never name one fence, which is all
  that `NotReleasedByOthers` needs;
* `RowLockInv`: the row lock is held by exactly the runner that is inside its
  transaction, and while it is there the row has its fence: nobody can be granted the
  lease before the commit;
* `StoreInv`: a key is stored once, with a valid result; fences grow along the stored
  results and none is above the row's;
* `CallInv`: what a runner read of the results and counts stays true until its commit,
  and what it is about to answer is stored;
* `ControlInv`: where a run's status can be, given what was requested of it.

`CallKeeps`, `AppendKeeps` and `GrantKeeps` carry what the others have checked over a
step, an append and a grant. `StoredAccounts` and `AnsweredIsStored` then follow from
`CallInv` at the commit, `FencedOrder` from `RowLockInv` and `StoreInv`.

### Only model-checked

* Liveness and everything that needs `ENABLED` are out of the prover's reach.
* What a recursive definition computes for every input (trees, derivations,
  evidence chains, chunks, the pages of a sweep) would need induction over data.
* `Sources`, `Acceptance`, `DocumentStore`, `StagedOutputs`, the shards, `Validity`,
  `Relations` and `Retrieval` count, sum or search with folds and with recursive
  functions over sequences; what those return is known by induction over data only.
* Of `OAuthServer`, `LinearFamily` and the other properties of grants and tokens.
* `TransactionsEnd` of `ReleaseCatalog` is liveness.
* `FetchLedger`, `DocumentStages`, `DocumentWorkflow` and `CorpusRefresh` could be
  proved about, and are next (section 8).

## 6. What the checks say about the code

**A superseded document can be left in force** (`validity_race`, the run that
expects a violation). `upsertValidityPeriod` says "Converges regardless of
observation order" (`src/pkg/pipeline/normalize_activities.go:773`). Two workers of
one page normalise two policy documents of Bank Negara: the old one's guard reads
no status yet, its successor writes the expired row, and the old one's own write
closes that row and inserts `in_force`. Nothing expires it again.

The modules also state properties that the code's own words promise and that the
model does not have, as each has a counterexample. The runs include the cases of
`FetchLedger`, `Discovery`, `Validity`, `Relations`, `OcrShard`, the parsers and
`Chunking` named here, and the properties they check claim only what holds beside
them; their comments say what that leaves out. Where the table says "in full", a
property is meant without the exceptions its definition now makes.

| module, property | what happens | against |
|---|---|---|
| `DocumentWorkflow`, `QuarantineOutlivesLease` | `documentAdmission` settles before it binds: after a waiting document's lease lapsed and was claimed again, the settle is refused for ever (`document_ingest_v2.go:344`) | a quarantine outlives its worker |
| `FetchLedger`, `ReplanPicksUpURLs` | a done mark names the artifact by id, not by the lease that claimed it; a re-pointed file completes with the old download (`fetch_activities.go:414`) | `sql/ingest/queries.sql:147` |
| `FetchLedger`, `ReopenedIsReplanned` | a plan writes what it read although discovery re-opened the document meanwhile (`fetch_activities.go:229`) | `sql/ingest/queries.sql:22` |
| `FetchLedger`, `InterruptedSettle` | a job that stops between its last artifact and `finalizeDoc` leaves the document fetching (`:420`) | `sql/ingest/queries.sql:502` |
| `Discovery`, `NothingLost` | a run with a limit stores a watermark past the documents it skipped (`activities.go:244`) | `activities.go:174` |
| `Discovery`, `IncompleteNotPassed` | a listing whose failure is swallowed still advances the cursor (`ojk/discover.go:78`) | `activities.go:266` |
| `Discovery`, `FirstRunIsFull` | a document listed during the first sweep pushes another onto a page that is not read (`bpk/discover.go:266`) | `bpk/discover.go:177` |
| `DocumentStages`, `Seals` | a source without a status reopens a document in every run (`normalize_activities.go:773`) | `process_activities.go:908` |
| `DocumentStages`, `LateTextUsed` | after a placeholder row a file fetched later is not extracted (`process_activities.go:815`) | `docs/design/pipeline.md:109` |
| `DocumentStages`, `BindingWins`, `RejectedNotServed`, `ContextReopens` | a binding text that comes late, a rejected text, a class that changed: the selector does not see the document (`process_activities.go:876`, `normalize_activities.go:120`, `process_activities.go:1000`) | `docs/design/pipeline.md:144`, `:168`, `normalize_activities.go:111` |
| `Validity`, `FamilyAgrees` | a base normalised after its consolidation leaves that one unknown (`vbhn_validity.go:139`) | `vbhn_validity.go:18` |
| `Validity`, `OneOpenRow` | a consolidation's own write is outside the lock that the derivation takes (`vbhn_validity.go:169`), so with two workers the publisher's row and the derived one may both stay open | `vbhn_validity.go:158` |
| `Relations`, `SharedNumbersStayStubs` | a pointer outlives the uniqueness it rests on; a document without a type has the number alone as its key, and resolves it without the test (`process_activities.go:1282`) | `process_activities.go:1291` |
| `Relations`, `TargetsEnqueued`, `PointersKept` | skipped candidates starve the others; a key with a colon clears a pointer | `relation_backfill.go:48`, `resolve_refs.go:163` |
| `Relations`, every structured reference has an edge | one with an id and no number is skipped (`relation_evidence.go:166`) | `relation_evidence.go:289` |
| `Relations`, replaces edges are always there | RecomputeRelations deletes edges it does not make, and a pass that is interrupted does not put them back; the next pass of Normalize over the document does | `recompute_relations.go:19` |
| `OcrShard`, each document counted once | a row that the output repeats is counted again (`ocr_all.go:264`) | `ocr_all.go:59` |
| `KaggleJob`, `NothingLingers`, `InputRemoved` | no cleanup after a create whose reply was lost; the input is never removed | `kagglebatch.go:225`, `sagebatch.go:72` |
| `Sandbox`, `TreeTerminated` | the caller's own deadline leaves no time to kill the container; the receipt names it (`launcher_linux.go:264`) | `supervisor_linux.go:198` |
| `Retrieval`, `OneSlotPerProvision`, `NamedSurfaces`, `StrictIsCurrent`, `PromotedAboveWeakest` | twins with different representatives both stay; a named document without a row disappears; filter and badge are two snapshots; the weakest hit is not the last | `retrieve.go:786`, `:697`, `api.go:200`, `retrieve.go:2212` |
| `MalaysiaParse`, `SectionsAreReal` in full | a list item with the next number opens a section | `malaysiaparse.go:258` |
| `SingaporeParse`, `AlphaRun`, `SectionsAreReal`, `UniquePaths` in full | inline items skip the test for sub-items; an arrangement with parts is read as sections; an empty slug gives an empty path | `singaporeparse.go:310`, `:99`, `malaysiaparse.go:615` |
| `ThailandParse`, `UniquePaths` in full, `ReadingOrder` | an insert that is read twice shares a path; printed numbers are not an order of siblings | `malaysiaparse.go:615`, `legalparse.go:17` |
| `IndonesiaParse`, `PasalsAreReal`, `ExplanationApart` in full | a quoted article with the next number is opened; the general explanation goes to the last article | `indonesiaparse.go:325`, `:352` |
| `VietnamParse`, `QuotesAreText` in full | a quotation within a quotation ends the outer one | `legalparse.go:222` |
| `Chunking`, `UniqueCitations`, `ArticleVerbatim`, `LinesKept` in full | repeated labels cite alike; with children of two kinds only one kind is kept | `docs/design/rag.md:29` |

Behaviours that hold by design, and that no property forbids:

* the binding of a decision carries a fence, so a decided result that committed
  before its worker crashed is a payload conflict, and not a replay, for the worker
  that takes over;
* the expiry filter of a reclaim is evaluated before the row lock is granted, so a
  lease may be handed out that has expired already; every check treats it as dead;
* a launch head whose lease is not live holds up the launches behind it;
* `Drain` runs once per activation: a later pin by name reopens a retired
  release, and nothing drains it again; an activator that is late after a rollback
  may drain the current release, which is refused until its old leases end;
* a failed `Bundle.Close` is retried only by the next acquire or drain.

## 7. Not modelled

The evidence service and its HTTP and MCP rendering read one published release.
The quality checks score a document without state. Evaluation, configuration,
start-up and one-off tools have no protocol. Blob staging, the capture client, the
OCR client of Document AI and the HTTP clients of publishers are I/O, whose
failures the models of their callers take as a fault. The country registry is
data. The durable frames of the source and control workflows are left out; what
they call is modelled. The Cambodian parser, the PDF and Markdown renderers of the
old extractors and the keyset batch runner are left out for now. Receipts that
were tampered with (`ErrAdmissionIntegrity`) are outside the model.

## 8. Plan

1. `FetchLedger`: the body of a complete document is the one its fingerprint names.
2. `OAuthServer`: a family has one line of live credentials (`LinearFamily`), on top of
   the invariant of the logins.
3. `Acceptance` with cardinalities in the place of its folds, so that `OneBaseline` can
   be proved.
