--------------------------------- MODULE MCPipeline ---------------------------------
(***************************************************************************)
(* Small instances of the batch pipeline: sweeps of a source, the fetch    *)
(* ledger, the stages from Extract to Embed, the validity rows and the     *)
(* relations between documents.  A behaviour is one case.                  *)
(***************************************************************************)
EXTENDS Integers, Sequences, FiniteSets, SequencesExt

CONSTANTS
    Cases,         \* the cases of a run
    PolicyWorkers  \* the validity workers of the case "superseded"

VARIABLES case,
  site, doc, art, fetchBronze, aliased, job, slice, fetchFaults, backfills, client, today, feed,
  watermark, recorded, sweep, sweepFaults, fetch, stageBronze, rechecks, aliases, texts, sections,
  validity, class, chunks, embedded, plan, force, cursor, pc, fd, todo, seen, stageFaults, present,
  status, related, replaced, open, validityPage, validityWork, lock, clock, validityFaults,
  provenance, documents, alias, extracted, refs, point, evidence, edges, normalized, command, work,
  relationFaults,
  exempt         \* documents a known deviation has touched (below)

suite == <<case,
  site, doc, art, fetchBronze, aliased, job, slice, fetchFaults, backfills, client, today, feed,
  watermark, recorded, sweep, sweepFaults, fetch, stageBronze, rechecks, aliases, texts, sections,
  validity, class, chunks, embedded, plan, force, cursor, pc, fd, todo, seen, stageFaults, present,
  status, related, replaced, open, validityPage, validityWork, lock, clock, validityFaults,
  provenance, documents, alias, extracted, refs, point, evidence, edges, normalized, command, work,
  relationFaults, exempt>>

Off == "off"  \* the variables of the components a case leaves alone

-------------------------------------------------------------------------------
(* One document of a source, without a file, with one, and with a tree. *)
Closing == {"recheck", "clear", "finalize"}
AnyStep == Closing \cup {"start", "plan", "tree", "files", "ready", "skip", "keep", "store", "fail", "mark"}

Plans == INSTANCE FetchLedger WITH
  Docs <- {"d1"}, Files <- {}, Jobs <- {"j1", "j2"}, Slices <- {"s1"}, Trees <- FALSE,
  Lease <- 2, Backoff <- 1, TreeDelay <- 1, MaxAttempts <- 2, MaxTreeRechecks <- 0,
  MaxContentRechecks <- 0, MaxRevision <- 2, MaxFaults <- 0, MaxBackfills <- 0,
  Overlapping <- TRUE, Windows <- AnyStep, bronze <- fetchBronze, faults <- fetchFaults
WithFile == INSTANCE FetchLedger WITH
  Docs <- {"d1"}, Files <- {"f1"}, Jobs <- {"j1"}, Slices <- {"s1"}, Trees <- FALSE,
  Lease <- 2, Backoff <- 1, TreeDelay <- 1, MaxAttempts <- 1, MaxTreeRechecks <- 0,
  MaxContentRechecks <- 0, MaxRevision <- 2, MaxFaults <- 1, MaxBackfills <- 0,
  Overlapping <- TRUE, Windows <- AnyStep, bronze <- fetchBronze, faults <- fetchFaults
Fetches == INSTANCE FetchLedger WITH
  Docs <- {"d1"}, Files <- {}, Jobs <- {"j1"}, Slices <- {"s1"}, Trees <- TRUE, Lease <- 2,
  Backoff <- 1, TreeDelay <- 1, MaxAttempts <- 1, MaxTreeRechecks <- 1, MaxContentRechecks <- 0,
  MaxRevision <- 2, MaxFaults <- 1, MaxBackfills <- 0, Overlapping <- FALSE, Windows <- AnyStep,
  bronze <- fetchBronze, faults <- fetchFaults

\* Discovery re-opens a document while a job works on it: what the job writes is old, and a
\* later plan does not fetch again what it marked done.
Overtaken ==
  exempt' = exempt \cup {d \in DOMAIN doc : doc'[d].hash # doc[d].hash /\ \E j \in DOMAIN job : job[j].doc = d}

\* A job stops after its last artifact is marked, and nobody finalizes the document.
CutShort ==
  exempt' = exempt \cup {job[j].doc : j \in {i \in DOMAIN job : /\ job[i].pc \in Closing
                                                           /\ fetchFaults' # fetchFaults /\ job'[i].pc = "idle"}}

RestFetch == UNCHANGED <<case, client, today, feed, watermark, recorded, sweep, sweepFaults, fetch, stageBronze, rechecks,
  aliases, texts, sections, validity, class, chunks, embedded, plan, force, cursor, pc, fd, todo,
  seen, stageFaults, present, status, related, replaced, open, validityPage, validityWork, lock,
  clock, validityFaults, provenance, documents, alias, extracted, refs, point, evidence, edges,
  normalized, command, work, relationFaults>>
IdleFetch ==
  /\ client = Off /\ today = Off /\ feed = Off /\ watermark = Off /\ recorded = Off /\ sweep = Off
  /\ sweepFaults = Off /\ fetch = Off /\ stageBronze = Off /\ rechecks = Off /\ aliases = Off
  /\ texts = Off /\ sections = Off /\ validity = Off /\ class = Off /\ chunks = Off
  /\ embedded = Off /\ plan = Off /\ force = Off /\ cursor = Off /\ pc = Off /\ fd = Off
  /\ todo = Off /\ seen = Off /\ stageFaults = Off /\ present = Off /\ status = Off /\ related = Off
  /\ replaced = Off /\ open = Off /\ validityPage = Off /\ validityWork = Off /\ lock = Off
  /\ clock = Off /\ validityFaults = Off /\ provenance = Off /\ documents = Off /\ alias = Off
  /\ extracted = Off /\ refs = Off /\ point = Off /\ evidence = Off /\ edges = Off
  /\ normalized = Off /\ command = Off /\ work = Off /\ relationFaults = Off

-------------------------------------------------------------------------------
(* Two sub-listings of a source, by kind of client. *)
Incremental == {"vbpl", "sbvhanoi", "vanban", "congbao", "bi", "sec"}

Sweeps == INSTANCE Discovery WITH
  Clients <- Incremental, Units <- {1, 2}, PageSize <- 1, MaxPages <- 4, Overlap <- 2,
  Lookback <- 2, YearLength <- 2, FirstDay <- 10, LastDay <- 12, MaxDocs <- 2, MaxFaults <- 1,
  Limits <- {0, 1}, Ahead <- 0, Busy <- TRUE, faults <- sweepFaults, cursor <- watermark, run <- sweep
Settles == INSTANCE Discovery WITH
  Clients <- {"bpk", "ojk"}, Units <- {1, 2}, PageSize <- 1, MaxPages <- 4, Overlap <- 2,
  Lookback <- 2, YearLength <- 2, FirstDay <- 10, LastDay <- 11, MaxDocs <- 2, MaxFaults <- 0,
  Limits <- {0}, Ahead <- 3, Busy <- FALSE, faults <- sweepFaults, cursor <- watermark, run <- sweep
Partial == INSTANCE Discovery WITH
  Clients <- {"bpk", "ojk"}, Units <- {1, 2}, PageSize <- 1, MaxPages <- 4, Overlap <- 2,
  Lookback <- 2, YearLength <- 2, FirstDay <- 10, LastDay <- 12, MaxDocs <- 2, MaxFaults <- 1,
  Limits <- {0}, Ahead <- 0, Busy <- TRUE, faults <- sweepFaults, cursor <- watermark, run <- sweep
Recording == INSTANCE Discovery WITH
  Clients <- {"vbpl", "vanban", "bpk", "mas"}, Units <- {1, 2}, PageSize <- 1, MaxPages <- 4,
  Overlap <- 2, Lookback <- 2, YearLength <- 2, FirstDay <- 10, LastDay <- 11, MaxDocs <- 2,
  MaxFaults <- 1, Limits <- {0}, Ahead <- 0, Busy <- TRUE, faults <- sweepFaults,
  cursor <- watermark, run <- sweep

\* A run at its limit passes a wanted document, a client swallows a failed request of a
\* listing, or a document appears in one whose pages were counted before.
Passed ==
  LET ids(u) == {d.id : d \in ToSet(feed'[u])}
      limited == {d \in ToSet(sweep.out) : /\ sweep.pc = "record" /\ sweep'.pc = "record" /\ d = Head(sweep.out)
                                          /\ Sweeps!Wanted(d) /\ sweep'.count = sweep.count}
      swallowed == {u \in DOMAIN feed : sweepFaults' # sweepFaults /\ sweep'.pc = "list" /\ ~sweep'.err
                                         /\ sweep.page[u] # sweep'.page[u]}
      crowded == {u \in DOMAIN feed : feed'[u] # feed[u] /\ sweep.pc = "list" /\ Sweeps!Rule.pages = "fixed"}
  IN exempt' = exempt \cup {d.id : d \in limited} \cup UNION {ids(u) : u \in swallowed \cup crowded}

RestDiscovery == UNCHANGED <<case, site, doc, art, fetchBronze, aliased, job, slice, fetchFaults, backfills, fetch,
  stageBronze, rechecks, aliases, texts, sections, validity, class, chunks, embedded, plan, force,
  cursor, pc, fd, todo, seen, stageFaults, present, status, related, replaced, open, validityPage,
  validityWork, lock, clock, validityFaults, provenance, documents, alias, extracted, refs, point,
  evidence, edges, normalized, command, work, relationFaults>>
IdleDiscovery ==
  /\ site = Off /\ doc = Off /\ art = Off /\ fetchBronze = Off /\ aliased = Off /\ job = Off
  /\ slice = Off /\ fetchFaults = Off /\ backfills = Off /\ fetch = Off /\ stageBronze = Off
  /\ rechecks = Off /\ aliases = Off /\ texts = Off /\ sections = Off /\ validity = Off
  /\ class = Off /\ chunks = Off /\ embedded = Off /\ plan = Off /\ force = Off /\ cursor = Off
  /\ pc = Off /\ fd = Off /\ todo = Off /\ seen = Off /\ stageFaults = Off /\ present = Off
  /\ status = Off /\ related = Off /\ replaced = Off /\ open = Off /\ validityPage = Off
  /\ validityWork = Off /\ lock = Off /\ clock = Off /\ validityFaults = Off /\ provenance = Off
  /\ documents = Off /\ alias = Off /\ extracted = Off /\ refs = Off /\ point = Off
  /\ evidence = Off /\ edges = Off /\ normalized = Off /\ command = Off /\ work = Off
  /\ relationFaults = Off

-------------------------------------------------------------------------------
(* One document in the copies of one or two publishers. *)
NothingCarried == [docx |-> "none", html |-> "none", doc |-> "none", pdf |-> "none",
          scan |-> "none", tree |-> FALSE, status |-> ""]

VNSource(f) == <<"vanban", "congbao", "vbpl">>[f]

\* vbpl carries a tree and a status, the portal a file without status.
TreeContents(f) ==
  CASE f = 1 -> {[NothingCarried EXCEPT !.docx = o] : o \in {"ok", "weak", "fail"}}
    [] f = 3 -> {[NothingCarried EXCEPT !.tree = t, !.html = o, !.status = "in_force"] :
                   t \in BOOLEAN, o \in {"ok", "poor"}}
    [] OTHER -> {NothingCarried}

\* The same where each publisher's copy can be read by itself.
ReadableContents(f) ==
  {c \in TreeContents(f) : c.docx = "ok" \/ c.html = "ok" \/ c.tree} \cup
  (IF f = 2 THEN {NothingCarried} ELSE {})

\* The better publisher's copy has the lower id.
LateSource(f) == VNSource(4 - f)
LateContents(f) == TreeContents(4 - f)

Trees == INSTANCE DocumentStages WITH
  FetchDocs <- {1, 3}, Source <- LateSource, Contents <- LateContents, Listed <- {1, 3},
  Vbpl <- {1}, Fallbacks <- {}, RelationDocs <- {3}, OutOfScope <- TRUE, UnknownInForce <- TRUE,
  Commands <- {"extract", "normalize", "ocr", "index", "embed"}, Forced <- {TRUE, FALSE},
  MaxRounds <- 2, MaxRechecks <- 1, MaxFaults <- 2, bronze <- stageBronze, faults <- stageFaults
Settling == INSTANCE DocumentStages WITH
  FetchDocs <- {1, 3}, Source <- VNSource, Contents <- ReadableContents, Listed <- {1, 3},
  Vbpl <- {3}, Fallbacks <- {}, RelationDocs <- {}, OutOfScope <- FALSE, UnknownInForce <- TRUE,
  Commands <- {"extract", "normalize", "ocr", "index", "embed"}, Forced <- {FALSE}, MaxRounds <- 2,
  MaxRechecks <- 1, MaxFaults <- 1, bronze <- stageBronze, faults <- stageFaults

RestStages == UNCHANGED <<case, site, doc, art, fetchBronze, aliased, job, slice, fetchFaults, backfills, client, today,
  feed, watermark, recorded, sweep, sweepFaults, present, status, related, replaced, open,
  validityPage, validityWork, lock, clock, validityFaults, provenance, documents, alias, extracted,
  refs, point, evidence, edges, normalized, command, work, relationFaults, exempt>>
IdleStages ==
  /\ site = Off /\ doc = Off /\ art = Off /\ fetchBronze = Off /\ aliased = Off /\ job = Off
  /\ slice = Off /\ fetchFaults = Off /\ backfills = Off /\ client = Off /\ today = Off
  /\ feed = Off /\ watermark = Off /\ recorded = Off /\ sweep = Off /\ sweepFaults = Off
  /\ present = Off /\ status = Off /\ related = Off /\ replaced = Off /\ open = Off
  /\ validityPage = Off /\ validityWork = Off /\ lock = Off /\ clock = Off /\ validityFaults = Off
  /\ provenance = Off /\ documents = Off /\ alias = Off /\ extracted = Off /\ refs = Off
  /\ point = Off /\ evidence = Off /\ edges = Off /\ normalized = Off /\ command = Off /\ work = Off
  /\ relationFaults = Off

-------------------------------------------------------------------------------
(***************************************************************************)
(* Vietnam: 1 is a base, 2 and 3 consolidate it, 3 is the newer one and    *)
(* names its base only in its text.  Malaysia: policy document 2 supersedes *)
(* 1, and 3 supersedes 2 and one of an ambiguous title.                     *)
(***************************************************************************)
IssuedInOrder(d) == d
FamilyBases(d) == IF d = 2 THEN {1} ELSE {}
FamilyText(d) == IF d = 3 THEN {1, 2} ELSE {}
Nothing(d) == {}
FamilyEnacting(d) == IF d = 1 THEN "passed" ELSE "none"
NoEnacting(d) == "none"
Never(d) == FALSE
FamilyEarly(d) == d = 1
FamilyCodes(d) == IF d = 1 THEN {"CHL", "HHL", "CCHL"} ELSE {""}
FixedCodes(d) == IF d = 1 THEN {"CHL"} ELSE {""}
NoCodes(d) == {""}
PolicySupersedes(d) == CASE d = 2 -> {{1}} [] d = 3 -> {{2}, {1, 2}} [] OTHER -> {}

Family == INSTANCE Validity WITH
  Docs <- 1..3, Workers <- {1}, Jurisdiction <- "vn", UnknownInForce <- FALSE,
  Consolidated <- {2, 3}, Issued <- IssuedInOrder, Bases <- FamilyBases, TextNames <- FamilyText,
  Enacting <- FamilyEnacting, EarlyEffect <- FamilyEarly, Codes <- FamilyCodes,
  Supersedes <- Nothing, MaxStarts <- 4, MaxFaults <- 1, faults <- validityFaults,
  page <- validityPage, work <- validityWork
Locked == INSTANCE Validity WITH
  Docs <- 1..3, Workers <- {1, 2}, Jurisdiction <- "vn", UnknownInForce <- FALSE,
  Consolidated <- {2, 3}, Issued <- IssuedInOrder, Bases <- FamilyBases, TextNames <- FamilyText,
  Enacting <- NoEnacting, EarlyEffect <- Never, Codes <- FixedCodes, Supersedes <- Nothing,
  MaxStarts <- 3, MaxFaults <- 1, faults <- validityFaults, page <- validityPage,
  work <- validityWork
Superseded == INSTANCE Validity WITH
  Docs <- 1..3, Workers <- PolicyWorkers, Jurisdiction <- "my", UnknownInForce <- TRUE, Consolidated <- {},
  Issued <- IssuedInOrder, Bases <- Nothing, TextNames <- Nothing, Enacting <- NoEnacting,
  EarlyEffect <- Never, Codes <- NoCodes, Supersedes <- PolicySupersedes, MaxStarts <- 6,
  MaxFaults <- 0, faults <- validityFaults, page <- validityPage, work <- validityWork
Healing == INSTANCE Validity WITH
  Docs <- 1..2, Workers <- {1, 2}, Jurisdiction <- "vn", UnknownInForce <- FALSE,
  Consolidated <- {2, 3}, Issued <- IssuedInOrder, Bases <- FamilyBases, TextNames <- FamilyText,
  Enacting <- NoEnacting, EarlyEffect <- Never, Codes <- FixedCodes, Supersedes <- Nothing,
  MaxStarts <- 4, MaxFaults <- 1, faults <- validityFaults, page <- validityPage,
  work <- validityWork

RestValidity == UNCHANGED <<case, site, doc, art, fetchBronze, aliased, job, slice, fetchFaults, backfills, client, today,
  feed, watermark, recorded, sweep, sweepFaults, fetch, stageBronze, rechecks, aliases, texts,
  sections, validity, class, chunks, embedded, plan, force, cursor, pc, fd, todo, seen, stageFaults,
  provenance, documents, alias, extracted, refs, point, evidence, edges, normalized, command, work,
  relationFaults, exempt>>
IdleValidity ==
  /\ site = Off /\ doc = Off /\ art = Off /\ fetchBronze = Off /\ aliased = Off /\ job = Off
  /\ slice = Off /\ fetchFaults = Off /\ backfills = Off /\ client = Off /\ today = Off
  /\ feed = Off /\ watermark = Off /\ recorded = Off /\ sweep = Off /\ sweepFaults = Off
  /\ fetch = Off /\ stageBronze = Off /\ rechecks = Off /\ aliases = Off /\ texts = Off
  /\ sections = Off /\ validity = Off /\ class = Off /\ chunks = Off /\ embedded = Off /\ plan = Off
  /\ force = Off /\ cursor = Off /\ pc = Off /\ fd = Off /\ todo = Off /\ seen = Off
  /\ stageFaults = Off /\ provenance = Off /\ documents = Off /\ alias = Off /\ extracted = Off
  /\ refs = Off /\ point = Off /\ evidence = Off /\ edges = Off /\ normalized = Off /\ command = Off
  /\ work = Off /\ relationFaults = Off

-------------------------------------------------------------------------------
(***************************************************************************)
(* Vietnam: 1 and 2 are listed; 1 names 3 (a relation target) and number   *)
(* 20, which documents 2 and 3 share; 3 names 4.  Malaysia: policy document *)
(* 1 replaces 2 and 3, and 2 replaces 3.                                    *)
(***************************************************************************)
OwnDocument(f) == f
OnePublisher(f) == "vbpl"
NumberOf(d) == CASE d \in {2, 3} -> 20 [] d = 4 -> 0 [] OTHER -> 10 * d
NamedTargets(f) == CASE f = 1 -> {2, 3} [] f = 3 -> {2, 4} [] OTHER -> {}
NamedByIdOnly(f) == IF f = 3 THEN {2} ELSE {}
FirstTargets(f) == IF f = 1 THEN {2, 3} ELSE {}
NamedNumbers(f) == IF f \in {1, 3} THEN {20} ELSE {}
ReplacesChain(f) == CASE f = 1 -> {2, 3} [] f = 2 -> {3} [] OTHER -> {}

Graph == INSTANCE Relations WITH
  Copies <- 1..4, Workers <- {1, 2}, Document <- OwnDocument, Source <- OnePublisher, Number <- NumberOf, Listed <- {1, 2},
  Translations <- {}, Targets <- NamedTargets, Unnumbered <- NamedByIdOnly, Untyped <- {2}, Numbers <- NamedNumbers, Replaced <- Nothing,
  Limit <- 2, Repairs <- {}, MaxFaults <- 1, faults <- relationFaults
Replacing == INSTANCE Relations WITH
  Copies <- 1..3, Workers <- {1, 2}, Document <- OwnDocument, Source <- OnePublisher, Number <- NumberOf, Listed <- 1..3,
  Translations <- {}, Targets <- Nothing, Unnumbered <- Nothing, Untyped <- {}, Numbers <- Nothing, Replaced <- ReplacesChain, Limit <- 2,
  Repairs <- {"force", "recompute"}, MaxFaults <- 1, faults <- relationFaults
Backfilling == INSTANCE Relations WITH
  Copies <- 1..3, Workers <- {1, 2}, Document <- OwnDocument, Source <- OnePublisher, Number <- NumberOf, Listed <- {1, 2},
  Translations <- {}, Targets <- FirstTargets, Unnumbered <- Nothing, Untyped <- {}, Numbers <- Nothing, Replaced <- Nothing, Limit <- 2,
  Repairs <- {}, MaxFaults <- 1, faults <- relationFaults
Repairing == INSTANCE Relations WITH
  Copies <- 1..3, Workers <- {1, 2}, Document <- OwnDocument, Source <- OnePublisher, Number <- NumberOf, Listed <- {1, 2},
  Translations <- {}, Targets <- FirstTargets, Unnumbered <- Nothing, Untyped <- {}, Numbers <- Nothing, Replaced <- Nothing, Limit <- 2,
  Repairs <- {"recompute"}, MaxFaults <- 1, faults <- relationFaults

RestRelations == UNCHANGED <<case, site, doc, art, fetchBronze, aliased, job, slice, fetchFaults, backfills, client, today,
  feed, watermark, recorded, sweep, sweepFaults, fetch, stageBronze, rechecks, aliases, texts,
  sections, validity, class, chunks, embedded, plan, force, cursor, pc, fd, todo, seen, stageFaults,
  present, status, related, replaced, open, validityPage, validityWork, lock, clock, validityFaults, exempt>>
IdleRelations ==
  /\ site = Off /\ doc = Off /\ art = Off /\ fetchBronze = Off /\ aliased = Off /\ job = Off
  /\ slice = Off /\ fetchFaults = Off /\ backfills = Off /\ client = Off /\ today = Off
  /\ feed = Off /\ watermark = Off /\ recorded = Off /\ sweep = Off /\ sweepFaults = Off
  /\ fetch = Off /\ stageBronze = Off /\ rechecks = Off /\ aliases = Off /\ texts = Off
  /\ sections = Off /\ validity = Off /\ class = Off /\ chunks = Off /\ embedded = Off /\ plan = Off
  /\ force = Off /\ cursor = Off /\ pc = Off /\ fd = Off /\ todo = Off /\ seen = Off
  /\ stageFaults = Off /\ present = Off /\ status = Off /\ related = Off /\ replaced = Off
  /\ open = Off /\ validityPage = Off /\ validityWork = Off /\ lock = Off /\ clock = Off
  /\ validityFaults = Off

-------------------------------------------------------------------------------
SuiteInit ==
  /\ case \in Cases /\ exempt = {}
  /\ \/ /\ IdleFetch
        /\ \/ case = "plans" /\ Plans!Init
           \/ case = "files" /\ WithFile!Init
           \/ case = "fetching" /\ Fetches!Init
     \/ /\ IdleDiscovery
        /\ \/ case = "sweeps" /\ Sweeps!Init
           \/ case = "settled" /\ Settles!Init
           \/ case = "partial" /\ Partial!Init
           \/ case = "recording" /\ Recording!Init
     \/ /\ IdleStages
        /\ \/ case = "tree" /\ Trees!Init
           \/ case = "settling" /\ Settling!Init
     \/ /\ IdleValidity
        /\ \/ case = "family" /\ Family!Init
           \/ case = "lock" /\ Locked!Init
           \/ case = "superseded" /\ Superseded!Init
           \/ case = "healing" /\ Healing!Init
     \/ /\ IdleRelations
        /\ \/ case = "graph" /\ Graph!Init
           \/ case = "replaces" /\ Replacing!Init
           \/ case = "backfill" /\ Backfilling!Init
           \/ case = "repair" /\ Repairing!Init

SuiteNext ==
  \/ case = "plans" /\ exempt = {} /\ Plans!Next /\ Overtaken /\ RestFetch
  \/ case = "files" /\ exempt = {} /\ WithFile!Next /\ Overtaken /\ RestFetch
  \/ case = "fetching" /\ Fetches!Next /\ CutShort /\ RestFetch
  \/ case = "sweeps" /\ Sweeps!Next /\ Passed /\ RestDiscovery
  \/ case = "settled" /\ Settles!Next /\ Passed /\ RestDiscovery
  \/ case = "partial" /\ Partial!Next /\ Passed /\ RestDiscovery
  \/ case = "recording" /\ Recording!Next /\ UNCHANGED exempt /\ RestDiscovery
  \/ case = "tree" /\ Trees!Next /\ RestStages
  \/ case = "settling" /\ Settling!Next /\ RestStages
  \/ case = "family" /\ Family!Next /\ RestValidity
  \/ case = "lock" /\ Locked!Next /\ RestValidity
  \/ case = "superseded" /\ Superseded!Next /\ RestValidity
  \/ case = "healing" /\ Healing!Next /\ RestValidity
  \/ case = "graph" /\ Graph!Next /\ RestRelations
  \/ case = "replaces" /\ Replacing!Next /\ RestRelations
  \/ case = "backfill" /\ Backfilling!Next /\ RestRelations
  \/ case = "repair" /\ Repairing!Next /\ RestRelations

SuiteSpec == SuiteInit /\ [][SuiteNext]_suite

\* The assumptions of the components hold in every instance.
ASSUME InstancesAssumption ==
    /\ Plans!FetchConstants /\ WithFile!FetchConstants /\ Fetches!FetchConstants
    /\ Sweeps!DiscoveryConstants /\ Settles!DiscoveryConstants /\ Partial!DiscoveryConstants
    /\ Recording!DiscoveryConstants
    /\ Trees!StagesAssumption /\ Settling!StagesAssumption
    /\ Family!ValidityAssumption /\ Locked!ValidityAssumption /\ Superseded!ValidityAssumption
    /\ Healing!ValidityAssumption
    /\ Graph!RelationsAssumption /\ Replacing!RelationsAssumption
    /\ Backfilling!RelationsAssumption /\ Repairing!RelationsAssumption

(***************************************************************************)
(* Safety                                                                  *)
(***************************************************************************)

\* What the sweeps and the fetches left is whole, also while discovery runs beside a fetch:
\* a complete document has the body and every file of the revision its fingerprint names,
\* a planned one is complete only with every artifact good, and no document falls out of the
\* reach of every later incremental sweep, under failures, dates that settle late, limits and
\* sweeps that end early.  This is so but for the documents in exempt: one that discovery
\* re-opened while a job worked on it (against queries.sql:22 and :147), and one that a
\* limited run passed, that a listing with a swallowed failure hides or that pages counted once
\* do not reach (against activities.go:174 and :266, discover.go:177).
FetchedWhole ==
    CASE case = "plans" -> Plans!TypeOK /\ ("d1" \in exempt \/ Plans!BodyIsCurrent)
      [] case = "files" -> ("d1" \in exempt \/ WithFile!CompleteIsCurrent) /\ WithFile!CompleteIsTerminal
      [] case = "sweeps" -> Sweeps!TypeOK /\ Sweeps!NothingHiddenBut(exempt)
      [] case = "settled" -> Settles!NothingHiddenBut(exempt)
      [] case = "partial" -> Partial!NothingHiddenBut(exempt)
      [] OTHER -> TRUE

\* With a single worker a document has at most one open validity row once it is done, a pass
\* that could read every text leaves each consolidation with the status it derives, and a
\* policy document superseded by a pass whose statements succeed is not served as in force
\* (two workers: validity_race).  With two workers each of them leaves at most one open row of
\* its kind, the publisher's status and the derived one; that one of each may stay open, as
\* the lock covers the derived row only, is against vbhn_validity.go:158 and not claimed to be
\* excluded.
ValidityAgrees ==
    CASE case = "tree" -> Trees!TypeOK /\ Trees!OneOpenRow
      [] case = "family" -> Family!TypeOK /\ Family!OneOpenRow /\ Family!PassAgrees
      [] case = "lock" -> Locked!OneRowPerWriter
      [] case = "superseded" -> Superseded!SupersessionHolds
      [] OTHER -> TRUE

\* A superseded policy document is not served as in force.
SupersessionHolds ==
    case = "superseded" => Superseded!SupersessionHolds

\* No step leaves a stub whose target is in the corpus, or lets backfill follow relations for
\* more than one hop (resolveSilverDocRef, relation_backfill.go:268).  The edge from a policy
\* document to one it replaced goes only with a pass over the document that replaced it, and a
\* pass of Normalize that returns leaves every edge its clause gives; RecomputeRelations or an
\* interrupted pass may leave a document without them until then.
RelationsKept ==
    [][/\ case = "graph" => (Graph!TypeOK /\ Graph!StubsAreMissing /\ Graph!OneHop)'
       /\ case = "replaces" => Replacing!ReplacesKeptStep]_suite

\* The best publisher's provision tree is not replaced by a parse or a lower copy.
TreeKept == [][case = "tree" => Trees!TreeKeptStep]_suite

(***************************************************************************)
(* Liveness                                                                *)
(***************************************************************************)

\* What goes on once it can: goroutines, sweeps, stages, workers and commands.
Runs(n) ==
    \/ case = "fetching" /\ n = 1 /\ Fetches!SliceStep("s1") /\ RestFetch /\ UNCHANGED exempt
    \/ case = "fetching" /\ n = 2 /\ Fetches!JobStep("j1") /\ RestFetch /\ UNCHANGED exempt
    \/ case = "recording" /\ n = 1 /\ Recording!SweepStep /\ RestDiscovery /\ UNCHANGED exempt
    \/ case = "recording" /\ n = 2 /\ Recording!Begin(0, FALSE) /\ RestDiscovery /\ UNCHANGED exempt
    \/ case = "settling" /\ n = 1 /\ Settling!StageStep /\ RestStages
    \/ case = "settling" /\ n = 2 /\ Settling!Fetched(1) /\ RestStages
    \/ case = "settling" /\ n = 3 /\ Settling!Fetched(3) /\ RestStages
    \/ case = "healing" /\ n \in 1..2 /\ Healing!Step(n) /\ RestValidity
    \/ case = "healing" /\ n = 3 /\ Healing!StartPage(FALSE) /\ RestValidity
    \/ case = "backfill" /\ n \in 1..2 /\ Backfilling!WorkerStep(n) /\ RestRelations
    \/ case = "repair" /\ n \in 1..2 /\ Repairing!WorkerStep(n) /\ RestRelations

\* What is taken up again and again whenever it is possible.
Takes(n) ==
    \/ case = "fetching" /\ n = 1 /\ Fetches!Discover("s1", "d1") /\ RestFetch /\ UNCHANGED exempt
    \/ case = "fetching" /\ n = 2 /\ Fetches!Claim /\ RestFetch /\ UNCHANGED exempt
    \/ case = "fetching" /\ n = 3 /\ Fetches!Tick /\ RestFetch /\ UNCHANGED exempt
    \/ case = "settling" /\ n = 1 /\ Settling!Start(Settling!RunAll(1), FALSE, 0) /\ RestStages
    \/ case = "backfill" /\ n = 1 /\ Backfilling!StartCommand("extract") /\ RestRelations
    \/ case = "backfill" /\ n = 2 /\ Backfilling!BackfillRelationTargets /\ RestRelations
    \/ case = "repair" /\ n = 1 /\ Repairing!StartCommand("extract") /\ RestRelations
    \/ case = "repair" /\ n = 2 /\ Repairing!StartCommand("recompute") /\ RestRelations
    \/ case = "repair" /\ n = 3 /\ Repairing!StartCommand("normalize") /\ RestRelations

LiveSpec ==
    /\ SuiteSpec
    /\ \A n \in 1..3 : WF_suite(Runs(n))
    /\ \A n \in 1..3 : SF_suite(Takes(n))

Owed(n) ==
    CASE case = "fetching" /\ n = 1 ->
            doc["d1"].state \in {"discovered", "fetching"} /\ art["d1"]["body"].state # "none"
      [] case = "fetching" /\ n = 2 -> doc["d1"].treeAfter # Fetches!NoTimer
      [] case = "recording" ->
            \E u \in Recording!MyUnits : \E d \in ToSet(feed[u]) : d.id = n /\ Recording!Wanted(d)
      [] case = "settling" -> TRUE
      [] case = "healing" -> n \in present /\ Healing!OpenRows(n) = {}
      [] case = "backfill" ->
            \E e \in evidence : /\ e[2] = Backfilling!SourceKey(n + 1)
                                /\ \E f \in 1..3 : OwnDocument(f) = e[1] /\ provenance[f] = "discovery"
      [] case = "repair" -> 1 \in extracted

Delivered(n) ==
    CASE case = "fetching" /\ n = 1 ->
            \/ doc["d1"].state \in {"complete", "partial"} \/ art["d1"]["body"].state = "dead"
            \/ "d1" \in exempt
      [] case = "fetching" /\ n = 2 -> doc["d1"].treeAfter = Fetches!NoTimer \/ art["d1"]["tree"].state = "done"
      [] case = "recording" -> n \in recorded
      [] case = "settling" -> Settling!Settled
      [] case = "healing" -> Healing!OpenRows(n) # {} \/ clock = 4
      [] case = "backfill" -> provenance[n + 1] # "none" \/ alias[n + 1] # 0
      [] case = "repair" -> <<1, Repairing!SourceKey(n + 1), "vbpl">> \in evidence

\* What the pipeline owes is delivered in spite of crashes and failed requests: a
\* document that waits is fetched and its tree checks end or find the tree, a wanted document is
\* recorded, a fetched document comes to rest and is searched, one without an open
\* validity row gets one, and relation targets and their evidence are recorded.  One
\* crash is excepted, against queries.sql:502: of a job between the mark of a document's
\* last artifact and finalizeDoc, after which the document may stay fetching.
WorkDelivered == \A n \in 1..2 : Owed(n) ~> Delivered(n)
===============================================================================
