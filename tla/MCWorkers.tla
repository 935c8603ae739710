--------------------------------- MODULE MCWorkers ---------------------------------
(***************************************************************************)
(* Small instances of the processing side: the child sandbox, the checks   *)
(* of staged outputs, the converter, shards of OCR and of embeddings,      *)
(* provider jobs, and the runs and refreshes of a corpus build.            *)
(* A behaviour is one case.                                                *)
(***************************************************************************)
EXTENDS Sandbox, CorpusRun, SequencesExt

CONSTANTS Cases

VARIABLES case, ctx, seen, faults, manifest, extra, pc, fileIndex, remaining, budget, refs, call,
  receipts, inputDir, read, verdict, retained, history, calls, texts, shard, provider, expired,
  after, text, vector, cache, owner, job, ended, reindexed, dataset, kernel, polls, missed, rows,
  result, process, now, results, wf, prepared, inputs, gaps, retries, fence, activated

suite == <<case, vars, runVars, ctx, seen, faults, manifest, extra, pc, fileIndex, remaining,
  budget, refs, call, receipts, inputDir, read, verdict, retained, history, calls, texts, shard,
  provider, expired, after, text, vector, cache, owner, job, ended, reindexed, dataset, kernel,
  polls, missed, rows, result, process, now, results, wf, prepared, inputs, gaps, retries, fence,
  activated>>

Off == "off"  \* the variables of the components a case leaves alone

-------------------------------------------------------------------------------
(* A conversion and its validation under one supervisor. *)
\* No call fails; no call fails and the caller has no deadline; one call fails.
Sealing == Next /\ failures' = 0 /\ \A p \in Phases : box'[p].cpu <= 2
Budgeting == Next /\ failures' = 0 /\ disk' <= 1 /\ context' # "caller"
Leaks == Next /\ disk' <= 1 /\ \A p \in Phases : box'[p].cpu <= 1
Returning == INSTANCE Sandbox WITH
  Budget <- 1, MaxBurn <- 0, MaxWrites <- 0, CallerDeadline <- FALSE, SlowTeardown <- TRUE,
  MaxFaults <- 1

RestSandbox == UNCHANGED <<case, runVars, ctx, seen, faults, manifest, extra, pc, fileIndex,
  remaining, budget, refs, call, receipts, inputDir, read, verdict, retained, history, calls,
  texts, shard, provider, expired, after, text, vector, cache, owner, job, ended, reindexed,
  dataset, kernel, polls, missed, rows, result, process, now, results, wf, prepared, inputs, gaps,
  retries, fence, activated>>
IdleSandbox ==
  /\ RunInit /\ ctx = Off /\ seen = Off /\ faults = Off /\ manifest = Off /\ extra = Off
  /\ pc = Off /\ fileIndex = Off /\ remaining = Off /\ budget = Off /\ refs = Off /\ call = Off
  /\ receipts = Off /\ inputDir = Off /\ read = Off /\ verdict = Off /\ retained = Off
  /\ history = Off /\ calls = Off /\ texts = Off /\ shard = Off /\ provider = Off /\ expired = Off
  /\ after = Off /\ text = Off /\ vector = Off /\ cache = Off /\ owner = Off /\ job = Off
  /\ ended = Off /\ reindexed = Off /\ dataset = Off /\ kernel = Off /\ polls = Off
  /\ missed = Off /\ rows = Off /\ result = Off /\ process = Off /\ now = Off /\ results = Off
  /\ wf = Off /\ prepared = Off /\ inputs = Off /\ gaps = Off /\ retries = Off /\ fence = Off
  /\ activated = Off

-------------------------------------------------------------------------------
(* Every short token stream as a single file, and manifests of at most three files. *)
StagedFile(path, type, size, magic, body, pixels) ==
  [path |-> path, type |-> type, size |-> size, onDisk |-> size, node |-> "file", magic |-> magic,
   body |-> body, pixels |-> pixels]
Member(name, size, kind) ==
  [name |-> name, node |-> "file", size |-> size, claims |-> size, kind |-> kind, tokens |-> <<>>, pixels |-> 1]

Streams(T, n) == UNION {[1..k -> T] : k \in 0..n}

XMLFiles == {StagedFile("a", "xml", Len(b), "none", b, 0) : b \in Streams({"start", "end", "text", "space", "directive"}, 5)}
JSONFiles == {StagedFile("a", "json", 1, "none", b, 0) : b \in Streams({"open", "close", "scalar"}, 5)}
ZIPMembers == {Member(n, z, k) : n \in {"m", "n"}, z \in {0, 2, 4}, k \in {"opaque", "image", "archive"}}
ZIPFiles == {StagedFile("a", "zip", z, "zip", b, 0) : z \in {1, 2}, b \in Streams(ZIPMembers, 2)}
OddFiles == {[StagedFile("a", "text", 2, "none", <<>>, 0) EXCEPT !.node = n, !.onDisk = d, !.magic = g] :
          n \in {"file", "symlink", "linked", "missing"}, d \in {1, 2}, g \in {"none", "zip", "image"}}
  \cup {StagedFile("a", "image", 2, g, <<>>, x) : g \in {"image", "none"}, x \in {1, 9}}
  \cup {StagedFile("a", "zip", 2, "zip", <<[Member("m", 2, k) EXCEPT !.claims = c, !.node = n, !.tokens = t]>>, 0) :
          c \in {1, 2}, n \in {"file", "symlink"}, k \in {"opaque", "xml"}, t \in {<<"start", "end">>, <<"start">>}}

SingleFiles == {<<>>} \cup {<<f>> : f \in XMLFiles \cup JSONFiles \cup ZIPFiles \cup OddFiles}

SmallCatalog(p) ==
  {StagedFile(p, "text", 3, "none", <<>>, 0), StagedFile(p, "text", 5, "none", <<>>, 0),
   StagedFile(p, "xml", 3, "none", <<"start", "text", "end">>, 0),
   StagedFile(p, "xml", 4, "none", <<"start", "start", "end", "end">>, 0),
   StagedFile(p, "image", 2, "image", <<>>, 1),
   StagedFile(p, "zip", 1, "zip", <<Member("m", 2, "opaque"), Member("n", 2, "image")>>, 0),
   StagedFile(p, "zip", 2, "zip", <<Member("m", 4, "opaque")>>, 0)}

MixedManifests == UNION {{<<f, g, h>> : f \in SmallCatalog("a"), g \in SmallCatalog(p), h \in SmallCatalog(r)} : p \in {"a", "b"}, r \in {"b", "c"}}
     \cup {<<f, g>> : f \in SmallCatalog("a"), g \in SmallCatalog("b")}

Singles == INSTANCE StagedOutputs WITH
  Manifests <- SingleFiles, Extra <- {TRUE, FALSE}, OutputBytes <- 5, ExpandedBytes <- 4,
  ScratchBytes <- 3, Members <- 3, XMLDepth <- 1, Pages <- 2, Pixels <- 4, TempFiles <- 3,
  ExpansionRatio <- 2, i <- fileIndex
Mixtures == INSTANCE StagedOutputs WITH
  Manifests <- MixedManifests, Extra <- {TRUE, FALSE}, OutputBytes <- 9, ExpandedBytes <- 8,
  ScratchBytes <- 4, Members <- 3, XMLDepth <- 2, Pages <- 2, Pixels <- 4, TempFiles <- 3,
  ExpansionRatio <- 2, i <- fileIndex

RestStaged == UNCHANGED <<case, vars, runVars, ctx, seen, faults, call, receipts, inputDir, read,
  verdict, retained, history, calls, texts, shard, provider, expired, after, text, vector, cache,
  owner, job, ended, reindexed, dataset, kernel, polls, missed, rows, result, process, now,
  results, wf, prepared, inputs, gaps, retries, fence, activated>>
IdleStaged ==
  /\ Init /\ RunInit /\ ctx = Off /\ seen = Off /\ faults = Off /\ call = Off /\ receipts = Off
  /\ inputDir = Off /\ read = Off /\ verdict = Off /\ retained = Off /\ history = Off
  /\ calls = Off /\ texts = Off /\ shard = Off /\ provider = Off /\ expired = Off /\ after = Off
  /\ text = Off /\ vector = Off /\ cache = Off /\ owner = Off /\ job = Off /\ ended = Off
  /\ reindexed = Off /\ dataset = Off /\ kernel = Off /\ polls = Off /\ missed = Off /\ rows = Off
  /\ result = Off /\ process = Off /\ now = Off /\ results = Off /\ wf = Off /\ prepared = Off
  /\ inputs = Off /\ gaps = Off /\ retries = Off /\ fence = Off /\ activated = Off

-------------------------------------------------------------------------------
(* A sound set of outputs, and the ways a child can get it wrong. *)
Ref(order, path, hash, size) == [order |-> order, path |-> path, hash |-> <<hash>>, size |-> size]
DocumentRef(h) == Ref(2, "document.json", h, 1)
QualityRef == Ref(3, "quality.json", "q", 1)
ObjectRef(h) == Ref(1, "object", h, 1)
GoodSet == <<ObjectRef("o"), DocumentRef("d"), QualityRef>>
WrongSet == <<ObjectRef("w"), DocumentRef("x"), QualityRef>>
StagedSets == {GoodSet, WrongSet, <<>>, <<ObjectRef("o"), DocumentRef("d")>>, <<DocumentRef("d"), ObjectRef("o"), QualityRef>>,
               <<ObjectRef("o"), DocumentRef("d"), QualityRef, Ref(4, "object", "z", 9)>>}
NamedSets == {GoodSet, WrongSet, <<ObjectRef("o"), DocumentRef("d")>>}

Conversions == INSTANCE Converter WITH
  Manifests <- StagedSets, Sound <- {GoodSet}, Verdicts <- NamedSets, MaxItems <- 4,
  OutputBytes <- 6, MaxCalls <- 2, MaxFaults <- 2

RestConverter == UNCHANGED <<case, vars, runVars, seen, manifest, extra, pc, fileIndex,
  remaining, budget, refs, texts, shard, provider, expired, after, text, vector, cache, owner,
  job, ended, reindexed, dataset, kernel, polls, missed, rows, result, process, now, results, wf,
  prepared, inputs, gaps, retries, fence, activated>>
IdleConverter ==
  /\ Init /\ RunInit /\ seen = Off /\ manifest = Off /\ extra = Off /\ pc = Off /\ fileIndex = Off
  /\ remaining = Off /\ budget = Off /\ refs = Off /\ texts = Off /\ shard = Off /\ provider = Off
  /\ expired = Off /\ after = Off /\ text = Off /\ vector = Off /\ cache = Off /\ owner = Off
  /\ job = Off /\ ended = Off /\ reindexed = Off /\ dataset = Off /\ kernel = Off /\ polls = Off
  /\ missed = Off /\ rows = Off /\ result = Off /\ process = Off /\ now = Off /\ results = Off
  /\ wf = Off /\ prepared = Off /\ inputs = Off /\ gaps = Off /\ retries = Off /\ fence = Off
  /\ activated = Off

-------------------------------------------------------------------------------
(* Documents 1 and 3 share a file, 4 has no hash, 5 is larger than the page budget. *)
FileHash == <<"a", "b", "a", "none", "c">>
FewHashes == <<"a", "b", "a">>
FileBytes == [s \in {"a", "b", "c"} |-> IF s = "c" THEN 1 ELSE 2]
FilePages == [s \in {"a", "b", "c"} |-> IF s = "a" THEN 1 ELSE IF s = "b" THEN 2 ELSE 5]

Stream == INSTANCE OcrShard WITH
  Docs <- {1, 2, 3, 4, 5}, Sha <- FileHash, NoSha <- "none", Bytes <- FileBytes, Pages <- FilePages,
  MaxItems <- 3, MaxInputBytes <- 4, MaxPages <- 3, Engine <- "kaggle", Force <- FALSE,
  MaxFaults <- 2
Batch == INSTANCE OcrShard WITH
  Docs <- {1, 2, 3, 4, 5}, Sha <- FileHash, NoSha <- "none", Bytes <- FileBytes, Pages <- FilePages,
  MaxItems <- 4, MaxInputBytes <- 3, MaxPages <- 3, Engine <- "documentai", Force <- TRUE,
  MaxFaults <- 2
Local == INSTANCE OcrShard WITH
  Docs <- {1, 2, 3, 4, 5}, Sha <- FileHash, NoSha <- "none", Bytes <- FileBytes, Pages <- FilePages,
  MaxItems <- 2, MaxInputBytes <- 4, MaxPages <- 3, Engine <- "local", Force <- FALSE,
  MaxFaults <- 2
Reading == INSTANCE OcrShard WITH
  Docs <- {1, 2, 3}, Sha <- FewHashes, NoSha <- "none", Bytes <- FileBytes, Pages <- FilePages,
  MaxItems <- 2, MaxInputBytes <- 4, MaxPages <- 3, Engine <- "kaggle", Force <- FALSE,
  MaxFaults <- 2

RestOcr == UNCHANGED <<case, vars, runVars, ctx, seen, manifest, extra, pc, fileIndex, remaining,
  budget, refs, call, receipts, inputDir, read, verdict, retained, history, calls, text, vector,
  cache, owner, job, ended, reindexed, dataset, kernel, polls, missed, rows, result, process, now,
  results, wf, prepared, inputs, gaps, retries, fence, activated>>
IdleOcr ==
  /\ Init /\ RunInit /\ ctx = Off /\ seen = Off /\ manifest = Off /\ extra = Off /\ pc = Off
  /\ fileIndex = Off /\ remaining = Off /\ budget = Off /\ refs = Off /\ call = Off
  /\ receipts = Off /\ inputDir = Off /\ read = Off /\ verdict = Off /\ retained = Off
  /\ history = Off /\ calls = Off /\ text = Off /\ vector = Off /\ cache = Off /\ owner = Off
  /\ job = Off /\ ended = Off /\ reindexed = Off /\ dataset = Off /\ kernel = Off /\ polls = Off
  /\ missed = Off /\ rows = Off /\ result = Off /\ process = Off /\ now = Off /\ results = Off
  /\ wf = Off /\ prepared = Off /\ inputs = Off /\ gaps = Off /\ retries = Off /\ fence = Off
  /\ activated = Off

-------------------------------------------------------------------------------
(* Chunks 1 and 3 share a text, 4 is too large for a shard. *)
FiveChunks == [i \in 1..5 |-> <<"a", "b", "a", "big", "c">>[i]]
ThreeChunks == [i \in 1..3 |-> <<"a", "b", "a">>[i]]
Rewritten == [i \in {2} |-> "c"]
TextBytes == [t \in {"a", "b", "c", "big"} |-> IF t = "big" THEN 9 ELSE IF t = "b" THEN 2 ELSE 1]

Vectors == INSTANCE EmbedShard WITH
  Ids <- {1, 2, 3, 4}, First <- ThreeChunks, Again <- Rewritten, NoText <- "none",
  Bytes <- TextBytes, Engine <- "kaggle", Limit <- 2, MaxInputBytes <- 4, MaxPartition <- 1,
  MaxPartitionBytes <- 3, Parallel <- 3, MaxFaults <- 1, MaxReindex <- 1
Parts == INSTANCE EmbedShard WITH
  Ids <- {1, 2, 3, 4, 5}, First <- FiveChunks, Again <- Rewritten, NoText <- "none",
  Bytes <- TextBytes, Engine <- "kaggle", Limit <- 4, MaxInputBytes <- 6, MaxPartition <- 2,
  MaxPartitionBytes <- 2, Parallel <- 3, MaxFaults <- 1, MaxReindex <- 0
Sage == INSTANCE EmbedShard WITH
  Ids <- {1, 2, 3, 4, 5}, First <- FiveChunks, Again <- Rewritten, NoText <- "none",
  Bytes <- TextBytes, Engine <- "sagemaker", Limit <- 3, MaxInputBytes <- 3, MaxPartition <- 2,
  MaxPartitionBytes <- 3, Parallel <- 2, MaxFaults <- 2, MaxReindex <- 0
Embedding == INSTANCE EmbedShard WITH
  Ids <- {1, 2, 3, 4}, First <- ThreeChunks, Again <- Rewritten, NoText <- "none",
  Bytes <- TextBytes, Engine <- "kaggle", Limit <- 2, MaxInputBytes <- 3, MaxPartition <- 2,
  MaxPartitionBytes <- 3, Parallel <- 2, MaxFaults <- 2, MaxReindex <- 1

RestEmbed == UNCHANGED <<case, vars, runVars, ctx, seen, manifest, extra, pc, fileIndex,
  remaining, budget, refs, call, receipts, inputDir, read, verdict, retained, history, calls,
  texts, provider, expired, after, dataset, kernel, polls, missed, rows, result, process, now,
  results, wf, prepared, inputs, gaps, retries, fence, activated>>
IdleEmbed ==
  /\ Init /\ RunInit /\ ctx = Off /\ seen = Off /\ manifest = Off /\ extra = Off /\ pc = Off
  /\ fileIndex = Off /\ remaining = Off /\ budget = Off /\ refs = Off /\ call = Off
  /\ receipts = Off /\ inputDir = Off /\ read = Off /\ verdict = Off /\ retained = Off
  /\ history = Off /\ calls = Off /\ texts = Off /\ provider = Off /\ expired = Off /\ after = Off
  /\ dataset = Off /\ kernel = Off /\ polls = Off /\ missed = Off /\ rows = Off /\ result = Off
  /\ process = Off /\ now = Off /\ results = Off /\ wf = Off /\ prepared = Off /\ inputs = Off
  /\ gaps = Off /\ retries = Off /\ fence = Off /\ activated = Off

-------------------------------------------------------------------------------
(* Two runs of a batch, and one run of an OCR job. *)
EmbedJobs == INSTANCE KaggleJob WITH
  Kind <- "embed", Runs <- {"r1", "r2"}, N <- 2, MaxPollFailures <- 1, Grace <- 1, MaxPolls <- 2,
  MaxFaults <- 3
OcrJob == INSTANCE KaggleJob WITH
  Kind <- "ocr", Runs <- {"r1"}, N <- 2, MaxPollFailures <- 1, Grace <- 1, MaxPolls <- 2,
  MaxFaults <- 3

RestJob == UNCHANGED <<case, vars, runVars, ctx, manifest, extra, fileIndex, remaining, budget,
  refs, call, receipts, inputDir, read, verdict, retained, history, calls, texts, shard, provider,
  expired, after, text, vector, cache, owner, job, ended, reindexed, now, results, wf, prepared,
  inputs, gaps, retries, fence, activated>>
IdleJob ==
  /\ Init /\ RunInit /\ ctx = Off /\ manifest = Off /\ extra = Off /\ fileIndex = Off
  /\ remaining = Off /\ budget = Off /\ refs = Off /\ call = Off /\ receipts = Off
  /\ inputDir = Off /\ read = Off /\ verdict = Off /\ retained = Off /\ history = Off
  /\ calls = Off /\ texts = Off /\ shard = Off /\ provider = Off /\ expired = Off /\ after = Off
  /\ text = Off /\ vector = Off /\ cache = Off /\ owner = Off /\ job = Off /\ ended = Off
  /\ reindexed = Off /\ now = Off /\ results = Off /\ wf = Off /\ prepared = Off /\ inputs = Off
  /\ gaps = Off /\ retries = Off /\ fence = Off /\ activated = Off

-------------------------------------------------------------------------------
(* Calls of Execute, of one activity that is retried: r1 and r3 have the same shard. *)
KeyOfRunner == [r \in Runners |-> IF r = "r2" THEN "k2" ELSE "k1"]
SameOwner == [r \in Runners |-> "worker"]
FirstBehind == [r \in Runners |-> IF r = "r1" THEN -1 ELSE 0]
NotBehind == [r \in {"r1", "r3"} |-> 0]

Done(k) == [NoResult EXCEPT !.shard = k, !.expected = 1, !.processed = 1, !.succeeded = 1, !.complete = TRUE, !.outputs = <<"o1">>]
Gap(k) == [NoResult EXCEPT !.shard = k, !.expected = 2, !.processed = 2, !.succeeded = 1, !.gaps = 1, !.accepted = 1,
              !.acceptance = TRUE, !.complete = TRUE]
Waiting(k) == [NoResult EXCEPT !.shard = k, !.expected = 2, !.processed = 1, !.pending = 1, !.eligible = TRUE]
Unaccounted(k) == [Done(k) EXCEPT !.expected = 2, !.processed = 2]
Unaccepted(k) == [Done(k) EXCEPT !.succeeded = 0, !.gaps = 1]
Stuck(k) == [NoResult EXCEPT !.shard = k, !.expected = 1]

AnyResult == {Done("k1"), Gap("k1"), Waiting("k1"), Unaccounted("k1"), Unaccepted("k1"), Stuck("k1"), Done("k2")}
OneResult == {Done("k1")}

\* Two shards, one worker behind the other's clock; one shard run twice; one run under control.
Idles(r) == runner'[r] = Fresh
Fencing ==
  /\ RunNext /\ Idles("r3") /\ run' = run /\ build' = build
  /\ \A r \in Runners : runner'[r].result \in {NoResult, Done("k1"), Done("k2")}
Replaying == RunNext /\ Idles("r2") /\ run' = run /\ build' = build /\ ~runner'["r1"].cancelled /\ dbClock' <= 4
Controlled ==
  /\ RunNext /\ Idles("r1") /\ Idles("r2") /\ dbClock' <= 4
  /\ runner'["r3"].result \in {NoResult, Done("k1")}
RunnersEnd == INSTANCE CorpusRun WITH
  Runners <- {"r1", "r3"}, Skew <- NotBehind, Returns <- OneResult, Changes <- {}, LastStart <- 2,
  MaxTime <- 6

RestRun == UNCHANGED <<case, vars, ctx, seen, faults, manifest, extra, pc, fileIndex, remaining,
  budget, refs, call, receipts, inputDir, read, verdict, retained, history, calls, texts, shard,
  provider, expired, after, text, vector, cache, owner, job, ended, reindexed, dataset, kernel,
  polls, missed, rows, result, process, wf, prepared, inputs, gaps, retries, fence, activated,
  now, results>>
IdleRun ==
  /\ Init /\ ctx = Off /\ seen = Off /\ faults = Off /\ manifest = Off /\ extra = Off /\ pc = Off
  /\ fileIndex = Off /\ remaining = Off /\ budget = Off /\ refs = Off /\ call = Off
  /\ receipts = Off /\ inputDir = Off /\ read = Off /\ verdict = Off /\ retained = Off
  /\ history = Off /\ calls = Off /\ texts = Off /\ shard = Off /\ provider = Off /\ expired = Off
  /\ after = Off /\ text = Off /\ vector = Off /\ cache = Off /\ owner = Off /\ job = Off
  /\ ended = Off /\ reindexed = Off /\ dataset = Off /\ kernel = Off /\ polls = Off
  /\ missed = Off /\ rows = Off /\ result = Off /\ process = Off /\ wf = Off /\ prepared = Off
  /\ inputs = Off /\ gaps = Off /\ retries = Off /\ fence = Off /\ activated = Off /\ now = Off
  /\ results = Off

-------------------------------------------------------------------------------
(* A refresh of one or two stages and its activation. *)
ExternalStages == <<"ocr", "activate">>
BothStages == <<"extract", "ocr", "activate">>
OneInput == [s \in {"ocr", "activate"} |-> IF s = "activate" THEN 0 ELSE 1]
TwoInputs == [s \in {"extract", "ocr", "activate"} |-> IF s = "activate" THEN 0 ELSE IF s = "ocr" THEN 1 ELSE 2]

External == INSTANCE CorpusRefresh WITH
  fixedStages <- ExternalStages, Inputs <- OneInput, Outcomes <- {"done"}, Slots <- {1, 2},
  MaxAttempts <- 2, MaxScansPerRun <- 3, MaxStageScans <- 2, Deadline <- 3, PollInterval <- 1,
  MayCancel <- TRUE, MaxRetries <- 0
AllStages == INSTANCE CorpusRefresh WITH
  fixedStages <- BothStages, Inputs <- TwoInputs, Outcomes <- {"done", "retry", "gap"},
  Slots <- {1, 2}, MaxAttempts <- 1, MaxScansPerRun <- 4, MaxStageScans <- 3, Deadline <- 3,
  PollInterval <- 1, MayCancel <- FALSE, MaxRetries <- 1
Refreshing == INSTANCE CorpusRefresh WITH
  fixedStages <- ExternalStages, Inputs <- OneInput, Outcomes <- {"done"}, Slots <- {1, 2},
  MaxAttempts <- 2, MaxScansPerRun <- 2, MaxStageScans <- 2, Deadline <- 3, PollInterval <- 2,
  MayCancel <- FALSE, MaxRetries <- 0

RestRefresh == UNCHANGED <<case, vars, runVars, ctx, seen, faults, manifest, extra, pc,
  fileIndex, remaining, budget, refs, receipts, inputDir, read, verdict, retained, history, calls,
  texts, shard, expired, after, text, vector, cache, owner, ended, reindexed, dataset, kernel,
  polls, missed, rows, result, process>>
IdleRefresh ==
  /\ Init /\ RunInit /\ ctx = Off /\ seen = Off /\ faults = Off /\ manifest = Off /\ extra = Off
  /\ pc = Off /\ fileIndex = Off /\ remaining = Off /\ budget = Off /\ refs = Off
  /\ receipts = Off /\ inputDir = Off /\ read = Off /\ verdict = Off /\ retained = Off
  /\ history = Off /\ calls = Off /\ texts = Off /\ shard = Off /\ expired = Off /\ after = Off
  /\ text = Off /\ vector = Off /\ cache = Off /\ owner = Off /\ ended = Off /\ reindexed = Off
  /\ dataset = Off /\ kernel = Off /\ polls = Off /\ missed = Off /\ rows = Off /\ result = Off
  /\ process = Off

-------------------------------------------------------------------------------
SuiteInit ==
  /\ case \in Cases
  /\ \/ /\ IdleSandbox
        /\ \/ case \in {"seal", "budget", "leaks"} /\ Init
           \/ case = "returns" /\ Returning!Init
     \/ /\ IdleStaged
        /\ \/ case = "singles" /\ Singles!Init
           \/ case = "mixed" /\ Mixtures!Init
     \/ case = "convert" /\ Conversions!Init /\ IdleConverter
     \/ /\ IdleOcr
        /\ \/ case = "stream" /\ Stream!Init
           \/ case = "batch" /\ Batch!Init
           \/ case = "local" /\ Local!Init
           \/ case = "reading" /\ Reading!Init
     \/ /\ IdleEmbed
        /\ \/ case = "vectors" /\ Vectors!Init
           \/ case = "parts" /\ Parts!Init
           \/ case = "sage" /\ Sage!Init
           \/ case = "embedding" /\ Embedding!Init
     \/ /\ IdleJob
        /\ \/ case = "job" /\ EmbedJobs!Init
           \/ case = "ocrjob" /\ OcrJob!Init
     \/ /\ IdleRun
        /\ \/ case \in {"fencing", "replay", "control"} /\ RunInit
           \/ case = "runners" /\ RunnersEnd!RunInit
     \/ /\ IdleRefresh
        /\ \/ case = "external" /\ External!Init
           \/ case = "stages" /\ AllStages!Init
           \/ case = "refresh" /\ Refreshing!Init

SuiteNext ==
  \/ case = "seal" /\ Sealing /\ RestSandbox
  \/ case = "budget" /\ Budgeting /\ RestSandbox
  \/ case = "leaks" /\ Leaks /\ RestSandbox
  \/ case = "returns" /\ Returning!Next /\ RestSandbox
  \/ case = "singles" /\ Singles!Next /\ RestStaged
  \/ case = "mixed" /\ Mixtures!Next /\ RestStaged
  \/ case = "convert" /\ Conversions!Next /\ RestConverter
  \/ case = "stream" /\ Stream!Next /\ RestOcr
  \/ case = "batch" /\ Batch!Next /\ RestOcr
  \/ case = "local" /\ Local!Next /\ RestOcr
  \/ case = "reading" /\ Reading!Next /\ RestOcr
  \/ case = "vectors" /\ Vectors!Next /\ RestEmbed
  \/ case = "parts" /\ Parts!Next /\ RestEmbed
  \/ case = "sage" /\ Sage!Next /\ RestEmbed
  \/ case = "embedding" /\ Embedding!Next /\ RestEmbed
  \/ case = "job" /\ EmbedJobs!Next /\ RestJob
  \/ case = "ocrjob" /\ OcrJob!Next /\ RestJob
  \/ case = "fencing" /\ Fencing /\ RestRun
  \/ case = "replay" /\ Replaying /\ RestRun
  \/ case = "control" /\ Controlled /\ RestRun
  \/ case = "runners" /\ RunnersEnd!RunNext /\ RestRun
  \/ case = "external" /\ External!Next /\ RestRefresh
  \/ case = "stages" /\ AllStages!Next /\ RestRefresh
  \/ case = "refresh" /\ Refreshing!Next /\ RestRefresh

SuiteSpec == SuiteInit /\ [][SuiteNext]_suite

\* The assumptions of the components hold in every instance.
ASSUME InstancesAssumption ==
    /\ BudgetAssumption /\ Returning!BudgetAssumption
    /\ Singles!LimitsAssumption /\ Mixtures!LimitsAssumption
    /\ Stream!DocsAssumption /\ Batch!DocsAssumption /\ Local!DocsAssumption /\ Reading!DocsAssumption
    /\ Stream!LimitsAssumption /\ Batch!LimitsAssumption /\ Local!LimitsAssumption /\ Reading!LimitsAssumption
    /\ Vectors!LimitsAssumption /\ Parts!LimitsAssumption /\ Sage!LimitsAssumption /\ Embedding!LimitsAssumption
    /\ EmbedJobs!RowsAssumption /\ OcrJob!RowsAssumption
    /\ RunnersEnd!RunAssumption

(***************************************************************************)
(* Safety                                                                  *)
(***************************************************************************)

\* What comes out of a conversion is safe: exactly the manifests that are safe as a whole
\* are accepted, and nothing becomes durable before its set was read whole and validated.
OutputContained ==
    CASE case = "singles" -> Singles!TypeOK /\ Singles!VerdictIsSafety
      [] case = "mixed" -> Mixtures!VerdictIsSafety
      [] case = "convert" -> Conversions!TypeOK /\ Conversions!RetainedWasValidated
      [] OTHER -> TRUE

\* The report of a shard leaves out no admitted document, and counts each once unless the
\* remote output repeats a row (ocr_all.go:264 counts every copy); its cursor leaves nothing
\* behind, and moves; without errors or rejections everything up to the cursor is done;
\* a stored vector is the vector of the text its chunk has now; the jobs that run at one
\* time, and the text of each, stay within their limits; a remote run that reports success
\* handed on every row once; the provider is given a job at most once, and a job it has is
\* never forgotten by its row; the state a run hands to its successor is one that run
\* accepts; and a refresh that completes left no shard and no blocking gap, and counted
\* each result once.
WorkAccounted ==
    CASE case = "stream" -> Stream!TypeOK /\ Stream!AllCounted
      [] case = "batch" -> Batch!CursorHonest
      [] case = "sage" -> Sage!CursorHonest /\ Sage!CleanMeansEmbedded
      [] case = "local" -> Local!CleanMeansRead
      [] case = "vectors" -> Vectors!TypeOK /\ Vectors!VectorOfText
      [] case = "parts" -> Parts!PoolBounded
      [] case = "job" -> EmbedJobs!TypeOK /\ EmbedJobs!SuccessIsWhole
      [] case = "external" ->
            External!SubmittedOnce /\ External!SubmissionExplicit /\ External!CarriedStateValid
      [] case = "stages" -> AllStages!TypeOK /\ AllStages!CompletedCountsAll
      [] OTHER -> TRUE

\* A release by a late predecessor frees nobody else's lease, and a lost poll or two do
\* not end a run whose kernel is still running.
LateStepsHarmless ==
    [][/\ case # "runners" => NotReleasedByOthersStep
       /\ case = "job" => EmbedJobs!LostPollsToleratedStep]_suite

(***************************************************************************)
(* Liveness                                                                *)
(***************************************************************************)

\* One goroutine, activity or workflow is at one step at a time.
Runs(n) ==
    \/ case = "returns" /\ n = 1 /\ Returning!Supervise /\ RestSandbox
    \/ case = "returns" /\ n = 2 /\ Returning!ContextEnds("timeout") /\ RestSandbox
    \/ case = "returns" /\ n = 3 /\ Returning!TeardownTime /\ RestSandbox
    \/ case = "convert" /\ n = 1 /\ Conversions!Step /\ RestConverter
    \/ case = "reading" /\ n = 1 /\ Reading!OwnerStep /\ RestOcr
    \/ case = "reading" /\ n = 2 /\ Reading!ProviderStep /\ RestOcr
    \/ case = "reading" /\ n = 3 /\ Reading!Deliver /\ RestOcr
    \/ case = "reading" /\ n = 4 /\ Reading!Resume /\ RestOcr
    \/ case = "embedding" /\ n = 1 /\ Embedding!EmbedAll /\ RestEmbed
    \/ case = "embedding" /\ n = 2 /\ Embedding!ProducerStep /\ RestEmbed
    \/ case = "embedding" /\ n = 3 /\ Embedding!Return /\ RestEmbed
    \/ case = "embedding" /\ n = 4 /\ Embedding!Resume /\ RestEmbed
    \/ case = "embedding" /\ n \in 5..8 /\ n - 4 \in DOMAIN job /\ Embedding!JobStep(n - 4) /\ RestEmbed
    \/ case = "ocrjob" /\ n = 1 /\ OcrJob!ClientStep("r1") /\ RestJob
    \/ /\ case = "runners" /\ n \in 1..2 /\ RestRun
       /\ LET r == <<"r1", "r3">>[n] IN
          \/ RunnersEnd!Bind(r) \/ RunnersEnd!Abandon(r) \/ RunnersEnd!FindStageResult(r)
          \/ RunnersEnd!InsertStageResult(r) \/ RunnersEnd!InsertStageResultOutput(r)
          \/ RunnersEnd!Commit(r) \/ RunnersEnd!Answer(r)
    \/ case = "runners" /\ n = 3 /\ RunnersEnd!DatabaseTick /\ RestRun
    \/ case = "refresh" /\ n \in 1..2 /\ Refreshing!CallStep(n) /\ RestRefresh
    \/ case = "refresh" /\ n = 3 /\ Refreshing!WorkflowStep /\ RestRefresh
    \/ case = "refresh" /\ n = 4 /\ Refreshing!Tick /\ RestRefresh

\* A runner waits for the row lock of the lease in turn.
Takes(n) ==
    /\ case = "runners" /\ RestRun
    /\ LET r == <<"r1", "r3">>[n] IN RunnersEnd!Release(r) \/ RunnersEnd!LockSchedulerFence(r)

LiveSpec ==
    /\ SuiteSpec
    /\ \A n \in 1..8 : WF_suite(Runs(n))
    /\ \A n \in 1..2 : SF_suite(Takes(n))

Busy(n) ==
    CASE case = "convert" -> call.pc = "run"
      [] case = "runners" -> runner[<<"r1", "r3">>[n]].pc = "bind"
      [] OTHER -> TRUE

Ended(n) ==
    CASE case = "returns" -> attempt.pc = "done"
      [] case = "convert" -> call.pc = "idle"
      [] case = "reading" -> Reading!Readable \subseteq texts
      [] case = "embedding" -> \A i \in 1..4 : text[i] # "none" /\ Embedding!Fits(i) => vector[i] # "none"
      [] case = "ocrjob" -> pc["r1"] = "returned" \/ process = "gone"
      [] case = "runners" -> runner[<<"r1", "r3">>[n]].pc = "returned"
      [] case = "refresh" -> wf.status # "running"

\* Supervisors, conversions, provider clients, runners and refreshes end, and repeated
\* shards read every scan and embed every chunk that fits, whatever else fails.
WorkersEnd == \A n \in 1..2 : Busy(n) ~> Ended(n)
===============================================================================
