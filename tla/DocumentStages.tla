--------------------------- MODULE DocumentStages ---------------------------
(***************************************************************************)
(* The stages of cmd/pipeline after Fetch, for one legal document that     *)
(* several publishers carry: Extract, Normalize, OcrAll, Index, EmbedAll.  *)
(* Each publisher's copy is a fetch_doc; a stage command lists candidates  *)
(* above a cursor (ListFetchDocIDsNeeding...After) and runs the activity   *)
(* statement by statement; the process may stop between two statements.    *)
(* What the queries look at is the handoff between the stages: aliases and *)
(* text rows, sections, the open validity row, chunks, embeddings.         *)
(***************************************************************************)
EXTENDS Naturals, FiniteSets, Sequences

CONSTANTS
  FetchDocs,       \* ingest.fetch_doc ids (natural numbers) of the document
  Source(_),       \* the publisher of a fetch_doc
  Contents(_),     \* what a publisher's answer for the fetch_doc may contain
  Listed,          \* fetch_docs discovery lists by itself
  Vbpl,            \* fetch_docs of the source vbpl
  Fallbacks,       \* congbao fetch_docs only discoverCongbaoFallback enqueues
  RelationDocs,    \* fetch_docs with provenance 'relation'
  OutOfScope,      \* the title misses the scope vocabulary
  UnknownInForce,  \* jurisdiction.UnknownValidityInForce
  Commands,        \* stages an operator also runs by themselves
  Forced,          \* values of -force the stage commands are run with
  MaxRounds,       \* doRunAll's rounds
  MaxRechecks,     \* sourceContentMaxRechecks
  MaxFaults        \* bound: crashes and failed statements

Stages == {"extract", "normalize", "ocr", "index", "embed"}

StagesAssumption ==
  FetchDocs \subseteq Nat /\ IsFiniteSet(FetchDocs) /\ Commands \subseteq Stages

VARIABLES
  fetch,      \* fetch_doc -> unknown, queued, complete or recheck
  bronze,     \* fetch_doc -> its Bronze payloads and files
  rechecks,   \* fetch_doc -> content_recheck_count; the reason is set iff > 0
  aliases,    \* fetch_docs with a silver.document_alias
  texts,      \* silver.document_text rows
  sections,   \* where the current silver.document_section rows come from
  validity,   \* open document-level validity rows
  class,      \* silver.document.index_class
  chunks,     \* gold.chunk: none, current (point at sections) or stale
  embedded,   \* every chunk has its canonical vector
  plan,       \* stages the running command still has to do
  force, cursor, pc, fd,
  todo,       \* candidate files Extract has not tried yet
  seen,       \* Extract's locals: {"review", "unavailable", "failed", "written"}
  faults

store == <<fetch, bronze, rechecks, aliases, texts, sections, validity, class, chunks, embedded>>
local == <<plan, force, cursor, pc, fd, todo, seen>>
vars == <<store, local, faults>>

(* doRunAll: rounds of Extract and Normalize while Fetch still finds work,  *)
(* then OCR, Normalize once more, Index, Embed.                             *)
RunAll(rounds) ==
  [i \in 1..(2 * rounds) |-> IF i % 2 = 1 THEN "extract" ELSE "normalize"]
    \o <<"ocr", "normalize", "index", "embed">>

(* The outcome of converting one file or body: ok; weak (passes Extract's   *)
(* check, fails Normalize's gate); poor; layer (a scan's embedded text,     *)
(* readable but distrusted); faq (readable, never binding); empty;          *)
(* placeholder (the publisher's notice that the text is not there yet);     *)
(* fail (the file cannot be read); none (no such file).                     *)
Outcomes == {"none", "fail", "ok", "weak", "poor", "layer", "faq", "empty", "placeholder"}
Kinds == {"docx", "html", "doc", "pdf", "scan"}
Classes == {"in_force", "expired", "unknown"}

(* sourceMetadataPriority: which publisher's metadata wins.                 *)
metadataPriority(source) ==
  CASE source \in {"vbpl", "ojk", "vbhn"} -> 10
    [] source \in {"congbao", "bi"} -> 7
    [] OTHER -> 5
Priority(f) == metadataPriority(Source(f))

Row(authority, f, binding, review, quality) ==
  [authority |-> authority, source |-> f, binding |-> binding, review |-> review, quality |-> quality]

(* assessConvertedText: binding unless the text is unavailable, only a      *)
(* supplement or of low quality.                                            *)
assessConvertedText(authority, f, o) ==
  Row(authority, f, o \in {"ok", "weak"}, o \notin {"ok", "weak"},
      CASE o = "ok" -> "good" [] o \in {"weak", "poor"} -> "poor" [] OTHER -> o)

extractDOCX(f, o) == assessConvertedText("gazette_borndigital", f, o)
extractHTML(f, o) == assessConvertedText("transcription_html", f, o)
extractDOC(f, o) == assessConvertedText("gazette_borndigital", f, o)

(* assessPDFExtraction: a scan's text layer is never trusted, whatever the  *)
(* gate would say of it.                                                    *)
assessPDFExtraction(o) ==
  CASE o \in {"ok", "faq", "layer"} -> "good" [] OTHER -> o

(* extractPDF and writePDFText: a FAQ page is readable and never binding.   *)
extractPDF(f, o) ==
  Row("gazette_borndigital", f, o = "ok", o \notin {"ok", "faq"}, assessPDFExtraction(o))

extractKind(kind, f, o) ==
  CASE kind = "docx" -> extractDOCX(f, o)
    [] kind = "html" -> extractHTML(f, o)
    [] kind = "doc" -> extractDOC(f, o)
    [] OTHER -> extractPDF(f, o)

(* An empty conversion counts as unavailable, except for a PDF, which OCR   *)
(* may still read.                                                          *)
SourceUnavailable(kind, o) ==
  o = "placeholder" \/ (o = "empty" /\ kind \in {"docx", "html", "doc"})

(* UpsertDocumentText: one row per authority and source.                    *)
UpsertDocumentText(row) ==
  {t \in texts : <<t.authority, t.source>> # <<row.authority, row.source>>} \cup {row}

NonEmpty == {t \in texts : t.quality # "empty"}
Binding == {t \in texts : t.binding}

(* bindingTextQualitySkipReason finds nothing against the text.             *)
Usable(t) == t.quality = "good"

chooseBindingText == {t \in Binding : Usable(t)}

chooseNonBindingFallback ==
  {t \in texts : /\ ~t.binding /\ Usable(t)
                 /\ ~t.review \/ t.authority = "ocr_extractive"}

-----------------------------------------------------------------------------
(* The selectors.                                                           *)
Terminal(f) == fetch[f] = "complete"

hasExtractableSource(f) == \E k \in Kinds : bronze[f][k] # "none"

ListFetchDocIDsNeedingExtractAfter(after) ==
  {f \in FetchDocs : /\ f > after /\ Terminal(f)
                     /\ \/ f \notin aliases
                        \/ hasExtractableSource(f) /\ NonEmpty = {}}

ownValidity == {Priority(v.source) : v \in validity}

MListNormalize(after) ==
  {f \in FetchDocs \cap aliases :
     /\ f > after /\ Terminal(f)
     /\ \/ force \/ validity = {} \/ (NonEmpty # {} /\ sections = "none")
        \/ \A p \in ownValidity : Priority(f) > p}

MListNormalizeReopen(after) ==
  {f \in FetchDocs \cap aliases :
     /\ f > after /\ Terminal(f)
     /\ ~ \E g \in aliases : Terminal(g) /\ Priority(g) > Priority(f)
     /\ \/ force \/ validity = {} \/ (NonEmpty # {} /\ sections = "none")}

MListNormalizeWeak(after) ==
  {f \in FetchDocs \cap aliases :
     /\ f > after /\ Terminal(f)
     /\ ~ \E g \in aliases : Terminal(g) /\ Priority(g) > Priority(f)
     /\ \/ force \/ validity = {} \/ (NonEmpty # {} /\ sections = "none")
        \/ \A p \in ownValidity : Priority(f) >= p}

(* listNormalizeCandidatesQuery: no complete sibling outranks it, and the   *)
(* document is forced, has no open validity row, has text but no sections,  *)
(* or this source outranks the one that wrote the open row.                 *)
ListFetchDocIDsNeedingNormalizeAfter(after) ==
  {f \in FetchDocs \cap aliases :
     /\ f > after /\ Terminal(f)
     /\ ~ \E g \in aliases : Terminal(g) /\ Priority(g) > Priority(f)
     /\ \/ force
        \/ validity = {}
        \/ NonEmpty # {} /\ sections = "none"
        \/ \A p \in ownValidity : Priority(f) > p}

MListIndex(after) ==
  {f \in FetchDocs \cap aliases :
     /\ f > after /\ Terminal(f) /\ validity # {} /\ sections # "none"
     /\ force \/ (class = "primary" /\ chunks = "none")}

(* Sections, an open validity row, and no chunk that points at a section.   *)
ListFetchDocIDsNeedingIndexAfter(after) ==
  {f \in FetchDocs \cap aliases :
     /\ f > after /\ Terminal(f)
     /\ validity # {} /\ sections # "none"
     /\ force \/ (class = "primary" /\ chunks # "current")}

Candidates(stage, after) ==
  CASE stage = "extract" -> ListFetchDocIDsNeedingExtractAfter(after)
    [] stage = "normalize" -> ListFetchDocIDsNeedingNormalizeAfter(after)
    [] stage = "index" -> ListFetchDocIDsNeedingIndexAfter(after)
    [] OTHER -> {}

(* DISTINCT ON the document: the lowest id, for Normalize the highest       *)
(* priority first.                                                          *)
Picked(stage, S) ==
  CHOOSE f \in S : \A g \in S :
    IF stage = "normalize" /\ Priority(f) # Priority(g)
    THEN Priority(f) > Priority(g) ELSE f <= g

(* ocrScanQuery: a PDF of any aliased source that waits for no recheck, no  *)
(* binding text, and (unless forced) no OCR text yet.                       *)
ocrScans ==
  {f \in aliases : /\ rechecks[f] = 0
                   /\ bronze[f]["pdf"] # "none" \/ bronze[f]["scan"] # "none"}

ocrScanQuery ==
  IF Binding = {} /\ (force \/ ~ \E t \in texts : t.authority = "ocr_extractive")
  THEN ocrScans ELSE {}

-----------------------------------------------------------------------------
Init ==
  /\ fetch = [f \in FetchDocs |-> IF f \in Listed THEN "queued" ELSE "unknown"]
  /\ bronze \in {b \in [FetchDocs -> UNION {Contents(f) : f \in FetchDocs}] :
                   \A f \in FetchDocs : b[f] \in Contents(f)}
  /\ rechecks = [f \in FetchDocs |-> 0]
  /\ aliases = {} /\ texts = {} /\ sections = "none" /\ validity = {}
  /\ class = "primary" /\ chunks = "none" /\ embedded = FALSE
  /\ plan = <<>> /\ force = FALSE /\ cursor = 0 /\ pc = "list" /\ fd = 0
  /\ todo = <<>> /\ seen = {} /\ faults = 0

(* Fetch completes a fetch_doc: its answer is in Bronze. After a recheck    *)
(* the publisher may have put the text there.                               *)
Fetched(f) ==
  /\ fetch[f] \in {"queued", "recheck"}
  /\ fetch' = [fetch EXCEPT ![f] = "complete"]
  /\ IF fetch[f] = "recheck"
     THEN \E c \in Contents(f) : bronze' = [bronze EXCEPT ![f] = c]
     ELSE UNCHANGED bronze
  /\ UNCHANGED <<rechecks, aliases, texts, sections, validity, class, chunks, embedded, local, faults>>

(* An operator or the schedule starts a command; a single stage may resume  *)
(* after an id.                                                             *)
Start(stages, f, after) ==
  /\ plan = <<>> /\ pc = "list"
  /\ plan' = stages /\ force' = f /\ cursor' = after
  /\ UNCHANGED <<store, pc, fd, todo, seen, faults>>

Idle == pc' = "list" /\ fd' = 0 /\ todo' = <<>> /\ seen' = {}

(* The command ends with an error: nothing after this statement happens.    *)
Abort == plan' = <<>> /\ force' = FALSE /\ cursor' = 0 /\ Idle

(* runStageBatch: a stage lists one page above its cursor and processes it; *)
(* the document is on it once or not at all.                                *)
runStageBatch ==
  /\ plan # <<>> /\ pc = "list" /\ Head(plan) \in {"extract", "normalize", "index"}
  /\ plan' = Tail(plan)
  /\ LET S == Candidates(Head(plan), cursor) IN
     IF S = {}
     THEN UNCHANGED <<pc, fd, todo, seen>>
     ELSE /\ fd' = Picked(Head(plan), S)
          /\ pc' = CASE Head(plan) = "extract" -> "convert"
                     [] Head(plan) = "normalize" -> "sections"
                     [] Head(plan) = "index" -> "class"
          /\ todo' = IF Head(plan) = "extract" THEN <<"docx", "html", "doc", "pdf">> ELSE <<>>
          /\ seen' = {}
  /\ UNCHANGED <<store, force, cursor, faults>>

-----------------------------------------------------------------------------
(* Extract.                                                                 *)
(* The main PDF, or the original scan when no born-digital text was seen.   *)
pickPDFForExtraction ==
  IF bronze[fd]["pdf"] # "none" \/ "review" \in seen THEN "pdf" ELSE "scan"

Kind == IF Head(todo) = "pdf" THEN pickPDFForExtraction ELSE Head(todo)
Outcome == bronze[fd][Kind]

(* The file is missing or cannot be read: the cascade tries the next one; a *)
(* PDF is the last and its error fails the item.                            *)
SkipFile ==
  /\ pc = "convert" /\ todo # <<>> /\ Outcome \in {"none", "fail"}
  /\ IF Outcome = "fail" /\ Head(todo) = "pdf"
     THEN Abort
     ELSE /\ todo' = Tail(todo)
          /\ seen' = seen \cup (IF Outcome = "fail" THEN {"failed"} ELSE {})
          /\ UNCHANGED <<plan, force, cursor, pc, fd>>
  /\ UNCHANGED <<store, faults>>

(* upsertSilverDocument: the document row and this source's alias.          *)
upsertSilverDocument ==
  /\ \/ pc = "convert" /\ todo # <<>> /\ Outcome \notin {"none", "fail"} /\ pc' = "text"
     \/ pc = "nofile" /\ pc' = "fallback"
  /\ aliases' = aliases \cup {fd}
  /\ UNCHANGED <<fetch, bronze, rechecks, texts, sections, validity, class, chunks, embedded,
                 plan, force, cursor, fd, todo, seen, faults>>

(* extractDOCX, extractHTML, extractDOC, extractPDF: the text row. Good     *)
(* text ends the cascade, a PDF ends it in any case.                        *)
extractFile ==
  /\ pc = "text"
  /\ LET row == extractKind(Kind, fd, Outcome)
         gone == SourceUnavailable(Kind, Outcome)
         last == ~row.review \/ Head(todo) = "pdf"
     IN /\ texts' = UpsertDocumentText(row)
        /\ todo' = IF last THEN <<>> ELSE Tail(todo)
        /\ seen' = (IF last THEN {} ELSE seen \cup {"review"})
                     \cup {"written"} \cup (IF gone THEN {"unavailable"} ELSE {})
        /\ pc' = "convert"
  /\ UNCHANGED <<fetch, bronze, rechecks, aliases, sections, validity, class, chunks, embedded,
                 plan, force, cursor, fd, faults>>

(* scheduleSourceContentRecheck: the fetch_doc is fetched again, at most    *)
(* MaxRechecks times.                                                       *)
scheduleSourceContentRecheck ==
  /\ pc = "convert" /\ todo = <<>> /\ "unavailable" \in seen
  /\ IF rechecks[fd] < MaxRechecks
     THEN /\ fetch' = [fetch EXCEPT ![fd] = "recheck"]
          /\ rechecks' = [rechecks EXCEPT ![fd] = @ + 1]
     ELSE UNCHANGED <<fetch, rechecks>>
  /\ pc' = "fallback"
  /\ UNCHANGED <<bronze, aliases, texts, sections, validity, class, chunks, embedded,
                 plan, force, cursor, fd, todo, seen, faults>>

(* discoverCongbaoFallback: the gazette may carry the same number.          *)
discoverCongbaoFallback ==
  /\ pc = "fallback"
  /\ \/ UNCHANGED fetch
     \/ \E f \in Fallbacks : fd \in Vbpl /\ fetch[f] = "unknown" /\ fetch' = [fetch EXCEPT ![f] = "queued"]
  /\ Idle
  /\ UNCHANGED <<bronze, rechecks, aliases, texts, sections, validity, class, chunks, embedded,
                 plan, force, cursor, faults>>

(* Extract returns: with a text, with every candidate failed (an error), or *)
(* with no file at all, when only the document is recorded.                 *)
ExtractReturns ==
  /\ pc = "convert" /\ todo = <<>> /\ "unavailable" \notin seen
  /\ CASE "written" \in seen -> Idle /\ UNCHANGED <<plan, force, cursor>>
       [] "written" \notin seen /\ "failed" \in seen -> Abort
       [] OTHER -> pc' = "nofile" /\ UNCHANGED <<plan, force, cursor, fd, todo, seen>>
  /\ UNCHANGED <<store, faults>>

-----------------------------------------------------------------------------
(* Normalize.                                                               *)

(* Where the sections of a normalized fetch_doc come from.                  *)
NewSections ==
  CASE bronze[fd].tree -> "tree"
    [] ~bronze[fd].tree /\ chooseBindingText # {} -> "binding"
    [] ~bronze[fd].tree /\ Binding = {} /\ chooseNonBindingFallback # {} -> "nonbinding"
    [] OTHER -> "none"

(* replaceNormalizeSections: one transaction that deletes the sections and  *)
(* writes new ones under new ids; no foreign key follows from the chunks.   *)
replaceNormalizeSections ==
  /\ pc = "sections"
  /\ sections' = NewSections
  /\ chunks' = IF chunks = "none" THEN "none" ELSE "stale"
  /\ pc' = "validity"
  /\ UNCHANGED <<fetch, bronze, rechecks, aliases, texts, validity, class, embedded,
                 plan, force, cursor, fd, todo, seen, faults>>

(* normalizeValidity: a source without a status says nothing; where the     *)
(* jurisdiction opts in that counts as in force.                            *)
normalizeValidity(f) ==
  IF bronze[f].status = "" THEN (IF UnknownInForce THEN "in_force" ELSE "unknown")
  ELSE bronze[f].status

(* A status-less observation leaves a status that is known alone.           *)
KeepsValidity == bronze[fd].status = "" /\ \E v \in validity : v.class # "unknown"

(* upsertValidityPeriod's first statement; the second is InsertValidityPeriod. *)
SupersedeValidityPeriods ==
  /\ pc = "validity"
  /\ IF KeepsValidity
     THEN Idle /\ UNCHANGED validity
     ELSE validity' = {} /\ pc' = "insert" /\ UNCHANGED <<fd, todo, seen>>
  /\ UNCHANGED <<fetch, bronze, rechecks, aliases, texts, sections, class, chunks, embedded,
                 plan, force, cursor, faults>>

InsertValidityPeriod ==
  /\ pc = "insert"
  /\ validity' = validity \cup {[class |-> normalizeValidity(fd), source |-> fd]}
  /\ Idle
  /\ UNCHANGED <<fetch, bronze, rechecks, aliases, texts, sections, class, chunks, embedded,
                 plan, force, cursor, faults>>

(* persistDocumentValidityBestEffort: a failed statement is a warning.      *)
ValidityFails ==
  /\ pc \in {"validity", "insert"} /\ faults < MaxFaults
  /\ faults' = faults + 1
  /\ Idle
  /\ UNCHANGED <<store, plan, force, cursor>>

-----------------------------------------------------------------------------
(* OcrAll and EmbedAll, whose selectors work on the document itself.        *)
OcrRow(f, quality) ==
  [authority |-> "ocr_extractive", source |-> f, binding |-> FALSE,
   review |-> quality # "good", quality |-> quality]

(* processOCRPageWith and writeOCRResult: the original scan of any source   *)
(* before a main PDF; a failed scan fails the command.                      *)
OcrAll ==
  /\ plan # <<>> /\ pc = "list" /\ Head(plan) = "ocr"
  /\ \/ /\ ocrScanQuery = {}
        /\ plan' = Tail(plan)
        /\ UNCHANGED <<texts, force, cursor, pc, fd, todo, seen, faults>>
     \/ \E f \in ocrScanQuery :
          /\ (\E g \in ocrScanQuery : bronze[g]["scan"] # "none") => bronze[f]["scan"] # "none"
          /\ \E quality \in {"good", "poor"} : texts' = UpsertDocumentText(OcrRow(f, quality))
          /\ plan' = Tail(plan)
          /\ UNCHANGED <<force, cursor, pc, fd, todo, seen, faults>>
     \/ /\ ocrScanQuery # {} /\ faults < MaxFaults
        /\ faults' = faults + 1
        /\ Abort /\ UNCHANGED texts
  /\ UNCHANGED <<fetch, bronze, rechecks, aliases, sections, validity, class, chunks, embedded>>

(* EmbedAll: a vector for every chunk that has none.                        *)
EmbedAll ==
  /\ plan # <<>> /\ pc = "list" /\ Head(plan) = "embed"
  /\ embedded' = (chunks # "none")
  /\ plan' = Tail(plan)
  /\ UNCHANGED <<fetch, bronze, rechecks, aliases, texts, sections, validity, class, chunks,
                 force, cursor, pc, fd, todo, seen, faults>>

-----------------------------------------------------------------------------
(* Index.                                                                   *)
relationContextOnly ==
  aliases # {} /\ aliases \subseteq RelationDocs /\ OutOfScope

SetDocumentIndexClass ==
  /\ pc = "class"
  /\ class' = IF relationContextOnly THEN "relation_context" ELSE "primary"
  /\ pc' = IF relationContextOnly THEN "context" ELSE "chunks"
  /\ UNCHANGED <<fetch, bronze, rechecks, aliases, texts, sections, validity, chunks, embedded,
                 plan, force, cursor, fd, todo, seen, faults>>

DeleteContextChunks ==
  /\ pc = "context"
  /\ chunks' = "none" /\ embedded' = FALSE
  /\ Idle
  /\ UNCHANGED <<fetch, bronze, rechecks, aliases, texts, sections, validity, class,
                 plan, force, cursor, faults>>

(* The transaction that replaces the chunks; vectors go with their chunk,   *)
(* and embedChunks writes new ones when an embedder answers.                *)
ReplaceChunks ==
  /\ pc = "chunks"
  /\ chunks' = IF sections = "none" THEN "none" ELSE "current"
  /\ embedded' \in (IF sections = "none" THEN {FALSE} ELSE BOOLEAN)
  /\ Idle
  /\ UNCHANGED <<fetch, bronze, rechecks, aliases, texts, sections, validity, class,
                 plan, force, cursor, faults>>

-----------------------------------------------------------------------------
(* The command's process stops.                                             *)
Crash ==
  /\ plan # <<>> \/ pc # "list"
  /\ faults < MaxFaults /\ faults' = faults + 1
  /\ Abort
  /\ UNCHANGED store

StageStep ==
  \/ runStageBatch \/ SkipFile \/ upsertSilverDocument \/ extractFile
  \/ scheduleSourceContentRecheck \/ discoverCongbaoFallback \/ ExtractReturns
  \/ replaceNormalizeSections \/ SupersedeValidityPeriods \/ InsertValidityPeriod
  \/ OcrAll \/ EmbedAll
  \/ SetDocumentIndexClass \/ DeleteContextChunks \/ ReplaceChunks

Next ==
  \/ \E f \in FetchDocs : Fetched(f)
  \/ \E rounds \in 1..MaxRounds : Start(RunAll(rounds), FALSE, 0)
  \/ \E stage \in Commands, f \in Forced, after \in {0} \cup FetchDocs : Start(<<stage>>, f, after)
  \/ StageStep \/ ValidityFails \/ Crash

(* A process that has started goes on; run-all is started again and again;  *)
(* Fetch completes what is queued.                                          *)
Fairness ==
  /\ WF_vars(StageStep)
  /\ SF_vars(Start(RunAll(1), FALSE, 0))
  /\ \A f \in FetchDocs : WF_vars(Fetched(f))

Spec == Init /\ [][Next]_vars /\ Fairness

-----------------------------------------------------------------------------
TypeOK ==
  /\ fetch \in [FetchDocs -> {"unknown", "queued", "complete", "recheck"}]
  /\ rechecks \in [FetchDocs -> 0..MaxRechecks]
  /\ aliases \subseteq FetchDocs
  /\ \A t \in texts : t.source \in aliases /\ (t.binding => ~t.review)
  /\ \A t, u \in texts : t.authority = u.authority /\ t.source = u.source => t = u
  /\ sections \in {"none", "tree", "binding", "nonbinding"}
  /\ \A v \in validity : v.class \in Classes /\ v.source \in FetchDocs
  /\ chunks \in {"none", "stale", "current"}
  /\ embedded \in BOOLEAN
  /\ faults \in 0..MaxFaults

(* The sections of the best publisher's provision tree are not replaced by  *)
(* a parse of text or of a lower publisher's copy while that publisher's    *)
(* copy is complete, whatever pages, cursors and -force do.                 *)
BestTree == {f \in aliases : Terminal(f) /\ bronze[f].tree /\
                             \A g \in aliases : g # f => Priority(g) < Priority(f)}
TreeKeptStep == BestTree # {} /\ sections = "tree" => sections' = "tree"
TreeKept == [][TreeKeptStep]_vars

(* One open document-level validity row at most.                            *)
OneOpenRow == Cardinality(validity) <= 1

(* Every copy of the document is fetched, and nothing is to be rechecked.   *)
AllFetched == \A f \in Listed : fetch[f] = "complete"

(* A readable document is searched in the end: its chunks point at its      *)
(* current sections and have vectors, in spite of crashes and failures.     *)
Readable == \E f \in aliases : Terminal(f) /\ (bronze[f].tree \/ \E k \in Kinds : bronze[f][k] = "ok")
Served == sections # "none" /\ chunks = "current" /\ embedded
EventuallyServed == Readable ~> Served

(* "Seals itself": once everything is fetched, no stage has work left.      *)
NothingNeeded ==
  /\ ListFetchDocIDsNeedingExtractAfter(0) = {}
  /\ ListFetchDocIDsNeedingNormalizeAfter(0) = {}
  /\ ListFetchDocIDsNeedingIndexAfter(0) = {}
Seals == []<>(NothingNeeded \/ force)

(* In spite of crashes and failed statements the document comes to rest: no *)
(* stage has work, a readable document is searched, and the best            *)
(* publisher's tree is what its sections are.                               *)
Settled ==
  /\ NothingNeeded
  /\ Readable => Served
  /\ BestTree # {} => sections = "tree"
EventuallySettled == []<>Settled

(* ExtractAll selects what lacks usable text: text the publisher delivers   *)
(* after a placeholder is extracted in the end.                             *)
LateTextUsed ==
  []<>(\A f \in Listed : Terminal(f) /\ bronze[f]["pdf"] = "ok" =>
        \E t \in texts : t.source = f /\ t.quality = "good")

(* Non-binding text is used only when no binding text exists: sections made *)
(* from OCR give way to a binding text that arrives later.                  *)
BindingWins == []<>(chooseBindingText # {} => sections # "nonbinding")

(* "Failing closed": chunks of text that Normalize has rejected go away.    *)
RejectedNotServed == []<>(sections = "none" => chunks = "none")

(* Only documents known through relations alone stay relation context.      *)
ContextReopens == []<>(class = "relation_context" => relationContextOnly)
=============================================================================
