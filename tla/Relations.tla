----------------------------- MODULE Relations ------------------------------
(***************************************************************************)
(* The reference graph between legal documents (silver.doc_ref,            *)
(* relation_evidence, document_relation) and what it makes the pipeline    *)
(* fetch. A reference is a row of its own, keyed by a publisher's id or by *)
(* a document number; it is a stub until its target is in the corpus.      *)
(* Extract stores a document and resolves the stubs that wait for it;      *)
(* Normalize writes the references a document makes and enqueues official  *)
(* targets that are missing; BackfillRelationTargets, RecomputeRelations   *)
(* and ResolveRefs repair. Commands run one after another, a command's     *)
(* workers at the same time, and the process may stop at any statement.    *)
(***************************************************************************)
EXTENDS Naturals, FiniteSets, FiniteSetsExt

CONSTANTS
  Copies,        \* publishers' copies: <source, external id> of a fetch_doc (naturals)
  Workers,
  Document(_),   \* the silver document a copy belongs to (naturals)
  Source(_),     \* the publisher of a copy
  Number(_),     \* doc_number_norm of a document, None where it has no number
  Untyped,       \* documents with a number whose type is not known
  Listed,        \* copies discovery lists by itself
  Translations,  \* vbpl copies in the id namespace of translations
  Targets(_),    \* a copy -> publisher ids it names (promoted, structured)
  Unnumbered(_), \* those of them it names without a document number
  Numbers(_),    \* a copy -> document numbers its text or metadata names
  Replaced(_),   \* a BNM copy -> documents its supersession clause expires
  Limit,         \* BackfillRelationTargets' limit
  Repairs,       \* "resolve", "recompute", "force": operator commands that are run
  MaxFaults      \* bound: crashes

RelationsAssumption == Copies \subseteq Nat \ {0} /\ Listed \subseteq Copies /\ Limit \in Nat \ {0}

None == 0
Docs == {Document(f) : f \in Copies}

(* relationTargetRefKey, and the key applyBNMSupersession makes up.         *)
SourceKey(f) == <<"source", f>>
NumberKey(n) == <<"number", n>>
ReplacedKey(d) == <<"bnm:superseded", d>>
TypedKey(d) == <<"typed", d>>
Keys == {SourceKey(f) : f \in Copies} \cup {NumberKey(Number(d)) : d \in Docs}
          \cup {ReplacedKey(d) : d \in Docs}

(* docKey: type and number, the number alone, or the publisher's id. No     *)
(* reference has a key of the first kind.                                   *)
docKey(f) ==
  LET d == Document(f)
  IN IF Number(d) = None THEN SourceKey(f)
     ELSE IF d \in Untyped THEN NumberKey(Number(d)) ELSE TypedKey(d)

VARIABLES
  provenance,  \* copy -> "none", "discovery" or "relation" (ingest.fetch_doc)
  documents,   \* silver.document rows
  alias,       \* copy -> its document, silver.document_alias
  extracted,   \* copies with a text row
  refs,        \* ref keys with a silver.doc_ref row
  point,       \* ref key -> doc_ref.document_id
  evidence,    \* promoted structured relation_evidence: <<document, ref key, source>>
  edges,       \* document_relation: <<document, ref key, source>>
  normalized,  \* copies Normalize has sealed: sections and an open validity row
  command,     \* the running command and the copies it still has to hand out
  work,        \* worker -> its call
  faults

graph == <<refs, point, evidence, edges>>
vars == <<provenance, documents, alias, extracted, graph, normalized, command, work, faults>>

Idle == [pc |-> "idle", copy |-> None, todo |-> {}]
NoCommand == [stage |-> "none", page |-> {}]
Go(w, pc) == work' = [work EXCEPT ![w].pc = pc]
Quiet == command.page = {} /\ \A w \in Workers : work[w].pc = "idle"

-----------------------------------------------------------------------------
(* The statements.                                                          *)
DocumentIDByAlias(f) == alias[f]

DocumentIDsByNumberNorm(n) == {d \in documents : Number(d) = n}

(* UpsertDocRef: a pointer that is set stays (COALESCE).                    *)
UpsertDocRef(made, to) ==
  /\ refs' = refs \cup made
  /\ point' = [k \in Keys |-> IF k \in made /\ point[k] = None THEN to[k] ELSE point[k]]

(* ResolveDocRef: link a stub to a document that landed.                    *)
ResolveDocRef(key, d) ==
  point' = IF key \in refs /\ point[key] = None THEN [point EXCEPT ![key] = d] ELSE point

(* ResolveDocRefForUniqueNumber: only while one document has the number.    *)
ResolveDocRefForUniqueNumber(n, d) ==
  point' = IF /\ NumberKey(n) \in refs /\ point[NumberKey(n)] = None
              /\ Cardinality(DocumentIDsByNumberNorm(n)) = 1
           THEN [point EXCEPT ![NumberKey(n)] = d] ELSE point

(* relationTargetDocumentID: by alias, or by a number exactly one has.      *)
relationTargetDocumentID(key) ==
  CASE key[1] = "source" -> DocumentIDByAlias(key[2])
    [] key[1] = "number" ->
         LET ids == DocumentIDsByNumberNorm(key[2])
         IN IF Cardinality(ids) = 1 THEN CHOOSE d \in ids : TRUE ELSE None
    [] OTHER -> None

(* A candidate without a number is skipped, whatever id it has: it gets no  *)
(* reference, no evidence and no edge, and backfill does not enqueue it.    *)
Written(f) == Targets(f) \ Unnumbered(f)

Candidates(f) == {SourceKey(t) : t \in Written(f)} \cup {NumberKey(n) : n \in Numbers(f)}

-----------------------------------------------------------------------------
(* Extract: upsertSilverDocument, one statement after the other, then the   *)
(* text.                                                                    *)
UpsertDocument(w) ==
  /\ work[w].pc = "document"
  /\ documents' = documents \cup {Document(work[w].copy)}
  /\ Go(w, "alias")
  /\ UNCHANGED <<provenance, alias, extracted, graph, normalized, command, faults>>

UpsertDocumentAlias(w) ==
  /\ work[w].pc = "alias"
  /\ alias' = [alias EXCEPT ![work[w].copy] = Document(work[w].copy)]
  /\ Go(w, "dockey")
  /\ UNCHANGED <<provenance, documents, extracted, graph, normalized, command, faults>>

MresolveSilverDocRef(w, key) ==
  /\ ResolveDocRef(docKey(work[w].copy), Document(work[w].copy))
  /\ UNCHANGED <<provenance, documents, alias, extracted, refs, evidence, edges, normalized, command, faults>>

resolveSilverDocRef(w, key) ==
  /\ ResolveDocRef(key, Document(work[w].copy))
  /\ UNCHANGED <<provenance, documents, alias, extracted, refs, evidence, edges, normalized, command, faults>>

(* The stubs under the document's own key, which by number alone may be     *)
(* shared, ...                                                              *)
resolveDocKeyRefs(w) ==
  LET key == docKey(work[w].copy) IN
  /\ work[w].pc = "dockey"
  /\ resolveSilverDocRef(w, key)
  /\ Go(w, IF key = SourceKey(work[w].copy) THEN "number" ELSE "source")

(* ... under the publisher's id, ...                                        *)
resolveSourceRefs(w) ==
  /\ work[w].pc = "source"
  /\ resolveSilverDocRef(w, SourceKey(work[w].copy))
  /\ Go(w, "number")

(* ... and by a number the key above was not.                               *)
resolveNumberRefs(w) ==
  LET d == Document(work[w].copy) IN
  /\ work[w].pc = "number"
  /\ IF Number(d) # None /\ docKey(work[w].copy) # NumberKey(Number(d))
     THEN ResolveDocRefForUniqueNumber(Number(d), d) ELSE point' = point
  /\ Go(w, "text")
  /\ UNCHANGED <<provenance, documents, alias, extracted, refs, evidence, edges, normalized, command, faults>>

WriteText(w) ==
  /\ work[w].pc = "text"
  /\ extracted' = extracted \cup {work[w].copy}
  /\ work' = [work EXCEPT ![w] = Idle]
  /\ UNCHANGED <<provenance, documents, alias, graph, normalized, command, faults>>

-----------------------------------------------------------------------------
(* The rows that are not of this document and publisher.                    *)
OfOthers(rows, f) == {e \in rows : ~(e[1] = Document(f) /\ e[3] = Source(f))}

DeleteRelationEvidenceByDocumentSource(f) == OfOthers(evidence, f)

DeleteDocumentRelationsByDocumentSource(f) == OfOthers(edges, f)

(* The promoted, structured candidates: evidence, and an edge each.         *)
UpsertRelationEvidence(f) == {<<Document(f), SourceKey(t), Source(f)>> : t \in Written(f)}

UpsertDocumentRelation(f, keys) == {<<Document(f), k, Source(f)>> : k \in keys}

(* Normalize replaces the sections and writes the validity row first: from  *)
(* here on the stage does not list the copy again.                          *)
persistDocumentValidity(w) ==
  /\ work[w].pc = "seal"
  /\ normalized' = normalized \cup {work[w].copy}
  /\ Go(w, "evidence")
  /\ UNCHANGED <<provenance, documents, alias, extracted, graph, command, faults>>

(* writeRelationCandidates: the rows of this document and publisher go, the *)
(* candidates' come.                                                        *)
writeRelationCandidates(f) ==
  /\ evidence' = DeleteRelationEvidenceByDocumentSource(f) \cup UpsertRelationEvidence(f)
  /\ edges' = DeleteDocumentRelationsByDocumentSource(f)
                \cup UpsertDocumentRelation(f, {SourceKey(t) : t \in Written(f)})

(* persistRelationEvidence: one transaction.                                *)
persistRelationEvidence(w) ==
  LET f == work[w].copy IN
  /\ work[w].pc = "evidence"
  /\ UpsertDocRef(Candidates(f), [k \in Keys |-> relationTargetDocumentID(k)])
  /\ writeRelationCandidates(f)
  /\ work' = [work EXCEPT ![w].pc = "backfill", ![w].todo = Written(f)]
  /\ UNCHANGED <<provenance, documents, alias, extracted, normalized, command, faults>>

(* The transaction fails: a warning, and Normalize goes on without it.      *)
persistRelationEvidenceBestEffort(w) ==
  /\ work[w].pc = "evidence" /\ faults < MaxFaults
  /\ faults' = faults + 1
  /\ Go(w, "backfill")
  /\ UNCHANGED <<provenance, documents, alias, extracted, graph, normalized, command>>

(* enqueueRelationTargetDoc: never a translation; the row discovery made    *)
(* keeps its provenance.                                                    *)
enqueueRelationTargetDoc(t) ==
  provenance' = IF t \in Translations \/ provenance[t] # "none" THEN provenance
                ELSE [provenance EXCEPT ![t] = "relation"]

(* backfillRelationCandidates: a document that was itself fetched for a     *)
(* relation starts no further ones.                                         *)
backfillRelationCandidates(w) ==
  LET t == Min(work[w].todo) IN
  /\ work[w].pc = "backfill" /\ work[w].todo # {}
  /\ IF provenance[work[w].copy] = "relation" \/ DocumentIDByAlias(t) # None
     THEN provenance' = provenance ELSE enqueueRelationTargetDoc(t)
  /\ work' = [work EXCEPT ![w].todo = @ \ {t}]
  /\ UNCHANGED <<documents, alias, extracted, graph, normalized, command, faults>>

(* Normalize goes on to the BNM pass; RecomputeRelations does not.          *)
MBackfillDone(w) ==
  LET replaces == {d \in Replaced(work[w].copy) \cap documents : ReplacedKey(d) \notin refs}
  IN /\ work[w].pc = "backfill" /\ work[w].todo = {}
     /\ work' = IF command.stage # "recompute" /\ replaces # {}
                THEN [work EXCEPT ![w].pc = "replaces", ![w].todo = replaces]
                ELSE [work EXCEPT ![w] = Idle]
     /\ UNCHANGED <<provenance, documents, alias, extracted, graph, normalized, command, faults>>

BackfillDone(w) ==
  LET replaces == Replaced(work[w].copy) \cap documents
      bnm == command.stage # "recompute" /\ replaces # {}
  IN /\ work[w].pc = "backfill" /\ work[w].todo = {}
     /\ work' = IF bnm THEN [work EXCEPT ![w].pc = "replaces", ![w].todo = replaces]
                ELSE [work EXCEPT ![w] = Idle]
     /\ UNCHANGED <<provenance, documents, alias, extracted, graph, normalized, command, faults>>

(* applyBNMSupersession: a reference with its pointer ...                   *)
upsertReplacedRef(w) ==
  LET d == Min(work[w].todo) IN
  /\ work[w].pc = "replaces"
  /\ UpsertDocRef({ReplacedKey(d)}, [k \in Keys |-> d])
  /\ Go(w, "edge")
  /\ UNCHANGED <<provenance, documents, alias, extracted, evidence, edges, normalized, command, faults>>

(* ... and the edge.                                                        *)
upsertReplacesEdge(w) ==
  LET d == Min(work[w].todo) IN
  /\ work[w].pc = "edge"
  /\ edges' = edges \cup UpsertDocumentRelation(work[w].copy, {ReplacedKey(d)})
  /\ work' = IF work[w].todo = {d} THEN [work EXCEPT ![w] = Idle]
             ELSE [work EXCEPT ![w].todo = @ \ {d}, ![w].pc = "replaces"]
  /\ UNCHANGED <<provenance, documents, alias, extracted, refs, point, evidence, normalized, command, faults>>

-----------------------------------------------------------------------------
Discover(f) ==
  /\ f \in Listed /\ provenance[f] = "none"
  /\ provenance' = [provenance EXCEPT ![f] = "discovery"]
  /\ UNCHANGED <<documents, alias, extracted, graph, normalized, command, work, faults>>

(* What a stage command lists: Extract the copies without a text, Normalize *)
(* the extracted ones it has not sealed, or all with -force, and            *)
(* RecomputeRelations all of them.                                          *)
Page(stage) ==
  CASE stage = "extract" -> {f \in Copies : provenance[f] # "none" /\ f \notin extracted}
    [] stage = "normalize" -> extracted \ normalized
    [] stage \in {"recompute", "force"} -> extracted

StartCommand(stage) ==
  /\ Quiet /\ Page(stage) # {}
  /\ stage \in {"recompute", "force"} => stage \in Repairs
  /\ command' = [stage |-> stage, page |-> Page(stage)]
  /\ UNCHANGED <<provenance, documents, alias, extracted, graph, normalized, work, faults>>

(* RecomputeRelations takes the documents one after another.                *)
TakeItem(w, f) ==
  /\ work[w].pc = "idle" /\ f \in command.page
  /\ command.stage = "recompute" =>
       f = Min(command.page) /\ \A v \in Workers : work[v].pc = "idle"
  /\ command' = [command EXCEPT !.page = @ \ {f}]
  /\ work' = [work EXCEPT ![w] = [Idle EXCEPT
                !.copy = f, !.pc = CASE command.stage = "extract" -> "document"
                                         [] command.stage \in {"normalize", "force"} -> "seal"
                                         [] OTHER -> "evidence"]]
  /\ UNCHANGED <<provenance, documents, alias, extracted, graph, normalized, faults>>

(* listRelationTargetBackfillCandidates: stubs a document that discovery    *)
(* found names, and that no fetch_doc and no alias covers.                  *)
BackfillCandidates ==
  {t \in Copies : /\ SourceKey(t) \in refs /\ point[SourceKey(t)] = None
                  /\ provenance[t] = "none" /\ alias[t] = None
                  /\ \E e \in evidence : e[2] = SourceKey(t)
                       /\ \E f \in Copies : Document(f) = e[1] /\ provenance[f] = "discovery"}

FirstCandidates ==
  {t \in BackfillCandidates : Cardinality({x \in BackfillCandidates : x < t}) < Limit}

BackfillRelationTargets ==
  /\ Quiet
  /\ FirstCandidates \ Translations # {}
  /\ provenance' = [t \in Copies |-> IF t \in FirstCandidates \ Translations THEN "relation" ELSE provenance[t]]
  /\ UNCHANGED <<documents, alias, extracted, graph, normalized, command, work, faults>>

(* splitSourceRefKey: everything with a colon is taken for a publisher's id.*)
splitSourceRefKey(key) == key[1] # "number"

(* What ResolveRefs finds for a key: by alias or by number, else nothing.   *)
Match(key) ==
  IF splitSourceRefKey(key)
  THEN IF key[1] = "source" THEN alias[key[2]] ELSE None
  ELSE relationTargetDocumentID(key)

(* ResolveRefs with -apply: one batch re-points or clears every reference.  *)
ResolveRefs ==
  /\ Quiet /\ "resolve" \in Repairs
  /\ point' = [k \in Keys |-> IF k \in refs THEN Match(k) ELSE point[k]]
  /\ point' # point
  /\ UNCHANGED <<provenance, documents, alias, extracted, refs, evidence, edges, normalized, command, work, faults>>

Crash ==
  /\ ~Quiet /\ faults < MaxFaults
  /\ faults' = faults + 1
  /\ command' = NoCommand
  /\ work' = [w \in Workers |-> Idle]
  /\ UNCHANGED <<provenance, documents, alias, extracted, graph, normalized>>

Init ==
  /\ provenance = [f \in Copies |-> "none"] /\ alias = [f \in Copies |-> None]
  /\ documents = {} /\ extracted = {} /\ normalized = {}
  /\ refs = {} /\ point = [k \in Keys |-> None] /\ evidence = {} /\ edges = {}
  /\ command = NoCommand /\ work = [w \in Workers |-> Idle] /\ faults = 0

WorkerStep(w) ==
  \/ \E f \in Copies : TakeItem(w, f)
  \/ UpsertDocument(w) \/ UpsertDocumentAlias(w) \/ resolveDocKeyRefs(w) \/ resolveSourceRefs(w)
  \/ resolveNumberRefs(w) \/ WriteText(w)
  \/ persistDocumentValidity(w) \/ persistRelationEvidence(w)
  \/ persistRelationEvidenceBestEffort(w) \/ backfillRelationCandidates(w) \/ BackfillDone(w)
  \/ upsertReplacedRef(w) \/ upsertReplacesEdge(w)

Next ==
  \/ \E f \in Copies : Discover(f)
  \/ \E stage \in {"extract", "normalize", "force", "recompute"} : StartCommand(stage)
  \/ \E w \in Workers : WorkerStep(w)
  \/ BackfillRelationTargets \/ ResolveRefs \/ Crash

Spec == Init /\ [][Next]_vars

(* Run-all repeats: the stages are started while they have work, a worker's *)
(* statements return, backfill runs in every round, operators repair.       *)
FairSpec ==
  /\ Spec
  /\ \A stage \in {"extract", "normalize"} : SF_vars(StartCommand(stage))
  /\ \A w \in Workers : WF_vars(WorkerStep(w))
  /\ SF_vars(BackfillRelationTargets) /\ SF_vars(ResolveRefs)
  /\ SF_vars(StartCommand("recompute"))

-----------------------------------------------------------------------------
Pcs == {"idle", "document", "alias", "dockey", "source", "number", "text", "seal", "evidence", "backfill", "replaces", "edge"}

(* The rows have their types, an edge or evidence has its reference row,    *)
(* and a pointer names a stored document: no reference dangles.             *)
TypeOK ==
  /\ provenance \in [Copies -> {"none", "discovery", "relation"}]
  /\ documents \subseteq Docs /\ alias \in [Copies -> documents \cup {None}]
  /\ normalized \subseteq extracted /\ extracted \subseteq Copies
  /\ refs \subseteq Keys /\ point \in [Keys -> documents \cup {None}]
  /\ \A e \in evidence \cup edges : e[1] \in documents /\ e[2] \in refs
  /\ command.page \subseteq Copies
  /\ \A w \in Workers : work[w].pc \in Pcs /\ work[w].copy \in Copies \cup {None}

(* A reference whose target is in the corpus is no stub, whichever came     *)
(* first and wherever the process stopped: by publisher's id, and by number *)
(* while one document has it.                                               *)
StubsAreMissing ==
  Quiet => /\ \A f \in extracted : SourceKey(f) \in refs => point[SourceKey(f)] = Document(f)
           /\ \A f \in extracted :
                LET n == Number(Document(f))
                IN NumberKey(n) \in refs /\ DocumentIDsByNumberNorm(n) = {Document(f)} =>
                     point[NumberKey(n)] = Document(f)

(* Relations are followed for one hop: what backfill enqueues is named by a *)
(* document that discovery itself found.                                    *)
OneHop ==
  \A t \in Copies : provenance[t] = "relation" =>
    \E f \in Listed : provenance[f] = "discovery" /\ t \in Targets(f)

(* A reference by number does not choose between documents that share it.   *)
SharedNumbersStayStubs ==
  Quiet => \A k \in refs : k[1] = "number" /\ Cardinality(DocumentIDsByNumberNorm(k[2])) > 1
             => point[k] = None

(* Whatever landed in which order, ResolveRefs ends every guess.            *)
GuessesEnd == <>[]SharedNumbersStayStubs

(* An official target that is missing is enqueued eventually, also when the *)
(* process stops between the references and the enqueueing.                 *)
TargetsEnqueued ==
  \A t \in Copies \ Translations :
    (\E e \in evidence : e[2] = SourceKey(t) /\ \E f \in Copies : Document(f) = e[1] /\ provenance[f] = "discovery")
      ~> (provenance[t] # "none" \/ alias[t] # None)

(* Every numbered reference of an extracted copy gets its evidence, also    *)
(* when the process stops after Normalize sealed the document, provided     *)
(* RecomputeRelations is run.                                               *)
EvidenceComplete ==
  \A f \in Copies : \A t \in Written(f) :
    f \in extracted ~> <<Document(f), SourceKey(t), Source(f)>> \in evidence

(* The edge from a policy document to one it replaced goes only with a pass *)
(* over its own document, and a pass of Normalize that returns leaves every *)
(* edge its clause gives. RecomputeRelations, and a pass that is cut short  *)
(* between the transaction and the edges, leave the document without them   *)
(* until Normalize is run on it again.                                      *)
Normalizing(w) == command.stage \in {"normalize", "force"} /\ work[w].copy # None

ReplacesKeptStep ==
  /\ \A e \in edges \ edges' : \E w \in Workers :
       work[w].pc = "evidence" /\ Document(work[w].copy) = e[1] /\ Source(work[w].copy) = e[3]
  /\ \A w \in Workers :
       Normalizing(w) /\ work'[w].pc = "idle" /\ faults' = faults =>
         \A d \in Replaced(work[w].copy) \cap documents :
           <<Document(work[w].copy), ReplacedKey(d), Source(work[w].copy)>> \in edges'

(* A reference to a document that is in the corpus is never cleared.        *)
PointersKept ==
  [][\A k \in refs : point[k] # None /\ k[1] # "number" => point'[k] # None]_vars
=============================================================================
