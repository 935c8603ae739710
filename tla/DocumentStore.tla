--------------------------- MODULE DocumentStore ---------------------------
(***************************************************************************)
(* The document store of the corpus writer: the immutable identity,        *)
(* revision, provision and conversion-provenance rows that document        *)
(* workers write under a document-version lease                            *)
(* (internal/corpus/store/document and its documentdb queries).            *)
(*                                                                         *)
(* A call is one method of Revisions or Conversion.  It runs as one or     *)
(* more READ COMMITTED transactions: lock the grant, read the receipt,     *)
(* insert when there is none, read it again, commit.  Statements of        *)
(* different callers interleave; an insert first fixes its snapshot and    *)
(* then waits for any open transaction that holds a clashing key, so it    *)
(* can lose to a row that its own snapshot does not show.                  *)
(*                                                                         *)
(* Payloads are single values: two payloads are equal or they differ.      *)
(***************************************************************************)
EXTENDS Integers, FiniteSets, Sequences, FiniteSetsExt

CONSTANTS
    Callers,      \* workers; each works on one document version
    VersionOf,    \* the document version of a caller
    CallsOf,      \* the calls a caller may make
    ObservedBy,   \* the document version that retained an observation
    Blobs,        \* blobs the catalogue may come to hold
    IdentityOf,   \* the document identity that a revision key names
    Stored,       \* items that version "v1" committed before the run
    MaxItems,     \* largest batch
    MaxFence, MaxEpoch, MaxAccepted, MaxCalls, MaxPages   \* bounds

VARIABLES
    rows,         \* committed rows: [item, version, fence, id]
    nextId,       \* the next row id (sequences never roll back)
    lease,        \* version -> [fence, epoch, live], the execution_lease rows
    grant,        \* caller -> [fence, epoch], the grant it works with
    epoch,        \* the admission epoch
    catalogued,   \* blobs with a bronze.blob row
    accepted,     \* accepted events in watermark order: [identity, digest]
    tx,           \* caller -> its call and its transaction
    pages         \* caller -> the paged read it is traversing

vars == <<rows, nextId, lease, grant, epoch, catalogued, accepted, tx, pages>>

Versions == {VersionOf[c] : c \in Callers}

BulkKinds == {"provisions", "segments", "artifact", "edit", "report", "comparison"}

NoCall == [kind |-> "none", parent |-> "", obs |-> "", items |-> {}, blobs |-> {},
           prior |-> "", digest |-> "", mark |-> 0]

Idle == [pc |-> "idle", call |-> NoCall, attempt |-> 0, locked |-> FALSE, snap |-> {},
         mine |-> {}, parent |-> FALSE, natural |-> "", answer |-> "none", calls |-> 0]

NoPage == [table |-> "none", parent |-> "", cursor |-> 0, got |-> {}, due |-> {},
           ended |-> FALSE, pages |-> 0]

Call(c) == tx[c].call

(* Rows a statement of c sees: what is committed and what c itself wrote. *)
Visible(c) == rows \cup tx[c].mine

Items(rs) == {r.item : r \in rs}

(* The unique constraints of the silver tables. *)
Clash(i, j) ==
    /\ i.table = j.table
    /\ \/ i = j
       \/ i.table \in {"identity", "mapping"} /\ i.key = j.key
       \/ i.table = "comparison" /\ i.key = j.key /\ i.value = j.value
       \/ i.table \in {"revision", "artifact", "segment", "edit", "report", "finding"}
            /\ i.parent = j.parent /\ i.key = j.key
       \/ i.table = "provision"
            /\ i.parent = j.parent /\ (i.key = j.key \/ i.place = j.place)

-----------------------------------------------------------------------------
(* Grants.                                                                 *)

(* checkDocumentLease: the locked row compared with the grant, by a clock  *)
(* read after the lock was granted.  The fence stands for the owner too.   *)
CheckDocumentLease(c) ==
    LET l == lease[VersionOf[c]] IN
    l.fence = grant[c].fence /\ l.epoch = grant[c].epoch /\ l.live

LockDocumentAdmission(c) == grant[c].epoch = epoch

(* LockDocumentLease is granted when no other transaction holds the row. *)
LockDocumentLease(c) ==
    \A d \in Callers \ {c} : VersionOf[d] = VersionOf[c] => ~tx[d].locked

End(c, answer) ==
    tx' = [tx EXCEPT ![c] = [@ EXCEPT !.pc = "idle", !.attempt = 0, !.locked = FALSE,
                                      !.snap = {}, !.mine = {}, !.natural = "",
                                      !.answer = answer]]

Goto(c, pc) == tx' = [tx EXCEPT ![c].pc = pc]

(* A refusal rolls back.  A stale grant takes precedence over a conflict. *)
Refuse(c, why) ==
    End(c, IF why = "conflict" /\ ~CheckDocumentLease(c) THEN "stale" ELSE why)

(* An empty bulk result rolls back and starts a new transaction. *)
RollbackAndRetry(c) ==
    tx' = [tx EXCEPT ![c] = [@ EXCEPT !.pc = "begin", !.attempt = @ + 1, !.locked = FALSE,
                                      !.snap = {}, !.mine = {}, !.natural = ""]]

(* What the payload builders refuse before any transaction. *)
Distinct(items) == \A i, j \in items : i # j => ~Clash(i, j)

ProvisionPayload(call) ==
    /\ Cardinality(call.items) \in 1..MaxItems
    /\ \A i \in call.items : i.parent = call.parent
    /\ Distinct(call.items)

ConversionSegments(call) ==
    Cardinality(call.items) \in 1..MaxItems /\ Distinct(call.items)

(* One record for every ordinal below the record count. *)
QualityPayload(call) ==
    LET records == {i \in call.items : i.table = "finding"} IN
    {i.place : i \in records} = 0..(Cardinality(records) - 1)

ComparisonPayload(call) == call.mark >= 0 /\ call.prior # call.digest

ValidCall(call) ==
    CASE call.kind = "provisions" -> ProvisionPayload(call)
      [] call.kind = "segments"   -> ConversionSegments(call)
      [] call.kind = "report"     -> QualityPayload(call)
      [] call.kind = "comparison" -> ComparisonPayload(call)
      [] OTHER                    -> TRUE

StartCall(c) ==
    /\ tx[c].pc = "idle" /\ tx[c].calls < MaxCalls
    /\ \E call \in CallsOf[c] :
         tx' = [tx EXCEPT ![c] = [Idle EXCEPT !.pc = IF ValidCall(call) THEN "begin" ELSE "idle",
                                              !.answer = IF ValidCall(call) THEN "none" ELSE "rejected",
                                              !.call = call, !.calls = tx[c].calls + 1]]
    /\ UNCHANGED <<rows, nextId, lease, grant, epoch, catalogued, accepted, pages>>

(* Mutant: the lease row is read, not locked. *)
MLockGrantUnlocked(c) ==
    /\ tx[c].pc = "begin"
    /\ IF LockDocumentAdmission(c) /\ CheckDocumentLease(c)
       THEN Goto(c, "read")
       ELSE End(c, "stale")
    /\ UNCHANGED <<rows, nextId, lease, grant, epoch, catalogued, accepted, pages>>

LockGrant(c) ==
    /\ tx[c].pc = "begin"
    /\ LockDocumentLease(c)
    /\ IF LockDocumentAdmission(c) /\ CheckDocumentLease(c)
       THEN tx' = [tx EXCEPT ![c] = [@ EXCEPT !.pc = "read", !.locked = TRUE]]
       ELSE End(c, "stale")
    /\ UNCHANGED <<rows, nextId, lease, grant, epoch, catalogued, accepted, pages>>

-----------------------------------------------------------------------------
(* What the receipt reads of a call find: "found", "none", or a refusal.   *)

ReadDocumentIdentity(c, key) ==
    \E i \in Items(Visible(c)) : i.table = "identity" /\ i.key = key

ReadDocumentRevision(c, key) ==
    {r \in Visible(c) : r.item.table = "revision" /\ r.item.key = key}

VerifyObservation(c) == ObservedBy[Call(c).obs] = VersionOf[c]

(* observedIdentity over ReadIdentityByAssertion *)
ObservedIdentities(c) ==
    {i.parent : i \in {j \in Items(Visible(c)) :
        j.table = "assertion" /\ j.key = Call(c).obs /\ j.value = "observed"}}

MintReceipt(c) ==
    LET ids == ObservedIdentities(c)
        used == \E i \in Call(c).items : i.table = "identity" /\ ReadDocumentIdentity(c, i.key)
    IN CASE ~VerifyObservation(c) -> "stale"
         [] Cardinality(ids) > 1  -> "conflict"
         [] Cardinality(ids) = 1  -> "found"
         [] ids = {} /\ used      -> "conflict"
         [] OTHER                 -> "none"

(* AppendIdentityAssertion: the row is its own natural key. *)
AssertionReceipt(c) ==
    CASE ~VerifyObservation(c) -> "stale"
      [] \E i \in Call(c).items : ~ReadDocumentIdentity(c, i.parent) -> "failed"
      [] Call(c).items \subseteq Items(Visible(c)) -> "found"
      [] OTHER -> "none"

(* Every stored row that a wanted row clashes with must be that row. *)
Matching(c, stored) ==
    \A i \in Call(c).items : \A r \in stored : Clash(i, r.item) => r.item = i

Classify(c, stored) ==
    CASE ~Matching(c, stored) -> "conflict"
      [] Call(c).items \subseteq Items(stored) -> "found"
      [] OTHER -> "none"

(* findMapping; a mapping may name an identity *)
FindMapping(c) ==
    IF Call(c).parent # "" /\ ~ReadDocumentIdentity(c, Call(c).parent)
    THEN "failed" ELSE Classify(c, Visible(c))

(* revisionMatch compares the document version as well *)
RevisionMatch(c) ==
    \A i \in Call(c).items : \A r \in Visible(c) :
        Clash(i, r.item) => r.item = i /\ r.version = VersionOf[c]

RevisionReceipt(c) ==
    CASE ~ReadDocumentIdentity(c, Call(c).parent) -> "failed"
      [] ~RevisionMatch(c) -> "conflict"
      [] OTHER -> Classify(c, Visible(c))

ParentVersion(c) ==
    \A r \in ReadDocumentRevision(c, Call(c).parent) : r.version = VersionOf[c]

(* A stable provision UUID needs a confirmed continuity of the identity. *)
ResolveConfirmedProvisionContinuity(c) ==
    Call(c).obs # "" =>
        \E i \in Items(Visible(c)) :
            /\ i.table = "assertion" /\ i.key = Call(c).obs /\ i.value = "continuity"
            /\ i.parent = IdentityOf[Call(c).parent]

ProvisionReceipts(c) ==
    CASE ReadDocumentRevision(c, Call(c).parent) = {} -> "failed"
      [] ~ParentVersion(c) -> "stale"
      [] ~ResolveConfirmedProvisionContinuity(c) -> "rejected"
      [] OTHER -> Classify(c, Visible(c))

ConversionParent(c, optional) ==
    CASE ReadDocumentRevision(c, Call(c).parent) = {} ->
             IF optional THEN "ok" ELSE "rejected"
      [] ~ParentVersion(c) -> "stale"
      [] OTHER -> "ok"

ConversionBlobs(c) == Call(c).blobs \subseteq catalogued

(* conversionMatch compares the document version; findings are part of     *)
(* the report's payload.                                                   *)
ConversionStored(c) ==
    LET clashing == {r \in Visible(c) : \E i \in Call(c).items : Clash(i, r.item)}
    IN CASE clashing = {} -> "none"
         [] \E r \in clashing : r.version # VersionOf[c] -> "conflict"
         [] Items(clashing) = Call(c).items -> "found"
         [] OTHER -> "conflict"

(* A comparison is stale when its identity accepted a third candidate      *)
(* after the watermark that the comparison captured.                       *)
ComparisonEligible(c) ==
    ~\E w \in DOMAIN accepted :
        /\ w > Call(c).mark
        /\ accepted[w].identity = IdentityOf[Call(c).parent]
        /\ accepted[w].digest \notin {Call(c).prior, Call(c).digest}

ConversionReceipt(c) ==
    LET parent == ConversionParent(c, Call(c).kind \in {"report", "comparison"})
        stored == ConversionStored(c)
    IN CASE parent # "ok" -> parent
         [] stored = "conflict" -> "conflict"
         [] ~ConversionBlobs(c) -> "rejected"
         [] stored = "found" /\ Call(c).kind = "comparison" /\ ~ComparisonEligible(c) -> "rejected"
         [] OTHER -> stored

(* classifySegments: a partial batch is neither a conflict nor complete. *)
ClassifySegments(c) ==
    LET clashing == {r \in Visible(c) : \E i \in Call(c).items : Clash(i, r.item)}
    IN CASE \E r \in clashing : r.version # VersionOf[c] \/ r.item \notin Call(c).items -> "conflict"
         [] Call(c).items \subseteq Items(clashing) -> "found"
         [] OTHER -> "none"

SegmentReceipts(c) ==
    LET parent == ConversionParent(c, FALSE) IN
    CASE parent # "ok" -> parent
      [] ClassifySegments(c) = "conflict" -> "conflict"
      [] ~ConversionBlobs(c) -> "rejected"
      [] OTHER -> ClassifySegments(c)

Receipt(c) ==
    CASE Call(c).kind = "mint"       -> MintReceipt(c)
      [] Call(c).kind = "assertion"  -> AssertionReceipt(c)
      [] Call(c).kind = "mapping"    -> FindMapping(c)
      [] Call(c).kind = "revision"   -> RevisionReceipt(c)
      [] Call(c).kind = "provisions" -> ProvisionReceipts(c)
      [] Call(c).kind = "segments"   -> SegmentReceipts(c)
      [] OTHER                       -> ConversionReceipt(c)

(* The parts of a call up to its insert: parent, receipt and replay. *)
ReadReceipt(c) ==
    /\ tx[c].pc = "read"
    /\ LET found == Receipt(c) IN
       CASE found = "found" -> Goto(c, "commit")
         [] found = "none" /\ Call(c).kind \in BulkKinds /\ tx[c].attempt = 2 ->
              Refuse(c, "unresolved")
         [] found = "none" /\ ~(Call(c).kind \in BulkKinds /\ tx[c].attempt = 2) ->
              tx' = [tx EXCEPT ![c] = [@ EXCEPT !.pc = "insert",
                        !.parent = ReadDocumentRevision(c, Call(c).parent) # {}]]
         [] OTHER -> Refuse(c, found)
    /\ UNCHANGED <<rows, nextId, lease, grant, epoch, catalogued, accepted, pages>>

-----------------------------------------------------------------------------
(* The inserting statements.                                               *)

(* The advisory lock that mint_document_identity takes on the natural key. *)
NaturalKeyFree(c) ==
    \A d \in Callers \ {c} : tx[d].natural # Call(c).obs

(* The statement begins: it fixes its snapshot; a mint takes its lock and  *)
(* reads with the fresh snapshots of a volatile function.                  *)
BeginInsert(c) ==
    /\ tx[c].pc = "insert"
    /\ Call(c).kind = "mint" => NaturalKeyFree(c)
    /\ tx' = [tx EXCEPT ![c] = [@ EXCEPT !.pc = "inserting", !.snap = Visible(c),
                 !.natural = IF Call(c).kind = "mint" THEN Call(c).obs ELSE ""]]
    /\ UNCHANGED <<rows, nextId, lease, grant, epoch, catalogued, accepted, pages>>

(* An insert waits for open transactions that hold a clashing key. *)
KeysSettled(c) ==
    \A d \in Callers \ {c} : \A r \in tx[d].mine : \A i \in Call(c).items : ~Clash(i, r.item)

Taken(i, rs) == \E r \in rs : Clash(i, r.item)

(* Rows of the statement's snapshot that a wanted row clashes with and     *)
(* that are not exactly the wanted row of this version.                    *)
Different(c) ==
    \E i \in Call(c).items : \E r \in tx[c].snap :
        Clash(i, r.item) /\ ~(r.item = i /\ r.version = VersionOf[c])

ParentStored(c) ==
    \E r \in tx[c].snap : /\ r.item.table = "revision" /\ r.item.key = Call(c).parent
                          /\ r.version = VersionOf[c]

OptionalParent(c) ==
    IF tx[c].parent THEN ParentStored(c)
    ELSE ~\E r \in tx[c].snap : r.item.table = "revision" /\ r.item.key = Call(c).parent

InsertProvisionRevisions(c) == ParentStored(c) /\ ResolveConfirmedProvisionContinuity(c) /\ ~Different(c)

InsertOffsetMapSegments(c) == ParentStored(c) /\ ConversionBlobs(c) /\ ~Different(c)

RegisterConversionArtifact(c) == ParentStored(c) /\ ConversionBlobs(c) /\ ~Different(c)

AppendEditLedgerEntry(c) == ParentStored(c) /\ ConversionBlobs(c) /\ ~Different(c)

RecordConversionQualityReport(c) == OptionalParent(c) /\ ConversionBlobs(c) /\ ~Different(c)

(* The report of a candidate, of any revision of the identity for the      *)
(* prior and of this revision and version for the candidate.               *)
ReportStored(c, digest, parents, versions) ==
    \E r \in tx[c].snap : /\ r.item.table = "report" /\ r.item.key = digest
                          /\ r.item.parent \in parents /\ r.version \in versions

SameIdentity(c) == {k \in DOMAIN IdentityOf : IdentityOf[k] = IdentityOf[Call(c).parent]}

(* The watermark is the one of the accepted prior, or zero before the      *)
(* identity has any accepted revision.                                     *)
Baseline(c) ==
    LET identity == IdentityOf[Call(c).parent] mark == Call(c).mark IN
    \/ mark = 0 /\ ~\E w \in DOMAIN accepted : accepted[w].identity = identity
    \/ mark \in DOMAIN accepted /\ accepted[mark] = [identity |-> identity, digest |-> Call(c).prior]

RecordRevisionComparison(c) ==
    /\ OptionalParent(c) /\ ConversionBlobs(c) /\ ~Different(c)
    /\ ReportStored(c, Call(c).prior, SameIdentity(c), Versions)
    /\ ReportStored(c, Call(c).digest, {Call(c).parent}, {VersionOf[c]})
    /\ ComparisonEligible(c)
    /\ Baseline(c)

(* Whether the statement's own conditions admit the call. *)
Eligible(c) ==
    /\ CheckDocumentLease(c)
    /\ CASE Call(c).kind = "provisions" -> InsertProvisionRevisions(c)
         [] Call(c).kind = "segments"   -> InsertOffsetMapSegments(c)
         [] Call(c).kind = "artifact"   -> RegisterConversionArtifact(c)
         [] Call(c).kind = "edit"       -> AppendEditLedgerEntry(c)
         [] Call(c).kind = "report"     -> RecordConversionQualityReport(c)
         [] Call(c).kind = "comparison" -> RecordRevisionComparison(c)
         [] OTHER                       -> TRUE

Write(c, items, pc) ==
    LET new == {[item |-> i, version |-> VersionOf[c], fence |-> grant[c].fence, id |-> nextId] : i \in items}
    IN /\ tx' = [tx EXCEPT ![c] = [@ EXCEPT !.pc = pc, !.mine = @ \cup new]]
       /\ nextId' = IF items = {} THEN nextId ELSE nextId + 1

(* silver.mint_document_identity: reuse the observed identity, or insert   *)
(* identity and assertion; a used key is a unique violation (23505).       *)
MintDocumentIdentity(c) ==
    /\ Call(c).kind = "mint"
    /\ IF ~CheckDocumentLease(c) \/ ObservedIdentities(c) # {}
       THEN Write(c, {}, "resolve")
       ELSE IF \E i \in Call(c).items : Taken(i, rows)
            THEN Refuse(c, "conflict") /\ UNCHANGED nextId
            ELSE Write(c, Call(c).items, "resolve")

(* Assertion, mapping and revision: ON CONFLICT DO NOTHING, and the        *)
(* fresh read that follows decides.                                        *)
InsertOrSkip(c) ==
    /\ Call(c).kind \in {"assertion", "mapping", "revision"}
    /\ Write(c, {i \in Call(c).items : Eligible(c) /\ ~Taken(i, rows)}, "resolve")

(* The batches and the conversion rows: the result is empty unless every   *)
(* wanted row was inserted now or is in the statement's snapshot.          *)
InsertAll(c) ==
    LET new == {i \in Call(c).items : ~Taken(i, rows)} IN
    /\ Call(c).kind \in BulkKinds
    /\ IF Eligible(c) /\ Call(c).items \subseteq new \cup Items(tx[c].snap)
       THEN Write(c, new, "resolve")
       ELSE RollbackAndRetry(c) /\ UNCHANGED nextId

FinishInsert(c) ==
    /\ tx[c].pc = "inserting"
    /\ KeysSettled(c)
    /\ MintDocumentIdentity(c) \/ InsertOrSkip(c) \/ InsertAll(c)
    /\ UNCHANGED <<rows, lease, grant, epoch, catalogued, accepted, pages>>

(* The fresh read after the insert.  A single row that is still missing    *)
(* means the statement saw an expired grant; a batch is tried again.       *)
Resolve(c) ==
    /\ tx[c].pc = "resolve"
    /\ LET found == IF Call(c).kind \in BulkKinds \ {"provisions", "segments"}
                    THEN ConversionStored(c) ELSE Receipt(c)
       IN CASE Call(c).kind \notin BulkKinds \ {"provisions"} /\ ~CheckDocumentLease(c) -> End(c, "stale")
            [] found = "found" -> Goto(c, "commit")
            [] found = "none" /\ Call(c).kind \in BulkKinds -> RollbackAndRetry(c)
            [] found = "none" /\ Call(c).kind \notin BulkKinds -> End(c, "stale")
            [] OTHER -> Refuse(c, found)
    /\ UNCHANGED <<rows, nextId, lease, grant, epoch, catalogued, accepted, pages>>

(* The grant is checked once more, then the transaction commits.  The      *)
(* clock may pass the expiry in between; the locked row cannot change.     *)
CheckBeforeCommit(c) ==
    /\ tx[c].pc = "commit"
    /\ IF CheckDocumentLease(c) THEN Goto(c, "committing") ELSE End(c, "stale")
    /\ UNCHANGED <<rows, nextId, lease, grant, epoch, catalogued, accepted, pages>>

Commit(c) ==
    /\ tx[c].pc = "committing"
    /\ rows' = rows \cup tx[c].mine
    /\ End(c, "stored")
    /\ UNCHANGED <<nextId, lease, grant, epoch, catalogued, accepted, pages>>

(* A cancelled caller or a lost connection rolls back; a rollback that     *)
(* itself fails is not retried.  A commit whose answer is lost is stored.  *)
Fault(c) ==
    /\ tx[c].pc # "idle"
    /\ \/ UNCHANGED rows
       \/ tx[c].pc = "committing" /\ rows' = rows \cup tx[c].mine
    /\ End(c, "failed")
    /\ UNCHANGED <<nextId, lease, grant, epoch, catalogued, accepted, pages>>

-----------------------------------------------------------------------------
(* Paged reads, each page under a current grant.                           *)

(* Provisions are read in ordinal order, every other table in id order. *)
Position(r) == IF r.item.table = "provision" THEN r.item.place ELSE r.id

RowsOf(table, parent) == {r \in rows : r.item.table = table /\ r.item.parent = parent}

StartTraversal(c) ==
    /\ pages[c].table = "none" /\ pages[c].pages = 0 /\ tx[c].pc = "idle"
    /\ \E r \in rows :
         /\ r.item.table \in {"provision", "artifact", "segment", "edit", "report", "finding"}
         /\ pages' = [pages EXCEPT ![c] = [NoPage EXCEPT !.table = r.item.table,
                         !.parent = r.item.parent, !.cursor = -1,
                         !.due = RowsOf(r.item.table, r.item.parent)]]
    /\ UNCHANGED <<rows, nextId, lease, grant, epoch, catalogued, accepted, tx>>

(* Mutant: the page query lost its ORDER BY. *)
MNextPageUnordered(c) ==
    LET after == {r \in RowsOf(pages[c].table, pages[c].parent) : Position(r) > pages[c].cursor}
    IN IF after = {} THEN {} ELSE {CHOOSE r \in after : \A s \in after : Position(r) >= Position(s)}

(* The next row in the table's order after the cursor: a page of one. *)
NextPage(c) ==
    LET after == {r \in RowsOf(pages[c].table, pages[c].parent) : Position(r) > pages[c].cursor}
    IN {r \in after : \A s \in after : Position(r) <= Position(s)}

ReadPage(c) ==
    /\ pages[c].table # "none" /\ ~pages[c].ended /\ pages[c].pages < MaxPages
    /\ LockDocumentAdmission(c) /\ LockDocumentLease(c) /\ CheckDocumentLease(c)
    /\ pages' = [pages EXCEPT ![c] =
         LET page == NextPage(c) IN
         IF page = {} THEN [@ EXCEPT !.ended = TRUE]
         ELSE [@ EXCEPT !.got = @ \cup page, !.pages = @ + 1,
                        !.cursor = Position(CHOOSE r \in page : TRUE)]]
    /\ UNCHANGED <<rows, nextId, lease, grant, epoch, catalogued, accepted, tx>>

-----------------------------------------------------------------------------
(* The environment: the ledger that grants leases, the clock, the          *)
(* administrator, the blob catalogue and the acceptance adapter.           *)

(* A free or expired lease is claimed with the next fence. *)
Claim(c) ==
    LET v == VersionOf[c] IN
    /\ ~lease[v].live /\ lease[v].fence < MaxFence
    /\ \A d \in Callers : VersionOf[d] = v => ~tx[d].locked
    /\ tx[c].pc = "idle"
    /\ lease' = [lease EXCEPT ![v] = [fence |-> @.fence + 1, epoch |-> epoch, live |-> TRUE]]
    /\ grant' = [grant EXCEPT ![c] = [fence |-> lease[v].fence + 1, epoch |-> epoch]]
    /\ UNCHANGED <<rows, nextId, epoch, catalogued, accepted, tx, pages>>

Expire(v) ==
    /\ lease[v].live
    /\ lease' = [lease EXCEPT ![v].live = FALSE]
    /\ UNCHANGED <<rows, nextId, grant, epoch, catalogued, accepted, tx, pages>>

(* Rotating the admission waits for the transactions that share its row. *)
RotateAdmission ==
    /\ epoch < MaxEpoch
    /\ \A c \in Callers : ~tx[c].locked
    /\ epoch' = epoch + 1
    /\ UNCHANGED <<rows, nextId, lease, grant, catalogued, accepted, tx, pages>>

CatalogueBlob(b) ==
    /\ b \notin catalogued
    /\ catalogued' = catalogued \cup {b}
    /\ UNCHANGED <<rows, nextId, lease, grant, epoch, accepted, tx, pages>>

(* Another revision of the identity is accepted. *)
AcceptRevision ==
    /\ Len(accepted) < MaxAccepted
    /\ \E r \in rows :
         /\ r.item.table = "report"
         /\ accepted' = Append(accepted, [identity |-> IdentityOf[r.item.parent], digest |-> r.item.key])
    /\ UNCHANGED <<rows, nextId, lease, grant, epoch, catalogued, tx, pages>>

Init ==
    /\ rows = {[item |-> i, version |-> "v1", fence |-> 1, id |-> 1] : i \in Stored}
    /\ nextId = 2 /\ epoch = 1 /\ catalogued = {} /\ accepted = <<>>
    /\ lease = [v \in Versions |-> [fence |-> 1, epoch |-> 1, live |-> FALSE]]
    /\ grant = [c \in Callers |-> [fence |-> 0, epoch |-> 0]]
    /\ tx = [c \in Callers |-> Idle]
    /\ pages = [c \in Callers |-> NoPage]

Progress(c) == LockGrant(c) \/ ReadReceipt(c) \/ BeginInsert(c) \/ FinishInsert(c) \/ Resolve(c)
               \/ CheckBeforeCommit(c) \/ Commit(c)

Next ==
    \/ \E c \in Callers : \/ StartCall(c) \/ Progress(c) \/ Fault(c) \/ Claim(c)
                          \/ StartTraversal(c) \/ ReadPage(c)
    \/ \E v \in Versions : Expire(v)
    \/ \E b \in Blobs : CatalogueBlob(b)
    \/ RotateAdmission
    \/ AcceptRevision

Spec == Init /\ [][Next]_vars

(* A statement that can run is run; PostgreSQL grants a row lock that      *)
(* keeps becoming free to the transaction that queued for it.              *)
FairSpec ==
    /\ Spec
    /\ \A c \in Callers : /\ WF_vars(ReadReceipt(c) \/ Resolve(c) \/ CheckBeforeCommit(c) \/ Commit(c))
                          /\ SF_vars(LockGrant(c)) /\ SF_vars(BeginInsert(c)) /\ SF_vars(FinishInsert(c))
-----------------------------------------------------------------------------
(* Properties.                                                             *)

Answers == {"none", "stored", "conflict", "rejected", "stale", "failed", "unresolved"}

(* Types of the store's variables. *)
TypeOK ==
    /\ \A r \in rows : r.version \in Versions /\ r.fence \in 1..MaxFence /\ r.id \in 1..nextId
    /\ \A v \in Versions : lease[v].fence \in 0..MaxFence /\ lease[v].live \in BOOLEAN
    /\ \A c \in Callers :
         /\ tx[c].pc \in {"idle", "begin", "read", "insert", "inserting", "resolve", "commit", "committing"}
         /\ tx[c].answer \in Answers /\ tx[c].attempt \in 0..2
    /\ catalogued \subseteq Blobs

(* One identity per observation: however mints of one natural key race,    *)
(* under whatever proposed keys and leases, they mint one identity         *)
(* (silver.mint_document_identity under its advisory lock).                *)
OneMintedIdentity ==
    \A i, j \in Items(rows) : i.table = "identity" /\ j.table = "identity" /\ i.value = j.value => i = j

(* An answer "stored" is durable and exact: all rows of the call are       *)
(* committed as it gave them, a batch or a report with all its records,    *)
(* and never a row of other content that won the key (the classification   *)
(* before the insert and the fresh read after it).                         *)
StoredMeansStored ==
    \A c \in Callers :
        tx[c].answer = "stored" =>
            IF Call(c).kind = "mint"
            THEN \E i \in Items(rows) : i.table = "assertion" /\ i.key = Call(c).obs /\ i.value = "observed"
            ELSE Call(c).items \subseteq Items(rows)

(* The bounded retries of a bulk call suffice: only a comparison, whose    *)
(* reports or baseline may really not admit it, ends "unresolved"; no      *)
(* batch or report does because it kept losing to rows that its snapshot   *)
(* did not show.                                                           *)
RetriesSuffice == \A c \in Callers : tx[c].answer = "unresolved" => Call(c).kind = "comparison"

(* A row is committed under the fence that its version's lease then has:   *)
(* no worker that lost its lease to a successor writes after it, though    *)
(* the clock may expire the lease between any two statements.              *)
FencedCommitsStep ==
    \A r \in rows' \ rows : r.fence = lease[r.version].fence /\ lease[r.version].epoch = epoch
FencedCommits == [][FencedCommitsStep]_vars

(* A traversal that reaches an empty page has returned every row that was  *)
(* there when it began (the paged readers of Revisions and Conversion).    *)
TraversalComplete == \A c \in Callers : pages[c].ended => pages[c].due \subseteq pages[c].got

(* Every call ends: no cycle of waits, no endless retry. *)
CallsEnd == \A c \in Callers : tx[c].pc # "idle" ~> tx[c].pc = "idle"
=============================================================================
