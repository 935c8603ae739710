------------------------------ MODULE Validity ------------------------------
(***************************************************************************)
(* The document-level validity rows (silver.validity_period) as concurrent *)
(* Normalize workers write them. A page of the normalize stage has one     *)
(* item per document, so two workers never normalize the same document;    *)
(* but two passes at the end of Normalize write the rows of OTHER          *)
(* documents: the VBHN pass (Vietnam) derives the status of every          *)
(* consolidation from its base under an advisory lock, and the BNM pass    *)
(* (Malaysia) expires the policy documents that a new one supersedes.      *)
(* Every write is two statements outside a transaction: close the open     *)
(* rows, insert a new one. No index forbids two open rows.                 *)
(***************************************************************************)
EXTENDS Naturals, FiniteSets, FiniteSetsExt

CONSTANTS
  Docs,            \* silver.document ids (natural numbers)
  Workers,
  Jurisdiction,    \* "vn" or "my"
  UnknownInForce,  \* jurisdiction.UnknownValidityInForce
  Consolidated,    \* documents with is_consolidated
  Issued(_),       \* issued_at of a document
  Bases(_),        \* documents its `consolidates` relations name
  TextNames(_),    \* documents whose number its own text names as the base
  Enacting(_),     \* "none", "passed" or "future": the clause on its own effect
  EarlyEffect(_),  \* the publisher's effective date precedes issuance, the clause's does not
  Codes(_),        \* status codes its publisher may give, "" for none
  Supersedes(_),   \* BNM: one set of documents with a matching title per clause entry
  MaxStarts,       \* bound: Normalize calls
  MaxFaults        \* bound: failed statements and crashes

ValidityAssumption == Docs \subseteq Nat \ {0} /\ IsFiniteSet(Docs)

VARIABLES
  present,   \* documents Extract has stored
  status,    \* document -> status_raw of its Bronze source document
  related,   \* documents whose relations have been written
  replaced,  \* BNM: `replaces` relations, <<acting, superseded>>
  open,      \* validity rows with superseded_at NULL
  page,      \* documents the running normalize page still has to hand out
  work,      \* worker -> its Normalize call
  lock,      \* the worker that holds pg_advisory_lock('vbhn_validity'), or 0
  clock, faults

vars == <<present, status, related, replaced, open, page, work, lock, clock, faults>>

None == 0
NoRow == [class |-> "none"]
Row(d, code, class, reason, source, effect, at) ==
  [doc |-> d, code |-> code, class |-> class, reason |-> reason, source |-> source,
   effect |-> effect, at |-> at]
Decision(d, code, class, reason) == [doc |-> d, code |-> code, class |-> class, reason |-> reason]

Idle == [pc |-> "idle", doc |-> None, now |-> 0, cons |-> {}, todo |-> {}, unread |-> {}]
Busy(w) == work[w].pc # "idle"

OpenRows(d) == {r \in open : r.doc = d}

(* The open row observed last.                                              *)
CurrentValidityByDocument(d) ==
  IF OpenRows(d) = {} THEN NoRow
  ELSE CHOOSE r \in OpenRows(d) : \A s \in OpenRows(d) : r.at >= s.at

SupersedeValidityPeriods(d) == open' = open \ OpenRows(d)

InsertValidityPeriod(row) == open' = open \cup {row}

statusCodeToClass(code) ==
  CASE code = "" -> "unknown"
    [] code = "HHL" -> "expired"
    [] code = "CCHL" -> "not_yet"
    [] OTHER -> "in_force"

(* normalizeValidity: a consolidation never defaults to in_force.           *)
normalizeValidity(d) ==
  IF statusCodeToClass(status[d]) = "unknown" /\ UnknownInForce /\ d \notin Consolidated
  THEN "in_force" ELSE statusCodeToClass(status[d])

(* The row upsertValidityPeriod inserts: the document's own enacting clause *)
(* corrects a not-yet status and a date before issuance.                    *)
upsertedRow(d, now) ==
  LET override == normalizeValidity(d) = "not_yet" /\ Enacting(d) = "passed"
  IN Row(d, status[d],
         IF override THEN "in_force" ELSE normalizeValidity(d),
         <<IF override \/ EarlyEffect(d) THEN "enacting" ELSE "none", None>>,
         "publisher",
         IF override \/ EarlyEffect(d) THEN "clause" ELSE "publisher", now)

-----------------------------------------------------------------------------
(* The VBHN derivation.                                                     *)

(* listVBHNConsolidations: the first base row per document, the earliest    *)
(* issued one that is in the corpus.                                        *)
Base(d) ==
  LET found == IF d \in related THEN Bases(d) \cap present ELSE {}
  IN IF found = {} THEN None
     ELSE CHOOSE b \in found :
            \A x \in found : Issued(b) < Issued(x) \/ (Issued(b) = Issued(x) /\ b <= x)

Consolidation(d, base) ==
  [doc |-> d, base |-> base, fromText |-> FALSE,
   row |-> IF base = None THEN NoRow ELSE CurrentValidityByDocument(base)]

listVBHNConsolidations == {Consolidation(d, Base(d)) : d \in Consolidated \cap present}

(* resolveVBHNBaseFromText: exactly one document of the named number that   *)
(* is no consolidation itself.                                              *)
resolveVBHNBaseFromText(c) ==
  LET named == (TextNames(c.doc) \cap present) \ Consolidated
  IN IF c.base # None \/ Cardinality(named) # 1 THEN c
     ELSE [Consolidation(c.doc, CHOOSE b \in named : TRUE) EXCEPT !.fromText = TRUE]

newestVBHNDecision(c) ==
  IF c.base = None \/ c.row.class \in {"none", "unknown"}
  THEN Decision(c.doc, IF c.row.class = "none" THEN "" ELSE c.row.code, "unknown",
                <<"base_unresolved", None>>)
  ELSE Decision(c.doc, c.row.code, c.row.class,
                <<IF c.fromText THEN "base_status_text" ELSE "base_status", c.base>>)

Newer(a, b) == Issued(a) > Issued(b) \/ (Issued(a) = Issued(b) /\ a > b)

(* decideVBHNValidity: one family per base; an unresolved base is a family  *)
(* of one.                                                                  *)
decideVBHNValidity(cons) ==
  {IF c.base # None /\ \E o \in cons : o.base = c.base /\ Newer(o.doc, c.doc)
   THEN Decision(c.doc, "SUPERSEDED", "expired", <<"newer_consolidation", None>>)
   ELSE newestVBHNDecision(c) : c \in cons}

(* applyVBHNDecision writes nothing when the current row already says it.   *)
Matches(row, d) ==
  /\ row.class # "none"
  /\ row.code = d.code /\ row.class = d.class
  /\ row.reason = d.reason /\ row.source = "vbhn"

-----------------------------------------------------------------------------
(* The BNM pass.                                                            *)

(* matchBNMSupersededEntry: exactly one document other than the acting one. *)
matchBNMSupersededEntry(titles, acting) == (titles \cap present) \ {acting}

(* extractAndApplyBNMSupersession: the entries with exactly one match.      *)
Matched(d) ==
  UNION {m \in {matchBNMSupersededEntry(t, d) : t \in Supersedes(d)} : Cardinality(m) = 1}

-----------------------------------------------------------------------------
Go(w, pc) == work' = [work EXCEPT ![w].pc = pc]
Next1(w) == Min({d.doc : d \in work[w].todo})
Head1(w) == CHOOSE d \in work[w].todo : d.doc = Next1(w)

(* Extract, the stage before, stores a document's copy, or stores it again  *)
(* with another status (which resets nothing: only -force normalizes it     *)
(* again).                                                                  *)
Store(d, code) ==
  /\ page = {} /\ \A w \in Workers : ~Busy(w)
  /\ code # status[d] \/ d \notin present
  /\ present' = present \cup {d}
  /\ status' = [status EXCEPT ![d] = code]
  /\ UNCHANGED <<related, replaced, open, page, work, lock, clock, faults>>

(* listNormalizeCandidatesQuery: stored documents without an open row, or   *)
(* all of them with -force.                                                 *)
ListNormalizeCandidates(force) == {d \in present : force \/ OpenRows(d) = {}}

StartPage(force) ==
  /\ page = {} /\ \A w \in Workers : ~Busy(w)
  /\ clock < MaxStarts
  /\ ListNormalizeCandidates(force) # {}
  /\ page' = ListNormalizeCandidates(force)
  /\ UNCHANGED <<present, status, related, replaced, open, work, lock, clock, faults>>

(* Normalize begins: the time of all its rows is taken here.                *)
Normalize(w, d) ==
  /\ ~Busy(w) /\ d \in page /\ clock < MaxStarts
  /\ page' = page \ {d}
  /\ clock' = clock + 1
  /\ work' = [work EXCEPT ![w] = [Idle EXCEPT !.pc = "guard", !.doc = d, !.now = clock + 1]]
  /\ UNCHANGED <<present, status, related, replaced, open, lock, faults>>

(* upsertValidityPeriod: an observation without a status keeps a status     *)
(* that is known already.                                                   *)
upsertGuard(w) ==
  LET d == work[w].doc IN
  /\ work[w].pc = "guard"
  /\ Go(w, IF status[d] = "" /\ CurrentValidityByDocument(d).class \notin {"none", "unknown"}
           THEN "relations" ELSE "supersede")
  /\ UNCHANGED <<present, status, related, replaced, open, page, lock, clock, faults>>

upsertSupersede(w) ==
  /\ work[w].pc = "supersede"
  /\ SupersedeValidityPeriods(work[w].doc)
  /\ Go(w, "insert")
  /\ UNCHANGED <<present, status, related, replaced, page, lock, clock, faults>>

upsertInsert(w) ==
  /\ work[w].pc = "insert"
  /\ InsertValidityPeriod(upsertedRow(work[w].doc, work[w].now))
  /\ Go(w, "relations")
  /\ UNCHANGED <<present, status, related, replaced, page, lock, clock, faults>>

(* After the relations: the BNM pass, or the VBHN pass if this document     *)
(* calls for one.                                                           *)
NextPass(d) ==
  CASE Jurisdiction = "my" -> "clause"
    [] d \in Consolidated -> "lock"
    [] OTHER -> "idle"

(* persistRelationEvidenceBestEffort (module Relations).                    *)
persistRelations(w) ==
  /\ work[w].pc = "relations"
  /\ related' = related \cup {work[w].doc}
  /\ Go(w, NextPass(work[w].doc))
  /\ UNCHANGED <<present, status, replaced, open, page, lock, clock, faults>>

extractAndApplyBNMSupersession(w) ==
  LET found == Matched(work[w].doc) IN
  /\ work[w].pc = "clause"
  /\ work' = [work EXCEPT ![w].pc = IF found = {} THEN "idle" ELSE "relate",
                          ![w].todo = {Decision(d, "SUPERSEDED", "expired", <<"superseded_by", work[w].doc>>) :
                                         d \in found}]
  /\ UNCHANGED <<present, status, related, replaced, open, page, lock, clock, faults>>

(* applyBNMSupersession: first the reference and the `replaces` relation.   *)
applyReplaces(w) ==
  /\ work[w].pc = "relate"
  /\ replaced' = replaced \cup {<<work[w].doc, Next1(w)>>}
  /\ Go(w, "close")
  /\ UNCHANGED <<present, status, related, open, page, lock, clock, faults>>

(* deriveVBHNValidity waits for the session lock.                           *)
advisoryLock(w) ==
  /\ work[w].pc = "lock" /\ lock = 0
  /\ lock' = w
  /\ Go(w, "list")
  /\ UNCHANGED <<present, status, related, replaced, open, page, clock, faults>>

ListConsolidations(w) ==
  /\ work[w].pc = "list"
  /\ work' = [work EXCEPT ![w].cons = listVBHNConsolidations, ![w].pc = "decide"]
  /\ UNCHANGED <<present, status, related, replaced, open, page, lock, clock, faults>>

(* The bases named only in the text are read after the list. A text that    *)
(* cannot be read leaves its consolidation unresolved.                      *)
DecideWithout(w, unread) ==
  /\ work[w].pc = "decide"
  /\ work' = [work EXCEPT
                ![w].todo = decideVBHNValidity({IF c.doc \in unread THEN c ELSE resolveVBHNBaseFromText(c) :
                                                  c \in work[w].cons}),
                ![w].cons = {}, ![w].unread = unread, ![w].pc = "compare"]

Decide(w) ==
  /\ DecideWithout(w, {})
  /\ UNCHANGED <<present, status, related, replaced, open, page, lock, clock, faults>>

MapplyCompare(w) ==
  /\ work[w].pc = "compare" /\ work[w].todo # {}
  /\ work' = IF OpenRows(Next1(w)) # {} /\ CurrentValidityByDocument(Next1(w)).source = "vbhn"
             THEN [work EXCEPT ![w].todo = @ \ {Head1(w)}]
             ELSE [work EXCEPT ![w].pc = "close"]
  /\ UNCHANGED <<present, status, related, replaced, open, page, lock, clock, faults>>

(* applyVBHNDecision, lowest document id first.                             *)
applyCompare(w) ==
  /\ work[w].pc = "compare" /\ work[w].todo # {}
  /\ work' = IF Matches(CurrentValidityByDocument(Next1(w)), Head1(w))
             THEN [work EXCEPT ![w].todo = @ \ {Head1(w)}]
             ELSE [work EXCEPT ![w].pc = "close"]
  /\ UNCHANGED <<present, status, related, replaced, open, page, lock, clock, faults>>

(* applyVBHNDecision and applyBNMSupersession close the open rows ...       *)
applySupersede(w) ==
  /\ work[w].pc = "close"
  /\ SupersedeValidityPeriods(Next1(w))
  /\ Go(w, "write")
  /\ UNCHANGED <<present, status, related, replaced, page, lock, clock, faults>>

(* ... and insert the derived one.                                          *)
applyInsert(w) ==
  LET d == Head1(w)
      left == work[w].todo \ {d}
      vn == Jurisdiction = "vn"
  IN /\ work[w].pc = "write"
     /\ InsertValidityPeriod(Row(d.doc, d.code, d.class, d.reason, IF vn THEN "vbhn" ELSE "bnm",
                                 "none", work[w].now))
     /\ work' = [work EXCEPT ![w].todo = left,
                             ![w].pc = CASE vn -> "compare" [] left = {} -> "idle" [] OTHER -> "relate"]
     /\ UNCHANGED <<present, status, related, replaced, page, lock, clock, faults>>

(* The deferred pg_advisory_unlock.                                         *)
advisoryUnlock(w) ==
  /\ work[w].pc = "compare" /\ work[w].todo = {}
  /\ lock' = 0
  /\ work' = [work EXCEPT ![w] = Idle]
  /\ UNCHANGED <<present, status, related, replaced, open, page, clock, faults>>

(* A statement of a worker fails. A failed read of the current row counts    *)
(* as no row: the guard and the comparison go on to write. A failed write    *)
(* of the document's own row, or of its relations, becomes a warning and     *)
(* Normalize goes on. Any other failure ends the pass, which releases the    *)
(* lock.                                                                     *)
StatementFails(w) ==
  LET pc == work[w].pc IN
  /\ faults < MaxFaults
  /\ faults' = faults + 1
  /\ \/ pc = "guard" /\ status[work[w].doc] = "" /\ Go(w, "supersede") /\ UNCHANGED lock
     \/ pc \in {"supersede", "insert"} /\ Go(w, "relations") /\ UNCHANGED lock
     \/ pc = "relations" /\ Go(w, NextPass(work[w].doc)) /\ UNCHANGED lock
     \/ pc = "compare" /\ work[w].todo # {} /\ Go(w, "close") /\ UNCHANGED lock
     \/ /\ UNCHANGED lock
        /\ \E c \in work[w].cons : c.base = None /\ DecideWithout(w, {c.doc})
     \/ /\ pc \in {"clause", "relate", "lock", "list", "decide", "close", "write"}
        /\ work' = [work EXCEPT ![w] = Idle]
        /\ lock' = IF lock = w THEN 0 ELSE lock
  /\ UNCHANGED <<present, status, related, replaced, open, page, clock>>

(* The process dies; the sessions and their lock go with it.                *)
Crash ==
  /\ faults < MaxFaults /\ \E w \in Workers : Busy(w)
  /\ faults' = faults + 1
  /\ work' = [w \in Workers |-> Idle]
  /\ page' = {} /\ lock' = 0
  /\ UNCHANGED <<present, status, related, replaced, open, clock>>

Init ==
  /\ present = {} /\ status = [d \in Docs |-> ""]
  /\ related = {} /\ replaced = {} /\ open = {} /\ page = {}
  /\ work = [w \in Workers |-> Idle]
  /\ lock = 0 /\ clock = 0 /\ faults = 0

Step(w) ==
  \/ \E d \in Docs : Normalize(w, d)
  \/ upsertGuard(w) \/ upsertSupersede(w) \/ upsertInsert(w)
  \/ persistRelations(w) \/ extractAndApplyBNMSupersession(w)
  \/ applyReplaces(w) \/ advisoryLock(w) \/ ListConsolidations(w) \/ Decide(w)
  \/ applyCompare(w) \/ applySupersede(w) \/ applyInsert(w) \/ advisoryUnlock(w)

Next ==
  \/ \E d \in Docs : \E code \in Codes(d) : Store(d, code)
  \/ \E force \in BOOLEAN : StartPage(force)
  \/ \E w \in Workers : Step(w) \/ StatementFails(w)
  \/ Crash

Spec == Init /\ [][Next]_vars

-----------------------------------------------------------------------------
Pcs == {"idle", "guard", "supersede", "insert", "relations", "clause", "lock", "list",
        "decide", "compare", "relate", "close", "write"}
Classes == {"in_force", "expired", "not_yet", "unknown"}

(* Rows, calls and the lock have the shapes the schema and the code give    *)
(* them, and only a worker inside the VBHN pass holds the lock.             *)
TypeOK ==
  /\ present \subseteq Docs /\ related \subseteq present /\ page \subseteq present
  /\ \A r \in open : r.doc \in present /\ r.class \in Classes /\ r.at \in 1..MaxStarts
  /\ \A w \in Workers : work[w].pc \in Pcs /\ (Busy(w) => work[w].doc \in present)
  /\ lock # 0 => work[lock].pc \in {"list", "decide", "compare", "close", "write"}

Quiet == page = {} /\ \A w \in Workers : ~Busy(w)

(* Two recomputations never leave two derived rows open for one              *)
(* consolidation, nor two Normalize calls two rows of the publisher's status *)
(* (deriveVBHNValidity's lock; a page that has each document once). A row of *)
(* each kind may be open: the lock covers the derived rows only.             *)
OneRowPerWriter ==
  \A d \in Docs : \A source \in {"publisher", "vbhn"} :
    Cardinality({r \in OpenRows(d) : r.source = source}) <= 1

(* No document ends up with two open rows once the workers are done: true   *)
(* of one worker.                                                           *)
OneOpenRow == Quiet => \A d \in Docs : Cardinality(OpenRows(d)) <= 1

(* What the rows of the database say each consolidation's status should be. *)
Derived == decideVBHNValidity({resolveVBHNBaseFromText(c) : c \in listVBHNConsolidations})

Agrees(d) == Matches(CurrentValidityByDocument(d.doc), d)

(* With one worker, a pass that comes to its end and could read every text  *)
(* it asked for leaves every consolidation of the corpus with the status    *)
(* its family derives, whatever failed before or in between: the rows it    *)
(* writes do not change what it would decide.                               *)
PassAgrees ==
  \A w \in Workers :
    (work[w].pc = "compare" /\ work[w].todo = {} /\ work[w].unread = {}) => \A d \in Derived : Agrees(d)

(* Once the workers are done, the newest consolidation mirrors the base's   *)
(* current status.                                                          *)
FamilyAgrees ==
  Quiet => \A d \in Derived : CurrentValidityByDocument(d.doc).class \in {"none", d.class}

(* Once the workers are done, a policy document that another one replaces   *)
(* is not served as in force, unless its publisher states a status.         *)
SupersessionHolds ==
  Quiet => \A r \in replaced :
    CurrentValidityByDocument(r[2]).class = "expired" \/ status[r[2]] # ""

(* A page is started whenever there are documents to normalize, and a       *)
(* worker's statements return.                                              *)
FairSpec ==
  /\ Spec
  /\ WF_vars(StartPage(FALSE))
  /\ \A w \in Workers : WF_vars(Step(w))

(* Faults between the two statements of a write leave a document without an *)
(* open row, and so out of the index; the next page finds it and gives it   *)
(* one, unless the bound on starts is used up.                              *)
StatusHeals ==
  \A d \in Docs : (d \in present /\ OpenRows(d) = {}) ~> (OpenRows(d) # {} \/ clock = MaxStarts)
=============================================================================
