------------------------------ MODULE Retrieval ------------------------------
(***************************************************************************)
(* hybridRetriever.SearchEvidence over the live gold and silver tables.    *)
(* One request runs a dozen statements, none of them in a transaction: the *)
(* reference lookup, the query embedding, the vector arm (candidates of    *)
(* the HNSW index, then the exact scan on a shortfall), the lexical arm,   *)
(* hydration, relations, a second pass over non-current law, warnings,     *)
(* articles, scope, gaps and related chunks.  Meanwhile Index replaces the *)
(* chunks of a document, Embed adds their vectors, and Normalize replaces  *)
(* a validity row.                                                         *)
(*                                                                         *)
(* A chunk is a fragment of a document; Index gives all fragments of a     *)
(* document new ids, so an id is a fragment and a generation.  A citation  *)
(* is a sequence of <<level, number>> parts.  What text similarity says of *)
(* a query is the order in which it puts the fragments; RRF scores are     *)
(* multiples of 1/Scale.                                                   *)
(***************************************************************************)
EXTENDS Integers, Sequences, FiniteSets, SequencesExt

CONSTANTS Fragments,      \* positive integers
          Docs,           \* positive integers, ordered as their numbers are
          DocOf, Citation, Long,        \* of a fragment; Long: documents whose articles exceed the cap
          Binding,        \* documents with binding text
          Pairs,          \* consolidates relations between documents: sequences <<from, to>>
          RelationRows,   \* initial rows [id, from, to, type]; to = 0 when unresolved
          Rows,           \* initial validity: functions from Docs to rows [class, from, to] or NoRow
          NewRows,        \* rows Normalize may write
          Queries,        \* [opts, dense, lexical, named, boost, known, scoped]: what is asked and how it ranks
          Cfg,            \* retrieve.* settings; HNSW floor, relation and related limits
          Scale, MaxChanges, MaxFaults

VARIABLES gen, embedded,  \* of a document: generation of its chunks, whether they have vectors
          validity,       \* of a document: its current row or NoRow
          relations,      \* document_relation rows
          req,            \* the request
          conn,           \* the request holds a pooled connection
          law,            \* ghost: every class a document had since the request began
          changes, faults
vars == <<gen, embedded, validity, relations, req, conn, law, changes, faults>>
db == <<gen, embedded, validity, relations>>

NoRow == [class |-> "", from |-> 0, to |-> 0]
Current == {"in_force", "partial"}
Id(f) == f + 100 * gen[DocOf[f]]
Fragment(id) == id % 100
Exists(id) == id = Id(Fragment(id))
Take(s, n) == SubSeq(s, 1, IF n < Len(s) THEN n ELSE Len(s))
\* A finite set in the order of a strict total order.
Sorted(S, Before(_, _)) == [i \in 1..Cardinality(S) |-> CHOOSE x \in S : Cardinality({y \in S : Before(y, x)}) = i - 1]

-----------------------------------------------------------------------------
(* Options. *)

pick(o, c, d) == IF o > 0 THEN o ELSE IF c > 0 THEN c ELSE d

\* The effective top_k and related_k stay below the configured maxima.
validateSearch(o) ==
  /\ \A k \in {"topK", "vectorK", "bm25K", "rrfK", "docCap", "relatedK"} : o[k] >= 0
  /\ pick(o.topK, Cfg.topK, 8) <= Cfg.maxResults
  /\ o.relatedK <= Cfg.maxRelated

\* asOf = 0, and docs = {} for the metadata filters, mean no filter.
Filtered(o) == o.asOf # 0 \/ o.docs # {}
resolve(o) ==
  [mode |-> IF o.mode # "" THEN o.mode ELSE IF Cfg.embedder THEN "hybrid" ELSE "bm25",
   topK |-> pick(o.topK, Cfg.topK, 8), vectorK |-> pick(o.vectorK, Cfg.vectorK, 100),
   bm25K |-> pick(o.bm25K, Cfg.bm25K, 100), rrfK |-> pick(o.rrfK, Cfg.rrfK, 60),
   docCap |-> pick(o.docCap, Cfg.docCap, 3),
   inForceOnly |-> IF o.strict # "" THEN o.strict = "true" ELSE ~Cfg.disableValidityFilter,
   surfaceNonCurrent |-> o.strict = "" /\ ~Cfg.disableValidityFilter /\ ~Filtered(o),
   rollup |-> IF o.rollup \in {"none", "khoan", "dieu"} THEN o.rollup ELSE "khoan",
   asOf |-> o.asOf, docs |-> o.docs, refs |-> {}]

\* The documents a pass may rank; every filtered pass joins the current validity row.
hasDocFilter(res) == res.asOf # 0 \/ res.docs # {} \/ res.refs # {}
inForce(d) == validity[d].class \in Current
outOfForce(d) == validity[d] # NoRow /\ validity[d].class \notin Current
\* The filter looks at the status only when no other filter is set.
MbuildDocFilter(res, d) ==
  IF ~hasDocFilter(res) THEN res.inForceOnly => validity[d] # NoRow
  ELSE validity[d] # NoRow /\ (res.refs # {} => d \in res.refs)

buildDocFilter(res, d) ==
  IF ~hasDocFilter(res) THEN res.inForceOnly => inForce(d)
  ELSE /\ validity[d] # NoRow
       /\ IF res.asOf # 0 THEN validity[d].from <= res.asOf /\ res.asOf < validity[d].to
          ELSE res.inForceOnly => inForce(d)
       /\ res.docs # {} => d \in res.docs
       /\ res.refs # {} => d \in res.refs
eligible(f) == IF req.pass = 2 THEN outOfForce(DocOf[f]) ELSE buildDocFilter(req.res, DocOf[f])

-----------------------------------------------------------------------------
(* Arms and fusion. *)

Vectors == SelectSeq(req.q.dense, LAMBDA f : embedded[DocOf[f]])
Ids(seq) == [i \in DOMAIN seq |-> Id(seq[i])]
Nearest == Ids(Take(SelectSeq(Vectors, eligible), req.res.vectorK))
hnswCandidates(k) == IF Cfg.multiplier * k < Cfg.floor THEN Cfg.floor ELSE Cfg.multiplier * k
\* The graph of the index is searched approximately, and vectors at one distance come in no order:
\* what the scan returns may be any vectors, no more than it was asked for.  The filter, the order
\* by distance and the limit are applied to these.
Scans == {scan \in SUBSET Range(Vectors) : Cardinality(scan) <= hnswCandidates(req.res.vectorK)}
FromCandidates(scan) == Ids(Take(SelectSeq(Vectors, LAMBDA f : f \in scan /\ eligible(f)), req.res.vectorK))
lexicalWeight == IF req.q.boost THEN Cfg.boostWeight ELSE Cfg.lexicalWeight

Rank(seq, id) == IF \E i \in DOMAIN seq : seq[i] = id THEN CHOOSE i \in DOMAIN seq : seq[i] = id ELSE 0
Term(weight, rank) == IF rank = 0 THEN 0 ELSE weight * (Scale \div (req.res.rrfK + rank))
score(id, vec, bm) == Term(2, Rank(vec, id)) + Term(lexicalWeight, Rank(bm, id))
\* Best score first, then the smaller chunk id.
fuseRRF(vec, bm) ==
  Sorted(Range(vec) \cup Range(bm),
               LAMBDA a, b : \/ score(a, vec, bm) > score(b, vec, bm)
                             \/ score(a, vec, bm) = score(b, vec, bm) /\ a < b)

-----------------------------------------------------------------------------
(* The hits of a pass. *)

PartAt(c, level) == {i \in DOMAIN c : c[i][1] = level}
parentCitation(c, level) ==
  IF PartAt(c, level) = {} THEN c ELSE SubSeq(c, 1, CHOOSE i \in PartAt(c, level) : \A j \in PartAt(c, level) : i <= j)
articleLevelCitation(c) ==
  IF PartAt(c, "dieu") = {} THEN c ELSE <<c[CHOOSE i \in PartAt(c, "dieu") : \A j \in PartAt(c, "dieu") : i <= j]>>

Hit(id) ==
  LET f == Fragment(id) IN
  [chunk |-> id, doc |-> DocOf[f], cit |-> Citation[f], score |-> score(id, req.vec, req.bm), parent |-> <<>>,
   vector |-> Rank(req.vec, id) > 0, class |-> validity[DocOf[f]].class, rels |-> <<>>, superseded |-> {}, article |-> ""]

\* Keeps the hits whose key was not seen earlier in the list.
FirstOf(hits, Key(_)) ==
  LET fresh(i) == \A j \in 1..(i - 1) : Key(hits[j]) # Key(hits[i])
      keep == Sorted({i \in DOMAIN hits : fresh(i)}, LAMBDA a, b : a < b)
  IN  [k \in DOMAIN keep |-> hits[keep[k]]]

rollupByParent(hits, level) ==
  LET named == [i \in DOMAIN hits |-> [hits[i] EXCEPT !.parent = parentCitation(hits[i].cit, level)]]
  IN  IF level = "none" THEN named ELSE FirstOf(named, LAMBDA h : <<h.doc, h.parent>>)

\* Union-find over the consolidates pairs; the root is the smallest document of the component.
BuildFamilyMap ==
  FoldLeft(LAMBDA root, p : LET a == root[p[1]]
                                b == root[p[2]]
                                low == IF a < b THEN a ELSE b
                            IN  [d \in Docs |-> IF root[d] \in {a, b} THEN low ELSE root[d]],
           [d \in Docs |-> d], Pairs)
InFamily(d) == \E i \in DOMAIN Pairs : d \in {Pairs[i][1], Pairs[i][2]}
collapseFamilyDuplicates(hits) ==
  FirstOf(hits, LAMBDA h : IF InFamily(h.doc) /\ h.cit # <<>> THEN <<BuildFamilyMap[h.doc], h.cit>> ELSE <<h.chunk, <<>>>>)

\* A hit beyond its document's cap waits; the waiting ones fill what is left of topK.
capPerDocument(hits, cap, topK) ==
  LET walk == FoldLeft(LAMBDA w, h :
                IF Len(w.selected) = topK THEN w
                ELSE IF Cardinality({i \in DOMAIN w.selected : w.selected[i].doc = h.doc}) >= cap
                     THEN [w EXCEPT !.demoted = Append(@, h)] ELSE [w EXCEPT !.selected = Append(@, h)],
                [selected |-> <<>>, demoted |-> <<>>], hits)
  IN  Take(walk.selected \o walk.demoted, topK)

GroupOf(h) == <<h.doc, articleLevelCitation(h.cit)>>
\* The groups of the pool that missed the top and whose best three fragments together beat its
\* last entry; the best member of at most two of them is appended.
promoteBySectionAggregate(top, pool) ==
  LET members(g) == SelectSeq(pool, LAMBDA h : GroupOf(h) = g)
      counted(g) == Take(members(g), 3)
      aggregate(g) == FoldLeft(LAMBDA n, h : n + h.score, 0, counted(g))
      best(g) == members(g)[1]
      candidates == {g \in {GroupOf(pool[i]) : i \in DOMAIN pool} :
                       /\ \A i \in DOMAIN top : GroupOf(top[i]) # g
                       /\ Len(counted(g)) >= 2 /\ aggregate(g) > top[Len(top)].score}
      order(a, b) == \/ aggregate(a) > aggregate(b)
                     \/ /\ aggregate(a) = aggregate(b)
                        /\ \/ best(a).score > best(b).score
                           \/ best(a).score = best(b).score /\ best(a).chunk < best(b).chunk
      chosen == Take(Sorted(candidates, order), 2)
  IN  IF top = <<>> THEN top ELSE top \o [i \in DOMAIN chosen |-> best(chosen[i])]

-----------------------------------------------------------------------------
(* The request. *)

NoReq == [pc |-> "idle", q |-> <<>>, res |-> <<>>, pass |-> 1, vec |-> <<>>, bm |-> <<>>, hits |-> <<>>, pool |-> <<>>,
          primary |-> <<>>, related |-> <<>>, gaps |-> {}]
Init == /\ gen = [d \in Docs |-> 0] /\ embedded = [d \in Docs |-> TRUE] /\ validity \in Rows
        /\ relations = RelationRows /\ req = NoReq /\ conn = FALSE /\ law = [d \in Docs |-> {validity[d].class}]
        /\ changes = 0 /\ faults = 0

At(pc) == req.pc = pc
Go(pc) == req' = [req EXCEPT !.pc = pc]
Fault == faults < MaxFaults /\ faults' = faults + 1
Fails == Fault /\ Go("failed")
Reads == UNCHANGED <<db, law, changes>>

\* SearchEvidence: the checks before any work.
Begin(q) ==
  /\ At("idle") /\ law' = [d \in Docs |-> {validity[d].class}] /\ UNCHANGED <<db, conn, changes, faults>>
  /\ req' = IF ~validateSearch(q.opts) THEN [NoReq EXCEPT !.pc = "failed"]
            ELSE [NoReq EXCEPT !.pc = "refs", !.q = q, !.res = resolve(q.opts)]

\* A failed lookup leaves the search unscoped.
refDocumentIDs ==
  /\ At("refs") /\ Reads /\ UNCHANGED conn
  /\ \/ /\ UNCHANGED faults
        /\ req' = IF Cfg.identifierScope /\ req.q.named # {}
                  THEN [req EXCEPT !.pc = "embed", !.res.refs = req.q.named,
                          !.res.inForceOnly = @ /\ req.q.opts.strict # "",
                          !.res.surfaceNonCurrent = @ /\ req.q.opts.strict # ""]
                  ELSE [req EXCEPT !.pc = "embed"]
     \/ Fault /\ Go("embed")

embedQuery ==
  /\ At("embed") /\ Reads /\ UNCHANGED conn
  /\ \/ req.res.mode = "bm25" /\ Go("sparse") /\ UNCHANGED faults
     \/ /\ req.res.mode # "bm25" /\ ~Cfg.embedder /\ UNCHANGED faults
        /\ Go(IF req.res.mode = "vector" THEN "failed" ELSE "sparse")
     \/ /\ req.res.mode # "bm25" /\ Cfg.embedder
        /\ (Go(IF Cfg.multiplier < 0 THEN "exact" ELSE "hnsw") /\ UNCHANGED faults) \/ Fails

\* queryWithIterativeScan: one connection for the SETs and the query, released with the rows.
Acquire ==
  /\ At("hnsw") /\ Reads /\ ~conn
  /\ (conn' = TRUE /\ Go("scan") /\ UNCHANGED faults) \/ (conn' = conn /\ Fails)

AfterArm == IF req.pass = 2 \/ req.res.mode = "vector" THEN "hydrate" ELSE "sparse"
\* A short list is kept when it is not empty.
MvectorArmShort ==
  /\ At("scan") /\ Reads
  /\ \/ /\ conn' = FALSE /\ UNCHANGED faults
        /\ \E list \in {FromCandidates(scan) : scan \in Scans} :
             IF Len(list) >= 1 THEN req' = [req EXCEPT !.vec = list, !.pc = AfterArm] ELSE Go("exact")
     \/ conn' = FALSE /\ Fails

vectorArmHNSW ==
  /\ At("scan") /\ Reads
  /\ \/ /\ conn' = FALSE /\ UNCHANGED faults
        /\ \E list \in {FromCandidates(scan) : scan \in Scans} :
             IF Len(list) >= req.res.vectorK \/ Len(list) >= hnswCandidates(req.res.vectorK)
             THEN req' = [req EXCEPT !.vec = list, !.pc = AfterArm] ELSE Go("exact")
     \/ conn' = FALSE /\ Fails

vectorArmExact ==
  /\ At("exact") /\ Reads /\ UNCHANGED conn
  /\ (req' = [req EXCEPT !.vec = Nearest, !.pc = AfterArm] /\ UNCHANGED faults) \/ Fails

\* Only chunks that share a term with the query are in its lexical order.
sparseArm ==
  /\ At("sparse") /\ Reads /\ UNCHANGED conn
  /\ \/ /\ req' = [req EXCEPT !.bm = Ids(Take(SelectSeq(req.q.lexical, eligible), req.res.bm25K)), !.pc = "hydrate"]
        /\ UNCHANGED faults
     \/ Fails

\* Overfetch for the roll-up, then one query for the metadata.  A chunk that vanished is skipped.
PoolSize == LET k == IF req.pass = 2 THEN Cfg.nonCurrentCap ELSE req.res.topK
            IN  IF req.res.rollup = "none" THEN k ELSE k * Cfg.overfetch
hydrate ==
  /\ At("hydrate") /\ Reads /\ UNCHANGED conn
  /\ LET fused == Take(fuseRRF(req.vec, req.bm), PoolSize)
         found == SelectSeq(fused, Exists)
         hits == [i \in DOMAIN found |-> Hit(found[i])]
     IN  \/ /\ fused # <<>> /\ UNCHANGED faults
            /\ req' = [req EXCEPT !.pool = hits, !.pc = "relations"]
         \/ /\ fused = <<>> /\ UNCHANGED faults
            /\ req' = [req EXCEPT !.pc = IF req.pass = 2 THEN "superseded" ELSE "articles"]
         \/ fused # <<>> /\ Fails

\* Confirmed relations next to a document: outgoing first, at most so many.
outgoing(d) == {[id |-> r.id, dir |-> 0, doc |-> r.to, type |-> r.type, amenders |-> {}] : r \in {x \in relations : x.from = d}}
incoming(d) == {[id |-> r.id, dir |-> 1, doc |-> r.from, type |-> r.type, amenders |-> {}] : r \in {x \in relations : x.to = d}}
loadRelations(d) ==
  Take(Sorted(outgoing(d) \cup incoming(d), LAMBDA a, b : a.dir < b.dir \/ (a.dir = b.dir /\ a.id < b.id)),
       Cfg.relationLimit)
Relations ==
  /\ At("relations") /\ Reads /\ UNCHANGED conn
  /\ \/ /\ req' = [req EXCEPT !.pool = [i \in DOMAIN @ |-> [@[i] EXCEPT !.rels = loadRelations(req.pool[i].doc)]], !.pc = "amenders"]
        /\ UNCHANGED faults
     \/ Fails

\* Who amends the target of a relation, the base document and the target excluded.
amendersOf(d, base) == {r.from : r \in {x \in relations : x.to = d /\ x.type = "amends" /\ x.from \notin {base, d}}}
attachTargetAmenders(h) ==
  [h EXCEPT !.rels = [i \in DOMAIN @ |-> IF h.rels[i].doc = 0 THEN h.rels[i]
                                     ELSE [h.rels[i] EXCEPT !.amenders = amendersOf(h.rels[i].doc, h.doc)]]]

\* The first pass after hydration: roll-up, family collapse, cap, promotion.
primaryHits(hits) ==
  LET pool == collapseFamilyDuplicates(rollupByParent(hits, req.res.rollup))
      top == capPerDocument(pool, req.res.docCap, req.res.topK)
  IN  [pool |-> pool, natural |-> top, hits |-> IF Cfg.sectionAggregate THEN promoteBySectionAggregate(top, pool) ELSE top]
\* The second: one hit of each non-current document, at most so many.
nonCurrentHits(hits) ==
  Take(FirstOf(rollupByParent(hits, req.res.rollup), LAMBDA h : h.doc),
       IF req.res.topK < Cfg.nonCurrentCap THEN req.res.topK ELSE Cfg.nonCurrentCap)
appendNonCurrent(current, nc) == current \o SelectSeq(nc, LAMBDA h : \A i \in DOMAIN current : current[i].chunk # h.chunk)
dedupeRelationsPerDocument(hits) ==
  [i \in DOMAIN hits |-> IF \E j \in 1..(i - 1) : hits[j].doc = hits[i].doc THEN [hits[i] EXCEPT !.rels = <<>>] ELSE hits[i]]

\* The amender lookup is best effort; then the pass is assembled and the second one begins.
Amenders ==
  /\ At("amenders") /\ Reads /\ UNCHANGED conn
  /\ \E ok \in BOOLEAN :
       /\ IF ok THEN UNCHANGED faults ELSE Fault
       /\ LET hits == IF ok THEN [i \in DOMAIN req.pool |-> attachTargetAmenders(req.pool[i])] ELSE req.pool
              first == primaryHits(hits)
          IN  req' = IF req.pass = 2
                     THEN [req EXCEPT !.hits = appendNonCurrent(@, nonCurrentHits(hits)), !.pc = "superseded"]
                     ELSE [req EXCEPT !.hits = first.hits, !.primary = first.natural, !.pool = first.pool,
                             !.pc = IF req.res.surfaceNonCurrent /\ req.res.mode # "bm25" /\ Cfg.embedder THEN "tail"
                                    ELSE "superseded"]

\* The query vector is reused for the pass over non-current law.
NonCurrentPass ==
  /\ At("tail") /\ Reads /\ UNCHANGED <<conn, faults>>
  /\ req' = [req EXCEPT !.pass = 2, !.vec = <<>>, !.bm = <<>>, !.pc = IF Cfg.multiplier < 0 THEN "exact" ELSE "hnsw"]

\* Hits still badged current that a confirmed superseding relation targets; best effort.
AttachSupersededBy ==
  /\ At("superseded") /\ Reads /\ UNCHANGED conn
  /\ LET hits == dedupeRelationsPerDocument(req.hits)
         by(h) == IF h.class \in Current THEN {r.from : r \in {x \in relations : x.to = h.doc /\ x.type = "replaces"}} ELSE {}
     IN  \/ /\ req' = [req EXCEPT !.pc = "articles", !.hits = [i \in DOMAIN hits |-> [hits[i] EXCEPT !.superseded = by(hits[i])]]]
            /\ UNCHANGED faults
         \/ Fault /\ req' = [req EXCEPT !.pc = "articles", !.hits = hits]

\* The whole article of a hit, or a pointer when it is too long; best effort.
attachArticles ==
  /\ At("articles") /\ Reads /\ UNCHANGED conn
  /\ LET text(h) == IF PartAt(parentCitation(h.cit, "dieu"), "dieu") # {1} THEN ""
                    ELSE IF h.doc \in Long THEN "pointer" ELSE "text"
     IN  \/ /\ req' = [req EXCEPT !.pc = "scope", !.hits = [i \in DOMAIN @ |-> [@[i] EXCEPT !.article = text(req.hits[i])]]]
            /\ UNCHANGED faults
         \/ Fault /\ Go("scope")

\* The query's domain, the known references, an empty result and the similarity floor.
scopeEvidence ==
  /\ At("scope") /\ Reads /\ UNCHANGED conn
  /\ \/ /\ UNCHANGED faults
        /\ req' = [req EXCEPT !.pc = "gaps", !.gaps = @ \cup
                     (IF req.q.scoped \/ req.q.known THEN {} ELSE {<<"out_of_domain", 0>>})
                     \cup (IF req.hits = <<>> THEN {<<"no_evidence", 0>>}
                           ELSE IF req.hits[1].vector /\ req.q.low THEN {<<"low_confidence", 0>>} ELSE {})]
     \/ Fails

Indexed(d) == d # 0 /\ \E f \in Fragments : DocOf[f] = d
relationGaps(hits) ==
  LET rels == UNION {Range(hits[i].rels) : i \in DOMAIN hits} IN
  {<<"unresolved_relation_target", r.id>> : r \in {x \in rels : x.doc = 0}}
  \cup {<<"relation_target_text_gap", r.id>> : r \in {x \in rels : x.doc # 0 /\ ~Indexed(x.doc) /\ x.doc \notin Binding}}
knownBindingTextGaps ==
  /\ At("gaps") /\ Reads /\ UNCHANGED conn
  /\ \/ /\ UNCHANGED faults
        /\ req' = [req EXCEPT !.pc = IF req.q.opts.relatedK > 0 /\ req.hits # <<>> /\ req.res.mode # "bm25" /\ Cfg.embedder
                                     THEN "related" ELSE "states",
                     !.gaps = @ \cup relationGaps(req.hits)
                              \cup {<<"known_binding_text_gap", d>> : d \in {x \in req.q.named : ~Indexed(x) /\ x \notin Binding}}]
     \/ Fails

\* Relations to expand, each once, in hit order; the closest chunks of their targets.
relatedSeeds(hits) ==
  LET all == FlattenSeq([i \in DOMAIN hits |-> [k \in DOMAIN hits[i].rels |-> [rel |-> hits[i].rels[k], base |-> hits[i].doc]]])
      ok == SelectSeq(all, LAMBDA x : Indexed(x.rel.doc) /\ x.rel.doc \in Binding /\ x.rel.doc # x.base)
  IN  FirstOf(ok, LAMBDA x : x.rel.id)
relatedHits ==
  /\ At("related") /\ Reads /\ UNCHANGED conn
  /\ LET seeds == relatedSeeds(req.hits)
         near(d) == Take(SelectSeq(Vectors, LAMBDA f : DocOf[f] = d), Cfg.perRelation)
         rows == UNION {{[rel |-> seeds[i].rel.id, base |-> seeds[i].base, rank |-> i, chunk |-> Id(f), dist |-> Rank(Vectors, f)]
                           : f \in Range(near(seeds[i].rel.doc))} : i \in DOMAIN seeds}
     IN  \/ /\ UNCHANGED faults
            /\ req' = [req EXCEPT !.pc = "states", !.related =
                         Take(Sorted(rows, LAMBDA a, b : a.dist < b.dist \/ (a.dist = b.dist /\ a.rank < b.rank)),
                              req.q.opts.relatedK)]
         \/ Fault /\ Go("states")

\* Gaps of the evidence itself; the answer is complete.
evidenceStateGaps ==
  /\ At("states") /\ Reads /\ UNCHANGED <<conn, faults>>
  /\ req' = [req EXCEPT !.pc = "done", !.gaps = @ \cup UNION {
               LET h == req.hits[i] IN
               (IF h.class = "" THEN {<<"validity_unknown", h.doc>>} ELSE {})
               \cup (IF h.class = "partial" THEN {<<"partial_validity_uncertain", h.doc>>} ELSE {}) : i \in DOMAIN req.hits}]

-----------------------------------------------------------------------------
(* The pipeline writes to the same tables. *)
Changes == changes < MaxChanges /\ changes' = changes + 1 /\ ~At("idle") /\ ~At("done") /\ ~At("failed")
           /\ UNCHANGED <<req, conn, faults>>
Index(d) == Changes /\ UNCHANGED relations /\ gen' = [gen EXCEPT ![d] = @ + 1] /\ embedded' = [embedded EXCEPT ![d] = FALSE] /\ UNCHANGED <<validity, law>>
Embed(d) == Changes /\ UNCHANGED relations /\ ~embedded[d] /\ embedded' = [embedded EXCEPT ![d] = TRUE] /\ UNCHANGED <<gen, validity, law>>
Normalize(d, row) ==
  Changes /\ UNCHANGED relations /\ validity' = [validity EXCEPT ![d] = row] /\ law' = [law EXCEPT ![d] = @ \cup {row.class}] /\ UNCHANGED <<gen, embedded>>
ResolveRefs(d) ==
  /\ Changes /\ UNCHANGED <<gen, embedded, validity, law>> /\ \E r \in relations : r.to = 0
  /\ relations' = {IF r.to = 0 THEN [r EXCEPT !.to = d] ELSE r : r \in relations}

SearchStep == \/ refDocumentIDs \/ embedQuery \/ Acquire \/ vectorArmHNSW \/ vectorArmExact \/ sparseArm \/ hydrate
              \/ Relations \/ Amenders \/ NonCurrentPass \/ AttachSupersededBy \/ attachArticles \/ scopeEvidence
              \/ knownBindingTextGaps \/ relatedHits \/ evidenceStateGaps
Write == \E d \in Docs : Index(d) \/ Embed(d) \/ ResolveRefs(d) \/ \E row \in NewRows : Normalize(d, row)
Next == (\E q \in Queries : Begin(q)) \/ SearchStep \/ Write
Spec == Init /\ [][Next]_vars

\* A request keeps running: statements return or fail.
FairSpec == Spec /\ WF_vars(SearchStep)

-----------------------------------------------------------------------------
(* Properties. *)

Done == At("done")
\* Types; and a connection is held by a running scan only (releasingRows).
TypeOK ==
  /\ conn => At("scan")
  /\ \A i \in DOMAIN req.hits : req.hits[i].doc \in Docs /\ Fragment(req.hits[i].chunk) \in Fragments
  /\ Len(req.hits) <= (IF req.q = <<>> THEN 0 ELSE req.res.topK + 2 + Cfg.nonCurrentCap)

\* However few of the index's candidates the filter leaves, the vector arm answers with as many
\* chunks as the exact scan would, each of them law the pass may rank, in order of distance; a
\* list shorter than asked for is therefore the exact one (the fallback of vectorArm).  Which
\* chunks a full list holds is the index's choice.
RefillStep ==
    \A x \in {"scan", "exact"} : (req.pc = x /\ req'.pc \in {"sparse", "hydrate"}) =>
      LET list == req'.vec IN
      /\ Len(list) = Len(Nearest)
      /\ \A i \in DOMAIN list : Exists(list[i]) /\ eligible(Fragment(list[i]))
      /\ \A i, j \in DOMAIN list : i < j => Rank(Ids(Vectors), list[i]) < Rank(Ids(Vectors), list[j])
ShortfallsRefilled == [][RefillStep]_vars

\* A search with a query vector finds nothing only when there is nothing that it may show: neither
\* candidates nor roll-up, collapse, cap or the limit empty a result (and its "no_evidence" gap).
NothingOnlyWhenNothing ==
  Done /\ faults = 0 /\ changes = 0 /\ req.res.mode # "bm25" /\ Cfg.embedder =>
    LET Shown(d) == buildDocFilter(req.res, d) \/ (req.res.surfaceNonCurrent /\ outOfForce(d))
    IN  (req.hits = <<>>) <=> ~\E f \in Fragments : Shown(DocOf[f])

\* The per-document cap never shrinks the result, and a document exceeds it only when every
\* hit left out belongs to a document that is at its cap too (capPerDocument's backfill).
CapFair ==
  req.pass = 1 /\ req.primary # <<>> =>
    LET of(d) == Cardinality({i \in DOMAIN req.primary : req.primary[i].doc = d})
    IN  /\ Len(req.primary) = (IF Len(req.pool) < req.res.topK THEN Len(req.pool) ELSE req.res.topK)
        /\ (\E d \in Docs : of(d) > req.res.docCap) =>
              \A i \in DOMAIN req.pool : req.pool[i] \notin Range(req.primary) => of(req.pool[i].doc) >= req.res.docCap

\* No two hits of the first pass show the same provision of one document (rollupByParent), and
\* no chunk is returned twice, whatever happens to the tables between the passes.
NothingTwice ==
  /\ \A i, j \in DOMAIN req.primary :
       (i # j /\ req.primary[i].doc = req.primary[j].doc /\ req.res.rollup # "none") =>
         req.primary[i].parent # req.primary[j].parent
  /\ \A i, j \in DOMAIN req.hits : i # j => req.hits[i].chunk # req.hits[j].chunk

\* A document's relations are on its first hit and on no other: none is lost, none repeated.
RelationsOnce ==
  Done => \A i \in DOMAIN req.hits :
    LET first == \A j \in 1..(i - 1) : req.hits[j].doc # req.hits[i].doc
    IN  /\ req.hits[i].rels # <<>> => first
        /\ (first /\ changes = 0 /\ outgoing(req.hits[i].doc) \cup incoming(req.hits[i].doc) # {}) => req.hits[i].rels # <<>>

\* With the current-law filter, every hit of the first pass was current law at some moment of
\* the request, and every later hit was not.
RankedUnderTheLaw ==
  Done /\ req.q.opts.strict # "false" /\ req.res.asOf = 0 /\ req.res.refs = {} =>
    /\ \A i \in DOMAIN req.primary : law[req.primary[i].doc] \cap Current # {}
    /\ req.pass = 2 => \A i \in DOMAIN req.hits : req.hits[i].chunk \notin {req.primary[k].chunk : k \in DOMAIN req.primary} =>
                         \/ law[req.hits[i].doc] \ Current # {}
                         \/ Cfg.sectionAggregate

\* Promotion appends: the natural ranking stays in front as it was, and at most two provisions
\* that it does not show follow, each one once.
NaturalKept ==
  req.pass = 1 /\ req.primary # <<>> =>
    LET n == Len(req.primary) IN
    /\ [i \in 1..n |-> req.hits[i].chunk] = [i \in 1..n |-> req.primary[i].chunk] /\ Len(req.hits) <= n + 2
    /\ \A i \in (n + 1)..Len(req.hits) : \A j \in 1..(i - 1) : GroupOf(req.hits[i]) # GroupOf(req.hits[j])

\* Two hits of one consolidation family never have the same citation in the first pass
\* (collapseFamilyDuplicates).  The key is the citation of the fragment that represents a hit and
\* not of the provision it was rolled up to: twins whose best fragments differ both stay.
FamilyCollapsed ==
  \A i, j \in DOMAIN req.primary :
    LET a == req.primary[i]
        b == req.primary[j]
    IN  (i # j /\ InFamily(a.doc) /\ BuildFamilyMap[a.doc] = BuildFamilyMap[b.doc] /\ a.cit # <<>>) => a.cit # b.cit

\* Every request ends.
Answers == At("refs") ~> At("done") \/ At("failed")

\* "one provision never occupies two top-k slots" (collapseFamilyDuplicates in mainSearchHits).
OneSlotPerProvision ==
  \A i, j \in DOMAIN req.primary :
    (i # j /\ InFamily(req.primary[i].doc) /\ BuildFamilyMap[req.primary[i].doc] = BuildFamilyMap[req.primary[j].doc]) =>
      req.primary[i].parent # req.primary[j].parent

\* "so the named document must win": a query that names an indexed document returns it.
NamedSurfaces ==
  Done /\ faults = 0 /\ changes = 0 /\ req.q.opts.strict = "" /\ ~Filtered(req.q.opts) /\ Cfg.identifierScope =>
    \A d \in req.q.named : Indexed(d) => \E i \in DOMAIN req.hits : req.hits[i].doc = d

\* "true: current law only (in force + partial)".
StrictIsCurrent == Done /\ req.q.opts.strict = "true" => \A i \in DOMAIN req.hits : req.hits[i].class \in Current

\* "whose aggregate score ... exceeds the weakest entry in topHits": no such group is left out
\* while there is room for one more.
PromotedAboveWeakest ==
  Done /\ req.pass = 1 /\ Cfg.sectionAggregate /\ req.primary # <<>> /\ Len(req.hits) < Len(req.primary) + 2 =>
    \A i \in DOMAIN req.pool :
      LET members == SelectSeq(req.pool, LAMBDA h : GroupOf(h) = GroupOf(req.pool[i]))
          sum == FoldLeft(LAMBDA n, h : n + h.score, 0, Take(members, 3))
      IN  (Len(members) >= 2 /\ \E k \in DOMAIN req.primary : sum > req.primary[k].score) =>
            \E k \in DOMAIN req.hits : GroupOf(req.hits[k]) = GroupOf(req.pool[i])
=============================================================================
