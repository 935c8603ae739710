------------------------------ MODULE Chunking ------------------------------
(***************************************************************************)
(* Index cuts the provision tree of a document into chunks, and a search   *)
(* puts an article together again from the chunks that cite it.            *)
(*                                                                         *)
(* A text is a sequence of lines, a line a sequence of words, and a word   *)
(* weighs one: Cap stands for maxDieuTokens, MinWords for                  *)
(* minChunkContentLen.  A label or a heading is one word.  A citation is   *)
(* the sequence of what stands between its commas.                         *)
(***************************************************************************)
EXTENDS Integers, Sequences, FiniteSets, SequencesExt

CONSTANTS LevelOf,       \* the kinds of the jurisdiction and how deep each stands
          Pieces,        \* the rows a document may be made of
          Copies,        \* how a repeated label is cited: "doan", "copy" or "none"
          MaxRows, Cap, MinWords
SizesAssumption == Cap >= 1 /\ MinWords >= 1

VARIABLES rows,          \* silver.document_section, in the order it is read
          at,            \* the next section Index looks at; 0 before Index, Done after it
          chunks         \* gold.chunk of the document, by ordinal
vars == <<rows, at, chunks>>

Articles == {"dieu", "section", "pasal"}
Appendices == {"phuluc", "schedule", "lampiran"}
TopContainers == {"chuong", "part", "bab"}
SubContainers == {"muc", "chapter", "bagian"}
Done == MaxRows + 3

\* The tree as the parser left it: a section stands under the last one above it that is less deep.
Ancestors(i) ==
  {j \in 1..(i - 1) : /\ LevelOf[rows[j].kind] < LevelOf[rows[i].kind]
                      /\ \A k \in (j + 1)..(i - 1) : LevelOf[rows[k].kind] > LevelOf[rows[j].kind]}
parentOf(i) == IF Ancestors(i) = {} THEN 0 ELSE Max(Ancestors(i))
buildChildrenByParent(i) == SelectSeq([j \in DOMAIN rows |-> j], LAMBDA j : parentOf(j) = i)
Within(i) == SelectSeq([j \in DOMAIN rows |-> j], LAMBDA j : j = i \/ i \in Ancestors(j))

(* A repeated label has a path of its own; its citation shows the number   *)
(* the path carries.                                                       *)
dedupOrdinal(i) ==
  1 + Cardinality({j \in 1..(i - 1) : /\ parentOf(j) = parentOf(i)
                                      /\ rows[j].kind = rows[i].kind /\ rows[j].num = rows[i].num
                                      /\ rows[j].num # 0})
Label(i) == <<rows[i].kind, rows[i].num, "", 0>>
sectionCitationPart(i) ==
  IF dedupOrdinal(i) = 1 \/ Copies = "none" THEN <<Label(i)>>
  ELSE IF Copies = "doan" THEN <<Label(i), <<"doan", dedupOrdinal(i), "", 0>>>>
  ELSE <<[Label(i) EXCEPT ![3] = "copy", ![4] = dedupOrdinal(i)]>>

Units == {i \in DOMAIN rows : rows[i].kind \in Articles \cup Appendices}
buildCollidingDieuCitations ==
  {sectionCitationPart(i) : i \in {k \in Units : \E j \in Units \ {k} : sectionCitationPart(j) = sectionCitationPart(k)}}

(* The containers named in the prefix: the innermost of each slot, the     *)
(* outer one first.                                                        *)
Titled(i) == IF rows[i].head THEN [Label(i) EXCEPT ![3] = "head", ![4] = i] ELSE Label(i)
Slot(i, kinds) == LET as == {j \in Ancestors(i) : rows[j].kind \in kinds} IN IF as = {} THEN <<>> ELSE <<Max(as)>>
enclosing(i) ==
  LET top == Slot(i, TopContainers)
      sub == Slot(i, SubContainers)
  IN  IF top # <<>> /\ sub # <<>> /\ rows[top[1]].kind = "part" /\ rows[sub[1]].kind = "chapter"
      THEN sub \o top ELSE top \o sub
Names(is) == [k \in DOMAIN is |-> Titled(is[k])]

enclosingPhuLuc(i) ==
  LET as == {j \in Ancestors(i) : rows[j].kind \in Appendices}
      a  == Max(as)
  IN  IF as = {} THEN <<>>
      ELSE IF <<Label(a)>> \in buildCollidingDieuCitations
           THEN <<[Label(a) EXCEPT ![3] = "ord", ![4] = rows[a].ord]>>
           ELSE <<Label(a)>>

articleCitation(i) ==
  LET cite == enclosingPhuLuc(i) \o sectionCitationPart(i)
  IN  IF cite \in buildCollidingDieuCitations THEN Names(enclosing(i)) \o cite ELSE cite
appendixCitation(i) ==
  LET part == sectionCitationPart(i)
      nth  == Cardinality({j \in 1..i : rows[j].kind \in Appendices /\ sectionCitationPart(j) = part})
  IN  IF part \in buildCollidingDieuCitations
      THEN Front(part) \o <<<<Last(part)[1], Last(part)[2], "nth", nth>>>> ELSE part
sectionCitation(i) ==
  FlattenSeq([k \in 1..Cardinality(Ancestors(i) \cup {i}) |->
                sectionCitationPart(SetToSortSeq(Ancestors(i) \cup {i}, <)[k])])

-----------------------------------------------------------------------------
\* The words of a body are its own, or those of the row it repeats.
Body(i) == [l \in DOMAIN rows[i].body |-> [w \in 1..rows[i].body[l] |-> <<"w", rows[i].same, ToString(l), w>>]]
Heading(i) == <<"head", i, "", 0>>
sectionOwnText(i) ==
  LET body == Body(i)
  IN  CASE rows[i].whole /\ body # <<>> -> body
        [] rows[i].head                -> <<<<Label(i), Heading(i)>>>> \o body
        [] ~rows[i].head /\ body # <<>> /\ ~rows[i].whole -> <<<<Label(i)>> \o Head(body)>> \o Tail(body)
        [] OTHER                       -> <<<<Label(i)>>>>
sectionTreeContent(i) == LET w == Within(i) IN FlattenSeq([k \in DOMAIN w |-> sectionOwnText(w[k])])

Words(text) == FlattenSeq(text)
RoughTokenCount(text) == Len(Words(text))
labelOnlyChunk(i, text) == Words(text) \in {<<>>, <<Label(i)>>, <<Label(i), Heading(i)>>}

splitLongTextByWords(line) ==
  [k \in 1..((Len(line) + Cap - 1) \div Cap) |-> <<SubSeq(line, (k - 1) * Cap + 1, IF k * Cap < Len(line) THEN k * Cap ELSE Len(line))>>]
flush(s) == IF s.current = <<>> THEN s ELSE [parts |-> Append(s.parts, s.current), current |-> <<>>]
Pack(s, line) ==
  IF Len(line) > Cap THEN [flush(s) EXCEPT !.parts = @ \o splitLongTextByWords(line)]
  ELSE IF s.current # <<>> /\ RoughTokenCount(Append(s.current, line)) > Cap THEN [flush(s) EXCEPT !.current = <<line>>]
  ELSE [s EXCEPT !.current = Append(@, line)]
\* The last part is never flushed.
MSplitLongContent(text) ==
  IF RoughTokenCount(text) <= Cap THEN <<text>>
  ELSE FoldLeft(Pack, [parts |-> <<>>, current |-> <<>>], text).parts
SplitLongContent(text) ==
  IF RoughTokenCount(text) <= Cap THEN <<text>>
  ELSE flush(FoldLeft(Pack, [parts |-> <<>>, current |-> <<>>], text)).parts

structuredChildren(i) ==
  LET want == [dieu |-> "khoan", khoan |-> "diem", section |-> "subsection", subsection |-> "paragraph",
               pasal |-> "ayat", ayat |-> "huruf"]
      Of(kind) == SelectSeq(buildChildrenByParent(i), LAMBDA c : rows[c].kind = kind)
  IN  IF rows[i].kind \notin DOMAIN want THEN <<>>
      ELSE IF rows[i].kind = "section" /\ Of("subsection") = <<>> THEN Of("paragraph")
      ELSE Of(want[rows[i].kind])

-----------------------------------------------------------------------------
emitChunk(cs, cite, prefix, text, i) ==
  IF (\E k \in DOMAIN cs : cs[k].content = text) \/ RoughTokenCount(text) < MinWords THEN cs
  ELSE Append(cs, [cite |-> cite, prefix |-> prefix, content |-> text, section |-> i])

emitSectionChunks(cs, cite, prefix, text, i) ==
  LET all   == IF labelOnlyChunk(i, text) THEN <<>> ELSE SplitLongContent(text)
      parts == IF Len(all) > 1 THEN SelectSeq(all, LAMBDA part : ~labelOnlyChunk(i, part)) ELSE all
  IN  IF Len(parts) = 1 THEN emitChunk(cs, cite, prefix, parts[1], i)
      ELSE FoldLeft(LAMBDA r, k : emitChunk(r, Append(cite, <<"doan", k, "", 0>>), prefix, parts[k], i),
                    cs, [k \in DOMAIN parts |-> k])

childLead(i, lead) == IF labelOnlyChunk(i, sectionOwnText(i)) THEN lead ELSE lead \o sectionOwnText(i)

RECURSIVE emitProvisionChunks(_, _, _, _, _)
emitProvisionChunks(cs, i, cite, prefix, lead) ==
  LET text == lead \o sectionTreeContent(i)
      kids == structuredChildren(i)
  IN  IF RoughTokenCount(text) <= Cap \/ kids = <<>> THEN emitSectionChunks(cs, cite, prefix, text, i)
      ELSE FoldLeft(LAMBDA r, c : emitProvisionChunks(r, c, cite \o sectionCitationPart(c), prefix, childLead(i, lead)),
                    cs, kids)

fallbackChunkSections ==
  LET all == [j \in DOMAIN rows |-> j]
      khoans == SelectSeq(all, LAMBDA j : rows[j].kind = "khoan")
  IN  IF khoans # <<>> THEN khoans ELSE SelectSeq(all, LAMBDA j : buildChildrenByParent(j) = <<>>)

-----------------------------------------------------------------------------
Init == rows = <<>> /\ at = 0 /\ chunks = <<>>

(* What the parsers stored, one section after the other.                   *)
AddSection(p) ==
  LET i == Len(rows) + 1
      n == Cardinality({j \in DOMAIN rows : rows[j].kind = p.kind /\ LevelOf[p.kind] = 1})
  IN  /\ at = 0 /\ i <= MaxRows
      /\ \E same \in {i} \cup {j \in DOMAIN rows : p.again /\ rows[j].body = p.body} :
           rows' = Append(rows, [kind |-> p.kind, num |-> p.num, head |-> p.head, body |-> p.body, whole |-> p.whole,
                                 same |-> same, ord |-> IF p.num = 0 THEN n + 1 ELSE p.num])
      /\ UNCHANGED <<at, chunks>>

\* The chunks of an earlier run are deleted in the transaction that writes the new ones.
DeleteChunks ==
  /\ at = 0 /\ rows # <<>>
  /\ at' = 1 /\ chunks' = <<>>
  /\ UNCHANGED rows

ChunkSection ==
  /\ at \in DOMAIN rows
  /\ chunks' = CASE rows[at].kind \in Articles ->
                      emitProvisionChunks(chunks, at, articleCitation(at), Names(enclosing(at)), <<>>)
                 [] rows[at].kind \in Appendices ->
                      emitSectionChunks(chunks, appendixCitation(at), Names(enclosing(at)), sectionOwnText(at), at)
                 [] OTHER -> chunks
  /\ at' = at + 1
  /\ UNCHANGED rows

Commit ==
  /\ at = Len(rows) + 1 /\ rows # <<>>
  /\ chunks' = IF chunks # <<>> THEN chunks
               ELSE FoldLeft(LAMBDA cs, i : emitSectionChunks(cs, sectionCitation(i), <<>>, sectionTreeContent(i), i),
                             chunks, fallbackChunkSections)
  /\ at' = Done
  /\ UNCHANGED rows

Next == \/ \E p \in Pieces : AddSection(p)
        \/ DeleteChunks \/ ChunkSection \/ Commit
Spec == Init /\ [][Next]_vars

-----------------------------------------------------------------------------
(* A search shows the article of a hit: the chunks whose citation is the   *)
(* article's or continues it, each without the lines it shares with the    *)
(* last one that shared any.                                               *)
sharedPrefixLen(a, b) == Max({0} \cup {n \in 1..Len(a) : n <= Len(b) /\ SubSeq(a, 1, n) = SubSeq(b, 1, n)})
assembleArticle(texts) ==
  IF texts = <<>> THEN <<>>
  ELSE FoldLeft(LAMBDA s, text : LET n == sharedPrefixLen(s.lead, text)
                                 IN  [out |-> s.out \o SubSeq(text, n + 1, Len(text)), lead |-> IF n = 0 THEN s.lead ELSE text],
                [out |-> Head(texts), lead |-> Head(texts)], Tail(texts)).out
Continues(cite, article) == Len(cite) >= Len(article) /\ SubSeq(cite, 1, Len(article)) = article
articleText(article) ==
  LET cs == SelectSeq(chunks, LAMBDA c : Continues(c.cite, article))
  IN  assembleArticle([k \in DOMAIN cs |-> cs[k].content])

-----------------------------------------------------------------------------
(* The prefix of a chunk names the containers of its section from the      *)
(* outside in, whatever the jurisdiction calls them.                       *)
OuterFirst ==
  \A k \in DOMAIN chunks :
    LET p == chunks[k].prefix
        PlaceOf(n) == Min({j \in DOMAIN rows : Titled(j) = n /\ j \in Ancestors(chunks[k].section)})
    IN  \A a, b \in DOMAIN p : a < b => PlaceOf(p[a]) < PlaceOf(p[b])

(* No chunk is heavier than the limit.                                     *)
CapKept == \A k \in DOMAIN chunks : RoughTokenCount(chunks[k].content) <= Cap

(* What the properties below leave out: a provision too heavy for a chunk  *)
(* is cut along its children of one kind and those of another are dropped  *)
(* (structuredChildren); of a label that is repeated the first copy is     *)
(* cited as the start of the others, and the second as a second part.      *)
TwoKinds(i) == \E j, k \in DOMAIN rows : parentOf(j) = i /\ parentOf(k) = i /\ rows[j].kind # rows[k].kind
Repeated(i) ==
  \E j \in DOMAIN rows \ {i} : parentOf(j) = parentOf(i) /\ rows[j].kind = rows[i].kind /\ rows[j].num = rows[i].num

(* A citation stands for one chunk, in a document that repeats no label.   *)
UniqueCitations ==
  (\A i \in DOMAIN rows : ~Repeated(i)) => \A j, k \in DOMAIN chunks : chunks[j].cite = chunks[k].cite => j = k

(* A line of a provision that fits in a chunk is found whole in one.       *)
Ends(line, tail) == Len(line) >= Len(tail) /\ SubSeq(line, Len(line) - Len(tail) + 1, Len(line)) = tail
Provisions == {i \in DOMAIN rows : rows[i].kind \in Articles \cup Appendices \/ \E j \in Ancestors(i) : rows[j].kind \in Articles}
LinesKept ==
  at = Done =>
    \A i \in {j \in Provisions : \A a \in Ancestors(j) : ~TwoKinds(a)} : \A l \in {k \in DOMAIN Body(i) : Len(Body(i)[k]) \in MinWords..(Cap - 1)} :
      \E k \in DOMAIN chunks : \E n \in DOMAIN chunks[k].content : Ends(chunks[k].content[n], Body(i)[l])

(* The article shown with a hit is the article: its lines of text, in      *)
(* order, each once; a line that is only a label or a heading may be left  *)
(* out.                                                                    *)
Clean(text) == SelectSeq(text, LAMBDA line : \E w \in Range(line) : w[1] = "w")
Cited == {i \in DOMAIN rows : rows[i].kind \in Articles /\ Len(articleCitation(i)) = 1}
ArticleVerbatim ==
  at = Done =>
    \A i \in {j \in Cited : ~Repeated(j) /\ \A k \in Range(Within(j)) : ~TwoKinds(k)} :
      Clean(articleText(articleCitation(i))) \in {<<>>, Clean(sectionTreeContent(i))}

(* A document with text has a chunk.                                       *)
Searchable ==
  at = Done /\ (\E i \in DOMAIN rows : Len(Words(Body(i))) >= MinWords) => chunks # <<>>
=============================================================================
