--------------------------- MODULE DocxDerivation ---------------------------
(***************************************************************************)
(* The two readings of one DOCX original.  The converter child inventories *)
(* the ZIP members, checks every XML part against one token budget and     *)
(* turns the paragraphs of the body into blocks (docxBlocksBounded).  The  *)
(* validating child inventories the members again and streams the body     *)
(* once more, comparing each paragraph with the block that claims it       *)
(* (validateDOCXSource, validateDOCXParagraphSource).                      *)
(*                                                                         *)
(* A token of the body is known by its ordinal; a piece of text is the     *)
(* ordinal it came from.                                                   *)
(***************************************************************************)
EXTENDS Integers, Sequences, FiniteSets, SequencesExt

CONSTANTS Packages,      \* sequences of members, in the order of the ZIP directory
          Tokens,        \* tokens a body may consist of
          MaxTokens,     \* bound: tokens of a body
          MaxItems, Members, DepthLimit, Expanded, Ratio, OutputBytes

VARIABLES package, input, conv, pc
vars == <<package, input, conv, pc>>

Fail(s) == [s EXCEPT !.ok = FALSE]
finding(s, reason, n) ==
  IF Len(s.findings) >= MaxItems THEN Fail(s) ELSE [s EXCEPT !.findings = Append(@, <<reason, n>>)]
Note(s, cond, reason, n) == IF cond /\ s.ok THEN finding(s, reason, n) ELSE s

\* A member is a regular file with a safe, fresh name; a directory is skipped.
safeMember(seen, m) == m.safe /\ m.name \notin seen
tooDense(m) == m.size > 0 /\ (m.packed = 0 \/ (m.size - 1) \div m.packed >= Ratio)

-----------------------------------------------------------------------------
(* The converter. *)

NewConversion == [ok |-> TRUE, blocks |-> <<>>, findings |-> <<>>, expanded |-> Expanded, tokens |-> MaxItems,
                  seen |-> {}, depth |-> 0, pDepth |-> 0, textDepth |-> 0, start |-> 0, text |-> <<>>,
                  document |-> FALSE]

\* Every XML part spends the one token budget, whether or not it is supported.
checkDOCXXML(s, m) ==
  IF m.xml > s.tokens \/ m.deep > DepthLimit \/ m.directive THEN Fail(s) ELSE [s EXCEPT !.tokens = @ - m.xml]

convertMember(s, m) ==
  LET s1 == [s EXCEPT !.seen = @ \cup {m.name}, !.expanded = @ - m.size]
  IN  IF ~s.ok THEN s
      ELSE IF ~safeMember(s.seen, m) THEN Fail(s)
      ELSE IF m.dir THEN [s EXCEPT !.seen = @ \cup {m.name}]
      ELSE IF m.size > s.expanded \/ tooDense(m) \/ m.archive THEN Fail(s)
      ELSE LET s2 == checkDOCXXML(s1, m)
           IN  Note(s2, m.name # "document", "MEMBER", m.name)

convertPackage(p) ==
  LET s == FoldLeft(convertMember, NewConversion, p)
  IN  IF Len(p) > Members \/ ~\E i \in DOMAIN p : p[i].name = "document" /\ p[i].size > 0 THEN Fail(s) ELSE s

\* A word element inside the body.
wordStart(s, t, n) ==
  LET d == s.depth IN
  CASE t.name = "document" -> IF d # 1 \/ s.document THEN Fail(s) ELSE [s EXCEPT !.document = TRUE]
    [] t.name \in {"body", "r"} -> s
    [] t.name = "p" -> IF s.pDepth # 0 THEN Fail(s) ELSE [s EXCEPT !.pDepth = d, !.start = n, !.text = <<>>]
    [] t.name = "t" -> IF s.pDepth = 0 \/ s.textDepth # 0 THEN Fail(s) ELSE [s EXCEPT !.textDepth = d]
    [] t.name \in {"tab", "br"} ->
         LET s1 == Note(s, t.attr, "GEOMETRY", n)
         IN  IF ~s1.ok \/ s.pDepth = 0 THEN Fail(s1) ELSE [s1 EXCEPT !.text = Append(@, n)]
    [] OTHER -> finding(s, "CONSTRUCT", n)

charData(s, n) ==
  IF s.textDepth = 0 THEN finding(s, "TEXT", n)
  ELSE IF 1 > OutputBytes - Len(s.text) THEN Fail(s) ELSE [s EXCEPT !.text = Append(@, n)]

\* b.add: the aggregate text, the number of blocks and the anchor of the paragraph.
addParagraph(s, n) ==
  LET bytes == FoldLeft(LAMBDA k, b : k + Len(b.text), 0, s.blocks)
  IN  IF Len(s.blocks) >= MaxItems \/ Len(s.text) > OutputBytes - bytes THEN Fail(s)
      ELSE [s EXCEPT !.pDepth = 0,
                     !.blocks = Append(@, [kind |-> "paragraph", object |-> Len(@), start |-> s.start, end |-> n,
                                           token |-> s.start, text |-> s.text])]

endElement(s, n) ==
  LET s1 == [s EXCEPT !.textDepth = IF @ = s.depth THEN 0 ELSE @]
      s2 == IF s.pDepth = s.depth THEN addParagraph(s1, n) ELSE s1
  IN  IF s.depth = 0 THEN Fail(s) ELSE [s2 EXCEPT !.depth = @ - 1]

docxToken(s, t, n) ==
  CASE t.type = "start" ->
         LET s1 == [s EXCEPT !.depth = @ + 1]
         IN  IF s1.depth > DepthLimit THEN Fail(s1)
             ELSE IF t.name = "foreign" THEN finding(s1, "NAMESPACE", n) ELSE wordStart(s1, t, n)
    [] t.type = "end" -> endElement(s, n)
    [] t.type = "chars" -> charData(s, n)
    [] t.type = "blank" -> s
    [] OTHER -> Fail(s)

docxBlocksBounded(s) ==
  LET s1 == IF ~s.document \/ s.blocks = <<>> \/ s.depth # 0 THEN Fail(s) ELSE s
      s2 == Note(s1, TRUE, "GEOMETRY_UNKNOWN", 0)
  IN  Note(s2, TRUE, "FIDELITY_UNQUALIFIED", 0)

-----------------------------------------------------------------------------
(* The validator. *)

add(g, reason, n) ==
  IF g.overflow THEN g
  ELSE IF Len(g.list) >= MaxItems THEN [g EXCEPT !.overflow = TRUE] ELSE [g EXCEPT !.list = Append(@, <<reason, n>>)]
Reject(v) == [v EXCEPT !.ok = FALSE]
NewScan == [ok |-> TRUE, gaps |-> [list |-> <<>>, overflow |-> FALSE], remaining |-> Expanded, seen |-> {},
            depth |-> 0, pDepth |-> 0, textDepth |-> 0, index |-> 1, start |-> 0, text |-> <<>>, document |-> FALSE]

inventoryMember(v, m) ==
  IF ~v.ok \/ ~safeMember(v.seen, m) THEN Reject(v)
  ELSE IF m.dir THEN [v EXCEPT !.seen = @ \cup {m.name}]
  ELSE IF m.size > v.remaining \/ tooDense(m) THEN Reject(v)
  ELSE [v EXCEPT !.seen = @ \cup {m.name}, !.remaining = @ - m.size,
                 !.gaps = IF m.name = "document" THEN @ ELSE add(@, "MEMBER", m.name)]

\* The block that claims the paragraph ending here has its place, its anchors and its text.
matchesBlock(v, blocks, n) ==
  /\ v.index <= Len(blocks)
  /\ LET b == blocks[v.index] IN
     /\ b.kind = "paragraph" /\ b.object = v.index - 1
     /\ b.start = v.start /\ b.end = n /\ b.token = v.start /\ b.text = v.text

compareStart(v, t, n) ==
  LET d == v.depth IN
  CASE t.name = "document" -> IF d # 1 \/ v.document THEN Reject(v) ELSE [v EXCEPT !.document = TRUE]
    [] t.name \in {"body", "r"} -> v
    [] t.name = "p" -> IF v.pDepth # 0 THEN Reject(v) ELSE [v EXCEPT !.pDepth = d, !.start = n, !.text = <<>>]
    [] t.name = "t" -> IF v.pDepth = 0 \/ v.textDepth # 0 THEN Reject(v) ELSE [v EXCEPT !.textDepth = d]
    [] t.name \in {"tab", "br"} ->
         LET v1 == [v EXCEPT !.gaps = IF t.attr THEN add(@, "GEOMETRY", n) ELSE @]
         IN  IF v.pDepth = 0 THEN Reject(v1) ELSE [v1 EXCEPT !.text = Append(@, n)]
    [] OTHER -> [v EXCEPT !.gaps = add(@, "CONSTRUCT", n)]

compareEnd(v, blocks, n) ==
  LET v1 == [v EXCEPT !.textDepth = IF @ = v.depth THEN 0 ELSE @]
      v2 == IF v.pDepth # v.depth THEN v1
            ELSE IF matchesBlock(v1, blocks, n) THEN [v1 EXCEPT !.index = @ + 1, !.pDepth = 0] ELSE Reject(v1)
  IN  IF v.depth = 0 THEN Reject(v) ELSE [v2 EXCEPT !.depth = @ - 1]

compareToken(v, blocks, t, n) ==
  LET v1 ==
    CASE t.type = "start" ->
           LET s == [v EXCEPT !.depth = @ + 1]
           IN  IF s.depth > DepthLimit THEN Reject(s)
               ELSE IF t.name = "foreign" THEN [s EXCEPT !.gaps = add(@, "NAMESPACE", n)] ELSE compareStart(s, t, n)
      [] t.type = "end" -> compareEnd(v, blocks, n)
      [] t.type = "chars" -> IF v.textDepth = 0 THEN [v EXCEPT !.gaps = add(@, "TEXT", n)]
                             ELSE [v EXCEPT !.text = Append(@, n)]
      [] t.type = "blank" -> v
      [] OTHER -> Reject(v)
  IN  IF ~v.ok THEN v ELSE IF Len(v1.text) > OutputBytes THEN Reject(v1) ELSE v1

validateDOCXParagraphSource(v, blocks) ==
  LET w == FoldLeft(LAMBDA acc, n : compareToken(acc, blocks, input[n], n), v, [i \in DOMAIN input |-> i])
  IN  IF Len(input) >= MaxItems \/ w.depth # 0 \/ w.index # Len(blocks) + 1 \/ ~w.document THEN Reject(w) ELSE w

validateDOCXSource(blocks) ==
  LET v == FoldLeft(inventoryMember, NewScan, package)
  IN  IF Len(package) > Members \/ ~v.ok THEN Reject(v) ELSE validateDOCXParagraphSource(v, blocks)

Count(seq, f) == Cardinality({i \in DOMAIN seq : seq[i] = f})
validateSourceClaims(blocks, findings) ==
  LET v == validateDOCXSource(blocks)
      g == add(add(v.gaps, "GEOMETRY_UNKNOWN", 0), "FIDELITY_UNQUALIFIED", 0)
  IN  /\ v.ok /\ blocks # <<>> /\ ~g.overflow /\ Len(findings) = Len(g.list)
      /\ {<<f, Count(findings, f)>> : f \in Range(findings)} = {<<f, Count(g.list, f)>> : f \in Range(g.list)}

-----------------------------------------------------------------------------
Init == /\ package \in Packages /\ input = <<>> /\ conv = convertPackage(package) /\ pc = "scan"

\* The next token of the body; a body that goes on can still be closed within MaxTokens.
Read(t) ==
  /\ pc = "scan" /\ Len(input) < MaxTokens /\ conv.ok
  /\ LET n == Len(input) + 1 IN
     /\ input' = Append(input, t)
     /\ conv' = IF n > conv.tokens \/ n > MaxItems THEN Fail(conv) ELSE docxToken(conv, t, n)
     /\ conv'.ok => conv'.depth <= MaxTokens - n
  /\ UNCHANGED <<package, pc>>

Finish ==
  /\ pc = "scan" /\ conv.ok
  /\ conv' = IF Len(input) >= MaxItems THEN Fail(conv) ELSE docxBlocksBounded(conv)
  /\ pc' = "done" /\ UNCHANGED <<package, input>>

Next == (\E t \in Tokens : Read(t)) \/ Finish
Spec == Init /\ [][Next]_vars

-----------------------------------------------------------------------------
(* Properties. *)

Converted == pc = "done" /\ conv.ok

\* The counters stay within their limits: no negative budget, no text inside no paragraph.
TypeOK ==
  conv.ok => /\ conv.expanded >= 0 /\ conv.tokens >= 0 /\ conv.depth \in 0..DepthLimit
             /\ conv.pDepth <= conv.depth /\ conv.textDepth <= conv.depth
             /\ conv.textDepth # 0 => conv.pDepth # 0 /\ conv.pDepth < conv.textDepth
             /\ Len(conv.findings) <= MaxItems /\ Len(conv.blocks) <= MaxItems

\* The document and the findings of a conversion are what the validator derives itself.
ValidatorAgrees == Converted => validateSourceClaims(conv.blocks, conv.findings)

Cut(s, i) == SubSeq(s, 1, i - 1) \o SubSeq(s, i + 1, Len(s))
Altered(b) ==
  {Cut(b, i) : i \in DOMAIN b} \cup {Append(b, b[i]) : i \in DOMAIN b}
  \cup {[b EXCEPT ![i] = b[i + 1], ![i + 1] = b[i]] : i \in 1..(Len(b) - 1)}
  \cup {[b EXCEPT ![i].text = b[i + 1].text, ![i + 1].text = b[i].text] : i \in 1..(Len(b) - 1)}
  \cup UNION {{[b EXCEPT ![i].kind = "heading"], [b EXCEPT ![i].start = @ + 1], [b EXCEPT ![i].end = @ - 1],
               [b EXCEPT ![i].token = @ + 1], [b EXCEPT ![i].object = @ + 1], [b EXCEPT ![i].text = Append(@, 1)],
               [b EXCEPT ![i].text = Reverse(@)]} : i \in DOMAIN b}

\* No other document passes: blocks dropped, repeated or swapped, another kind, anchor, object
\* name or text, a finding left out.
AlteredIsRejected ==
  Converted =>
    /\ \A b \in Altered(conv.blocks) \ {conv.blocks} : ~validateSourceClaims(b, conv.findings)
    /\ \A i \in DOMAIN conv.findings : ~validateSourceClaims(conv.blocks, Cut(conv.findings, i))

\* An independent reading: token s opens an element that is still open at token i.
Within(s, i) ==
  /\ s < i /\ input[s].type = "start"
  /\ \A k \in s..(i - 1) : Cardinality({j \in s..k : input[j].type = "start"}) > Cardinality({j \in s..k : input[j].type = "end"})
In(name, i) == \E s \in DOMAIN input : input[s].name = name /\ Within(s, i)
Textual(i) == IF input[i].type = "chars" THEN In("t", i)
              ELSE input[i].type = "start" /\ input[i].name \in {"tab", "br"}

\* Every tab, break and piece of text of a w:t is in the block of the paragraph around it, in
\* order; text elsewhere has a finding.
NothingLost ==
  Converted =>
    /\ \A b \in Range(conv.blocks) : \A i \in 1..(Len(b.text) - 1) : b.text[i] < b.text[i + 1]
    /\ \A i \in DOMAIN input :
         LET Holders == {o \in DOMAIN conv.blocks : i \in Range(conv.blocks[o].text)}
         IN  /\ Cardinality(Holders) = IF Textual(i) THEN 1 ELSE 0
             /\ \A o \in Holders : Within(conv.blocks[o].start, i) /\ input[conv.blocks[o].start].name = "p"
             /\ input[i].type = "chars" /\ Holders = {} => <<"TEXT", i>> \in Range(conv.findings)

\* What a conversion expanded and read is within the limits, over all members together.
PackageBounded ==
  Converted =>
    LET Files == {i \in DOMAIN package : ~package[i].dir}
        Sum(f(_)) == FoldLeft(LAMBDA k, i : k + (IF i \in Files THEN f(package[i]) ELSE 0), 0, [i \in DOMAIN package |-> i])
    IN  /\ Sum(LAMBDA m : m.size) <= Expanded /\ Sum(LAMBDA m : m.xml) + Len(input) <= MaxItems
        /\ \A i \in Files : package[i].size <= package[i].packed * Ratio
        /\ \A i, j \in DOMAIN package : package[i].name = package[j].name => i = j
=============================================================================
