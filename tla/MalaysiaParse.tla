---------------------------- MODULE MalaysiaParse ----------------------------
(***************************************************************************)
(* ParseMalaysianAct: an Act, a BNM policy document or a BNM letter, read  *)
(* line by line into the provision tree.                                   *)
(*                                                                         *)
(* The text is chosen while it is read.  A raw line is one or two pieces   *)
(* (a marginal note merged with the heading that follows it); a piece has  *)
(* the shape its pattern gives it, a number n with a letter suffix, and    *)
(* what follows on the line.  "real" says what the piece is in the         *)
(* document: a heading, or a list item, footnote or cross-reference that   *)
(* has the same shape.  form is the format that the tests at the end of    *)
(* the text select.                                                        *)
(***************************************************************************)
EXTENDS SectionTree

CONSTANTS Forms,        \* the formats of this instance
          Pieces,       \* the pieces a line may be made of
          Merged,       \* whether lines are merged
          Skips,        \* how far a number that is not a heading is from the next one
          Enacting,     \* whether there may be front matter above an enacting clause or a PART
          MaxLines      \* bound: lines of a text

VARIABLES form, front, p, lines, real, returned
vars == <<form, front, p, lines, real, returned>>

\* The patterns a line may match: of an Act, a policy document, a letter; "text" matches none.
ActShapes == {"noise", "enacting", "part", "chapter", "number", "subsec", "para", "schedule", "text"}
PolicyShapes == {"part", "sg", "marker", "pdchapter", "subpara", "appendix", "noise", "toc", "text"}
LetterShapes == {"number", "appendix", "bareappendix", "noise", "text"}
PiecesAssumption == \A l \in Pieces : l.shape \in ActShapes \cup PolicyShapes \cup LetterShapes

Level == [part |-> 0, chapter |-> 1, section |-> 2, subsection |-> 3, paragraph |-> 4, subparagraph |-> 5]

\* The parser, with the fields of the two other state machines.
newParser == [t |-> root, lastSec |-> 0, curSec |-> <<0, "">>, lastPara |-> "", inSched |-> FALSE,
              inAppendix |-> FALSE, lastApp |-> 0]

Push(s, kind, level, seg, i) == [s EXCEPT !.t = push(@, kind, level, seg, 0, i)]
Content(s, i) == [s EXCEPT !.t = appendContent(@, i)]
Heading(s, i) == [s EXCEPT !.t = setHeading(@, i)]
inSection(s) == "section" \in Kinds(s.t)

\* The next number, or an insert at the same one.
InSequence(n, suffix, last) == n = last + 1 \/ (suffix # "" /\ n = last)
acceptSection(s, n, suffix) == ~s.inSched /\ InSequence(n, suffix, s.lastSec)

Roman == {"i", "ii", "iii", "v", "x"}
Preceding == [i |-> "h", v |-> "u", x |-> "w"]
isSubparagraph(tok, last) == tok \in Roman /\ (tok \in DOMAIN Preceding => last # Preceding[tok])

------------------------------------------------------------------------------
(* An Act.                                                                 *)

consumeInline(s, l, i) ==
  IF l.rest = "subsec" THEN Content(Push(s, "subsection", Level.subsection, Seg("subsection", 1, ""), i), i)
  ELSE IF l.rest = "text" THEN Content(s, i) ELSE s

consumeSubsection(s, l, i) ==
  Content(Push([s EXCEPT !.lastPara = ""], "subsection", Level.subsection, Seg("subsection", l.n, ""), i), i)

consumeParagraph(s, l, i) ==
  IF isSubparagraph(l.tok, s.lastPara)
  THEN Content(Push(s, "paragraph", Level.subparagraph, Seg("subparagraph", 0, l.tok), i), i)
  ELSE Content(Push([s EXCEPT !.lastPara = l.tok], "paragraph", Level.paragraph, Seg("paragraph", 0, l.tok), i), i)

consume(s, l, i) ==
  CASE l.shape = "schedule" -> Push([s EXCEPT !.inSched = TRUE], "schedule", Level.part, Seg("schedule", l.n, ""), i)
    [] l.shape # "schedule" /\ s.inSched -> Content(s, i)
    [] l.shape = "part" /\ ~s.inSched -> Push(s, "part", Level.part, Seg("part", l.n, ""), i)
    [] l.shape = "chapter" /\ ~s.inSched -> Push(s, "chapter", Level.chapter, Seg("chapter", l.n, ""), i)
    [] l.shape = "number" /\ acceptSection(s, l.n, l.suffix) ->
         consumeInline(Push([s EXCEPT !.lastSec = l.n, !.lastPara = ""], "section", Level.section,
                            Seg("section", l.n, l.suffix), i), l, i)
    [] l.shape = "subsec" /\ ~s.inSched /\ inSection(s) -> consumeSubsection(s, l, i)
    [] l.shape = "para" /\ ~s.inSched /\ inSection(s) -> consumeParagraph(s, l, i)
    [] OTHER -> Content(s, i)

------------------------------------------------------------------------------
(* A policy document: chapters are sections, their paragraphs content.     *)

openPDChapter(s, l, i) ==
  IF <<l.n, l.suffix>> # s.curSec /\ acceptSection(s, l.n, l.suffix)
  THEN Push([s EXCEPT !.lastSec = l.n, !.curSec = <<l.n, l.suffix>>], "section", Level.section, Seg("section", l.n, l.suffix), i)
  ELSE s

\* A heading is short and does not end in a full stop.
isPDHeadingShaped(l) == l.shaped

acceptPDAppendix(s, l) == InSequence(l.n, l.suffix, s.lastApp) /\ (s.lastApp > 0 \/ isPDHeadingShaped(l))

consumePD(s, l, i) ==
  CASE l.shape \in {"toc", "noise"} -> s
    [] l.shape = "appendix" /\ acceptPDAppendix(s, l) ->
         Heading(Push([s EXCEPT !.lastApp = l.n, !.inAppendix = TRUE], "schedule", Level.part,
                      Seg("appendix", l.n, l.suffix), i), i)
    [] l.shape \notin {"toc", "noise"} /\ ~(l.shape = "appendix" /\ acceptPDAppendix(s, l)) /\ s.inAppendix -> Content(s, i)
    [] l.shape = "part" /\ ~s.inAppendix -> Heading(Push(s, "part", Level.part, Seg("part", l.n, ""), i), i)
    [] l.shape = "pdchapter" /\ ~s.inAppendix /\ isPDHeadingShaped(l) /\ acceptSection(s, l.n, l.suffix) ->
         Heading(Push([s EXCEPT !.lastSec = l.n, !.curSec = <<l.n, l.suffix>>], "section", Level.section,
                      Seg("section", l.n, l.suffix), i), i)
    [] l.shape \in {"sg", "subpara"} /\ ~s.inAppendix -> Content(openPDChapter(s, l, i), i)
    [] OTHER -> Content(s, i)

------------------------------------------------------------------------------
(* A letter: bare numbered paragraphs, from any number on.                 *)

acceptLetterPara(s, n) == n > 0 /\ (s.lastSec = 0 \/ n = s.lastSec + 1)

consumeLetter(s, l, i) ==
  CASE l.shape = "noise" -> s
    [] l.shape = "appendix" ->
         Heading(Push([s EXCEPT !.inAppendix = TRUE], "schedule", Level.part, Seg("appendix", l.n, l.suffix), i), i)
    [] l.shape = "bareappendix" /\ ~s.inAppendix ->
         LET q == Push([s EXCEPT !.inAppendix = TRUE], "schedule", Level.part, Seg("appendix", 1, ""), i)
         IN IF l.rest = "" THEN q ELSE Heading(q, i)
    [] l.shape \notin {"noise", "appendix"} /\ s.inAppendix -> Content(s, i)
    [] l.shape = "number" /\ ~s.inAppendix /\ l.suffix = "" /\ acceptLetterPara(s, l.n) ->
         LET q == Push([s EXCEPT !.lastSec = l.n], "section", Level.section, Seg("section", l.n, ""), i)
         IN IF l.rest = "" THEN q ELSE Content(q, i)
    [] OTHER -> Content(s, i)

------------------------------------------------------------------------------
Count(shapes) == Cardinality({i \in DOMAIN lines : \E k \in DOMAIN lines[i] : lines[i][k].shape \in shapes})
isBNMPolicyDoc == Count({"sg", "marker"}) >= 3
\* What the Act machine makes of the lines read.
AsAct == FoldLeft(LAMBDA s, i : FoldLeft(LAMBDA r, l : consume(r, l, i), s, lines[i]), newParser, [i \in DOMAIN lines |-> i])

(* The document: the headings of the real structure come in sequence.  A   *)
(* list item may happen to carry the next number: what it then does to the *)
(* sections is another question, and "misread" remembers that it was read. *)
RealNumber(l) == ~real.annex /\ InSequence(l.n, l.suffix, real.sec) /\ (l.suffix # "" => l.n = real.sec /\ l.suffix # real.suffix)
Misread(l) == \E k \in Skips : l.n = real.sec + 1 + k /\ l.suffix = ""
Plausible(l) ==
  CASE l.shape = "number" -> IF l.real THEN RealNumber(l) ELSE Misread(l) \/ real.annex
    [] l.shape = "pdchapter" -> IF l.real THEN RealNumber(l) /\ l.shaped ELSE ~l.shaped
    [] l.shape \in {"sg", "subpara"} -> RealNumber(l) \/ (real.open /\ ~real.annex /\ <<l.n, l.suffix>> = <<real.sec, real.suffix>>)
    [] l.shape = "appendix" -> IF l.real THEN InSequence(l.n, l.suffix, real.app) /\ l.shaped
                               ELSE ~l.shaped /\ (real.app = 0 \/ ~InSequence(l.n, l.suffix, real.app))
    [] l.shape = "part" -> form = "pd" => lines = <<>> \/ \E i \in DOMAIN lines : \E k \in DOMAIN lines[i] : lines[i][k].shape = "part"
    [] OTHER -> TRUE
Reals(r, l) ==
  CASE l.shape = "number" /\ ~l.real ->
         [r EXCEPT !.misread = @ \/ (~r.annex /\ InSequence(l.n, l.suffix, r.sec))]
    [] l.shape = "number" /\ l.real -> [r EXCEPT !.sec = l.n, !.suffix = l.suffix, !.open = TRUE]
    [] l.shape \in {"pdchapter", "sg", "subpara"} /\ l.real -> [r EXCEPT !.sec = l.n, !.suffix = l.suffix, !.open = TRUE]
    [] l.shape = "part" -> [r EXCEPT !.open = FALSE]
    [] l.shape = "schedule" -> [r EXCEPT !.annex = TRUE]
    [] l.shape \in {"appendix", "bareappendix"} /\ l.real -> [r EXCEPT !.annex = TRUE, !.app = l.n]
    [] OTHER -> r

Init ==
  /\ form \in Forms
  /\ front \in (IF Enacting /\ form # "letter" THEN BOOLEAN ELSE {FALSE})
  /\ p = newParser /\ lines = <<>> /\ returned = FALSE /\ real = [sec |-> 0, open |-> FALSE, suffix |-> "", app |-> 0, annex |-> FALSE, misread |-> FALSE]

\* myBodyLines, parseBNMPolicyDoc: everything above the enacting clause or the first PART is cut.
Cut(l) ==
  /\ front /\ ~returned /\ Len(lines) < MaxLines
  /\ front' = (l.shape # IF form = "act" THEN "enacting" ELSE "part")
  /\ lines' = Append(lines, IF form = "pd" /\ ~front' THEN <<l>> ELSE <<>>)
  /\ p' = IF form = "pd" /\ ~front' THEN consumePD(p, l, Len(lines')) ELSE p
  /\ UNCHANGED <<form, real, returned>>

ConsumeBy(s, l, i) ==
  CASE form = "act" -> consume(s, l, i) [] form = "pd" -> consumePD(s, l, i) [] form = "letter" -> consumeLetter(s, l, i)

ReadLine(raw) ==
  /\ ~front /\ ~returned /\ Len(lines) < MaxLines
  /\ Plausible(raw[1]) /\ (Len(raw) > 1 => Plausible(raw[2]))
  /\ lines' = Append(lines, raw)
  /\ p' = FoldLeft(LAMBDA s, l : ConsumeBy(s, l, Len(lines')), p, raw)
  /\ real' = FoldLeft(Reals, real, raw)
  /\ form = "act" => ~isBNMPolicyDoc'
  /\ form = "letter" => ~isBNMPolicyDoc' /\ Roots(AsAct'.t) = {}
  /\ UNCHANGED <<form, front, returned>>

(* The end of the text: a policy document has three markers; a letter is   *)
(* what the Act machine makes nothing of and has three numbered lines.     *)
Returns ==
  /\ ~front /\ ~returned
  /\ form = "pd" => isBNMPolicyDoc
  /\ form = "letter" => Count({"number"}) >= 3
  /\ returned' = TRUE
  /\ UNCHANGED <<form, front, p, lines, real>>

RawLines == {<<l>> : l \in Pieces}
            \cup (IF Merged THEN {<<a, b>> : a \in {x \in Pieces : x.shape = "text"}, b \in {x \in Pieces : x.shape = "number"}} ELSE {})
Next == \/ Returns
        \/ \E l \in Pieces : Cut(l)
        \/ \E raw \in RawLines : ReadLine(raw)
Spec == Init /\ [][Next]_vars

------------------------------------------------------------------------------
(* uniqueSeg: "every child of parent has a distinct last path segment      *)
(* (hence a unique CitationPath)"; the rows are upserted by that path, so  *)
(* a path that comes twice loses the text of the first node.               *)
UniquePaths == Unique(p.t)

(* The open frames are the last branch of the tree and levels deepen: a    *)
(* line can only be added to the provision it stands in.                   *)
RightSpine == Spine(p.t) /\ Once(p.t)

(* acceptSection: section numbers found are headings of the document, and  *)
(* each heading read is found, whatever lists, references and schedules    *)
(* with their own numbers stand between them, as long as no list item      *)
(* carries the very next number.  Such an item opens a section; whatever   *)
(* the text, the sections opened are numbered one after the other.         *)
Opened == {n \in DOMAIN p.t.nodes : p.t.nodes[n].kind = "section"}
Headings == {i \in DOMAIN lines : \E k \in DOMAIN lines[i] : lines[i][k].shape \in {"number", "pdchapter"} /\ lines[i][k].real}
Number(n) == SubSeq(Last(p.t.nodes[n].path).name, 2, 3)
SectionsAreReal ==
  form = "act" =>
    /\ ~real.misread => {p.t.nodes[n].line : n \in Opened} = Headings
    /\ \A n \in Opened : InSequence(Number(n)[1], Number(n)[2], Max({0} \cup {Number(m)[1] : m \in {k \in Opened : k < n}}))

(* isSubparagraph: a single i, v or x is an alphabetic paragraph only      *)
(* where it continues the letters of its own section or subsection.        *)
Letter(n) == Last(p.t.nodes[n].path).name[3]
AlphaRun ==
  \A n \in DOMAIN p.t.nodes :
    p.t.nodes[n].level = Level.paragraph /\ Letter(n) \in DOMAIN Preceding =>
      \E m \in Children(p.t, p.t.nodes[n].parent) :
        m < n /\ p.t.nodes[m].level = Level.paragraph /\ Letter(m) = Preceding[Letter(n)]

(* openPDChapter: a standard or guidance paragraph stands in the chapter   *)
(* of its number, one chapter per number, also when the chapter's heading  *)
(* was lost.                                                               *)
OwnChapter ==
  form = "pd" =>
    /\ \A m, n \in Opened : Number(m) = Number(n) => m = n
    /\ \A n \in DOMAIN p.t.nodes : \A i \in TextOf(p.t, {n}) : \A k \in DOMAIN lines[i] :
         lines[i][k].shape \in {"sg", "subpara"} =>
           p.t.nodes[n].kind = "section" /\ Number(n) = <<lines[i][k].n, lines[i][k].suffix>>

(* The transition into the appendices must look like a heading: a cross-   *)
(* reference "would otherwise swallow the rest of the body".               *)
BodyKept == form = "pd" => (p.inAppendix <=> real.annex)

(* The text of every line after the first heading is in the tree: as a     *)
(* heading or as content, of one node (RightSpine).                        *)
HasText(l) == l.rest # "" /\ l.shape \notin {"toc", "noise", "schedule", "chapter"} \cup (IF form = "act" THEN {"part"} ELSE {})
TextKept ==
  \A i \in DOMAIN lines :
    /\ \E k \in DOMAIN lines[i] : HasText(lines[i][k])
    /\ \E n \in DOMAIN p.t.nodes : p.t.nodes[n].line < i
    => i \in TextOf(p.t, DOMAIN p.t.nodes)
=============================================================================
