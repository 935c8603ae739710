--------------------------- MODULE SingaporeParse ----------------------------
(***************************************************************************)
(* ParseSingaporeAct: an Act of Singapore Statutes Online, or a MAS notice *)
(* or guideline, read line by line into the provision tree.                *)
(*                                                                         *)
(* The text is chosen while it is read; "real" says whether a numbered     *)
(* line is a heading of the document.  form is what the tests on the whole *)
(* text select: an Act has two sections with an em dash or is no notice.   *)
(***************************************************************************)
EXTENDS SectionTree

CONSTANTS Form,         \* "act" or "mas"
          Pieces,       \* the lines a text may be made of
          Enacting,     \* whether there may be front matter above the enacting clause
          Skips,        \* how far a number that is not a heading is from the next one
          MaxLines      \* bound: lines of a text

VARIABLES front, inTOC, p, lines, real, returned
vars == <<front, inTOC, p, lines, real, returned>>

\* The patterns a line may match: of an Act, of a notice; "tocends" is where an arrangement ends.
ActShapes == {"toc", "tocends", "enacting", "noise", "part", "division", "number", "subsec", "para", "schedule", "text"}
NoticeShapes == {"roman", "dot", "number", "subsec", "para", "title", "heading", "symbols", "text"}
PiecesAssumption == \A l \in Pieces : l.shape \in ActShapes \cup NoticeShapes

Level == [part |-> 0, chapter |-> 1, section |-> 2, subsection |-> 3, paragraph |-> 4, subparagraph |-> 5]
Roman == {"i", "ii", "iii", "v", "x"}
Preceding == [i |-> "h", v |-> "u", x |-> "w"]

------------------------------------------------------------------------------
(* An Act (sgParser).                                                      *)

sgParser == [t |-> root, last |-> 0, lastPara |-> "", inSched |-> FALSE]
sgPush(s, kind, level, seg, i) == [s EXCEPT !.t = push(@, kind, level, seg, 0, i)]
sgAppendContent(s, i) == [s EXCEPT !.t = appendContent(@, i)]
sgSetHeading(s, i) == [s EXCEPT !.t = setHeading(@, i)]
sgInSection(s) == "section" \in Kinds(s.t)

\* An inserted section is not recognised.
MsgAcceptPlain(s, l) == ~s.inSched /\ l.n = s.last + 1
sgAcceptSection(s, l) == ~s.inSched /\ (l.n = s.last + 1 \/ (l.suffix # "" /\ l.n = s.last))
sgIsSubparagraph(s, tok) == tok \in Roman /\ (tok \in DOMAIN Preceding => s.lastPara # Preceding[tok])

sgConsumeInline(s, l, i) ==
  CASE l.rest = "subsec" -> sgAppendContent(sgPush(s, "subsection", Level.subsection, Seg("subsection", 1, ""), i), i)
    [] l.rest \in {"text", "para"} -> sgAppendContent(s, i)
    [] l.rest = "" -> s

sgConsumePara(s, l, i) ==
  IF sgIsSubparagraph(s, l.tok)
  THEN sgAppendContent(sgPush(s, "paragraph", Level.subparagraph, Seg("subparagraph", 0, l.tok), i), i)
  ELSE sgAppendContent(sgPush([s EXCEPT !.lastPara = l.tok], "paragraph", Level.paragraph, Seg("paragraph", 0, l.tok), i), i)

sgTitled(s, l, i) == IF l.rest = "" THEN s ELSE sgSetHeading(s, i)

sgConsume(s, l, i) ==
  CASE l.shape = "schedule" -> sgPush([s EXCEPT !.inSched = TRUE], "schedule", Level.part, Seg("schedule", l.n, ""), i)
    [] l.shape # "schedule" /\ s.inSched -> sgAppendContent(s, i)
    [] l.shape = "part" /\ ~s.inSched -> sgTitled(sgPush(s, "part", Level.part, Seg("part", l.n, ""), i), l, i)
    [] l.shape = "division" /\ ~s.inSched -> sgTitled(sgPush(s, "division", Level.chapter, Seg("division", l.n, ""), i), l, i)
    [] l.shape = "number" /\ sgAcceptSection(s, l) ->
         sgConsumeInline(sgPush([s EXCEPT !.last = l.n, !.lastPara = ""], "section", Level.section, Seg("section", l.n, l.suffix), i), l, i)
    [] l.shape = "subsec" /\ ~s.inSched /\ sgInSection(s) ->
         sgAppendContent(sgPush([s EXCEPT !.lastPara = ""], "subsection", Level.subsection, Seg("subsection", l.n, ""), i), i)
    [] l.shape = "para" /\ ~s.inSched /\ sgInSection(s) -> sgConsumePara(s, l, i)
    [] OTHER -> sgAppendContent(s, i)

------------------------------------------------------------------------------
(* A notice (masParser): headings at the root, numbered paragraphs below.  *)

masParser == [t |-> root, last |-> 0, lastPara |-> "", inSched |-> FALSE]
masPush(s, kind, level, seg, i) == [s EXCEPT !.t = push(@, kind, level, seg, 0, i)]
masAppendContent(s, i) == [s EXCEPT !.t = appendContent(@, i)]
masSetHeading(s, i) == [s EXCEPT !.t = setHeading(@, i)]
masInParagraph(s) == "section" \in Kinds(s.t)
masIsSubparagraph(s, tok) == tok \in Roman /\ (tok \in DOMAIN Preceding => s.lastPara # Preceding[tok])

\* As above, for a notice.
MacceptPlain(s, n, suffix) == n = s.last + 1
acceptParagraph(s, n, suffix) == n = s.last + 1 \/ (suffix # "" /\ n = s.last)

\* A heading goes to the root whatever is open.
pushSection(s, seg, i) == [s EXCEPT !.t = push([@ EXCEPT !.stack = <<>>], "heading", Level.part, seg, 0, i)]
pushParagraph(s, n, suffix, i) ==
  [s EXCEPT !.last = n, !.lastPara = "", !.t = push(@, "section", Level.section, Seg("section", n, suffix), 0, i)]

openMajorParagraph(s, l, i) ==
  IF acceptParagraph(s, l.n, l.suffix) THEN pushParagraph(s, l.n, l.suffix, i) ELSE s

\* The letter of an item on the line of its paragraph is taken as alphabetic.
masConsumeInline(s, l, i) ==
  CASE l.rest = "subsec" -> masAppendContent(masPush(s, "subsection", Level.subsection, Seg("subsection", 1, ""), i), i)
    [] l.rest = "para" -> masAppendContent(masPush([s EXCEPT !.lastPara = l.tok], "paragraph", Level.paragraph, Seg("paragraph", 0, l.tok), i), i)
    [] l.rest = "text" -> masAppendContent(s, i)

masConsumePara(s, l, i) ==
  IF masIsSubparagraph(s, l.tok)
  THEN masAppendContent(masPush(s, "paragraph", Level.subparagraph, Seg("subparagraph", 0, l.tok), i), i)
  ELSE masAppendContent(masPush([s EXCEPT !.lastPara = l.tok], "paragraph", Level.paragraph, Seg("paragraph", 0, l.tok), i), i)

masConsumeSubsection(s, l, i) ==
  masAppendContent(masPush([s EXCEPT !.lastPara = ""], "subsection", Level.subsection, Seg("subsection", l.n, ""), i), i)

\* A short line that starts with a capital and does not end like a sentence.
sgMASIsHeading(l) == l.shape \in {"heading", "symbols"}
HeadingSlug(l) == IF l.shape = "symbols" THEN NoSlug ELSE Seg("slug", l.n, "")

masConsume(s, l, i) ==
  CASE l.shape = "roman" -> masSetHeading(pushSection(s, Seg("heading", l.n, ""), i), i)
    [] l.shape = "dot" -> masAppendContent(openMajorParagraph(s, l, i), i)
    [] l.shape = "number" /\ l.n > 0 /\ acceptParagraph(s, l.n, l.suffix) ->
         masConsumeInline(pushParagraph(s, l.n, l.suffix, i), l, i)
    [] l.shape = "para" /\ masInParagraph(s) -> masConsumePara(s, l, i)
    [] l.shape = "subsec" /\ masInParagraph(s) -> masConsumeSubsection(s, l, i)
    [] sgMASIsHeading(l) -> masSetHeading(pushSection(s, HeadingSlug(l), i), i)
    [] OTHER -> masAppendContent(s, i)

------------------------------------------------------------------------------
(* The tests on the whole text.                                            *)
hasEmDashSections(ls) == Cardinality({i \in DOMAIN ls : ls[i].shape = "number" /\ ls[i].dash}) >= 2
isMASNotice(ls) ==
  FoldLeft(LAMBDA c, l : IF l.shape \in {"dot", "number"} /\ ~l.dash /\ l.n >= c.last THEN [last |-> l.n, n |-> c.n + 1] ELSE c,
           [last |-> 0, n |-> 0], ls).n >= 3

(* The document: its headings are numbered in sequence.  A list item may   *)
(* carry the next number, a reference the number of the last insert, and   *)
(* an arrangement of sections may list the Parts or stand above a body     *)
(* without any: "misread" remembers that one of these was read.            *)
RealNumber(l) == ~real.annex /\ IF l.suffix = "" THEN l.n = real.sec + 1 ELSE l.n = real.sec /\ l.n > 0 /\ l.suffix # real.suffix
Misread(l) ==
  \/ \E k \in Skips : l.suffix = "" /\ l.n = real.sec + 1 + k
  \/ 0 \in Skips /\ l.n = real.sec /\ l.suffix = real.suffix
Plausible(l) ==
  CASE l.shape = "number" -> IF l.real THEN RealNumber(l) /\ real.body ELSE Misread(l) \/ real.annex \/ ~real.body
    [] l.shape = "dot" -> (l.n = real.sec + 1 /\ ~real.annex) \/ (l.n = real.sec /\ l.n > 0)
    [] OTHER -> TRUE
Misleads(r, l) ==
  \/ l.shape = "number" /\ l.real /\ inTOC
  \/ l.shape \in {"number", "schedule"} /\ ~r.body /\ ~inTOC
  \/ l.shape = "number" /\ ~l.real /\ r.body /\ ~r.annex /\ (l.n = r.sec + 1 \/ (l.suffix # "" /\ l.n = r.sec))
Moves(r, l) ==
  CASE l.shape \in {"number", "dot"} /\ l.real -> [r EXCEPT !.sec = l.n, !.suffix = IF l.n = r.sec /\ l.shape = "dot" THEN @ ELSE l.suffix]
    [] l.shape = "schedule" /\ r.body -> [r EXCEPT !.annex = TRUE]
    [] l.shape = "toc" -> [r EXCEPT !.body = FALSE]
    [] l.shape = "tocends" -> [r EXCEPT !.body = TRUE]
    [] OTHER -> r
Reals(r, l) == [Moves(r, l) EXCEPT !.misread = @ \/ Misleads(r, l)]

Init ==
  /\ front \in (IF Enacting THEN BOOLEAN ELSE {FALSE}) /\ inTOC = FALSE
  /\ p = IF Form = "act" THEN sgParser ELSE masParser
  /\ lines = <<>> /\ returned = FALSE /\ real = [sec |-> 0, suffix |-> "", annex |-> FALSE, body |-> TRUE, misread |-> FALSE]

\* The body starts below the enacting clause, or the long title of a text without one.
Cut(l) ==
  /\ front /\ ~returned /\ Len(lines) < MaxLines
  /\ lines' = Append(lines, [l EXCEPT !.shape = "cut"])
  /\ front' = (l.shape # "enacting")
  /\ UNCHANGED <<inTOC, p, real, returned>>

\* An arrangement of sections is skipped up to the next PART.
SkipsTOC(l) == l.shape = "toc" \/ (inTOC /\ l.shape # "part")
Furniture(l) == l.shape \in {"noise", "title"}         \* page numbers, letterhead, repeated notice titles

ReadLine(l) ==
  /\ ~front /\ ~returned /\ Len(lines) < MaxLines /\ Plausible(l)
  /\ l.shape = "tocends" => ~real.body
  /\ real' = Reals(real, l)
  /\ lines' = Append(lines, IF SkipsTOC(l) \/ Furniture(l) \/ l.shape = "tocends" THEN [l EXCEPT !.shape = "cut"] ELSE l)
  /\ inTOC' = SkipsTOC(l)
  /\ p' = CASE lines'[Len(lines')].shape = "cut" -> p
            [] lines'[Len(lines')].shape # "cut" /\ Form = "act" -> sgConsume(p, l, Len(lines'))
            [] lines'[Len(lines')].shape # "cut" /\ Form = "mas" -> masConsume(p, l, Len(lines'))
  /\ Form = "mas" => ~hasEmDashSections(lines')
  /\ UNCHANGED <<front, returned>>

(* The end of the text: the format the whole of it selects is the one read. *)
Returns ==
  /\ ~front /\ ~returned
  /\ Form = IF ~hasEmDashSections(lines) /\ isMASNotice(lines) THEN "mas" ELSE "act"
  /\ returned' = TRUE
  /\ UNCHANGED <<front, inTOC, p, lines, real>>

Next == Returns \/ \E l \in Pieces : Cut(l) \/ ReadLine(l)
Spec == Init /\ [][Next]_vars

------------------------------------------------------------------------------
(* Citation paths are unique (uniqueSeg): rows are upserted by path.  A    *)
(* heading without a Latin letter or digit has the empty path, and what    *)
(* stands below it is cited as if it stood at the top.                     *)
Unslugged == \E n \in DOMAIN p.t.nodes : p.t.nodes[n].path = NoSlug
UniquePaths == Unslugged \/ Unique(p.t)

(* The open frames are the last branch of the tree; a line has one place.  *)
RightSpine == Spine(p.t) /\ Once(p.t)

(* acceptSection, acceptParagraph: with lists, references and a table of   *)
(* contents in between, the sections found are the headings read, as long  *)
(* as nothing else carries the next number (Misleads).                     *)
SectionsAreReal ==
  real.misread \/
  {p.t.nodes[n].line : n \in {m \in DOMAIN p.t.nodes : p.t.nodes[m].kind = "section"}}
  \subseteq {i \in DOMAIN lines : lines[i].shape \in {"number", "dot"} /\ lines[i].real}

HeadingsFound ==
  real.misread \/
  {i \in DOMAIN lines : lines[i].shape = "number" /\ lines[i].real}
  \subseteq {p.t.nodes[n].line : n \in DOMAIN p.t.nodes}

(* A single i, v or x is an alphabetic item only where it continues the    *)
(* letters of its own paragraph; the item on the line of its paragraph is  *)
(* taken as alphabetic whatever its letter (masConsumeInline).             *)
Letter(n) == Last(p.t.nodes[n].path).name[3]
AlphaRun ==
  \A n \in DOMAIN p.t.nodes :
    p.t.nodes[n].level = Level.paragraph /\ lines[p.t.nodes[n].line].shape = "para" /\ Letter(n) \in DOMAIN Preceding =>
      \E m \in Children(p.t, p.t.nodes[n].parent) :
        m < n /\ p.t.nodes[m].level = Level.paragraph /\ Letter(m) = Preceding[Letter(n)]

(* Dot-notation paragraphs: "4.2 text" stands in paragraph 4, under the    *)
(* heading it was read under.                                              *)
LastHeading(i) == LET hs == {k \in 1..(i - 1) : lines[k].shape \in {"roman", "heading", "symbols"}} IN IF hs = {} THEN 0 ELSE Max(hs)
HeadingOf(n) ==
  LET ps == {m \in DOMAIN p.t.nodes : p.t.nodes[m].kind = "heading" /\ (m = n \/ m = p.t.nodes[n].parent)}
  IN IF ps = {} THEN 0 ELSE p.t.nodes[Max(ps)].line
UnderItsHeading ==
  Form = "mas" =>
    \A n \in DOMAIN p.t.nodes : p.t.nodes[n].kind = "section" => HeadingOf(n) = LastHeading(p.t.nodes[n].line)

(* Text below the first heading is in the tree.                            *)
TextKept ==
  \A i \in DOMAIN lines :
    /\ lines[i].shape \notin {"cut", "schedule"} /\ lines[i].rest # ""
    /\ \E n \in DOMAIN p.t.nodes : p.t.nodes[n].line < i
    => i \in TextOf(p.t, DOMAIN p.t.nodes)
=============================================================================
