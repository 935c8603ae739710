---------------------------- MODULE ThailandParse ----------------------------
(***************************************************************************)
(* ParseThaiAct: an Act (chapters, parts, sections) or a Bank of Thailand  *)
(* notification (clauses), read line by line into the provision tree.      *)
(* "real" says whether a numbered line is a heading of the document.       *)
(***************************************************************************)
EXTENDS SectionTree

CONSTANTS Form,         \* "act" or "bot"
          Pieces,       \* the lines a text may be made of
          MaxLines      \* bound: lines of a text

VARIABLES p, lines, real, returned
vars == <<p, lines, real, returned>>

\* The patterns a line may match.
Shapes == {"matra", "chapter", "part", "khor", "item", "noise", "transitional", "notes", "text"}
PiecesAssumption == \A l \in Pieces : l.shape \in Shapes

Level == [chapter |-> 0, part |-> 1, section |-> 2, item |-> 3]
\* The three amendment suffixes become /1, /2 and /3.
thAmendSuffixes == [thawi |-> 1, tri |-> 2]
thMastraLabelSeg(l) ==
  Seg("section", l.n, "")
  \o (IF l.suffix = "" THEN <<>> ELSE <<[name |-> <<"", thAmendSuffixes[l.suffix], "">>, copy |-> 1]>>)

------------------------------------------------------------------------------
(* An Act (thParser).                                                      *)

thParser == [t |-> root, lastMatra |-> 0, pendingTitle |-> FALSE, inNotes |-> FALSE]

pushWithOrdinal(s, kind, level, seg, ord, i) ==
  [s EXCEPT !.pendingTitle = FALSE, !.t = push(@, kind, level, seg, ord, i)]
thAppendContent(s, i) == [s EXCEPT !.t = appendContent(@, i)]
thSetHeading(s, i) == [s EXCEPT !.t = setHeading(@, i)]
inSection(s) == "section" \in Kinds(s.t)

\* Inserted sections are not recognised.
MacceptPlain(s, l) == l.suffix = "" /\ l.n = s.lastMatra + 1
acceptMatra(s, l) == IF l.suffix = "" THEN l.n = s.lastMatra + 1 ELSE l.n = s.lastMatra

Container(s, l, i) ==
  LET node == pushWithOrdinal(s, l.shape, Level[l.shape], Seg(l.shape, l.n, ""), l.n, i)
  IN IF l.rest = "" THEN [node EXCEPT !.pendingTitle = TRUE] ELSE thSetHeading(node, i)

Matra(s, l, i) ==
  LET taken1 == IF l.suffix = "" THEN [s EXCEPT !.lastMatra = l.n] ELSE s
      node   == pushWithOrdinal(taken1, "section", Level.section, thMastraLabelSeg(l), l.n, i)
  IN CASE l.rest = "" -> node
       [] l.rest = "text" -> thAppendContent(node, i)
       [] l.rest = "item" -> thAppendContent(pushWithOrdinal(node, "paragraph", Level.item, Seg("paragraph", 1, ""), 1, i), i)

\* The line below a chapter or part without a title is its title.
Line(s, i) ==
  IF s.pendingTitle /\ Top(s.t) # 0
  THEN [thSetHeading(s, i) EXCEPT !.pendingTitle = FALSE]
  ELSE thAppendContent([s EXCEPT !.pendingTitle = FALSE], i)

thConsume(s, l, i) ==
  CASE s.inNotes -> thAppendContent(s, i)
    [] ~s.inNotes /\ l.shape = "notes" ->
         thSetHeading(pushWithOrdinal([s EXCEPT !.inNotes = TRUE], "heading", Level.part, NoSlug, 0, i), i)
    [] ~s.inNotes /\ l.shape = "transitional" ->
         thSetHeading(pushWithOrdinal(s, "chapter", Level.chapter, Seg("bot-chapakaan", 0, ""), 0, i), i)
    [] ~s.inNotes /\ l.shape \in {"part", "chapter"} -> Container(s, l, i)
    [] ~s.inNotes /\ l.shape = "matra" /\ acceptMatra(s, l) -> Matra(s, l, i)
    [] ~s.inNotes /\ l.shape = "item" /\ inSection(s) ->
         thAppendContent(pushWithOrdinal(s, "paragraph", Level.item, Seg("paragraph", l.n, ""), l.n, i), i)
    [] OTHER -> Line(s, i)

------------------------------------------------------------------------------
(* A notification (thBOTParser).                                           *)

thBOTParser == [t |-> root, lastKhor |-> 0, inNotes |-> FALSE]
botPush(s, kind, level, seg, ord, i) == [s EXCEPT !.t = push(@, kind, level, seg, ord, i)]
botAppendContent(s, i) == [s EXCEPT !.t = appendContent(@, i)]
botInSection(s) == "section" \in Kinds(s.t)

\* As above, for clauses.
\* A clause below an item is taken for a part of it.
MacceptOutside(s, n) == n = s.lastKhor + 1 /\ "paragraph" \notin Kinds(s.t)
acceptKhor(s, n) == n = s.lastKhor + 1
Khor(s, l, i) ==
  LET node == botPush([s EXCEPT !.lastKhor = l.n], "section", Level.section, Seg("section", l.n, ""), l.n, i)
  IN IF l.rest = "" THEN node ELSE botAppendContent(node, i)

botConsume(s, l, i) ==
  CASE s.inNotes -> botAppendContent(s, i)
    [] ~s.inNotes /\ l.shape = "notes" -> botPush([s EXCEPT !.inNotes = TRUE], "heading", Level.part, NoSlug, 0, i)
    [] ~s.inNotes /\ l.shape = "khor" /\ acceptKhor(s, l.n) -> Khor(s, l, i)
    [] ~s.inNotes /\ l.shape = "item" /\ botInSection(s) ->
         botAppendContent(botPush(s, "paragraph", Level.item, Seg("paragraph", l.n, ""), l.n, i), i)
    [] OTHER -> botAppendContent(s, i)

------------------------------------------------------------------------------
Lines(shape) == {i \in DOMAIN lines : lines[i].shape = shape}
isBOTNotification == Cardinality(Lines("khor")) >= 2 /\ Lines("matra") = {}

(* The document: sections numbered in sequence, inserts after their number *)
(* and each of them once; the notes quote the sections of other laws.  A   *)
(* line that refers to the last insert looks like its heading: "repeated"  *)
(* remembers that one was read.                                            *)
Plausible(l) ==
  CASE l.shape \notin {"matra", "khor"} -> TRUE
    [] l.shape \in {"matra", "khor"} /\ l.real ->
         /\ ~real.notes
         /\ IF l.suffix = "" THEN l.n = real.sec + 1
            ELSE l.n = real.sec /\ l.n > 0 /\ <<l.n, l.suffix>> \notin real.inserted
    [] l.shape \in {"matra", "khor"} /\ ~l.real ->
         \/ real.notes
         \/ IF l.suffix = "" THEN l.n # real.sec + 1
            ELSE l.n # real.sec \/ <<l.n, l.suffix>> \in real.inserted
Reals(l) ==
  CASE l.shape \in {"matra", "khor"} /\ l.real ->
         IF l.suffix = "" THEN [real EXCEPT !.sec = l.n] ELSE [real EXCEPT !.inserted = @ \cup {<<l.n, l.suffix>>}]
    [] l.shape \in {"matra", "khor"} /\ ~l.real ->
         [real EXCEPT !.repeated = @ \/ (~real.notes /\ l.suffix # "" /\ l.n = real.sec)]
    [] l.shape = "notes" -> [real EXCEPT !.notes = TRUE]
    [] OTHER -> real

Init ==
  /\ p = IF Form = "act" THEN thParser ELSE thBOTParser
  /\ lines = <<>> /\ returned = FALSE /\ real = [sec |-> 0, inserted |-> {}, notes |-> FALSE, repeated |-> FALSE]

\* Page numbers are dropped.
thBodyLines(l) ==
  /\ l.shape = "noise" /\ ~returned /\ Len(lines) < MaxLines
  /\ lines' = Append(lines, l)
  /\ UNCHANGED <<p, real, returned>>

ReadLine(l) ==
  /\ l.shape # "noise" /\ ~returned /\ Len(lines) < MaxLines /\ Plausible(l)
  /\ Form = "bot" => l.shape # "matra"
  /\ lines' = Append(lines, l)
  /\ real' = Reals(l)
  /\ p' = IF Form = "act" THEN thConsume(p, l, Len(lines')) ELSE botConsume(p, l, Len(lines'))
  /\ UNCHANGED returned

(* The end of the text: the format the whole of it selects is the one read. *)
Returns ==
  /\ ~returned /\ Form = IF isBOTNotification THEN "bot" ELSE "act"
  /\ returned' = TRUE
  /\ p' = [p EXCEPT !.t = parseNormalizeSections(@, "section", Len(lines))]
  /\ UNCHANGED <<lines, real>>

Next == Returns \/ \E l \in Pieces : thBodyLines(l) \/ ReadLine(l)
Spec == Init /\ [][Next]_vars

------------------------------------------------------------------------------
(* acceptMatra, acceptKhor: with cross-references and the notes in between *)
(* the sections found are exactly the sections of the document, but for a  *)
(* line that repeats an insert of the section it stands in, which opens it *)
(* once more.                                                              *)
Found(kind) == {p.t.nodes[n].line : n \in {m \in DOMAIN p.t.nodes : p.t.nodes[m].kind = kind}}
SectionsAreReal == real.repeated \/ Found("section") \ {0} \subseteq {i \in DOMAIN lines : lines[i].real}
SectionsFound == {i \in Lines("matra") \cup Lines("khor") : lines[i].real} \subseteq Found("section")

(* pendingTitle: the title of a chapter or part is on its own line or the  *)
(* next one; a section's text is never taken for a title.                  *)
OwnTitle ==
  \A n \in DOMAIN p.t.nodes : \A i \in Range(p.t.nodes[n].heading) :
    /\ p.t.nodes[n].kind \in {"chapter", "part", "heading"}
    /\ i = p.t.nodes[n].line \/ (p.t.nodes[n].line + 1)..(i - 1) \subseteq Lines("noise")

(* uniqueSeg: citation paths are unique; the rows are upserted by path.    *)
(* The path of an insert has a slash of its own, so that an insert opened  *)
(* twice is not told apart.                                                *)
UniquePaths == real.repeated \/ Unique(p.t)

(* Stored rows come back in the order of the text (ListSectionsByDocument  *)
(* orders by the ordinals): a chapter's sections follow the ones above it. *)
ReadingOrder ==
  LET key == SortPath(p.t)
  IN \A m, n \in writeSections(p.t) : m < n => Before(key[m], key[n])

(* fullTextFallback: no text is silently dropped for want of structure.    *)
NeverEmpty == returned /\ lines # <<>> => p.t.nodes # <<>>

(* appendContent: no line below the first heading is lost.                 *)
TextKept ==
  \A i \in DOMAIN lines :
    /\ lines[i].shape \notin {"noise", "notes"} /\ lines[i].rest # ""
    /\ \E n \in DOMAIN p.t.nodes : p.t.nodes[n].line < i
    => i \in TextOf(p.t, DOMAIN p.t.nodes)
=============================================================================
