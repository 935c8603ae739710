---------------------------- MODULE VietnamParse -----------------------------
(***************************************************************************)
(* ParseSections: the Markdown of a Vietnamese text read line by line into *)
(* phan > chuong > muc > dieu > khoan > diem, and phuluc.  An amending     *)
(* text quotes the provisions it replaces; a line's q is the quotation     *)
(* mark that changes what is open: at its start ("open", "sopen": curly,   *)
(* straight), or further on ("inner", "close", "sclose").                  *)
(***************************************************************************)
EXTENDS SectionTree

CONSTANTS Pieces,       \* the lines a text may be made of
          Supplements,  \* whether the text may be a supplement only
          MaxLines      \* bound: lines of a text

VARIABLES p, lines, real, returned
vars == <<p, lines, real, returned>>

\* The patterns a line may match.
Shapes == {"phan", "chuong", "muc", "phuluc", "dieu", "number", "letter", "roman", "alpha", "decimal", "table", "rule", "text"}
PiecesAssumption == \A l \in Pieces : l.shape \in Shapes

levelOf == [phuluc |-> 1, phan |-> 1, chuong |-> 2, muc |-> 3, dieu |-> 4, khoan |-> 5, diem |-> 6]
isStructural(kind) == kind \in {"phan", "chuong", "muc", "dieu", "phuluc"}

\* counters: the running number of headings without one; pathCounts are the asked paths.
parser == [t |-> root, counters |-> [k \in DOMAIN levelOf |-> 0], pendingTitle |-> FALSE, inQuotedBlock |-> FALSE]

Frames(t) == Range(t.stack)
activeLegacyOutline(t) == \E n \in Frames(t) : t.nodes[n].legacy
activeExplicitArticle(t) == \E n \in Frames(t) : t.nodes[n].kind = "dieu" /\ t.nodes[n].explicit
canStartClause(t) == \E n \in Frames(t) : t.nodes[n].kind \in {"dieu", "khoan"} \/ t.nodes[n].legacy
hasArticleContainer(t) == Kinds(t) \cap {"chuong", "muc"} # {}
currentArticle(t) == {n \in Frames(t) : t.nodes[n].kind = "dieu"}
hasArticleBodyOrChildren(t, n) == t.nodes[n].content # <<>> \/ Children(t, n) # {}

startsWithOpeningQuote(l) == l.q \in {"open", "sopen"}

\* Straight quotation marks are not followed.
MupdateQuotedBlock(inQuote, l) ==
  CASE l.q \in {"open", "inner"} -> TRUE
    [] l.q = "close" -> FALSE
    [] OTHER -> inQuote

\* Curly marks say what they do, a straight one is the other of the last.
updateQuotedBlock(inQuote, l) ==
  CASE l.q \in {"open", "inner"} -> TRUE
    [] l.q = "close" -> FALSE
    [] l.q \in {"sopen", "sclose"} -> ~inQuote
    [] l.q = "" -> inQuote

------------------------------------------------------------------------------
(* What a line is.  A numbered line ("1. ...") is like an article heading  *)
(* when its words are those of one (art), bold, or short.                  *)

token(kind, n, suffix, heading) == [kind |-> kind, n |-> n, suffix |-> suffix, heading |-> heading, legacy |-> FALSE, explicit |-> FALSE]
Text == token("text", 0, "", FALSE)

\* The first article of a chapter whose "Dieu" the extractor lost.
shouldPromoteLostArticle(t, l) ==
  /\ l.shape = "number" /\ l.n = 1 /\ ~activeLegacyOutline(t) /\ ~startsWithOpeningQuote(l)
  /\ l.words \in {"art", "short"}
  /\ IF currentArticle(t) # {} THEN hasArticleContainer(t) /\ hasArticleBodyOrChildren(t, Max(currentArticle(t)))
     ELSE Top(t) # 0 /\ t.nodes[Top(t)].kind \in {"chuong", "muc"}

clauseToken(l) == token(IF l.shape = "number" THEN "khoan" ELSE "diem", l.n, "", FALSE)
LostArticle == token("dieu", 0, "", TRUE)

classifyLine(t, l) ==
  CASE l.shape \in {"phan", "chuong", "muc", "phuluc"} -> token(l.shape, l.n, "", l.rest # "")
    [] l.shape = "dieu" -> IF l.rest = "prose" THEN Text ELSE [token("dieu", l.n, l.suffix, l.rest # "") EXCEPT !.explicit = TRUE]
    [] l.shape \in {"number", "letter"} /\ canStartClause(t) /\ activeExplicitArticle(t) -> clauseToken(l)
    [] l.shape = "number" /\ ~activeExplicitArticle(t) /\ (l.words = "art" \/ l.bold) -> LostArticle
    [] l.shape = "roman" /\ l.bold -> [token("chuong", l.n, "", TRUE) EXCEPT !.legacy = TRUE]
    [] l.shape = "alpha" /\ l.bold -> [token("muc", l.n, "alpha", TRUE) EXCEPT !.legacy = TRUE]
    [] l.shape \in {"number", "letter"} /\ ~activeExplicitArticle(t) /\ ~(l.shape = "number" /\ (l.words = "art" \/ l.bold)) /\ canStartClause(t) ->
         clauseToken(l)
    [] OTHER -> Text

TokenOf(s, l) ==
  IF s.inQuotedBlock \/ startsWithOpeningQuote(l) THEN Text
  ELSE IF shouldPromoteLostArticle(s.t, l) THEN LostArticle
  ELSE classifyLine(s.t, l)

------------------------------------------------------------------------------
(* buildTree.                                                              *)

\* A path asked for the n-th time gets ~n.
uniqueCitationPath(t, path) ==
  LET n == Cardinality({m \in DOMAIN t.nodes : t.nodes[m].asked = path}) + 1 IN [path EXCEPT ![Len(path)].copy = n]

\* The numbers of deeper headings start again.
Reset(counters, kind) == [k \in DOMAIN counters |-> IF levelOf[k] > levelOf[kind] THEN 0 ELSE counters[k]]

Open(s, tk, i) ==
  LET stack    == Popped(s.t, levelOf[tk.kind])
      parent   == IF stack = <<>> THEN 0 ELSE Last(stack)
      counted  == Reset(s.counters, tk.kind)
      counters == IF tk.n = 0 THEN [counted EXCEPT ![tk.kind] = @ + 1] ELSE counted
      ord      == IF tk.n = 0 THEN counters[tk.kind] ELSE tk.n
      asked    == Path(s.t, parent) \o Seg(tk.kind, ord, tk.suffix)
      node     == [parent |-> parent, kind |-> tk.kind, level |-> levelOf[tk.kind], line |-> i, ord |-> ord, asked |-> asked,
                   path |-> uniqueCitationPath(s.t, asked), legacy |-> tk.legacy, explicit |-> tk.explicit,
                   heading |-> IF tk.heading THEN <<i>> ELSE <<>>,
                   content |-> IF tk.kind \in {"khoan", "diem"} THEN <<i>> ELSE <<>>]
  IN [s EXCEPT !.t = [nodes |-> Append(s.t.nodes, node), stack |-> Append(stack, Len(s.t.nodes) + 1)],
               !.counters = counters,
               !.pendingTitle = isStructural(tk.kind) /\ ~tk.heading]

\* The line below a heading without a title is its title; text above the first heading is dropped.
Attach(s, i) ==
  IF Top(s.t) # 0 /\ s.pendingTitle THEN [s EXCEPT !.t = setHeading(@, i), !.pendingTitle = FALSE]
  ELSE [s EXCEPT !.t = appendContent(@, i)]

buildTree(s, l, i) ==
  LET tk == TokenOf(s, l)
  IN [IF tk.kind = "text" THEN Attach(s, i) ELSE Open(s, tk, i) EXCEPT !.inQuotedBlock = updateQuotedBlock(@, l)]

------------------------------------------------------------------------------
(* The two fallbacks of a text without any heading.                        *)

Outlined(l) == l.shape \in {"number", "decimal"}          \* "1. ..." and "1.1. ..."
countNumberedOutlineLines(ls) == Cardinality({i \in DOMAIN ls : Outlined(ls[i])})
OutlineNode(t, kind, parent, seg, n, i) ==
  LET asked == Path(t, parent) \o seg
  IN [nodes |-> Append(t.nodes, [parent |-> parent, kind |-> kind, level |-> levelOf[kind], line |-> i, ord |-> n, asked |-> asked,
                                 path |-> uniqueCitationPath(t, asked), legacy |-> FALSE, explicit |-> FALSE,
                                 heading |-> <<>>, content |-> <<i>>]),
      stack |-> IF parent = 0 THEN <<Len(t.nodes) + 1>> ELSE <<parent, Len(t.nodes) + 1>>]
\* Rows of a table are passed over.
buildNumberedOutlineTree(ls) ==
  FoldLeft(LAMBDA t, i :
             CASE ls[i].shape = "table" -> t
               [] ls[i].shape # "table" /\ ~Outlined(ls[i]) -> appendContent(t, i)
               [] Outlined(ls[i]) /\ (ls[i].shape = "number" \/ t.nodes = <<>>) -> OutlineNode(t, "dieu", 0, Seg("dieu-outline", ls[i].n, ls[i].shape), ls[i].n, i)
               [] OTHER -> OutlineNode(t, "khoan", t.stack[1], Seg("khoan-outline", ls[i].n, ls[i].shape), ls[i].n, i),
           root, [i \in DOMAIN ls |-> i])

\* Long enough: four lines here stand for four lines and 300 characters.
shouldUseWholeDocumentFallback(ls) == Cardinality({i \in DOMAIN ls : ls[i].shape # "rule"}) >= 4
buildWholeDocumentFallback(ls) ==
  IF ~shouldUseWholeDocumentFallback(ls) THEN root
  ELSE [fullTextFallback(Len(ls), "dieu") EXCEPT !.nodes[1].content = SelectSeq(@, LAMBDA i : ls[i].shape # "rule")]

\* The first lines say what the text is.
supplementOnlyText == real.supplement

ParseSections ==
  IF p.t.nodes # <<>> \/ supplementOnlyText THEN p.t
  ELSE IF countNumberedOutlineLines(lines) >= 2 THEN buildNumberedOutlineTree(lines)
  ELSE buildWholeDocumentFallback(lines)

------------------------------------------------------------------------------
(* The document: quotations are closed in the order they are opened;       *)
(* "nested" remembers that one was opened within another.                  *)
Quoted(l) == real.curly > 0 \/ real.straight \/ startsWithOpeningQuote(l)
Plausible(l) ==
  CASE l.q \in {"open", "inner"} -> real.curly < 2
    [] l.q = "close" -> real.curly > 0
    [] l.q = "sopen" -> ~real.straight
    [] l.q = "sclose" -> real.straight
    [] l.q = "" -> TRUE

Init ==
  /\ p = parser /\ lines = <<>> /\ returned = FALSE
  /\ \E b \in (IF Supplements THEN BOOLEAN ELSE {FALSE}) : real = [curly |-> 0, straight |-> FALSE, supplement |-> b, quoted |-> {}, nested |-> FALSE]

ReadLine(l) ==
  /\ ~returned /\ Len(lines) < MaxLines /\ Plausible(l)
  /\ lines' = Append(lines, l)
  /\ p' = buildTree(p, l, Len(lines'))
  /\ real' = [real EXCEPT !.curly = CASE l.q \in {"open", "inner"} -> @ + 1 [] l.q = "close" -> @ - 1 [] OTHER -> @,
                          !.straight = CASE l.q = "sopen" -> TRUE [] l.q = "sclose" -> FALSE [] OTHER -> @,
                          !.nested = @ \/ (l.q \in {"open", "inner", "sopen"} /\ (real.curly > 0 \/ real.straight)),
                          !.quoted = IF Quoted(l) THEN @ \cup {Len(lines')} ELSE @]
  /\ UNCHANGED returned

Returns ==
  /\ ~returned /\ returned' = TRUE
  /\ p' = [p EXCEPT !.t = ParseSections]
  /\ UNCHANGED <<lines, real>>

Next == Returns \/ \E l \in Pieces : ReadLine(l)
Spec == Init /\ [][Next]_vars

------------------------------------------------------------------------------
(* updateQuotedBlock: the numbered items of a quoted replacement are not   *)
(* mistaken for structure of the text that quotes them, as long as no      *)
(* quotation within a quotation spans lines: its end ends both.            *)
QuotesAreText == ~returned /\ ~real.nested => LabelsOf(p.t, DOMAIN p.t.nodes) \cap real.quoted = {}

(* buildTree pops a node before a sibling is appended, so the pointer a    *)
(* frame holds into its parent's slice stays valid; an appendix closes     *)
(* every open article.                                                     *)
PointersValid == ~returned => Spine(p.t) /\ Once(p.t)

(* uniqueCitationPath: no two provisions have the same citation path, the  *)
(* fallbacks' included; the rows are upserted by path.                     *)
UniquePaths == Unique(p.t)

(* pendingTitle: a heading's title is on its own line or is the next one,  *)
(* clauses and points have none.                                           *)
OwnTitle ==
  \A n \in DOMAIN p.t.nodes : \A i \in Range(p.t.nodes[n].heading) :
    isStructural(p.t.nodes[n].kind) /\ i \in {p.t.nodes[n].line, p.t.nodes[n].line + 1}

(* No line below the first heading is lost: with or without structure, and *)
(* tables apart in an outline, its words are in some node.                 *)
TextKept ==
  \A i \in DOMAIN lines :
    /\ lines[i].shape \notin {"table", "rule"} /\ lines[i].rest # ""
    /\ \E n \in DOMAIN p.t.nodes : p.t.nodes[n].line < i
    => i \in TextOf(p.t, DOMAIN p.t.nodes)

(* counters: articles that lost their number are numbered within their     *)
(* chapter, so the first of each chapter is number 1.                      *)
LostArticlesNumbered ==
  ~returned => \A n \in DOMAIN p.t.nodes :
    p.t.nodes[n].kind = "dieu" /\ ~p.t.nodes[n].explicit =>
      LET lost == {m \in Children(p.t, p.t.nodes[n].parent) : p.t.nodes[m].kind = "dieu" /\ ~p.t.nodes[m].explicit /\ m <= n}
      IN p.t.nodes[n].ord = Cardinality(lost)

(* canStartClause: a numbered list in a preamble, a table or an appendix   *)
(* does not masquerade as clauses: they are below an article, or a section *)
(* of an old outline.                                                      *)
Above(t, n) == {k \in DOMAIN t.nodes : k < n /\ Len(t.nodes[k].path) < Len(t.nodes[n].path) /\ SubSeq(t.nodes[n].path, 1, Len(t.nodes[k].path)) = t.nodes[k].path}
ClausesInArticles ==
  ~returned => \A n \in DOMAIN p.t.nodes :
    p.t.nodes[n].kind \in {"khoan", "diem"} => \E k \in Above(p.t, n) : p.t.nodes[k].kind = "dieu" \/ p.t.nodes[k].legacy
=============================================================================
