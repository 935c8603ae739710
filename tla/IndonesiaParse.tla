--------------------------- MODULE IndonesiaParse ----------------------------
(***************************************************************************)
(* ParseIndonesianUU: a regulation read line by line into the provision    *)
(* tree.  An omnibus law quotes the articles it amends; what it quotes is  *)
(* no structure of its own.  "real" says whether a heading is one of the   *)
(* regulation itself; "amend" whether the line ends in an amendment        *)
(* instruction ("... diubah sehingga berbunyi sebagai berikut:").          *)
(***************************************************************************)
EXTENDS SectionTree

CONSTANTS Pieces,       \* the lines a text may be made of
          MaxLines      \* bound: lines of a text

VARIABLES front, p, lines, real, returned
vars == <<front, p, lines, real, returned>>

\* The patterns a line may match.
Shapes == {"bab", "bagian", "paragraf", "pasal", "ayat", "huruf", "banner", "demi", "lampiran", "noise", "text"}
PiecesAssumption == \A l \in Pieces : l.shape \in Shapes

Level == [bab |-> 0, bagian |-> 1, paragraf |-> 2, pasal |-> 3, ayat |-> 4, huruf |-> 5]

idParser == [t |-> root, lastPasal |-> 0, inPenjelasan |-> FALSE, inLampiran |-> FALSE,
             pendingTitle |-> FALSE, prevAmend |-> FALSE, inAmendBlock |-> FALSE]

pushWithOrdinal(s, kind, seg, ord, i) ==
  [s EXCEPT !.pendingTitle = FALSE, !.t = push(@, kind, Level[kind], seg, ord, i)]
pushTop(s, kind, seg, i) == [s EXCEPT !.pendingTitle = FALSE, !.t = push(@, kind, Level.bab, seg, 0, i)]
idAppendContent(s, i) == [s EXCEPT !.t = appendContent(@, i)]
inPasal(s) == "pasal" \in Kinds(s.t)

acceptPasal(s, n) == n = s.lastPasal + 1
\* The line itself is read before its instruction takes effect.
EnterAmendBlock(s, l) == [s EXCEPT !.inAmendBlock = @ \/ l.amend]

\* A heading that does not follow an instruction is the regulation's own: so is
\* an article with the next number.
LeaveAmendBlock(s, l) ==
  IF ~s.prevAmend /\ (l.shape = "pasal" => acceptPasal(s, l.n)) THEN [s EXCEPT !.inAmendBlock = FALSE] ELSE s

Bab(s, l, i) ==
  [pushWithOrdinal([s EXCEPT !.inAmendBlock = FALSE], "bab", Seg("bab", l.n, ""), 0, i) EXCEPT !.pendingTitle = TRUE]
Titled(s, l, i) ==
  EnterAmendBlock([pushWithOrdinal(s, l.shape, Seg(l.shape, l.n, ""), l.n, i) EXCEPT !.pendingTitle = TRUE], l)
Item(s, l, i) ==
  LET node == pushWithOrdinal(s, l.shape, Seg(l.shape, l.n, ""), l.n, i)
  IN EnterAmendBlock(IF l.rest = "" THEN node ELSE idAppendContent(node, i), l)
\* What OCR left on the line of the heading is read as a line of its own.
Pasal(s, l, i) ==
  LET node == pushWithOrdinal([s EXCEPT !.lastPasal = l.n], "pasal", Seg("pasal", l.n, ""), l.n, i)
  IN EnterAmendBlock(CASE l.rest = "" -> node
                       [] l.rest = "text" -> idAppendContent(node, i)
                       [] l.rest = "ayat" -> idAppendContent(pushWithOrdinal(node, "ayat", Seg("ayat", 1, ""), 1, i), i), l)

\* Title lines in capitals go on.
Line(s, l, i) ==
  LET q == EnterAmendBlock(s, l)
  IN IF q.pendingTitle /\ Top(q.t) # 0
     THEN [q EXCEPT !.t.nodes[Top(q.t)].heading = Append(@, i), !.pendingTitle = l.caps]
     ELSE idAppendContent([q EXCEPT !.pendingTitle = FALSE], i)

Body(s, l, i) ==
  LET q == LeaveAmendBlock(s, l)
  IN CASE l.shape = "bab" -> Bab(s, l, i)
       [] l.shape \in {"bagian", "paragraf"} -> IF q.inAmendBlock THEN Line(q, l, i) ELSE Titled(q, l, i)
       [] l.shape = "pasal" -> IF ~q.inAmendBlock /\ acceptPasal(q, l.n) THEN Pasal(q, l, i) ELSE Line(q, l, i)
       [] l.shape \in {"ayat", "huruf"} -> IF inPasal(s) THEN Item(s, l, i) ELSE Line(s, l, i)
       [] OTHER -> Line(s, l, i)

consume(s, l, i) ==
  LET q == CASE l.shape = "banner" -> [s EXCEPT !.inPenjelasan = TRUE]
             [] l.shape = "demi" -> pushTop([s EXCEPT !.inPenjelasan = TRUE], "penjelasan", Seg("penjelasan", 0, ""), i)
             [] l.shape \notin {"banner", "demi"} /\ s.inPenjelasan -> idAppendContent(s, i)
             [] l.shape = "lampiran" /\ ~s.inPenjelasan ->
                  pushTop([s EXCEPT !.inLampiran = TRUE], "lampiran", Seg("lampiran", l.n, ""), i)
             [] l.shape \notin {"banner", "demi", "lampiran"} /\ ~s.inPenjelasan /\ s.inLampiran -> idAppendContent(s, i)
             [] OTHER -> Body(s, l, i)
  IN [q EXCEPT !.prevAmend = l.amend]

------------------------------------------------------------------------------
(* The document.  An article of the regulation has the next number; what   *)
(* it quotes follows an instruction or a line of the quotation; the        *)
(* explanation and the annexes number their own articles.  A quoted        *)
(* article may have the next number below another quoted line: "misread"   *)
(* remembers that one was read.                                            *)
Outside == real.explained \/ real.annexed
InGeneral == real.explained /\ ~real.byArticle
Plausible(l) ==
  CASE InGeneral /\ l.shape # "demi" -> l.shape = "text"
    [] ~InGeneral /\ l.shape = "pasal" /\ l.real -> ~Outside /\ l.n = real.pasal + 1 /\ (real.quoting => ~p.prevAmend)
    [] ~InGeneral /\ l.shape = "pasal" /\ ~l.real -> Outside \/ l.n # real.pasal + 1 \/ real.quoting
    [] l.shape = "lampiran" -> ~real.explained
    [] OTHER -> TRUE
Reals(l) ==
  [real EXCEPT !.pasal = IF l.shape = "pasal" /\ l.real THEN l.n ELSE @,
               !.quoting = l.amend \/ (@ /\ ~(l.real /\ l.shape \in {"bab", "pasal"})),
               !.misread = @ \/ (l.shape = "pasal" /\ ~l.real /\ ~Outside /\ l.n = real.pasal + 1 /\ ~p.prevAmend),
               !.explained = @ \/ l.shape \in {"banner", "demi"},
               !.byArticle = @ \/ l.shape = "demi",
               !.annexed = @ \/ l.shape = "lampiran"]

Init ==
  /\ front = TRUE /\ p = idParser /\ lines = <<>> /\ returned = FALSE
  /\ real = [pasal |-> 0, quoting |-> FALSE, explained |-> FALSE, byArticle |-> FALSE, annexed |-> FALSE, misread |-> FALSE]

\* The body starts with the first chapter or article 1.
StartsBody(l) == l.shape = "bab" \/ (l.shape = "pasal" /\ l.n = 1)
idBodyLines(l) ==
  /\ ~returned /\ Len(lines) < MaxLines
  /\ IF front THEN ~StartsBody(l) /\ ~l.real ELSE l.shape = "noise"
  /\ lines' = Append(lines, l)
  /\ UNCHANGED <<front, p, real, returned>>

ReadLine(l) ==
  /\ ~returned /\ Len(lines) < MaxLines /\ l.shape # "noise"
  /\ front => StartsBody(l) /\ l.real
  /\ Plausible(l)
  /\ front' = FALSE /\ lines' = Append(lines, l) /\ real' = Reals(l)
  /\ p' = consume(p, l, Len(lines'))
  /\ UNCHANGED returned

(* A text without a start is read from its first line.                     *)
Returns ==
  /\ ~returned /\ returned' = TRUE
  /\ LET q == IF ~front THEN p
              ELSE FoldLeft(LAMBDA s, i : IF lines[i].shape = "noise" THEN s ELSE consume(s, lines[i], i), p, [i \in DOMAIN lines |-> i])
     IN p' = [q EXCEPT !.t = parseNormalizeSections(@, "pasal", Len(lines))]
  /\ UNCHANGED <<front, lines, real>>

Next == Returns \/ \E l \in Pieces : idBodyLines(l) \/ ReadLine(l)
Spec == Init /\ [][Next]_vars

------------------------------------------------------------------------------
Found(kind) == {p.t.nodes[n].line : n \in {m \in DOMAIN p.t.nodes : p.t.nodes[m].kind = kind}}
Lines(shape) == {i \in DOMAIN lines : lines[i].shape = shape}

(* The monotonic Pasal filter and inAmendBlock: with cross-references,     *)
(* quoted articles and the explanation's own numbering in between, the     *)
(* articles found are exactly the regulation's, as long as no quoted       *)
(* article that does not follow its instruction has the next number.       *)
PasalsAreReal == real.misread \/ Found("pasal") \ {0} \subseteq {i \in Lines("pasal") : lines[i].real}
PasalsFound == ~front /\ ~real.misread => {i \in Lines("pasal") : lines[i].real} \subseteq Found("pasal")

(* The explanation by article is one top-level section: none of its text   *)
(* is in an article of the regulation.  The general part above it goes to  *)
(* the provision that was open, and nothing opens in it.                   *)
ExplanationApart ==
  /\ \A n \in DOMAIN p.t.nodes, d \in Lines("demi") :
       (\E i \in TextOf(p.t, {n}) : i > d) => p.t.nodes[n].kind = "penjelasan"
  /\ \A n \in DOMAIN p.t.nodes, b \in Lines("banner") : p.t.nodes[n].line > b => p.t.nodes[n].kind = "penjelasan"

(* pendingTitle: a title is the unbroken run of lines below its chapter,   *)
(* part or paragraph, and an article has none.                             *)
OwnTitle ==
  \A n \in DOMAIN p.t.nodes : \A i \in Range(p.t.nodes[n].heading) :
    /\ p.t.nodes[n].kind \in {"bab", "bagian", "paragraf"}
    /\ (p.t.nodes[n].line + 1)..(i - 1) \subseteq Range(p.t.nodes[n].heading) \cup Lines("noise")

(* uniqueSeg: citation paths are unique; the rows are upserted by path.    *)
UniquePaths == Unique(p.t)

(* fullTextFallback: no text is silently dropped for want of structure.    *)
NeverEmpty == returned /\ lines # <<>> => p.t.nodes # <<>>

(* appendContent: no line below the first heading is lost.                 *)
TextKept ==
  \A i \in DOMAIN lines :
    /\ lines[i].shape \in {"text", "ayat", "huruf"} /\ lines[i].rest # ""
    /\ \E n \in DOMAIN p.t.nodes : p.t.nodes[n].line < i
    => i \in TextOf(p.t, DOMAIN p.t.nodes)
=============================================================================
