--------------------------- MODULE HtmlDerivation ---------------------------
(***************************************************************************)
(* The two readings of one HTML original.  The converter child reads the   *)
(* tokens once and builds blocks and findings (htmlBlocksBounded); a second *)
(* child reads the same tokens with other code (scanHTMLOwners), which     *)
(* builds no blocks, and compares the converter's document with what it    *)
(* found (validateHTMLSource, validateSourceClaims).  Both are modelled    *)
(* token by token, side by side.                                           *)
(*                                                                         *)
(* A token is known by its ordinal, which stands for its byte range; a     *)
(* text token of ordinal i has the text <<i>>.                             *)
(***************************************************************************)
EXTENDS Integers, Sequences, FiniteSets, SequencesExt

CONSTANTS Tokens,        \* the tokens an original may consist of
          MaxTokens,     \* bound: tokens of an original
          MaxItems,      \* Budget.MaxItems, for tokens, blocks and findings
          DepthLimit,    \* Limits.XMLDepth
          OutputBytes    \* manifest.OutputBytes, a text token counting one

VARIABLES input, conv, val, pc
vars == <<input, conv, val, pc>>

Void == {"br", "img", "hr"}
Headings == {"h1", "h2"}
Blocks == {"p", "blockquote", "div", "section", "article", "li"} \cup Headings
Supported == Blocks \cup {"body", "span", "ul", "ol", "br", "img"}
Excluded == {"script", "style", "noscript"}
ResetsImplicit == (Blocks \ {"blockquote"}) \cup {"ul", "ol", "hr"}

TextKind(name, otherwise) == IF name = "li" THEN "list_item"
                             ELSE IF name \in Headings THEN "heading" ELSE otherwise

Fail(s) == [s EXCEPT !.ok = FALSE]
finding(s, reason, n) ==
  IF Len(s.findings) >= MaxItems THEN Fail(s) ELSE [s EXCEPT !.findings = Append(@, <<reason, n>>)]
FindIf(s, cond, reason, n) == IF cond /\ s.ok THEN finding(s, reason, n) ELSE s

-----------------------------------------------------------------------------
(* The converter: pending blocks, the owner of each open element and the   *)
(* implicit block of loose text.                                           *)

NewConversion == [ok |-> TRUE, pending |-> <<>>, owners |-> <<>>, implicit |-> 0, stack |-> <<>>,
                  sel |-> 0, matches |-> 0, findings |-> <<>>]
pendingBlock(kind, n) == [kind |-> kind, spans |-> <<>>, text |-> <<>>, empty |-> n]
NewPending(s, kind, n) == [s EXCEPT !.pending = Append(@, pendingBlock(kind, n))]
Top(seq, otherwise) == IF seq = <<>> THEN otherwise ELSE Last(seq)
Write(s, owner, n) ==
  [s EXCEPT !.pending[owner] = [@ EXCEPT !.spans = Append(@, n), !.text = Append(@, n)]]

\* The block loose text goes to: the implicit one, or a new one that becomes implicit.
Loose(s, kind, n) ==
  IF s.implicit # 0 THEN s
  ELSE [NewPending(s, kind, n) EXCEPT !.implicit = Len(s.pending) + 1]

selectStart(s, t) ==
  IF ~t.match THEN s
  ELSE IF s.matches # 0 \/ t.name \in Void \/ t.type = "self" THEN Fail(s)
       ELSE [s EXCEPT !.matches = 1, !.sel = Len(s.stack) + 1]

\* What belongs to no block goes to the implicit one.
Kept(s, owner, kind, n) == IF owner # 0 THEN s ELSE Loose(s, kind, n)
WriteTo(s, owner, n) == Write(s, IF owner # 0 THEN owner ELSE s.implicit, n)

\* A start tag inside the selection: a new block, findings, and the text of a br.  It
\* answers the state and the owner its element will have.
OpenBlock(s, t, n) ==
  IF t.name \in Blocks /\ s.ok
  THEN [NewPending(s, TextKind(t.name, "paragraph"), n) EXCEPT !.implicit = 0] ELSE s
Inline(s, t, owner, n) ==
  CASE ~s.ok -> s
    [] t.name = "br" -> WriteTo(Kept(s, owner, "paragraph", n), owner, n)
    [] t.name = "img" -> finding(NewPending(s, "image", n), "IMAGE", n)
    [] OTHER -> s

startSelected(s, t, n) ==
  LET outer == Top(s.owners, 0)
      isBlock == t.name \in Blocks
      opened == OpenBlock(FindIf(s, isBlock /\ outer # 0, "NESTED", n), t, n)
      owner == IF isBlock THEN Len(opened.pending) ELSE outer
      shown == Inline(FindIf(opened, t.attr = "other", "ATTRIBUTES", n), t, owner, n)
  IN  [state |-> FindIf(shown, t.name \notin Supported, "CONSTRUCT", n), owner |-> owner]

\* An element that stays open is pushed with its owner.
Opened(r, t) ==
  IF ~r.state.ok \/ t.name \in Void \/ t.type = "self" THEN r.state
  ELSE IF Len(r.state.stack) >= DepthLimit THEN Fail(r.state)
  ELSE [r.state EXCEPT !.stack = Append(@, t.name), !.owners = Append(@, r.owner)]
Started(s, t, n) ==
  IF s.ok /\ s.sel > 0 THEN startSelected(s, t, n) ELSE [state |-> s, owner |-> Top(s.owners, 0)]

startTag(s, t, n) ==
  Opened(Started(IF t.attr = "charset" THEN Fail(s) ELSE selectStart(s, t), t, n), t)

\* The end of a block forgets the owner of loose text only for a paragraph.
MendTag(s, t) ==
  IF s.stack = <<>> \/ Last(s.stack) # t.name THEN Fail(s)
  ELSE [s EXCEPT !.sel = IF @ = Len(s.stack) THEN 0 ELSE @,
                 !.stack = Front(@), !.owners = Front(@),
                 !.implicit = IF t.name = "p" THEN 0 ELSE @]

endTag(s, t) ==
  IF s.stack = <<>> \/ Last(s.stack) # t.name THEN Fail(s)
  ELSE [s EXCEPT !.sel = IF @ = Len(s.stack) THEN 0 ELSE @,
                 !.stack = Front(@), !.owners = Front(@),
                 !.implicit = IF t.name \in ResetsImplicit THEN 0 ELSE @]

WriteBounded(s, o, n) == IF Len(s.pending[o].text) >= OutputBytes THEN Fail(s) ELSE Write(s, o, n)
textToken(s, n) ==
  IF s.sel = 0 THEN s
  ELSE IF \E i \in DOMAIN s.stack : s.stack[i] \in Excluded THEN finding(s, "CONTENT", n)
  ELSE LET kind == FoldLeft(LAMBDA k, name : TextKind(name, k), "paragraph", s.stack)
           owner == Top(s.owners, 0)
           kept == Kept(s, owner, kind, n)
       IN  WriteBounded(kept, IF owner # 0 THEN owner ELSE kept.implicit, n)

htmlToken(s, t, n) ==
  CASE t.type \in {"start", "self"} -> startTag(s, t, n)
    [] t.type = "end" -> endTag(s, t)
    [] t.type = "text" -> textToken(s, n)
    [] OTHER -> IF s.sel > 0 THEN finding(s, "CONTENT", n) ELSE s

\* After the last token the pending blocks are added, an empty one with its opening tag, and
\* the two findings of every baseline conversion are made.
htmlBlocksBounded(s) ==
  LET blocks == [i \in DOMAIN s.pending |->
                   [s.pending[i] EXCEPT !.spans = IF @ = <<>> THEN <<s.pending[i].empty>> ELSE @]]
      bytes == FoldLeft(LAMBDA k, b : k + Len(b.text), 0, blocks)
      ended == IF s.matches # 1 \/ s.stack # <<>> \/ Len(blocks) = 0 \/ Len(blocks) > MaxItems \/ bytes > OutputBytes
               THEN Fail(s) ELSE [s EXCEPT !.pending = blocks]
  IN  FindIf(FindIf(ended, TRUE, "GEOMETRY", 0), TRUE, "FIDELITY", 0)

-----------------------------------------------------------------------------
(* The validator: owners in the order they are created, and which token    *)
(* belongs to which.                                                       *)

NewScan == [ok |-> TRUE, owners |-> <<>>, stack |-> <<>>, sel |-> 0, matches |-> 0, implicit |-> 0,
            fragments |-> {}, findings |-> <<>>, overflow |-> FALSE]
htmlSourceFrame(name, owner, kind, excluded) ==
  [name |-> name, owner |-> owner, kind |-> kind, excluded |-> excluded]
NoFrame == htmlSourceFrame("", 0, "paragraph", FALSE)
add(v, reason, n) ==
  IF v.overflow THEN v
  ELSE IF Len(v.findings) >= MaxItems THEN [v EXCEPT !.overflow = TRUE]
  ELSE [v EXCEPT !.findings = Append(@, <<reason, n>>)]
newOwner(v, kind, n) == [v EXCEPT !.owners = Append(@, [anchor |-> n, kind |-> kind, count |-> 0])]
contribute(v, owner, n) ==
  [v EXCEPT !.fragments = @ \cup {[ordinal |-> n, owner |-> owner, empty |-> FALSE]},
            !.owners[owner].count = @ + 1]
implicitOwner(v, kind, n) ==
  IF v.implicit # 0 THEN v ELSE [newOwner(v, kind, n) EXCEPT !.implicit = Len(v.owners) + 1]

addIf(v, cond, reason, n) == IF cond THEN add(v, reason, n) ELSE v
ownerBlock(v, t, n) ==
  IF t.name \in Blocks THEN [newOwner(v, TextKind(t.name, "paragraph"), n) EXCEPT !.implicit = 0] ELSE v
ownedBy(v, owner, kind, n) == IF owner # 0 THEN v ELSE implicitOwner(v, kind, n)
contributeTo(v, owner, n) == contribute(v, IF owner # 0 THEN owner ELSE v.implicit, n)
ownerInline(v, t, owner, n) ==
  CASE t.name = "img" -> add(newOwner(v, "image", n), "IMAGE", n)
    [] t.name = "br" -> contributeTo(ownedBy(v, owner, "paragraph", n), owner, n)
    [] OTHER -> v

ownerStart(v, t, n, parent) ==
  LET isBlock == t.name \in Blocks
      opened == ownerBlock(addIf(v, isBlock /\ parent.owner # 0, "NESTED", n), t, n)
      owner == IF isBlock THEN Len(opened.owners) ELSE parent.owner
      shown == addIf(ownerInline(opened, t, owner, n), t.attr = "other", "ATTRIBUTES", n)
  IN  [state |-> addIf(shown, t.name \notin Supported, "CONSTRUCT", n), owner |-> owner]

scanOpened(r, t, parent) ==
  LET frame == htmlSourceFrame(t.name, r.owner, TextKind(t.name, parent.kind),
                               parent.excluded \/ t.name \in Excluded)
  IN  IF ~r.state.ok \/ t.name \in Void \/ t.type = "self" THEN r.state
      ELSE IF Len(r.state.stack) >= DepthLimit THEN Fail(r.state)
      ELSE [r.state EXCEPT !.stack = Append(@, frame)]
scanSelected(v, t) ==
  IF t.attr = "charset" \/ (t.match /\ (v.matches # 0 \/ t.name \in Void \/ t.type = "self")) THEN Fail(v)
  ELSE IF t.match THEN [v EXCEPT !.matches = 1, !.sel = Len(v.stack) + 1] ELSE v
scanStarted(v, t, n, parent) ==
  IF v.ok /\ v.sel > 0 THEN ownerStart(v, t, n, parent) ELSE [state |-> v, owner |-> parent.owner]

scanStart(v, t, n) ==
  LET parent == Top(v.stack, NoFrame)
  IN  scanOpened(scanStarted(scanSelected(v, t), t, n, parent), t, parent)

scanEnd(v, t) ==
  IF v.stack = <<>> \/ Last(v.stack).name # t.name THEN Fail(v)
  ELSE [v EXCEPT !.sel = IF @ = Len(v.stack) THEN 0 ELSE @, !.stack = Front(@),
                 !.implicit = IF t.name \in ResetsImplicit THEN 0 ELSE @]

scanText(v, n) ==
  LET frame == Top(v.stack, NoFrame)
  IN  IF v.sel = 0 THEN v
      ELSE IF frame.excluded THEN add(v, "CONTENT", n)
      ELSE contributeTo(ownedBy(v, frame.owner, frame.kind, n), frame.owner, n)

scanToken(v, t, n) ==
  CASE t.type \in {"start", "self"} -> scanStart(v, t, n)
    [] t.type = "end" -> scanEnd(v, t)
    [] t.type = "text" -> scanText(v, n)
    [] OTHER -> IF v.sel > 0 THEN add(v, "CONTENT", n) ELSE v

\* After the last token an owner nothing contributed to is anchored at its own tag.
scanHTMLOwners(v) ==
  LET Bare == {o \in DOMAIN v.owners : v.owners[o].count = 0}
      v1 == [v EXCEPT !.fragments = @ \cup {[ordinal |-> v.owners[o].anchor, owner |-> o, empty |-> TRUE] : o \in Bare},
                      !.owners = [o \in DOMAIN @ |-> IF o \in Bare THEN [@[o] EXCEPT !.count = 1] ELSE @[o]]]
  IN  IF v.matches # 1 \/ v.stack # <<>> \/ v.owners = <<>> \/ v.overflow THEN Fail(v) ELSE v1

\* One block against its owner: every span is a whole token that belongs to the owner and
\* was not claimed before, in order, and their texts make up the block's text.
validBlock(v, blocks, o) ==
  LET b == blocks[o]
      Fragment(n) == {f \in v.fragments : f.ordinal = n /\ f.owner = o}
      text == FoldLeft(LAMBDA acc, n : acc \o (IF \E f \in Fragment(n) : ~f.empty THEN <<n>> ELSE <<>>), <<>>, b.spans)
  IN  /\ Len(b.spans) = v.owners[o].count /\ b.spans # <<>> /\ b.kind = v.owners[o].kind
      /\ \A i \in DOMAIN b.spans :
           /\ i > 1 => b.spans[i] > b.spans[i - 1]
           /\ \E f \in Fragment(b.spans[i]) : f.empty => b.text = <<>> /\ Len(b.spans) = 1
      /\ \A p \in 1..(o - 1) : \A i \in DOMAIN b.spans : b.spans[i] \notin Range(blocks[p].spans)
      /\ Len(text) <= OutputBytes /\ text = b.text

validateHTMLSource(v, blocks) ==
  /\ v.ok /\ Len(blocks) = Len(v.owners)
  /\ \A o \in DOMAIN blocks : validBlock(v, blocks, o)

\* The findings are compared as a multiset.
validateSourceClaims(v, blocks, findings) ==
  LET g == add(add(v, "GEOMETRY", 0), "FIDELITY", 0)
      Count(seq, f) == Cardinality({i \in DOMAIN seq : seq[i] = f})
  IN  /\ validateHTMLSource(v, blocks) /\ ~g.overflow
      /\ Len(findings) = Len(g.findings)
      /\ \A i \in DOMAIN findings : Count(findings, findings[i]) = Count(g.findings, findings[i])

-----------------------------------------------------------------------------
Init == input = <<>> /\ conv = NewConversion /\ val = NewScan /\ pc = "scan"

\* Both children read the next token.  A conversion that has failed has no document to check;
\* one that goes on can still close its elements within MaxTokens.
Read(t) ==
  /\ pc = "scan" /\ Len(input) < MaxTokens /\ conv.ok
  /\ LET n == Len(input) + 1 IN
     /\ input' = Append(input, t)
     /\ conv' = IF n > MaxItems THEN Fail(conv) ELSE htmlToken(conv, t, n)
     /\ val' = IF n > MaxItems THEN Fail(val) ELSE IF val.ok THEN scanToken(val, t, n) ELSE val
     /\ conv'.ok => Len(conv'.stack) <= MaxTokens - n
  /\ UNCHANGED pc

Finish ==
  /\ pc = "scan" /\ conv.ok
  /\ IF Len(input) >= MaxItems THEN conv' = Fail(conv) /\ val' = Fail(val)
     ELSE conv' = htmlBlocksBounded(conv) /\ val' = scanHTMLOwners(val)
  /\ pc' = "done" /\ UNCHANGED input

Next == (\E t \in Tokens : Read(t)) \/ Finish
Spec == Init /\ [][Next]_vars

-----------------------------------------------------------------------------
(* Properties. *)

Converted == pc = "done" /\ conv.ok

\* Every state has the shape the code gives it: spans are ordinals of the original, owners
\* and frames are parallel, and no budget is exceeded.
TypeOK ==
  /\ pc \in {"scan", "done"} /\ Len(input) <= MaxTokens
  /\ conv.ok => /\ Len(conv.stack) = Len(conv.owners) /\ Len(conv.stack) <= DepthLimit
                /\ Len(conv.findings) <= MaxItems
                /\ \A i \in DOMAIN conv.pending : Range(conv.pending[i].spans) \subseteq DOMAIN input
                /\ conv.implicit \in 0..Len(conv.pending)
  /\ val.ok => val.implicit \in 0..Len(val.owners) /\ Len(val.stack) <= DepthLimit

\* What the converter makes of an original, the validator derives from it independently:
\* blocks, kinds, spans, texts and findings.
ValidatorAgrees == Converted => validateSourceClaims(val, conv.pending, conv.findings)

Cut(s, i) == SubSeq(s, 1, i - 1) \o SubSeq(s, i + 1, Len(s))
Shift(b, i) ==     \* the last span of block i moves to the block after it
  [b EXCEPT ![i] = [@ EXCEPT !.spans = Front(@), !.text = IF @ = <<>> THEN @ ELSE Front(@)],
            ![i + 1] = [@ EXCEPT !.spans = <<Last(b[i].spans)>> \o @, !.text = <<Last(b[i].spans)>> \o @]]
Altered(b) ==
  {Cut(b, i) : i \in DOMAIN b} \cup {Append(b, b[i]) : i \in DOMAIN b}
  \cup {[b EXCEPT ![i] = b[i + 1], ![i + 1] = b[i]] : i \in 1..(Len(b) - 1)}
  \cup {Shift(b, i) : i \in 1..(Len(b) - 1)}
  \cup UNION {{[b EXCEPT ![i].kind = k] : k \in {"paragraph", "list_item", "heading", "image"}} : i \in DOMAIN b}
  \cup {[b EXCEPT ![i].text = Append(@, 1)] : i \in DOMAIN b}
  \cup {[b EXCEPT ![i] = [@ EXCEPT !.spans = Front(@), !.text = IF @ = <<>> THEN @ ELSE Front(@)]] : i \in DOMAIN b}
  \cup {[b EXCEPT ![i] = [@ EXCEPT !.spans = Reverse(@), !.text = Reverse(@)]] : i \in DOMAIN b}

\* No other document of the same original passes: a block dropped, repeated, moved or of
\* another kind, a token given to the wrong block, text added, lost or reordered, and a
\* finding left out or invented.
AlteredIsRejected ==
  Converted =>
    /\ \A b \in Altered(conv.pending) \ {conv.pending} : ~validateSourceClaims(val, b, conv.findings)
    /\ \A i \in DOMAIN conv.findings :
         /\ ~validateSourceClaims(val, conv.pending, Cut(conv.findings, i))
         /\ ~validateSourceClaims(val, conv.pending, [conv.findings EXCEPT ![i] = <<"INVENTED", 0>>])

\* An independent reading of the nesting: token i lies inside the element that token s opens.
Opens(i) == input[i].type = "start" /\ input[i].name \notin Void
Within(s, i) ==
  /\ s < i /\ Opens(s)
  /\ \A k \in s..(i - 1) : Cardinality({j \in s..k : Opens(j)}) > Cardinality({j \in s..k : input[j].type = "end"})
InSelection(i) == \E s \in DOMAIN input : input[s].match /\ Within(s, i)
IsText(i) == input[i].type = "text"
              /\ ~\E s \in DOMAIN input : input[s].name \in Excluded /\ Within(s, i)
IsBreak(i) == input[i].type \in {"start", "self"} /\ input[i].name = "br"
Holders(i) == {o \in DOMAIN conv.pending : i \in Range(conv.pending[o].text)}

\* No text is lost and none is invented: every text and line break inside the selection is
\* in exactly one block, in the order of the original, other content has a finding, and
\* nothing outside the selection is in a block.
NothingLost ==
  Converted =>
    /\ \A i \in DOMAIN input :
         /\ Cardinality(Holders(i)) = IF InSelection(i) /\ (IsText(i) \/ IsBreak(i)) THEN 1 ELSE 0
         /\ InSelection(i) /\ input[i].type \in {"text", "comment"} /\ Holders(i) = {}
              => <<"CONTENT", i>> \in Range(conv.findings)
    /\ \A o \in DOMAIN conv.pending :
         \A i \in 1..(Len(conv.pending[o].text) - 1) : conv.pending[o].text[i] < conv.pending[o].text[i + 1]

\* A text belongs to the block of the innermost block element around it.
TextInItsElement ==
  Converted =>
    \A o \in DOMAIN conv.pending : \A i \in Range(conv.pending[o].text) :
      LET Around == {s \in DOMAIN input : input[s].name \in Blocks /\ InSelection(i) /\ Within(s, i)
                                          /\ (InSelection(s) \/ input[s].match)}
      IN  Around # {} => conv.pending[o].empty = CHOOSE s \in Around : \A r \in Around : r <= s
=============================================================================
