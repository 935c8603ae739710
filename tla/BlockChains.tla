----------------------------- MODULE BlockChains -----------------------------
(***************************************************************************)
(* The blocks of a converted document and the chain from source to raw to  *)
(* normalized text: blockBuilder.add, finish, verifyChains and verifyEdit, *)
(* TextNormalizer.Normalize and reverseText, and the semantic check the    *)
(* validating child makes of a staged document (validateSemantics).        *)
(*                                                                         *)
(* Objects are content addressed, so an object is named by its content: a  *)
(* text by the text itself, the evidence of an edit by the pair it records.*)
(* NFC and the line-ending rule are the function Normal.                   *)
(***************************************************************************)
EXTENDS Integers, Sequences, FiniteSets, SequencesExt

CONSTANTS Texts, Normal, Size, Corrupt,   \* raw texts, their normal form, their length, unreadable ones
          MaxBlocks,                      \* bound: blocks of a document
          MaxItems, OutputBytes

NormalForm == /\ Normal \in [Texts -> Texts] /\ Size \in [Texts -> Nat] /\ Corrupt \subseteq Texts
                     /\ \A t \in Texts : Normal[Normal[t]] = Normal[t]

VARIABLES b, doc, pc
vars == <<b, doc, pc>>

Bytes(texts) == FoldLeft(LAMBDA k, t : k + Size[t], 0, texts)
Joined(texts) == <<"text", SelectSeq(texts, LAMBDA t : Size[t] > 0)>>
Text(t) == Joined(<<t>>)
Evidence(e) == <<"edit", <<e.removed, e.replacement>>>>
Value(name) == <<"value", <<name>>>>        \* a structured object

newBlockBuilder == [ok |-> TRUE, blocks |-> <<>>, maps |-> <<>>, ledger |-> <<>>, raw |-> <<>>, normal |-> <<>>,
                    objects |-> {}, bytes |-> 0]
Fail(s) == [s EXCEPT !.ok = FALSE]

\* The byte limit holds for one object, not for all of them.
MputAlone(s, object, size) ==
  IF ~s.ok \/ object \in s.objects THEN s
  ELSE IF Cardinality(s.objects) >= MaxItems \/ size > OutputBytes THEN Fail(s)
  ELSE [s EXCEPT !.objects = @ \cup {object}, !.bytes = @ + size]

\* An object that is already staged costs nothing.
put(s, object, size) ==
  IF ~s.ok \/ object \in s.objects THEN s
  ELSE IF Cardinality(s.objects) >= MaxItems \/ size > OutputBytes - s.bytes THEN Fail(s)
  ELSE [s EXCEPT !.objects = @ \cup {object}, !.bytes = @ + size]

\* A changed text has one edit, which replaces the whole of it.
edits(t) == IF Normal[t] = t THEN <<>> ELSE <<[removed |-> t, replacement |-> Normal[t]]>>
segment(t) == [from |-> t, to |-> Normal[t], transform |-> IF Normal[t] = t THEN "identity" ELSE "nfc-crlf"]

\* An edit is undone only where its replacement stands.
reverseText(text, list) ==
  FoldLeft(LAMBDA r, e : IF r.ok /\ r.text = e.replacement THEN [r EXCEPT !.text = e.removed] ELSE [r EXCEPT !.ok = FALSE],
           [ok |-> TRUE, text |-> text], Reverse(list))

Normalize(t) ==
  LET r == reverseText(Normal[t], edits(t))
  IN  /\ t \notin Corrupt /\ Size[t] <= OutputBytes /\ Size[Normal[t]] <= OutputBytes
      /\ 1 + 1 + Len(edits(t)) + 1 <= MaxItems
      /\ r.ok /\ r.text = t

block(s, kind, t) == [kind |-> kind, raw |-> t, normal |-> Normal[t], ordinal |-> Len(s.blocks),
                      id |-> <<Len(s.blocks), kind, t, Normal[t]>>]

add(s, kind, t) ==
  LET s1 == put(s, Text(t), Size[t])
      s2 == put(s1, Text(Normal[t]), Size[Normal[t]])
      s3 == [s2 EXCEPT !.blocks = Append(@, block(s, kind, t)),
                       !.maps = @ \o <<[from |-> "source", to |-> t, transform |-> "source-decode"], segment(t)>>]
      s4 == FoldLeft(LAMBDA acc, e : [put(acc, Evidence(e), 1) EXCEPT !.ledger = Append(@, e)], s3, edits(t))
      s5 == [s4 EXCEPT !.raw = Append(@, t), !.normal = Append(@, Normal[t])]
  IN  IF ~s.ok \/ Len(s.blocks) >= MaxItems \/ ~Normalize(t) \/ ~s4.ok
         \/ Bytes(s5.raw) > OutputBytes \/ Bytes(s5.normal) > OutputBytes
         \/ Len(s5.maps) > MaxItems \/ Len(s5.ledger) > MaxItems
      THEN Fail(s) ELSE s5

-----------------------------------------------------------------------------
(* Verification, of the builder itself and of a staged document d.         *)

verifyEdit(d, e) ==
  /\ {Text(e.removed), Text(e.replacement), Evidence(e)} \subseteq d.objects
  /\ LET r == reverseText(e.replacement, <<e>>) IN r.ok /\ r.text = e.removed

\* The blocks are added again to a new builder, which must end with the same blocks, maps,
\* ledger and texts; then every text is reversed with the ledger in block order.
expected(d) == FoldLeft(LAMBDA acc, x : add(acc, x.kind, x.raw), [newBlockBuilder EXCEPT !.objects = d.objects], d.blocks)
reversedInOrder(d) ==
  LET step(r, x) ==
        IF x.normal = x.raw THEN r
        ELSE IF r.index > Len(d.ledger) THEN [r EXCEPT !.ok = FALSE]
        ELSE LET back == reverseText(x.normal, <<d.ledger[r.index]>>)
             IN  [index |-> r.index + 1, ok |-> r.ok /\ back.ok /\ back.text = x.raw]
      end == FoldLeft(step, [index |-> 1, ok |-> TRUE], d.blocks)
  IN  end.ok /\ end.index = Len(d.ledger) + 1

verifyChains(d) ==
  LET e == expected(d) IN
  /\ \A i \in DOMAIN d.ledger : verifyEdit(d, d.ledger[i])
  /\ e.ok /\ e.blocks = d.blocks /\ e.maps = d.maps /\ e.ledger = d.ledger /\ e.raw = d.raw /\ e.normal = d.normal
  /\ reversedInOrder(d)

Structured == {Value(v) : v \in {"raw-blocks", "blocks", "maps", "ledger"}}

finish(s) ==
  IF ~s.ok \/ s.blocks = <<>> \/ ~verifyChains(s) THEN Fail(s)
  ELSE LET texts == put(put(s, Joined(s.raw), Bytes(s.raw)), Joined(s.normal), Bytes(s.normal))
       IN  FoldLeft(LAMBDA acc, v : put(acc, v, 1), texts, SetToSeq(Structured))

\* ChildHandler adds the detection result, the document and the quality report.
Results == {Value(v) : v \in {"detector", "document", "quality"}}
stage(s) == LET f == finish(s) IN FoldLeft(LAMBDA acc, v : put(acc, v, 1), f, SetToSeq(Results))

\* What a document refers to: its texts, its evidence and its structured objects.
used(d) == Structured \cup Results \cup {Joined(d.raw), Joined(d.normal)}
           \cup {Text(d.blocks[i].normal) : i \in DOMAIN d.blocks}
           \cup {Text(d.maps[i].to) : i \in DOMAIN d.maps}
           \cup UNION {{Text(e.removed), Text(e.replacement), Evidence(e)} : e \in Range(d.ledger)}

validateSemantics(d) ==
  /\ d.blocks # <<>> /\ used(d) = d.objects
  /\ Len(d.maps) <= MaxItems /\ Len(d.ledger) <= MaxItems
  /\ verifyChains(d)

-----------------------------------------------------------------------------
Init == b = newBlockBuilder /\ doc = newBlockBuilder /\ pc = "build"

Add(kind, t) ==
  /\ pc = "build" /\ b.ok /\ Len(b.blocks) < MaxBlocks
  /\ b' = add(b, kind, t) /\ UNCHANGED <<doc, pc>>

Stage ==
  /\ pc = "build" /\ b.ok
  /\ b' = stage(b) /\ doc' = b' /\ pc' = "staged"

\* Staged output that is consistent in itself but is not what the builder made: one part is
\* another one.  A ref always names what it hashes to.
Swap(s, i, j) == [s EXCEPT ![i] = s[j], ![j] = s[i]]
Cut(s, i) == SubSeq(s, 1, i - 1) \o SubSeq(s, i + 1, Len(s))
Alterations(d) ==
  {[d EXCEPT !.blocks = Cut(@, i)] : i \in DOMAIN d.blocks}
  \cup {[d EXCEPT !.blocks = Swap(@, i, j)] : i, j \in DOMAIN d.blocks}
  \cup {[d EXCEPT !.blocks[i].normal = t, !.objects = @ \cup {Text(t)}] : i \in DOMAIN d.blocks, t \in Texts}
  \cup {[d EXCEPT !.blocks[i].raw = t, !.objects = @ \cup {Text(t)}] : i \in DOMAIN d.blocks, t \in Texts}
  \cup {[d EXCEPT !.maps = Cut(@, i)] : i \in DOMAIN d.maps}
  \cup {[d EXCEPT !.maps = Swap(@, i, j)] : i, j \in DOMAIN d.maps}
  \cup {[d EXCEPT !.ledger = Cut(@, i)] : i \in DOMAIN d.ledger}
  \cup {[d EXCEPT !.ledger = Swap(@, i, j)] : i, j \in DOMAIN d.ledger}
  \cup {LET e == [removed |-> t, replacement |-> d.ledger[i].replacement]
        IN  [d EXCEPT !.ledger[i] = e, !.objects = @ \cup {Text(t), Evidence(e)}] : i \in DOMAIN d.ledger, t \in Texts}
  \cup {[d EXCEPT !.raw = Swap(@, i, j)] : i, j \in DOMAIN d.raw}
  \cup {[d EXCEPT !.normal = Append(@, t)] : t \in Texts}
  \cup {[d EXCEPT !.objects = @ \cup {Text(t)}] : t \in Texts}
  \cup {[d EXCEPT !.objects = @ \ {o}] : o \in d.objects}
Alter ==
  /\ pc = "staged" /\ b.ok
  /\ \E d \in Alterations(doc) : doc' = d
  /\ pc' = "altered" /\ UNCHANGED b

Next == (\E kind \in {"paragraph", "heading"}, t \in Texts : Add(kind, t)) \/ Stage \/ Alter
Spec == Init /\ [][Next]_vars

-----------------------------------------------------------------------------
(* Properties. *)

\* The staged set stays within its budgets, and the ledger and maps follow the blocks.
TypeOK ==
  /\ pc \in {"build", "staged", "altered"}
  /\ b.ok => /\ Cardinality(b.objects) <= MaxItems /\ b.bytes <= OutputBytes
             /\ Len(b.maps) = 2 * Len(b.blocks) /\ Len(b.raw) = Len(b.blocks)

\* What the builder staged, the validating child accepts, within the same budgets.
StagedIsAccepted == pc = "staged" /\ b.ok => validateSemantics(doc)

\* Nothing else is accepted: every accepted document is the one the builder makes.
OnlyCanonical == pc = "altered" /\ validateSemantics(doc) => doc = b
=============================================================================
