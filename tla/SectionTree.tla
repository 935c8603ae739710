----------------------------- MODULE SectionTree -----------------------------
(***************************************************************************)
(* The provision tree every structure parser builds (myBuild) and the rows *)
(* Normalize stores of it.                                                 *)
(*                                                                         *)
(* A text is a sequence of lines; a line is known by its number, so a      *)
(* heading or a content is the sequence of the lines it was made of.  A    *)
(* citation path is the sequence of what stands between its slashes: a     *)
(* component is a name (<<kind, number, suffix>>) and the copy number that *)
(* uniqueSeg adds.  A segment is a sequence of components too, because a   *)
(* segment may itself contain a slash.                                     *)
(***************************************************************************)
EXTENDS Integers, Sequences, FiniteSets, SequencesExt

root == [nodes |-> <<>>, stack |-> <<>>]          \* the stack without the root sentinel

Top(t) == IF t.stack = <<>> THEN 0 ELSE Last(t.stack)
Kinds(t) == {t.nodes[t.stack[k]].kind : k \in DOMAIN t.stack}
Children(t, n) == {c \in DOMAIN t.nodes : t.nodes[c].parent = n}
Roots(t) == Children(t, 0)

Seg(kind, num, suffix) == <<[name |-> <<kind, num, suffix>>, copy |-> 1]>>
NoSlug == <<[name |-> <<"", 0, "">>, copy |-> 1]>>          \* slug of a text without a Latin letter or digit
Path(t, n) == IF n = 0 THEN <<>> ELSE t.nodes[n].path
\* A parent whose own path is the empty string adds nothing, not even a slash.
Joined(path, seg) == IF path \in {<<>>, NoSlug} THEN seg ELSE path \o seg

\* What follows the last slash of a sibling's path is compared with the whole segment.
taken(t, parent, seg) == \E c \in Children(t, parent) : <<Last(t.nodes[c].path)>> = seg

Copy(seg, n) == [seg EXCEPT ![Len(seg)].copy = n]
uniqueSeg(t, parent, seg) ==
  IF ~taken(t, parent, seg) THEN seg
  ELSE Copy(seg, CHOOSE n \in 2..(Len(t.nodes) + 2) :
                   /\ ~taken(t, parent, Copy(seg, n))
                   /\ \A m \in 2..(n - 1) : taken(t, parent, Copy(seg, m)))

\* The frames of the same or a deeper level are closed.
Popped(t, level) ==
  SubSeq(t.stack, 1, Max({0} \cup {k \in DOMAIN t.stack : t.nodes[t.stack[k]].level < level}))

\* ord 0: the position among the siblings of the same kind.
push(t, kind, level, seg, ord, line) ==
  LET stack  == Popped(t, level)
      parent == IF stack = <<>> THEN 0 ELSE Last(stack)
      same   == {c \in Children(t, parent) : t.nodes[c].kind = kind}
      node   == [parent |-> parent, kind |-> kind, level |-> level, line |-> line,
                 ord |-> IF ord = 0 THEN Cardinality(same) + 1 ELSE ord,
                 path |-> Joined(Path(t, parent), uniqueSeg(t, parent, seg)),
                 heading |-> <<>>, content |-> <<>>]
  IN [nodes |-> Append(t.nodes, node), stack |-> Append(stack, Len(t.nodes) + 1)]

\* Text above the first heading is dropped.
appendContent(t, line) ==
  IF Top(t) = 0 THEN t ELSE [t EXCEPT !.nodes[Top(t)].content = Append(@, line)]

setHeading(t, line) ==
  IF Top(t) = 0 THEN t ELSE [t EXCEPT !.nodes[Top(t)].heading = <<line>>]

\* The whole text, furniture included, in one section.
fullTextFallback(n, kind) ==
  IF n = 0 THEN root
  ELSE LET t == push(root, kind, 0, Seg("fulltext", 0, ""), 1, 0) IN [t EXCEPT !.nodes[1].content = [i \in 1..n |-> i]]

\* It is used where the parser found nothing.
parseNormalizeSections(t, kind, n) == IF t.nodes = <<>> THEN fullTextFallback(n, kind) ELSE t

------------------------------------------------------------------------------
(* writeSections upserts the nodes in reading order: a path that comes     *)
(* twice keeps the row and takes the later node's text.                    *)
Row(t, path) == Max({n \in DOMAIN t.nodes : t.nodes[n].path = path})
writeSections(t) == {Row(t, t.nodes[n].path) : n \in DOMAIN t.nodes}

\* The lines whose text is in one of the nodes ns.
TextOf(t, ns) == UNION {Range(t.nodes[n].heading \o t.nodes[n].content) : n \in ns}
LabelsOf(t, ns) == {t.nodes[n].line : n \in ns}

\* ListSectionsByDocument: by the ordinals down the tree, the older row first.
SortPath(t) ==
  FoldLeft(LAMBDA f, n : Append(f, IF t.nodes[n].parent = 0 THEN <<<<t.nodes[n].ord, n>>>>
                                   ELSE Append(f[t.nodes[n].parent], <<t.nodes[n].ord, n>>)),
           <<>>, [n \in DOMAIN t.nodes |-> n])
Before(p, q) ==
  \/ Len(p) < Len(q) /\ SubSeq(q, 1, Len(p)) = p
  \/ \E k \in 1..Min({Len(p), Len(q)}) :
       /\ SubSeq(p, 1, k - 1) = SubSeq(q, 1, k - 1)
       /\ \/ p[k][1] < q[k][1]
          \/ p[k][1] = q[k][1] /\ p[k][2] < q[k][2]

------------------------------------------------------------------------------
\* The open frames are the last branch of the tree, each one level deeper or more.
Spine(t) ==
  /\ \A k \in DOMAIN t.stack :
       /\ t.nodes[t.stack[k]].parent = IF k = 1 THEN 0 ELSE t.stack[k - 1]
       /\ t.stack[k] = Max(Children(t, t.nodes[t.stack[k]].parent))
  /\ \A n \in DOMAIN t.nodes : \A c \in Children(t, n) : t.nodes[c].level > t.nodes[n].level /\ c > n

Unique(t) == \A m, n \in DOMAIN t.nodes : t.nodes[m].path = t.nodes[n].path => m = n

\* No line is in two places.
Once(t) == \A m, n \in DOMAIN t.nodes : m # n => TextOf(t, {m}) \cap TextOf(t, {n}) = {}
=============================================================================
