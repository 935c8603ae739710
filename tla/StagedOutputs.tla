---------------------------- MODULE StagedOutputs ----------------------------
(***************************************************************************)
(* The validation child of the sandbox (validation.go): validateStaged     *)
(* checks every declaration of the manifest, then that the tree holds      *)
(* nothing else, and only then streams each output through the preflight   *)
(* of its type.  Expanded bytes, package members and images are budgets of *)
(* the whole phase, counted down while the files stream.  A file is its    *)
(* node, its sizes and the tokens or members its bytes decode to.          *)
(***************************************************************************)
EXTENDS Integers, Sequences, FiniteSets, SequencesExt

CONSTANTS
  Manifests,      \* the manifests tried: sequences of files
  Extra,          \* may an undeclared file lie in the tree
  OutputBytes, ExpandedBytes, ScratchBytes, Members, XMLDepth, Pages, Pixels, TempFiles, ExpansionRatio

LimitsAssumption ==
  \A n \in {OutputBytes, ExpandedBytes, ScratchBytes, Members, XMLDepth, Pages, Pixels, TempFiles, ExpansionRatio} :
    n \in Nat \ {0}

VARIABLES manifest, extra, pc, i, remaining, budget, refs

vars == <<manifest, extra, pc, i, remaining, budget, refs>>

newPhaseBudget == [expanded |-> ExpandedBytes, members |-> Members, images |-> 0]

Init ==
  /\ manifest \in Manifests /\ extra \in Extra
  /\ pc = "declare" /\ i = 1 /\ remaining = OutputBytes /\ budget = newPhaseBudget /\ refs = <<>>

-----------------------------------------------------------------------------
(* The stream checks: one token at a time, depth and roots. *)

Bad == [ok |-> FALSE, depth |-> 0, roots |-> 0]

XMLToken(s, t) ==
  CASE ~s.ok -> s
    [] t = "start" -> [ok |-> (s.depth > 0 \/ s.roots = 0) /\ s.depth + 1 <= XMLDepth, depth |-> s.depth + 1,
                       roots |-> IF s.depth = 0 THEN s.roots + 1 ELSE s.roots]
    [] t = "end" -> IF s.depth = 0 THEN Bad ELSE [s EXCEPT !.depth = @ - 1]
    [] t = "directive" -> Bad
    [] t = "text" -> IF s.depth = 0 THEN Bad ELSE s
    [] t = "space" -> s

checkXML(tokens) ==
  LET s == FoldLeft(XMLToken, [ok |-> TRUE, depth |-> 0, roots |-> 0], tokens)
  IN s.ok /\ s.depth = 0 /\ s.roots = 1

JSONToken(s, t) ==
  LET values == IF s.depth = 0 THEN s.roots + 1 ELSE s.roots
      depth == CASE t = "open" -> s.depth + 1 [] t = "close" -> s.depth - 1 [] OTHER -> s.depth
  IN IF s.ok THEN [ok |-> values <= 1 /\ depth \in 0..XMLDepth, depth |-> depth, roots |-> values] ELSE s

checkJSON(tokens) ==
  LET s == FoldLeft(JSONToken, [ok |-> TRUE, depth |-> 0, roots |-> 0], tokens)
  IN s.ok /\ s.depth = 0 /\ s.roots = 1

\* Larger than ratio times the compressed size, without the product that could overflow.
exceedsRatio(expanded, compressed) ==
  LET quotient == expanded \div compressed
      rest == expanded % compressed
  IN quotient > ExpansionRatio \/ (quotient = ExpansionRatio /\ rest # 0)

\* A member is spooled and classified; an archive in an archive is refused.
checkMember(m, b) ==
  /\ m.size <= ScratchBytes /\ m.claims = m.size
  /\ m.kind # "archive"
  /\ m.kind = "xml" => checkXML(m.tokens)
  /\ m.kind = "image" => b.images + 1 <= Pages /\ m.pixels <= Pixels

\* One package member against what is left of the phase; acc is the state of the package so far.
ZIPMember(acc, m) ==
  LET used == acc.used + m.size
      b == acc.budget
  IN IF ~acc.ok THEN acc
     ELSE [acc EXCEPT
            !.ok = /\ m.name \notin acc.names /\ m.node = "file"
                   /\ m.claims <= b.expanded /\ ~exceedsRatio(m.claims, acc.size)
                   /\ m.size <= b.expanded /\ ~exceedsRatio(used, acc.size)
                   /\ checkMember(m, b),
            !.names = @ \cup {m.name}, !.used = used,
            !.budget = [b EXCEPT !.expanded = @ - m.size, !.images = IF m.kind = "image" THEN @ + 1 ELSE @]]

\* Every package starts with a budget of its own.
McheckZIPBudget(f, b) ==
  FoldLeft(ZIPMember,
           [ok |-> Len(f.body) <= Members, names |-> {}, used |-> 0, size |-> f.size,
            budget |-> newPhaseBudget], f.body)

checkZIPBudget(f, b) ==
  FoldLeft(ZIPMember,
           [ok |-> Len(f.body) <= b.members, names |-> {}, used |-> 0, size |-> f.size,
            budget |-> [b EXCEPT !.members = @ - Len(f.body)]], f.body)

\* The signature must not belie the declared type; then the check of the type.
preflightBudget(f, b) ==
  LET no == [ok |-> FALSE, budget |-> b] IN
  CASE f.magic # "none" /\ f.magic # f.type -> no
    [] f.type = "zip" -> IF f.magic = "zip" THEN checkZIPBudget(f, b) ELSE no
    [] f.type = "xml" -> [ok |-> f.size <= b.expanded /\ checkXML(f.body),
                          budget |-> [b EXCEPT !.expanded = @ - f.size]]
    [] f.type = "image" -> [ok |-> f.magic = "image" /\ b.images + 1 <= Pages /\ f.pixels <= Pixels,
                            budget |-> [b EXCEPT !.images = @ + 1]]
    [] f.type = "json" -> [ok |-> checkJSON(f.body), budget |-> b]
    [] OTHER -> [ok |-> TRUE, budget |-> b]

-----------------------------------------------------------------------------
(* validateStaged: declarations, inventory, streams. *)

Declare ==
  /\ pc = "declare"
  /\ IF Len(manifest) = 0 \/ Len(manifest) > TempFiles THEN pc' = "rejected" /\ UNCHANGED <<i, remaining>>
     ELSE IF i > Len(manifest) THEN pc' = "inventory" /\ i' = 1 /\ remaining' = OutputBytes
     ELSE LET f == manifest[i] IN
          IF \/ \E j \in 1..(i - 1) : manifest[j].path = f.path
             \/ f.node # "file" \/ f.onDisk # f.size \/ f.size > remaining
          THEN pc' = "rejected" /\ UNCHANGED <<i, remaining>>
          ELSE i' = i + 1 /\ remaining' = remaining - f.size /\ UNCHANGED pc
  /\ UNCHANGED <<manifest, extra, budget, refs>>

Inventory ==
  /\ pc = "inventory"
  /\ pc' = IF extra THEN "rejected" ELSE "stream"
  /\ UNCHANGED <<manifest, extra, i, remaining, budget, refs>>

Stream ==
  /\ pc = "stream"
  /\ IF i > Len(manifest) THEN pc' = "accepted" /\ UNCHANGED <<i, remaining, budget, refs>>
     ELSE LET f == manifest[i]
              r == preflightBudget(f, budget) IN
          IF r.ok THEN /\ i' = i + 1 /\ remaining' = remaining - f.size
                       /\ budget' = r.budget /\ refs' = Append(refs, f.path) /\ UNCHANGED pc
          ELSE pc' = "rejected" /\ UNCHANGED <<i, remaining, budget, refs>>
  /\ UNCHANGED <<manifest, extra>>

Next == Declare \/ Inventory \/ Stream
Spec == Init /\ [][Next]_vars

-----------------------------------------------------------------------------
(* What the verdict means, stated of the whole manifest at once. *)

Total(g(_), S) == FoldLeft(LAMBDA n, x : n + g(x), 0, S)
Size(x) == x.size
Packages == SelectSeq(manifest, LAMBDA f : f.type = "zip")
Expanded(f) == IF f.type = "xml" THEN f.size ELSE IF f.type = "zip" THEN Total(Size, f.body) ELSE 0
MemberCount(f) == IF f.type = "zip" THEN Len(f.body) ELSE 0
ImageCount(f) == IF f.type = "image" THEN 1
                 ELSE IF f.type = "zip" THEN Len(SelectSeq(f.body, LAMBDA m : m.kind = "image")) ELSE 0

Count(tokens, t) == Len(SelectSeq(tokens, LAMBDA x : x = t))
Depth(tokens, n, open, close) == Count(SubSeq(tokens, 1, n), open) - Count(SubSeq(tokens, 1, n), close)

\* One root, balanced, never deeper than the limit, and nothing but space outside the root.
OneTree(tokens, open, close, leaf) ==
  LET d(n) == Depth(tokens, n, open, close) IN
  /\ \A n \in 0..Len(tokens) : d(n) \in 0..XMLDepth
  /\ d(Len(tokens)) = 0
  /\ Cardinality({n \in 1..Len(tokens) : d(n - 1) = 0 /\ tokens[n] \in {open} \cup leaf}) = 1

WellFormedXML(tokens) ==
  /\ OneTree(tokens, "start", "end", {})
  /\ \A n \in 1..Len(tokens) :
       tokens[n] # "directive" /\ (tokens[n] = "text" => Depth(tokens, n, "start", "end") > 0)

SafePackage(f) ==
  /\ Total(Size, f.body) <= ExpansionRatio * f.size
  /\ \A j, k \in 1..Len(f.body) : f.body[j].name = f.body[k].name => j = k
  /\ \A j \in 1..Len(f.body) : LET m == f.body[j] IN
       /\ m.node = "file" /\ m.kind # "archive" /\ m.claims = m.size /\ m.size <= ScratchBytes
       /\ m.kind = "xml" => WellFormedXML(m.tokens)
       /\ m.kind = "image" => m.pixels <= Pixels

SafeFile(f) ==
  /\ f.node = "file" /\ f.onDisk = f.size
  /\ f.magic = IF f.type \in {"zip", "image"} THEN f.type ELSE "none"
  /\ f.type = "xml" => WellFormedXML(f.body)
  /\ f.type = "json" => OneTree(f.body, "open", "close", {"scalar"})
  /\ f.type = "zip" => SafePackage(f)
  /\ f.type = "image" => f.pixels <= Pixels

Safe ==
  /\ Len(manifest) \in 1..TempFiles /\ ~extra
  /\ \A j, k \in 1..Len(manifest) : manifest[j].path = manifest[k].path => j = k
  /\ \A j \in 1..Len(manifest) : SafeFile(manifest[j])
  /\ Total(Size, manifest) <= OutputBytes
  /\ Total(Expanded, manifest) <= ExpandedBytes
  /\ Total(MemberCount, manifest) <= Members
  /\ Total(ImageCount, manifest) <= Pages

\* Every variable has its shape.
TypeOK ==
  /\ pc \in {"declare", "inventory", "stream", "accepted", "rejected"}
  /\ i \in 1..(Len(manifest) + 1) /\ remaining \in 0..OutputBytes
  /\ budget.expanded \in 0..ExpandedBytes /\ budget.members \in 0..Members /\ budget.images \in 0..Pages

\* The streaming verdict is the whole-manifest one: exactly the safe manifests are accepted,
\* each limit counted over all outputs together, and the receipt names every output in order.
VerdictIsSafety ==
  /\ pc = "accepted" => Safe /\ refs = [j \in 1..Len(manifest) |-> manifest[j].path]
  /\ pc = "rejected" => ~Safe

=============================================================================
