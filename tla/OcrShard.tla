------------------------------ MODULE OcrShard ------------------------------
(***************************************************************************)
(* One bounded OCR shard of the batch pipeline (pkg/pipeline/ocr_all.go):  *)
(* the keyset page of scans, the preflight that admits scans within the    *)
(* byte and page budgets, the engines that read the admitted files (local  *)
(* process, Kaggle stream, Vision batch), the fan-out of one file's text   *)
(* to every document that shares the file, and the command that resumes at *)
(* the reported cursor.  A scan is a document id, a file is its hash, and  *)
(* of a text only its presence is kept.                                    *)
(***************************************************************************)
EXTENDS Integers, Sequences, FiniteSets, SequencesExt, FiniteSetsExt

CONSTANTS
  Docs,          \* document ids that have a scan: 1..n
  Sha,           \* the hash of each document's file, or NoSha
  NoSha,
  Bytes, Pages,  \* size of each file
  MaxItems, MaxInputBytes, MaxPages,
  Engine,        \* "local", "kaggle" or "documentai"
  Force,         \* read again the documents that have OCR text
  MaxFaults      \* bound on files, calls, rows and writes that fail

DocsAssumption == Docs \subseteq Nat \ {0} /\ IsFiniteSet(Docs)
LimitsAssumption == {MaxItems, MaxInputBytes, MaxPages} \subseteq Nat \ {0}

Shas == {Sha[d] : d \in Docs} \ {NoSha}

VARIABLES
  texts,     \* documents with an ocr_extractive text
  shard,     \* the owner of the shard: where it is and its local variables
  provider,  \* the goroutine that talks to the engine
  expired,   \* the deadline of the shard has passed
  after,     \* the cursor of the next command
  faults

vars == <<texts, shard, provider, expired, after, faults>>

-----------------------------------------------------------------------------
Idle == [pc |-> "idle", after |-> 0, scans |-> <<>>, k |-> 1, bad |-> [s \in Shas |-> "none"],
         accepted |-> {}, usedBytes |-> 0, usedPages |-> 0, cursor |-> 0, excluded |-> [d \in {} |-> "none"],
         complete |-> FALSE, todo |-> {}, again |-> {}, out |-> "none", fan |-> <<>>, completed |-> {},
         processed |-> 0, failed |-> 0, rejected |-> 0, err |-> FALSE]
Off == [pc |-> "off", rows |-> {}, read |-> {}, row |-> NoSha, ack |-> "none", done |-> "none"]

Init ==
  /\ texts = {}
  /\ shard = Idle
  /\ provider = Off
  /\ expired = FALSE
  /\ after = 0
  /\ faults = 0

Fault == faults < MaxFaults /\ faults' = faults + 1
(* An outcome is good for free and bad only while faults are left. *)
Outcome(ok) == IF ok THEN UNCHANGED faults ELSE Fault

\* ocrScanQuery: the documents that still need OCR, in id order.
ocrScanQuery(id) == {d \in Docs : d > id /\ (Force \/ d \notin texts)}

\* loadScansForOCRPage: one keyset page of them.
loadScansForOCRPage(id, limit) ==
  LET all == SetToSortSeq(ocrScanQuery(id), <)
  IN  SubSeq(all, 1, Min({limit, Len(all)}))

MLoad ==
  /\ shard.pc = "idle"
  /\ LET page  == loadScansForOCRPage(after, MaxItems)
         scans == SubSeq(page, 1, Min({MaxItems, Len(page)}))
     IN  shard' = [Idle EXCEPT !.pc = IF page = <<>> THEN "ended" ELSE "preflight",
                               !.after = after, !.scans = scans, !.cursor = after,
                               !.complete = Len(page) <= MaxItems]
  /\ expired' = FALSE
  /\ UNCHANGED <<texts, provider, after, faults>>

MLoadAll ==
  /\ shard.pc = "idle"
  /\ LET page  == loadScansForOCRPage(after, MaxItems + 1)
         scans == SubSeq(page, 1, Len(page))
     IN  shard' = [Idle EXCEPT !.pc = IF page = <<>> THEN "ended" ELSE "preflight",
                               !.after = after, !.scans = scans, !.cursor = after,
                               !.complete = Len(page) <= MaxItems]
  /\ expired' = FALSE
  /\ UNCHANGED <<texts, provider, after, faults>>

\* processOCRShard, before the page is processed: the page asks for one more than it takes.
Load ==
  /\ shard.pc = "idle"
  /\ LET page  == loadScansForOCRPage(after, MaxItems + 1)
         scans == SubSeq(page, 1, Min({MaxItems, Len(page)}))
     IN  shard' = [Idle EXCEPT !.pc = IF page = <<>> THEN "ended" ELSE "preflight",
                               !.after = after, !.scans = scans, !.cursor = after,
                               !.complete = Len(page) <= MaxItems]
  /\ expired' = FALSE
  /\ UNCHANGED <<texts, provider, after, faults>>

-----------------------------------------------------------------------------
(* The preflight: preflightOCRPageWith, one scan per step. *)

checkOCRInputBudget(bytes, pages) ==
  CASE bytes <= 0 \/ bytes > MaxInputBytes                -> "rejected"
    [] bytes > MaxInputBytes - shard.usedBytes            -> "full"
    [] pages >= 0 /\ (pages = 0 \/ pages > MaxPages)      -> "rejected"
    [] pages > MaxPages - shard.usedPages                 -> "full"
    [] OTHER                                              -> "accept"

\* What the preflight says of a scan whose file has not been seen in this page.
Inspect(sha, readable) ==
  IF expired \/ ~readable THEN "failed"
  ELSE LET first == checkOCRInputBudget(Bytes[sha], -1)
       IN  IF first = "accept" THEN checkOCRInputBudget(Bytes[sha], Pages[sha]) ELSE first

Decision(scan, readable) ==
  LET sha == Sha[scan]
  IN  CASE sha = NoSha               -> "rejected"
        [] sha # NoSha /\ shard.bad[sha] # "none"  -> shard.bad[sha]
        [] sha \in shard.accepted    -> "shared"
        [] OTHER                     -> Inspect(sha, readable)

Exclude(scan, why) ==
  [shard EXCEPT !.excluded = (scan :> why) @@ shard.excluded, !.cursor = scan, !.k = @ + 1,
                !.bad = IF Sha[scan] = NoSha THEN @ ELSE [@ EXCEPT ![Sha[scan]] = why]]
Accept(scan) ==
  [shard EXCEPT !.accepted = @ \cup {Sha[scan]}, !.cursor = scan, !.k = @ + 1,
                !.usedBytes = @ + Bytes[Sha[scan]], !.usedPages = @ + Pages[Sha[scan]]]

PreflightScan ==
  /\ shard.pc = "preflight" /\ shard.k <= Len(shard.scans)
  /\ \E readable \in BOOLEAN :
       LET scan == shard.scans[shard.k]
           says == Decision(scan, readable)
       IN  /\ Outcome(readable)
           /\ shard' = CASE says \in {"failed", "rejected"} -> Exclude(scan, says)
                         [] says = "shared" -> [shard EXCEPT !.cursor = scan, !.k = @ + 1]
                         [] says = "full"   -> [shard EXCEPT !.pc = "admit", !.complete = FALSE]
                         [] OTHER           -> Accept(scan)
  /\ UNCHANGED <<texts, provider, expired, after>>

PreflightEnds ==
  /\ shard.pc = "preflight" /\ shard.k > Len(shard.scans)
  /\ shard' = [shard EXCEPT !.pc = "admit"]
  /\ UNCHANGED <<texts, provider, expired, after, faults>>

admittedScans == SelectSeq(shard.scans, LAMBDA d : d <= shard.cursor)
scansBySHA(sha) == SelectSeq(admittedScans, LAMBDA d : Sha[d] = sha)

\* processOCRPageWith up to the call of the engine.
Admit ==
  /\ shard.pc = "admit"
  /\ LET out == {d \in DOMAIN shard.excluded : d <= shard.cursor}
     IN  shard' = [shard EXCEPT
           !.completed = out,
           !.rejected = Cardinality({d \in out : shard.excluded[d] = "rejected"}),
           !.failed = Cardinality({d \in out : shard.excluded[d] = "failed"}),
           !.todo = shard.accepted, !.err = expired,
           !.pc = IF expired \/ shard.accepted = {} THEN "returned" ELSE "run"]
  /\ UNCHANGED <<texts, provider, expired, after, faults>>

-----------------------------------------------------------------------------
(* The callback: onResult and persist, one document per step. *)

writeOCRResult(d) == texts' = texts \cup {d}

persist(s, d, out) ==
  IF out = "error"
  THEN [s EXCEPT !.failed = @ + 1, !.completed = @ \cup {d}]
  ELSE [s EXCEPT !.processed = @ + 1, !.completed = @ \cup {d}]

\* The pc the owner goes back to once onResult has returned.
AfterCallback == IF Engine = "kaggle" THEN "ack" ELSE "run"

onResult ==
  /\ shard.pc = "callback" /\ shard.fan # <<>>
  /\ LET d == Head(shard.fan) IN
     \E ok \in BOOLEAN :
       /\ Outcome(ok \/ expired)
       /\ \/ /\ shard.out = "error" /\ ok
             /\ UNCHANGED texts
             /\ shard' = persist([shard EXCEPT !.fan = Tail(@)], d, "error")
          \/ /\ shard.out = "text" /\ ok
             /\ writeOCRResult(d)
             /\ shard' = persist([shard EXCEPT !.fan = Tail(@)], d, "text")
          \/ /\ shard.out = "text" /\ ~ok
             /\ UNCHANGED texts
             /\ shard' = [shard EXCEPT !.fan = <<>>, !.err = TRUE]
  /\ UNCHANGED <<provider, expired, after>>

CallbackReturns ==
  /\ shard.pc = "callback" /\ shard.fan = <<>>
  /\ shard' = [shard EXCEPT !.pc = IF shard.err /\ Engine # "kaggle" THEN "returned" ELSE AfterCallback]
  /\ UNCHANGED <<texts, provider, expired, after, faults>>

\* The owner hands one file's output to the callback, which keeps no note of the files it has
\* had: "again" holds those that came more than once.
CallBack(sha, out) ==
  shard' = [shard EXCEPT !.pc = "callback", !.out = out, !.fan = scansBySHA(sha),
                         !.todo = @ \ {sha}, !.again = @ \cup ({sha} \ shard.todo)]

ReturnWith(err) == shard' = [shard EXCEPT !.pc = "returned", !.err = err]

-----------------------------------------------------------------------------
(* runOCRLocal: the files one by one, in this goroutine. *)

runOCRLocal ==
  /\ Engine = "local" /\ shard.pc = "run"
  /\ \/ (expired \/ shard.todo = {}) /\ ReturnWith(expired /\ shard.todo # {}) /\ UNCHANGED faults
     \/ /\ ~expired
        /\ \E sha \in shard.todo, ok \in BOOLEAN :
             Outcome(ok) /\ CallBack(sha, IF ok THEN "text" ELSE "error")
  /\ UNCHANGED <<texts, provider, expired, after>>

-----------------------------------------------------------------------------
(* runOCRDocumentAI: the batch in a goroutine, the fan-out in the owner. *)

\* Files that are gone again when the inputs are gathered are skipped.
GatherInputs ==
  /\ Engine # "local" /\ shard.pc = "run" /\ provider.pc = "off"
  /\ \/ expired /\ ReturnWith(TRUE) /\ UNCHANGED <<provider, faults>>
     \/ /\ ~expired
        /\ \E present \in SUBSET shard.todo :
             /\ Outcome(present = shard.todo)
             /\ provider' = [Off EXCEPT !.pc = "job", !.rows = present]
             /\ shard' = [shard EXCEPT !.todo = present]
  /\ UNCHANGED <<texts, expired, after>>

\* OCRBatch ends with a text for some of the inputs; it never returns an error.
BatchEnds ==
  /\ Engine = "documentai" /\ provider.pc = "job"
  /\ \E good \in SUBSET provider.rows :
       /\ Outcome(good = provider.rows)
       /\ provider' = [provider EXCEPT !.pc = "ended", !.rows = good, !.done = "ok"]
  /\ UNCHANGED <<texts, shard, expired, after>>

runOCRDocumentAI ==
  /\ Engine = "documentai" /\ shard.pc = "run" /\ provider.pc # "off"
  /\ \/ expired /\ provider.done # "read" /\ ReturnWith(TRUE) /\ UNCHANGED provider
     \/ provider.done = "ok" /\ provider' = [provider EXCEPT !.done = "read"] /\ UNCHANGED shard
     \/ /\ provider.done = "read" /\ UNCHANGED provider
        /\ \/ shard.todo = {} /\ ReturnWith(FALSE)
           \/ \E sha \in shard.todo : CallBack(sha, IF sha \in provider.rows THEN "text" ELSE "error")
  /\ UNCHANGED <<texts, expired, after, faults>>

-----------------------------------------------------------------------------
(* consumeOCRKaggleStream: the provider goroutine sends rows, the owner calls back. *)

runCtxDone == expired \/ shard.pc \in {"returned", "ended", "idle"}
ProviderEnds(how) == provider' = [provider EXCEPT !.pc = "ended", !.done = how]

\* The job as a whole fails, or its output file is there to be parsed.
KaggleJob ==
  /\ Engine = "kaggle" /\ provider.pc = "job"
  /\ \/ /\ runCtxDone \/ faults < MaxFaults
        /\ ProviderEnds("err")
        /\ faults' = IF runCtxDone THEN faults ELSE faults + 1
     \/ provider' = [provider EXCEPT !.pc = "parse"] /\ UNCHANGED faults
  /\ UNCHANGED <<texts, shard, expired, after>>

ReadRow(sha) ==
  provider' = [provider EXCEPT !.pc = "send", !.row = sha, !.rows = @ \ {sha}, !.read = @ \cup {sha}]

\* streamParseOCR: the next row of the output file, which may lack the row of a file, repeat
\* one (no row is looked up among those already read), or hold a line that does not parse.
streamParseOCR ==
  /\ provider.pc = "parse"
  /\ \/ provider.rows = {} /\ ProviderEnds("ok") /\ UNCHANGED faults
     \/ Fault /\ ProviderEnds("err")
     \/ \E sha \in provider.rows :
          \/ UNCHANGED faults /\ ReadRow(sha)
          \/ Fault /\ provider' = [provider EXCEPT !.rows = @ \ {sha}]
     \/ \E sha \in provider.read : Fault /\ ReadRow(sha)
  /\ UNCHANGED <<texts, shard, expired, after>>

\* The rendezvous on the results channel; the row may carry the error of its document.
Deliver ==
  /\ provider.pc = "send" /\ shard.pc = "run"
  /\ \E ok \in BOOLEAN : Outcome(ok) /\ CallBack(provider.row, IF ok THEN "text" ELSE "error")
  /\ provider' = [provider EXCEPT !.pc = "wait"]
  /\ UNCHANGED <<texts, expired, after>>

SendCancelled ==
  /\ provider.pc = "send" /\ runCtxDone
  /\ ProviderEnds("err")
  /\ UNCHANGED <<texts, shard, expired, after, faults>>

\* The owner acknowledges, and returns when the callback failed.
Acknowledge ==
  /\ shard.pc = "ack"
  /\ provider' = [provider EXCEPT !.ack = IF shard.err THEN "err" ELSE "ok"]
  /\ shard' = [shard EXCEPT !.pc = IF shard.err THEN "returned" ELSE "run"]
  /\ UNCHANGED <<texts, expired, after, faults>>

TakeAck ==
  /\ provider.pc = "wait"
  /\ \/ provider.ack = "ok"  /\ provider' = [provider EXCEPT !.pc = "parse", !.ack = "none"]
     \/ provider.ack = "err" /\ ProviderEnds("err")
     \/ provider.ack = "none" /\ runCtxDone /\ ProviderEnds("err")
  /\ UNCHANGED <<texts, shard, expired, after, faults>>

consumeOCRKaggleStream ==
  /\ Engine = "kaggle" /\ shard.pc = "run" /\ provider.pc # "off"
  /\ \/ expired /\ ReturnWith(TRUE) /\ UNCHANGED provider
     \/ provider.done # "none" /\ ReturnWith(provider.done = "err") /\ provider' = [provider EXCEPT !.done = "none"]
  /\ UNCHANGED <<texts, expired, after, faults>>

-----------------------------------------------------------------------------
unfinishedOCRScans == ToSet(admittedScans) \ shard.completed
\* The rest of processOCRPageWith and of OcrAll: count what got no result and report.
Report ==
  /\ shard.pc = "returned"
  /\ shard' = [shard EXCEPT !.pc = "ended", !.failed = @ + Cardinality(unfinishedOCRScans),
                            !.err = @ \/ expired]
  /\ UNCHANGED <<texts, provider, expired, after, faults>>

\* runOCRAllShard and the operator: an incomplete shard is resumed at its cursor, and
\* what failed is read again from the start.
Resume ==
  /\ shard.pc = "ended" /\ (Force \/ texts # Docs)
  /\ after' = IF shard.complete THEN 0 ELSE shard.cursor
  /\ shard' = Idle
  /\ provider.pc \in {"off", "ended"}
  /\ provider' = Off
  /\ UNCHANGED <<texts, expired, faults>>

Expire ==
  /\ shard.pc \notin {"idle", "ended"} /\ ~expired
  /\ Fault
  /\ expired' = TRUE
  /\ UNCHANGED <<texts, shard, provider, after>>

OwnerStep ==
  Load \/ PreflightScan \/ PreflightEnds \/ Admit \/ onResult \/ CallbackReturns \/ runOCRLocal
  \/ GatherInputs \/ runOCRDocumentAI \/ Acknowledge \/ consumeOCRKaggleStream \/ Report
ProviderStep == BatchEnds \/ KaggleJob \/ streamParseOCR \/ SendCancelled \/ TakeAck
Next == OwnerStep \/ ProviderStep \/ Deliver \/ Resume \/ Expire

Spec == Init /\ [][Next]_vars
Fairness ==
  /\ WF_vars(OwnerStep) /\ WF_vars(ProviderStep) /\ WF_vars(Deliver) /\ WF_vars(Resume)
FairSpec == Spec /\ Fairness

-----------------------------------------------------------------------------
TypeOK ==
  /\ texts \subseteq Docs
  /\ shard.pc \in {"idle", "preflight", "admit", "run", "callback", "ack", "returned", "ended"}
  /\ shard.accepted \subseteq Shas /\ shard.todo \subseteq Shas
  /\ ToSet(shard.scans) \subseteq Docs /\ Len(shard.scans) <= MaxItems
  /\ shard.completed \subseteq Docs
  /\ provider.pc \in {"off", "job", "parse", "send", "wait", "ended"}
  /\ after \in Nat /\ faults \in 0..MaxFaults

(* The report leaves out no document at or below the cursor it hands to the next command.
   It counts each once, and calls processed only what has a text, unless the output of the
   remote job repeats the row of a file: the documents of that file are then counted for
   every copy. *)
AllCounted ==
  shard.pc = "ended" =>
    LET counted == shard.processed + shard.failed + shard.rejected
    IN  /\ counted >= Len(admittedScans)
        /\ shard.again = {} => /\ counted = Len(admittedScans)
                               /\ shard.processed <= Cardinality(ToSet(admittedScans) \cap texts)

(* A shard that reports no error and no failed or rejected document has written the text of
   every document between the cursor it was given and the cursor it reports: one file's
   text reaches all the documents that share the file. *)
Clean == ~shard.err /\ shard.failed = 0 /\ shard.rejected = 0
CleanMeansRead ==
  shard.pc = "ended" /\ Clean => {d \in Docs : shard.after < d /\ d <= shard.cursor} \subseteq texts

(* Complete means that the page held the last of the scans, and an incomplete shard moves
   the cursor, so that resuming makes progress. *)
CursorHonest ==
  shard.pc = "ended" =>
    /\ shard.complete => {d \in ocrScanQuery(0) : d > shard.cursor} = {}
    /\ ~shard.complete => shard.cursor > shard.after

(* The files handed to the engine fit the budgets of the shard. *)
WithinBudget ==
  /\ MapThenSumSet(LAMBDA s : Bytes[s], shard.accepted) <= MaxInputBytes
  /\ MapThenSumSet(LAMBDA s : Pages[s], shard.accepted) <= MaxPages

(* consumeOCRKaggleStream: once the shard has returned, nothing of it changes until the next
   command, whatever the provider goroutine still does. *)
NoLateCallback ==
  [][shard.pc = "ended" /\ shard'.pc # "idle" => shard' = shard]_vars

(* Resuming at the reported cursor and starting again for what failed gets every scan that can
   be read at all within the budgets. *)
Readable == {d \in Docs : /\ Sha[d] # NoSha
                          /\ Bytes[Sha[d]] \in 1..MaxInputBytes
                          /\ Pages[Sha[d]] \in 1..MaxPages}
AllRead == <>(Readable \subseteq texts)
=============================================================================
