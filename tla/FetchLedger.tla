---------------------------- MODULE FetchLedger ----------------------------
(***************************************************************************)
(* The fetch ledger of the batch pipeline: documents and their artifacts   *)
(* (body, provision tree, files) in PostgreSQL, the discovery that opens   *)
(* them, and the fetch run that claims artifacts under a lease and works   *)
(* on them concurrently.  Every statement commits by itself, so each one   *)
(* is an action; a job may be abandoned between any two of them, because   *)
(* its process died or its context ended.                                  *)
(*                                                                         *)
(* Timers are relative: lease, next and treeAfter hold the time left, and  *)
(* a Tick brings them closer.  A revision stands for everything a source   *)
(* shows of a document at one time: its fingerprint, body and file URLs.   *)
(***************************************************************************)
EXTENDS Integers, FiniteSets

CONSTANTS
    Docs, Files,        \* documents of one source; the ref keys of files
    Jobs, Slices,       \* goroutines of fetch runs; discovery slices at once
    Trees,              \* whether the source is an ingest.TreeProvider
    Lease, Backoff, TreeDelay, MaxAttempts, MaxTreeRechecks, MaxContentRechecks,
    MaxRevision, MaxFaults, MaxBackfills,   \* bounds on the environment
    Overlapping,        \* whether Discover may run beside Fetch
    Windows             \* the steps before which a job may be abandoned

FetchConstants == Lease > 0 /\ MaxAttempts > 0 /\ Trees \in BOOLEAN /\ Overlapping \in BOOLEAN

VARIABLES
    site,      \* what the source shows of each document
    doc,       \* ingest.fetch_doc
    art,       \* ingest.fetch_artifact, by document and kind or ref key
    bronze,    \* bronze.source_document, raw_payload and raw_file
    aliased,   \* documents that Normalize has given a silver alias
    job,       \* the goroutines of fetch runs
    slice,     \* discovery in progress
    faults, backfills

vars == <<site, doc, art, bronze, aliased, job, slice, faults, backfills>>

NoTimer == -1
Unknown == -1       \* no fingerprint recorded
Relation == 0       \* the fingerprint of a document known from a relation only
Kinds == {"body", "tree"} \cup Files
Good == {"done", "skipped", "superseded"}
Terminal == Good \cup {"dead"}

NoArtifact == [state |-> "none", lease |-> 0, attempts |-> 0, next |-> 0, url |-> 0]
NoDoc == [state |-> "none", plan |-> FALSE, hash |-> Unknown, recheck |-> FALSE, rechecks |-> 0,
          treeAfter |-> NoTimer, treeCount |-> 0]
NoBronze == [row |-> FALSE, body |-> 0, files |-> [f \in Files |-> 0], tree |-> FALSE]
Idle == [pc |-> "idle", doc |-> "", art |-> "", url |-> 0, rev |-> 0, files |-> {}, todo |-> {}, count |-> 0, left |-> 0]
NoListing == [pc |-> "idle", doc |-> "", hash |-> 0]

Init ==
    /\ site \in [Docs -> [rev : {1}, files : SUBSET Files, tree : {FALSE}]]
    /\ doc = [d \in Docs |-> NoDoc]
    /\ art = [d \in Docs |-> [k \in Kinds |-> NoArtifact]]
    /\ bronze = [d \in Docs |-> NoBronze]
    /\ aliased = {}
    /\ job = [j \in Jobs |-> Idle]
    /\ slice = [s \in Slices |-> NoListing]
    /\ faults = 0
    /\ backfills = 0

Fetching == \E j \in Jobs : job[j].pc # "idle"
Discovering == \E s \in Slices : slice[s].pc # "idle"

----------------------------------------------------------------------------
(* Statements of the ledger, as functions of the rows they change.         *)

Reopened(r) == [r EXCEPT !.state = "discovered", !.plan = FALSE, !.treeAfter = NoTimer, !.treeCount = 0,
                         !.recheck = FALSE, !.rechecks = 0]

UpsertFetchDoc(r, hash) ==
    [(IF r.hash # hash THEN Reopened(r) ELSE r) EXCEPT !.hash = hash]

Rearmed(r, state) == state \in Terminal /\ r.state = "discovered" /\ ~r.plan

MEnqueueArtifact(r, a, url) ==
    IF a.state \in Terminal THEN [a EXCEPT !.url = url]
    ELSE [a EXCEPT !.state = "pending", !.lease = 0, !.next = 0, !.url = url]

EnqueueArtifact(r, a, url) ==
    IF Rearmed(r, a.state) THEN [NoArtifact EXCEPT !.state = "pending", !.url = url]
    ELSE IF a.state \in Terminal THEN [a EXCEPT !.url = url]
    ELSE [a EXCEPT !.state = "pending", !.lease = 0, !.next = 0, !.url = url]

SupersedeMissingFileArtifacts(rows, active) ==
    [k \in Kinds |-> IF k \in Files \ active /\ rows[k].state # "none"
                     THEN [rows[k] EXCEPT !.state = "superseded", !.lease = 0, !.next = 0] ELSE rows[k]]

MSetDocPlanReady(r) == [r EXCEPT !.recheck = FALSE, !.state = IF @ = "discovered" THEN "fetching" ELSE @]

SetDocPlanReady(r) ==
    [r EXCEPT !.plan = TRUE, !.recheck = FALSE, !.state = IF @ = "discovered" THEN "fetching" ELSE @]

MarkArtifactDone(a) == [a EXCEPT !.state = "done", !.lease = 0, !.next = 0]
MarkArtifactSkipped(a) == [a EXCEPT !.state = "skipped", !.lease = 0, !.next = 0]
MarkArtifactError(a) ==
    [a EXCEPT !.state = IF a.attempts >= MaxAttempts THEN "dead" ELSE "error", !.lease = 0, !.next = Backoff]

(* A compare-and-set over the child rows; only a planned document matches. *)
MarkDocCompleteIfDone(r, rows) ==
    LET states == {rows[k].state : k \in Kinds} \ {"none"} IN
    IF ~r.plan \/ states \cap {"pending", "claimed", "error"} # {} THEN r
    ELSE [r EXCEPT !.state = IF "dead" \in states THEN "partial" ELSE "complete"]

ScheduleTreeRecheck(r, count) ==
    IF count >= MaxTreeRechecks THEN [r EXCEPT !.treeAfter = NoTimer]
    ELSE [r EXCEPT !.treeAfter = TreeDelay, !.treeCount = @ + 1]

ClearTreeRecheck(r) == [r EXCEPT !.treeAfter = NoTimer]

----------------------------------------------------------------------------
(* Discovery: a slice lists a document and records it in four statements.  *)

(* Discover lists what the source shows; Normalize and the backfill list a *)
(* relation's target, whose fingerprint is another one.                    *)
List(s, d, hash) ==
    /\ slice[s].pc = "idle"
    /\ Overlapping \/ ~Fetching
    /\ slice' = [slice EXCEPT ![s] = [pc |-> "listed", doc |-> d, hash |-> hash]]
    /\ UNCHANGED <<site, doc, art, bronze, aliased, job, faults>>

Discover(s, d) ==
    /\ List(s, d, site[d].rev)
    /\ UNCHANGED backfills

BackfillRelationTarget(s, d) ==
    /\ d \notin aliased
    /\ backfills < MaxBackfills
    /\ List(s, d, Relation)
    /\ backfills' = backfills + 1

RecordFetchDoc(s) ==
    /\ slice[s].pc = "listed"
    /\ doc' = [doc EXCEPT ![slice[s].doc] = UpsertFetchDoc(@, slice[s].hash)]
    /\ slice' = [slice EXCEPT ![s].pc = "body"]
    /\ UNCHANGED <<site, art, bronze, aliased, job, faults, backfills>>

RecordBody(s) ==
    LET d == slice[s].doc IN
    /\ slice[s].pc = "body"
    /\ art' = [art EXCEPT ![d]["body"] = EnqueueArtifact(doc[d], @, slice[s].hash)]
    /\ slice' = [slice EXCEPT ![s].pc = "bronze"]
    /\ UNCHANGED <<site, doc, bronze, aliased, job, faults, backfills>>

RecordBronze(s) ==
    /\ slice[s].pc = "bronze"
    /\ bronze' = [bronze EXCEPT ![slice[s].doc].row = TRUE]
    /\ slice' = [slice EXCEPT ![s] = NoListing]
    /\ UNCHANGED <<site, doc, art, aliased, job, faults, backfills>>

(* A slice stops between two statements; its cursor has not moved, so a    *)
(* later slice lists the document again.                                   *)
AbandonSlice(s) ==
    /\ slice[s].pc # "idle"
    /\ faults < MaxFaults
    /\ faults' = faults + 1
    /\ slice' = [slice EXCEPT ![s] = NoListing]
    /\ UNCHANGED <<site, doc, art, bronze, aliased, job, backfills>>

----------------------------------------------------------------------------
(* Claiming.                                                               *)

Due(d, k) ==
    LET a == art[d][k] IN
    /\ ~(k \in Files /\ doc[d].recheck)
    /\ \/ a.state \in {"pending", "error"} /\ a.next = 0 /\ a.lease = 0
       \/ a.state = "claimed" /\ a.lease = 0
       \/ k = "tree" /\ doc[d].treeAfter = 0 /\ a.state \in {"skipped", "superseded"}

Rank(d, k) ==
    CASE k = "body" /\ doc[d].recheck -> 0
      [] k = "tree" /\ doc[d].treeAfter # NoTimer -> 1
      [] k \in Files -> 2
      [] k = "tree" -> 3
      [] OTHER -> 4

(* One batch: the due artifacts first in rank, as many as there are free   *)
(* goroutines; dealt is how the goroutines share them.                     *)
ClaimArtifacts(dealt) ==
    LET due == {<<d, k>> \in Docs \X Kinds : Due(d, k)}
        free == {j \in Jobs : job[j].pc = "idle"}
        taken == {dealt[j] : j \in DOMAIN dealt}
    IN
    /\ Overlapping \/ ~Discovering
    /\ DOMAIN dealt \subseteq free
    /\ taken \subseteq due
    /\ taken # {}
    /\ Cardinality(taken) = Cardinality(DOMAIN dealt)
    /\ taken = due \/ DOMAIN dealt = free
    /\ \A x \in taken, y \in due \ taken : Rank(x[1], x[2]) <= Rank(y[1], y[2])
    /\ art' = [d \in Docs |-> [k \in Kinds |->
                 IF <<d, k>> \in taken
                 THEN [art[d][k] EXCEPT !.state = "claimed", !.lease = Lease, !.attempts = @ + 1]
                 ELSE art[d][k]]]
    /\ job' = [j \in Jobs |->
                 IF j \notin DOMAIN dealt THEN job[j]
                 ELSE [Idle EXCEPT !.pc = "start", !.doc = dealt[j][1], !.art = dealt[j][2],
                                   !.url = art[dealt[j][1]][dealt[j][2]].url, !.left = Lease]]
    /\ UNCHANGED <<site, doc, bronze, aliased, slice, faults, backfills>>

Claim == \E n \in 1..Cardinality(Jobs) : \E S \in {T \in SUBSET Jobs : Cardinality(T) = n} :
           \E dealt \in [S -> Docs \X Kinds] : ClaimArtifacts(dealt)

----------------------------------------------------------------------------
(* The steps of a goroutine.                                               *)

At(j, pc) == job[j].pc = pc
Goto(j, pc) == job' = [job EXCEPT ![j].pc = pc]
MyArt(j) == art[job[j].doc][job[j].art]
SetArt(j, a) == art' = [art EXCEPT ![job[j].doc][job[j].art] = a]

(* PlanBody fetches the detail page.                                       *)
FetchDetail(j) ==
    LET d == job[j].doc IN
    /\ At(j, "start")
    /\ job[j].art = "body"
    /\ \/ job' = [job EXCEPT ![j].pc = "plan", ![j].rev = site[d].rev, ![j].files = site[d].files,
                             ![j].todo = site[d].files]
       \/ Goto(j, "fail")
    /\ UNCHANGED <<site, doc, art, bronze, aliased, slice, faults, backfills>>

PlanBronze(j) ==
    /\ At(j, "plan")
    /\ bronze' = [bronze EXCEPT ![job[j].doc].row = TRUE, ![job[j].doc].body = job[j].rev]
    /\ Goto(j, IF Trees THEN "tree" ELSE "files")
    /\ UNCHANGED <<site, doc, art, aliased, slice, faults, backfills>>

PlanTree(j) ==
    LET d == job[j].doc IN
    /\ At(j, "tree")
    /\ art' = [art EXCEPT ![d]["tree"] = EnqueueArtifact(doc[d], @, job[j].rev)]
    /\ Goto(j, "files")
    /\ UNCHANGED <<site, doc, bronze, aliased, slice, faults, backfills>>

PlanFile(j, f) ==
    LET d == job[j].doc IN
    /\ At(j, "files")
    /\ f \in job[j].todo
    /\ art' = [art EXCEPT ![d][f] = EnqueueArtifact(doc[d], @, job[j].rev)]
    /\ job' = [job EXCEPT ![j].todo = @ \ {f}]
    /\ UNCHANGED <<site, doc, bronze, aliased, slice, faults, backfills>>

PlanMissing(j) ==
    LET d == job[j].doc IN
    /\ At(j, "files")
    /\ job[j].todo = {}
    /\ art' = [art EXCEPT ![d] = SupersedeMissingFileArtifacts(@, job[j].files)]
    /\ Goto(j, "ready")
    /\ UNCHANGED <<site, doc, bronze, aliased, slice, faults, backfills>>

PlanReady(j) ==
    /\ At(j, "ready")
    /\ doc' = [doc EXCEPT ![job[j].doc] = SetDocPlanReady(@)]
    /\ Goto(j, "mark")
    /\ UNCHANGED <<site, art, bronze, aliased, slice, faults, backfills>>

(* FetchTree asks the source; without a source_document row it fails.      *)
FetchTree(j) ==
    LET d == job[j].doc IN
    /\ At(j, "start")
    /\ job[j].art = "tree"
    /\ IF ~bronze[d].row THEN Goto(j, "fail")
       ELSE \/ Goto(j, "skip")
            \/ site[d].tree /\ Goto(j, "keep")
    /\ UNCHANGED <<site, doc, art, bronze, aliased, slice, faults, backfills>>

SkipTree(j) ==
    /\ At(j, "skip")
    /\ SetArt(j, MarkArtifactSkipped(MyArt(j)))
    /\ job' = [job EXCEPT ![j].pc = "recheck", ![j].count = doc[job[j].doc].treeCount]
    /\ UNCHANGED <<site, doc, bronze, aliased, slice, faults, backfills>>

RecheckTree(j) ==
    /\ At(j, "recheck")
    /\ doc' = [doc EXCEPT ![job[j].doc] = ScheduleTreeRecheck(@, job[j].count)]
    /\ Goto(j, "finalize")
    /\ UNCHANGED <<site, art, bronze, aliased, slice, faults, backfills>>

KeepTree(j) ==
    /\ At(j, "keep")
    /\ bronze' = [bronze EXCEPT ![job[j].doc].tree = TRUE]
    /\ Goto(j, "mark")
    /\ UNCHANGED <<site, doc, art, aliased, slice, faults, backfills>>

(* FetchFile downloads what the artifact's URL names.                      *)
FetchFile(j) ==
    /\ At(j, "start")
    /\ job[j].art \in Files
    /\ \/ bronze[job[j].doc].row /\ Goto(j, "store")
       \/ Goto(j, "fail")
    /\ UNCHANGED <<site, doc, art, bronze, aliased, slice, faults, backfills>>

StoreFile(j) ==
    /\ At(j, "store")
    /\ bronze' = [bronze EXCEPT ![job[j].doc].files[job[j].art] = job[j].url]
    /\ Goto(j, "mark")
    /\ UNCHANGED <<site, doc, art, aliased, slice, faults, backfills>>

FailArtifact(j) ==
    /\ At(j, "fail")
    /\ SetArt(j, MarkArtifactError(MyArt(j)))
    /\ Goto(j, "finalize")
    /\ UNCHANGED <<site, doc, bronze, aliased, slice, faults, backfills>>

MarkDone(j) ==
    /\ At(j, "mark")
    /\ SetArt(j, MarkArtifactDone(MyArt(j)))
    /\ Goto(j, IF job[j].art = "tree" THEN "clear" ELSE "finalize")
    /\ UNCHANGED <<site, doc, bronze, aliased, slice, faults, backfills>>

ClearTree(j) ==
    /\ At(j, "clear")
    /\ doc' = [doc EXCEPT ![job[j].doc] = ClearTreeRecheck(@)]
    /\ Goto(j, "finalize")
    /\ UNCHANGED <<site, art, bronze, aliased, slice, faults, backfills>>

FinalizeDoc(j) ==
    LET d == job[j].doc IN
    /\ At(j, "finalize")
    /\ doc' = [doc EXCEPT ![d] = MarkDocCompleteIfDone(@, art[d])]
    /\ job' = [job EXCEPT ![j] = Idle]
    /\ UNCHANGED <<site, art, bronze, aliased, slice, faults, backfills>>

(* The run's context ends at the lease's end, or its process dies.         *)
AbandonJob(j) ==
    /\ job[j].pc \in Windows
    /\ faults < MaxFaults
    /\ faults' = faults + 1
    /\ job' = [job EXCEPT ![j] = Idle]
    /\ UNCHANGED <<site, doc, art, bronze, aliased, slice, backfills>>

----------------------------------------------------------------------------
(* Other stages and the world.                                             *)

(* Extract finds only placeholder text in a fetched document.              *)
ScheduleSourceContentRecheck(d) ==
    /\ doc[d].state \in {"complete", "partial"}
    /\ doc[d].rechecks < MaxContentRechecks
    /\ Overlapping \/ ~Fetching
    /\ doc' = [doc EXCEPT ![d].state = "discovered", ![d].plan = FALSE, ![d].recheck = TRUE, ![d].rechecks = @ + 1]
    /\ art' = [art EXCEPT ![d] = [k \in Kinds |->
                 IF k # "tree" /\ @[k].state # "none"
                 THEN [@[k] EXCEPT !.state = "pending", !.lease = 0, !.attempts = 0, !.next = 1] ELSE @[k]]]
    /\ UNCHANGED <<site, bronze, aliased, job, slice, faults, backfills>>

Normalize(d) ==
    /\ doc[d].state \in {"complete", "partial"}
    /\ d \notin aliased
    /\ aliased' = aliased \cup {d}
    /\ UNCHANGED <<site, doc, art, bronze, job, slice, faults, backfills>>

SourceChanges(d, files, tree) ==
    /\ site[d].rev < MaxRevision
    /\ site' = [site EXCEPT ![d] = [rev |-> site[d].rev + 1, files |-> files, tree |-> tree]]
    /\ UNCHANGED <<doc, art, bronze, aliased, job, slice, faults, backfills>>

Sooner(t) == IF t > 0 THEN t - 1 ELSE t

Timers == \E d \in Docs : doc[d].treeAfter > 0 \/ \E k \in Kinds : art[d][k].lease + art[d][k].next > 0

Tick ==
    /\ Timers
    /\ \A j \in Jobs : job[j].pc # "idle" => job[j].left > 1
    /\ doc' = [d \in Docs |-> [doc[d] EXCEPT !.treeAfter = Sooner(@)]]
    /\ art' = [d \in Docs |-> [k \in Kinds |-> [art[d][k] EXCEPT !.lease = Sooner(@), !.next = Sooner(@)]]]
    /\ job' = [j \in Jobs |-> [job[j] EXCEPT !.left = Sooner(@)]]
    /\ UNCHANGED <<site, bronze, aliased, slice, faults, backfills>>

SliceStep(s) == RecordFetchDoc(s) \/ RecordBody(s) \/ RecordBronze(s)

JobStep(j) ==
    \/ FetchDetail(j) \/ PlanBronze(j) \/ PlanTree(j) \/ (\E f \in Files : PlanFile(j, f)) \/ PlanMissing(j)
    \/ PlanReady(j) \/ FetchTree(j) \/ SkipTree(j) \/ RecheckTree(j) \/ KeepTree(j) \/ FetchFile(j) \/ StoreFile(j)
    \/ FailArtifact(j) \/ MarkDone(j) \/ ClearTree(j) \/ FinalizeDoc(j)

Next ==
    \/ \E s \in Slices : SliceStep(s) \/ AbandonSlice(s)
    \/ \E s \in Slices, d \in Docs : Discover(s, d) \/ BackfillRelationTarget(s, d)
    \/ Claim
    \/ \E j \in Jobs : JobStep(j) \/ AbandonJob(j)
    \/ \E d \in Docs : ScheduleSourceContentRecheck(d) \/ Normalize(d)
    \/ \E d \in Docs, files \in SUBSET Files, tree \in BOOLEAN : SourceChanges(d, files, tree)
    \/ Tick

Spec == Init /\ [][Next]_vars

(* Goroutines and slices run on, both commands are run again and again,    *)
(* and time passes.  Nothing makes a source change or answer.              *)
FairSpec ==
    /\ Spec
    /\ \A s \in Slices : WF_vars(SliceStep(s))
    /\ \A j \in Jobs : WF_vars(JobStep(j))
    /\ \A d \in Docs : SF_vars(\E s \in Slices : Discover(s, d))
    /\ SF_vars(Claim)
    /\ SF_vars(Tick)

----------------------------------------------------------------------------
Steps == {"start", "plan", "tree", "files", "ready", "skip", "recheck", "keep", "store", "fail", "mark", "clear", "finalize"}
Closing == {"recheck", "clear", "finalize"}
States == {"none", "discovered", "fetching", "complete", "partial"}
ArtifactStates == {"none", "pending", "claimed", "error"} \cup Terminal

(* A document reaches a planned state only with an artifact for its body,  *)
(* and a held claim always has a lease to run out.                         *)
TypeOK ==
    \A d \in Docs :
      /\ doc[d].state \in States
      /\ doc[d].rechecks \in 0..MaxContentRechecks
      /\ doc[d].treeCount \in 0..MaxTreeRechecks
      /\ \A k \in Kinds : art[d][k].state \in ArtifactStates
      /\ doc[d].plan => art[d]["body"].state # "none"

(* A complete document whose recorded fingerprint is what the source still *)
(* shows has that revision's body in bronze, however plans were cut short, *)
(* repeated or overtaken by discovery between two fetch runs.              *)
BodyIsCurrent ==
    \A d \in Docs : doc[d].state = "complete" /\ doc[d].hash = site[d].rev => bronze[d].body = site[d].rev

(* And it has every file of that revision.                                 *)
CompleteIsCurrent ==
    \A d \in Docs :
      doc[d].state = "complete" /\ doc[d].hash = site[d].rev =>
        \A f \in site[d].files : bronze[d].files[f] = site[d].rev

(* The state of a planned document is no lying flag (a comment of          *)
(* MarkDocCompleteIfDone): it is complete only with every artifact good,   *)
(* and partial only when nothing is left to try, a tree that is checked    *)
(* again aside.                                                            *)
CompleteIsTerminal ==
    \A d \in Docs :
      doc[d].state \in {"complete", "partial"} =>
        /\ \A k \in Kinds \ {"tree"} :
             art[d][k].state \in (Good \cup {"none"} \cup IF doc[d].state = "partial" THEN {"dead"} ELSE {})
        /\ art[d]["body"].state # "none"

(* Enqueueing a file again lets a re-plan pick up its moved URL, as the    *)
(* comment of EnqueueArtifact says, whatever the batch does beside it.     *)
ReplanPicksUpURLs == CompleteIsCurrent

(* A changed fingerprint re-opens the document so that Fetch plans it      *)
(* again, as the comment of UpsertFetchDoc says, also under a plan.        *)
ReopenedIsReplanned == BodyIsCurrent

(* A document that waits to be fetched is fetched, as far as its artifacts *)
(* allow, or its body is dead-lettered.                                    *)
DocumentsSettle ==
    \A d \in Docs : doc[d].state \in {"discovered", "fetching"} /\ art[d]["body"].state # "none" ~>
                    doc[d].state \in {"complete", "partial"} \/ art[d]["body"].state = "dead"

(* Planned documents that are not yet complete are driven to done, also    *)
(* when the job that worked on their last artifact is interrupted.         *)
InterruptedSettle == DocumentsSettle

(* A scheduled tree check is made, and the series of checks ends.          *)
TreeRechecksEnd ==
    \A d \in Docs : doc[d].treeAfter # NoTimer ~> doc[d].treeAfter = NoTimer
=============================================================================
