---------------------------- MODULE CorpusRefresh ----------------------------
(***************************************************************************)
(* The refresh workflow of one country build and its activities            *)
(* (internal/corpus/workflow/temporal: workflow.go, activities.go,         *)
(* types.go), over the external_job and stage_result rows                  *)
(* (pkg/store/ingest/queries.sql.go).                                      *)
(*                                                                         *)
(* The workflow walks the fixed stages.  Each scan prepares a shard; a     *)
(* direct stage executes it, an external stage prepares, submits, polls    *)
(* and applies a provider job; a stage ends when a preparation reports it  *)
(* exhausted.  Activities run at least once: an attempt that times out is  *)
(* retried while its call may still be running (heartbeatCall leaves the   *)
(* call behind), so a slot holds a call and only the current one is heard. *)
(*                                                                         *)
(* The ports behind the activities are injected; they are modelled from    *)
(* their contracts in types.go and the statements they are given.          *)
(***************************************************************************)
EXTENDS Integers, FiniteSets, Sequences

CONSTANTS
    fixedStages,    \* the stages in order; the last one is "activate"
    Inputs,         \* stage -> how many shards its input makes
    Outcomes,       \* what a shard may end as: "done", "retry", "gap"
    Slots,          \* calls alive at once
    MaxAttempts, MaxScansPerRun, MaxStageScans,
    Deadline, PollInterval,     \* of State
    MayCancel,      \* whether a caller may cancel the workflow
    MaxRetries      \* bound on "retry" outcomes

VARIABLES
    now,
    wf,             \* State and the position of the workflow
    call,           \* slot -> an activity call
    prepared,       \* <<stage, scan>> -> what that scan was answered
    inputs, gaps,   \* stage -> pending shards, unresolved blocking gaps
    retries,        \* how often an input was put back
    fence,          \* the fence of the build's scheduler lease
    results,        \* stage_result rows: key -> outcome
    job,            \* external_job rows: key -> row
    provider,       \* key -> [submissions, state]
    activated

vars == <<now, wf, call, prepared, inputs, gaps, retries, fence, results, job, provider, activated>>

None == "none"
NoKey == <<"none", 0>>
Stages == {fixedStages[i] : i \in DOMAIN fixedStages}
isExternalStage(stage) == stage \in {"ocr", "dense"}
Put(f, k, v) == [x \in DOMAIN f \cup {k} |-> IF x = k THEN v ELSE f[x]]

NoJob == [key |-> NoKey, state |-> None, fence |-> 0, ref |-> FALSE, result |-> FALSE]
NoCall == [kind |-> None, pc |-> None, key |-> NoKey, fence |-> 0, reply |-> None, outcome |-> None, job |-> NoJob]
NoRow == [state |-> None, fence |-> 0, ref |-> FALSE, result |-> FALSE, cancel |-> FALSE]

(* validateNewStart: a new workflow carries no progress. *)
NewState == [status |-> "running", pc |-> "loop", phase |-> 1, manifest |-> NoKey, fence |-> 0, scan |-> 0,
             scans |-> 0, job |-> NoJob, counted |-> 0, until |-> 0, next |-> None, slot |-> 0, attempt |-> 0,
             request |-> NoCall, cancelled |-> FALSE, detail |-> None, runs |-> 1]

Init ==
    /\ now = 1
    /\ wf = NewState
    /\ call = [s \in Slots |-> NoCall]
    /\ prepared = <<>> /\ inputs = Inputs
    /\ gaps = [s \in Stages |-> 0] /\ retries = 0
    /\ fence = 0 /\ results = <<>> /\ job = <<>> /\ provider = <<>>
    /\ activated = FALSE

Phase == fixedStages[wf.phase]

Ledger == <<prepared, inputs, gaps, retries, results>>
World == <<fence, job, provider, activated>>

-----------------------------------------------------------------------------
(* Activity calls.                                                         *)

Free(s) == call[s].kind = None

(* newActivityContext and ExecuteActivity: refused once the deadline is past. *)
Fail(why) == wf' = [wf EXCEPT !.status = "failed", !.pc = "ended", !.detail = why]

Schedule(kind, key, carried) ==
    IF now >= Deadline THEN Fail("deadline") /\ UNCHANGED call
    ELSE \E s \in Slots :
        /\ Free(s)
        /\ LET c == [NoCall EXCEPT !.kind = kind, !.pc = "start", !.key = key, !.job = carried] IN
           /\ call' = [call EXCEPT ![s] = c]
           /\ wf' = [wf EXCEPT !.pc = "await", !.slot = s, !.attempt = 1, !.request = c, !.next = kind]

Say(s, reply) == call' = [call EXCEPT ![s].pc = "replied", ![s].reply = reply]

(* The attempt times out or its worker is lost: the call dies or goes on   *)
(* unheard; a retry starts in another slot until the attempts are used up. *)
LoseAttempt(s, survives) ==
    LET orphan == IF survives THEN call[s] ELSE NoCall IN
    /\ wf.pc \in {"await", "cleanup"} /\ wf.slot = s /\ call[s].pc # None
    /\ IF wf.attempt = MaxAttempts
       THEN /\ call' = [call EXCEPT ![s] = orphan]
            /\ IF wf.pc = "cleanup"
               THEN wf' = [wf EXCEPT !.status = "cancelled", !.pc = "ended", !.detail = "external_cleanup_failed"]
               ELSE Fail("activity")
       ELSE \E n \in Slots :
            /\ Free(n) \/ (n = s /\ ~survives)
            /\ call' = [call EXCEPT ![s] = orphan, ![n] = wf.request]
            /\ wf' = [wf EXCEPT !.slot = n, !.attempt = wf.attempt + 1]
    /\ UNCHANGED <<now, Ledger, World>>

Current(s) == wf.pc \in {"await", "cleanup"} /\ wf.slot = s

(* A call nobody hears ends. *)
Forget(s) ==
    /\ call[s].pc = "replied" /\ ~Current(s)
    /\ call' = [call EXCEPT ![s] = NoCall]
    /\ UNCHANGED <<now, wf, Ledger, World>>

(* Cancellation: WaitForCancellation; the call is left behind by           *)
(* heartbeatCall, the activity reports that it was cancelled.              *)
CancelWorkflow ==
    /\ MayCancel /\ wf.status = "running" /\ ~wf.cancelled /\ wf.pc # "cleanup"
    /\ wf' = [wf EXCEPT !.cancelled = TRUE]
    /\ UNCHANGED <<now, call, Ledger, World>>

(* The deferred cleanup: only a cancellation with an active job. *)
Cancelled(s) ==
    /\ wf.pc = "await" /\ wf.cancelled /\ wf.slot = s
    /\ IF wf.job = NoJob
       THEN wf' = [wf EXCEPT !.status = "cancelled", !.pc = "ended"] /\ UNCHANGED call
       ELSE \E n \in Slots :
            LET c == [NoCall EXCEPT !.kind = "cleanup", !.pc = "start", !.key = wf.job.key, !.job = wf.job] IN
            /\ Free(n)
            /\ call' = [call EXCEPT ![n] = c]
            /\ wf' = [wf EXCEPT !.pc = "cleanup", !.slot = n, !.attempt = 1, !.request = c]
    /\ UNCHANGED <<now, Ledger, World>>

-----------------------------------------------------------------------------
(* PrepareStage: the same scan is always answered the same shard.          *)

Scan(stage) ==
    IF gaps[stage] > 0 THEN "gaps"
    ELSE IF inputs[stage] > 0 THEN "shard"
    ELSE "exhausted"

PrepareStage(s) ==
    LET key   == call[s].key
        reply == IF key \in DOMAIN prepared THEN prepared[key] ELSE Scan(key[1]) IN
    /\ call[s].kind = "prepare" /\ call[s].pc = "start"
    /\ prepared' = Put(prepared, key, reply)
    /\ Say(s, reply)
    /\ UNCHANGED <<now, wf, inputs, gaps, retries, results, World>>

-----------------------------------------------------------------------------
(* Results.  UnitOfWork.Apply: the fence is checked, a stored key answers. *)

TakeLease(s) ==
    /\ call[s].kind \in {"execute", "apply", "prepareExternal", "cleanup"} /\ call[s].pc = "start"
    /\ fence' = fence + 1
    /\ call' = [call EXCEPT ![s].pc = "leased", ![s].fence = fence + 1]
    /\ UNCHANGED <<now, wf, Ledger, job, provider, activated>>

CommitResult(s, outcome) ==
    LET key   == call[s].key
        stage == key[1] IN
    /\ call[s].kind \in {"execute", "apply"} /\ call[s].pc = "leased"
    /\ IF call[s].fence # fence THEN Say(s, "rejected") /\ UNCHANGED <<inputs, gaps, retries, results>>
       ELSE IF key \in DOMAIN results
       THEN /\ call' = [call EXCEPT ![s].pc = "replied", ![s].reply = "result", ![s].outcome = results[key]]
            /\ outcome = results[key]
            /\ UNCHANGED <<inputs, gaps, retries, results>>
       ELSE /\ outcome = "retry" => retries < MaxRetries
            /\ results' = Put(results, key, outcome)
            /\ inputs' = [inputs EXCEPT ![stage] = IF outcome = "retry" THEN @ ELSE @ - 1]
            /\ gaps' = [gaps EXCEPT ![stage] = IF outcome = "gap" THEN @ + 1 ELSE @]
            /\ retries' = IF outcome = "retry" THEN retries + 1 ELSE retries
            /\ call' = [call EXCEPT ![s].pc = "replied", ![s].reply = "result", ![s].outcome = outcome]
    /\ UNCHANGED <<now, wf, prepared, World>>

-----------------------------------------------------------------------------
(* External jobs.                                                          *)

Row(key) == IF key \in DOMAIN job THEN job[key] ELSE NoRow

CreateExternalJob(s) ==
    LET key == call[s].key
        row == [NoRow EXCEPT !.state = "prepared", !.fence = call[s].fence] IN
    /\ call[s].kind = "prepareExternal" /\ call[s].pc = "leased"
    /\ IF call[s].fence # fence THEN Say(s, "rejected") /\ UNCHANGED job
       ELSE /\ job' = IF key \in DOMAIN job THEN job ELSE Put(job, key, row)
            /\ Say(s, "job")
    /\ UNCHANGED <<now, wf, Ledger, fence, provider, activated>>

JobMoves ==
    [prepared         |-> {"submitted", "uncertain_submission", "cancel_requested", "cancelled"},
     submitted        |-> {"running", "succeeded", "failed", "uncertain_submission", "cancel_requested", "cancelled"},
     running          |-> {"succeeded", "failed", "cancel_requested", "cancelled"},
     cancel_requested |-> {"cancelled", "failed"}]

(* SetExternalJobState: an uncertain submission is not moved by it. *)
Settable(row, to, ref, result) ==
    /\ row.state \in DOMAIN JobMoves
    /\ to \in JobMoves[row.state] \cup {row.state}
    /\ to \in {"submitted", "running", "succeeded"} => row.ref \/ ref
    /\ to = "succeeded" => row.result \/ result

SetExternalJobState(key, f, to, ref, result, cancel) ==
    job' = [job EXCEPT ![key] = [state |-> to, fence |-> f, ref |-> @.ref \/ ref, result |-> @.result \/ result,
                                 cancel |-> @.cancel \/ cancel]]

(* The intent is recorded after the provider answered. *)
MRecordIntentLate(s) ==
    LET row == Row(call[s].key) IN
    /\ call[s].kind = "submit" /\ call[s].pc = "start"
    /\ fence' = fence + 1
    /\ call' = [call EXCEPT ![s].fence = fence + 1,
            ![s].pc = IF row.state = "prepared" THEN "calling" ELSE IF row.state = "uncertain_submission" THEN "reconcile" ELSE "replied",
            ![s].reply = "job"]
    /\ UNCHANGED <<now, wf, Ledger, job, provider, activated>>

RecordIntent(s) ==
    LET key == call[s].key
        row == Row(key) IN
    /\ call[s].kind = "submit" /\ call[s].pc = "start"
    /\ fence' = fence + 1
    /\ IF Settable(row, "uncertain_submission", FALSE, FALSE) /\ row.state = "prepared"
       THEN /\ call' = [call EXCEPT ![s].pc = "calling", ![s].fence = fence + 1]
            /\ SetExternalJobState(key, fence + 1, "uncertain_submission", FALSE, FALSE, FALSE)
       ELSE IF row.state = "uncertain_submission"
       THEN call' = [call EXCEPT ![s].pc = "reconcile", ![s].fence = fence + 1] /\ UNCHANGED job
       ELSE call' = [call EXCEPT ![s].pc = "replied", ![s].reply = "job"] /\ UNCHANGED job
    /\ UNCHANGED <<now, wf, Ledger, provider, activated>>

Submissions(key) == IF key \in DOMAIN provider THEN provider[key].submissions ELSE 0

(* The provider accepts the job; its answer arrives or is lost. *)
CallProvider(s, answered) ==
    LET key == call[s].key IN
    /\ call[s].kind = "submit" /\ call[s].pc = "calling"
    /\ provider' = Put(provider, key, [submissions |-> Submissions(key) + 1, state |-> "running"])
    /\ call' = [call EXCEPT ![s].pc = IF answered THEN "accepted" ELSE "reconcile"]
    /\ UNCHANGED <<now, wf, Ledger, fence, job, activated>>

(* The provider refuses or cannot be reached. *)
ProviderUnreachable(s) ==
    /\ call[s].kind = "submit" /\ call[s].pc = "calling"
    /\ call' = [call EXCEPT ![s].pc = "reconcile"]
    /\ UNCHANGED <<now, wf, Ledger, World>>

(* ReconcileUncertainExternalJob: needs the provider's job id. *)
ReconcileUncertain(s) ==
    LET key  == call[s].key
        seen == call[s].pc = "accepted" \/ Submissions(key) > 0 IN
    /\ call[s].kind = "submit" /\ call[s].pc \in {"accepted", "reconcile"}
    /\ IF ~seen THEN Say(s, "job") /\ UNCHANGED job
       ELSE IF call[s].fence # fence \/ Row(key).state # "uncertain_submission"
       THEN Say(s, "rejected") /\ UNCHANGED job
       ELSE Say(s, "job") /\ SetExternalJobState(key, call[s].fence, "submitted", TRUE, FALSE, FALSE)
    /\ UNCHANGED <<now, wf, Ledger, fence, provider, activated>>

(* Reconciliation is inconclusive although the provider has the job. *)
ReconcileInconclusive(s) ==
    /\ call[s].kind = "submit" /\ call[s].pc = "reconcile"
    /\ Say(s, "job")
    /\ UNCHANGED <<now, wf, Ledger, World>>

ProviderFinishes(key, state) ==
    /\ key \in DOMAIN provider /\ provider[key].state = "running"
    /\ provider' = [provider EXCEPT ![key].state = state]
    /\ UNCHANGED <<now, wf, call, Ledger, fence, job, activated>>

(* CheckExternal polls the provider and records what it saw. *)
CheckExternal(s) ==
    LET key  == call[s].key
        seen == provider[key].state IN
    /\ call[s].kind = "check" /\ call[s].pc = "start"
    /\ fence' = fence + 1
    /\ IF Settable(Row(key), seen, TRUE, seen = "succeeded")
       THEN SetExternalJobState(key, fence + 1, seen, TRUE, seen = "succeeded", FALSE) /\ Say(s, "job")
       ELSE Say(s, "rejected") /\ UNCHANGED job
    /\ UNCHANGED <<now, wf, Ledger, provider, activated>>

(* CleanupExternal records the cancellation and asks the provider. *)
CleanupExternal(s) ==
    LET key == call[s].key
        row == Row(key) IN
    /\ call[s].kind = "cleanup" /\ call[s].pc = "leased"
    /\ IF call[s].fence # fence THEN Say(s, "rejected") /\ UNCHANGED <<job, provider>>
       ELSE IF Settable(row, "cancel_requested", FALSE, FALSE)
       THEN /\ SetExternalJobState(key, call[s].fence, "cancel_requested", FALSE, FALSE, TRUE)
            /\ provider' = IF key \in DOMAIN provider THEN [provider EXCEPT ![key].state = "cancelled"] ELSE provider
            /\ Say(s, "recorded")
       ELSE Say(s, "unrecorded") /\ UNCHANGED <<job, provider>>
    /\ UNCHANGED <<now, wf, Ledger, fence, activated>>

(* Activate is idempotent: applied, or reconciled by a retry. *)
Activate(s) ==
    /\ call[s].kind = "activate" /\ call[s].pc = "start"
    /\ activated' = TRUE
    /\ Say(s, "activated")
    /\ UNCHANGED <<now, wf, Ledger, fence, job, provider>>

-----------------------------------------------------------------------------
(* The workflow.                                                           *)

(* The carried job: what the activity answered, with the lease it took. *)
JobOf(key) ==
    LET row == Row(key) IN
    [key |-> key, fence |-> row.fence, ref |-> row.ref, result |-> row.result,
     state |-> IF row.state = "uncertain_submission" THEN "uncertain"
               ELSE IF row.state \in {"cancel_requested", "cancelled"} THEN "failed" ELSE row.state]

(* validateCarriedJob *)
CarriedJob(w, j) ==
    /\ isExternalStage(fixedStages[w.phase]) /\ j.key[1] = fixedStages[w.phase]
    /\ j.key = w.manifest
    /\ j.fence > 0 /\ w.fence = j.fence
    /\ \/ j.state = "prepared" /\ ~j.ref /\ ~j.result
       \/ j.state \in {"submitted", "running"} /\ j.ref /\ ~j.result
       \/ j.state = "succeeded" /\ j.ref /\ j.result

(* shouldContinueAsNew and the new run: the whole state is carried. *)
ContinueAsNew ==
    /\ wf.pc = "loop" /\ now < Deadline
    /\ wf.scans >= MaxScansPerRun
    /\ IF wf.job # NoJob /\ ~CarriedJob(wf, wf.job) THEN Fail("invalid_workflow_state")
       ELSE wf' = [wf EXCEPT !.scans = 0, !.runs = 2]
    /\ UNCHANGED <<now, call, Ledger, World>>

Turn == wf.pc = "loop" /\ now < Deadline /\ wf.scans < MaxScansPerRun

DeadlineExceeded ==
    /\ wf.pc = "loop" /\ now >= Deadline
    /\ Fail("refresh_deadline_exceeded")
    /\ UNCHANGED <<now, call, Ledger, World>>

(* advanceExternal *)
AdvanceExternal ==
    /\ Turn /\ wf.job # NoJob
    /\ \/ wf.job.state = "prepared" /\ Schedule("submit", wf.job.key, wf.job)
       \/ /\ wf.job.state \in {"submitted", "running"}
          /\ wf' = [wf EXCEPT !.pc = "wait", !.until = now + PollInterval, !.next = "check"]
          /\ UNCHANGED call
       \/ wf.job.state = "succeeded" /\ Schedule("apply", wf.job.key, wf.job)
    /\ UNCHANGED <<now, Ledger, World>>

RunActivation ==
    /\ Turn /\ wf.job = NoJob /\ Phase = "activate"
    /\ Schedule("activate", NoKey, NoJob)
    /\ UNCHANGED <<now, Ledger, World>>

(* prepareStage within its scan budget *)
RunPrepare ==
    /\ Turn /\ wf.job = NoJob /\ Phase # "activate"
    /\ IF wf.scan >= MaxStageScans THEN Fail("stage_scan_budget_exhausted") /\ UNCHANGED call
       ELSE Schedule("prepare", <<Phase, wf.scan>>, NoJob)
    /\ UNCHANGED <<now, Ledger, World>>

(* waitUntil: an eligibility outside the deadline fails at once. *)
Wait ==
    /\ wf.pc = "wait"
    /\ IF wf.until >= Deadline THEN Fail("refresh_deadline_exceeded") /\ UNCHANGED call
       ELSE IF wf.cancelled THEN
            IF wf.job = NoJob THEN wf' = [wf EXCEPT !.status = "cancelled", !.pc = "ended"] /\ UNCHANGED call
            ELSE \E n \in Slots :
                LET c == [NoCall EXCEPT !.kind = "cleanup", !.pc = "start", !.key = wf.job.key, !.job = wf.job] IN
                /\ Free(n)
                /\ call' = [call EXCEPT ![n] = c]
                /\ wf' = [wf EXCEPT !.pc = "cleanup", !.slot = n, !.attempt = 1, !.request = c]
       ELSE /\ now >= wf.until
            /\ IF wf.next = "check" THEN Schedule("check", wf.job.key, wf.job)
               ELSE wf' = [wf EXCEPT !.pc = "loop", !.scans = @ + 1] /\ UNCHANGED call
    /\ UNCHANGED <<now, Ledger, World>>

Heard(s, kind) == wf.pc = "await" /\ wf.slot = s /\ wf.next = kind /\ call[s].pc = "replied"
Done(s) == call' = [call EXCEPT ![s] = NoCall]

(* advanceStage *)
NextStage == [wf EXCEPT !.phase = wf.phase + 1, !.manifest = NoKey, !.fence = 0, !.scan = 0, !.pc = "loop",
                        !.scans = @ + 1]

(* What the workflow does with a preparation. *)
Prepared(s) ==
    LET scanned == [wf EXCEPT !.scan = @ + 1, !.scans = @ + 1, !.pc = "loop", !.manifest = call[s].key] IN
    /\ Heard(s, "prepare")
    /\ \/ call[s].reply = "gaps" /\ Fail("blocking_corpus_gaps") /\ Done(s)
       \/ call[s].reply = "exhausted" /\ wf' = NextStage /\ Done(s)
       \/ /\ call[s].reply = "shard"
          /\ IF now >= Deadline THEN Fail("deadline") /\ Done(s)
             ELSE \E n \in Slots :
                LET c == [NoCall EXCEPT !.pc = "start", !.key = call[s].key,
                            !.kind = IF isExternalStage(Phase) THEN "prepareExternal" ELSE "execute"] IN
                /\ Free(n)
                /\ call' = [call EXCEPT ![s] = NoCall, ![n] = c]
                /\ wf' = [scanned EXCEPT !.pc = "await", !.slot = n, !.attempt = 1, !.request = c, !.next = c.kind]
    /\ UNCHANGED <<now, Ledger, World>>

(* acceptResult *)
Accepted(outcome) ==
    [wf EXCEPT !.counted = @ + 1, !.scans = @ + 1, !.job = NoJob,
               !.pc    = IF outcome = "retry" /\ ~isExternalStage(Phase) THEN "wait" ELSE "loop",
               !.until = now + 1, !.next = "eligible"]

Executed(s) ==
    /\ Heard(s, "execute") \/ Heard(s, "apply")
    /\ \/ call[s].reply = "rejected" /\ Fail("durable_contract_rejected")
       \/ call[s].reply = "result" /\ wf' = Accepted(call[s].outcome)
    /\ Done(s)
    /\ UNCHANGED <<now, Ledger, World>>

(* validateActiveJobWorkflow *)
JobAnswered(s, kind) ==
    LET j     == JobOf(call[s].key)
        moved == [wf EXCEPT !.job = j, !.fence = j.fence, !.scans = @ + 1, !.pc = "loop"] IN
    /\ Heard(s, kind)
    /\ \/ call[s].reply = "rejected" /\ Fail("durable_contract_rejected")
       \/ /\ call[s].reply = "job"
          /\ IF j.state = "uncertain" THEN Fail("uncertain_external_submission")
             ELSE IF j.state = "failed" THEN Fail("external_job_failed")
             ELSE IF kind = "submit" /\ j.state = "prepared" THEN Fail("external_job_no_progress")
             ELSE IF ~CarriedJob(moved, j) THEN Fail("invalid_external_job")
             ELSE wf' = moved
    /\ Done(s)
    /\ UNCHANGED <<now, Ledger, World>>

Activated(s) ==
    /\ Heard(s, "activate")
    /\ wf' = [wf EXCEPT !.status = "completed", !.pc = "ended"]
    /\ Done(s)
    /\ UNCHANGED <<now, Ledger, World>>

CleanedUp(s) ==
    /\ wf.pc = "cleanup" /\ wf.slot = s /\ call[s].pc = "replied"
    /\ wf' = [wf EXCEPT !.status = "cancelled", !.pc = "ended",
                        !.detail = IF call[s].reply = "recorded" THEN None ELSE "external_cancellation_not_recorded"]
    /\ Done(s)
    /\ UNCHANGED <<now, Ledger, World>>

Tick ==
    /\ now < Deadline
    /\ now' = now + 1
    /\ UNCHANGED <<wf, call, Ledger, World>>

WorkflowStep ==
    \/ ContinueAsNew \/ DeadlineExceeded \/ AdvanceExternal \/ RunActivation \/ RunPrepare \/ Wait
    \/ \E s \in Slots : \/ Prepared(s) \/ Executed(s) \/ Activated(s) \/ CleanedUp(s) \/ Cancelled(s)
                        \/ \E k \in {"prepareExternal", "submit", "check"} : JobAnswered(s, k)

CallStep(s) ==
    \/ PrepareStage(s) \/ TakeLease(s) \/ \E o \in Outcomes : CommitResult(s, o)
    \/ CreateExternalJob(s) \/ RecordIntent(s)
    \/ \E answered \in BOOLEAN : CallProvider(s, answered)
    \/ ProviderUnreachable(s) \/ ReconcileUncertain(s)
    \/ CheckExternal(s) \/ CleanupExternal(s) \/ Activate(s) \/ Forget(s)

Next ==
    \/ WorkflowStep
    \/ \E s \in Slots : CallStep(s)
    \/ \E s \in Slots : ReconcileInconclusive(s) \/ \E survives \in BOOLEAN : LoseAttempt(s, survives)
    \/ \E key \in DOMAIN provider, state \in {"succeeded", "failed"} : ProviderFinishes(key, state)
    \/ CancelWorkflow
    \/ Tick

Spec == Init /\ [][Next]_vars

(* The server runs workflow tasks, workers poll their queues, time passes. *)
FairSpec ==
    /\ Spec
    /\ WF_vars(WorkflowStep) /\ WF_vars(Tick)
    /\ \A s \in Slots : WF_vars(CallStep(s))

-----------------------------------------------------------------------------
TypeOK ==
    /\ now \in 1..Deadline
    /\ wf.status \in {"running", "failed", "cancelled", "completed"}
    /\ wf.phase \in DOMAIN fixedStages /\ wf.scan \in 0..MaxStageScans
    /\ wf.status = "running" <=> wf.pc # "ended"
    /\ wf.pc \in {"await", "cleanup"} => call[wf.slot].kind # None
    /\ \A s \in Stages : inputs[s] \in 0..Inputs[s]

(* However often a submission is retried, and whatever calls of earlier     *)
(* attempts are still alive, the provider is given a job at most once.      *)
SubmittedOnce == \A key \in DOMAIN provider : provider[key].submissions <= 1

(* A job the provider has is never forgotten: its row says more than        *)
(* prepared, also when its submitter died or its workflow ended.            *)
SubmissionExplicit == \A key \in DOMAIN provider : Row(key).state # "prepared"

(* A refresh that completes has left no shard and no blocking gap in any    *)
(* stage, and has counted every stored result once, over every retried      *)
(* activity and every continued run.                                        *)
CompletedCountsAll ==
    wf.status = "completed" =>
        /\ \A s \in Stages : inputs[s] = 0 /\ gaps[s] = 0
        /\ wf.counted = Cardinality(DOMAIN results)
        /\ activated

(* The state a run hands to its successor is one that run accepts: an       *)
(* active job is for the current phase and manifest under the carried fence. *)
CarriedStateValid ==
    (wf.pc = "loop" /\ wf.job # NoJob) => CarriedJob(wf, wf.job)

(* A cancelled refresh whose job the provider has either has recorded the   *)
(* cancellation or says that it could not.                                  *)
CancelAccounted ==
    (wf.status = "cancelled" /\ wf.job # NoJob) =>
        Row(wf.job.key).cancel \/ wf.detail # None

(* The refresh ends: completed, failed or cancelled, at the latest by its   *)
(* deadline, whichever attempts and provider answers are lost.              *)
RefreshEnds == <>(wf.status # "running")
=============================================================================
