------------------------------ MODULE CorpusRun ------------------------------
(***************************************************************************)
(* The direct runner of a corpus build (internal/corpus/run: direct.go,    *)
(* lease.go, apply.go, types.go) over the scheduler lease, the stage       *)
(* results and the run and build rows (pkg/store/ingest/queries.sql.go).   *)
(*                                                                         *)
(* A runner is one call of Direct.Execute.  Several may be alive at once:  *)
(* a retried activity starts a second one while the first still runs.      *)
(* It acquires the one lease of the build, lets its executor work while it *)
(* renews, and applies the result in one transaction that locks the lease  *)
(* row first.  Runners and the database do not share a clock.              *)
(*                                                                         *)
(* The unit of work is an injected port; its transaction is modelled from  *)
(* the contract in apply.go and the statements it is given.                *)
(***************************************************************************)
EXTENDS Integers, FiniteSets, Sequences

CONSTANTS
    Runners,        \* calls of Execute
    KeyOf,          \* runner -> the idempotency key of its shard
    OwnerOf,        \* runner -> Execution.Owner; a retried activity keeps it
    Skew,           \* runner -> its clock minus the database's
    Returns,        \* the results executors may return
    MaxItems,       \* Budget.MaxItems
    MaxElapsed,     \* Budget.MaxElapsed
    LeaseDuration, RenewInterval,
    Cancellable,    \* runners whose activity may be cancelled
    Changes,        \* run statuses and build states that are set
    LastStart,      \* bound on the time a runner starts
    MaxTime         \* bound on the database clock

Nobody == "nobody"

\* Runners are finitely many and counts are what their types say; clocks may differ.
ASSUME RunAssumption ==
    /\ IsFiniteSet(Runners) /\ Nobody \notin Runners
    /\ Skew \in [Runners -> Int]
    /\ MaxItems \in Nat /\ MaxElapsed \in Nat /\ LeaseDuration \in Nat /\ RenewInterval \in Nat
    /\ LastStart \in Nat /\ MaxTime \in Nat \ {0}
    /\ \A c \in Returns :
        /\ {c.expected, c.processed, c.succeeded, c.pending, c.gaps, c.accepted, c.rejected, c.failed} \subseteq Nat
        /\ c.complete \in BOOLEAN

VARIABLES
    dbClock,        \* the database clock
    lease,          \* the scheduler_lease row of the build
    locker,         \* the runner whose transaction locks that row
    stageResults,   \* stage_result rows in commit order
    run,            \* the corpus_run row
    build,          \* corpus_build.state
    runner          \* runner -> its local state

runVars == <<dbClock, lease, locker, stageResults, run, build, runner>>

NoResult == [shard |-> "", expected |-> 0, processed |-> 0, succeeded |-> 0, pending |-> 0, gaps |-> 0,
             accepted |-> 0, rejected |-> 0, failed |-> 0, complete |-> FALSE, cursor |-> "",
             eligible |-> FALSE, acceptance |-> FALSE, outputs |-> <<>>]

Fresh == [pc |-> "idle", fence |-> 0, expires |-> 0, deadline |-> 0, renewAt |-> 0, cancelled |-> FALSE,
          result |-> NoResult, stored |-> NoResult, answer |-> "none"]

RunInit ==
    /\ dbClock = 1
    /\ lease = [owner |-> Nobody, fence |-> 0, expires |-> 0, released |-> FALSE]
    /\ locker = Nobody
    /\ stageResults = <<>>
    /\ run = [status |-> "pending", requested |-> FALSE]
    /\ build = "open"
    /\ runner = [r \in Runners |-> Fresh]

Clock(r) == dbClock + Skew[r]

MinOf(a, b) == IF a < b THEN a ELSE b

-----------------------------------------------------------------------------
(* Accounting: what a result must say of its input.                        *)

(* Counts.Validate *)
CountsValid(c) ==
    /\ c.processed <= c.expected
    /\ c.processed = c.succeeded + c.pending + c.gaps + c.rejected + c.failed
    /\ c.accepted <= c.gaps

(* Result.Validate *)
ResultValid(c) ==
    /\ CountsValid(c)
    /\ c.expected <= MaxItems /\ c.processed <= MaxItems
    /\ c.acceptance <=> c.accepted > 0
    /\ c.eligible <=> c.pending > 0
    /\ c.complete => /\ c.processed = c.expected
                     /\ c.pending = 0 /\ c.rejected = 0 /\ c.failed = 0
                     /\ c.gaps = c.accepted
    /\ \A i, j \in DOMAIN c.outputs : i # j => c.outputs[i] # c.outputs[j]

(* Direct.apply: a result that would be asked for again unchanged. *)
NoProgress(c) ==
    /\ ~c.complete /\ c.processed = 0 /\ c.outputs = <<>> /\ ~c.eligible
    /\ c.cursor = ""

(* SameImmutablePayload: owner and fence may differ. *)
SameImmutablePayload(c, d) == c = d

-----------------------------------------------------------------------------
(* The lease row.  A transaction that holds it makes every writer wait.    *)

LeaseFree == lease.fence = 0 \/ lease.released \/ lease.expires <= dbClock

Holds(r, fence) ==
    lease.owner = OwnerOf[r] /\ lease.fence = fence /\ ~lease.released /\ lease.expires > dbClock

MFenceValid(r) == lease.owner = OwnerOf[r] /\ ~lease.released /\ lease.expires > dbClock

(* ValidateSchedulerFence, as the writing statements ask it. *)
FenceValid(r) == Holds(r, runner[r].fence)

RowFree(r) == locker \in {Nobody, r}

GiveUp(r, why) ==
    runner' = [runner EXCEPT ![r].pc = IF runner[r].fence = 0 THEN "returned" ELSE "release", ![r].answer = why]

AcquireSchedulerLease(r, until) ==
    lease' = [owner |-> OwnerOf[r], fence |-> lease.fence + 1, expires |-> until, released |-> FALSE]

(* validateLeaseOwner *)
LeaseOwner(r, until) == until > Clock(r)

(* Execute up to the acquired lease.  The insert demands expires > renewed. *)
Acquire(r) ==
    LET until == MinOf(Clock(r) + MaxElapsed, Clock(r) + LeaseDuration)
        mine  == [runner[r] EXCEPT !.pc = "bind", !.fence = lease.fence + 1, !.expires = until,
                                   !.deadline = Clock(r) + MaxElapsed] IN
    /\ runner[r].pc = "idle" /\ ~runner[r].cancelled /\ dbClock <= LastStart
    /\ RowFree(r)
    /\ IF LeaseFree /\ until > dbClock
       THEN AcquireSchedulerLease(r, until) /\ runner' = [runner EXCEPT ![r] = mine]
       ELSE GiveUp(r, "refused") /\ UNCHANGED lease
    /\ UNCHANGED <<dbClock, locker, stageResults, run, build>>

(* nextRenewal *)
NextRenewal(r, until) ==
    LET left == until - Clock(r) IN
    Clock(r) + (IF RenewInterval < left THEN RenewInterval ELSE IF left \div 2 <= 0 THEN 0 ELSE left \div 2)

(* The fence is bound into the shard and the executor starts. *)
Bind(r) ==
    /\ runner[r].pc = "bind"
    /\ IF ~LeaseOwner(r, runner[r].expires) THEN GiveUp(r, "identity")
       ELSE IF Clock(r) >= runner[r].deadline THEN GiveUp(r, "deadline")
       ELSE runner' = [runner EXCEPT ![r].pc = "executing", ![r].renewAt = NextRenewal(r, runner[r].expires)]
    /\ UNCHANGED <<dbClock, lease, locker, stageResults, run, build>>

RenewSchedulerLease(r, until) ==
    Holds(r, runner[r].fence) /\ until > dbClock /\ lease' = [lease EXCEPT !.expires = until]

(* The renewal timer fires while the executor works. *)
Renew(r) ==
    LET until == MinOf(Clock(r) + LeaseDuration, runner[r].deadline) IN
    /\ runner[r].pc = "executing" /\ Clock(r) >= runner[r].renewAt
    /\ \/ /\ runner[r].cancelled \/ Clock(r) >= runner[r].deadline \/ Clock(r) >= runner[r].expires
          /\ GiveUp(r, "lost") /\ UNCHANGED lease
       \/ /\ ~runner[r].cancelled /\ Clock(r) < runner[r].deadline /\ Clock(r) < runner[r].expires
          /\ RowFree(r)
          /\ \/ /\ RenewSchedulerLease(r, until)
                /\ runner' = [runner EXCEPT ![r].expires = until, ![r].renewAt = NextRenewal(r, until)]
             \/ ~Holds(r, runner[r].fence) /\ GiveUp(r, "lost") /\ UNCHANGED lease
    /\ UNCHANGED <<dbClock, locker, stageResults, run, build>>

(* runCtx.Done or the deadline timer: the executor is awaited, not used. *)
Abandon(r) ==
    /\ runner[r].pc = "executing"
    /\ runner[r].cancelled \/ Clock(r) >= runner[r].deadline
    /\ GiveUp(r, IF runner[r].cancelled THEN "cancelled" ELSE "deadline")
    /\ UNCHANGED <<dbClock, lease, locker, stageResults, run, build>>

CancelRunner(r) ==
    /\ r \in Cancellable /\ runner[r].pc # "returned" /\ ~runner[r].cancelled
    /\ runner' = [runner EXCEPT ![r].cancelled = TRUE]
    /\ UNCHANGED <<dbClock, lease, locker, stageResults, run, build>>

(* The executor answers; the answer is accepted only under a live lease, *)
(* for the shard that was sent, and if it moves the stage.               *)
Accept(r, c) ==
    /\ runner[r].pc = "executing" /\ ~runner[r].cancelled /\ Clock(r) < runner[r].deadline
    /\ IF Clock(r) >= runner[r].expires THEN GiveUp(r, "lost")
       ELSE IF c.shard # KeyOf[r] THEN GiveUp(r, "stale")
       ELSE IF ~ResultValid(c) \/ NoProgress(c) THEN GiveUp(r, "invalid")
       ELSE runner' = [runner EXCEPT ![r].pc = "apply", ![r].result = c]
    /\ UNCHANGED <<dbClock, lease, locker, stageResults, run, build>>

ExecutorFails(r) ==
    /\ runner[r].pc = "executing"
    /\ GiveUp(r, "executor")
    /\ UNCHANGED <<dbClock, lease, locker, stageResults, run, build>>

-----------------------------------------------------------------------------
(* UnitOfWork.Apply: one transaction.                                      *)

LockSchedulerFence(r) ==
    /\ runner[r].pc = "apply"
    /\ RowFree(r)
    /\ IF FenceValid(r)
       THEN locker' = r /\ runner' = [runner EXCEPT ![r].pc = "locked"]
       ELSE GiveUp(r, "fence") /\ UNCHANGED locker
    /\ UNCHANGED <<dbClock, lease, stageResults, run, build>>

Stored(key) == {i \in DOMAIN stageResults : stageResults[i].key = key}

(* StageResultByIdempotencyKeyForUpdate: a committed key is answered, not written. *)
FindStageResult(r) ==
    LET found == Stored(KeyOf[r]) IN
    /\ runner[r].pc = "locked"
    /\ runner' = [runner EXCEPT
            ![r].pc     = IF found = {} THEN "insert" ELSE "commit",
            ![r].stored = IF found = {} THEN NoResult ELSE stageResults[CHOOSE i \in found : TRUE].payload]
    /\ UNCHANGED <<dbClock, lease, locker, stageResults, run, build>>

(* InsertStageResult checks the lease again, by a later clock. *)
InsertStageResult(r) ==
    /\ runner[r].pc = "insert"
    /\ IF FenceValid(r)
       THEN runner' = [runner EXCEPT ![r].pc = "outputs", ![r].stored = runner[r].result] /\ locker' = r
       ELSE GiveUp(r, "fence") /\ locker' = Nobody
    /\ UNCHANGED <<dbClock, lease, stageResults, run, build>>

InsertStageResultOutput(r) ==
    /\ runner[r].pc = "outputs"
    /\ runner' = [runner EXCEPT ![r].pc = "write"]
    /\ UNCHANGED <<dbClock, lease, locker, stageResults, run, build>>

Commit(r) ==
    /\ runner[r].pc \in {"write", "commit"}
    /\ stageResults' = IF runner[r].pc = "commit" THEN stageResults
                       ELSE Append(stageResults, [key |-> KeyOf[r], fence |-> runner[r].fence, payload |-> runner[r].stored])
    /\ locker' = IF locker = r THEN Nobody ELSE locker
    /\ runner' = [runner EXCEPT ![r].pc = "answer"]
    /\ UNCHANGED <<dbClock, lease, run, build>>

(* The database fails before the commit, or its context ends. *)
Rollback(r) ==
    /\ runner[r].pc \in {"locked", "insert", "outputs", "write", "commit"}
    /\ locker' = IF locker = r THEN Nobody ELSE locker
    /\ GiveUp(r, "database")
    /\ UNCHANGED <<dbClock, lease, stageResults, run, build>>

(* What Execute says of a committed result. *)
Answer(r) ==
    /\ runner[r].pc = "answer"
    /\ IF runner[r].cancelled \/ Clock(r) >= runner[r].deadline \/ Clock(r) >= runner[r].expires
       THEN GiveUp(r, "late")
       ELSE IF ~SameImmutablePayload(runner[r].stored, runner[r].result) THEN GiveUp(r, "stale")
       ELSE GiveUp(r, "committed")
    /\ UNCHANGED <<dbClock, lease, locker, stageResults, run, build>>

(* The commit answer is lost between the database and the runner. *)
LoseAnswer(r) ==
    /\ runner[r].pc = "answer"
    /\ GiveUp(r, "database")
    /\ UNCHANGED <<dbClock, lease, locker, stageResults, run, build>>

MReleaseSchedulerLease(r) ==
    lease' = IF lease.owner = OwnerOf[r] THEN [lease EXCEPT !.released = TRUE] ELSE lease

ReleaseSchedulerLease(r) ==
    lease' = IF Holds(r, runner[r].fence) THEN [lease EXCEPT !.released = TRUE] ELSE lease

(* The deferred release, under its own context; its error is joined. *)
Release(r) ==
    /\ runner[r].pc = "release"
    /\ RowFree(r)
    /\ ReleaseSchedulerLease(r)
    /\ runner' = [runner EXCEPT ![r].pc = "returned",
            ![r].answer = IF Holds(r, runner[r].fence) THEN runner[r].answer ELSE
                          IF runner[r].answer = "committed" THEN "unreleased" ELSE runner[r].answer]
    /\ UNCHANGED <<dbClock, locker, stageResults, run, build>>

(* The worker dies: its transaction is rolled back, its lease is left. *)
Crash(r) ==
    /\ runner[r].pc \notin {"idle", "returned"}
    /\ locker' = IF locker = r THEN Nobody ELSE locker
    /\ runner' = [runner EXCEPT ![r].pc = "returned", ![r].answer = "crashed"]
    /\ UNCHANGED <<dbClock, lease, stageResults, run, build>>

-----------------------------------------------------------------------------
(* The run and build rows, which operators and runners move.               *)

RunMoves == {<<"pending", "running">>, <<"pending", "cancelling">>, <<"pending", "cancelled">>, <<"pending", "failed">>,
             <<"running", "cancelling">>, <<"running", "complete">>, <<"running", "failed">>,
             <<"cancelling", "cancelled">>, <<"cancelling", "failed">>}

SetCorpusRunStatus(to) ==
    /\ <<run.status, to>> \in RunMoves
    /\ run' = [run EXCEPT !.status = to]
    /\ UNCHANGED <<dbClock, lease, locker, stageResults, build, runner>>

RequestCorpusRunCancellation ==
    /\ run.status \in {"pending", "running", "cancelling"}
    /\ run' = [status |-> "cancelling", requested |-> TRUE]
    /\ UNCHANGED <<dbClock, lease, locker, stageResults, build, runner>>

SetCorpusBuildState(to) ==
    /\ \/ build = "open" /\ to \in {"running", "failed", "cancelled"}
       \/ build = "running" /\ to \in {"ready", "failed", "cancelled"}
    /\ build' = to
    /\ UNCHANGED <<dbClock, lease, locker, stageResults, run, runner>>

DatabaseTick ==
    /\ dbClock < MaxTime
    /\ dbClock' = dbClock + 1
    /\ UNCHANGED <<lease, locker, stageResults, run, build, runner>>

Step(r) ==
    \/ Acquire(r) \/ Bind(r) \/ Renew(r) \/ Abandon(r)
    \/ \E c \in Returns : Accept(r, c)
    \/ LockSchedulerFence(r) \/ FindStageResult(r) \/ InsertStageResult(r) \/ InsertStageResultOutput(r)
    \/ Commit(r) \/ Answer(r) \/ Release(r)

Control ==
    \/ \E to \in Changes : SetCorpusRunStatus(to) \/ SetCorpusBuildState(to)
    \/ Changes # {} /\ RequestCorpusRunCancellation

RunNext ==
    \/ \E r \in Runners : Step(r)
    \/ \E r \in Runners : ExecutorFails(r) \/ Rollback(r) \/ LoseAnswer(r) \/ CancelRunner(r) \/ Crash(r)
    \/ Control
    \/ DatabaseTick

RunSpec == RunInit /\ [][RunNext]_runVars

(* Runners keep running unless they crash and time passes; an executor may *)
(* never answer, but it stops when it is cancelled.  A row lock is granted *)
(* in turn.                                                                *)
RunFairSpec ==
    /\ RunSpec
    /\ WF_runVars(DatabaseTick)
    /\ \A r \in Runners :
        /\ WF_runVars(Bind(r)) /\ WF_runVars(Abandon(r)) /\ WF_runVars(FindStageResult(r)) /\ WF_runVars(InsertStageResult(r))
        /\ WF_runVars(InsertStageResultOutput(r)) /\ WF_runVars(Commit(r)) /\ WF_runVars(Answer(r))
        /\ SF_runVars(Release(r)) /\ SF_runVars(LockSchedulerFence(r))

-----------------------------------------------------------------------------
RunnerSteps == {"idle", "bind", "executing", "apply", "locked", "insert", "outputs", "write", "commit", "answer",
          "release", "returned"}

RunTypeOK ==
    /\ dbClock \in 1..MaxTime
    /\ lease.owner \in {OwnerOf[r] : r \in Runners} \cup {Nobody} /\ lease.fence \in 0..Cardinality(Runners)
    /\ locker # Nobody => runner[locker].pc \in {"locked", "insert", "outputs", "write", "commit"}
    /\ \A r \in Runners : runner[r].pc \in RunnerSteps
    /\ build \in {"open", "running", "ready", "failed", "cancelled"}
    /\ run.status \in {"pending", "running", "cancelling", "cancelled", "complete", "failed"}

(* Stage results are written in the order of the fences: once a successor   *)
(* of a runner has written, the runner whose lease lapsed, slow, skewed or  *)
(* in the middle of its transaction, writes nothing.                        *)
FencedOrder == \A i, j \in DOMAIN stageResults : i < j => stageResults[i].fence <= stageResults[j].fence

(* Whoever is told its result is committed was told the payload that is     *)
(* stored under its key, also when another runner stored it first.          *)
AnsweredIsStored ==
    \A r \in Runners : runner[r].answer \in {"committed", "unreleased"} =>
        \E i \in Stored(KeyOf[r]) : stageResults[i].payload = runner[r].result

(* Every stored result accounts for each of its items once, within the      *)
(* budget, and a complete one left none pending and accepted every gap.     *)
StoredAccounts ==
    \A i \in DOMAIN stageResults :
        LET c == stageResults[i].payload IN
        /\ c.shard = stageResults[i].key
        /\ c.succeeded + c.pending + c.gaps + c.rejected + c.failed = c.processed
        /\ c.processed <= MaxItems
        /\ c.complete => c.succeeded + c.accepted = c.expected

(* A run whose cancellation was requested is never reported complete.       *)
CancelledNeverCompletes == run.requested => run.status # "complete"

(* What the runners of a build leave behind is accounted: no writer overtakes  *)
(* its successor, no runner is told of a result that is not stored, no stored  *)
(* result hides an item, and no cancelled run is reported complete.            *)
RunsAccounted ==
    RunTypeOK /\ FencedOrder /\ AnsweredIsStored /\ StoredAccounts /\ CancelledNeverCompletes

(* The lease of a runner that is still applying or answering is taken over  *)
(* only after it lapsed: a release by a late predecessor frees nobody else. *)
NotReleasedByOthersStep ==
    \A r \in Runners :
        (lease.fence = runner[r].fence /\ runner[r].pc \in {"executing", "apply", "locked", "insert", "outputs", "write"})
            => (lease'.released => lease.released)
NotReleasedByOthers == [][NotReleasedByOthersStep]_runVars

(* A runner that starts returns or dies; it never waits for ever on the     *)
(* lease row or on its executor.                                            *)
RunnersReturn == \A r \in Runners : runner[r].pc = "bind" ~> runner[r].pc = "returned"
=============================================================================
