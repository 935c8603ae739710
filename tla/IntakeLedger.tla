---------------------------- MODULE IntakeLedger ----------------------------
(***************************************************************************)
(* The fenced intake ledger of internal/corpus/store/intake: the country   *)
(* admission row, the execution leases, and Ledger.Apply as the sequence   *)
(* of statements of one READ COMMITTED transaction, with the row locks it  *)
(* takes and the database clock it reads after each wait.                  *)
(*                                                                         *)
(* A call holds the locks its control state implies; they are released     *)
(* together when it commits or rolls back.  Uncommitted rows are visible   *)
(* to nobody, so a call's writes are applied in ApplyCommit.               *)
(***************************************************************************)
EXTENDS Integers, FiniteSets

CONSTANTS
    Owners,       \* lease owners (worker identities)
    Writers,      \* admitted writer identities
    WriterOf,     \* the writer identity each owner's Ledger is configured with
    Resources,    \* leased resources: windows, versions, batches, control
    Attempts,     \* (revision key, processing attempt key) pairs
    Tasks,        \* (stage, substep, shard) of a request
    Contents,     \* immutable request contents: acceptance state and output digest
    Calls,        \* concurrent Apply transactions
    NoRequest,    \* the request of a call that is not running
    MaxEpoch,     \* bound on admission rotations
    MaxFence,     \* bound on lease reclaims
    MaxTime,      \* bound on the database clock
    MaxTTL,       \* longest lease, decision or retry delay
    MaxDecisions, \* bound on recorded decisions
    MaxResults    \* bound on allocated result ids

AcceptanceStates == {"candidate", "quarantined", "accepted", "accepted_with_gaps", "excluded"}

BuildEligible(s) == s \in {"accepted", "accepted_with_gaps"}

\* States that IntakeApplyRequest.Validate refuses without a bound decision.
NeedsDecision(s) == s \in {"accepted_with_gaps", "excluded"}

ASSUME ConstantsAssumption ==
    /\ WriterOf \in [Owners -> Writers]
    /\ \A k \in Contents : k.acceptance \in AcceptanceStates \cup {"none"}
    /\ MaxEpoch \in Nat \ {0} /\ MaxFence \in Nat \ {0} /\ MaxTime \in Nat
    /\ MaxTTL \in Nat /\ MaxDecisions \in Nat /\ MaxResults \in Nat
    /\ "none" \notin Owners

VARIABLES
    now,          \* clock_timestamp()
    admission,    \* the single row of ingest.country_admission
    lease,        \* ingest.execution_lease by resource
    grants,       \* every lease tuple ever handed out; a worker may still hold any of them
    executions,   \* ingest.execution
    decisions,    \* ingest.quarantine_decision
    nextId,       \* identity sequence of ingest.execution_result
    results,      \* ingest.execution_result, committed rows
    events,       \* ingest.revision_acceptance with ingest.revision_receipt
    projection,   \* ingest.revision_acceptance_state
    deliveries,   \* completion rows of ingest.delivery_record, by result id
    receipts,     \* (key, result id) pairs Apply has returned to callers
    pc,           \* control state of each Apply call
    req,          \* its request
    mode,         \* "stored" or "absent" after its first lookup; "fresh" or "replay" after its insert
    rid           \* the id of the row it inserted or found

ledger == <<now, admission, lease, grants, executions, decisions>>
store == <<nextId, results, events, projection, deliveries, receipts>>
calls == <<pc, req, mode, rid>>
vars == <<ledger, store, calls>>

Times == 0 .. (MaxTime + MaxTTL)
Grants == [resource : Resources, owner : Owners, fence : 1 .. MaxFence, epoch : 1 .. MaxEpoch]
Executions == [resource : Resources, attempt : Attempts, fence : 1 .. MaxFence, epoch : 1 .. MaxEpoch]
Decisions == [execution : Executions, content : Contents, expires : Times]
Requests == [resource : Resources, owner : Owners, fence : 1 .. MaxFence, epoch : 1 .. MaxEpoch,
             attempt : Attempts, task : Tasks, content : Contents, expires : Times]

Leases == [owner : Owners \cup {"none"}, fence : 0 .. MaxFence, epoch : 0 .. MaxEpoch,
           expires : Times, cancelledAt : {"null", "set"}, eligible : Times]

NoLease == [owner |-> "none", fence |-> 0, epoch |-> 0, expires |-> 0, cancelledAt |-> "null", eligible |-> 0]

PCs == {"idle", "admitted", "leased", "accepting", "resolved", "written", "checked"}

Acceptance(r) == r.content.acceptance

(***************************************************************************)
(* Identity of a request.  The idempotency key pins the work and the epoch *)
(* and leaves out the owner and the fence; payload equality leaves out the *)
(* same two, but a decision binding inside the payload carries its own     *)
(* fence and expiry.                                                       *)
(***************************************************************************)
KeyWithFence(r) == <<r.resource, r.attempt, r.epoch, r.task, r.fence>>  \* mutant

Key(r) == <<r.resource, r.attempt, r.epoch, r.task>>

DecisionBinding(r) ==
    IF NeedsDecision(Acceptance(r)) THEN <<r.fence, r.expires>> ELSE <<0, 0>>

SamePayload(stored, proposed) ==
    /\ Key(stored) = Key(proposed)
    /\ stored.content = proposed.content
    /\ DecisionBinding(stored) = DecisionBinding(proposed)

ExecutionOf(r) == [resource |-> r.resource, attempt |-> r.attempt, fence |-> r.fence, epoch |-> r.epoch]

Stored(k) == {x \in results : Key(x.req) = k}

(***************************************************************************)
(* Grant checks.                                                           *)
(***************************************************************************)
AdmissionGrant(o, e) ==
    /\ admission.enabled
    /\ admission.epoch = e
    /\ admission.writer = WriterOf[o]

LeaseTuple(r) == [owner |-> lease[r].owner, fence |-> lease[r].fence, epoch |-> lease[r].epoch]

\* lockLeaseMode after the lock: exact tuple, not cancelled, not expired.
LeaseGrant(r, o, f, e) ==
    /\ LeaseTuple(r) = [owner |-> o, fence |-> f, epoch |-> e]
    /\ lease[r].cancelledAt = "null"
    /\ now < lease[r].expires

\* lockLease followed by request.ValidateAt at the time just read.
RequestGrant(r) ==
    /\ LeaseGrant(r.resource, r.owner, r.fence, r.epoch)
    /\ NeedsDecision(Acceptance(r)) => now < r.expires

(***************************************************************************)
(* Row locks, read off the control state.                                  *)
(***************************************************************************)
Running(c) == pc[c] # "idle"

HoldsLease(c, r) == pc[c] \notin {"idle", "admitted"} /\ req[c].resource = r

HoldsAcceptance(c, a) ==
    /\ pc[c] \in {"accepting", "resolved", "written", "checked"}
    /\ Acceptance(req[c]) # "none"
    /\ req[c].attempt = a

\* A speculative index entry for an uncommitted execution_result row.
HoldsKey(c, k) == pc[c] \in {"written", "checked"} /\ mode[c] = "fresh" /\ Key(req[c]) = k

LeaseFree(r) == \A c \in Calls : ~HoldsLease(c, r)
AcceptanceFree(a) == \A c \in Calls : ~HoldsAcceptance(c, a)
KeyFree(k) == \A c \in Calls : ~HoldsKey(c, k)

(***************************************************************************)
(* Initial state: an enabled admission at epoch 1, nothing leased.         *)
(***************************************************************************)
Init ==
    /\ now = 0
    /\ \E w \in Writers : admission = [epoch |-> 1, writer |-> w, enabled |-> TRUE]
    /\ lease = [r \in Resources |-> NoLease]
    /\ grants = {}
    /\ executions = {}
    /\ decisions = {}
    /\ nextId = 0
    /\ results = {}
    /\ events = {}
    /\ projection = [a \in Attempts |-> [state |-> "none", watermark |-> 0]]
    /\ deliveries = {}
    /\ receipts = {}
    /\ pc = [c \in Calls |-> "idle"]
    /\ req = [c \in Calls |-> NoRequest]
    /\ mode = [c \in Calls |-> "none"]
    /\ rid = [c \in Calls |-> 0]

(***************************************************************************)
(* Admission and leases.                                                   *)
(***************************************************************************)
Tick ==
    /\ now < MaxTime
    /\ now' = now + 1
    /\ UNCHANGED <<admission, lease, grants, executions, decisions, store, calls>>

\* mutant: admission is read without FOR SHARE, so rotation does not wait
RotateWithoutWaiting(w, enabled) ==
    /\ admission.epoch < MaxEpoch
    /\ admission' = [epoch |-> admission.epoch + 1, writer |-> w, enabled |-> enabled]
    /\ UNCHANGED <<now, lease, grants, executions, decisions, store, calls>>

\* The UPDATE waits for every FOR SHARE holder of the row.
RotateAdmission(w, enabled) ==
    /\ admission.epoch < MaxEpoch
    /\ \A c \in Calls : ~Running(c)
    /\ admission' = [epoch |-> admission.epoch + 1, writer |-> w, enabled |-> enabled]
    /\ UNCHANGED <<now, lease, grants, executions, decisions, store, calls>>

Grant(r, o, f, ttl, eligible) ==
    /\ lease' = [lease EXCEPT ![r] =
          [owner |-> o, fence |-> f, epoch |-> admission.epoch, expires |-> now + ttl,
           cancelledAt |-> "null", eligible |-> eligible]]
    /\ grants' = grants \cup
          {[resource |-> r, owner |-> o, fence |-> f, epoch |-> admission.epoch]}
    /\ UNCHANGED <<now, admission, executions, decisions, store, calls>>

ClaimLease(r, o, ttl) ==
    /\ AdmissionGrant(o, admission.epoch)
    /\ lease[r] = NoLease
    /\ Grant(r, o, 1, ttl, now)

\* mutant: the new holder inherits the old fence
ReclaimKeepsFence(r, o, ttl) ==
    /\ AdmissionGrant(o, admission.epoch)
    /\ lease[r].fence > 0
    /\ LeaseFree(r)
    /\ lease[r].expires <= now
    /\ Grant(r, o, lease[r].fence, ttl, lease[r].eligible)

\* The UPDATE waits for a FOR UPDATE holder of the lease row.  The new expiry
\* is compared with the clock before that wait, so the lease may be granted
\* already expired (ttl = 0).
ReclaimLease(r, o, ttl) ==
    /\ AdmissionGrant(o, admission.epoch)
    /\ lease[r].fence \in 1 .. (MaxFence - 1)
    /\ LeaseFree(r)
    /\ \/ lease[r].expires <= now
       \/ lease[r].cancelledAt = "set"
       \/ lease[r].epoch < admission.epoch
    /\ lease[r].eligible <= now
    /\ Grant(r, o, lease[r].fence + 1, ttl, lease[r].eligible)

\* CancelAdmissionLease, run by document admission under the lease lock.
CancelLease(r) ==
    /\ lease[r].fence > 0
    /\ lease[r].cancelledAt = "null"
    /\ LeaseFree(r)
    /\ lease' = [lease EXCEPT ![r].cancelledAt = "set"]
    /\ UNCHANGED <<now, admission, grants, executions, decisions, store, calls>>

\* A recorded source retry postpones the next reclaim of its window.
ScheduleRetry(g, delay) ==
    /\ AdmissionGrant(g.owner, g.epoch)
    /\ LeaseFree(g.resource)
    /\ LeaseGrant(g.resource, g.owner, g.fence, g.epoch)
    /\ lease[g.resource].eligible < now + delay
    /\ lease' = [lease EXCEPT ![g.resource].eligible = now + delay]
    /\ UNCHANGED <<now, admission, grants, executions, decisions, store, calls>>

\* All checks follow the last lock wait, so the transaction is one step.
\* The workflow id names the resource and the attempt.
RegisterExecution(g, a) ==
    /\ AdmissionGrant(g.owner, g.epoch)
    /\ LeaseFree(g.resource)
    /\ LeaseGrant(g.resource, g.owner, g.fence, g.epoch)
    /\ \A e \in executions : <<e.resource, e.attempt, e.fence>> # <<g.resource, a, g.fence>>
    /\ executions' = executions \cup
          {[resource |-> g.resource, attempt |-> a, fence |-> g.fence, epoch |-> g.epoch]}
    /\ UNCHANGED <<now, admission, lease, grants, decisions, store, calls>>

\* A reviewer's decision binds one execution and one content until it expires.
RecordDecision(e, k, ttl) ==
    /\ NeedsDecision(k.acceptance)
    /\ Cardinality(decisions) < MaxDecisions
    /\ decisions' = decisions \cup {[execution |-> e, content |-> k, expires |-> now + ttl]}
    /\ UNCHANGED <<now, admission, lease, grants, executions, store, calls>>

(***************************************************************************)
(* Ledger.Apply, statement by statement.                                   *)
(***************************************************************************)

\* Rollback: every lock is released and nothing was written.  The identity
\* sequence is not transactional, so an allocated id stays consumed.
Rollback(c) ==
    /\ pc' = [pc EXCEPT ![c] = "idle"]
    /\ req' = [req EXCEPT ![c] = NoRequest]
    /\ mode' = [mode EXCEPT ![c] = "none"]
    /\ rid' = [rid EXCEPT ![c] = 0]
    /\ UNCHANGED <<ledger, store>>

Advance(c, state) ==
    /\ pc' = [pc EXCEPT ![c] = state]
    /\ UNCHANGED <<ledger, store, req, mode, rid>>

\* lockAdmission: a mismatch returns ErrStaleGrant with nothing locked.
ApplyBegin(c, r) ==
    /\ pc[c] = "idle"
    /\ AdmissionGrant(r.owner, r.epoch)
    /\ pc' = [pc EXCEPT ![c] = "admitted"]
    /\ req' = [req EXCEPT ![c] = r]
    /\ UNCHANGED <<ledger, store, mode, rid>>

ApplyLockLease(c) ==
    /\ pc[c] = "admitted"
    /\ LeaseFree(req[c].resource)
    /\ \/ RequestGrant(req[c]) /\ Advance(c, "leased")
       \/ ~RequestGrant(req[c]) /\ Rollback(c)

\* mutant: a grant that went stale during the wait is waited on, not refused
ApplyWaitAcceptance(c) ==
    /\ pc[c] = "leased"
    /\ Acceptance(req[c]) # "none"
    /\ AcceptanceFree(req[c].attempt)
    /\ RequestGrant(req[c])
    /\ Advance(c, "accepting")

ApplyLockAcceptance(c) ==
    /\ pc[c] = "leased"
    /\ Acceptance(req[c]) # "none"
    /\ AcceptanceFree(req[c].attempt)
    /\ \/ RequestGrant(req[c]) /\ Advance(c, "accepting")
       \/ ~RequestGrant(req[c]) /\ Rollback(c)

\* mutant: the decision is not resolved
ResolvableUndecided(r) ==
    /\ ExecutionOf(r) \in executions
    /\ RequestGrant(r)
    /\ \A x \in Stored(Key(r)) : SamePayload(x.req, r)

\* resolveExecution, resolveDecision, the first FindExecutionResult, the
\* grant check after it and classifyPayload of a stored row.
Resolvable(r) ==
    /\ ExecutionOf(r) \in executions
    /\ NeedsDecision(Acceptance(r)) =>
          [execution |-> ExecutionOf(r), content |-> r.content, expires |-> r.expires] \in decisions
    /\ RequestGrant(r)
    /\ \A x \in Stored(Key(r)) : SamePayload(x.req, r)

ApplyResolve(c) ==
    /\ \/ pc[c] = "leased" /\ Acceptance(req[c]) = "none"
       \/ pc[c] = "accepting"
    /\ \/ /\ Resolvable(req[c])
          /\ pc' = [pc EXCEPT ![c] = "resolved"]
          /\ mode' = [mode EXCEPT ![c] = IF Stored(Key(req[c])) = {} THEN "absent" ELSE "stored"]
          /\ UNCHANGED <<ledger, store, req, rid>>
       \/ ~Resolvable(req[c]) /\ Rollback(c)

\* validatePriorAcceptance runs only when the first lookup found nothing.
Downgrades(c) ==
    /\ mode[c] = "absent"
    /\ Acceptance(req[c]) # "none"
    /\ BuildEligible(projection[req[c].attempt].state)
    /\ ~BuildEligible(Acceptance(req[c]))

\* After verifyOutputs: prior acceptance, INSERT ... ON CONFLICT DO NOTHING
\* (which waits for an uncommitted row with the same key), a second lookup
\* in a new snapshot, the grant check and classifyPayload again.
ApplyWrite(c) ==
    LET r == req[c]
        stored == Stored(Key(r))
    IN  /\ pc[c] = "resolved"
        /\ KeyFree(Key(r))
        /\ \/ /\ ~Downgrades(c) /\ RequestGrant(r) /\ stored = {} /\ nextId < MaxResults
              /\ nextId' = nextId + 1
              /\ rid' = [rid EXCEPT ![c] = nextId + 1]
              /\ mode' = [mode EXCEPT ![c] = "fresh"]
              /\ pc' = [pc EXCEPT ![c] = "written"]
              /\ UNCHANGED <<ledger, results, events, projection, deliveries, receipts, req>>
           \/ /\ ~Downgrades(c) /\ RequestGrant(r)
              /\ \E x \in stored :
                    /\ SamePayload(x.req, r)
                    /\ rid' = [rid EXCEPT ![c] = x.id]
              /\ mode' = [mode EXCEPT ![c] = "replay"]
              /\ pc' = [pc EXCEPT ![c] = "written"]
              /\ UNCHANGED <<ledger, store, req>>
           \/ /\ \/ Downgrades(c)
                 \/ ~RequestGrant(r)
                 \/ stored = {} /\ nextId = MaxResults
                 \/ \E x \in stored : ~SamePayload(x.req, r)
              /\ Rollback(c)

\* The grant check after all writes.  The clock can still pass the expiry
\* between this check and the commit; the held locks cannot be taken.
ApplyCheck(c) ==
    /\ pc[c] = "written"
    /\ \/ RequestGrant(req[c]) /\ Advance(c, "checked")
       \/ ~RequestGrant(req[c]) /\ Rollback(c)

\* mutant: ON CONFLICT DO NOTHING
ProjectOnce(r, id) ==
    IF projection[r.attempt].watermark = 0
    THEN [projection EXCEPT ![r.attempt] = [state |-> Acceptance(r), watermark |-> id]]
    ELSE projection

\* UpsertRevisionAcceptanceState: only a greater watermark replaces the row.
Project(r, id) ==
    IF projection[r.attempt].watermark < id
    THEN [projection EXCEPT ![r.attempt] = [state |-> Acceptance(r), watermark |-> id]]
    ELSE projection

\* Commit publishes the result with its delivery and, for an acceptance,
\* its event and the projection (recordAcceptance).
ApplyCommit(c) ==
    LET r == req[c]
        id == rid[c]
        accepts == Acceptance(r) # "none"
    IN  /\ pc[c] = "checked"
        /\ IF mode[c] = "fresh"
           THEN /\ results' = results \cup {[id |-> id, req |-> r]}
                /\ deliveries' = deliveries \cup {id}
                /\ events' = IF accepts
                       THEN events \cup {[id |-> id, attempt |-> r.attempt, state |-> Acceptance(r)]}
                       ELSE events
                /\ projection' = IF accepts THEN Project(r, id) ELSE projection
           ELSE UNCHANGED <<results, deliveries, events, projection>>
        /\ receipts' = receipts \cup {[key |-> Key(r), id |-> id]}
        /\ pc' = [pc EXCEPT ![c] = "idle"]
        /\ req' = [req EXCEPT ![c] = NoRequest]
        /\ mode' = [mode EXCEPT ![c] = "none"]
        /\ rid' = [rid EXCEPT ![c] = 0]
        /\ UNCHANGED <<ledger, nextId>>

\* Cancellation, a crashed process, a database error, staged bytes that do
\* not match their reference or a refusing verifier end a call anywhere.
ApplyAbort(c) == Running(c) /\ Rollback(c)

(***************************************************************************)
(* Next-state relation.                                                    *)
(***************************************************************************)
RequestFor(g, a, t, k, x) ==
    [resource |-> g.resource, owner |-> g.owner, fence |-> g.fence, epoch |-> g.epoch,
     attempt |-> a, task |-> t, content |-> k, expires |-> x]

Expiries(k) == IF NeedsDecision(k.acceptance) THEN {d.expires : d \in decisions} ELSE {0}

Begin(c) ==
    \E g \in grants, a \in Attempts, t \in Tasks, k \in Contents :
        \E x \in Expiries(k) : ApplyBegin(c, RequestFor(g, a, t, k, x))

ApplyStep(c) ==
    \/ ApplyLockLease(c)
    \/ ApplyLockAcceptance(c)
    \/ ApplyResolve(c)
    \/ ApplyWrite(c)
    \/ ApplyCheck(c)
    \/ ApplyCommit(c)

Next ==
    \/ Tick
    \/ \E w \in Writers, b \in BOOLEAN : RotateAdmission(w, b)
    \/ \E r \in Resources, o \in Owners, ttl \in 1 .. MaxTTL : ClaimLease(r, o, ttl)
    \/ \E r \in Resources, o \in Owners, ttl \in 0 .. MaxTTL : ReclaimLease(r, o, ttl)
    \/ \E r \in Resources : CancelLease(r)
    \/ \E g \in grants, d \in 1 .. MaxTTL : ScheduleRetry(g, d)
    \/ \E g \in grants, a \in Attempts : RegisterExecution(g, a)
    \/ \E e \in executions, k \in Contents, ttl \in 1 .. MaxTTL : RecordDecision(e, k, ttl)
    \/ \E c \in Calls : Begin(c) \/ ApplyStep(c) \/ ApplyAbort(c)

Spec == Init /\ [][Next]_vars

(***************************************************************************)
(* Fairness: a running statement ends, and PostgreSQL hands a row lock to  *)
(* its waiters in queue order, so a waiting call is not passed forever.    *)
(* Nothing is assumed of the clock, the operators or the workers.          *)
(***************************************************************************)
FairSpec ==
    /\ Spec
    /\ \A c \in Calls : SF_vars(ApplyLockLease(c)) /\ SF_vars(ApplyLockAcceptance(c))
    /\ \A c \in Calls : WF_vars(ApplyResolve(c) \/ ApplyWrite(c) \/ ApplyCheck(c) \/ ApplyCommit(c))

(***************************************************************************)
(* Properties.                                                             *)
(***************************************************************************)

\* Every variable has the shape of the rows it stands for.
TypeOK ==
    /\ now \in 0 .. MaxTime
    /\ admission \in [epoch : 1 .. MaxEpoch, writer : Writers, enabled : BOOLEAN]
    /\ lease \in [Resources -> Leases]
    /\ grants \subseteq Grants
    /\ executions \subseteq Executions
    /\ decisions \subseteq Decisions
    /\ nextId \in 0 .. MaxResults
    /\ results \subseteq [id : 1 .. MaxResults, req : Requests]
    /\ events \subseteq [id : 1 .. MaxResults, attempt : Attempts, state : AcceptanceStates]
    /\ projection \in [Attempts -> [state : AcceptanceStates \cup {"none"}, watermark : 0 .. MaxResults]]
    /\ deliveries \subseteq 1 .. MaxResults
    /\ pc \in [Calls -> PCs]
    /\ req \in [Calls -> Requests \cup {NoRequest}]
    /\ mode \in [Calls -> {"none", "stored", "absent", "fresh", "replay"}]
    /\ rid \in [Calls -> 0 .. MaxResults]

\* Apply never commits a result under a superseded grant: at the commit the
\* admission row still names the request's epoch and writer, and the lease
\* row still names its owner, fence and epoch and is not cancelled.
FencedWrites ==
    [][\A x \in results' \ results :
          /\ AdmissionGrant(x.req.owner, x.req.epoch)
          /\ LeaseTuple(x.req.resource) = [owner |-> x.req.owner, fence |-> x.req.fence, epoch |-> x.req.epoch]
          /\ lease[x.req.resource].cancelledAt = "null"]_vars

\* One row per unit of work and epoch, whoever retried it and under whatever
\* fence; every receipt Apply handed out names that row.
SingleReceipt ==
    /\ \A x, y \in results :
          (/\ x.req.resource = y.req.resource /\ x.req.attempt = y.req.attempt
           /\ x.req.epoch = y.req.epoch /\ x.req.task = y.req.task) => x = y
    /\ \A p \in receipts : \E x \in results : x.id = p.id /\ Key(x.req) = p.key

\* validatePriorAcceptance: a build-eligible attempt stays build-eligible,
\* also when two resources accept the same attempt at once.
NeverDowngraded ==
    [][\A a \in Attempts :
          BuildEligible(projection[a].state) => BuildEligible(projection'[a].state)]_vars

\* The projection of an attempt is its newest acceptance event, so a release
\* that scans the projection reads what the event log says.
ProjectionIsLatest ==
    \A a \in Attempts :
        LET log == {e \in events : e.attempt = a}
        IN  IF log = {} THEN projection[a].watermark = 0
            ELSE \E e \in log :
                   /\ projection[a] = [state |-> e.state, watermark |-> e.id]
                   /\ \A f \in log : f.id <= e.id

\* Result ids follow fences: a zombie holder of an older fence never writes
\* behind the holder that replaced it.
FenceOrder ==
    \A x, y \in results :
        x.req.resource = y.req.resource /\ x.id < y.id => x.req.fence <= y.req.fence

\* Gaps and exclusions are committed only under a recorded decision that
\* binds the same execution, content and expiry.
DecidedResults ==
    \A x \in results : NeedsDecision(Acceptance(x.req)) =>
        [execution |-> ExecutionOf(x.req), content |-> x.req.content, expires |-> x.req.expires] \in decisions

\* The stored rows have their types, a decided one has its decision, and a
\* resource's rows were written in the order of their fences.
ResultsDecided == TypeOK /\ DecidedResults /\ FenceOrder

\* Every Apply call returns: no lock order of two calls waits on itself, and
\* a grant that goes stale during a wait ends the call.
CallsEnd == \A c \in Calls : Running(c) ~> ~Running(c)

\* The ledger implements its abstract contract: every transaction takes
\* effect in one step, at its commit.
Atomic == INSTANCE AtomicLedger WITH
    epoch <- admission.epoch,
    lease <- [r \in Resources |-> LeaseTuple(r)],
    Rows <- [id : 1 .. MaxResults, req : Requests]

\* Apply with its locks and rechecks is indistinguishable from an atomic
\* fenced write of one row.
ImplementsAtomicLedger == Atomic!Spec
=============================================================================
