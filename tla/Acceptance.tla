----------------------------- MODULE Acceptance -----------------------------
(***************************************************************************)
(* The conversion catalogue and the acceptance adapter of the corpus       *)
(* writer (internal/corpus/store/intake: conversion_catalog.go and         *)
(* acceptance*.go), with the source capture that shares their blobs.       *)
(*                                                                         *)
(* A worker runs jobs: it registers the outputs of a conversion, applies   *)
(* an acceptance, or captures a source blob.  A job is a READ COMMITTED    *)
(* transaction that takes its locks one at a time: the lease row, then     *)
(* the catalogue guard (registration, capture) or the identity and attempt *)
(* keys (acceptance), then blob rows in hash order.  The clock may expire  *)
(* the lease between any two statements; the grant is read again after     *)
(* every wait.                                                             *)
(*                                                                         *)
(* What the evidence of a candidate says is a fact of the job (outcome,    *)
(* gaps, blobs); which of it is retained is state.                         *)
(***************************************************************************)
EXTENDS Integers, FiniteSets, Sequences, FiniteSetsExt

CONSTANTS
    Workers,     \* workers; each works on one document version
    VersionOf,   \* the version of a worker
    JobsOf,      \* the jobs a worker may run
    Blobs,       \* 1..n, in hash order
    Preset,      \* candidates whose blobs and rows are retained initially
    MaxFence, MaxJobs   \* bounds

VARIABLES
    lease,       \* version -> [fence, live]
    grant,       \* worker -> the fence it works with
    catalogue,   \* blobs with a bronze.blob row
    edges,       \* blob_retention_reference rows: [blob, kind, owner]
    evidence,    \* candidates whose silver rows are stored
    results,     \* execution_result rows: [key, job, owner, id]
    events,      \* revision_acceptance rows: [job, id]
    permits,     \* whether the decision authority still permits
    nextId,      \* the next result id, which is the watermark
    tx           \* worker -> its job and its transaction

vars == <<lease, grant, catalogue, edges, evidence, results, events, permits, nextId, tx>>

Versions == {VersionOf[w] : w \in Workers}

BuildEligible(state) == state \in {"accepted", "accepted_with_gaps"}

NoJob == [kind |-> "none", key |-> "", blobs |-> {}, identity |-> "", revision |-> "", attempt |-> "",
          digest |-> "", state |-> "", outcome |-> "", decision |-> FALSE, gaps |-> 0]

Idle == [pc |-> "idle", job |-> NoJob, try |-> 0, leased |-> FALSE, guard |-> FALSE, identity |-> "",
         replay |-> FALSE, missing |-> {}, mine |-> {}, held |-> {}, answer |-> "none", jobs |-> 0]

Job(w) == tx[w].job

(* acceptanceGrant and lockLease: the locked row, by a fresh clock. *)
Granted(w) == LET l == lease[VersionOf[w]] IN l.fence = grant[w] /\ l.live

Goto(w, pc) == tx' = [tx EXCEPT ![w].pc = pc]

End(w, answer) ==
    tx' = [tx EXCEPT ![w] = [Idle EXCEPT !.job = tx[w].job, !.jobs = tx[w].jobs,
                                         !.replay = tx[w].replay, !.answer = answer]]

(* Business errors get a last grant check: stale takes precedence. *)
Refuse(w, why) == End(w, IF Granted(w) THEN why ELSE "stale")

(* errCatalogRediscover: three attempts, each a new transaction. *)
Rediscover(w) ==
    IF tx[w].try = 2 THEN End(w, "contention")
    ELSE tx' = [tx EXCEPT ![w] = [Idle EXCEPT !.pc = "begin", !.job = tx[w].job,
                                              !.jobs = tx[w].jobs, !.try = tx[w].try + 1]]

Rest == <<lease, grant, catalogue, edges, evidence, results, events, permits, nextId>>

-----------------------------------------------------------------------------
(* Shapes that are refused before a transaction.                           *)

AcceptanceShape(job) ==
    /\ job.state = "accepted" /\ job.decision => job.outcome = "accepted"
    /\ job.state \in {"candidate", "quarantined"} => ~job.decision

StartJob(w) ==
    /\ tx[w].pc = "idle" /\ tx[w].jobs < MaxJobs
    /\ \E job \in JobsOf[w] :
         /\ job.kind = "apply" => AcceptanceShape(job)
         /\ tx' = [tx EXCEPT ![w] = [Idle EXCEPT !.pc = "begin", !.job = job, !.jobs = tx[w].jobs + 1]]
    /\ UNCHANGED Rest

LockLease(w) ==
    /\ tx[w].pc = "begin"
    /\ \A v \in Workers \ {w} : VersionOf[v] = VersionOf[w] => ~tx[v].leased
    /\ IF Granted(w)
       THEN tx' = [tx EXCEPT ![w] = [@ EXCEPT !.pc = "result", !.leased = TRUE]]
       ELSE End(w, "stale")
    /\ UNCHANGED Rest

(* FindExecutionResult / FindAcceptanceResult by idempotency key. *)
Stored(w) == {r \in results : r.key = Job(w).key}

(* classifyPayload / classifyCatalogPayload *)
SamePayload(w) == \A r \in Stored(w) : r.job = Job(w)

FindResult(w) ==
    /\ tx[w].pc = "result"
    /\ LET replay == Stored(w) # {} IN
       CASE Job(w).kind = "register" /\ replay /\ ~SamePayload(w) -> Refuse(w, "conflict")
         [] Job(w).kind # "apply" /\ (replay => SamePayload(w) \/ Job(w).kind = "capture") ->
              tx' = [tx EXCEPT ![w] = [@ EXCEPT !.pc = "guard", !.replay = replay]]
         [] Job(w).kind = "apply" ->
              tx' = [tx EXCEPT ![w] = [@ EXCEPT !.pc = "identity", !.replay = replay]]
    /\ UNCHANGED Rest

-----------------------------------------------------------------------------
(* The conversion catalogue.                                               *)

(* The advisory lock that every writer of bronze.blob takes. *)
AcquireBlobCatalogGuard(w) ==
    /\ tx[w].pc = "guard"
    /\ \A v \in Workers \ {w} : ~tx[v].guard
    /\ IF Granted(w)
       THEN tx' = [tx EXCEPT ![w] = [@ EXCEPT !.pc = "blobs", !.guard = TRUE]]
       ELSE End(w, "stale")
    /\ UNCHANGED Rest

(* The next blob to lock, in hash order. *)
NextBlob(w) == Min(Job(w).blobs \ (tx[w].held \cup tx[w].missing))

(* LockCatalogBlob: a row lock, or no row. *)
LockCatalogBlob(w) ==
    /\ tx[w].pc = "blobs"
    /\ Job(w).blobs \ (tx[w].held \cup tx[w].missing) # {}
    /\ LET b == NextBlob(w) IN
       /\ \A v \in Workers \ {w} : b \notin tx[v].held
       /\ CASE ~Granted(w) -> End(w, "stale")
            [] Granted(w) /\ b \in catalogue -> tx' = [tx EXCEPT ![w].held = @ \cup {b}]
            [] Granted(w) /\ b \notin catalogue /\ (tx[w].replay \/ Job(w).kind = "apply") ->
                 End(w, "integrity")
            [] OTHER -> tx' = [tx EXCEPT ![w].missing = @ \cup {b}]
    /\ UNCHANGED Rest

(* InsertCatalogBlob waits for an open insert of the hash; a row that is   *)
(* there by then is not inserted and the job starts over.                  *)
InsertCatalogBlob(w) ==
    /\ tx[w].pc = "blobs"
    /\ Job(w).blobs = tx[w].held \cup tx[w].missing
    /\ tx[w].missing # {}
    /\ LET b == Min(tx[w].missing) IN
       /\ \A v \in Workers \ {w} : b \notin tx[v].mine
       /\ CASE ~Granted(w) -> End(w, "stale")
            [] Granted(w) /\ b \in catalogue -> Rediscover(w)
            [] OTHER -> tx' = [tx EXCEPT ![w] = [@ EXCEPT !.missing = @ \ {b}, !.mine = @ \cup {b},
                                                         !.held = @ \cup {b}]]
    /\ UNCHANGED Rest

Owner(w) == [version |-> VersionOf[w], fence |-> grant[w]]

(* FindCatalogExecutionEdge for the execution that the result froze. *)
EdgesOf(w) ==
    \A r \in Stored(w) : \A b \in Job(w).blobs :
        [blob |-> b, kind |-> "execution", owner |-> r.owner] \in edges

(* Bytes verified, then edges and result of a fresh registration; a        *)
(* replay inserts nothing and returns the frozen receipt.  A capture       *)
(* records its blob and edge.                                              *)
FinishRegistration(w) ==
    /\ tx[w].pc = "blobs" /\ Job(w).kind # "apply"
    /\ Job(w).blobs = tx[w].held
    /\ CASE ~Granted(w) -> End(w, "stale") /\ UNCHANGED <<catalogue, edges, results, nextId>>
         [] Granted(w) /\ tx[w].replay /\ Job(w).kind = "register" ->
              /\ IF EdgesOf(w) THEN End(w, "stored") ELSE Refuse(w, "integrity")
              /\ UNCHANGED <<catalogue, edges, results, nextId>>
         [] Granted(w) /\ ~tx[w].replay /\ Stored(w) # {} ->
              Rediscover(w) /\ UNCHANGED <<catalogue, edges, results, nextId>>
         [] OTHER ->
              /\ catalogue' = catalogue \cup tx[w].mine
              /\ edges' = edges \cup {[blob |-> b, kind |-> "execution", owner |-> Owner(w)] : b \in Job(w).blobs}
              /\ results' = IF Job(w).kind = "capture" THEN results
                            ELSE results \cup {[key |-> Job(w).key, job |-> Job(w), owner |-> Owner(w), id |-> nextId]}
              /\ nextId' = nextId + 1
              /\ End(w, "stored")
    /\ UNCHANGED <<lease, grant, evidence, events, permits>>

-----------------------------------------------------------------------------
(* Acceptance.                                                             *)

(* Mutant: only the attempt key is locked. *)
MLockAcceptanceKey(w) ==
    /\ tx[w].pc = "identity"
    /\ IF Granted(w) THEN Goto(w, "validate") ELSE End(w, "stale")
    /\ UNCHANGED Rest

(* ProvisionAcceptanceLock and LockAcceptanceKey of the identity.  The     *)
(* attempt's own key follows; the attempt belongs to the locked lease.     *)
LockAcceptanceKey(w) ==
    /\ tx[w].pc = "identity"
    /\ \A v \in Workers \ {w} : tx[v].identity # Job(w).identity
    /\ IF Granted(w)
       THEN tx' = [tx EXCEPT ![w] = [@ EXCEPT !.pc = "validate", !.identity = Job(w).identity]]
       ELSE End(w, "stale")
    /\ UNCHANGED Rest

(* ReadAcceptanceAttempt: the projection of an attempt is its last event. *)
Attempt(w) == {e \in events : e.job.revision = Job(w).revision /\ e.job.attempt = Job(w).attempt}

Projection(w) == CHOOSE e \in Attempt(w) : \A f \in Attempt(w) : f.id <= e.id

(* The states a fresh event may follow. *)
TransitionPermitted(w) ==
    Attempt(w) # {} =>
        LET prior == Projection(w).job IN
        /\ ~BuildEligible(prior.state) /\ prior.state # "excluded"
        /\ prior.digest = Job(w).digest
        /\ Job(w).state # "candidate"
        /\ prior.state = "quarantined" /\ BuildEligible(Job(w).state) => Job(w).decision

(* A build-eligible or quarantined disposition needs the roll-up's word. *)
ReportSupports(w) ==
    /\ Job(w).state = "quarantined" => Job(w).outcome \in {"quarantined", "needs_ocr"}
    /\ BuildEligible(Job(w).state) => Job(w).outcome = Job(w).state

(* The projections of the identity that are build-eligible and older. *)
Eligible(identity, before) ==
    {e \in events : /\ e.job.identity = identity /\ BuildEligible(e.job.state) /\ e.id < before
                    /\ \A f \in events : f.job.revision = e.job.revision /\ f.job.attempt = e.job.attempt
                                            => f.id <= e.id}

Before(w) == IF tx[w].replay THEN (CHOOSE r \in Stored(w) : TRUE).id ELSE nextId

(* ReadAcceptanceBaseline: the newest build-eligible digest before it. *)
ReadAcceptanceBaseline(w) ==
    LET older == Eligible(Job(w).identity, Before(w)) IN
    IF older = {} THEN Job(w).digest
    ELSE (CHOOSE e \in older : \A f \in older : f.id <= e.id).job.digest

(* Gaps and exclusions need a decision and at least one named gap. *)
ScopedGaps(w) ==
    Job(w).state \in {"accepted_with_gaps", "excluded"} => Job(w).decision /\ Job(w).gaps > 0

(* The closure loads from the catalogue and equals the silver rows. *)
LoadClosure(w) == Job(w).blobs \subseteq catalogue

EvidenceMatches(w) == Job(w).digest \in evidence

Permitted(w) == Job(w).decision => permits

Validate(w) ==
    /\ tx[w].pc = "validate"
    /\ CASE ~Granted(w) -> End(w, "stale")
         [] Granted(w) /\ ~Permitted(w) -> Refuse(w, "rejected")
         [] Granted(w) /\ Permitted(w) /\ Stored(w) # {} /\ ~tx[w].replay -> Rediscover(w)
         [] Granted(w) /\ Permitted(w) /\ tx[w].replay /\ ~SamePayload(w) -> Refuse(w, "conflict")
         [] OTHER ->
              IF /\ ~tx[w].replay => TransitionPermitted(w)
                 /\ LoadClosure(w) /\ ReportSupports(w)
                 /\ BuildEligible(Job(w).state) => ReadAcceptanceBaseline(w) = Job(w).digest
                 /\ ScopedGaps(w) /\ EvidenceMatches(w)
              THEN Goto(w, "blobs")
              ELSE Refuse(w, "rejected")
    /\ UNCHANGED Rest

(* Every blob has the edge of an execution that registered or captured it. *)
ProtectionMatches(w) ==
    \A b \in Job(w).blobs : \E e \in edges : e.blob = b /\ e.kind = "execution"

Retained(job) ==
    {[blob |-> b, kind |-> "document_revision",
      owner |-> [version |-> job.revision, fence |-> 0]] : b \in job.blobs}

Retention(job) == IF BuildEligible(job.state) THEN Retained(job) ELSE {}

(* commitSet of a replay: the event, and the blobs it retained. *)
CommitSet(w) ==
    \E e \in events : e.job = Job(w) /\ Retention(Job(w)) \subseteq edges

(* All blobs are locked: check their protection, then record the result,   *)
(* the event, its projection and the retention in one commit.              *)
RecordAcceptance(w) ==
    /\ tx[w].pc = "blobs" /\ Job(w).kind = "apply"
    /\ Job(w).blobs = tx[w].held
    /\ CASE ~Granted(w) -> End(w, "stale") /\ UNCHANGED <<edges, results, events, nextId>>
         [] Granted(w) /\ ~(ProtectionMatches(w) /\ Permitted(w)) ->
              Refuse(w, "rejected") /\ UNCHANGED <<edges, results, events, nextId>>
         [] Granted(w) /\ ProtectionMatches(w) /\ Permitted(w) /\ tx[w].replay ->
              /\ IF CommitSet(w) THEN End(w, "stored") ELSE Refuse(w, "integrity")
              /\ UNCHANGED <<edges, results, events, nextId>>
         [] OTHER ->
              /\ edges' = edges \cup Retention(Job(w))
              /\ results' = results \cup {[key |-> Job(w).key, job |-> Job(w), owner |-> Owner(w), id |-> nextId]}
              /\ events' = events \cup {[job |-> Job(w), id |-> nextId]}
              /\ nextId' = nextId + 1
              /\ End(w, "stored")
    /\ UNCHANGED <<lease, grant, catalogue, evidence, permits>>

(* Cancellation, a failed object read or a lost connection. *)
Fault(w) == tx[w].pc # "idle" /\ End(w, "failed") /\ UNCHANGED Rest

-----------------------------------------------------------------------------
(* The environment.                                                        *)

Claim(w) ==
    LET v == VersionOf[w] IN
    /\ tx[w].pc = "idle" /\ ~lease[v].live /\ lease[v].fence < MaxFence
    /\ \A x \in Workers : VersionOf[x] = v => ~tx[x].leased
    /\ lease' = [lease EXCEPT ![v] = [fence |-> @.fence + 1, live |-> TRUE]]
    /\ grant' = [grant EXCEPT ![w] = lease[v].fence + 1]
    /\ UNCHANGED <<catalogue, edges, evidence, results, events, permits, nextId, tx>>

Expire(v) ==
    /\ lease[v].live
    /\ lease' = [lease EXCEPT ![v].live = FALSE]
    /\ UNCHANGED <<grant, catalogue, edges, evidence, results, events, permits, nextId, tx>>

(* The document store records a candidate's rows under the lease. *)
RecordEvidence(w) ==
    /\ Granted(w) /\ tx[w].pc = "idle"
    /\ \A x \in Workers : VersionOf[x] = VersionOf[w] => ~tx[x].leased
    /\ \E job \in JobsOf[w] :
         job.kind = "apply" /\ job.digest \notin evidence /\ evidence' = evidence \cup {job.digest}
    /\ UNCHANGED <<lease, grant, catalogue, edges, results, events, permits, nextId, tx>>

RevokePermit ==
    /\ permits /\ permits' = FALSE
    /\ UNCHANGED <<lease, grant, catalogue, edges, evidence, results, events, nextId, tx>>

Init ==
    /\ lease = [v \in Versions |-> [fence |-> 1, live |-> FALSE]]
    /\ grant = [w \in Workers |-> 0]
    /\ catalogue = (IF Preset = {} THEN {} ELSE Blobs)
    /\ edges = (IF Preset = {} THEN {}
                ELSE {[blob |-> b, kind |-> "execution", owner |-> [version |-> "v0", fence |-> 1]] : b \in Blobs})
    /\ evidence = Preset
    /\ results = {} /\ events = {} /\ permits = TRUE /\ nextId = 1
    /\ tx = [w \in Workers |-> Idle]

Step(w) ==
    \/ LockLease(w) \/ FindResult(w) \/ AcquireBlobCatalogGuard(w) \/ LockCatalogBlob(w)
    \/ InsertCatalogBlob(w) \/ FinishRegistration(w)
    \/ LockAcceptanceKey(w) \/ Validate(w) \/ RecordAcceptance(w)

Next ==
    \/ \E w \in Workers : StartJob(w) \/ Step(w) \/ Fault(w) \/ Claim(w) \/ RecordEvidence(w)
    \/ \E v \in Versions : Expire(v)
    \/ RevokePermit

Spec == Init /\ [][Next]_vars

(* Statements run; PostgreSQL queues the waiters of a lock. *)
FairSpec ==
    Spec /\ \A w \in Workers :
        /\ WF_vars(FindResult(w) \/ FinishRegistration(w) \/ Validate(w) \/ RecordAcceptance(w))
        /\ SF_vars(LockLease(w)) /\ SF_vars(AcquireBlobCatalogGuard(w)) /\ SF_vars(LockCatalogBlob(w))
        /\ SF_vars(InsertCatalogBlob(w)) /\ SF_vars(LockAcceptanceKey(w))
-----------------------------------------------------------------------------
(* Properties.                                                             *)

(* Types of the adapter's variables. *)
TypeOK ==
    /\ catalogue \subseteq Blobs /\ permits \in BOOLEAN /\ nextId \in Nat
    /\ \A e \in edges : e.blob \in catalogue
    /\ \A w \in Workers :
         /\ tx[w].pc \in {"idle", "begin", "result", "guard", "blobs", "identity", "validate"}
         /\ tx[w].held \subseteq Blobs /\ tx[w].try \in 0..2
         /\ tx[w].answer \in {"none", "stored", "conflict", "rejected", "stale", "integrity", "contention", "failed"}

(* One baseline per identity: however versions and revisions of a document *)
(* race, all its build-eligible acceptances are of one candidate, since    *)
(* replacing a baseline needs a comparison that Apply does not support.    *)
OneBaseline ==
    \A e, f \in events :
        /\ e.job.identity = f.job.identity
        /\ BuildEligible(e.job.state) /\ BuildEligible(f.job.state)
        => e.job.digest = f.job.digest

(* A build-eligible acceptance is complete: its evidence rows are stored,  *)
(* its closure is catalogued and retained both for the execution that made *)
(* it and for the revision.                                                *)
AcceptedComplete ==
    \A e \in events :
        BuildEligible(e.job.state) =>
            /\ e.job.digest \in evidence
            /\ e.job.blobs \subseteq catalogue
            /\ Retained(e.job) \subseteq edges
            /\ \A b \in e.job.blobs : \E x \in edges : x.blob = b /\ x.kind = "execution"

(* A replay of a committed job is never refused for what happened since:   *)
(* it gets its receipt unless the grant or the permit is gone.             *)
ReplaysAnswered ==
    \A w \in Workers :
        /\ tx[w].pc = "idle" /\ tx[w].replay
        /\ \E r \in results : r.key = Job(w).key /\ r.job = Job(w)
        => \/ tx[w].answer \in {"stored", "stale", "failed"}
           \/ tx[w].answer = "rejected" /\ Job(w).decision /\ ~permits

(* The three attempts are never used up: the guard and the lease leave     *)
(* nothing to rediscover.                                                  *)
NoContention == \A w \in Workers : tx[w].answer # "contention"

(* Every job ends: the lock order of catalogue, capture and acceptance has *)
(* no cycle.                                                               *)
JobsEnd == \A w \in Workers : tx[w].pc # "idle" ~> tx[w].pc = "idle"
=============================================================================
