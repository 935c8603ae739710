-------------------------- MODULE DocumentAdmission --------------------------
(***************************************************************************)
(* Document admission of internal/corpus/store/intake: capacity slots for  *)
(* document workflows, the launch and resume queues with their persisted   *)
(* turn, settlement of acceptance evidence, closure and reconciliation.    *)
(*                                                                         *)
(* Every operation is one transaction: it locks the country admission, the *)
(* leases, the delivery, the capacity row and the slot in that order, and  *)
(* reads the slot, the counts and the queue heads after the last wait, so  *)
(* one action per operation is exact.  Reconcile is two steps, because it  *)
(* observes the workflow between two transactions.                         *)
(*                                                                         *)
(* The fence of a version's lease names the whole lease tuple (the ledger  *)
(* hands out one owner and one epoch per fence), so a slot's binding is a  *)
(* fence.  A refused, replayed or conflicting call changes nothing and has *)
(* no action.                                                              *)
(***************************************************************************)
EXTENDS Integers, Sequences, FiniteSets

CONSTANTS
    Deliveries,   \* 1 .. N: launch deliveries in (due_at, deduplication_key) order
    Version,      \* the document version each delivery launches
    LimitChoices, \* [processing, open] values an operator configures
    Environment,  \* the outside events an instance explores
    MaxEpoch,     \* bound on admission rotations
    MaxFence,     \* bound on lease reclaims of one version
    MaxEvents,    \* bound on acceptance events of one attempt
    MaxConfigure  \* bound on configurations

Versions == {Version[d] : d \in Deliveries}
States == {"none", "reserved", "processing", "open_only", "closing", "released"}
Waits == {"none", "quarantine", "worker_loss"}
Reasons == {"completed", "terminal_gap", "cancelled", "expired", "abandoned", "execution_failed"}
Acceptances == {"candidate", "quarantined", "accepted", "excluded"}

OutsideEvents == {"expire", "cancel", "withdraw", "acknowledge", "terminate", "gap", "observe"}

ASSUME AdmissionAssumption ==
    /\ Environment \subseteq OutsideEvents
    /\ IsFiniteSet(Deliveries) /\ Deliveries = 1 .. Cardinality(Deliveries)
    /\ \A l \in LimitChoices :
          /\ l \in [processing : Nat, open : Nat]
          /\ 1 <= l.processing /\ l.processing <= l.open
    /\ MaxEpoch \in Nat \ {0} /\ MaxFence \in Nat \ {0} /\ MaxEvents \in Nat /\ MaxConfigure \in Nat

VARIABLES
    epoch,      \* country_admission.admission_epoch
    lease,      \* the execution lease of each version; fence 0 means no row
    limits,     \* document_admission_limit: revision and bounds
    turn,       \* its next_queue
    due,        \* deliveries 1 .. due have reached their due time
    withdrawn,  \* deliveries whose source window is cancelled
    acked,      \* acknowledged deliveries
    slot,       \* document_admission_slot, one per delivery
    ops,        \* operations that have a receipt, per slot
    events,     \* acceptance events of each attempt, oldest first; the watermark is the index
    gaps,       \* attempts with a retained terminal_gap result
    demand,     \* slots with resume_requested_at, in that order
    chain,      \* the logical workflow chain of each delivery
    seen,       \* the observation a reconciler carries between its two transactions
    permit,     \* the fence whose activity resolved the slot and may now apply, 0 if none
    passed      \* history: admissions of one queue past a feasible head of the other

config == <<limits, due, withdrawn>>
queues == <<turn, demand, passed>>
evidence == <<events, gaps>>
vars == <<epoch, lease, limits, turn, due, withdrawn, acked, slot, ops, events, gaps,
          demand, chain, seen, permit, passed>>

NoSlot == [state |-> "none", wait |-> "none", fence |-> 0, revision |-> 0, settled |-> 0, reason |-> "none"]
NoObservation == [revision |-> 0, status |-> "none"]

(***************************************************************************)
(* Leases.  The holder of the current fence is the only possible live      *)
(* document actor.                                                         *)
(***************************************************************************)

\* AdmissionActorLive with reconciliation = TRUE: a cancelled grant still counts.
Unexpired(v) == lease[v].fence > 0 /\ lease[v].epoch = epoch /\ lease[v].expiry = "ahead"

\* AdmissionActorLive with reconciliation = FALSE.
Live(v) == Unexpired(v) /\ lease[v].cancelledAt = "null"

LeaseMatches(d) == slot[d].fence = lease[Version[d]].fence

\* The bound grant was superseded, cancelled, outlived or left in an old epoch.
GrantLost(d) == ~LeaseMatches(d) \/ ~Live(Version[d])

\* mutant: the current lease is cancelled whoever holds it
CancelAnyLease(d) == [lease EXCEPT ![Version[d]] = [lease[Version[d]] EXCEPT !.cancelledAt = "set"]]

\* mutant: the lease survives the closure
KeepLease(d) == lease

\* admissionLeaseDisposition: cancel the still-matching lease, leave a replacement alone.
LeaseDisposition(d) ==
    IF LeaseMatches(d)
    THEN [lease EXCEPT ![Version[d]] = [lease[Version[d]] EXCEPT !.cancelledAt = "set"]]
    ELSE lease

(***************************************************************************)
(* Counts and queue heads, read after the capacity lock.                   *)
(***************************************************************************)
InState(S) == {d \in Deliveries : slot[d].state \in S}
Processing == InState({"reserved", "processing"})
Open == InState({"reserved", "processing", "open_only", "closing"})

\* mutant: a closing slot no longer occupies its version
VersionBusyUntilClosing(v) == \E d \in Open : Version[d] = v /\ slot[d].state # "closing"

VersionBusy(v) == \E d \in Open : Version[d] = v

WaitingLaunches ==
    {d \in Deliveries : /\ d <= due /\ d \notin acked /\ d \notin withdrawn
                        /\ slot[d].state = "none" /\ ~VersionBusy(Version[d])}

LaunchHead == IF WaitingLaunches = {} THEN 0
              ELSE CHOOSE d \in WaitingLaunches : \A e \in WaitingLaunches : d <= e

\* The resume CTE: open_only with a recorded demand, a live bound grant and,
\* for a quarantine, an unexpired settled event.
CanResume(d) ==
    /\ slot[d].state = "open_only"
    /\ LeaseMatches(d) /\ Live(Version[d])
    /\ slot[d].wait = "quarantine" =>
          slot[d].settled > 0 /\ events[d][slot[d].settled].age = "young"

Resumable == {i \in DOMAIN demand : CanResume(demand[i])}

ResumeHead == IF Resumable = {} THEN 0
              ELSE demand[CHOOSE i \in Resumable : \A j \in Resumable : i <= j]

Demanded(d) == \E i \in DOMAIN demand : demand[i] = d

Undemanded(d) ==
    IF Demanded(d)
    THEN LET k == CHOOSE i \in DOMAIN demand : demand[i] = d
         IN  SubSeq(demand, 1, k - 1) \o SubSeq(demand, k + 1, Len(demand))
    ELSE demand

(***************************************************************************)
(* Acceptance evidence.                                                    *)
(***************************************************************************)
Watermark(d) == Len(events[d])
Latest(d) == IF events[d] = <<>> THEN "none" ELSE events[d][Watermark(d)].state

\* A retained non-candidate event above the settled watermark.
Unsettled(d) == Latest(d) \notin {"none", "candidate"} /\ Watermark(d) > slot[d].settled

\* admissionQuarantineTime: only a quarantine has an expiry, measured from the
\* latest event, which must be the settled one.
QuarantineAge(d, age) ==
    /\ Latest(d) = "quarantined" /\ Watermark(d) = slot[d].settled
    /\ events[d][Watermark(d)].age = age

InQuarantineTime(d) == slot[d].wait = "quarantine" => QuarantineAge(d, "young")

(***************************************************************************)
(* Initial state: unconfigured limits, no lease, nothing due.              *)
(***************************************************************************)
Init ==
    /\ epoch = 1
    /\ lease = [v \in Versions |-> [fence |-> 0, epoch |-> 0, expiry |-> "past", cancelledAt |-> "null"]]
    /\ limits = [revision |-> 0, processing |-> 0, open |-> 0]
    /\ turn = "launch"
    /\ due = 0 /\ withdrawn = {} /\ acked = {}
    /\ slot = [d \in Deliveries |-> NoSlot]
    /\ ops = [d \in Deliveries |-> {}]
    /\ events = [d \in Deliveries |-> <<>>] /\ gaps = {}
    /\ demand = <<>>
    /\ chain = [d \in Deliveries |-> "running"]
    /\ seen = [d \in Deliveries |-> NoObservation]
    /\ permit = [d \in Deliveries |-> 0]
    /\ passed = [launch |-> 0, resume |-> 0]

(***************************************************************************)
(* The ledger and the outside world.                                       *)
(***************************************************************************)
RotateAdmission ==
    /\ epoch < MaxEpoch
    /\ epoch' = epoch + 1
    /\ UNCHANGED <<lease, config, queues, acked, slot, ops, evidence, chain, seen, permit>>

\* ClaimLease for a missing row, ReclaimLease for a lost one.
GrantLease(v) ==
    /\ lease[v].fence < MaxFence
    /\ ~Live(v)
    /\ lease' = [lease EXCEPT ![v] =
          [fence |-> lease[v].fence + 1, epoch |-> epoch, expiry |-> "ahead", cancelledAt |-> "null"]]
    /\ UNCHANGED <<epoch, config, queues, acked, slot, ops, evidence, chain, seen, permit>>

\* The database clock passes expires_at.
ExpireLease(v) ==
    /\ "expire" \in Environment
    /\ lease[v].expiry = "ahead"
    /\ lease' = [lease EXCEPT ![v] = [lease[v] EXCEPT !.expiry = "past"]]
    /\ UNCHANGED <<epoch, config, queues, acked, slot, ops, evidence, chain, seen, permit>>

\* Cancellation of a document lease from outside admission.
CancelLease(v) ==
    /\ "cancel" \in Environment
    /\ lease[v].fence > 0 /\ lease[v].cancelledAt = "null"
    /\ lease' = [lease EXCEPT ![v] = [lease[v] EXCEPT !.cancelledAt = "set"]]
    /\ UNCHANGED <<epoch, config, queues, acked, slot, ops, evidence, chain, seen, permit>>

FallDue ==
    /\ due + 1 \in Deliveries
    /\ due' = due + 1
    /\ UNCHANGED <<epoch, lease, limits, withdrawn, queues, acked, slot, ops, evidence, chain, seen, permit>>

\* The source window of a delivery is cancelled, or reclaimed after that.
\* Only launches are affected: an existing slot never reads its window again.
Withdraw(d) ==
    /\ "withdraw" \in Environment
    /\ slot[d].state = "none"
    /\ withdrawn' = IF d \in withdrawn THEN withdrawn \ {d} ELSE withdrawn \cup {d}
    /\ UNCHANGED <<epoch, lease, limits, due, queues, acked, slot, ops, evidence, chain, seen, permit>>

\* Sources.AcknowledgeLaunch: no slot is consulted.
AcknowledgeLaunch(d) ==
    /\ "acknowledge" \in Environment
    /\ d \notin acked
    /\ acked' = acked \cup {d}
    /\ UNCHANGED <<epoch, lease, config, queues, slot, ops, evidence, chain, seen, permit>>

\* The logical chain of a started workflow ends, in any way.
Terminate(d) ==
    /\ "terminate" \in Environment
    /\ slot[d].state # "none" /\ chain[d] = "running"
    /\ chain' = [chain EXCEPT ![d] = "terminal"]
    /\ UNCHANGED <<epoch, lease, config, queues, acked, slot, ops, evidence, seen, permit>>

\* The clock passes the quarantine expiry of the latest event.
AgeQuarantine(d) ==
    /\ Latest(d) = "quarantined" /\ events[d][Watermark(d)].age = "young"
    /\ events' = [events EXCEPT ![d] = [events[d] EXCEPT ![Watermark(d)] = [state |-> "quarantined", age |-> "old"]]]
    /\ UNCHANGED <<epoch, lease, config, queues, acked, slot, ops, gaps, chain, seen, permit>>

\* documentAdmission, at the start of an activity: Resolve under the live
\* document grant must find the slot processing and bound to that grant.
\* The activity may pause before it applies.  One that is retried after its
\* result committed only replays it, so it is not counted again.
CheckPermission(d) ==
    /\ slot[d].state = "processing" /\ LeaseMatches(d) /\ Live(Version[d])
    /\ ~Unsettled(d)
    /\ permit' = [permit EXCEPT ![d] = lease[Version[d]].fence]
    /\ UNCHANGED <<epoch, lease, config, queues, acked, slot, ops, evidence, chain, seen>>

\* The store asks Apply for the live lease, never for the slot.
MayApply(d) == permit[d] # 0 /\ permit[d] = lease[Version[d]].fence /\ Live(Version[d])

\* Acceptance transitions that Acceptance.Apply permits (decisions, which it
\* may also need, are taken as given).
AcceptanceAllowed(prior, next) ==
    /\ prior \notin {"accepted", "excluded"}
    /\ prior # "none" => next # "candidate"

ApplyAcceptance(d, state) ==
    /\ MayApply(d)
    /\ AcceptanceAllowed(Latest(d), state)
    /\ Watermark(d) < MaxEvents
    /\ events' = [events EXCEPT ![d] = Append(events[d], [state |-> state, age |-> "young"])]
    /\ permit' = [permit EXCEPT ![d] = 0]
    /\ UNCHANGED <<epoch, lease, config, queues, acked, slot, ops, gaps, chain, seen>>

ApplyTerminalGap(d) ==
    /\ "gap" \in Environment
    /\ MayApply(d)
    /\ d \notin gaps
    /\ gaps' = gaps \cup {d}
    /\ permit' = [permit EXCEPT ![d] = 0]
    /\ UNCHANGED <<epoch, lease, config, queues, acked, slot, ops, events, chain, seen>>

(***************************************************************************)
(* Admission operations.                                                   *)
(***************************************************************************)
Configure(l) ==
    /\ limits.revision < MaxConfigure
    /\ limits' = [revision |-> limits.revision + 1, processing |-> l.processing, open |-> l.open]
    /\ UNCHANGED <<epoch, lease, due, withdrawn, queues, acked, slot, ops, evidence, chain, seen, permit>>

\* admissionWriteReceipt with admissionUpdate: a change advances the revision
\* by one and leaves a receipt for its operation.
Record(d, op, next) ==
    /\ slot' = [slot EXCEPT ![d] = [next EXCEPT !.revision = slot[d].revision + 1]]
    /\ ops' = [ops EXCEPT ![d] = ops[d] \cup {op}]

Flip(queue) == IF queue = "launch" THEN "resume" ELSE "launch"

\* An admission from a queue that competes with a feasible head of the other
\* needs the turn and passes it on.
Admit(queue, contested) ==
    /\ contested => turn = queue
    /\ turn' = IF contested THEN Flip(queue) ELSE turn
    /\ passed' = [passed EXCEPT ![queue] = 0,
                                ![Flip(queue)] = IF contested THEN passed[Flip(queue)] + 1 ELSE 0]

\* mutant: > instead of >= in the capacity refusal
HasRoomOffByOne(d) ==
    /\ ~VersionBusy(Version[d])
    /\ Cardinality(Processing) <= limits.processing
    /\ Cardinality(Open) <= limits.open

HasRoom(d) ==
    /\ ~VersionBusy(Version[d])
    /\ Cardinality(Processing) < limits.processing
    /\ Cardinality(Open) < limits.open

Reserve(d) ==
    /\ slot[d].state = "none" /\ d <= due /\ d \notin acked /\ d \notin withdrawn
    /\ Live(Version[d])
    /\ limits.revision > 0
    /\ HasRoom(d)
    /\ LaunchHead = d
    /\ Admit("launch", ResumeHead # 0)
    /\ Record(d, "reserve", [NoSlot EXCEPT !.state = "reserved", !.fence = lease[Version[d]].fence])
    /\ UNCHANGED <<epoch, lease, config, demand, acked, evidence, chain, seen, permit>>

\* A reserved slot starts processing; an occupied one takes the new binding.
Bind(d) ==
    LET fence == lease[Version[d]].fence
    IN  /\ slot[d].state \in {"reserved", "processing", "open_only"}
        /\ Live(Version[d])
        /\ slot[d].state = "reserved" \/ slot[d].fence # fence
        /\ Record(d, "bind", [slot[d] EXCEPT
              !.fence = fence, !.state = IF slot[d].state = "open_only" THEN "open_only" ELSE "processing"])
        /\ UNCHANGED <<epoch, lease, config, queues, acked, evidence, chain, seen, permit>>

\* admissionSettle: a quarantine waits in open_only, anything else closes.
Settlement(d) ==
    /\ slot[d].state \in {"reserved", "processing"} \/
       (slot[d].state = "open_only" /\ Latest(d) # "quarantined")
    /\ Record(d, "settle",
          IF Latest(d) = "quarantined"
          THEN [slot[d] EXCEPT !.settled = Watermark(d), !.state = "open_only", !.wait = "quarantine"]
          ELSE [slot[d] EXCEPT !.settled = Watermark(d), !.state = "closing", !.wait = "none",
                               !.reason = IF Latest(d) = "excluded" THEN "terminal_gap" ELSE "completed"])
    /\ demand' = Undemanded(d)

\* By control, or by the bound document grant.
Settle(d) ==
    /\ Unsettled(d)
    /\ Settlement(d)
    /\ UNCHANGED <<epoch, lease, config, turn, passed, acked, evidence, chain, seen, permit>>

RequestResume(d) ==
    /\ slot[d].state = "open_only"
    /\ LeaseMatches(d) /\ Live(Version[d])
    /\ InQuarantineTime(d)
    /\ ~Demanded(d)
    /\ Record(d, "request_resume", slot[d])
    /\ demand' = Append(demand, d)
    /\ UNCHANGED <<epoch, lease, config, turn, passed, acked, evidence, chain, seen, permit>>

Resume(d) ==
    /\ slot[d].state = "open_only"
    /\ LeaseMatches(d) /\ Live(Version[d])
    /\ InQuarantineTime(d)
    /\ Cardinality(Processing) < limits.processing
    /\ ResumeHead = d
    /\ Admit("resume", LaunchHead # 0 /\ Cardinality(Open) < limits.open)
    /\ Record(d, "resume", [slot[d] EXCEPT !.state = "processing", !.wait = "none"])
    /\ demand' = Undemanded(d)
    /\ UNCHANGED <<epoch, lease, config, acked, evidence, chain, seen, permit>>

CloseState(d, reason) ==
    /\ Record(d, "close", [slot[d] EXCEPT !.state = "closing", !.wait = "none", !.reason = reason])
    /\ demand' = Undemanded(d)
    /\ lease' = LeaseDisposition(d)

\* closeSlot's cause for each reason, by the control or by the document actor.
CloseCause(d, reason, control) ==
    \/ reason = "abandoned" /\ ~control
    \/ /\ reason = "abandoned" /\ control
       /\ slot[d].state = "reserved" \/ slot[d].wait = "worker_loss"
       /\ d \notin acked /\ GrantLost(d)
    \/ reason = "cancelled" /\ (control => lease[Version[d]].cancelledAt = "set")
    \/ reason = "expired" /\ slot[d].wait = "quarantine" /\ QuarantineAge(d, "old")
    \/ reason = "terminal_gap" /\ d \in gaps

\* mutant: evidence that arrived since the last settlement is not looked at
MayCloseUnsettled(d, reason, control) ==
    /\ slot[d].state \in {"reserved", "processing", "open_only"}
    /\ ~control => Unexpired(Version[d]) /\ LeaseMatches(d)
    /\ CloseCause(d, reason, control)

MayClose(d, reason, control) ==
    /\ slot[d].state \in {"reserved", "processing", "open_only"}
    /\ ~control => Unexpired(Version[d]) /\ LeaseMatches(d)
    /\ ~Unsettled(d)
    /\ CloseCause(d, reason, control)

Close(d, reason, control) ==
    /\ MayClose(d, reason, control)
    /\ CloseState(d, reason)
    /\ UNCHANGED <<epoch, config, turn, passed, acked, evidence, chain, seen, permit>>

(***************************************************************************)
(* Reconcile: a preflight that reads the slot, an observation of the       *)
(* workflow outside any transaction, then one change under the same        *)
(* revision.  "open" stands for running and unknown, which act alike.      *)
(***************************************************************************)
Observe(d, status) ==
    /\ "observe" \in Environment
    /\ slot[d].state \notin {"none", "released"}
    /\ status = "terminal" => chain[d] = "terminal"
    /\ seen' = [seen EXCEPT ![d] = [revision |-> slot[d].revision, status |-> status]]
    /\ UNCHANGED <<epoch, lease, config, queues, acked, slot, ops, evidence, chain, permit>>

WorkerLoss(d) ==
    /\ Record(d, "worker_loss", [slot[d] EXCEPT !.state = "open_only", !.wait = "worker_loss"])
    /\ demand' = Undemanded(d)

\* reconcileSlot in its order: evidence first, then closure, failure, loss.
ReconcileSlot(d, status) ==
    \/ Unsettled(d) /\ Settlement(d) /\ UNCHANGED lease
    \/ /\ ~Unsettled(d) /\ slot[d].state = "closing" /\ status = "terminal"
       /\ Record(d, "release", [slot[d] EXCEPT !.state = "released"])
       /\ UNCHANGED <<demand, lease>>
    \/ /\ ~Unsettled(d) /\ slot[d].state # "closing" /\ status = "terminal"
       /\ CloseState(d, "execution_failed")
    \/ /\ ~Unsettled(d) /\ slot[d].state \in {"reserved", "processing"} /\ status = "open"
       /\ GrantLost(d)
       /\ WorkerLoss(d) /\ UNCHANGED lease

Reconcile(d) ==
    /\ seen[d].revision = slot[d].revision /\ slot[d].state \notin {"none", "released"}
    /\ ReconcileSlot(d, seen[d].status)
    /\ seen' = [seen EXCEPT ![d] = NoObservation]
    /\ UNCHANGED <<epoch, config, turn, passed, acked, evidence, chain, permit>>

(***************************************************************************)
(* Next-state relation.                                                    *)
(***************************************************************************)
CloseReasons == {"abandoned", "cancelled", "expired", "terminal_gap"}

Ledger(d) ==
    \/ Terminate(d) \/ AgeQuarantine(d) \/ ApplyTerminalGap(d)
    \/ Withdraw(d) \/ AcknowledgeLaunch(d) \/ CheckPermission(d)
    \/ \E state \in Acceptances : ApplyAcceptance(d, state)

Operation(d) ==
    \/ Reserve(d) \/ Bind(d) \/ Settle(d) \/ RequestResume(d) \/ Resume(d)
    \/ \E reason \in CloseReasons, control \in BOOLEAN : Close(d, reason, control)
    \/ \E status \in {"open", "terminal"} : Observe(d, status)
    \/ Reconcile(d)

Next ==
    \/ RotateAdmission \/ FallDue
    \/ \E l \in LimitChoices : Configure(l)
    \/ \E v \in Versions : GrantLease(v) \/ ExpireLease(v) \/ CancelLease(v)
    \/ \E d \in Deliveries : Ledger(d) \/ Operation(d)

Spec == Init /\ [][Next]_vars

(***************************************************************************)
(* Fairness: the reconciliation timer keeps sweeping every live slot, and  *)
(* the observer does not hide a terminal chain forever.  Nothing is        *)
(* assumed of workers, sources, operators or the clock.                    *)
(***************************************************************************)
FairSpec ==
    /\ Spec
    /\ \A d \in Deliveries :
          /\ SF_vars(Observe(d, "terminal"))
          /\ SF_vars(Reconcile(d) /\ seen[d].status = "terminal")

(***************************************************************************)
(* Properties.                                                             *)
(***************************************************************************)

\* The columns' CHECK constraints: a wait exactly in open_only, a terminal
\* reason exactly when closed, a demand only in open_only; and no operation
\* ever builds a row that the database would refuse.
TypeOK ==
    /\ epoch \in 1 .. MaxEpoch
    /\ lease \in [Versions -> [fence : 0 .. MaxFence, epoch : 0 .. MaxEpoch,
                               expiry : {"ahead", "past"}, cancelledAt : {"null", "set"}]]
    /\ slot \in [Deliveries -> [state : States, wait : Waits, fence : 0 .. MaxFence, revision : Nat,
                                settled : 0 .. MaxEvents, reason : Reasons \cup {"none"}]]
    /\ \A d \in Deliveries :
          /\ events[d] \in Seq([state : Acceptances, age : {"young", "old"}])
          /\ slot[d].state = "open_only" <=> slot[d].wait # "none"
          /\ slot[d].state \in {"closing", "released"} <=> slot[d].reason # "none"
    /\ \A i \in DOMAIN demand : slot[demand[i]].state = "open_only"

\* Reserve and Resume never push a count past the limits in force; a lowered
\* limit drains, and no other operation adds occupancy.
WithinLimits ==
    [][/\ Cardinality(Processing') > Cardinality(Processing) => Cardinality(Processing') <= limits.processing
       /\ Cardinality(Open') > Cardinality(Open) => Cardinality(Open') <= limits.open]_vars

\* Two attempts never occupy one document version at once, in whatever order
\* their launches, closures and releases interleave.
OneLiveSlot ==
    \A d, e \in Open : Version[d] = Version[e] => d = e

\* Capacity bounds real work: an activity that resolved its slot, however
\* long ago, and whose grant Apply would still accept, occupies a processing
\* slot bound to that grant.  Worker loss, closure and rebinding only take
\* the capacity of activities that can no longer write.
WorkersHoldCapacity ==
    \A d \in Deliveries :
        MayApply(d) => slot[d].state = "processing" /\ slot[d].fence = permit[d]

\* A slot is never closed over evidence: once it is closing, its attempt's
\* latest non-candidate acceptance is the settled one, also when Apply races
\* with Close or with a reconciler.
EvidenceSettled ==
    \A d \in Deliveries : slot[d].state \in {"closing", "released"} => ~Unsettled(d)

\* Closing a slot cancels the lease it is bound to and never the grant that
\* replaced it, however old the observation behind the closure is.
ReplacementSpared ==
    [][slot' # slot =>
          \A v \in Versions : lease'[v] # lease[v] =>
              \E d \in Deliveries : Version[d] = v /\ slot[d].fence = lease[v].fence
                                    /\ slot[d].state # "closing" /\ slot'[d].state = "closing"]_vars

\* Whenever Bind, Settle or RequestResume answers with an earlier effect
\* instead of changing the slot, the receipt of that effect exists, so a
\* live caller never gets an integrity error.
EffectFound ==
    \A d \in Deliveries :
        /\ slot[d].state \in {"processing", "open_only"} /\ LeaseMatches(d) /\ Live(Version[d]) => "bind" \in ops[d]
        /\ slot[d].settled > 0 => "settle" \in ops[d]
        /\ Demanded(d) => "request_resume" \in ops[d]

\* The persisted turn: while both heads are feasible, at most one admission
\* of a queue precedes the other's.
FairTurns == passed.launch <= 1 /\ passed.resume <= 1

\* What admission says has its evidence: the fields of a slot agree with each other and
\* with the queue, a closing slot is settled, an answered replay has its receipt, and the
\* queues take turns.
AdmissionSound == TypeOK /\ EvidenceSettled /\ EffectFound /\ FairTurns

\* A terminal workflow chain always gives its open capacity back.
ClosureConfirmed ==
    \A d \in Deliveries : chain[d] = "terminal" ~> slot[d].state = "released"
=============================================================================
