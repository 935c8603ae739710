-------------------------- MODULE DocumentWorkflow --------------------------
(***************************************************************************)
(* One document under internal/corpus/workflow/temporal: the workflow      *)
(* DocumentIngestV2, its Advance activity with the admission protocol of   *)
(* documentAdmission, change and apply, and the country control's sweep    *)
(* over the same slot.                                                     *)
(*                                                                         *)
(* An activity is a sequence of steps, one per durable effect: the load of *)
(* the checkpoint, each Resolve, the checkpoint that names a pending       *)
(* change, the admission transaction, the checkpoint that clears it, the   *)
(* acceptance, the final checkpoint with its reply.  A crash or a lost     *)
(* reply ends the attempt between any two of them, and the retry loads the *)
(* last checkpoint.  Admission transactions follow the rules of            *)
(* DocumentAdmission for one slot with room to resume; time is the order   *)
(* of steps.  The checkpoint store, the domain operations and the resume   *)
(* validation are ports outside the repository, modelled by their          *)
(* contracts.                                                              *)
(***************************************************************************)
EXTENDS Integers, Sequences, FiniteSets

CONSTANTS
    Environment,  \* the outside events an instance explores
    MaxTries,     \* InfrastructureTries of an activity
    MaxFaults,    \* bound on crashes and lease losses
    MaxEvents,    \* bound on acceptance events
    MaxRevision   \* bound on slot revisions

OutsideEvents == {"control", "crash", "expire", "cancel", "wait", "decide", "detour"}

WorkflowAssumption ==
    /\ Environment \subseteq OutsideEvents
    /\ MaxTries \in Nat \ {0} /\ MaxFaults \in Nat /\ MaxEvents \in Nat /\ MaxRevision \in Nat

VARIABLES
    slot,      \* the document's admission slot
    receipts,  \* <<method, expected revision>> pairs with a stored response
    events,    \* acceptance events of the attempt, oldest first
    aged,      \* the latest quarantine is past its expiry
    lease,     \* the document version's lease
    acked,     \* the launch delivery is acknowledged
    cp,        \* the document's retained checkpoint
    wf,        \* the logical workflow chain
    act,       \* its running activity
    inbox,     \* a delivered decision signal, bound to a quarantine and a fence
    ctl,       \* the control sweep and its own pending change
    faults,    \* crashes and lease losses so far
    gated      \* history: the gates have run since the last resume from quarantine

world == <<aged, lease, acked, inbox, faults>>
vars == <<slot, receipts, events, aged, lease, acked, cp, wf, act, inbox, ctl, faults, gated>>

NoDecision == [quarantine |-> 0, fence |-> 0]
NoChange == [op |-> "none", revision |-> 0, wait |-> "none", post |-> "none", reason |-> "none"]
NoCheckpoint == [phase |-> "none", quarantine |-> 0, terminal |-> "none", decision |-> NoDecision, pending |-> NoChange]
NewSlot == [state |-> "reserved", wait |-> "none", fence |-> 1, revision |-> 1, settled |-> 0,
            reason |-> "none", demand |-> FALSE]
Idle == [pc |-> "idle", op |-> "none", fence |-> 0, tries |-> 0, cp |-> NoCheckpoint, r |-> NewSlot,
         site |-> "none", result |-> "none", status |-> "none", next |-> "none", decision |-> NoDecision]
NoSweep == [pc |-> "idle", r |-> NewSlot, pending |-> NoChange, quarantine |-> 0, result |-> "none", site |-> "none"]

Init ==
    /\ slot = NewSlot /\ receipts = {} /\ events = <<>> /\ aged = FALSE
    /\ lease = [fence |-> 1, state |-> "live"] /\ acked = FALSE
    /\ cp = NoCheckpoint
    /\ wf = [state |-> "unstarted", phase |-> "resume", quarantine |-> 0, outcome |-> "none",
             cancel |-> FALSE, stop |-> FALSE, reminded |-> FALSE]
    /\ act = Idle /\ inbox = NoDecision /\ ctl = NoSweep
    /\ faults = 0 /\ gated = TRUE

(***************************************************************************)
(* Admission of this slot.                                                 *)
(***************************************************************************)
Watermark == Len(events)
Latest == IF events = <<>> THEN "none" ELSE events[Watermark]
Unsettled == Latest \notin {"none", "candidate"} /\ Watermark > slot.settled
Quarantines == Cardinality({i \in DOMAIN events : events[i] = "quarantined"})
Chain == IF wf.state \in {"done", "failed"} THEN "terminal" ELSE "open"
GrantLost == slot.fence # lease.fence \/ lease.state # "live"

\* The actor of an activity holds the current grant; settlement and closure
\* still permit a cancelled one.
ActorLive(fence) == fence = lease.fence /\ lease.state = "live"
ActorKnown(fence) == fence = lease.fence /\ lease.state # "expired"

Settled ==
    IF Latest = "quarantined"
    THEN [slot EXCEPT !.settled = Watermark, !.state = "open_only", !.wait = "quarantine", !.demand = FALSE]
    ELSE [slot EXCEPT !.settled = Watermark, !.state = "closing", !.wait = "none", !.demand = FALSE,
                      !.reason = IF Latest = "excluded" THEN "terminal_gap" ELSE "completed"]
Closed(reason) == [slot EXCEPT !.state = "closing", !.wait = "none", !.demand = FALSE, !.reason = reason]
CanSettle == slot.state \in {"reserved", "processing"} \/ (slot.state = "open_only" /\ Latest # "quarantined")
InTime == slot.wait = "quarantine" => Latest = "quarantined" /\ Watermark = slot.settled /\ ~aged

CloseCause(reason, control) ==
    \/ reason = "cancelled" /\ (control => lease.state = "cancelled")
    \/ reason = "expired" /\ slot.wait = "quarantine" /\ Watermark = slot.settled /\ Latest = "quarantined" /\ aged
    \/ /\ reason = "abandoned" /\ control /\ ~acked /\ GrantLost
       /\ slot.state = "reserved" \/ slot.wait = "worker_loss"

\* What a call answers: a replay, a refusal, a recorded effect or a change.
Answer(change, fence, control) ==
    LET bound == slot.fence = fence
        effect == \/ change.op = "bind" /\ bound /\ slot.state \in {"processing", "open_only"}
                  \/ change.op = "settle" /\ slot.settled = Watermark /\ Latest \notin {"none", "candidate"}
                  \/ change.op = "request_resume" /\ slot.state = "open_only" /\ InTime /\ slot.demand
        moves == \/ change.op = "bind" /\ slot.state \in {"reserved", "processing", "open_only"}
                 \/ change.op = "settle" /\ Unsettled /\ CanSettle
                 \/ change.op = "request_resume" /\ slot.state = "open_only" /\ InTime
                 \/ change.op = "resume" /\ slot.state = "open_only" /\ InTime /\ slot.demand
                 \/ change.op = "close" /\ slot.state # "closing" /\ ~Unsettled /\ CloseCause(change.reason, control)
    IN  IF ~control /\ ~(IF change.op \in {"settle", "close"} THEN ActorKnown(fence) ELSE ActorLive(fence)) THEN "error"
        ELSE IF <<change.op, change.revision>> \in receipts THEN "ok"
        ELSE IF slot.revision # change.revision \/ slot.state = "released" THEN "conflict"
        ELSE IF ~control /\ change.op # "bind" /\ ~bound THEN "error"
        ELSE IF effect THEN "ok"
        ELSE IF moves THEN "moved"
        ELSE IF change.op = "settle" /\ Latest \in {"none", "candidate"} THEN "unchanged"
        ELSE "conflict"

After(change, fence) ==
    CASE change.op = "bind" -> [slot EXCEPT !.fence = fence, !.state = IF @ = "reserved" THEN "processing" ELSE @]
      [] change.op = "settle" -> Settled
      [] change.op = "request_resume" -> [slot EXCEPT !.demand = TRUE]
      [] change.op = "resume" -> [slot EXCEPT !.state = "processing", !.wait = "none", !.demand = FALSE]
      [] change.op = "close" -> Closed(change.reason)

\* One admission transaction: the new slot and its receipt, or nothing.  A
\* closure cancels the lease it is bound to.
Transact(change, fence, answer) ==
    IF answer # "moved" THEN UNCHANGED <<slot, receipts, lease>>
    ELSE /\ slot' = [After(change, fence) EXCEPT !.revision = slot.revision + 1]
         /\ receipts' = receipts \cup {<<change.op, change.revision>>}
         /\ lease' = IF change.op = "close" /\ slot.fence = lease.fence THEN [lease EXCEPT !.state = "cancelled"] ELSE lease

(***************************************************************************)
(* The activity.  Every step below runs while act.pc names it.             *)
(***************************************************************************)
At(pc, site) == act.pc = pc /\ act.site = site
Keep(c) == cp' = c

\* retain and return: the frame leaves with the last checkpoint.
Finish(status, next, c) ==
    /\ Keep(c)
    /\ act' = [act EXCEPT !.pc = "reply", !.cp = c, !.status = status, !.next = next]

\* A rejected operation: not retryable, nothing retained.
Reject == cp' = cp /\ act' = [act EXCEPT !.pc = "reply", !.status = "error"]
Go(site, c) == cp' = cp /\ act' = [act EXCEPT !.pc = "resolve", !.site = site, !.cp = c]
Waiting(c) == Finish("wait", "resume", c)
Local == UNCHANGED <<slot, receipts, events, world, wf, ctl, gated>>

\* admissionMatchesV2
Matches(r) == r.fence = act.fence

PostPhase(op, r) == IF op = "resume" /\ r.wait = "quarantine" THEN "normalize" ELSE act.cp.phase

\* change, first half: the pending change is durable before the call.
Mark(site, op, reason, r, c) ==
    LET kept == [c EXCEPT !.pending = [op |-> op, revision |-> r.revision, wait |-> r.wait,
                                       post |-> PostPhase(op, r), reason |-> reason]]
    IN  /\ Keep(kept)
        /\ act' = [act EXCEPT !.pc = "call", !.site = site, !.cp = kept, !.r = r]

\* IntakeResumeValidationV2: a quarantine needs the decision of this
\* quarantine under the current fence, and time left.
Valid(wait, decision) ==
    wait = "quarantine" => decision.quarantine = Quarantines /\ decision.fence = lease.fence /\ ~aged

\* Checkpoints.Resolve reacquires the grant and recovers committed receipts.
LoadCheckpoint ==
    /\ act.pc = "load" /\ act.op # "drain" /\ lease.state = "live"
    /\ LET c == [cp EXCEPT !.quarantine = Quarantines,
                           !.terminal = IF Latest \in {"accepted", "excluded"} THEN Latest ELSE "none"]
           pending == c.pending
       IN  act' = IF pending.op = "none"
                  THEN [act EXCEPT !.pc = "resolve", !.site = "main", !.cp = c, !.fence = lease.fence]
                  ELSE IF pending.op \in {"request_resume", "resume"} /\ ~Valid(pending.wait, c.decision)
                  THEN [act EXCEPT !.pc = "reply", !.status = "error", !.cp = c]
                  ELSE [act EXCEPT !.pc = "call", !.site = "pending", !.cp = c, !.fence = lease.fence]
    /\ UNCHANGED cp /\ Local

\* change, second half: the admission call of the pending change.
CallAdmission ==
    /\ act.pc = "call" /\ slot.revision < MaxRevision
    /\ LET change == act.cp.pending
           answer == Answer(change, act.fence, FALSE)
       IN  /\ Transact(change, act.fence, answer)
           /\ act' = [act EXCEPT !.pc = IF answer = "error" THEN "reply" ELSE "clear", !.result = answer,
                                 !.status = IF answer = "error" THEN "error" ELSE @]
           /\ gated' = (gated /\ ~(answer = "moved" /\ change.op = "resume" /\ change.wait = "quarantine"))
    /\ UNCHANGED <<events, aged, acked, inbox, faults, cp, wf, ctl>>

Succeeded == act.result \in {"ok", "moved"}

Cleared ==
    [act.cp EXCEPT !.pending = NoChange,
                   !.phase = IF Succeeded /\ act.cp.pending.op = "resume" THEN act.cp.pending.post ELSE @]

\* change, last part: a success, a conflict or no change clears the pending
\* change, after a fresh read when it was refused; then its caller goes on.
ClearPending ==
    /\ act.pc = "clear"
    /\ LET c == Cleared IN
       IF ~Succeeded /\ ~ActorLive(act.fence) THEN Reject
       ELSE /\ Keep(c)
            /\ act' = [act EXCEPT !.pc = "cleared", !.cp = c]
    /\ Local

\* The callers of change, by site.
ClearedWaits ==
    /\ act.pc = "cleared" /\ ~Succeeded
    /\ \/ act.site \in {"pending", "bind", "request", "resume"}
       \/ act.site = "settle" /\ act.result = "conflict"
    /\ Waiting(act.cp) /\ Local
ClearedPending ==
    /\ At("cleared", "pending") /\ Succeeded
    /\ Go("main", act.cp) /\ Local
ClearedSettle ==
    /\ At("cleared", "settle") /\ act.result # "conflict"
    /\ Go("settled", act.cp) /\ Local
ClearedBind == At("cleared", "bind") /\ Succeeded /\ Go("bound", act.cp) /\ Local
ClearedRequest == At("cleared", "request") /\ Succeeded /\ Go("requested", act.cp) /\ Local
ClearedResume == At("cleared", "resume") /\ Succeeded /\ Go("resumed", act.cp) /\ Local
ClearedExpiry ==
    /\ At("cleared", "expiry")
    /\ IF Succeeded THEN Finish("stopped", "none", act.cp) ELSE Go("unexpired", act.cp)
    /\ Local
ClearedCancel ==
    /\ At("cleared", "cancel")
    /\ IF Succeeded THEN Finish("cancelled", "none", act.cp) ELSE Waiting(act.cp)
    /\ Local

\* apply passes the conflict of its settlement on, and Advance rejects it.
ClearedApply ==
    /\ At("cleared", "apply")
    /\ cp' = cp /\ act' = [act EXCEPT !.pc = "reply", !.status = IF Succeeded THEN @ ELSE "error"]
    /\ Local

(***************************************************************************)
(* documentAdmission after each of its reads.                              *)
(***************************************************************************)
Reads(site) == At("resolve", site) /\ ActorLive(act.fence)
ResolveRefused == act.pc = "resolve" /\ ~ActorLive(act.fence) /\ Reject /\ Local

Over(r) == r.state \in {"closing", "released"}
Waker == act.op \in {"expiry", "decision", "resume"}

\* A closed slot answers with the terminal result, through evidence, or stops.
AnswerClosed ==
    /\ Reads("main") /\ Over(slot)
    /\ \/ /\ act.cp.terminal # "none" /\ act.op # "evidence"
          /\ Finish("progress", "evidence", act.cp)
       \/ /\ act.cp.terminal # "none" /\ act.op = "evidence"
          /\ Finish(IF act.cp.terminal = "excluded" THEN "terminal_gap" ELSE "accepted", "none", act.cp)
       \/ /\ act.cp.terminal = "none"
          /\ Finish("stopped", "none", act.cp)
    /\ Local

QuarantineReplay ==
    act.op = "quarantine" /\ slot.state = "open_only" /\ slot.wait = "quarantine" /\ act.cp.quarantine > 0
AnswerQuarantined == Reads("main") /\ QuarantineReplay /\ Finish("quarantined", "none", act.cp) /\ Local

CancelSlot ==
    /\ Reads("main") /\ ~Over(slot) /\ act.op = "cancel"
    /\ Mark("cancel", "close", "cancelled", slot, act.cp) /\ Local

\* bind a reserved slot or a new grant, or look at the wait.
BindOrWake(r) ==
    IF r.state = "reserved" \/ ~Matches(r) THEN Mark("bind", "bind", "none", r, act.cp)
    ELSE act' = [act EXCEPT !.pc = "wake", !.r = r] /\ UNCHANGED cp

\* The latest acceptance wins over a stale quarantine: it is settled first.
SettleFirst ==
    /\ Reads("main") /\ ~Over(slot) /\ Waker
    /\ IF act.cp.quarantine > 0 THEN Mark("settle", "settle", "none", slot, act.cp) ELSE BindOrWake(slot)
    /\ Local
AfterSettle ==
    /\ Reads("settled")
    /\ IF Over(slot) THEN Finish("stopped", "none", act.cp) ELSE BindOrWake(slot)
    /\ Local
AfterBind ==
    /\ Reads("bound")
    /\ IF Matches(slot) THEN act' = [act EXCEPT !.pc = "wake", !.r = slot] /\ UNCHANGED cp ELSE Reject
    /\ Local

\* Processing permission goes on with the retained phase.
Permit(r) ==
    IF r.state = "processing" /\ Matches(r)
    THEN LET c == [act.cp EXCEPT !.phase = IF @ = "none" THEN "fetch" ELSE @] IN Finish("progress", c.phase, c)
    ELSE Reject

WakeProcessing == act.pc = "wake" /\ act.r.state # "open_only" /\ Permit(act.r) /\ Local

WakeExpiry ==
    /\ act.pc = "wake" /\ act.r.wait = "quarantine" /\ act.op = "expiry"
    /\ Mark("expiry", "close", "expired", act.r, act.cp) /\ Local
AfterExpiry ==
    /\ Reads("unexpired")
    /\ IF act.cp.decision = NoDecision \/ slot.state # "open_only" \/ slot.wait # "quarantine"
       THEN Waiting(act.cp)
       ELSE act' = [act EXCEPT !.pc = "request", !.r = slot] /\ UNCHANGED cp
    /\ Local

WakeOther ==
    /\ act.pc = "wake" /\ act.r.state = "open_only" /\ (act.r.wait = "quarantine" => act.op # "expiry")
    /\ act' = [act EXCEPT !.pc = "request"] /\ UNCHANGED cp /\ Local

\* The decision of the command, else the retained one; an invalid wake-up
\* creates no demand.
RequestResume ==
    /\ act.pc = "request"
    /\ LET decision == IF act.decision = NoDecision THEN act.cp.decision ELSE act.decision
           quarantine == act.r.wait = "quarantine"
       IN  \/ /\ quarantine /\ decision = NoDecision
              /\ Finish("quarantined", "none", act.cp)
           \/ /\ ~(quarantine /\ decision = NoDecision) /\ ~Valid(act.r.wait, decision)
              /\ Finish("quarantined", "none", [act.cp EXCEPT !.decision = NoDecision])
           \/ /\ ~(quarantine /\ decision = NoDecision) /\ Valid(act.r.wait, decision)
              /\ Mark("request", "request_resume", "none", act.r, [act.cp EXCEPT !.decision = decision])
    /\ Local

ResumeSlot ==
    /\ Reads("requested")
    /\ IF Valid(slot.wait, act.cp.decision) THEN Mark("resume", "resume", "none", slot, act.cp) ELSE Reject
    /\ Local
AfterResume == Reads("resumed") /\ Permit(slot) /\ Local

Remind ==
    /\ Reads("main") /\ act.op = "reminder" /\ slot.state = "open_only" /\ slot.wait = "quarantine"
    /\ Finish("progress", "none", [act.cp EXCEPT !.phase = "none"]) /\ Local

Permitted == slot.state = "processing" /\ Matches(slot)

\* Domain work needs current processing permission.
EnterWork ==
    /\ Reads("main") /\ ~Over(slot) /\ ~Waker /\ act.op # "cancel" /\ ~QuarantineReplay
    /\ ~(act.op = "reminder" /\ slot.wait = "quarantine")
    /\ IF Permitted THEN act' = [act EXCEPT !.pc = "work"] /\ UNCHANGED cp ELSE Reject
    /\ Local

\* documentTransitionV2
DocumentTransition(from) ==
    CASE from = "fetch" -> {"capture", "resume"}
      [] from = "capture" -> {"detect"}
      [] from = "detect" -> {"convert", "quarantine", "ocr-request"}
      [] from = "convert" -> {"normalize", "quarantine", "ocr-request"}
      [] from = "normalize" -> {"structure", "quarantine"}
      [] from = "structure" -> {"gate", "quarantine"}
      [] from = "gate" -> {"candidate", "quarantine", "ocr-request"}
      [] from = "candidate" -> {"evidence", "quarantine", "resume"}
      [] from = "ocr-request" -> {"normalize", "resume", "quarantine"}
      [] from = "resume" -> {"fetch", "capture", "detect", "convert", "normalize", "structure", "gate",
                             "candidate", "quarantine", "evidence", "ocr-request"}
      [] OTHER -> {}

Applying == {"candidate", "quarantine", "evidence"}
\* The paths an instance explores: without "detour" the straight pipeline.
Explored(next) ==
    /\ next \in {"ocr-request", "resume"} => "detour" \in Environment
    /\ next = "quarantine" => Watermark < MaxEvents

\* domain: the operation's result and the next phase are retained together.
DomainWork ==
    /\ act.pc = "work" /\ act.op \notin Applying
    /\ \/ \E next \in DocumentTransition(act.op) :
             Explored(next) /\ Finish("progress", next, [act.cp EXCEPT !.phase = next])
       \/ /\ "detour" \in Environment /\ act.op \in {"fetch", "ocr-request"}
          /\ cp' = cp /\ act' = [act EXCEPT !.pc = "reply", !.status = "wait", !.next = "resume"]
    /\ gated' = (gated \/ act.op = "normalize")
    /\ UNCHANGED <<slot, receipts, events, world, wf, ctl>>

\* Acceptance.Apply of the operation's state: a replay of its own event, or
\* the transition; an acceptance after a quarantine needs its decision.
AcceptancePermitted(state) ==
    /\ Latest \notin {"accepted", "excluded"}
    /\ state = "candidate" => events = <<>>
    /\ Latest = "quarantined" /\ state # "quarantined" => act.cp.decision # NoDecision

StatesOf(op) ==
    CASE op = "candidate" -> {"candidate"}
      [] op = "quarantine" -> {"quarantined"}
      [] op = "evidence" -> {"accepted", "excluded"}
Replayed(state) ==
    \/ state = Latest /\ (state = "quarantined" => act.cp.decision = NoDecision)
    \/ state = "candidate" /\ \E i \in DOMAIN events : events[i] = "candidate"

ApplyAcceptance(state) ==
    /\ act.pc = "work" /\ act.op \in Applying /\ state \in StatesOf(act.op)
    /\ IF ActorLive(act.fence) /\ (Replayed(state) \/ AcceptancePermitted(state))
       THEN /\ events' = IF Replayed(state) THEN events ELSE Append(events, state)
            /\ aged' = (aged /\ Replayed(state))
            /\ act' = [act EXCEPT !.pc = "applied", !.result = state]
            /\ UNCHANGED cp
       ELSE UNCHANGED <<events, aged>> /\ Reject
    /\ UNCHANGED <<slot, receipts, lease, acked, inbox, faults, wf, ctl, gated>>

\* The checkpoint of the receipt; a candidate's reply leaves with it.  The
\* projection of a quarantine may name a phase.
RetainReceipt ==
    /\ act.pc = "applied"
    /\ LET state == act.result
           c == [act.cp EXCEPT !.quarantine = Quarantines, !.terminal = IF state \in {"accepted", "excluded"} THEN state ELSE @]
       IN  \/ /\ state = "candidate"
              /\ \E next \in DocumentTransition("candidate") :
                    Explored(next) /\ Finish("progress", next, [c EXCEPT !.phase = next])
           \/ /\ state # "candidate"
              /\ \E next \in IF state = "quarantined" THEN {"none", "gate"} ELSE {"none"} :
                    /\ Keep([c EXCEPT !.phase = next])
                    /\ act' = [act EXCEPT !.pc = "resolve", !.site = "applied", !.cp = [c EXCEPT !.phase = next],
                                  !.status = CASE state = "quarantined" -> "quarantined"
                                               [] state = "accepted" -> "accepted"
                                               [] state = "excluded" -> "terminal_gap"]
    /\ Local
SettleReceipt == Reads("applied") /\ Mark("apply", "settle", "none", slot, act.cp) /\ Local

ActivityStep ==
    \/ LoadCheckpoint \/ CallAdmission \/ ClearPending
    \/ ClearedWaits \/ ClearedPending \/ ClearedSettle \/ ClearedBind \/ ClearedRequest \/ ClearedResume
    \/ ClearedExpiry \/ ClearedCancel \/ ClearedApply
    \/ ResolveRefused \/ AnswerClosed \/ AnswerQuarantined \/ CancelSlot \/ SettleFirst \/ AfterSettle \/ AfterBind
    \/ WakeProcessing \/ WakeExpiry \/ AfterExpiry \/ WakeOther \/ RequestResume \/ ResumeSlot \/ AfterResume
    \/ Remind \/ EnterWork \/ DomainWork \/ RetainReceipt \/ SettleReceipt
    \/ \E state \in {"candidate", "quarantined", "accepted", "excluded"} : ApplyAcceptance(state)

(***************************************************************************)
(* The workflow.                                                           *)
(***************************************************************************)
Call(op, decision) == act' = [Idle EXCEPT !.pc = "load", !.op = op, !.decision = decision, !.tries = 1]
End(outcome) == wf' = [wf EXCEPT !.state = "done", !.outcome = outcome] /\ act' = Idle
Fail == wf' = [wf EXCEPT !.state = "failed"] /\ act' = Idle
Ready == wf.state = "running" /\ act = Idle
Elsewhere == UNCHANGED <<slot, receipts, events, aged, lease, acked, cp, ctl, faults, gated>>

StartWorkflow ==
    /\ wf.state = "unstarted"
    /\ wf' = [wf EXCEPT !.state = "running"]
    /\ UNCHANGED <<act, inbox>> /\ Elsewhere

\* DocumentIngestV2: one operation after the other, by phase.
NextOperation ==
    /\ Ready /\ ~wf.cancel /\ (wf.stop \/ wf.phase # "decision")
    /\ Call(IF wf.stop THEN "drain" ELSE wf.phase, NoDecision)
    /\ UNCHANGED <<wf, inbox>> /\ Elsewhere

\* intakeQuarantineWaitV2: the reminder, the timer, a decision signal; a
\* signal for another quarantine only checks expiry.
SendReminder ==
    /\ Ready /\ ~wf.cancel /\ wf.phase = "decision" /\ ~wf.reminded
    /\ Call("reminder", NoDecision)
    /\ UNCHANGED <<wf, inbox>> /\ Elsewhere
ReconcileTimer ==
    /\ Ready /\ ~wf.cancel /\ wf.phase = "decision"
    /\ Call("expiry", NoDecision)
    /\ UNCHANGED <<wf, inbox>> /\ Elsewhere
ReceiveDecision ==
    /\ Ready /\ ~wf.cancel /\ wf.phase = "decision" /\ inbox # NoDecision
    /\ IF inbox.quarantine = wf.quarantine THEN Call("decision", inbox) ELSE Call("expiry", NoDecision)
    /\ inbox' = NoDecision
    /\ UNCHANGED wf /\ Elsewhere

\* intakeCancellationV2: cancellation ends a running activity and then calls
\* cancel under a disconnected context.
CancelWorkflow ==
    /\ wf.state = "running" /\ wf.cancel /\ act.op \notin {"cancel", "drain"}
    /\ Call("cancel", NoDecision)
    /\ UNCHANGED <<wf, inbox>> /\ Elsewhere

\* drain of a chain that was started only to stop.
DrainOperation ==
    /\ act.pc = "load" /\ act.op = "drain"
    /\ act' = [act EXCEPT !.pc = "reply",
                  !.status = IF Over(slot) /\ slot.reason = "abandoned" THEN "stopped" ELSE "error"]
    /\ UNCHANGED cp /\ Local

Reply(statuses) == act.pc = "reply" /\ act.status \in statuses
ReplyCleanup ==
    /\ act.pc = "reply" /\ act.op = "cancel"
    /\ IF act.status = "error" THEN Fail ELSE End("cancelled")
    /\ UNCHANGED inbox /\ Elsewhere
ReplyError ==
    /\ Reply({"error"}) /\ act.op # "cancel"
    /\ IF wf.cancel THEN Call("cancel", NoDecision) /\ UNCHANGED wf ELSE Fail
    /\ UNCHANGED inbox /\ Elsewhere
ReplyEnd ==
    /\ Reply({"accepted", "terminal_gap", "stopped"}) /\ act.op # "cancel"
    /\ IF act.status # "stopped" /\ wf.phase # "evidence" THEN Fail ELSE End(act.status)
    /\ UNCHANGED inbox /\ Elsewhere
ReplyQuarantined ==
    /\ Reply({"quarantined"}) /\ act.op # "cancel"
    /\ IF wf.phase \in {"quarantine", "resume", "decision"}
       THEN /\ wf' = [wf EXCEPT !.phase = "decision", !.quarantine = act.cp.quarantine,
                                !.reminded = wf.reminded /\ wf.phase = "decision"]
            /\ act' = Idle
       ELSE Fail
    /\ UNCHANGED inbox /\ Elsewhere
\* intakeReceiptWaitV2 wakes by its timer or a receipt; only the phase is kept.
ReplyWait ==
    /\ Reply({"wait"}) /\ act.op # "cancel"
    /\ wf' = [wf EXCEPT !.phase = IF @ = "decision" THEN @ ELSE "resume"]
    /\ act' = Idle
    /\ UNCHANGED inbox /\ Elsewhere
ReplyProgress ==
    /\ Reply({"progress"}) /\ act.op # "cancel"
    /\ LET legal == IF wf.phase = "decision" THEN {"normalize", "gate", "resume"} ELSE DocumentTransition(wf.phase)
       IN  \/ /\ act.op = "reminder"
              /\ wf' = [wf EXCEPT !.reminded = TRUE] /\ act' = Idle
           \/ /\ act.op # "reminder" /\ act.next \in legal
              /\ wf' = [wf EXCEPT !.phase = act.next, !.quarantine = 0] /\ act' = Idle
           \/ /\ act.op # "reminder" /\ act.next \notin legal
              /\ Fail
    /\ UNCHANGED inbox /\ Elsewhere

WorkflowStep ==
    \/ StartWorkflow \/ NextOperation \/ SendReminder \/ ReconcileTimer \/ ReceiveDecision \/ CancelWorkflow
    \/ ReplyCleanup \/ ReplyError \/ ReplyEnd \/ ReplyQuarantined \/ ReplyWait \/ ReplyProgress

(***************************************************************************)
(* The control sweep over this slot.  Its pending change survives a crash. *)
(***************************************************************************)
Quiet == UNCHANGED <<events, aged, acked, cp, inbox, faults, gated>>
Sweep(pc, site) == "control" \in Environment /\ ctl.pc = pc /\ ctl.site = site
SweepOver == ctl' = [NoSweep EXCEPT !.pending = ctl.pending]

\* controlChange, first half.
SweepMark(site, op, reason) ==
    ctl' = [ctl EXCEPT !.pc = "call", !.site = site,
               !.pending = [NoChange EXCEPT !.op = op, !.revision = slot.revision, !.reason = reason]]

\* mutant: a closing slot is not swept again
MSweepStart ==
    /\ Sweep("idle", "none") /\ slot.state \notin {"closing", "released"}
    /\ ctl' = [ctl EXCEPT !.pc = IF ctl.pending.op = "none" THEN "resolve" ELSE "call",
                          !.site = IF ctl.pending.op = "none" THEN "first" ELSE "pending",
                          !.quarantine = Quarantines]
    /\ UNCHANGED <<slot, receipts, lease, wf, act>> /\ Quiet

\* reconcileSweep retries an uncertain change before it scans, then takes the
\* slot's checkpoint.
SweepStart ==
    /\ Sweep("idle", "none") /\ slot.state # "released"
    /\ ctl' = [ctl EXCEPT !.pc = IF ctl.pending.op = "none" THEN "resolve" ELSE "call",
                          !.site = IF ctl.pending.op = "none" THEN "first" ELSE "pending",
                          !.quarantine = Quarantines]
    /\ UNCHANGED <<slot, receipts, lease, wf, act>> /\ Quiet
SweepReconcile ==
    /\ Sweep("resolve", "first")
    /\ SweepMark("reconcile", "reconcile", "none")
    /\ UNCHANGED <<slot, receipts, lease, wf, act>> /\ Quiet

\* reconcileSlot: evidence, release, failure, loss.
ReconcileMoves(status) ==
    \/ Unsettled /\ CanSettle
    \/ ~Unsettled /\ status = "terminal"
    \/ ~Unsettled /\ slot.state \in {"reserved", "processing"} /\ GrantLost
Reconciled(status) ==
    IF Unsettled THEN Settled
    ELSE IF status = "terminal" /\ slot.state = "closing" THEN [slot EXCEPT !.state = "released"]
    ELSE IF status = "terminal" THEN Closed("execution_failed")
    ELSE [slot EXCEPT !.state = "open_only", !.wait = "worker_loss", !.demand = FALSE]

CallReconcile ==
    /\ "control" \in Environment /\ ctl.pc = "call" /\ ctl.pending.op = "reconcile" /\ slot.revision < MaxRevision
    /\ IF /\ <<"reconcile", ctl.pending.revision>> \notin receipts
          /\ slot.revision = ctl.pending.revision /\ slot.state # "released" /\ ReconcileMoves(Chain)
       THEN /\ slot' = [Reconciled(Chain) EXCEPT !.revision = slot.revision + 1]
            /\ receipts' = receipts \cup {<<"reconcile", slot.revision>>}
            /\ lease' = IF ~Unsettled /\ Chain = "terminal" /\ slot.state # "closing" /\ slot.fence = lease.fence
                        THEN [lease EXCEPT !.state = "cancelled"] ELSE lease
       ELSE UNCHANGED <<slot, receipts, lease>>
    /\ ctl' = [ctl EXCEPT !.pc = "clear"]
    /\ UNCHANGED <<wf, act>> /\ Quiet
CallClose ==
    /\ "control" \in Environment /\ ctl.pc = "call" /\ ctl.pending.op = "close" /\ slot.revision < MaxRevision
    /\ Transact(ctl.pending, 0, Answer(ctl.pending, 0, TRUE))
    /\ ctl' = [ctl EXCEPT !.pc = "clear"]
    /\ UNCHANGED <<wf, act>> /\ Quiet
SweepClear ==
    /\ "control" \in Environment /\ ctl.pc = "clear"
    /\ ctl' = [ctl EXCEPT !.pc = "resolve", !.pending = NoChange,
                  !.site = CASE ctl.site = "pending" -> "first" [] ctl.site = "reconcile" -> "second" [] OTHER -> "third"]
    /\ UNCHANGED <<slot, receipts, lease, wf, act>> /\ Quiet

\* Reconcile never expires a quarantine; the retained result must be there.
SweepClose ==
    /\ Sweep("resolve", "second")
    /\ \/ /\ slot.wait = "quarantine" /\ ctl.quarantine > 0
          /\ SweepMark("close", "close", "expired")
       \/ /\ slot.wait = "quarantine" /\ ctl.quarantine = 0
          /\ SweepOver
       \/ /\ slot.state = "reserved" \/ slot.wait = "worker_loss"
          /\ SweepMark("close", "close", "abandoned")
       \/ /\ slot.state # "reserved" /\ slot.wait = "none"
          /\ ctl' = [ctl EXCEPT !.site = "third"]
    /\ UNCHANGED <<slot, receipts, lease, wf, act>> /\ Quiet

\* Transport.Drain: the screened stop starts the chain, or cancels it.
Drained ==
    CASE wf.state = "unstarted" -> [wf EXCEPT !.state = "running", !.stop = TRUE]
      [] wf.state = "running" -> [wf EXCEPT !.cancel = TRUE]
      [] OTHER -> wf
SweepDrain ==
    /\ Sweep("resolve", "third")
    /\ wf' = IF slot.state = "closing" /\ slot.reason = "abandoned" THEN Drained ELSE wf
    /\ SweepOver
    /\ UNCHANGED <<slot, receipts, lease, act>> /\ Quiet

SweepStep == SweepStart \/ SweepReconcile \/ CallReconcile \/ CallClose \/ SweepClear \/ SweepClose \/ SweepDrain

(***************************************************************************)
(* The outside world.                                                      *)
(***************************************************************************)
\* The parent acknowledges the start it saw.
AcknowledgeStart ==
    /\ wf.state # "unstarted" /\ ~acked /\ ~wf.stop
    /\ acked' = TRUE
    /\ UNCHANGED <<slot, receipts, events, aged, lease, cp, wf, act, inbox, ctl, faults, gated>>
\* A worker stops or its reply is lost; Temporal retries within its bound.
CrashActivity ==
    /\ "crash" \in Environment /\ faults < MaxFaults /\ act.pc \notin {"idle", "load"}
    /\ faults' = faults + 1
    /\ IF act.tries < MaxTries
       THEN act' = [Idle EXCEPT !.pc = "load", !.op = act.op, !.decision = act.decision, !.tries = act.tries + 1] /\ UNCHANGED wf
       ELSE Fail
    /\ UNCHANGED <<slot, receipts, events, aged, lease, acked, cp, inbox, ctl, gated>>
CrashSweep ==
    /\ "crash" \in Environment /\ faults < MaxFaults /\ ctl.pc # "idle"
    /\ faults' = faults + 1 /\ SweepOver
    /\ UNCHANGED <<slot, receipts, events, aged, lease, acked, cp, wf, act, inbox, gated>>
\* No lease lives for a quarantine wait; elsewhere its loss is a fault.
ExpireLease ==
    /\ lease.state = "live" /\ lease.fence <= MaxFaults
    /\ \/ "expire" \in Environment /\ faults < MaxFaults /\ faults' = faults + 1
       \/ "wait" \in Environment /\ Ready /\ wf.phase = "decision" /\ UNCHANGED faults
    /\ lease' = [lease EXCEPT !.state = "expired"]
    /\ UNCHANGED <<slot, receipts, events, aged, acked, cp, wf, act, inbox, ctl, gated>>
\* The composition claims the lease again for an activity that starts.
Reacquire ==
    /\ act.pc = "load" /\ lease.state # "live"
    /\ lease' = [fence |-> lease.fence + 1, state |-> "live"]
    /\ UNCHANGED <<slot, receipts, events, aged, acked, cp, wf, act, inbox, ctl, faults, gated>>
RequestCancel ==
    /\ "cancel" \in Environment /\ wf.state = "running" /\ ~wf.cancel
    /\ wf' = [wf EXCEPT !.cancel = TRUE]
    /\ UNCHANGED <<slot, receipts, events, aged, lease, acked, cp, act, inbox, ctl, faults, gated>>
AgeQuarantine ==
    /\ Latest = "quarantined" /\ ~aged
    /\ aged' = TRUE
    /\ UNCHANGED <<slot, receipts, events, lease, acked, cp, wf, act, inbox, ctl, faults, gated>>
\* A retained decision on any past quarantine is signalled.
Decide ==
    /\ "decide" \in Environment /\ inbox = NoDecision /\ wf.state = "running" /\ wf.phase = "decision"
    /\ \E q \in 1 .. Quarantines : inbox' = [quarantine |-> q, fence |-> lease.fence]
    /\ UNCHANGED <<slot, receipts, events, aged, lease, acked, cp, wf, act, ctl, faults, gated>>

Outside == AcknowledgeStart \/ CrashActivity \/ CrashSweep \/ ExpireLease \/ Reacquire \/ RequestCancel \/ AgeQuarantine \/ Decide

Next == ActivityStep \/ DrainOperation \/ WorkflowStep \/ SweepStep \/ Outside

Spec == Init /\ [][Next]_vars

(***************************************************************************)
(* Fairness: workers poll their queues, timers fire, the clock runs and    *)
(* the scheduled sweep keeps running.                                      *)
(***************************************************************************)
FairSpec ==
    /\ Spec
    /\ WF_vars(ActivityStep \/ DrainOperation \/ WorkflowStep) /\ WF_vars(Reacquire)
    /\ WF_vars(SweepStep) /\ WF_vars(AgeQuarantine)

(***************************************************************************)
(* Properties.                                                             *)
(***************************************************************************)
TypeOK ==
    /\ slot.state \in {"reserved", "processing", "open_only", "closing", "released"}
    /\ slot.state = "open_only" <=> slot.wait # "none"
    /\ slot.state \in {"closing", "released"} <=> slot.reason # "none"
    /\ slot.demand => slot.state = "open_only"
    /\ slot.settled \in 0 .. Watermark /\ slot.fence \in 1 .. lease.fence
    /\ cp.pending.op # "none" => cp.pending.revision \in 1 .. slot.revision
    /\ act.pc = "wake" => act.r.state \in {"processing", "open_only"}

\* A workflow reports an outcome only when the ledger holds it and the slot is
\* closed for it, whatever was lost, replayed or settled by control first;
\* and unless it was cancelled, it does not stop short of an outcome held.
OutcomeHonest ==
    /\ wf.outcome = "accepted" => Latest = "accepted" /\ Over(slot) /\ slot.reason = "completed"
    /\ wf.outcome = "terminal_gap" => Latest = "excluded" /\ Over(slot) /\ slot.reason = "terminal_gap"
    /\ wf.outcome = "stopped" => Over(slot) /\ slot.reason \notin {"completed", "terminal_gap"}

\* A document resumed from quarantine is accepted only after its gates ran
\* again, also when the answer of Resume or the checkpoint after it is lost.
GatesStep == Len(events') > Len(events) /\ Latest' \in {"accepted", "candidate"} => gated
GatesRerun == [][GatesStep]_vars

\* An acceptance is recorded only while its slot is processing under the
\* grant that records it: a reclaim, a resume, an expiry or a closure in
\* between leaves the old activity without effect.
AppliedStep == events' # events => slot.state = "processing" /\ slot.fence = act.fence
AppliedWhileProcessing == [][AppliedStep]_vars

\* Every launched or abandoned document gives its capacity back: no lost
\* reply, lapsed lease or unanswered quarantine keeps a slot forever.
CapacityReturned == <>(slot.state = "released")

\* "No lease lives for a quarantine wait": a lease that lapses while the
\* document waits does not end its workflow.
QuarantineOutlivesLease ==
    Latest = "quarantined" /\ cp.decision = NoDecision /\ faults = 0 /\ ~wf.cancel => wf.state # "failed"

\* A recorded gate outcome reaches the workflow, which waits or returns it.
GateOutcomeKept ==
    Latest \in {"quarantined", "accepted", "excluded"} /\ cp.decision = NoDecision /\ faults = 0 /\ ~wf.cancel
        => wf.state # "failed"
=============================================================================
