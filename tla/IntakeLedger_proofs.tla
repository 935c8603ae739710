------------------------- MODULE IntakeLedger_proofs -------------------------
(***************************************************************************)
(* Proofs about IntakeLedger and, at the end, about the row locks of the   *)
(* source transactions (SourceLocks), for all constants.                   *)
(***************************************************************************)
EXTENDS IntakeLedger, SourceLocks, FiniteSetTheorems, WellFoundedInduction, TLAPS

(***************************************************************************)
(* The inductive invariant.  TypeOK and the properties are not inductive:  *)
(* what a call may write depends on what its locks still guarantee.        *)
(***************************************************************************)

\* Control states in which a call holds the lock of its lease row.
Leased == {"leased", "accepting", "resolved", "written", "checked"}

\* A running call has a request, and the row it inserted or found is typed.
WorkInv ==
    \A c \in Calls :
        /\ Running(c) => req[c] \in Requests
        /\ pc[c] \in {"idle", "admitted", "leased", "accepting"} => mode[c] = "none"
        /\ pc[c] = "resolved" => mode[c] \in {"stored", "absent"}
        /\ pc[c] \in {"written", "checked"} => mode[c] \in {"fresh", "replay"}
        /\ mode[c] = "fresh" => rid[c] \in 1 .. nextId

\* The FOR SHARE lock keeps the admission row a call has checked.
AdmissionInv ==
    \A c \in Calls : Running(c) => AdmissionGrant(req[c].owner, req[c].epoch)

\* The FOR UPDATE lock keeps the lease row a call has checked.
LeaseInv ==
    \A c \in Calls : pc[c] \in Leased =>
        /\ LeaseTuple(req[c].resource) =
              [owner |-> req[c].owner, fence |-> req[c].fence, epoch |-> req[c].epoch]
        /\ lease[req[c].resource].cancelledAt = "null"

\* Row locks are exclusive.
LockInv ==
    /\ \A c, d \in Calls : \A r \in Resources : HoldsLease(c, r) /\ HoldsLease(d, r) => c = d
    /\ \A c, d \in Calls : \A a \in Attempts : HoldsAcceptance(c, a) /\ HoldsAcceptance(d, a) => c = d

\* What a call has read of the stored rows stays true while it holds its
\* lease, because only that lease's holder can write the same key.
StoredInv ==
    \A c \in Calls :
        /\ mode[c] \in {"absent", "fresh"} => Stored(Key(req[c])) = {}
        /\ mode[c] = "stored" => Stored(Key(req[c])) # {}
        /\ mode[c] = "replay" => \E x \in Stored(Key(req[c])) : x.id = rid[c]

\* Ids come from one sequence: committed ids and allocated ones differ.
IdInv ==
    /\ \A x \in results : x.id <= nextId
    /\ \A x \in results, c \in Calls : mode[c] = "fresh" => x.id # rid[c]
    /\ \A c, d \in Calls : mode[c] = "fresh" /\ mode[d] = "fresh" /\ rid[c] = rid[d] => c = d
    /\ \A a \in Attempts : projection[a].watermark <= nextId

\* What a call has checked against the projection stays true while it holds
\* the acceptance lock.
AcceptanceInv ==
    \A c \in Calls : mode[c] = "fresh" /\ Acceptance(req[c]) # "none" =>
        LET p == projection[req[c].attempt]
        IN  /\ p.watermark < rid[c]
            /\ BuildEligible(p.state) => BuildEligible(Acceptance(req[c]))

IInv == TypeOK /\ WorkInv /\ AdmissionInv /\ LeaseInv /\ LockInv /\ StoredInv /\ IdInv /\ AcceptanceInv

-----------------------------------------------------------------------------
(***************************************************************************)
(* Type correctness.                                                       *)
(***************************************************************************)

\* A request is taken from a grant that was handed out.
LEMMA BeginRequest ==
    ASSUME TypeOK, NEW c \in Calls, Begin(c)
    PROVE  \E r \in Requests : ApplyBegin(c, r)
<1>1. PICK g \in grants, a \in Attempts, t \in Tasks, k \in Contents :
         \E x \in Expiries(k) : ApplyBegin(c, RequestFor(g, a, t, k, x))
  BY DEF Begin
<1>2. PICK x \in Expiries(k) : ApplyBegin(c, RequestFor(g, a, t, k, x))
  BY <1>1
<1>3. x \in Times
  BY ConstantsAssumption DEF Expiries, TypeOK, Decisions, Times
<1>4. RequestFor(g, a, t, k, x) \in Requests
  BY <1>3 DEF RequestFor, TypeOK, Grants, Requests
<1> QED
  BY <1>2, <1>4

\* Every initial state is well typed.
LEMMA InitTypeOK == Init => TypeOK
BY ConstantsAssumption DEF Init, TypeOK, Leases, NoLease, Times, PCs

\* Handing out a lease, fresh or reclaimed, keeps the lease table typed.
LEMMA GrantTypeOK ==
    ASSUME TypeOK, NEW r \in Resources, NEW o \in Owners, NEW f \in 1 .. MaxFence,
           NEW ttl \in 0 .. MaxTTL, NEW e \in Times, Grant(r, o, f, ttl, e)
    PROVE  TypeOK'
<1>1. now + ttl \in Times
  BY ConstantsAssumption DEF TypeOK, Times
<1>2. lease' \in [Resources -> Leases]
  BY <1>1, ConstantsAssumption DEF TypeOK, Grant, Leases
<1>3. grants' \subseteq Grants
  BY DEF TypeOK, Grant, Grants
<1> QED
  BY <1>2, <1>3 DEF TypeOK, Grant, store, calls

\* A rollback resets the call and nothing else.
LEMMA RollbackTypeOK ==
    ASSUME TypeOK, NEW c \in Calls, Rollback(c)
    PROVE  TypeOK'
BY ConstantsAssumption DEF TypeOK, Rollback, ledger, store, PCs

\* A call that moves on changes its control state only.
LEMMA AdvanceTypeOK ==
    ASSUME TypeOK, NEW c \in Calls, NEW s \in PCs, Advance(c, s)
    PROVE  TypeOK'
BY DEF TypeOK, Advance, ledger, store

\* What a call's request knows: its content is a known acceptance or none.
LEMMA RequestContent ==
    ASSUME NEW r \in Requests, Acceptance(r) # "none"
    PROVE  Acceptance(r) \in AcceptanceStates
BY ConstantsAssumption DEF Requests, Acceptance

\* Every step keeps the state well typed.
LEMMA NextTypeOK == TypeOK /\ WorkInv /\ [Next]_vars => TypeOK'
<1> SUFFICES ASSUME TypeOK, WorkInv, [Next]_vars PROVE TypeOK'
  OBVIOUS
<1>1. CASE Tick
  BY <1>1, ConstantsAssumption DEF TypeOK, Tick, store, calls
<1>2. ASSUME NEW w \in Writers, NEW b \in BOOLEAN, RotateAdmission(w, b) PROVE TypeOK'
  BY <1>2, ConstantsAssumption DEF TypeOK, RotateAdmission, store, calls
<1>3. ASSUME NEW r \in Resources, NEW o \in Owners, NEW ttl \in 1 .. MaxTTL, ClaimLease(r, o, ttl) PROVE TypeOK'
  <2>1. 1 \in 1 .. MaxFence /\ ttl \in 0 .. MaxTTL /\ now \in Times
    BY ConstantsAssumption DEF TypeOK, Times
  <2> QED
    BY <1>3, <2>1, GrantTypeOK DEF ClaimLease
<1>4. ASSUME NEW r \in Resources, NEW o \in Owners, NEW ttl \in 0 .. MaxTTL, ReclaimLease(r, o, ttl) PROVE TypeOK'
  <2>1. lease[r].fence + 1 \in 1 .. MaxFence
    BY <1>4, ConstantsAssumption DEF ReclaimLease, TypeOK, Leases
  <2>2. lease[r].eligible \in Times
    BY DEF TypeOK, Leases
  <2> QED
    BY <1>4, <2>1, <2>2, GrantTypeOK DEF ReclaimLease
<1>5. ASSUME NEW r \in Resources, CancelLease(r) PROVE TypeOK'
  <2>1. [lease[r] EXCEPT !.cancelledAt = "set"] \in Leases
    BY DEF TypeOK, Leases
  <2>2. lease' = [lease EXCEPT ![r] = [lease[r] EXCEPT !.cancelledAt = "set"]]
    BY <1>5 DEF CancelLease
  <2>3. lease' \in [Resources -> Leases]
    BY <2>1, <2>2 DEF TypeOK
  <2> QED
    BY <1>5, <2>3 DEF TypeOK, CancelLease, store, calls
<1>6. ASSUME NEW g \in grants, NEW d \in 1 .. MaxTTL, ScheduleRetry(g, d) PROVE TypeOK'
  <2>1. now + d \in Times /\ g.resource \in Resources
    BY ConstantsAssumption DEF TypeOK, Times, Grants
  <2>2. [lease[g.resource] EXCEPT !.eligible = now + d] \in Leases
    BY <2>1 DEF TypeOK, Leases
  <2>3. lease' = [lease EXCEPT ![g.resource] = [lease[g.resource] EXCEPT !.eligible = now + d]]
    BY <1>6 DEF ScheduleRetry
  <2>4. lease' \in [Resources -> Leases]
    BY <2>2, <2>3 DEF TypeOK
  <2> QED
    BY <1>6, <2>4 DEF TypeOK, ScheduleRetry, store, calls
<1>7. ASSUME NEW g \in grants, NEW a \in Attempts, RegisterExecution(g, a) PROVE TypeOK'
  <2>1. executions' \subseteq Executions
    BY <1>7 DEF TypeOK, RegisterExecution, Grants, Executions
  <2> QED
    BY <1>7, <2>1 DEF TypeOK, RegisterExecution, store, calls
<1>8. ASSUME NEW e \in executions, NEW k \in Contents, NEW ttl \in 1 .. MaxTTL, RecordDecision(e, k, ttl) PROVE TypeOK'
  <2>1. now + ttl \in Times
    BY ConstantsAssumption DEF TypeOK, Times
  <2>2. decisions' \subseteq Decisions
    BY <1>8, <2>1 DEF TypeOK, RecordDecision, Decisions
  <2> QED
    BY <1>8, <2>2 DEF TypeOK, RecordDecision, store, calls
<1>9. ASSUME NEW c \in Calls, Begin(c) PROVE TypeOK'
  <2>1. PICK r \in Requests : ApplyBegin(c, r)
    BY <1>9, BeginRequest
  <2> QED
    BY <2>1 DEF TypeOK, ApplyBegin, ledger, store, PCs
<1>10. ASSUME NEW c \in Calls, ApplyLockLease(c) PROVE TypeOK'
  BY <1>10, AdvanceTypeOK, RollbackTypeOK DEF ApplyLockLease, PCs
<1>11. ASSUME NEW c \in Calls, ApplyLockAcceptance(c) PROVE TypeOK'
  BY <1>11, AdvanceTypeOK, RollbackTypeOK DEF ApplyLockAcceptance, PCs
<1>12. ASSUME NEW c \in Calls, ApplyResolve(c) PROVE TypeOK'
  <2>1. CASE Rollback(c)
    BY <2>1, RollbackTypeOK
  <2>2. CASE ~Rollback(c)
    BY <1>12, <2>2 DEF TypeOK, ApplyResolve, ledger, store, PCs
  <2> QED
    BY <2>1, <2>2
<1>13. ASSUME NEW c \in Calls, ApplyWrite(c) PROVE TypeOK'
  <2>1. CASE Rollback(c)
    BY <2>1, RollbackTypeOK
  <2>2. CASE ~Rollback(c)
    <3>1. Stored(Key(req[c])) \subseteq results
      BY DEF Stored
    <3>2. nextId' \in 0 .. MaxResults /\ rid' \in [Calls -> 0 .. MaxResults]
      BY <1>13, <2>2, <3>1, ConstantsAssumption DEF TypeOK, ApplyWrite, store
    <3> QED
      BY <1>13, <2>2, <3>2 DEF TypeOK, ApplyWrite, ledger, store, PCs
  <2> QED
    BY <2>1, <2>2
<1>14. ASSUME NEW c \in Calls, ApplyCheck(c) PROVE TypeOK'
  BY <1>14, AdvanceTypeOK, RollbackTypeOK DEF ApplyCheck, PCs
<1>15. ASSUME NEW c \in Calls, ApplyCommit(c) PROVE TypeOK'
  <2> DEFINE r == req[c]
             id == rid[c]
  <2>1. pc' \in [Calls -> PCs] /\ req' \in [Calls -> Requests \cup {NoRequest}]
        /\ mode' \in [Calls -> {"none", "stored", "absent", "fresh", "replay"}]
        /\ rid' \in [Calls -> 0 .. MaxResults]
    BY <1>15, ConstantsAssumption DEF TypeOK, ApplyCommit, PCs
  <2>2. CASE mode[c] = "fresh"
    <3>1. r \in Requests /\ id \in 1 .. MaxResults
      BY <1>15, <2>2, ConstantsAssumption DEF ApplyCommit, WorkInv, Running, TypeOK
    <3>2. r.attempt \in Attempts
      BY <3>1 DEF Requests
    <3>3. results' \subseteq [id : 1 .. MaxResults, req : Requests] /\ deliveries' \subseteq 1 .. MaxResults
      <4>1. results' = results \cup {[id |-> id, req |-> r]} /\ deliveries' = deliveries \cup {id}
        BY <1>15, <2>2 DEF ApplyCommit
      <4>2. [id |-> id, req |-> r] \in [id : 1 .. MaxResults, req : Requests]
        BY <3>1
      <4>3. results \subseteq [id : 1 .. MaxResults, req : Requests] /\ deliveries \subseteq 1 .. MaxResults
        BY DEF TypeOK
      <4> HIDE DEF r, id
      <4> QED
        BY <3>1, <4>1, <4>2, <4>3
    <3>4. events' \subseteq [id : 1 .. MaxResults, attempt : Attempts, state : AcceptanceStates]
      <4>1. CASE Acceptance(r) = "none"
        BY <1>15, <2>2, <4>1 DEF TypeOK, ApplyCommit
      <4>2. CASE Acceptance(r) # "none"
        <5>1. events' = events \cup {[id |-> id, attempt |-> r.attempt, state |-> Acceptance(r)]}
          BY <1>15, <2>2, <4>2 DEF ApplyCommit
        <5>2. Acceptance(r) \in AcceptanceStates
          BY <3>1, <4>2, RequestContent
        <5> QED
          BY <3>1, <3>2, <5>1, <5>2 DEF TypeOK
      <4> QED
        BY <4>1, <4>2
    <3>5. projection' \in [Attempts -> [state : AcceptanceStates \cup {"none"}, watermark : 0 .. MaxResults]]
      <4>1. CASE Acceptance(r) = "none" \/ projection' = projection
        BY <1>15, <2>2, <4>1 DEF TypeOK, ApplyCommit
      <4>2. CASE Acceptance(r) # "none" /\ projection' # projection
        <5>1. projection' = [projection EXCEPT ![r.attempt] = [state |-> Acceptance(r), watermark |-> id]]
          BY <1>15, <2>2, <4>2 DEF ApplyCommit, Project
        <5>2. Acceptance(r) \in AcceptanceStates
          BY <3>1, <4>2, RequestContent
        <5>3. id \in 0 .. MaxResults
          BY DEF TypeOK
        <5> QED
          BY <3>2, <5>1, <5>2, <5>3 DEF TypeOK
      <4> QED
        BY <4>1, <4>2
    <3> QED
      BY <1>15, <2>1, <3>3, <3>4, <3>5 DEF TypeOK, ApplyCommit, ledger
  <2>3. CASE mode[c] # "fresh"
    BY <1>15, <2>1, <2>3 DEF TypeOK, ApplyCommit, ledger
  <2> QED
    BY <2>2, <2>3
<1>16. ASSUME NEW c \in Calls, ApplyAbort(c) PROVE TypeOK'
  BY <1>16, RollbackTypeOK DEF ApplyAbort
<1>17. CASE UNCHANGED vars
  BY <1>17 DEF TypeOK, vars, ledger, store, calls
<1> QED
  BY <1>1, <1>2, <1>3, <1>4, <1>5, <1>6, <1>7, <1>8, <1>9, <1>10, <1>11, <1>12, <1>13, <1>14,
     <1>15, <1>16, <1>17 DEF Next, ApplyStep

-----------------------------------------------------------------------------
(***************************************************************************)
(* Two kinds of steps: the operators and workers change the grant tables   *)
(* and no call; a call changes itself and the store, and no grant table.   *)
(***************************************************************************)

\* A step of the clock, of an operator or of a worker outside Apply.
LedgerStep ==
    \/ Tick
    \/ \E w \in Writers, b \in BOOLEAN : RotateAdmission(w, b)
    \/ \E r \in Resources, o \in Owners, ttl \in 1 .. MaxTTL : ClaimLease(r, o, ttl)
    \/ \E r \in Resources, o \in Owners, ttl \in 0 .. MaxTTL : ReclaimLease(r, o, ttl)
    \/ \E r \in Resources : CancelLease(r)
    \/ \E g \in grants, d \in 1 .. MaxTTL : ScheduleRetry(g, d)
    \/ \E g \in grants, a \in Attempts : RegisterExecution(g, a)
    \/ \E e \in executions, k \in Contents, ttl \in 1 .. MaxTTL : RecordDecision(e, k, ttl)

\* A step of Ledger.Apply.
CallStep(c) == Begin(c) \/ ApplyStep(c) \/ ApplyAbort(c)

\* Next is one or the other.
LEMMA StepKinds == Next => LedgerStep \/ \E c \in Calls : CallStep(c)
BY DEF Next, LedgerStep, CallStep

\* Operators and workers write no result and move no call.
LEMMA LedgerStepFrame == LedgerStep => UNCHANGED <<store, calls>>
BY DEF LedgerStep, Tick, RotateAdmission, ClaimLease, ReclaimLease, Grant, CancelLease, ScheduleRetry,
       RegisterExecution, RecordDecision

\* Apply reads the grant tables and never writes them.
LEMMA CallStepFrame ==
    ASSUME NEW c \in Calls, CallStep(c)
    PROVE  UNCHANGED ledger
BY DEF CallStep, Begin, ApplyBegin, ApplyStep, ApplyLockLease, ApplyLockAcceptance, ApplyResolve, ApplyWrite,
       ApplyCheck, ApplyCommit, ApplyAbort, Advance, Rollback

(***************************************************************************)
(* The transitions of a call, with what the code has checked for each.     *)
(***************************************************************************)
Quiet == UNCHANGED <<nextId, results, events, projection, receipts>>

\* What resolveDecision looked up for a request.
Decided(r) ==
    NeedsDecision(Acceptance(r)) =>
        [execution |-> ExecutionOf(r), content |-> r.content, expires |-> r.expires] \in decisions

Cleared(c) ==
    /\ pc' = [pc EXCEPT ![c] = "idle"] /\ req' = [req EXCEPT ![c] = NoRequest]
    /\ mode' = [mode EXCEPT ![c] = "none"] /\ rid' = [rid EXCEPT ![c] = 0]

Ends(c) == Cleared(c) /\ Quiet

Begins(c) ==
    \E r \in Requests :
        /\ pc[c] = "idle" /\ pc' = [pc EXCEPT ![c] = "admitted"] /\ req' = [req EXCEPT ![c] = r]
        /\ AdmissionGrant(r.owner, r.epoch) /\ UNCHANGED <<mode, rid>> /\ Quiet

LocksLease(c) ==
    /\ pc[c] = "admitted" /\ pc' = [pc EXCEPT ![c] = "leased"] /\ UNCHANGED <<req, mode, rid>>
    /\ LeaseFree(req[c].resource) /\ RequestGrant(req[c]) /\ Quiet

LocksAcceptance(c) ==
    /\ pc[c] = "leased" /\ pc' = [pc EXCEPT ![c] = "accepting"] /\ UNCHANGED <<req, mode, rid>>
    /\ AcceptanceFree(req[c].attempt) /\ Quiet

Resolves(c) ==
    /\ (pc[c] = "leased" /\ Acceptance(req[c]) = "none") \/ pc[c] = "accepting"
    /\ pc' = [pc EXCEPT ![c] = "resolved"] /\ UNCHANGED <<req, rid>>
    /\ mode' = [mode EXCEPT ![c] = IF Stored(Key(req[c])) = {} THEN "absent" ELSE "stored"]
    /\ Decided(req[c]) /\ Quiet

Inserts(c) ==
    /\ pc[c] = "resolved" /\ pc' = [pc EXCEPT ![c] = "written"] /\ UNCHANGED req
    /\ mode' = [mode EXCEPT ![c] = "fresh"] /\ rid' = [rid EXCEPT ![c] = nextId + 1]
    /\ Stored(Key(req[c])) = {} /\ ~Downgrades(c) /\ nextId' = nextId + 1
    /\ UNCHANGED <<results, events, projection, receipts>>

Replays(c) ==
    /\ pc[c] = "resolved" /\ pc' = [pc EXCEPT ![c] = "written"] /\ UNCHANGED req
    /\ mode' = [mode EXCEPT ![c] = "replay"]
    /\ \E x \in Stored(Key(req[c])) : rid' = [rid EXCEPT ![c] = x.id]
    /\ Quiet

Checks(c) ==
    /\ pc[c] = "written" /\ pc' = [pc EXCEPT ![c] = "checked"] /\ UNCHANGED <<req, mode, rid>>
    /\ Quiet

\* Every step of a call is one of these, or the commit.
LEMMA Transitions ==
    ASSUME TypeOK, NEW c \in Calls, CallStep(c)
    PROVE  \/ Ends(c) \/ Begins(c) \/ LocksLease(c) \/ LocksAcceptance(c) \/ Resolves(c)
           \/ Inserts(c) \/ Replays(c) \/ Checks(c) \/ ApplyCommit(c)
<1>1. Rollback(c) => Ends(c)
  BY DEF Rollback, Ends, Cleared, Quiet, store
<1>2. CASE Begin(c)
  <2>1. PICK r \in Requests : ApplyBegin(c, r)
    BY <1>2, BeginRequest
  <2> QED
    BY <2>1 DEF ApplyBegin, Begins, Quiet, store
<1>3. CASE ApplyLockLease(c)
  BY <1>1, <1>3 DEF ApplyLockLease, Advance, LocksLease, Quiet, store
<1>4. CASE ApplyLockAcceptance(c)
  BY <1>1, <1>4 DEF ApplyLockAcceptance, Advance, LocksAcceptance, Quiet, store
<1>5. CASE ApplyResolve(c)
  BY <1>1, <1>5 DEF ApplyResolve, Resolvable, Resolves, Decided, Quiet, store
<1>6. CASE ApplyWrite(c)
  BY <1>1, <1>6 DEF ApplyWrite, Inserts, Replays, Quiet, store
<1>7. CASE ApplyCheck(c)
  BY <1>1, <1>7 DEF ApplyCheck, Advance, Checks, Quiet, store
<1>8. CASE ApplyAbort(c)
  BY <1>1, <1>8 DEF ApplyAbort
<1> QED
  BY <1>2, <1>3, <1>4, <1>5, <1>6, <1>7, <1>8 DEF CallStep, ApplyStep

-----------------------------------------------------------------------------
(***************************************************************************)
(* The invariant is inductive.                                             *)
(***************************************************************************)

\* The invariant holds initially: no call runs and nothing is stored.
LEMMA InitIInv == Init => IInv
<1> SUFFICES ASSUME Init PROVE IInv
  OBVIOUS
<1>1. TypeOK
  BY InitTypeOK
<1>2. WorkInv /\ AdmissionInv /\ LeaseInv
  BY DEF Init, WorkInv, AdmissionInv, LeaseInv, Running, Leased
<1>3. LockInv
  BY DEF Init, LockInv, HoldsLease, HoldsAcceptance
<1>4. StoredInv /\ IdInv /\ AcceptanceInv
  BY DEF Init, StoredInv, IdInv, AcceptanceInv
<1> QED
  BY <1>1, <1>2, <1>3, <1>4 DEF IInv

\* Operators and workers cannot change a row some call holds locked.
LEMMA LedgerStepIInv ==
    ASSUME IInv, LedgerStep
    PROVE  WorkInv' /\ AdmissionInv' /\ LeaseInv' /\ LockInv' /\ StoredInv' /\ IdInv' /\ AcceptanceInv'
<1>1. UNCHANGED <<store, calls>>
  BY LedgerStepFrame
<1>2. WorkInv' /\ LockInv' /\ IdInv' /\ AcceptanceInv'
  BY <1>1 DEF IInv, WorkInv, LockInv, IdInv, AcceptanceInv, store, calls, Running, HoldsLease, HoldsAcceptance
<1>3. StoredInv'
  BY <1>1 DEF IInv, StoredInv, Stored, store, calls
<1>4. AdmissionInv'
  <2>1. admission' = admission \/ \A c \in Calls : ~Running(c)
    BY DEF LedgerStep, Tick, RotateAdmission, ClaimLease, ReclaimLease, Grant, CancelLease, ScheduleRetry,
           RegisterExecution, RecordDecision
  <2> QED
    BY <1>1, <2>1 DEF IInv, AdmissionInv, AdmissionGrant, Running, calls
<1>5. LeaseInv'
  <2> SUFFICES ASSUME NEW c \in Calls, pc[c] \in Leased
               PROVE  /\ LeaseTuple(req[c].resource)' = LeaseTuple(req[c].resource)
                      /\ lease'[req[c].resource].cancelledAt = lease[req[c].resource].cancelledAt
    BY <1>1 DEF IInv, LeaseInv, calls, LeaseTuple
  <2> DEFINE k == req[c].resource
  <2>1. k \in Resources /\ HoldsLease(c, k)
    BY DEF IInv, WorkInv, Running, Leased, HoldsLease, Requests
  <2>2. req' = req
    BY <1>1 DEF calls
  <2>3. lease[k].fence >= 1
    <3>1. req[c].fence \in 1 .. MaxFence
      BY DEF IInv, WorkInv, Running, Leased, Requests
    <3>2. lease[k].fence = req[c].fence
      BY DEF IInv, LeaseInv, LeaseTuple
    <3> QED
      BY <3>1, <3>2, ConstantsAssumption
  <2>4. lease'[k] = lease[k]
    <3>1. CASE lease' = lease
      BY <3>1
    <3>2. ASSUME NEW r \in Resources, NEW o \in Owners, NEW ttl \in 1 .. MaxTTL, ClaimLease(r, o, ttl) PROVE lease'[k] = lease[k]
      BY <2>1, <2>3, <3>2 DEF ClaimLease, Grant, NoLease, IInv, TypeOK
    <3>3. ASSUME NEW r \in Resources, NEW o \in Owners, NEW ttl \in 0 .. MaxTTL, ReclaimLease(r, o, ttl) PROVE lease'[k] = lease[k]
      BY <2>1, <3>3 DEF ReclaimLease, Grant, LeaseFree, IInv, TypeOK
    <3>4. ASSUME NEW r \in Resources, CancelLease(r) PROVE lease'[k] = lease[k]
      BY <2>1, <3>4 DEF CancelLease, LeaseFree, IInv, TypeOK
    <3>5. ASSUME NEW g \in grants, NEW d \in 1 .. MaxTTL, ScheduleRetry(g, d) PROVE lease'[k] = lease[k]
      BY <2>1, <3>5 DEF ScheduleRetry, LeaseFree, IInv, TypeOK
    <3> QED
      BY <3>1, <3>2, <3>3, <3>4, <3>5 DEF LedgerStep, Tick, RotateAdmission, RegisterExecution, RecordDecision
  <2> QED
    BY <2>2, <2>4 DEF LeaseTuple
<1> QED
  BY <1>2, <1>3, <1>4, <1>5

\* A call keeps what it knows of its own request and mode.
LEMMA CallStepWork ==
    ASSUME IInv, NEW c \in Calls, CallStep(c)
    PROVE  WorkInv' /\ AdmissionInv' /\ LeaseInv'
<1>1. UNCHANGED ledger
  BY CallStepFrame
<1>2. IInv /\ TypeOK
  BY DEF IInv
<1>3. WorkInv'
  <2> USE DEF WorkInv, Running, TypeOK, IInv
  <2>1. CASE Ends(c)
    BY <2>1, ConstantsAssumption DEF Ends, Cleared, Quiet
  <2>2. CASE Begins(c)
    BY <2>2 DEF Begins, Quiet
  <2>3. CASE LocksLease(c) \/ LocksAcceptance(c) \/ Checks(c)
    BY <2>3 DEF LocksLease, LocksAcceptance, Checks, Quiet
  <2>4. CASE Resolves(c)
    BY <2>4 DEF Resolves, Quiet
  <2>5. CASE Inserts(c)
    BY <2>5, ConstantsAssumption DEF Inserts
  <2>6. CASE Replays(c)
    BY <2>6 DEF Replays, Quiet
  <2>7. CASE ApplyCommit(c)
    BY <2>7 DEF ApplyCommit
  <2> QED
    BY <2>1, <2>2, <2>3, <2>4, <2>5, <2>6, <2>7, Transitions
<1>4. AdmissionInv'
  BY <1>1, <1>2, Transitions
     DEF IInv, TypeOK, AdmissionInv, AdmissionGrant, Running, ledger, Ends, Cleared, Begins, LocksLease, LocksAcceptance, Resolves, Inserts, Replays, Checks, ApplyCommit, Quiet
<1>5. LeaseInv'
  <2> SUFFICES ASSUME NEW d \in Calls, pc'[d] \in Leased
               PROVE  /\ LeaseTuple(req'[d].resource) =
                            [owner |-> req'[d].owner, fence |-> req'[d].fence, epoch |-> req'[d].epoch]
                      /\ lease[req'[d].resource].cancelledAt = "null"
    BY <1>1 DEF LeaseInv, LeaseTuple, ledger
  <2>1. CASE pc[d] \in Leased /\ req'[d] = req[d]
    BY <2>1 DEF IInv, LeaseInv
  <2>2. CASE LocksLease(c) /\ d = c
    BY <2>2, <1>2 DEF LocksLease, RequestGrant, LeaseGrant, TypeOK
  <2> QED
    BY <1>2, <2>1, <2>2, Transitions
       DEF TypeOK, Leased, Ends, Cleared, Begins, LocksLease, LocksAcceptance, Resolves, Inserts, Replays, Checks, ApplyCommit
<1> QED
  BY <1>3, <1>4, <1>5

\* A call takes a lock only when nobody holds it.
LEMMA CallStepLocks ==
    ASSUME IInv, NEW c \in Calls, CallStep(c)
    PROVE  LockInv'
<1>1. TypeOK /\ LockInv
  BY DEF IInv
<1>0. pc \in [Calls -> PCs] /\ req \in [Calls -> Requests \cup {NoRequest}]
  BY <1>1 DEF TypeOK
<1> USE DEF LockInv, HoldsLease, HoldsAcceptance
<1>2. CASE Ends(c) \/ ApplyCommit(c)
  <2>1. pc' = [pc EXCEPT ![c] = "idle"] /\ req' = [req EXCEPT ![c] = NoRequest]
    BY <1>2 DEF Ends, Cleared, ApplyCommit
  <2>2. pc'[c] = "idle" /\ \A d \in Calls : d # c => pc'[d] = pc[d] /\ req'[d] = req[d]
    BY <1>0, <2>1
  <2> QED
    BY <1>1, <2>2
<1>3. CASE Begins(c)
  BY <1>0, <1>1, <1>3 DEF Begins
<1>4. CASE LocksLease(c)
  BY <1>0, <1>1, <1>4 DEF LocksLease, LeaseFree
<1>5. CASE LocksAcceptance(c)
  BY <1>0, <1>1, <1>5 DEF LocksAcceptance, AcceptanceFree
<1>6. CASE Resolves(c)
  BY <1>0, <1>1, <1>6 DEF Resolves
<1>7. CASE Inserts(c)
  BY <1>0, <1>1, <1>7 DEF Inserts
<1>8. CASE Replays(c)
  <2>1. req' = req /\ pc' = [pc EXCEPT ![c] = "written"] /\ pc[c] = "resolved"
    BY <1>8 DEF Replays
  <2> QED
    BY <1>0, <1>1, <2>1
<1>9. CASE Checks(c)
  BY <1>0, <1>1, <1>9 DEF Checks
<1> QED
  BY <1>1, <1>2, <1>3, <1>4, <1>5, <1>6, <1>7, <1>8, <1>9, Transitions

\* A call that has looked up its key holds its lease.
LEMMA ModeLeased ==
    ASSUME IInv, NEW c \in Calls, mode[c] # "none"
    PROVE  pc[c] \in {"resolved", "written", "checked"} /\ req[c] \in Requests
BY DEF IInv, TypeOK, WorkInv, Running, PCs

\* Two calls that have looked up the same key are the same call.
LEMMA KeyExclusive ==
    ASSUME IInv, NEW c \in Calls, NEW d \in Calls, mode[c] # "none", mode[d] # "none",
           Key(req[c]) = Key(req[d])
    PROVE  c = d
<1>1. pc[c] \in {"resolved", "written", "checked"} /\ pc[d] \in {"resolved", "written", "checked"}
      /\ req[c] \in Requests
  BY ModeLeased
<1>2. req[c].resource = req[d].resource
  BY DEF Key
<1>3. req[c].resource \in Resources
  BY <1>1 DEF Requests
<1> QED
  BY <1>1, <1>2, <1>3 DEF IInv, LockInv, HoldsLease

\* Only the lease holder changes what is stored under its keys.
LEMMA CallStepStored ==
    ASSUME IInv, NEW c \in Calls, CallStep(c)
    PROVE  StoredInv'
<1> DEFINE After(k) == {x \in results' : Key(x.req) = k}
<1>1. TypeOK /\ WorkInv /\ StoredInv
  BY DEF IInv
<1>2. ASSUME results' = results, NEW k PROVE After(k) = Stored(k)
  BY <1>2 DEF Stored
<1> SUFFICES ASSUME NEW d \in Calls
             PROVE  /\ mode'[d] \in {"absent", "fresh"} => After(Key(req'[d])) = {}
                    /\ mode'[d] = "stored" => After(Key(req'[d])) # {}
                    /\ mode'[d] = "replay" => \E x \in After(Key(req'[d])) : x.id = rid'[d]
  BY DEF StoredInv, Stored, Key
<1> HIDE DEF After
<1>3. ASSUME results' = results, req'[d] = req[d], mode'[d] = mode[d], rid'[d] = rid[d]
      PROVE  /\ mode'[d] \in {"absent", "fresh"} => After(Key(req'[d])) = {}
             /\ mode'[d] = "stored" => After(Key(req'[d])) # {}
             /\ mode'[d] = "replay" => \E x \in After(Key(req'[d])) : x.id = rid'[d]
  BY <1>1, <1>2, <1>3 DEF StoredInv
<1>4. CASE Ends(c)
  BY <1>1, <1>3, <1>4 DEF Ends, Cleared, Quiet, TypeOK
<1>5. CASE Begins(c)
  <2>1. results' = results /\ mode' = mode /\ rid' = rid /\ mode[c] = "none"
    BY <1>1, <1>5 DEF Begins, Quiet, WorkInv
  <2>2. d # c => req'[d] = req[d]
    BY <1>1, <1>5 DEF Begins, TypeOK
  <2> QED
    BY <1>3, <2>1, <2>2
<1>6. CASE LocksLease(c) \/ LocksAcceptance(c) \/ Checks(c)
  BY <1>3, <1>6 DEF LocksLease, LocksAcceptance, Checks, Quiet
<1>7. CASE Resolves(c)
  <2>1. results' = results /\ req' = req /\ rid' = rid
    BY <1>7 DEF Resolves, Quiet
  <2>2. CASE d = c
    <3>1. mode'[c] = IF Stored(Key(req[c])) = {} THEN "absent" ELSE "stored"
      BY <1>1, <1>7 DEF Resolves, TypeOK
    <3> QED
      BY <1>2, <2>1, <2>2, <3>1
  <2>3. CASE d # c
    BY <1>1, <1>3, <1>7, <2>1, <2>3 DEF Resolves, TypeOK
  <2> QED
    BY <2>2, <2>3
<1>8. CASE Inserts(c)
  <2>1. results' = results /\ req' = req
    BY <1>8 DEF Inserts
  <2>2. CASE d = c
    <3>1. mode'[c] = "fresh" /\ Stored(Key(req[c])) = {}
      BY <1>1, <1>8 DEF Inserts, TypeOK
    <3> QED
      BY <1>2, <2>1, <2>2, <3>1
  <2>3. CASE d # c
    BY <1>1, <1>3, <1>8, <2>1, <2>3 DEF Inserts, TypeOK
  <2> QED
    BY <2>2, <2>3
<1>9. CASE Replays(c)
  <2>1. results' = results /\ req' = req
    BY <1>9 DEF Replays, Quiet
  <2>2. PICK x \in Stored(Key(req[c])) : rid' = [rid EXCEPT ![c] = x.id]
    BY <1>9 DEF Replays
  <2>3. CASE d = c
    <3>1. mode'[c] = "replay" /\ rid'[c] = x.id
      BY <1>1, <1>9, <2>2 DEF Replays, TypeOK
    <3> QED
      BY <1>2, <2>1, <2>2, <2>3, <3>1
  <2>4. CASE d # c
    BY <1>1, <1>3, <1>9, <2>1, <2>2, <2>4 DEF Replays, TypeOK
  <2> QED
    BY <2>3, <2>4
<1>10. CASE ApplyCommit(c)
  <2>1. CASE d = c
    BY <1>1, <1>10, <2>1 DEF ApplyCommit, TypeOK
  <2>2. CASE d # c
    <3>1. mode'[d] = mode[d] /\ req'[d] = req[d] /\ rid'[d] = rid[d]
      BY <1>1, <1>10, <2>2 DEF ApplyCommit, TypeOK
    <3>2. CASE mode[d] = "none"
      BY <3>1, <3>2
    <3>3. CASE mode[d] # "none"
      <4>1. mode[c] # "fresh" \/ Key(req[c]) # Key(req[d])
        BY <2>2, <3>3, KeyExclusive
      <4>2. results' = results \/ results' = results \cup {[id |-> rid[c], req |-> req[c]]}
        BY <1>10 DEF ApplyCommit
      <4>3. mode[c] # "fresh" => results' = results
        BY <1>10 DEF ApplyCommit
      <4>4. After(Key(req[d])) = Stored(Key(req[d]))
        BY <4>1, <4>2, <4>3 DEF After, Stored
      <4> QED
        BY <1>1, <3>1, <4>4 DEF StoredInv
    <3> QED
      BY <3>2, <3>3
  <2> QED
    BY <2>1, <2>2
<1> QED
  BY <1>1, <1>4, <1>5, <1>6, <1>7, <1>8, <1>9, <1>10, Transitions

\* Ids stay unique: the sequence only grows and each id is used once.
LEMMA CallStepIds ==
    ASSUME IInv, NEW c \in Calls, CallStep(c)
    PROVE  IdInv'
<1>1. TypeOK /\ WorkInv /\ IdInv
  BY DEF IInv
<1> USE DEF IdInv
<1>2. CASE Ends(c)
  BY <1>1, <1>2 DEF Ends, Cleared, Quiet, TypeOK
<1>3. CASE Begins(c) \/ LocksLease(c) \/ LocksAcceptance(c) \/ Checks(c)
  BY <1>1, <1>3 DEF Begins, LocksLease, LocksAcceptance, Checks, Quiet
<1>4. CASE Resolves(c)
  BY <1>1, <1>4 DEF Resolves, Quiet, TypeOK
<1>5. CASE Inserts(c)
  BY <1>1, <1>5, ConstantsAssumption DEF Inserts, WorkInv, TypeOK
<1>6. CASE Replays(c)
  BY <1>1, <1>6 DEF Replays, Quiet, TypeOK
<1>7. CASE ApplyCommit(c)
  <2>1. nextId' = nextId /\ \A d \in Calls : mode'[d] = "fresh" => d # c /\ mode[d] = "fresh" /\ rid'[d] = rid[d]
    BY <1>1, <1>7 DEF ApplyCommit, TypeOK
  <2>2. CASE mode[c] = "fresh"
    <3>1. results' = results \cup {[id |-> rid[c], req |-> req[c]]}
      BY <1>7, <2>2 DEF ApplyCommit
    <3>2. rid[c] \in 1 .. nextId
      BY <1>1, <2>2 DEF WorkInv
    <3>3. \A x \in results' : x.id <= nextId
      BY <1>1, <3>1, <3>2, ConstantsAssumption DEF TypeOK
    <3>4. \A x \in results', d \in Calls : mode'[d] = "fresh" => x.id # rid'[d]
      BY <1>1, <2>1, <2>2, <3>1
    <3>5. \A a \in Attempts : projection'[a].watermark <= nextId
      <4>1. projection' = projection \/ projection' = [projection EXCEPT
               ![req[c].attempt] = [state |-> Acceptance(req[c]), watermark |-> rid[c]]]
        BY <1>7, <2>2 DEF ApplyCommit, Project
      <4> QED
        BY <1>1, <3>2, <4>1, ConstantsAssumption DEF TypeOK
    <3> QED
      BY <1>1, <2>1, <3>3, <3>4, <3>5
  <2>3. CASE mode[c] # "fresh"
    BY <1>1, <1>7, <2>1, <2>3 DEF ApplyCommit
  <2> QED
    BY <2>2, <2>3
<1> QED
  BY <1>1, <1>2, <1>3, <1>4, <1>5, <1>6, <1>7, Transitions

\* Only the holder of an attempt's acceptance lock moves its projection.
LEMMA CallStepAcceptance ==
    ASSUME IInv, NEW c \in Calls, CallStep(c)
    PROVE  AcceptanceInv'
<1>1. TypeOK /\ WorkInv /\ IdInv /\ StoredInv /\ AcceptanceInv
  BY DEF IInv
<1> SUFFICES ASSUME NEW d \in Calls, mode'[d] = "fresh", Acceptance(req'[d]) # "none"
             PROVE  /\ projection'[req'[d].attempt].watermark < rid'[d]
                    /\ BuildEligible(projection'[req'[d].attempt].state) => BuildEligible(Acceptance(req'[d]))
  BY DEF AcceptanceInv, Acceptance, BuildEligible
<1>2. ASSUME projection' = projection, req'[d] = req[d], mode[d] = "fresh", rid'[d] = rid[d]
      PROVE  /\ projection'[req'[d].attempt].watermark < rid'[d]
             /\ BuildEligible(projection'[req'[d].attempt].state) => BuildEligible(Acceptance(req'[d]))
  BY <1>1, <1>2 DEF AcceptanceInv
<1>3. CASE Ends(c)
  BY <1>1, <1>2, <1>3 DEF Ends, Cleared, Quiet, TypeOK
<1>4. CASE Begins(c)
  <2>1. projection' = projection /\ mode' = mode /\ rid' = rid /\ mode[c] = "none"
    BY <1>1, <1>4 DEF Begins, Quiet, WorkInv
  <2>2. d # c => req'[d] = req[d]
    BY <1>1, <1>4 DEF Begins, TypeOK
  <2> QED
    BY <1>2, <2>1, <2>2
<1>5. CASE LocksLease(c) \/ LocksAcceptance(c) \/ Checks(c)
  BY <1>2, <1>5 DEF LocksLease, LocksAcceptance, Checks, Quiet
<1>6. CASE Resolves(c) \/ Replays(c)
  <2>1. projection' = projection /\ req' = req
    BY <1>6 DEF Resolves, Replays, Quiet
  <2>2. d # c
    BY <1>1, <1>6 DEF Resolves, Replays, TypeOK
  <2>3. mode[d] = "fresh" /\ rid'[d] = rid[d]
    BY <1>1, <1>6, <2>2 DEF Resolves, Replays, TypeOK
  <2> QED
    BY <1>2, <2>1, <2>3
<1>7. CASE Inserts(c)
  <2>1. projection' = projection /\ req' = req
    BY <1>7 DEF Inserts
  <2>2. CASE d # c
    BY <1>1, <1>2, <1>7, <2>1, <2>2 DEF Inserts, TypeOK
  <2>3. CASE d = c
    <3>1. rid'[d] = nextId + 1 /\ ~Downgrades(c) /\ Stored(Key(req[c])) = {} /\ pc[c] = "resolved"
      BY <1>1, <1>7, <2>3 DEF Inserts, TypeOK
    <3>2. mode[c] = "absent" /\ req[c] \in Requests
      BY <1>1, <3>1 DEF WorkInv, StoredInv, Running
    <3>3. req[c].attempt \in Attempts
      BY <3>2 DEF Requests
    <3>4. projection[req[c].attempt].watermark < nextId + 1
      BY <1>1, <3>3, ConstantsAssumption DEF IdInv, TypeOK
    <3>5. Acceptance(req[c]) # "none"
      BY <2>1, <2>3
    <3>6. BuildEligible(projection[req[c].attempt].state) => BuildEligible(Acceptance(req[c]))
      BY <3>1, <3>2, <3>5 DEF Downgrades
    <3> QED
      BY <2>1, <2>3, <3>1, <3>4, <3>6
  <2> QED
    BY <2>2, <2>3
<1>8. CASE ApplyCommit(c)
  <2>1. d # c /\ mode[d] = "fresh" /\ req'[d] = req[d] /\ rid'[d] = rid[d]
    BY <1>1, <1>8 DEF ApplyCommit, TypeOK
  <2>2. CASE projection' = projection
    BY <1>2, <2>1, <2>2
  <2>3. CASE projection' # projection
    <3>1. mode[c] = "fresh" /\ Acceptance(req[c]) # "none"
          /\ projection' = [projection EXCEPT
                 ![req[c].attempt] = [state |-> Acceptance(req[c]), watermark |-> rid[c]]]
      BY <1>8, <2>3 DEF ApplyCommit, Project
    <3>2. Acceptance(req[d]) # "none"
      BY <2>1
    <3>3. req[c].attempt # req[d].attempt
      <4>1. pc[c] \in {"resolved", "written", "checked"} /\ pc[d] \in {"resolved", "written", "checked"}
            /\ req[c] \in Requests
        BY <2>1, <3>1, ModeLeased
      <4>2. req[c].attempt \in Attempts
        BY <4>1 DEF Requests
      <4> QED
        BY <2>1, <3>1, <3>2, <4>1, <4>2 DEF IInv, LockInv, HoldsAcceptance
    <3>4. projection'[req[d].attempt] = projection[req[d].attempt]
      BY <3>1, <3>3, <1>1 DEF TypeOK
    <3> QED
      BY <1>1, <2>1, <3>2, <3>4 DEF AcceptanceInv
  <2> QED
    BY <2>2, <2>3
<1> QED
  BY <1>1, <1>3, <1>4, <1>5, <1>6, <1>7, <1>8, Transitions

\* Every step preserves the invariant.
LEMMA NextIInv == IInv /\ [Next]_vars => IInv'
<1> SUFFICES ASSUME IInv, [Next]_vars PROVE IInv'
  OBVIOUS
<1>1. TypeOK'
  BY NextTypeOK DEF IInv
<1>2. CASE LedgerStep
  BY <1>1, <1>2, LedgerStepIInv DEF IInv
<1>3. ASSUME NEW c \in Calls, CallStep(c) PROVE IInv'
  BY <1>1, <1>3, CallStepWork, CallStepLocks, CallStepStored, CallStepIds, CallStepAcceptance DEF IInv
<1>4. CASE UNCHANGED vars
  BY <1>1, <1>4 DEF vars, ledger, store, calls, IInv, WorkInv, AdmissionInv, LeaseInv, LockInv, StoredInv, IdInv,
     AcceptanceInv, Running, AdmissionGrant, LeaseTuple, HoldsLease, HoldsAcceptance, Stored
<1> QED
  BY <1>2, <1>3, <1>4, StepKinds

\* The invariant holds in every reachable state.
THEOREM Invariance == Spec => []IInv
<1>1. Init => IInv
  BY InitIInv
<1>2. IInv /\ [Next]_vars => IInv'
  BY NextIInv
<1> QED
  BY <1>1, <1>2, PTL DEF Spec

\* The database rows and the calls of Ledger.Apply are always well typed.
THEOREM TypeCorrect == Spec => []TypeOK
<1>1. IInv => TypeOK
  BY DEF IInv
<1> QED
  BY <1>1, Invariance, PTL

-----------------------------------------------------------------------------
(***************************************************************************)
(* The safety properties.                                                  *)
(***************************************************************************)

\* Only the commit of a fresh row changes the results, and adds that row.
LEMMA NewResult ==
    ASSUME IInv, [Next]_vars, results' # results
    PROVE  \E c \in Calls :
              /\ ApplyCommit(c) /\ mode[c] = "fresh" /\ pc[c] = "checked" /\ req[c] \in Requests
              /\ results' = results \cup {[id |-> rid[c], req |-> req[c]]}
<1>1. PICK c \in Calls : CallStep(c)
  BY StepKinds, LedgerStepFrame DEF vars, store
<1>2. ApplyCommit(c)
  BY <1>1, Transitions DEF IInv, Ends, Begins, LocksLease, LocksAcceptance, Resolves, Inserts, Replays, Checks, Quiet
<1>3. mode[c] = "fresh" /\ pc[c] = "checked"
      /\ results' = results \cup {[id |-> rid[c], req |-> req[c]]}
  BY <1>2 DEF ApplyCommit
<1>4. req[c] \in Requests
  BY <1>3 DEF IInv, WorkInv, Running
<1> QED
  BY <1>2, <1>3, <1>4

\* Apply commits no result under a superseded grant, whatever the number of
\* calls, workers, rotations and reclaims.
THEOREM FencedWritesHolds == Spec => FencedWrites
<1> DEFINE A == \A x \in results' \ results :
          /\ AdmissionGrant(x.req.owner, x.req.epoch)
          /\ LeaseTuple(x.req.resource) = [owner |-> x.req.owner, fence |-> x.req.fence, epoch |-> x.req.epoch]
          /\ lease[x.req.resource].cancelledAt = "null"
<1>1. IInv /\ [Next]_vars => [A]_vars
  <2> SUFFICES ASSUME IInv, [Next]_vars, NEW x \in results' \ results
               PROVE  /\ AdmissionGrant(x.req.owner, x.req.epoch)
                      /\ LeaseTuple(x.req.resource) =
                            [owner |-> x.req.owner, fence |-> x.req.fence, epoch |-> x.req.epoch]
                      /\ lease[x.req.resource].cancelledAt = "null"
    OBVIOUS
  <2>1. PICK c \in Calls : /\ pc[c] = "checked"
                          /\ results' = results \cup {[id |-> rid[c], req |-> req[c]]}
    BY NewResult
  <2>2. x.req = req[c]
    BY <2>1
  <2>3. AdmissionGrant(req[c].owner, req[c].epoch)
    BY <2>1 DEF IInv, AdmissionInv, Running
  <2> QED
    BY <2>1, <2>2, <2>3 DEF IInv, LeaseInv, Leased
<1> QED
  BY <1>1, Invariance, PTL DEF Spec, FencedWrites

\* Retries and replays of one unit of work under any sequence of fences
\* yield one row, and every receipt names it.
THEOREM SingleReceiptHolds == Spec => []SingleReceipt
<1>1. Init => SingleReceipt
  BY DEF Init, SingleReceipt
<1>2. IInv /\ SingleReceipt /\ [Next]_vars => SingleReceipt'
  <2> SUFFICES ASSUME IInv, SingleReceipt, [Next]_vars PROVE SingleReceipt'
    OBVIOUS
  <2> DEFINE Same(x, y) == /\ x.req.resource = y.req.resource /\ x.req.attempt = y.req.attempt
                           /\ x.req.epoch = y.req.epoch /\ x.req.task = y.req.task
  <2>1. \A x, y \in results' : Same(x, y) => x = y
    <3>1. CASE results' = results
      BY <3>1 DEF SingleReceipt
    <3>2. CASE results' # results
      <4>1. PICK c \in Calls : /\ mode[c] = "fresh"
                              /\ results' = results \cup {[id |-> rid[c], req |-> req[c]]}
        BY <3>2, NewResult
      <4>2. \A x \in results : Key(x.req) # Key(req[c])
        BY <4>1 DEF IInv, StoredInv, Stored
      <4> DEFINE new == [id |-> rid[c], req |-> req[c]]
      <4>3. \A x \in results : ~Same(x, new) /\ ~Same(new, x)
        BY <4>2 DEF Key
      <4> QED
        BY <4>1, <4>3 DEF SingleReceipt
    <3> QED
      BY <3>1, <3>2
  <2>2. \A p \in receipts' : \E x \in results' : x.id = p.id /\ Key(x.req) = p.key
    <3>1. CASE receipts' = receipts
      <4>1. results \subseteq results'
        BY NewResult
      <4> QED
        BY <3>1, <4>1 DEF SingleReceipt
    <3>2. CASE receipts' # receipts
      <4>1. PICK c \in Calls : ApplyCommit(c)
        <5>1. PICK c \in Calls : CallStep(c)
          BY <3>2, StepKinds, LedgerStepFrame DEF vars, store
        <5> QED
          BY <3>2, <5>1, Transitions DEF IInv, Ends, Begins, LocksLease, LocksAcceptance, Resolves, Inserts, Replays,
             Checks, Quiet
      <4>2. receipts' = receipts \cup {[key |-> Key(req[c]), id |-> rid[c]]}
        BY <4>1 DEF ApplyCommit
      <4>3. results \subseteq results'
        BY <4>1 DEF ApplyCommit
      <4>4. \E x \in results' : x.id = rid[c] /\ Key(x.req) = Key(req[c])
        <5>1. CASE mode[c] = "fresh"
          <6>1. results' = results \cup {[id |-> rid[c], req |-> req[c]]}
            BY <4>1, <5>1 DEF ApplyCommit
          <6>2. [id |-> rid[c], req |-> req[c]] \in results'
            BY <6>1
          <6> QED
            BY <6>2, Zenon
        <5>2. CASE mode[c] = "replay"
          BY <4>3, <5>2 DEF IInv, StoredInv, Stored
        <5> QED
          BY <4>1, <5>1, <5>2 DEF ApplyCommit, IInv, WorkInv
      <4> QED
        BY <4>2, <4>3, <4>4 DEF SingleReceipt
    <3> QED
      BY <3>1, <3>2
  <2> QED
    BY <2>1, <2>2 DEF SingleReceipt, Key
<1> QED
  BY <1>1, <1>2, Invariance, PTL DEF Spec

\* A projection moves only by the commit of an acceptance that is no downgrade.
LEMMA NewProjection ==
    ASSUME IInv, [Next]_vars, projection' # projection
    PROVE  \E c \in Calls :
              /\ ApplyCommit(c) /\ mode[c] = "fresh" /\ Acceptance(req[c]) # "none"
              /\ projection' = [projection EXCEPT
                    ![req[c].attempt] = [state |-> Acceptance(req[c]), watermark |-> rid[c]]]
<1>1. PICK c \in Calls : CallStep(c)
  BY StepKinds, LedgerStepFrame DEF vars, store
<1>2. ApplyCommit(c)
  BY <1>1, Transitions DEF IInv, Ends, Begins, LocksLease, LocksAcceptance, Resolves, Inserts, Replays, Checks, Quiet
<1> QED
  BY <1>2 DEF ApplyCommit, Project

\* Under any interleaving of acceptances an accepted attempt stays
\* build-eligible.
THEOREM NeverDowngradedHolds == Spec => NeverDowngraded
<1> DEFINE A == \A a \in Attempts :
          BuildEligible(projection[a].state) => BuildEligible(projection'[a].state)
<1>1. IInv /\ [Next]_vars => [A]_vars
  <2> SUFFICES ASSUME IInv, [Next]_vars, NEW a \in Attempts, BuildEligible(projection[a].state)
               PROVE  BuildEligible(projection'[a].state)
    OBVIOUS
  <2>1. CASE projection' = projection
    BY <2>1
  <2>2. CASE projection' # projection
    <3>1. PICK c \in Calls :
              /\ mode[c] = "fresh" /\ Acceptance(req[c]) # "none"
              /\ projection' = [projection EXCEPT
                    ![req[c].attempt] = [state |-> Acceptance(req[c]), watermark |-> rid[c]]]
      BY <2>2, NewProjection
    <3>2. CASE a = req[c].attempt
      <4>1. projection'[a].state = Acceptance(req[c])
        BY <3>1, <3>2 DEF IInv, TypeOK
      <4> QED
        BY <3>1, <3>2, <4>1 DEF IInv, AcceptanceInv
    <3>3. CASE a # req[c].attempt
      BY <3>1, <3>3 DEF IInv, TypeOK
    <3> QED
      BY <3>2, <3>3
  <2> QED
    BY <2>1, <2>2
<1> QED
  BY <1>1, Invariance, PTL DEF Spec, NeverDowngraded

\* No transaction withdraws a recorded decision.
LEMMA DecisionsKept == [Next]_vars => decisions \subseteq decisions'
<1>1. LedgerStep => decisions \subseteq decisions'
  BY DEF LedgerStep, Tick, RotateAdmission, ClaimLease, ReclaimLease, Grant, CancelLease, ScheduleRetry,
         RegisterExecution, RecordDecision
<1>2. ASSUME NEW c \in Calls, CallStep(c) PROVE decisions' = decisions
  BY <1>2, CallStepFrame DEF ledger
<1> QED
  BY <1>1, <1>2, StepKinds DEF vars, ledger

\* A call past its lookups, like a stored row, has the decision it needs:
\* a rejected or downgraded document never enters the ledger undecided.
DecisionInv ==
    /\ \A x \in results : Decided(x.req)
    /\ \A c \in Calls : pc[c] \in {"resolved", "written", "checked"} => Decided(req[c])

\* Resolving a call looks the decision up; every later step carries it.
LEMMA NextDecisionInv == IInv /\ DecisionInv /\ [Next]_vars => DecisionInv'
<1> SUFFICES ASSUME IInv, DecisionInv, [Next]_vars PROVE DecisionInv'
  OBVIOUS
<1> DEFINE Later(r) == NeedsDecision(Acceptance(r)) =>
          [execution |-> ExecutionOf(r), content |-> r.content, expires |-> r.expires] \in decisions'
<1>1. \A r : Decided(r) => Later(r)
  BY DecisionsKept DEF Decided
<1>2. ASSUME NEW x \in results' PROVE Later(x.req)
  <2>1. CASE x \in results
    BY <1>1, <2>1 DEF DecisionInv
  <2>2. CASE x \notin results
    <3>1. PICK c \in Calls : /\ pc[c] = "checked"
                            /\ results' = results \cup {[id |-> rid[c], req |-> req[c]]}
      BY <2>2, NewResult
    <3>2. x.req = req[c]
      BY <2>2, <3>1
    <3> QED
      BY <1>1, <3>1, <3>2 DEF DecisionInv
  <2> QED
    BY <2>1, <2>2
<1>3. ASSUME NEW d \in Calls, pc'[d] \in {"resolved", "written", "checked"} PROVE Later(req'[d])
  <2>1. /\ pc \in [Calls -> PCs] /\ req \in [Calls -> Requests \cup {NoRequest}]
    BY DEF IInv, TypeOK
  <2>2. ASSUME Decided(req[d]), req'[d] = req[d] PROVE Later(req'[d])
    BY <1>1, <2>2
  <2>3. CASE UNCHANGED calls
    BY <1>3, <2>2, <2>3 DEF calls, DecisionInv
  <2>4. ASSUME NEW c \in Calls, CallStep(c) PROVE Decided(req[d]) /\ req'[d] = req[d]
    <3>1. CASE Resolves(c)
      BY <1>3, <2>1, <3>1 DEF Resolves, DecisionInv
    <3>2. CASE Inserts(c) \/ Replays(c) \/ Checks(c)
      BY <1>3, <2>1, <3>2 DEF Inserts, Replays, Checks, DecisionInv
    <3>3. CASE Ends(c) \/ ApplyCommit(c)
      <4>1. pc' = [pc EXCEPT ![c] = "idle"] /\ req' = [req EXCEPT ![c] = NoRequest]
        BY <3>3 DEF Ends, Cleared, ApplyCommit
      <4> QED
        BY <1>3, <2>1, <4>1 DEF DecisionInv
    <3>4. CASE Begins(c) \/ LocksLease(c) \/ LocksAcceptance(c)
      BY <1>3, <2>1, <3>4 DEF Begins, LocksLease, LocksAcceptance, DecisionInv
    <3> QED
      BY <2>4, <3>1, <3>2, <3>3, <3>4, Transitions DEF IInv
  <2> QED
    BY <2>2, <2>3, <2>4, StepKinds, LedgerStepFrame DEF vars
<1> QED
  BY <1>2, <1>3 DEF DecisionInv, Decided, NeedsDecision, Acceptance, ExecutionOf

\* An event is written with its result and carries the same id, which the
\* projection takes over: its watermark is below every later id.
LEMMA NextProjection == IInv /\ ProjectionIsLatest /\ [Next]_vars => ProjectionIsLatest'
<1> SUFFICES ASSUME IInv, ProjectionIsLatest, [Next]_vars, NEW a \in Attempts
             PROVE  LET log == {e \in events' : e.attempt = a}
                    IN  IF log = {} THEN projection'[a].watermark = 0
                        ELSE \E e \in log :
                               /\ projection'[a] = [state |-> e.state, watermark |-> e.id]
                               /\ \A f \in log : f.id <= e.id
  BY DEF ProjectionIsLatest
<1> DEFINE Log == {e \in events : e.attempt = a}
           Marked == IF Log = {} THEN projection[a].watermark = 0
                     ELSE \E e \in Log : /\ projection[a] = [state |-> e.state, watermark |-> e.id]
                                         /\ \A f \in Log : f.id <= e.id
<1>1. Marked
  BY DEF ProjectionIsLatest
<1>2. CASE UNCHANGED <<events, projection>>
  BY <1>1, <1>2
<1>3. ASSUME NEW c \in Calls, ApplyCommit(c), mode[c] = "fresh", Acceptance(req[c]) # "none", pc[c] = "checked",
             NEW e, e = [id |-> rid[c], attempt |-> req[c].attempt, state |-> Acceptance(req[c])],
             events' = events \cup {e}, projection' = Project(req[c], rid[c])
      PROVE  IF {x \in events' : x.attempt = a} = {} THEN projection'[a].watermark = 0
             ELSE \E x \in events' : /\ x.attempt = a
                                     /\ projection'[a] = [state |-> x.state, watermark |-> x.id]
                                     /\ \A f \in events' : f.attempt = a => f.id <= x.id
  <2>1. /\ projection \in [Attempts -> [state : AcceptanceStates \cup {"none"}, watermark : 0 .. MaxResults]]
        /\ events \subseteq [id : 1 .. MaxResults, attempt : Attempts, state : AcceptanceStates]
        /\ rid[c] \in 0 .. MaxResults /\ MaxResults \in Nat
    BY ConstantsAssumption DEF IInv, TypeOK
  <2>2. CASE req[c].attempt # a
    <3>1. projection'[a] = projection[a]
      BY <1>3, <2>1, <2>2 DEF Project
    <3>2. {x \in events' : x.attempt = a} = Log
      BY <1>3, <2>2
    <3> QED
      BY <1>1, <3>1, <3>2
  <2>3. CASE req[c].attempt = a
    <3>1. projection[a].watermark < rid[c]
      BY <1>3, <2>3 DEF IInv, AcceptanceInv
    <3>2. projection'[a] = [state |-> e.state, watermark |-> e.id]
      BY <1>3, <2>1, <2>3, <3>1 DEF Project
    <3>3. \A f \in Log : f.id <= projection[a].watermark
      <4>1. CASE Log = {}
        BY <4>1
      <4>2. CASE Log # {}
        <5>1. PICK x \in Log : /\ projection[a] = [state |-> x.state, watermark |-> x.id]
                               /\ \A f \in Log : f.id <= x.id
          BY <1>1, <4>2
        <5>2. projection[a].watermark = x.id
          BY <5>1
        <5> QED
          BY <5>1, <5>2
      <4> QED
        BY <4>1, <4>2
    <3>4. \A f \in events' : f.attempt = a => f.id <= e.id
      <4>1. \A f \in Log : f.id <= rid[c]
        <5>1. projection[a].watermark \in Int /\ \A f \in Log : f.id \in Int
          BY <2>1
        <5> QED
          BY <2>1, <3>1, <3>3, <5>1
      <4>2. e.id = rid[c] /\ rid[c] <= rid[c]
        BY <1>3, <2>1
      <4> QED
        BY <1>3, <4>1, <4>2
    <3>5. e \in events' /\ e.attempt = a
      BY <1>3, <2>3
    <3> QED
      BY <3>2, <3>4, <3>5
  <2> QED
    BY <2>2, <2>3
<1>4. ASSUME NEW c \in Calls, ApplyCommit(c), ~ UNCHANGED <<events, projection>>
      PROVE  /\ mode[c] = "fresh" /\ Acceptance(req[c]) # "none" /\ pc[c] = "checked"
             /\ events' = events \cup {[id |-> rid[c], attempt |-> req[c].attempt, state |-> Acceptance(req[c])]}
             /\ projection' = Project(req[c], rid[c])
  BY <1>4 DEF ApplyCommit
<1>5. ASSUME ~ UNCHANGED <<events, projection>> PROVE \E c \in Calls : ApplyCommit(c)
  <2>1. PICK c \in Calls : CallStep(c)
    BY <1>5, StepKinds, LedgerStepFrame DEF vars, store
  <2> QED
    BY <1>5, <2>1, Transitions DEF IInv, Ends, Begins, LocksLease, LocksAcceptance, Resolves, Inserts, Replays, Checks, Quiet
<1>6. CASE ~ UNCHANGED <<events, projection>>
  <2>1. PICK c \in Calls : ApplyCommit(c)
    BY <1>5, <1>6
  <2> QED
    BY <1>3, <1>4, <1>6, <2>1
<1> QED
  BY <1>2, <1>6

\* A release that scans the projection reads the newest acceptance of each attempt.
THEOREM ProjectionIsLatestHolds == Spec => []ProjectionIsLatest
<1>1. Init => ProjectionIsLatest
  BY DEF Init, ProjectionIsLatest
<1> QED
  BY <1>1, NextProjection, Invariance, PTL DEF Spec

\* Ids follow fences: a stored row is never above the fence of its lease, and
\* the id a lease holder allocates is above every id of its resource.
OrderInv ==
    /\ \A x \in results : x.req.fence <= lease[x.req.resource].fence
    /\ \A c \in Calls, x \in results :
          mode[c] = "fresh" /\ x.req.resource = req[c].resource => x.id < rid[c]
    /\ FenceOrder

\* Fences only grow, and only the holder of a lease writes behind it.
LEMMA NextOrderInv == IInv /\ OrderInv /\ [Next]_vars => OrderInv'
<1> SUFFICES ASSUME IInv, OrderInv, [Next]_vars PROVE OrderInv'
  OBVIOUS
<1>0. TypeOK
  BY DEF IInv
<1>1. \A x \in results : x.id \in Int /\ x.req.resource \in Resources /\ x.req.fence \in Int
  BY <1>0, ConstantsAssumption DEF TypeOK, Requests
<1>2. ASSUME NEW r \in Resources PROVE lease[r].fence \in Int /\ lease'[r].fence \in Int /\ lease[r].fence <= lease'[r].fence
  <2>1. lease \in [Resources -> Leases] /\ lease[r].fence \in Int
    BY <1>0, ConstantsAssumption DEF TypeOK, Leases
  <2>2. CASE lease' = lease
    BY <2>1, <2>2
  <2>3. ASSUME NEW s \in Resources, NEW o \in Owners, NEW ttl, NEW e, NEW f \in Int, lease[s].fence <= f,
               Grant(s, o, f, ttl, e)
        PROVE  lease'[r].fence \in Int /\ lease[r].fence <= lease'[r].fence
    BY <2>1, <2>3 DEF Grant
  <2>4. ASSUME NEW s \in Resources, NEW o \in Owners, NEW ttl \in 1 .. MaxTTL, ClaimLease(s, o, ttl)
        PROVE  lease'[r].fence \in Int /\ lease[r].fence <= lease'[r].fence
    BY <2>3, <2>4 DEF ClaimLease, NoLease
  <2>5. ASSUME NEW s \in Resources, NEW o \in Owners, NEW ttl \in 0 .. MaxTTL, ReclaimLease(s, o, ttl)
        PROVE  lease'[r].fence \in Int /\ lease[r].fence <= lease'[r].fence
    <3>1. lease[s].fence \in Int /\ lease[s].fence + 1 \in Int /\ lease[s].fence <= lease[s].fence + 1
      BY <1>0, ConstantsAssumption DEF TypeOK, Leases
    <3> QED
      BY <2>3, <2>5, <3>1 DEF ReclaimLease
  <2>6. ASSUME NEW s \in Resources, CancelLease(s) PROVE lease'[r].fence = lease[r].fence
    BY <2>1, <2>6 DEF CancelLease
  <2>7. ASSUME NEW g \in grants, NEW d \in 1 .. MaxTTL, ScheduleRetry(g, d) PROVE lease'[r].fence = lease[r].fence
    BY <2>1, <2>7 DEF ScheduleRetry
  <2>8. CASE LedgerStep
    BY <2>1, <2>2, <2>4, <2>5, <2>6, <2>7, <2>8 DEF LedgerStep, Tick, RotateAdmission, RegisterExecution, RecordDecision
  <2>9. CASE UNCHANGED ledger
    BY <2>2, <2>9 DEF ledger
  <2> QED
    BY <2>1, <2>8, <2>9, StepKinds, CallStepFrame DEF vars
<1>3. CASE results' # results
  <2>1. PICK c \in Calls : /\ ApplyCommit(c) /\ mode[c] = "fresh" /\ pc[c] = "checked" /\ req[c] \in Requests
                          /\ results' = results \cup {[id |-> rid[c], req |-> req[c]]}
    BY <1>3, NewResult
  <2> DEFINE y == [id |-> rid[c], req |-> req[c]]
  <2>2. req[c].resource \in Resources /\ lease[req[c].resource].fence = req[c].fence /\ req[c].fence \in Int
        /\ rid[c] \in Int
    <3>1. req[c].resource \in Resources /\ req[c].fence \in Int
      BY <2>1, ConstantsAssumption DEF Requests
    <3>2. rid[c] \in Int
      BY <1>0, ConstantsAssumption DEF TypeOK
    <3>3. LeaseTuple(req[c].resource) = [owner |-> req[c].owner, fence |-> req[c].fence, epoch |-> req[c].epoch]
      BY <2>1 DEF IInv, LeaseInv, Leased
    <3> QED
      BY <3>1, <3>2, <3>3 DEF LeaseTuple
  <2>3. lease' = lease /\ mode' = [mode EXCEPT ![c] = "none"] /\ req' = [req EXCEPT ![c] = NoRequest]
        /\ rid' = [rid EXCEPT ![c] = 0]
    BY <2>1 DEF ApplyCommit, ledger
  <2>4. \A x \in results' : x.req.fence <= lease'[x.req.resource].fence
    <3>1. y.req = req[c] /\ req[c].fence <= lease[req[c].resource].fence
      BY <2>2
    <3> QED
      BY <2>1, <2>3, <3>1 DEF OrderInv
  <2>5. \A x \in results : x.req.resource = req[c].resource => x.id < rid[c] /\ x.req.fence <= req[c].fence
    BY <2>1, <2>2 DEF OrderInv
  <2>6. ASSUME NEW d \in Calls, NEW x \in results', mode'[d] = "fresh", x.req.resource = req'[d].resource
        PROVE  x.id < rid'[d]
    <3>1. d # c /\ mode[d] = "fresh" /\ req'[d] = req[d] /\ rid'[d] = rid[d]
      BY <1>0, <2>3, <2>6 DEF TypeOK
    <3>2. req[d].resource # req[c].resource
      <4>1. HoldsLease(c, req[c].resource)
        BY <2>1 DEF HoldsLease
      <4>2. pc[d] \in {"resolved", "written", "checked"}
        BY <3>1, ModeLeased
      <4>3. HoldsLease(d, req[d].resource)
        BY <4>2 DEF HoldsLease
      <4> QED
        BY <2>2, <3>1, <4>1, <4>3 DEF IInv, LockInv
    <3>3. x \in results
      BY <2>1, <2>6, <3>1, <3>2
    <3> QED
      BY <2>6, <3>1, <3>3 DEF OrderInv
  <2>7. FenceOrder'
    <3> SUFFICES ASSUME NEW x \in results', NEW z \in results', x.req.resource = z.req.resource, x.id < z.id
                 PROVE  x.req.fence <= z.req.fence
      BY DEF FenceOrder
    <3>1. CASE x \in results /\ z \in results
      BY <3>1 DEF OrderInv, FenceOrder
    <3>2. CASE z = y
      BY <2>1, <2>2, <2>5, <3>2
    <3>3. CASE x = y /\ z \in results
      BY <1>1, <2>2, <2>5, <3>3
    <3> QED
      BY <2>1, <3>1, <3>2, <3>3
  <2> QED
    BY <2>4, <2>6, <2>7 DEF OrderInv, FenceOrder
<1>4. CASE results' = results
  <2>1. \A x \in results' : x.req.fence <= lease'[x.req.resource].fence
    BY <1>1, <1>2, <1>4 DEF OrderInv
  <2>2. ASSUME NEW d \in Calls, NEW x \in results', mode'[d] = "fresh", x.req.resource = req'[d].resource
        PROVE  x.id < rid'[d]
    <3>1. CASE UNCHANGED calls
      BY <1>4, <2>2, <3>1 DEF calls, OrderInv
    <3>2. ASSUME NEW c \in Calls, CallStep(c) PROVE x.id < rid'[d]
      <4>1. mode \in [Calls -> {"none", "stored", "absent", "fresh", "replay"}] /\ rid \in [Calls -> 0 .. MaxResults]
            /\ req \in [Calls -> Requests \cup {NoRequest}]
        BY <1>0 DEF TypeOK
      <4>2. CASE Inserts(c)
        <5>1. x.id <= nextId /\ nextId \in Int
          BY <1>0, <1>4, <2>2, ConstantsAssumption DEF IInv, IdInv, TypeOK
        <5> QED
          BY <1>1, <1>4, <2>2, <4>1, <4>2, <5>1 DEF Inserts, OrderInv
      <4>3. CASE ~ Inserts(c)
        <5>1. mode[d] = "fresh" /\ req'[d] = req[d] /\ rid'[d] = rid[d]
          BY <2>2, <3>2, <4>1, <4>3, Transitions, <1>0 DEF IInv, WorkInv, Running, Ends, Cleared, Begins, LocksLease, LocksAcceptance,
             Resolves, Replays, Checks, ApplyCommit
        <5> QED
          BY <1>4, <2>2, <5>1 DEF OrderInv
      <4> QED
        BY <4>2, <4>3
    <3> QED
      BY <3>1, <3>2, StepKinds, LedgerStepFrame DEF vars
  <2> QED
    BY <1>4, <2>1, <2>2 DEF OrderInv, FenceOrder
<1> QED
  BY <1>3, <1>4

\* Gaps and exclusions are stored only with the decision that permits them,
\* and the ids of a resource's rows follow the fences they were written under.
THEOREM ResultsDecidedHolds == Spec => []ResultsDecided
<1>1. Init => DecisionInv /\ OrderInv
  BY DEF Init, DecisionInv, OrderInv, FenceOrder
<1>2. IInv /\ DecisionInv /\ OrderInv => ResultsDecided
  BY DEF IInv, DecisionInv, OrderInv, Decided, ResultsDecided, DecidedResults
<1> QED
  BY <1>1, <1>2, NextDecisionInv, NextOrderInv, Invariance, PTL DEF Spec

-----------------------------------------------------------------------------
(***************************************************************************)
(* Refinement.                                                             *)
(***************************************************************************)

\* The transactional ledger implements the atomic one: leases and epochs
\* change one at a time, and a result appears in one fenced step.
THEOREM Refinement == Spec => ImplementsAtomicLedger
<1> DEFINE leases == [r \in Resources |-> LeaseTuple(r)]
<1>1. Init => Atomic!Init
  BY DEF Init, Atomic!Init, LeaseTuple, NoLease
<1>2. IInv /\ [Next]_vars => [Atomic!Next]_(Atomic!vars)
  <2> SUFFICES ASSUME IInv, [Next]_vars, ~ UNCHANGED Atomic!vars PROVE Atomic!Next
    OBVIOUS
  <2>0. TypeOK
    BY DEF IInv
  <2>1. ASSUME NEW w \in Writers, NEW b \in BOOLEAN, RotateAdmission(w, b) PROVE Atomic!Next
    <3>1. admission'.epoch = admission.epoch + 1 /\ UNCHANGED <<lease, results, projection>>
      BY <2>1 DEF RotateAdmission, store
    <3>2. leases' = leases
      BY <3>1 DEF LeaseTuple
    <3> QED
      BY <3>1, <3>2 DEF Atomic!Next, Atomic!Rotate, LeaseTuple
  <2>2. ASSUME NEW r \in Resources, NEW o \in Owners, NEW ttl, NEW e,
               Grant(r, o, lease[r].fence + 1, ttl, e)
        PROVE  Atomic!Next
    <3>1. UNCHANGED <<admission, results, projection>>
      BY <2>2 DEF Grant, store
    <3>2. leases' = [leases EXCEPT ![r] = [owner |-> o, fence |-> leases[r].fence + 1, epoch |-> admission.epoch]]
      BY <2>0, <2>2 DEF Grant, LeaseTuple, TypeOK
    <3> QED
      BY <3>1, <3>2 DEF Atomic!Next, Atomic!Allocate, LeaseTuple
  <2>3. ASSUME lease' = lease \/ (\E r \in Resources : lease' = [lease EXCEPT ![r].cancelledAt = "set"])
                   \/ (\E r \in Resources : \E e : lease' = [lease EXCEPT ![r].eligible = e]),
               UNCHANGED <<admission, results, projection>>
        PROVE  UNCHANGED Atomic!vars
    <3>1. leases' = leases
      BY <2>0, <2>3 DEF LeaseTuple, TypeOK, Leases
    <3> QED
      BY <2>3, <3>1 DEF Atomic!vars, LeaseTuple
  <2>4. ASSUME NEW c \in Calls, CallStep(c) PROVE Atomic!Next
    <3>1. UNCHANGED <<admission, lease>>
      BY <2>4, CallStepFrame DEF ledger
    <3>2. leases' = leases
      BY <3>1 DEF LeaseTuple
    <3>3. results' # results
      <4>1. results' # results \/ projection' # projection
        BY <3>1, <3>2 DEF Atomic!vars, LeaseTuple
      <4>2. ASSUME projection' # projection PROVE results' # results
        <5>1. PICK d \in Calls : ApplyCommit(d) /\ mode[d] = "fresh"
          BY <4>2, NewProjection
        <5>2. results' = results \cup {[id |-> rid[d], req |-> req[d]]}
          BY <5>1 DEF ApplyCommit
        <5>3. [id |-> rid[d], req |-> req[d]] \notin results
          BY <5>1 DEF IInv, IdInv
        <5> QED
          BY <5>2, <5>3
      <4> QED
        BY <4>1, <4>2
    <3>4. PICK d \in Calls : /\ ApplyCommit(d) /\ mode[d] = "fresh" /\ pc[d] = "checked" /\ req[d] \in Requests
                            /\ results' = results \cup {[id |-> rid[d], req |-> req[d]]}
      BY <3>3, NewResult
    <3> DEFINE x == [id |-> rid[d], req |-> req[d]]
    <3>5. x \in [id : 1 .. MaxResults, req : Requests]
      BY <2>0, <3>4, ConstantsAssumption DEF IInv, WorkInv, TypeOK
    <3>6. req[d].epoch = admission.epoch
      BY <3>4 DEF IInv, AdmissionInv, AdmissionGrant, Running
    <3>7. req[d].resource \in Resources
      BY <3>4 DEF Requests
    <3>8. leases[req[d].resource] = [owner |-> req[d].owner, fence |-> req[d].fence, epoch |-> req[d].epoch]
      BY <3>4, <3>7 DEF IInv, LeaseInv, Leased
    <3>9. \A y \in results : Key(y.req) # Key(req[d]) /\ y.id # rid[d]
      BY <3>4 DEF IInv, StoredInv, Stored, IdInv
    <3>10. \/ Acceptance(req[d]) = "none" /\ UNCHANGED projection
           \/ /\ Acceptance(req[d]) # "none"
              /\ rid[d] > projection[req[d].attempt].watermark
              /\ BuildEligible(projection[req[d].attempt].state) => BuildEligible(Acceptance(req[d]))
              /\ projection' = [projection EXCEPT
                    ![req[d].attempt] = [state |-> Acceptance(req[d]), watermark |-> rid[d]]]
      <4>1. CASE Acceptance(req[d]) = "none"
        BY <3>4, <4>1 DEF ApplyCommit
      <4>2. CASE Acceptance(req[d]) # "none"
        <5>1. /\ projection[req[d].attempt].watermark < rid[d]
              /\ BuildEligible(projection[req[d].attempt].state) => BuildEligible(Acceptance(req[d]))
          BY <3>4, <4>2 DEF IInv, AcceptanceInv
        <5>2. projection' = Project(req[d], rid[d])
          BY <3>4, <4>2 DEF ApplyCommit
        <5>3. req[d].attempt \in Attempts
          BY <3>4 DEF Requests
        <5>4. projection[req[d].attempt].watermark \in Int /\ rid[d] \in Int
          BY <2>0, <5>3, ConstantsAssumption DEF TypeOK
        <5> QED
          BY <4>2, <5>1, <5>2, <5>4 DEF Project
      <4> QED
        BY <4>1, <4>2
    <3>11. Atomic!Commit(x)
      BY <3>1, <3>2, <3>4, <3>6, <3>8, <3>9, <3>10 DEF Atomic!Commit, Atomic!Tuple, Atomic!Acceptance, Acceptance, LeaseTuple
    <3>12. x \in results' \ results
      <4>1. x \notin results
        BY <3>9
      <4> QED
        BY <3>4, <4>1
    <3> QED
      BY <3>5, <3>11, <3>12 DEF Atomic!Next
  <2>5. ASSUME LedgerStep PROVE Atomic!Next
    <3>1. UNCHANGED <<results, projection>>
      BY <2>5, LedgerStepFrame DEF store
    <3>2. ASSUME NEW r \in Resources, NEW o \in Owners, NEW ttl \in 1 .. MaxTTL, ClaimLease(r, o, ttl) PROVE Atomic!Next
      <4>1. lease[r].fence + 1 = 1
        BY <3>2 DEF ClaimLease, NoLease
      <4> QED
        BY <2>2, <3>2, <4>1 DEF ClaimLease
    <3>3. ASSUME NEW r \in Resources, NEW o \in Owners, NEW ttl \in 0 .. MaxTTL, ReclaimLease(r, o, ttl) PROVE Atomic!Next
      BY <2>2, <3>3 DEF ReclaimLease
    <3>4. CASE \/ Tick \/ (\E g \in grants, a \in Attempts : RegisterExecution(g, a))
               \/ (\E e \in executions, k \in Contents, ttl \in 1 .. MaxTTL : RecordDecision(e, k, ttl))
      <4>1. UNCHANGED <<admission, lease>>
        BY <3>4 DEF Tick, RegisterExecution, RecordDecision
      <4> QED
        BY <2>3, <3>1, <4>1
    <3>5. ASSUME NEW r \in Resources, CancelLease(r) PROVE Atomic!Next
      BY <2>3, <3>1, <3>5 DEF CancelLease
    <3>6. ASSUME NEW g \in grants, NEW d \in 1 .. MaxTTL, ScheduleRetry(g, d) PROVE Atomic!Next
      <4>1. g.resource \in Resources
        BY <2>0 DEF TypeOK, Grants
      <4> QED
        BY <2>3, <3>1, <3>6, <4>1 DEF ScheduleRetry
    <3> QED
      BY <2>1, <2>5, <3>2, <3>3, <3>4, <3>5, <3>6 DEF LedgerStep
  <2>6. CASE UNCHANGED vars
    BY <2>3, <2>6 DEF vars, ledger, store
  <2> QED
    BY <2>4, <2>5, <2>6, StepKinds
<1> QED
  BY <1>1, <1>2, Invariance, PTL DEF Spec, ImplementsAtomicLedger, Atomic!Spec

(***************************************************************************)
(* The row locks.  A transaction takes the classes in one order and the    *)
(* rows of a class in key order, so whom it waits for has got further; no  *)
(* group can consist of transactions that all wait for one of the group.   *)
(***************************************************************************)

\* Source locks: who holds what, in which order, and what has been read.
KeysOf(class) == IF class = "page" THEN Pages ELSE Nat

LocksTypeInv ==
    /\ holder \in [Range(Classes) -> SUBSET (Txs \X Rows)]
    /\ \A class \in Range(Classes) : \A x \in holder[class] : x[2] \in KeysOf(class)
    /\ phase \in [Txs -> 0 .. Ended]
    /\ todo \in [Txs -> SUBSET Rows]
    /\ \A t \in Txs : todo[t] \subseteq (IF phase[t] \in 1..7 THEN KeysOf(Classes[phase[t]]) ELSE {})
    /\ pages \in SUBSET Pages

\* A row is locked by one transaction, which still runs.
HolderInv ==
    \A class \in Range(Classes) : \A x, y \in holder[class] :
        phase[x[1]] \in 1..Body /\ (x[2] = y[2] => x[1] = y[1])

\* Rows are held of classes that were reached, and in the class being locked they
\* come before those that are left.
ReachedInv ==
    \A n \in 1..7 : \A x \in holder[Classes[n]] :
        /\ n <= phase[x[1]]
        /\ n = phase[x[1]] => \A key \in todo[x[1]] : Before(Classes[n], x[2], key)

\* The windows of the payload are locked once pages are read, the pages of the locked
\* windows are locked or left to lock, and so are their hosts.
ReadOf(t) ==
    /\ phase[t] = 2 => WindowCandidates(t) \subseteq Held(t, "window") \cup todo[t]
    /\ phase[t] \in 3..Body => WindowCandidates(t) \subseteq Held(t, "window")
    /\ phase[t] = 3 => PageCandidates(t) \subseteq Held(t, "page") \cup todo[t]
    /\ phase[t] \in 4..Body => PageCandidates(t) \subseteq Held(t, "page")
    /\ phase[t] = 4 => HostCandidates(t) \subseteq Held(t, "host") \cup todo[t]
    /\ phase[t] \in 5..Body => HostCandidates(t) \subseteq Held(t, "host")
ReadInv == \A t \in Txs : ReadOf(t)

LocksIInv == LocksTypeInv /\ HolderInv /\ ReachedInv /\ ReadInv

-----------------------------------------------------------------------------
\* The seven classes, as numbers.
LEMMA ClassFacts ==
    /\ \A n \in 1..7 : Classes[n] \in Range(Classes)
    /\ \A class \in Range(Classes) : \E n \in 1..7 : class = Classes[n]
    /\ \A n, m \in 1..7 : Classes[n] = Classes[m] => n = m
    /\ \A n \in 1..7 : Classes[n] = "page" <=> n = 3
    /\ Classes[1] = "lease" /\ Classes[2] = "window" /\ Classes[3] = "page" /\ Classes[4] = "host"
    /\ Classes[5] = "request" /\ Classes[6] = "guard" /\ Classes[7] = "blob"
<1>1. DOMAIN Classes = 1..7
  BY DEF Classes
<1>2. /\ Classes[1] = "lease" /\ Classes[2] = "window" /\ Classes[3] = "page" /\ Classes[4] = "host"
      /\ Classes[5] = "request" /\ Classes[6] = "guard" /\ Classes[7] = "blob"
  BY DEF Classes
<1>3. \A n \in 1..7 : n \in {1, 2, 3, 4, 5, 6, 7}
  OBVIOUS
<1>4. Range(Classes) = {Classes[n] : n \in 1..7}
  BY <1>1 DEF Range
<1>. QED
  BY <1>2, <1>3, <1>4

\* The order of the keys of a class is strict.
LEMMA BeforeStrict ==
    ASSUME NEW class
    PROVE  /\ \A a \in KeysOf(class) : ~Before(class, a, a)
           /\ \A a, b, c \in KeysOf(class) :
                Before(class, a, b) /\ Before(class, b, c) => Before(class, a, c)
<1>1. CASE class = "page"
  <2>1. \A a \in KeysOf(class) : a[1] \in Nat /\ a[2] \in Nat
    BY <1>1 DEF Pages, KeysOf
  <2>2. \A a, b : Before(class, a, b) <=> a[1] < b[1] \/ (a[1] = b[1] /\ a[2] < b[2])
    BY <1>1 DEF Before
  <2>3. \A a \in KeysOf(class) : ~Before(class, a, a)
    BY <2>1, <2>2
  <2>4. ASSUME NEW a \in KeysOf(class), NEW b \in KeysOf(class), NEW c \in KeysOf(class),
               Before(class, a, b), Before(class, b, c)
        PROVE  Before(class, a, c)
    BY <2>1, <2>2, <2>4
  <2>. QED
    BY <2>3, <2>4
<1>2. CASE class # "page"
  BY <1>2 DEF Before, KeysOf
<1>. QED
  BY <1>1, <1>2

\* What is wanted of a class is of its kind.
LEMMA CandidatesTyped ==
    ASSUME JobAssumption, LocksTypeInv, NEW t \in Txs, NEW n \in 1..7
    PROVE  Candidates(t, Classes[n]) \in SUBSET KeysOf(Classes[n])
<1>1. \A p \in Held(t, "page") : p \in Pages
  BY ClassFacts DEF LocksTypeInv, Held, KeysOf
<1>2. \A p \in Pages : p[3] \in Nat
  BY DEF Pages
<1>3. Candidates(t, "lease") \subseteq Nat
  BY DEF Candidates, JobAssumption
<1>4. Candidates(t, "window") \subseteq Nat
  BY DEF Candidates, JobAssumption, WindowCandidates
<1>5. Candidates(t, "page") \subseteq Pages
  BY DEF Candidates, PageCandidates, LocksTypeInv
<1>6. Candidates(t, "host") \subseteq Nat
  BY <1>1, <1>2 DEF Candidates, HostCandidates, JobAssumption
<1>7. Candidates(t, "request") \subseteq Nat
  BY DEF Candidates, JobAssumption
<1>8. Candidates(t, "guard") \subseteq Nat
  BY DEF Candidates
<1>9. Candidates(t, "blob") \subseteq Nat
  BY DEF Candidates, JobAssumption
<1>10. n \in {1, 2, 3, 4, 5, 6, 7}
  OBVIOUS
<1>. QED
  BY <1>3, <1>4, <1>5, <1>6, <1>7, <1>8, <1>9, <1>10, ClassFacts DEF KeysOf

-----------------------------------------------------------------------------
\* A held row is a pair of its holder and itself.
LEMMA HeldPairs ==
    ASSUME LocksTypeInv, NEW t \in Txs, NEW class \in Range(Classes)
    PROVE  \A key : key \in Held(t, class) <=> <<t, key>> \in holder[class]
BY DEF LocksTypeInv, Held

\* The locks that the others hold, once t has ended.
LEMMA ReleaseKeeps ==
    ASSUME LocksIInv, NEW t \in Txs,
           holder' = Released(t), phase' = [phase EXCEPT ![t] = Ended], todo' = [todo EXCEPT ![t] = {}],
           pages \subseteq pages', pages' \subseteq Pages,
           \A p \in pages' \ pages : p[2] \in Held(t, "window")
    PROVE  LocksIInv'
<1>. DEFINE Others == Txs \ {t}
<1>1. \A class \in Range(Classes) : holder'[class] = {x \in holder[class] : x[1] # t}
  BY DEF Released
<1>2. /\ \A u \in Others : phase'[u] = phase[u] /\ todo'[u] = todo[u]
      /\ phase'[t] = Ended /\ todo'[t] = {}
  BY DEF LocksIInv, LocksTypeInv
<1>3. LocksTypeInv'
  <2>1. holder' \in [Range(Classes) -> SUBSET (Txs \X Rows)]
    BY DEF Released, LocksIInv, LocksTypeInv
  <2>2. phase' \in [Txs -> 0 .. Ended] /\ todo' \in [Txs -> SUBSET Rows]
    BY DEF LocksIInv, LocksTypeInv, Ended
  <2>3. \A u \in Txs : todo'[u] \subseteq (IF phase'[u] \in 1..7 THEN KeysOf(Classes[phase'[u]]) ELSE {})
    BY <1>2 DEF LocksIInv, LocksTypeInv
  <2>. QED
    BY <1>1, <2>1, <2>2, <2>3 DEF LocksIInv, LocksTypeInv
<1>4. HolderInv'
  <2>1. \A class \in Range(Classes) : \A x \in holder'[class] : x[1] \in Others /\ x \in holder[class]
    BY <1>1 DEF LocksIInv, LocksTypeInv
  <2>. QED
    BY <1>2, <2>1 DEF LocksIInv, HolderInv
<1>5. ReachedInv'
  <2>1. \A class \in Range(Classes) : \A x \in holder'[class] : x[1] \in Others /\ x \in holder[class]
    BY <1>1 DEF LocksIInv, LocksTypeInv
  <2>. QED
    BY <1>2, <2>1, ClassFacts DEF LocksIInv, ReachedInv, Before
<1>6. ReadInv'
  <2>. SUFFICES ASSUME NEW u \in Others
                PROVE  /\ Held(u, "window")' = Held(u, "window") /\ Held(u, "page")' = Held(u, "page")
                       /\ Held(u, "host")' = Held(u, "host")
                       /\ PageCandidates(u)' = PageCandidates(u)
    BY <1>2 DEF LocksIInv, ReadInv, ReadOf, WindowCandidates, HostCandidates, Ended, Body
  <2>1. \A class \in Range(Classes) : Held(u, class)' = Held(u, class)
    BY <1>1 DEF Held
  <2>2. ASSUME NEW p \in pages' \ pages, p[2] \in Held(u, "window") PROVE FALSE
    <3>1. "window" \in Range(Classes)
      BY ClassFacts
    <3>2. <<t, p[2]>> \in holder["window"] /\ <<u, p[2]>> \in holder["window"]
      BY <2>2, <3>1, HeldPairs DEF LocksIInv
    <3>3. \A v, w \in Txs : \A k : <<v, k>> \in holder["window"] /\ <<w, k>> \in holder["window"] => v = w
      BY <3>1 DEF LocksIInv, HolderInv
    <3>. QED
      BY <3>2, <3>3
  <2>. QED
    BY <2>1, <2>2, ClassFacts DEF PageCandidates
<1>. QED
  BY <1>3, <1>4, <1>5, <1>6 DEF LocksIInv

LEMMA CommitKeeps ==
    ASSUME JobAssumption, LocksIInv, NEW t \in Txs, Commit(t)
    PROVE  LocksIInv'
<1>1. todo' = [todo EXCEPT ![t] = {}]
  BY DEF Commit, LocksIInv, LocksTypeInv, Body
<1>2. \A p \in pages' \ pages : p[2] \in Held(t, "window")
  <2>1. ReadOf(t) /\ phase[t] = 8
    BY DEF Commit, LocksIInv, ReadInv, Body
  <2>2. Job[t].windows \subseteq Held(t, "window")
    BY <2>1 DEF ReadOf, WindowCandidates, Body
  <2>3. \A p \in pages' \ pages : p \in Job[t].adds
    BY DEF Commit
  <2>. QED
    BY <2>2, <2>3 DEF JobAssumption
<1>3. pages' \subseteq Pages
  BY DEF Commit, LocksIInv, LocksTypeInv, JobAssumption
<1>. QED
  BY <1>1, <1>2, <1>3, ReleaseKeeps DEF Commit

LEMMA RollbackKeeps ==
    ASSUME JobAssumption, LocksIInv, NEW t \in Txs, RollbackLocks(t)
    PROVE  LocksIInv'
BY ReleaseKeeps DEF RollbackLocks, LocksIInv, LocksTypeInv

\* One row more is held, and it was the first that was left.
LEMMA LockRowKeeps ==
    ASSUME JobAssumption, LocksIInv, NEW t \in Txs, LockRow(t)
    PROVE  LocksIInv'
<1>. DEFINE n == phase[t]
            c == Classes[n]
<1>1. PICK key \in todo[t] : /\ InOrder(t, c, key) /\ Free(c, key)
                             /\ holder' = [holder EXCEPT ![c] = @ \cup {<<t, key>>}]
                             /\ todo' = [todo EXCEPT ![t] = @ \ {key}]
  BY DEF LockRow
<1>2. n \in 1..7 /\ c \in Range(Classes) /\ phase' = phase /\ pages' = pages
  BY ClassFacts DEF LockRow
<1>3. /\ holder'[c] = holder[c] \cup {<<t, key>>}
      /\ \A d \in Range(Classes) \ {c} : holder'[d] = holder[d]
      /\ todo'[t] = todo[t] \ {key} /\ \A u \in Txs \ {t} : todo'[u] = todo[u]
  BY <1>1, <1>2 DEF LocksIInv, LocksTypeInv
<1>4. key \in KeysOf(c) /\ key \in Rows
  BY <1>2 DEF LocksIInv, LocksTypeInv
<1>5. LocksTypeInv'
  <2>1. holder' \in [Range(Classes) -> SUBSET (Txs \X Rows)]
    BY <1>1, <1>2, <1>4 DEF LocksIInv, LocksTypeInv
  <2>2. \A d \in Range(Classes) : \A x \in holder'[d] : x[2] \in KeysOf(d)
    BY <1>3, <1>4 DEF LocksIInv, LocksTypeInv
  <2>3. todo' \in [Txs -> SUBSET Rows]
    BY <1>1 DEF LocksIInv, LocksTypeInv
  <2>4. \A u \in Txs : todo'[u] \subseteq todo[u]
    BY <1>3
  <2>. QED
    BY <1>2, <2>1, <2>2, <2>3, <2>4 DEF LocksIInv, LocksTypeInv
<1>6. HolderInv'
  <2>1. \A x \in holder[c] : x[2] # key
    BY <1>1 DEF Free
  <2>. QED
    BY <1>2, <1>3, <2>1 DEF LocksIInv, HolderInv, Body
<1>7. ReachedInv'
  <2>. SUFFICES ASSUME NEW m \in 1..7, NEW x \in holder'[Classes[m]]
                PROVE  /\ m <= phase[x[1]]
                       /\ m = phase[x[1]] => \A o \in todo'[x[1]] : Before(Classes[m], x[2], o)
    BY <1>2 DEF ReachedInv, Before
  <2>1. CASE x \in holder[Classes[m]]
    <3>1. x[1] \in Txs
      BY <2>1, ClassFacts DEF LocksIInv, LocksTypeInv
    <3>2. todo'[x[1]] \subseteq todo[x[1]]
      BY <1>3, <3>1
    <3>. QED
      BY <2>1, <3>2 DEF LocksIInv, ReachedInv
  <2>2. CASE x \notin holder[Classes[m]]
    <3>1. Classes[m] = c /\ x = <<t, key>>
      BY <1>2, <1>3, <2>2, ClassFacts
    <3>2. m = n
      BY <1>2, <3>1, ClassFacts
    <3>. QED
      BY <1>1, <1>2, <1>3, <3>1, <3>2 DEF InOrder
  <2>. QED
    BY <2>1, <2>2
<1>8. ReadInv'
  <2>1. ASSUME NEW d \in Range(Classes)
        PROVE  Held(t, d)' = Held(t, d) \cup (IF d = c THEN {key} ELSE {})
    <3>1. CASE d = c
      <4>1. Held(t, d)' = {x[2] : x \in {y \in holder[c] \cup {<<t, key>>} : y[1] = t}}
        BY <1>3, <3>1 DEF Held
      <4>2. \A H, k : k \in {x[2] : x \in {y \in H : y[1] = t}} <=> \E x \in H : x[1] = t /\ x[2] = k
        OBVIOUS
      <4>3. <<t, key>>[1] = t /\ <<t, key>>[2] = key
        OBVIOUS
      <4>4. \A k : (\E x \in holder[c] \cup {<<t, key>>} : x[1] = t /\ x[2] = k)
                     <=> (\E x \in holder[c] : x[1] = t /\ x[2] = k) \/ k = key
        BY <4>3
      <4>5. \A k : k \in Held(t, d)' <=> k \in Held(t, c) \/ k = key
        BY <4>1, <4>2, <4>4 DEF Held
      <4>. QED
        BY <3>1, <4>5
    <3>2. CASE d # c
      BY <1>3, <3>2 DEF Held
    <3>. QED
      BY <3>1, <3>2
  <2>2. \A u \in Txs \ {t} : \A d \in Range(Classes) : Held(u, d)' = Held(u, d)
    BY <1>3 DEF Held
  <2>3. /\ c = "window" <=> n = 2
        /\ c = "page" <=> n = 3
        /\ c = "host" <=> n = 4
    BY <1>2, ClassFacts
  <2>4. ASSUME NEW u \in Txs \ {t} PROVE ReadOf(u)'
    BY <1>2, <1>3, <2>2, <2>4, ClassFacts DEF LocksIInv, ReadInv, ReadOf, WindowCandidates, PageCandidates, HostCandidates
  <2>. QED
    BY <1>2, <1>3, <2>1, <2>3, <2>4, ClassFacts DEF LocksIInv, ReadInv, ReadOf, WindowCandidates, PageCandidates, HostCandidates
<1>. QED
  BY <1>5, <1>6, <1>7, <1>8 DEF LocksIInv

\* The next class is read when nothing of the last one is left.
LEMMA NextClassKeeps ==
    ASSUME JobAssumption, LocksIInv, NEW t \in Txs, NextClass(t)
    PROVE  LocksIInv'
<1>. DEFINE n == phase[t]
<1>1. /\ n \in 0..7 /\ todo[t] = {} /\ holder' = holder /\ pages' = pages
      /\ phase' = [phase EXCEPT ![t] = n + 1]
      /\ todo' = [todo EXCEPT ![t] = IF n = 7 THEN {} ELSE Candidates(t, Classes[n + 1])]
  BY DEF NextClass
<1>2. /\ phase'[t] = n + 1 /\ \A u \in Txs \ {t} : phase'[u] = phase[u] /\ todo'[u] = todo[u]
      /\ todo'[t] = IF n = 7 THEN {} ELSE Candidates(t, Classes[n + 1])
  BY <1>1 DEF LocksIInv, LocksTypeInv
<1>3. \A m \in 1..7 : KeysOf(Classes[m]) \subseteq Rows
  BY DEF KeysOf, Rows
<1>4. todo'[t] \in SUBSET (IF n + 1 \in 1..7 THEN KeysOf(Classes[n + 1]) ELSE {})
  <2>1. CASE n = 7
    BY <1>2, <2>1
  <2>2. CASE n # 7
    <3>1. n + 1 \in 1..7
      BY <1>1, <2>2
    <3>. QED
      BY <1>2, <2>2, <3>1, CandidatesTyped DEF LocksIInv
  <2>. QED
    BY <2>1, <2>2
<1>5. LocksTypeInv'
  <2>1. phase' \in [Txs -> 0 .. Ended]
    BY <1>1 DEF LocksIInv, LocksTypeInv, Ended
  <2>2. todo'[t] \in SUBSET Rows
    BY <1>3, <1>4
  <2>3. todo' \in [Txs -> SUBSET Rows]
    BY <1>1, <1>2, <2>2 DEF LocksIInv, LocksTypeInv
  <2>4. \A u \in Txs : todo'[u] \subseteq (IF phase'[u] \in 1..7 THEN KeysOf(Classes[phase'[u]]) ELSE {})
    BY <1>2, <1>4 DEF LocksIInv, LocksTypeInv
  <2>. QED
    BY <1>1, <2>1, <2>3, <2>4 DEF LocksIInv, LocksTypeInv, KeysOf
<1>6. HolderInv'
  <2>1. \A class \in Range(Classes) : \A x \in holder[class] : x[1] \in Txs
    BY DEF LocksIInv, LocksTypeInv
  <2>. QED
    BY <1>1, <1>2, <2>1 DEF LocksIInv, HolderInv, Body
<1>7. ReachedInv'
  <2>. SUFFICES ASSUME NEW m \in 1..7, NEW x \in holder[Classes[m]]
                PROVE  /\ m <= phase'[x[1]]
                       /\ m = phase'[x[1]] => \A o \in todo'[x[1]] : Before(Classes[m], x[2], o)
    BY <1>1 DEF ReachedInv, Before
  <2>1. x[1] \in Txs /\ m <= phase[x[1]]
    BY ClassFacts DEF LocksIInv, LocksTypeInv, ReachedInv
  <2>2. CASE x[1] = t
    BY <1>1, <1>2, <2>1, <2>2
  <2>3. CASE x[1] # t
    BY <1>2, <2>1, <2>3 DEF LocksIInv, ReachedInv
  <2>. QED
    BY <2>2, <2>3
<1>8. ReadInv'
  <2>1. \A u \in Txs, class \in Range(Classes) : Held(u, class)' = Held(u, class)
    BY <1>1 DEF Held
  <2>2. \A u \in Txs : /\ WindowCandidates(u)' = WindowCandidates(u) /\ PageCandidates(u)' = PageCandidates(u)
                       /\ HostCandidates(u)' = HostCandidates(u)
    BY <1>1, <2>1, ClassFacts DEF WindowCandidates, PageCandidates, HostCandidates
  <2>3. ASSUME NEW u \in Txs \ {t} PROVE ReadOf(u)'
    BY <1>2, <2>1, <2>2, <2>3, ClassFacts DEF LocksIInv, ReadInv, ReadOf
  <2>4. ReadOf(t)'
    <3>1. /\ Candidates(t, "window") = WindowCandidates(t) /\ Candidates(t, "page") = PageCandidates(t)
          /\ Candidates(t, "host") = HostCandidates(t)
      BY DEF Candidates
    <3>2. /\ n = 1 => todo'[t] = WindowCandidates(t)
          /\ n = 2 => todo'[t] = PageCandidates(t)
          /\ n = 3 => todo'[t] = HostCandidates(t)
      BY <1>2, <3>1, ClassFacts
    <3>. QED
      BY <1>1, <1>2, <2>1, <2>2, <3>2, ClassFacts DEF LocksIInv, ReadInv, ReadOf, Body
  <2>. QED
    BY <2>3, <2>4 DEF ReadInv
<1>. QED
  BY <1>5, <1>6, <1>7, <1>8 DEF LocksIInv

\* What the locks guarantee is kept by every step.
THEOREM LocksInvariance ==
    ASSUME JobAssumption
    PROVE  LocksSpec => []LocksIInv
<1>1. ASSUME LocksInit PROVE LocksIInv
  <2>1. \A class \in Range(Classes) : holder[class] = {}
    BY <1>1 DEF LocksInit
  <2>2. \A t \in Txs : phase[t] = 0 /\ todo[t] = {}
    BY <1>1 DEF LocksInit
  <2>3. LocksTypeInv
    BY <1>1, <2>1, <2>2 DEF JobAssumption, LocksInit, LocksTypeInv, Ended
  <2>4. HolderInv /\ ReachedInv
    BY <2>1, ClassFacts DEF HolderInv, ReachedInv
  <2>5. ReadInv
    BY <2>2 DEF ReadInv, ReadOf, Body
  <2>. QED
    BY <2>3, <2>4, <2>5 DEF LocksIInv
<1>2. ASSUME LocksIInv, [LocksNext]_lockVars PROVE LocksIInv'
  <2>1. CASE UNCHANGED lockVars
    BY <1>2, <2>1 DEF lockVars, LocksIInv, LocksTypeInv, HolderInv, ReachedInv, ReadInv, ReadOf, Held, Before,
                     WindowCandidates, PageCandidates, HostCandidates
  <2>2. CASE \E t \in Txs : Step(t) \/ RollbackLocks(t)
    BY <1>2, <2>2, LockRowKeeps, NextClassKeeps, CommitKeeps, RollbackKeeps DEF Step
  <2>. QED
    BY <1>2, <2>1, <2>2 DEF LocksNext
<1>. QED
  BY <1>1, <1>2, PTL DEF LocksSpec

-----------------------------------------------------------------------------
\* What t waits for comes before all that u still waits for.
MoreDone(t, u) ==
    \/ phase[t] < phase[u]
    \/ /\ phase[t] = phase[u] /\ phase[t] \in 1..7
       /\ \E a \in todo[t] : \A b \in todo[u] : Before(Classes[phase[t]], a, b)

LEMMA MoreDoneStrict ==
    ASSUME LocksIInv
    PROVE  /\ \A t \in Txs : ~MoreDone(t, t)
           /\ \A t, u, v \in Txs : MoreDone(t, u) /\ MoreDone(u, v) => MoreDone(t, v)
<1>1. \A t \in Txs : phase[t] \in Int
  BY DEF LocksIInv, LocksTypeInv
<1>2. \A t \in Txs : phase[t] \in 1..7 => \A a \in todo[t] : a \in KeysOf(Classes[phase[t]])
  BY DEF LocksIInv, LocksTypeInv
<1>3. ASSUME NEW t \in Txs PROVE ~MoreDone(t, t)
  BY <1>1, <1>2, BeforeStrict DEF MoreDone
<1>4. ASSUME NEW t \in Txs, NEW u \in Txs, NEW v \in Txs, MoreDone(t, u), MoreDone(u, v) PROVE MoreDone(t, v)
  <2>1. CASE phase[t] < phase[u] \/ phase[u] < phase[v]
    BY <1>1, <1>4, <2>1 DEF MoreDone
  <2>2. CASE ~(phase[t] < phase[u] \/ phase[u] < phase[v])
    <3>1. /\ phase[t] = phase[u] /\ phase[u] = phase[v] /\ phase[t] \in 1..7
          /\ \E a \in todo[t] : \A b \in todo[u] : Before(Classes[phase[t]], a, b)
          /\ \E b \in todo[u] : \A o \in todo[v] : Before(Classes[phase[u]], b, o)
      BY <1>4, <2>2 DEF MoreDone
    <3>2. PICK a \in todo[t] : \A b \in todo[u] : Before(Classes[phase[t]], a, b)
      BY <3>1
    <3>3. PICK b \in todo[u] : \A o \in todo[v] : Before(Classes[phase[t]], b, o)
      BY <3>1
    <3>4. \A o \in todo[v] : Before(Classes[phase[t]], a, o)
      BY <1>2, <3>1, <3>2, <3>3, BeforeStrict
    <3>. QED
      BY <3>1, <3>4 DEF MoreDone
  <2>. QED
    BY <2>1, <2>2
<1>. QED
  BY <1>3, <1>4

\* Who is waited for is further on.
LEMMA WaitsForMoreDone ==
    ASSUME LocksIInv, NEW t \in Txs, NEW u \in Txs, WaitsFor(t, u)
    PROVE  MoreDone(t, u)
<1>. DEFINE n == phase[t]
<1>1. PICK key \in todo[t] : <<u, key>> \in holder[Classes[n]]
  BY DEF WaitsFor
<1>2. n \in 1..7 /\ phase[u] \in Int
  BY DEF WaitsFor, LocksIInv, LocksTypeInv
<1>3. n <= phase[u] /\ (n = phase[u] => \A o \in todo[u] : Before(Classes[n], key, o))
  BY <1>1, <1>2 DEF LocksIInv, ReachedInv
<1>. QED
  BY <1>2, <1>3 DEF MoreDone

LEMMA OrderedMeansNoCircle ==
    ASSUME JobAssumption, LocksIInv
    PROVE  NoCircle
<1>. SUFFICES ASSUME NEW T \in (SUBSET Txs) \ {{}}, \A t \in T : \E u \in T : WaitsFor(t, u)
              PROVE  FALSE
  BY DEF NoCircle
<1>. DEFINE Ahead(t) == {u \in T : MoreDone(t, u)}
            Sets == {Ahead(t) : t \in T}
<1>1. IsFiniteSet(T)
  BY FS_Subset DEF JobAssumption
<1>2. IsWellFoundedOn(StrictSubsetOrdering(T), SUBSET T)
  BY <1>1, FS_StrictSubsetOrderingWellFounded, FS_FiniteSubsetsOfFinite
<1>3. Sets \subseteq SUBSET T /\ Sets # {}
  OBVIOUS
<1>4. PICK S \in Sets : \A V \in Sets : <<V, S>> \notin StrictSubsetOrdering(T)
  <2>. HIDE DEF Sets
  <2>. QED
    BY <1>2, <1>3, WFMin
<1>5. PICK t \in T : S = Ahead(t)
  BY <1>4
<1>6. PICK u \in T : MoreDone(t, u)
  BY WaitsForMoreDone
<1>7. Ahead(u) \subseteq Ahead(t) /\ u \in Ahead(t) /\ u \notin Ahead(u)
  BY <1>6, MoreDoneStrict
<1>8. Ahead(u) \in Sets /\ <<Ahead(u), Ahead(t)>> \notin StrictSubsetOrdering(T)
  BY <1>4, <1>5
<1>. QED
  BY <1>7, <1>8 DEF StrictSubsetOrdering

\* For any number of source transactions, on any rows: a row has one holder, a body
\* runs with every page of its windows and their hosts locked, and no group of
\* transactions waits for itself.
THEOREM LocksOrderedHolds ==
    ASSUME JobAssumption
    PROVE  LocksSpec => []LocksOrdered
<1>1. ASSUME LocksIInv PROVE LocksOrdered
  <2>1. LocksTypeOK
    BY <1>1 DEF LocksTypeOK, LocksIInv, LocksTypeInv, HolderInv
  <2>2. BodyHoldsAll
    BY <1>1, ClassFacts DEF BodyHoldsAll, LocksIInv, LocksTypeInv, ReadInv, ReadOf, PageCandidates, HostCandidates, Body
  <2>. QED
    BY <1>1, <2>1, <2>2, OrderedMeansNoCircle DEF LocksOrdered
<1>. QED
  BY <1>1, LocksInvariance, PTL

=============================================================================
