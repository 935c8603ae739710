----------------------------- MODULE ReleasePool -----------------------------
(***************************************************************************)
(* The serving side of internal/corpus/release: requests that pin a        *)
(* release, share its bundle through the reference-counted PoolSet, run    *)
(* guarded operations and close their pin, while activations drain old     *)
(* releases and retention deletes releases nobody holds.                   *)
(*                                                                         *)
(* Every section under PoolSet.mu is one action; factory.Open runs inside  *)
(* such a section.  Bundle.Close runs outside the mutex, so it is a step   *)
(* of its own between the section that sets closing and the section of     *)
(* finishClose.  Entries are numbered in the order they are created; an    *)
(* entry and its bundle have the same number.  Countries share nothing in  *)
(* a pool, so a key is a release.                                          *)
(***************************************************************************)
EXTENDS Integers, FiniteSets

CONSTANTS
    Requests,    \* goroutines that pin, operate and close
    Drainers,    \* goroutines that call Drain after an activation
    Releases,    \* releases of one country
    MaxBundles,  \* bound on bundles ever opened
    MaxFailures, \* bound on failing Bundle.Close calls
    MaxDrains    \* bound on Drain calls

ASSUME PoolAssumption ==
    /\ IsFiniteSet(Requests) /\ Requests \cap Drainers = {}
    /\ Releases # {}
    /\ MaxBundles \in Nat /\ MaxFailures \in Nat /\ MaxDrains \in Nat

Callers == Requests \cup Drainers
Bundles == 1 .. MaxBundles

VARIABLES
    opened,    \* how many bundles were opened
    entries,   \* PoolSet.entries: the entry of each release, 0 if none
    of,        \* the release each entry was opened for
    refs,      \* poolEntry.refs
    draining,  \* entries with poolEntry.draining
    closing,   \* entries with poolEntry.closing
    closed,    \* bundles whose Close returned nil
    pc,        \* where each goroutine is
    target,    \* the release it works on
    entry,     \* the entry it leases or closes, 0 if none
    outcome,   \* what its Bundle.Close returned, until finishClose reads it
    hold,      \* the durable in-flight hold of each request
    reply,     \* the answer of a request's last operation
    deleted,   \* releases whose retention claim is finalized
    failures,  \* Bundle.Close calls that failed so far
    drains     \* Drain calls so far

pool == <<opened, entries, of, refs, draining, closing>>
callers == <<pc, target, entry, outcome>>
durable == <<hold, deleted>>
counters == <<failures, drains>>
vars == <<opened, entries, of, refs, draining, closing, closed, pc, target, entry, outcome,
          hold, reply, deleted, failures, drains>>

PCs == {"idle", "pinned", "retrying", "leased", "operating", "ending", "releasing", "draining"}

Init ==
    /\ opened = 0
    /\ entries = [r \in Releases |-> 0]
    /\ of = [b \in Bundles |-> CHOOSE r \in Releases : TRUE]
    /\ refs = [b \in Bundles |-> 0]
    /\ draining = {} /\ closing = {} /\ closed = {}
    /\ pc = [p \in Callers |-> "idle"]
    /\ target = [p \in Callers |-> CHOOSE r \in Releases : TRUE]
    /\ entry = [p \in Callers |-> 0]
    /\ outcome = [p \in Callers |-> "none"]
    /\ hold = [q \in Requests |-> "none"]
    /\ reply = [q \in Requests |-> "none"]
    /\ deleted = {}
    /\ failures = 0 /\ drains = 0

Go(p, state, e) ==
    /\ pc' = [pc EXCEPT ![p] = state]
    /\ entry' = [entry EXCEPT ![p] = e]
    /\ UNCHANGED outcome

(***************************************************************************)
(* Resolver.Pin: the durable hold first, then the pool.                    *)
(***************************************************************************)

\* PinStore.Acquire refuses a release that retention claimed.
Pin(q, r) ==
    /\ pc[q] = "idle"
    /\ r \notin deleted
    /\ hold' = [hold EXCEPT ![q] = "live"]
    /\ target' = [target EXCEPT ![q] = r]
    /\ reply' = [reply EXCEPT ![q] = "none"]
    /\ Go(q, "pinned", 0)
    /\ UNCHANGED <<pool, closed, deleted, counters>>

AcquireShared(q) ==
    LET e == entries[target[q]]
    IN  /\ pc[q] = "pinned" /\ e # 0 /\ e \notin draining
        /\ refs' = [refs EXCEPT ![e] = refs[e] + 1]
        /\ Go(q, "leased", e)
        /\ UNCHANGED <<opened, entries, of, draining, closing, closed, target, reply, durable, counters>>

\* ErrPoolDraining: old requests still use the entry, or its close is running.
AcquireRefused(q) ==
    LET e == entries[target[q]]
    IN  /\ pc[q] = "pinned" /\ e # 0 /\ e \in draining
        /\ refs[e] # 0 \/ e \in closing
        /\ Go(q, "releasing", 0)
        /\ UNCHANGED <<pool, closed, target, reply, durable, counters>>

\* A drained entry whose close failed earlier is closed again, then reopened.
AcquireRetry(q) ==
    LET e == entries[target[q]]
    IN  /\ pc[q] = "pinned" /\ e # 0 /\ e \in draining /\ refs[e] = 0 /\ e \notin closing
        /\ closing' = closing \cup {e}
        /\ Go(q, "retrying", e)
        /\ UNCHANGED <<opened, entries, of, refs, draining, closed, target, reply, durable, counters>>

AcquireOpen(q) ==
    LET e == opened + 1
    IN  /\ pc[q] = "pinned" /\ entries[target[q]] = 0
        /\ opened < MaxBundles
        /\ opened' = e
        /\ entries' = [entries EXCEPT ![target[q]] = e]
        /\ of' = [of EXCEPT ![e] = target[q]]
        /\ refs' = [refs EXCEPT ![e] = 1]
        /\ Go(q, "leased", e)
        /\ UNCHANGED <<draining, closing, closed, target, reply, durable, counters>>

\* factory.Open fails, or its bundle has no operations.
AcquireOpenFails(q) ==
    /\ pc[q] = "pinned" /\ entries[target[q]] = 0
    /\ Go(q, "releasing", 0)
    /\ UNCHANGED <<pool, closed, target, reply, durable, counters>>

(***************************************************************************)
(* guardedOperations: the lease context is checked before and after.       *)
(***************************************************************************)
Operate(q) ==
    /\ pc[q] = "leased" /\ hold[q] = "live"
    /\ pc' = [pc EXCEPT ![q] = "operating"]
    /\ UNCHANGED <<pool, closed, target, entry, outcome, reply, durable, counters>>

\* mutant: the answer is returned whatever became of the hold
AnswerAnyway(q) == "ok"

\* operationCause: a hold lost meanwhile turns an answer into an error.
Answer(q) == IF hold[q] = "live" THEN "ok" ELSE "error"

\* The operation may also fail by itself.
Return(q) ==
    /\ pc[q] = "operating"
    /\ pc' = [pc EXCEPT ![q] = "leased"]
    /\ \E answer \in {Answer(q), "error"} : reply' = [reply EXCEPT ![q] = answer]
    /\ UNCHANGED <<pool, closed, target, entry, outcome, durable, counters>>

(***************************************************************************)
(* requestPin.Close: the pool lease first, then the durable hold.          *)
(***************************************************************************)
Left(e) == [refs EXCEPT ![e] = IF refs[e] > 0 THEN refs[e] - 1 ELSE refs[e]]

LastOut(e) == Left(e)[e] = 0 /\ e \in draining

\* mutant: the durable hold is closed before the pool lease
HoldClosedEarly(q) == [hold EXCEPT ![q] = "none"]

\* local.close leaves the durable hold to durable.Close, which follows it.
HoldDuringClose(q) == hold

CloseLease(q) ==
    LET e == entry[q]
    IN  /\ pc[q] = "leased"
        /\ refs' = Left(e)
        /\ hold' = HoldDuringClose(q)
        /\ \/ /\ LastOut(e) /\ e \notin closing
              /\ closing' = closing \cup {e}
              /\ Go(q, "ending", e)
           \/ /\ ~LastOut(e) \/ e \in closing
              /\ Go(q, "releasing", 0)
              /\ UNCHANGED closing
        /\ UNCHANGED <<opened, entries, of, draining, closed, target, reply, deleted, counters>>

CloseDurable(q) ==
    /\ pc[q] = "releasing"
    /\ hold' = [hold EXCEPT ![q] = "none"]
    /\ Go(q, "idle", 0)
    /\ UNCHANGED <<pool, closed, target, reply, deleted, counters>>

(***************************************************************************)
(* PoolSet.Drain and finishClose.                                          *)
(***************************************************************************)

\* mutant: a drain closes at once, whoever still holds a lease
IdleAlways(e) == e \notin closing

\* Nobody leases the entry and nobody is closing it.
Idle(e) == refs[e] = 0 /\ e \notin closing

Drain(d, r) ==
    LET e == entries[r]
    IN  /\ pc[d] = "idle" /\ drains < MaxDrains
        /\ e # 0
        /\ drains' = drains + 1
        /\ draining' = draining \cup {e}
        /\ \/ /\ Idle(e)
              /\ closing' = closing \cup {e}
              /\ target' = [target EXCEPT ![d] = r]
              /\ Go(d, "draining", e)
           \/ /\ ~Idle(e)
              /\ UNCHANGED <<closing, callers>>
        /\ UNCHANGED <<opened, entries, of, refs, closed, reply, durable, failures>>

Closing(p) == pc[p] \in {"retrying", "ending", "draining"} /\ outcome[p] = "none"

\* Bundle.Close, outside the mutex; a failed one leaves the bundle open.
CloseBundle(p) ==
    /\ Closing(p)
    /\ \/ /\ closed' = closed \cup {entry[p]}
          /\ outcome' = [outcome EXCEPT ![p] = "ok"]
          /\ UNCHANGED failures
       \/ /\ failures < MaxFailures
          /\ failures' = failures + 1
          /\ outcome' = [outcome EXCEPT ![p] = "error"]
          /\ UNCHANGED closed
    /\ UNCHANGED <<pool, pc, target, entry, reply, durable, drains>>

\* Where the caller of finishClose continues: acquire looks again or fails,
\* requestPin.Close goes on to the durable hold, Drain returns.
AfterClose(p) ==
    CASE pc[p] = "retrying" /\ outcome[p] = "ok" -> "pinned"
      [] pc[p] = "draining" -> "idle"
      [] OTHER -> "releasing"

\* mutant: a failed close leaves the flag set
KeepClosing(p) == closing

\* finishClose clears the flag of an entry it could not close.
ClosingAfter(p) ==
    IF entries[target[p]] = entry[p] /\ outcome[p] = "error" THEN closing \ {entry[p]} ELSE closing

\* The entry is deleted once its bundle is closed, if it is still the entry.
EntriesAfter(p) ==
    IF entries[target[p]] = entry[p] /\ outcome[p] = "ok"
    THEN [entries EXCEPT ![target[p]] = 0] ELSE entries

FinishClose(p) ==
    /\ outcome[p] # "none"
    /\ entries' = EntriesAfter(p)
    /\ closing' = ClosingAfter(p)
    /\ outcome' = [outcome EXCEPT ![p] = "none"]
    /\ pc' = [pc EXCEPT ![p] = AfterClose(p)]
    /\ entry' = [entry EXCEPT ![p] = 0]
    /\ UNCHANGED <<opened, of, refs, draining, closed, target, reply, durable, counters>>

(***************************************************************************)
(* The durable side.                                                       *)
(***************************************************************************)

\* Renewal fails: the lease context is cancelled and the hold counts no more.
LoseHold(q) ==
    /\ hold[q] = "live"
    /\ hold' = [hold EXCEPT ![q] = "lost"]
    /\ UNCHANGED <<pool, closed, callers, reply, deleted, counters>>

\* FinalizeReleaseRetentionClaim rechecks every unexpired hold.
Finalize(r) ==
    /\ r \notin deleted
    /\ \A q \in Requests : ~(hold[q] = "live" /\ target[q] = r)
    /\ deleted' = deleted \cup {r}
    /\ UNCHANGED <<pool, closed, callers, hold, reply, counters>>

Acquire(q) ==
    \/ AcquireShared(q) \/ AcquireRefused(q) \/ AcquireRetry(q)
    \/ AcquireOpen(q) \/ AcquireOpenFails(q)

Request(q) ==
    \/ Acquire(q) \/ Operate(q) \/ Return(q) \/ CloseLease(q) \/ CloseDurable(q)

Next ==
    \/ \E q \in Requests, r \in Releases : Pin(q, r)
    \/ \E q \in Requests : Request(q) \/ LoseHold(q)
    \/ \E d \in Drainers, r \in Releases : Drain(d, r)
    \/ \E p \in Callers : CloseBundle(p) \/ FinishClose(p)
    \/ \E r \in Releases : Finalize(r)

Spec == Init /\ [][Next]_vars

(***************************************************************************)
(* Fairness: a goroutine that runs is scheduled, a request ends by its     *)
(* deferred Close, and a bundle that is asked again and again can be       *)
(* opened.  Nothing is assumed of clients, activations or retention.       *)
(***************************************************************************)
FairSpec ==
    /\ Spec
    /\ \A q \in Requests :
          /\ WF_vars(Acquire(q)) /\ SF_vars(AcquireOpen(q))
          /\ WF_vars(Return(q)) /\ SF_vars(CloseLease(q)) /\ WF_vars(CloseDurable(q))
    /\ \A p \in Callers : WF_vars(CloseBundle(p)) /\ WF_vars(FinishClose(p))

(***************************************************************************)
(* Properties.                                                             *)
(***************************************************************************)

\* Every variable has its type; no more leases are counted than requests run.
TypeOK ==
    /\ opened \in 0 .. MaxBundles
    /\ entries \in [Releases -> 0 .. MaxBundles]
    /\ of \in [Bundles -> Releases]
    /\ refs \in [Bundles -> 0 .. Cardinality(Requests)]
    /\ draining \subseteq Bundles /\ closing \subseteq Bundles /\ closed \subseteq Bundles
    /\ pc \in [Callers -> PCs]
    /\ target \in [Callers -> Releases]
    /\ entry \in [Callers -> 0 .. MaxBundles]
    /\ outcome \in [Callers -> {"none", "ok", "error"}]
    /\ hold \in [Requests -> {"none", "live", "lost"}]
    /\ reply \in [Requests -> {"none", "ok", "error"}]
    /\ deleted \subseteq Releases
    /\ failures \in 0 .. MaxFailures /\ drains \in 0 .. MaxDrains

\* A request between Pin and Close runs on an open bundle of the release it
\* pinned, which nobody is closing, however acquire, Drain, a failed close
\* and its retry interleave.
LeasedOpen ==
    \A q \in Requests : pc[q] \in {"leased", "operating"} =>
        /\ entry[q] \notin closed \cup closing
        /\ entries[target[q]] = entry[q]

\* Bundle.Close is never called by two goroutines at once, and never again
\* after it succeeded.
OneCloser ==
    /\ \A p, s \in Callers : Closing(p) /\ Closing(s) /\ entry[p] = entry[s] => p = s
    /\ \A p \in Callers : Closing(p) => entry[p] \notin closed

\* A release never has two open bundles: reopening waits for the close.
OneBundle ==
    \A b, c \in 1 .. opened : of[b] = of[c] /\ b \notin closed /\ c \notin closed => b = c

\* An answer is only given while the release it was read from is retained.
EvidenceRetained ==
    [][\A q \in Requests : reply[q] # "ok" /\ reply'[q] = "ok" => target[q] \notin deleted]_vars

\* Retention never deletes a release under an open pool lease whose hold was
\* not lost, because Close gives up the hold last.
RetainedWhileLeased ==
    \A q \in Requests :
        pc[q] \in {"leased", "operating", "ending"} /\ hold[q] # "lost" => target[q] \notin deleted

\* The pool's books: rows have their types, one goroutine closes a bundle and once, a
\* release has one open bundle, and no release is deleted under a lease that kept its hold.
BundlesAccounted == TypeOK /\ OneCloser /\ OneBundle /\ RetainedWhileLeased

\* A drained release comes back: a client that keeps pinning one eventually
\* gets a lease, also after failed closes.
PinsSucceed ==
    \A q \in Requests, r \in Releases :
        []<>(pc[q] = "pinned" /\ target[q] = r) => []<>(pc[q] = "leased" /\ target[q] = r)
=============================================================================
