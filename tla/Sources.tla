------------------------------ MODULE Sources ------------------------------
(***************************************************************************)
(* The source adapter: frozen windows, the discovery pages fetched for     *)
(* them, the artifact requests of a document, and the request slots of the *)
(* hosts that both spend.  Every operation runs in one transaction that    *)
(* first locks admission, the owning lease and all rows it may touch, so   *)
(* each is one action.  A step is always taken by the current owner of the *)
(* lease: a replaced or expired owner fails lockSourceLease and writes     *)
(* nothing, and a repeated call finds its stored receipt and writes        *)
(* nothing.  A fetch runs outside of the transactions: its outcome carries *)
(* the ordinal of the claim that started it and may arrive at any time,    *)
(* also under a later owner.                                               *)
(***************************************************************************)
EXTENDS Naturals, FiniteSets, FiniteSetsExt

CONSTANTS
    Windows,         \* source windows; each has its own execution lease
    Documents,       \* document versions; each has its own execution lease
    Requests,        \* artifact request keys
    Hosts,           \* canonical host keys with a shared rate limit
    HostOf,          \* the host of a window's pages, and of a request
    WindowOf,        \* the window a request was planned under
    DocumentOf,      \* the document version that owns a request
    IdentityOf,      \* the accounting identity (artifact or detail URL) of a request
    Contents,        \* what a decoded page may say
    PageBudget,      \* page_budget of a window
    RequestBudget,   \* request_budget of a window
    AttemptLimit,    \* source_attempt_limit
    MaxInFlight,     \* max_in_flight of a host
    MaxFence,        \* bound: how often a lease is taken over
    Clocks           \* bound: the clocks of the database that may pass

SourcesAssumption ==
    /\ IsFiniteSet(Windows) /\ IsFiniteSet(Documents) /\ IsFiniteSet(Requests)
    /\ HostOf \in [Windows \cup Requests -> Hosts]
    /\ WindowOf \in [Requests -> Windows]
    /\ DocumentOf \in [Requests -> Documents]
    /\ PageBudget \in Nat \ {0} /\ RequestBudget \in Nat
    /\ AttemptLimit \in 1..5 /\ MaxInFlight \in Nat \ {0}
    /\ MaxFence \in Nat \ {0}

VARIABLES
    lease,       \* execution_lease: attempt fence and cancellation
    windows,     \* source_window
    pages,       \* discovery_page by window and ordinal
    outcomes,    \* execution_result: the claim ordinals with a recorded fetch outcome
    hosts,       \* source_rate_limit
    requests,    \* artifact_request
    claimed      \* history: how often each request was claimed

vars == <<lease, windows, pages, outcomes, hosts, requests, claimed>>

Subjects == Windows \cup Documents
InfrastructureCap == 3
\* One ordinal more than the budget, so that a follow-up page may leave a gap.
Ordinals == 0..PageBudget
NoOrdinal == PageBudget + 1

LiveStates == {"frozen", "progressing"}
OpenStates == {"frozen", "progressing", "incomplete"}
PendingStates == {"requested", "captured", "decoded"}
Reasons == {"none", "owner", "coverage_finding", "window_deadline", "window_budget",
            "retry_exhausted", "infrastructure", "intrinsic"}

Nothing == [next |-> "last", findings |-> FALSE, detail |-> FALSE]

AbsentPage ==
    [state |-> "absent", claim |-> "none", ordinal |-> 0, infra |-> 0, attempts |-> 0,
     holder |-> 0, late |-> FALSE, parent |-> NoOrdinal, content |-> Nothing,
     launch |-> "none", transferred |-> FALSE]

AbsentRequest ==
    [state |-> "absent", infra |-> 0, attempts |-> 0, holder |-> 0, captured |-> FALSE,
     late |-> FALSE, waiting |-> FALSE]

Init ==
    /\ lease = [s \in Subjects |-> [fence |-> 1, cancelled |-> FALSE]]
    /\ windows = [w \in Windows |-> [state |-> "absent", reason |-> "none",
                                     overdue |-> FALSE, waiting |-> FALSE]]
    /\ pages = [w \in Windows |-> [n \in Ordinals |-> AbsentPage]]
    /\ outcomes = [w \in Windows |-> [n \in Ordinals |-> {}]]
    /\ hosts = [h \in Hosts |-> [known |-> FALSE, inFlight |-> 0, cooling |-> FALSE]]
    /\ requests = [r \in Requests |-> AbsentRequest]
    /\ claimed = [r \in Requests |-> 0]

-----------------------------------------------------------------------------
(* Grants and hosts *)

\* lockSourceLease: the modes named reconciliation also run under a cancelled lease.
Granted(s, reconciliation) == reconciliation \/ ~lease[s].cancelled

\* A later owner takes the lease over: the ledger raises the fence.
ReclaimLease(s) ==
    /\ lease[s].fence < MaxFence
    /\ lease' = [lease EXCEPT ![s] = [fence |-> @.fence + 1, cancelled |-> FALSE]]
    /\ UNCHANGED <<windows, pages, outcomes, hosts, requests, claimed>>

CancelLease(s) ==
    /\ "cancel" \in Clocks
    /\ ~lease[s].cancelled
    /\ lease' = [lease EXCEPT ![s].cancelled = TRUE]
    /\ UNCHANGED <<windows, pages, outcomes, hosts, requests, claimed>>

\* RegisterSourceRateLimit: the first registration of a host stands.
RegisterHost(h) ==
    /\ \E s \in Subjects : Granted(s, FALSE)
    /\ ~hosts[h].known
    /\ hosts' = [hosts EXCEPT ![h].known = TRUE]
    /\ UNCHANGED <<lease, windows, pages, outcomes, requests, claimed>>

\* A claim takes one slot and starts the minimum interval.
HostFree(h) == hosts[h].known /\ ~hosts[h].cooling /\ hosts[h].inFlight < MaxInFlight
TakeSlot(h) == hosts' = [hosts EXCEPT ![h] = [@ EXCEPT !.inFlight = @ + 1, !.cooling = TRUE]]

\* Releasing n slots; every release statement wants in_flight > 0. Retry-After
\* also pushes next_allowed_at of the host into the future.
GiveBack(h, n, retryAfter) ==
    /\ hosts[h].inFlight >= n
    /\ hosts' = [hosts EXCEPT ![h] = [@ EXCEPT !.inFlight = @ - n, !.cooling = @ \/ retryAfter]]

-----------------------------------------------------------------------------
(* Windows and pages *)

Registered(w) == {n \in Ordinals : pages[w][n].state # "absent"}
RequestsOf(w) == {r \in Requests : WindowOf[r] = w /\ requests[r].state # "absent"}

\* ReadIssuedDiscoveryClosurePages.
Issued(ps) == {n \in Ordinals : ps[n].claim = "issued"}

\* closeDiscoveryClaims: every page marker that owns a slot gives it up.
ClosedClaims(ps) ==
    [n \in Ordinals |-> IF n \in Issued(ps) THEN [ps[n] EXCEPT !.claim = "released"] ELSE ps[n]]

\* ExhaustDiscoveryInfrastructure and the sibling closures of a failed window.
FailedSiblings(ps) ==
    [n \in Ordinals |-> IF ps[n].state \in PendingStates
                        THEN [ps[n] EXCEPT !.state = "failed"] ELSE ps[n]]

FailWindow(w, reason) ==
    windows' = [windows EXCEPT ![w].state = "failed", ![w].reason = reason]

\* failDiscoveryInfrastructure: the slots are given back before the pages fail.
FailDiscoveryInfrastructure(w, ps, freed) ==
    /\ GiveBack(HostOf[w], freed + Cardinality(Issued(ps)), FALSE)
    /\ pages' = [pages EXCEPT ![w] = FailedSiblings(ClosedClaims(ps))]
    /\ IF windows[w].state \in OpenStates
       THEN FailWindow(w, "infrastructure")
       ELSE UNCHANGED windows

\* The insert does nothing on a window that exists.
OpenSourceWindow(w) ==
    /\ windows[w].state = "absent"
    /\ windows' = [windows EXCEPT ![w].state = "frozen"]

OpenWindow(w) ==
    /\ Granted(w, FALSE)
    /\ OpenSourceWindow(w)
    /\ UNCHANGED <<lease, pages, outcomes, hosts, requests, claimed>>

\* The page that authorizes page n: the previous page's continuation, or a
\* listing follow-up that any earlier decoded page named.
Authorizes(w, m, n) ==
    /\ m < n
    /\ pages[w][m].state \in {"decoded", "accepted"}
    /\ LET c == pages[w][m].content
       IN  \/ c.next = "listing"
           \/ c.next = "continuation" /\ m + 1 = n /\ ~c.findings

\* ReadDiscoveryPredecessor.
Predecessors(w, n) == {m \in Ordinals : Authorizes(w, m, n)}

\* The insert under the frozen page budget and before the window's deadline.
RegisterDiscoveryPage(w, n, m) ==
    /\ pages[w][n].state = "absent"
    /\ windows[w].state \in LiveStates
    /\ ~windows[w].overdue
    /\ Cardinality(Registered(w)) < PageBudget
    /\ pages' = [pages EXCEPT ![w][n] = [AbsentPage EXCEPT !.state = "requested", !.parent = m]]

RegisterPage(w, n) ==
    /\ Granted(w, FALSE)
    /\ \E m \in IF n = 0 THEN {NoOrdinal} ELSE Predecessors(w, n) : RegisterDiscoveryPage(w, n, m)
    /\ UNCHANGED <<lease, windows, outcomes, hosts, requests, claimed>>

\* ClaimDiscoveryHost: fresh clocks for the window, the page, the lease and the host.
Claimable(w, n) ==
    /\ windows[w].state \in LiveStates
    /\ ~windows[w].overdue
    /\ ~windows[w].waiting
    /\ ~pages[w][n].late
    /\ pages[w][n].infra <= InfrastructureCap
    /\ pages[w][n].attempts < AttemptLimit
    /\ HostFree(HostOf[w])

\* IssueDiscoveryClaim: replacing a released claim spends infrastructure.
IssuedClaim(p, fence) ==
    [p EXCEPT !.claim = "issued", !.ordinal = @ + 1, !.holder = fence,
              !.infra = IF p.claim = "released" THEN @ + 1 ELSE @]

ClaimPage(w, n) ==
    /\ Granted(w, FALSE)
    /\ pages[w][n].state = "requested"
    /\ windows[w].state \notin {"complete", "failed"}
    /\ pages[w][n].claim # "issued"
    /\ IF pages[w][n].claim = "released" /\ pages[w][n].infra = InfrastructureCap
       THEN FailDiscoveryInfrastructure(w, pages[w], 0)
       ELSE /\ Claimable(w, n)
            /\ TakeSlot(HostOf[w])
            /\ pages' = [pages EXCEPT ![w][n] = IssuedClaim(@, lease[w].fence)]
            /\ UNCHANGED windows
    /\ UNCHANGED <<lease, outcomes, requests, claimed>>

\* RecoverPage: a newer owner releases the claim of a replaced one.
RecoverPage(w, n) ==
    /\ Granted(w, TRUE)
    /\ pages[w][n].state = "requested"
    /\ pages[w][n].claim = "issued"
    /\ pages[w][n].holder < lease[w].fence
    /\ LET ps == [pages[w] EXCEPT ![n].claim = "released"]
       IN  IF pages[w][n].infra = InfrastructureCap
           THEN FailDiscoveryInfrastructure(w, ps, 1)
           ELSE /\ GiveBack(HostOf[w], 1, FALSE)
                /\ pages' = [pages EXCEPT ![w] = ps]
                /\ UNCHANGED windows
    /\ UNCHANGED <<lease, outcomes, requests, claimed>>

\* FindDiscoveryClaimOutcome finds no receipt for the claim, and the claim is
\* the latest of its page, issued or released. Its attempt number is then
\* source_attempts + 1: only an outcome changes source_attempts.
OutcomeBinds(w, n, k) ==
    /\ k \notin outcomes[w][n]
    /\ pages[w][n].state = "requested"
    /\ pages[w][n].claim \in {"issued", "released"}
    /\ k = pages[w][n].ordinal
    /\ pages[w][n].attempts < AttemptLimit

\* The slot a settled claim still owned.
OwnSlot(p) == IF p.claim = "issued" THEN 1 ELSE 0

RecordOutcome(w, n, k) == outcomes' = [outcomes EXCEPT ![w][n] = @ \cup {k}]

\* A late success may commit after the deadline, and in an incomplete window.
SettleDiscoveryCapture(w, n) ==
    /\ windows[w].state \in OpenStates
    /\ pages' = [pages EXCEPT ![w][n] = [@ EXCEPT !.state = "captured", !.claim = "settled",
                                                  !.attempts = @ + 1]]

RecordPageCapture(w, n, k) ==
    /\ Granted(w, FALSE)
    /\ OutcomeBinds(w, n, k)
    /\ SettleDiscoveryCapture(w, n)
    /\ GiveBack(HostOf[w], OwnSlot(pages[w][n]), FALSE)
    /\ RecordOutcome(w, n, k)
    /\ UNCHANGED <<lease, windows, requests, claimed>>

\* SettleIntrinsicDiscoveryFailure.
IntrinsicFailure(ps, n) ==
    [ps EXCEPT ![n] = [@ EXCEPT !.state = "failed", !.claim = "settled", !.attempts = @ + 1]]

RecordPageFailure(w, n, k) ==
    /\ Granted(w, FALSE)
    /\ windows[w].state \notin {"complete", "failed"}
    /\ OutcomeBinds(w, n, k)
    /\ LET ps == IntrinsicFailure(pages[w], n)
       IN  /\ GiveBack(HostOf[w], OwnSlot(pages[w][n]) + Cardinality(Issued(ps)), FALSE)
           /\ pages' = [pages EXCEPT ![w] = FailedSiblings(ClosedClaims(ps))]
    /\ FailWindow(w, "intrinsic")
    /\ RecordOutcome(w, n, k)
    /\ UNCHANGED <<lease, requests, claimed>>

-----------------------------------------------------------------------------
(* Accounting of a window *)

\* The follow-ups an accepted page named are accounted for: a later listing
\* page of it is accepted, and its detail launch is acknowledged.
FollowUpsResolved(ps, n) ==
    /\ ps[n].content.next = "listing" =>
         \E m \in Ordinals : m > n /\ ps[m].state = "accepted" /\ ps[m].parent = n
    /\ ps[n].content.detail => ps[n].launch = "acknowledged"

\* The scan of reconcileSourceWindow over the pages in ordinal order.
AllAccepted(ps) == \A n \in Ordinals : ps[n].state \in {"absent", "accepted"}
HasFindings(ps) == \E n \in Ordinals : ps[n].state = "accepted" /\ ps[n].content.findings
PageCount(ps) == Cardinality({n \in Ordinals : ps[n].state # "absent"})
LastPage(ps) == Max({n \in Ordinals : ps[n].state # "absent"})
Exhausted(ps) ==
    /\ PageCount(ps) > 0
    /\ ps[LastPage(ps)].state = "accepted"
    /\ ps[LastPage(ps)].content.next = "last"
Blocked(ps) ==
    \/ HasFindings(ps)
    \/ \E n \in Ordinals :
         /\ ps[n].state = "accepted"
         /\ \/ n >= PageCount(ps)   \* a gap in the ordinals
            \/ ~FollowUpsResolved(ps, n)
            \/ n > 0 /\ ps[n - 1].content.next = "continuation" /\ ps[n].parent # n - 1

Accounted(ps) == PageCount(ps) > 0 /\ AllAccepted(ps) /\ Exhausted(ps) /\ ~Blocked(ps)

\* The first blocker that applies; an incomplete window keeps the one it has.
Blocker(w, ps) ==
    CASE windows[w].state = "incomplete" -> windows[w].reason
      [] windows[w].state # "incomplete" /\ HasFindings(ps) -> "coverage_finding"
      [] windows[w].state # "incomplete" /\ ~HasFindings(ps) /\ windows[w].overdue -> "window_deadline"
      [] OTHER ->
           IF \/ AllAccepted(ps) /\ ~Exhausted(ps) /\ PageCount(ps) >= PageBudget
              \/ Cardinality(RequestsOf(w)) >= RequestBudget /\ (~AllAccepted(ps) \/ ~Exhausted(ps))
           THEN "window_budget" ELSE "none"

\* reconcileSourceWindow on the pages ps, after the step gave back freed slots
\* and left the window row in state. Completion comes before any blocker.
ReconcileSourceWindow(w, ps, state, freed, retryAfter) ==
    LET open == state \in OpenStates
        blocker == Blocker(w, ps)
    IN  IF Accounted(ps)
        THEN /\ windows' = [windows EXCEPT ![w].state = IF open THEN "complete" ELSE state,
                                           ![w].reason = IF open THEN "none" ELSE @,
                                           ![w].waiting = @ \/ retryAfter]
             /\ pages' = [pages EXCEPT ![w] = ps]
             /\ GiveBack(HostOf[w], freed, retryAfter)
        ELSE IF blocker # "none"
        THEN /\ windows' = [windows EXCEPT ![w].state = IF open THEN "incomplete" ELSE state,
                                           ![w].reason = IF open THEN blocker ELSE @,
                                           ![w].waiting = @ \/ retryAfter]
             /\ pages' = [pages EXCEPT ![w] = ClosedClaims(ps)]
             /\ GiveBack(HostOf[w], freed + Cardinality(Issued(ps)), retryAfter)
        ELSE /\ windows' = [windows EXCEPT ![w].state = state, ![w].waiting = @ \/ retryAfter]
             /\ pages' = [pages EXCEPT ![w] = ps]
             /\ GiveBack(HostOf[w], freed, retryAfter)

\* RecordDiscoveryFailureReceipt: the page only fails while fetching is allowed.
RetryExhausted(w, n) ==
    /\ windows[w].state # "incomplete"
    /\ ~windows[w].overdue
    /\ pages[w][n].attempts + 1 >= AttemptLimit \/ pages[w][n].late

RecordPageRetry(w, n, k) ==
    /\ Granted(w, FALSE)
    /\ OutcomeBinds(w, n, k)
    /\ windows[w].state \in OpenStates
    /\ LET settled == [pages[w] EXCEPT ![n] = [@ EXCEPT !.claim = "settled", !.attempts = @ + 1]]
           own == OwnSlot(pages[w][n])
       IN  IF RetryExhausted(w, n)
           THEN /\ GiveBack(HostOf[w], own + Cardinality(Issued(settled)), TRUE)
                /\ pages' = [pages EXCEPT ![w] =
                               FailedSiblings(ClosedClaims([settled EXCEPT ![n].state = "failed"]))]
                /\ windows' = [windows EXCEPT ![w] = [@ EXCEPT !.state = "failed",
                                 !.reason = "retry_exhausted", !.waiting = TRUE]]
           ELSE ReconcileSourceWindow(w, settled, windows[w].state, own, TRUE)
    /\ RecordOutcome(w, n, k)
    /\ UNCHANGED <<lease, requests, claimed>>

RecordDiscoveryPageDecode(w, n, c) ==
    /\ pages[w][n].state = "captured"
    /\ pages' = [pages EXCEPT ![w][n] = [@ EXCEPT !.state = "decoded", !.content = c]]

RecordPageDecode(w, n, c) ==
    /\ Granted(w, FALSE)
    /\ RecordDiscoveryPageDecode(w, n, c)
    /\ UNCHANGED <<lease, windows, outcomes, hosts, requests, claimed>>

\* registerSourceLaunches records one launch intent per detail follow-up.
RegisterSourceLaunches(p) == [p EXCEPT !.launch = IF p.content.detail THEN "pending" ELSE "none"]

\* AcceptDiscoveryPage; an incomplete window keeps its blocker.
AcceptDiscoveryPage(w, n) ==
    /\ pages[w][n].state = "decoded"
    /\ windows[w].state \in OpenStates
    /\ LET ps == [pages[w] EXCEPT ![n] = [RegisterSourceLaunches(@) EXCEPT !.state = "accepted"]]
           state == IF windows[w].state = "incomplete" THEN "incomplete" ELSE "progressing"
       IN  ReconcileSourceWindow(w, ps, state, 0, FALSE)

ApplyDiscoveryPage(w, n) ==
    /\ Granted(w, FALSE)
    /\ AcceptDiscoveryPage(w, n)
    /\ UNCHANGED <<lease, outcomes, requests, claimed>>

ReconcileWindow(w) ==
    /\ Granted(w, FALSE)
    /\ windows[w].state \in OpenStates
    /\ ReconcileSourceWindow(w, pages[w], windows[w].state, 0, FALSE)
    /\ UNCHANGED <<lease, outcomes, requests, claimed>>

\* CloseWindow without a page: an owner's blocker.
CloseWindow(w) ==
    /\ Granted(w, TRUE)
    /\ windows[w].state \in OpenStates
    /\ GiveBack(HostOf[w], Cardinality(Issued(pages[w])), FALSE)
    /\ pages' = [pages EXCEPT ![w] = ClosedClaims(pages[w])]
    /\ windows' = [windows EXCEPT ![w].state = "incomplete", ![w].reason = "owner"]
    /\ UNCHANGED <<lease, outcomes, requests, claimed>>

\* CloseWindow with a page: an intrinsic failure of that page.
CloseWindowPage(w, n) ==
    /\ Granted(w, TRUE)
    /\ windows[w].state \in OpenStates
    /\ pages[w][n].state \in PendingStates
    /\ GiveBack(HostOf[w], Cardinality(Issued(pages[w])), FALSE)
    /\ pages' = [pages EXCEPT ![w] = FailedSiblings(ClosedClaims(pages[w]))]
    /\ FailWindow(w, "intrinsic")
    /\ UNCHANGED <<lease, outcomes, requests, claimed>>

\* ReadDiscoveryResumptionExhaustion: replacements of some page are spent.
ReplacementsSpent(w) ==
    \E n \in Ordinals : /\ pages[w][n].state = "requested"
                        /\ pages[w][n].claim = "released"
                        /\ pages[w][n].infra = InfrastructureCap

ResumeSourceWindow(w) ==
    /\ windows[w].state = "incomplete"
    /\ ~windows[w].overdue
    /\ Cardinality(RequestsOf(w)) < RequestBudget
    /\ \A n \in Ordinals : pages[w][n].state # "failed"
    /\ windows' = [windows EXCEPT ![w].reason = "none", ![w].state =
                     IF \E n \in Ordinals : pages[w][n].state = "accepted"
                     THEN "progressing" ELSE "frozen"]

\* Resumption cannot reset the infrastructure cap: it fails the window instead.
ResumeWindow(w) ==
    /\ Granted(w, FALSE)
    /\ windows[w].state # "absent"
    /\ IF ReplacementsSpent(w)
       THEN FailDiscoveryInfrastructure(w, pages[w], 0)
       ELSE ResumeSourceWindow(w) /\ UNCHANGED <<pages, hosts>>
    /\ UNCHANGED <<lease, outcomes, requests, claimed>>

\* TransferLaunch hands the acknowledgement of a launch to the control workflow.
TransferLaunch(w, n) ==
    /\ Granted(w, FALSE)
    /\ pages[w][n].launch # "none"
    /\ ~pages[w][n].transferred
    /\ pages' = [pages EXCEPT ![w][n].transferred = TRUE]
    /\ UNCHANGED <<lease, windows, outcomes, hosts, requests, claimed>>

\* Mutant: an acknowledgement puts the window back to progressing.
MAcknowledgeReopens(w, n, control) ==
    /\ control \/ Granted(w, TRUE)
    /\ pages[w][n].launch # "none"
    /\ pages[w][n].transferred = control
    /\ ReconcileSourceWindow(w, [pages[w] EXCEPT ![n].launch = "acknowledged"],
                             "progressing", 0, FALSE)
    /\ UNCHANGED <<lease, outcomes, requests, claimed>>

\* AcknowledgeLaunch by the source owner, or by control after a transfer;
\* control holds its own lease, so the window's may be cancelled or unowned.
AcknowledgeLaunch(w, n, control) ==
    /\ control \/ Granted(w, TRUE)
    /\ pages[w][n].launch # "none"
    /\ pages[w][n].transferred = control
    /\ ReconcileSourceWindow(w, [pages[w] EXCEPT ![n].launch = "acknowledged"],
                             windows[w].state, 0, FALSE)
    /\ UNCHANGED <<lease, outcomes, requests, claimed>>

-----------------------------------------------------------------------------
(* Artifact requests *)

\* The observation a request hangs from: a page of its window was accepted.
ParentObserved(w) == \E n \in Ordinals : pages[w][n].state = "accepted"

\* registerRequests inserts a whole inventory of one window or nothing; a fresh
\* key for an identity that already has a request would reset its allowance.
Registers(rs) ==
    /\ \E w \in Windows :
         /\ \A r \in rs : WindowOf[r] = w
         /\ windows[w].state # "absent"
         /\ ParentObserved(w)
         /\ Cardinality(RequestsOf(w)) + Cardinality(rs) <= RequestBudget
    /\ \A r \in rs : /\ requests[r].state = "absent"
                     /\ \A q \in Requests \ {r} :
                          (q \in rs \/ requests[q].state # "absent") /\ DocumentOf[q] = DocumentOf[r]
                            => IdentityOf[q] # IdentityOf[r]

WithRequests(rs, from) ==
    [r \in Requests |-> IF r \in rs THEN [AbsentRequest EXCEPT !.state = "due"] ELSE from[r]]

RegisterRequests(d, rs) ==
    /\ Granted(d, FALSE)
    /\ rs # {}
    /\ \A r \in rs : DocumentOf[r] = d
    /\ Registers(rs)
    /\ requests' = WithRequests(rs, requests)
    /\ UNCHANGED <<lease, windows, pages, outcomes, hosts, claimed>>

ClaimArtifactRequest(r) ==
    /\ requests[r].state = "due"
    /\ ~requests[r].waiting
    /\ ~requests[r].late
    /\ requests[r].attempts < AttemptLimit
    /\ HostFree(HostOf[r])
    /\ TakeSlot(HostOf[r])
    /\ requests' = [requests EXCEPT ![r] = [@ EXCEPT !.state = "leased",
                                                    !.holder = lease[DocumentOf[r]].fence]]

\* A deadline that passed during the wait for the host rolls the claim back.
ClaimRequest(r) ==
    /\ Granted(DocumentOf[r], FALSE)
    /\ ClaimArtifactRequest(r)
    /\ claimed' = [claimed EXCEPT ![r] = @ + 1]
    /\ UNCHANGED <<lease, windows, pages, outcomes>>

\* The state after a transport outcome.
Transported(r, success) ==
    IF success THEN "fetched"
    ELSE IF requests[r].attempts + 1 >= AttemptLimit \/ requests[r].late THEN "exhausted"
    ELSE "due"

\* Only the owner that claimed the request reports its outcome.
RecordArtifactTransport(r, success) ==
    /\ requests[r].state = "leased"
    /\ requests[r].holder = lease[DocumentOf[r]].fence
    /\ requests[r].attempts < AttemptLimit
    /\ requests' = [requests EXCEPT ![r] = [@ EXCEPT !.state = Transported(r, success),
                       !.attempts = @ + 1, !.captured = success, !.waiting = ~success]]
    /\ GiveBack(HostOf[r], 1, TRUE)

RecordTransport(r, success) ==
    /\ Granted(DocumentOf[r], FALSE)
    /\ RecordArtifactTransport(r, success)
    /\ UNCHANGED <<lease, windows, pages, outcomes, claimed>>

\* Abandoned by a replaced owner; a third loss is left to expiry.
RecoverArtifactRequest(r) ==
    /\ requests[r].state = "leased"
    /\ requests[r].infra < InfrastructureCap
    /\ requests[r].holder < lease[DocumentOf[r]].fence
    /\ requests' = [requests EXCEPT ![r] = [@ EXCEPT !.state = "due", !.infra = @ + 1]]
    /\ GiveBack(HostOf[r], 1, FALSE)

RecoverRequest(r) ==
    /\ Granted(DocumentOf[r], FALSE)
    /\ RecoverArtifactRequest(r)
    /\ UNCHANGED <<lease, windows, pages, outcomes, claimed>>

\* closeSourceRequest: the third claim may only be expired by a later owner.
CloseSourceRequest(r, state) ==
    /\ requests[r].state \in {"due", "leased", "fetched"}
    /\ state = "expired" /\ requests[r].state = "leased" /\ requests[r].infra = InfrastructureCap
         => requests[r].holder < lease[DocumentOf[r]].fence
    /\ requests' = [requests EXCEPT ![r].state = state]
    /\ GiveBack(HostOf[r], IF requests[r].state = "leased" THEN 1 ELSE 0, FALSE)
    /\ UNCHANGED <<lease, windows, pages, outcomes, claimed>>

ExpireRequest(r) == Granted(DocumentOf[r], TRUE) /\ CloseSourceRequest(r, "expired")

CloseRequest(r, state) ==
    /\ Granted(DocumentOf[r], TRUE)
    /\ state = "exhausted" =>
         /\ ~requests[r].captured
         /\ requests[r].attempts >= AttemptLimit \/ requests[r].late
    /\ CloseSourceRequest(r, state)

\* ApplyCapture verifies a fetched request; a detail may bring new requests.
ApplyCapture(r, rs) ==
    /\ Granted(DocumentOf[r], FALSE)
    /\ requests[r].state = "fetched"
    /\ \A q \in rs : DocumentOf[q] = DocumentOf[r] /\ WindowOf[q] = WindowOf[r]
    /\ rs # {} => Registers(rs)
    /\ requests' = WithRequests(rs, [requests EXCEPT ![r].state = "verified"])
    /\ UNCHANGED <<lease, windows, pages, outcomes, hosts, claimed>>

-----------------------------------------------------------------------------
(* The clock of the database *)

PassWindowDeadline(w) ==
    /\ "deadline" \in Clocks
    /\ ~windows[w].overdue
    /\ windows' = [windows EXCEPT ![w].overdue = TRUE]
    /\ UNCHANGED <<lease, pages, outcomes, hosts, requests, claimed>>

PassPageDeadline(w, n) ==
    /\ "retry" \in Clocks
    /\ pages[w][n].state = "requested"
    /\ ~pages[w][n].late
    /\ pages' = [pages EXCEPT ![w][n].late = TRUE]
    /\ UNCHANGED <<lease, windows, outcomes, hosts, requests, claimed>>

PassRequestDeadline(r) ==
    /\ "retry" \in Clocks
    /\ requests[r].state # "absent"
    /\ ~requests[r].late
    /\ requests' = [requests EXCEPT ![r].late = TRUE]
    /\ UNCHANGED <<lease, windows, pages, outcomes, hosts, claimed>>

PassWindowBackoff(w) ==
    /\ windows[w].waiting
    /\ windows' = [windows EXCEPT ![w].waiting = FALSE]
    /\ UNCHANGED <<lease, pages, outcomes, hosts, requests, claimed>>

PassRequestBackoff(r) ==
    /\ requests[r].waiting
    /\ requests' = [requests EXCEPT ![r].waiting = FALSE]
    /\ UNCHANGED <<lease, windows, pages, outcomes, hosts, claimed>>

PassPacing(h) ==
    /\ hosts[h].cooling
    /\ hosts' = [hosts EXCEPT ![h].cooling = FALSE]
    /\ UNCHANGED <<lease, windows, pages, outcomes, requests, claimed>>

-----------------------------------------------------------------------------
LeaseStep == \E s \in Subjects : ReclaimLease(s) \/ CancelLease(s)

OutcomeStep(w, n) ==
    \E k \in 1..pages[w][n].ordinal :
        \/ RecordPageCapture(w, n, k)
        \/ RecordPageRetry(w, n, k)
        \/ RecordPageFailure(w, n, k)

PageStep(w, n) ==
    \/ RegisterPage(w, n)
    \/ ClaimPage(w, n)
    \/ RecoverPage(w, n)
    \/ OutcomeStep(w, n)
    \/ \E c \in Contents : RecordPageDecode(w, n, c)
    \/ ApplyDiscoveryPage(w, n)
    \/ CloseWindowPage(w, n)
    \/ TransferLaunch(w, n)
    \/ \E control \in BOOLEAN : AcknowledgeLaunch(w, n, control)
    \/ PassPageDeadline(w, n)

WindowStep(w) ==
    \/ OpenWindow(w)
    \/ ReconcileWindow(w)
    \/ CloseWindow(w)
    \/ ResumeWindow(w)
    \/ PassWindowDeadline(w)
    \/ PassWindowBackoff(w)

RequestStep(r) ==
    \/ ClaimRequest(r)
    \/ \E success \in BOOLEAN : RecordTransport(r, success)
    \/ RecoverRequest(r)
    \/ ExpireRequest(r)
    \/ \E state \in {"failed", "exhausted"} : CloseRequest(r, state)
    \/ \E rs \in SUBSET Requests : ApplyCapture(r, rs)
    \/ PassRequestDeadline(r)
    \/ PassRequestBackoff(r)

Next ==
    \/ LeaseStep
    \/ \E w \in Windows : WindowStep(w)
    \/ \E w \in Windows, n \in Ordinals : PageStep(w, n)
    \/ \E d \in Documents, rs \in SUBSET Requests : RegisterRequests(d, rs)
    \/ \E r \in Requests : RequestStep(r)
    \/ \E h \in Hosts : RegisterHost(h) \/ PassPacing(h)

Spec == Init /\ [][Next]_vars

-----------------------------------------------------------------------------
(* Properties *)

Page == [state : {"absent", "accepted", "failed"} \cup PendingStates,
         claim : {"none", "issued", "released", "settled"},
         ordinal : 0..(AttemptLimit + InfrastructureCap), infra : 0..InfrastructureCap,
         attempts : 0..AttemptLimit, holder : 0..MaxFence, late : BOOLEAN,
         parent : Ordinals \cup {NoOrdinal}, content : Contents \cup {Nothing},
         launch : {"none", "pending", "acknowledged"}, transferred : BOOLEAN]

\* Type correctness. The bound on a page's claim ordinal is the fetch budget of
\* ClaimPage: at most source_attempt_limit fetches that count and three more
\* after lost workers, whatever is closed, resumed or taken over in between.
TypeOK ==
    /\ lease \in [Subjects -> [fence : 1..MaxFence, cancelled : BOOLEAN]]
    /\ windows \in [Windows -> [state : {"absent", "complete", "failed"} \cup OpenStates,
                                reason : Reasons, overdue : BOOLEAN, waiting : BOOLEAN]]
    /\ pages \in [Windows -> [Ordinals -> Page]]
    /\ outcomes \in [Windows -> [Ordinals -> SUBSET (1..(AttemptLimit + InfrastructureCap))]]
    /\ hosts \in [Hosts -> [known : BOOLEAN, inFlight : 0..MaxInFlight, cooling : BOOLEAN]]
    /\ requests \in [Requests -> [state : {"absent", "due", "leased", "fetched", "verified",
                                           "exhausted", "failed", "expired"},
                        infra : 0..InfrastructureCap, attempts : 0..AttemptLimit,
                        holder : 0..MaxFence, captured : BOOLEAN, late : BOOLEAN, waiting : BOOLEAN]]
    /\ claimed \in [Requests -> 0..(AttemptLimit + InfrastructureCap)]

IssuedOn(h) == {x \in Windows \X Ordinals : HostOf[x[1]] = h /\ pages[x[1]][x[2]].claim = "issued"}
LeasedOn(h) == {r \in Requests : HostOf[r] = h /\ requests[r].state = "leased"}

\* in_flight of a host is exactly the number of page claims and request leases
\* that own a slot of it: no closure, recovery, late outcome or repetition of
\* releaseDiscoveryHost or ReleaseClosedRequestHost frees a slot twice or loses one.
SlotsAccounted ==
    \A h \in Hosts : hosts[h].inFlight = Cardinality(IssuedOn(h)) + Cardinality(LeasedOn(h))

\* The claim marker and the receipts agree: each recorded outcome counted one
\* attempt, a settled page was settled by its latest claim, and the latest claim
\* of an issued or released page is still without outcome (requireDiscoveryClaim).
MarkersMatchReceipts ==
    \A w \in Windows, n \in Ordinals :
        LET p == pages[w][n]
        IN  /\ p.attempts = Cardinality(outcomes[w][n])
            /\ p.claim = "settled" => p.ordinal \in outcomes[w][n]
            /\ p.claim \in {"issued", "released"} => p.ordinal \notin outcomes[w][n]

\* reconcileSourceWindow completes a window only when nothing of it is left: all
\* pages accepted without gap or finding, every continuation and listing
\* followed, every detail launch acknowledged.
CompleteAccounted ==
    \A w \in Windows : windows[w].state = "complete" =>
        /\ Registered(w) # {}
        /\ \A n \in Registered(w) :
             LET p == pages[w][n]
             IN  /\ p.state = "accepted"
                 /\ 0..n \subseteq Registered(w)
                 /\ ~p.content.findings
                 /\ p.content.detail => p.launch = "acknowledged"
                 /\ p.content.next # "last" =>
                      \E m \in Registered(w) : m > n /\ pages[w][m].parent = n

\* A window that is incomplete, complete or failed holds no slot of its host,
\* and a failed one has no page that is still worked on (closeDiscoveryClaims).
ClosedHoldsNothing ==
    \A w \in Windows :
        /\ windows[w].state \in {"incomplete", "complete", "failed"} => Issued(pages[w]) = {}
        /\ windows[w].state = "failed" => \A n \in Ordinals : pages[w][n].state \notin PendingStates

\* A complete or failed window and the states of its pages never change again,
\* although launches of it are still acknowledged and its clocks still pass.
WindowFinalStep ==
    \A w \in Windows : windows[w].state \in {"complete", "failed"} =>
        /\ windows'[w].state = windows[w].state
        /\ \A n \in Ordinals : pages'[w][n].state = pages[w][n].state
WindowFinal == [][WindowFinalStep]_vars

\* A captured artifact is never fetched again and an ended request never
\* reopens: from fetched a request is only verified, expired or failed.
RequestFinalStep ==
    \A r \in Requests : requests'[r].state # requests[r].state =>
        \/ requests[r].state \in {"absent", "due", "leased"}
        \/ requests[r].state = "fetched" /\ requests'[r].state \in {"verified", "expired", "failed"}
RequestFinal == [][RequestFinalStep]_vars

=============================================================================
