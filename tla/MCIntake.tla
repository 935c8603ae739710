---------------------------------- MODULE MCIntake ----------------------------------
(***************************************************************************)
(* Small instances of the intake store: the ledger in three scopes, the    *)
(* source windows and requests, the order of their row locks, and the      *)
(* acceptance of document revisions.  A behaviour is one case: one         *)
(* component runs in one instance and the others stay where they are.      *)
(***************************************************************************)
EXTENDS IntakeLedger, Sequences, TLC

CONSTANTS Cases, o1, o2, r1, r2, a1, t1, c1, c2, w1

VARIABLES case,
  windowLease, windows, pages, outcomes, hosts, requests, claimed, holder, phase, todo, lockPages,
  versionLease, grant, catalogue, edges, evidence, jobResults, jobEvents, permits, jobId, tx

suite == <<case,
  windowLease, windows, pages, outcomes, hosts, requests, claimed, holder, phase, todo, lockPages,
  versionLease, grant, catalogue, edges, evidence, jobResults, jobEvents, permits, jobId, tx>>
suiteVars == <<vars, suite>>

Off == "off"  \* the variables of the components a case leaves alone

(***************************************************************************)
(* The ledger's scopes, each small enough to be searched to its end.       *)
(***************************************************************************)
OneWriter == [o \in Owners |-> w1]
Content(state) == [acceptance |-> state, output |-> 1]
AllContents == {Content("none"), Content("accepted"), Content("quarantined"), Content("accepted_with_gaps")}
AcceptedOnly == {Content("accepted")}

InUse == {c \in Calls : req[c] # NoRequest}
Asks(states) == \A c \in InUse : Acceptance(req[c]) \in states
Held(resources, owners, fences) ==
    /\ \A g \in grants : g.resource \in resources /\ g.owner \in owners /\ g.fence \in fences
    /\ decisions = {} /\ \A r \in resources : lease[r].expires <= now + 1 /\ lease[r].eligible <= now + 1

\* Two workers compete for one resource across a rotation of the admission.
InFencing == Held({r1}, Owners, 1..2) /\ now <= 1 /\ nextId <= 2 /\ Asks({"none", "accepted"})
\* Two resources compete for the acceptance of one attempt.
InAcceptance ==
    Held(Resources, {o1}, {1}) /\ admission.epoch = 1 /\ now = 0 /\ Asks({"accepted", "quarantined"})
\* Decisions that expire while their execution is reclaimed.
InDecisions ==
    /\ \A g \in grants : g.resource = r1 /\ g.owner = o1
    /\ admission.epoch = 1 /\ Cardinality(InUse) <= 1 /\ nextId <= 1 /\ now <= 1 /\ Asks({"accepted_with_gaps"})

Symmetric == Permutations(Calls)

-------------------------------------------------------------------------------
(* Windows, pages, hosts and artifact requests. *)
Map(keys, value) == [k \in keys |-> value]
Identity == [r \in {"r1", "r2"} |-> IF r = "r1" THEN "a" ELSE "b"]

Page(next, findings, detail) == [next |-> next, findings |-> findings, detail |-> detail]
PlainPage == {Page("last", FALSE, FALSE)}
Listings == PlainPage \cup {Page("last", TRUE, FALSE), Page("last", FALSE, TRUE),
                            Page("continuation", FALSE, FALSE), Page("listing", FALSE, TRUE)}

Slots == INSTANCE Sources WITH
  Windows <- {"w1","w2"}, Documents <- {}, Requests <- {}, Hosts <- {"h1"},
  HostOf <- Map({"w1", "w2"}, "h1"), WindowOf <- Map({}, "w1"), DocumentOf <- Map({}, "d1"),
  IdentityOf <- Map({}, "a"), Contents <- PlainPage, PageBudget <- 1, RequestBudget <- 1,
  AttemptLimit <- 1, MaxInFlight <- 2, MaxFence <- 2, Clocks <- {}, lease <- windowLease
Claims == INSTANCE Sources WITH
  Windows <- {"w1"}, Documents <- {}, Requests <- {}, Hosts <- {"h1"}, HostOf <- Map({"w1"}, "h1"),
  WindowOf <- Map({}, "w1"), DocumentOf <- Map({}, "d1"), IdentityOf <- Map({}, "a"),
  Contents <- PlainPage, PageBudget <- 1, RequestBudget <- 1, AttemptLimit <- 2, MaxInFlight <- 1,
  MaxFence <- 3, Clocks <- {"deadline","retry","cancel"}, lease <- windowLease
Listed == INSTANCE Sources WITH
  Windows <- {"w1"}, Documents <- {}, Requests <- {}, Hosts <- {"h1"}, HostOf <- Map({"w1"}, "h1"),
  WindowOf <- Map({}, "w1"), DocumentOf <- Map({}, "d1"), IdentityOf <- Map({}, "a"),
  Contents <- Listings, PageBudget <- 2, RequestBudget <- 1, AttemptLimit <- 1, MaxInFlight <- 2,
  MaxFence <- 1, Clocks <- {"deadline"}, lease <- windowLease
Requested == INSTANCE Sources WITH
  Windows <- {"w1"}, Documents <- {"d1"}, Requests <- {"r1","r2"}, Hosts <- {"h1"},
  HostOf <- Map({"w1", "r1", "r2"}, "h1"), WindowOf <- Map({"r1", "r2"}, "w1"),
  DocumentOf <- Map({"r1", "r2"}, "d1"), IdentityOf <- Identity, Contents <- PlainPage,
  PageBudget <- 1, RequestBudget <- 2, AttemptLimit <- 1, MaxInFlight <- 1, MaxFence <- 2,
  Clocks <- {}, lease <- windowLease

RestSources == UNCHANGED <<case, vars, holder, phase, todo, lockPages, versionLease, grant, catalogue, edges, evidence,
  jobResults, jobEvents, permits, jobId, tx>>
IdleSources ==
  /\ holder = Off /\ phase = Off /\ todo = Off /\ lockPages = Off /\ versionLease = Off
  /\ grant = Off /\ catalogue = Off /\ edges = Off /\ evidence = Off /\ jobResults = Off
  /\ jobEvents = Off /\ permits = Off /\ jobId = Off /\ tx = Off
  /\ Init

-------------------------------------------------------------------------------
(* The order in which transactions lock rows. *)
J(row, windowRows, hostRows, requestRows, blobRows, adds) ==
    [lease |-> row, windows |-> windowRows, hosts |-> hostRows, requests |-> requestRows,
     blobs |-> blobRows, adds |-> adds]

\* A page registration, a document with requests of two windows, the acceptance
\* of a page, and a control acknowledgement, on two windows and two hosts.
Transactions == {"page", "document", "accept", "control"}
LockJob ==
    [t \in Transactions |->
        CASE t = "page" -> J(1, {1}, {2}, {}, {}, {<<1, 1, 2>>})
          [] t = "document" -> J(2, {1, 2}, {1, 2}, {1}, {1, 2}, {})
          [] t = "accept" -> J(3, {2}, {}, {}, {1, 2}, {})
          [] t = "control" -> J(4, {2}, {}, {}, {}, {})]

Locks == INSTANCE SourceLocks WITH
  Txs <- Transactions, Job <- LockJob, FirstPages <- {<<2, 1, 1>>, <<1, 2, 1>>, <<3, 2, 2>>},
  pages <- lockPages

RestLocks == UNCHANGED <<case, vars, windowLease, windows, pages, outcomes, hosts, requests, claimed, versionLease, grant,
  catalogue, edges, evidence, jobResults, jobEvents, permits, jobId, tx>>
IdleLocks ==
  /\ windowLease = Off /\ windows = Off /\ pages = Off /\ outcomes = Off /\ hosts = Off
  /\ requests = Off /\ claimed = Off /\ versionLease = Off /\ grant = Off /\ catalogue = Off
  /\ edges = Off /\ evidence = Off /\ jobResults = Off /\ jobEvents = Off /\ permits = Off
  /\ jobId = Off /\ tx = Off
  /\ Init

-------------------------------------------------------------------------------
(* Acceptance of revisions against the baseline, the catalogue and replays. *)
Registers(key, blobs) ==
    [kind |-> "register", key |-> key, blobs |-> blobs, identity |-> "", revision |-> "", attempt |-> "",
     digest |-> "", state |-> "", outcome |-> "", decision |-> FALSE, gaps |-> 0]
Captures(b) == [Registers("capture", {b}) EXCEPT !.kind = "capture"]
Applies(rev, attempt, digest, state, blobs) ==
    [Registers(rev \o attempt \o (IF state \in {"candidate", "quarantined"} THEN state ELSE "acceptance"), blobs)
        EXCEPT !.kind = "apply", !.identity = "doc", !.revision = rev, !.attempt = attempt, !.digest = digest,
               !.state = state, !.outcome = IF state \in {"candidate", "excluded"} THEN "quarantined" ELSE state]
Decided(job) == [job EXCEPT !.decision = TRUE, !.gaps = 1]

Versions2 == [w \in {"w1", "w2", "w3"} |-> IF w = "w2" THEN "v2" ELSE "v1"]

\* Two versions of one document race for its baseline.
BaselineJobs == [w \in {"w1", "w2"} |->
    IF w = "w2" THEN {Applies("r2", "b", "d2", "accepted", {1, 2}), Decided(Applies("r2", "b", "d2", "accepted_with_gaps", {1, 2}))}
    ELSE {Applies("r1", "a", "d1", "accepted", {1, 2}), Applies("r1", "a", "d1", "quarantined", {1})}]
\* One attempt through its dispositions, replayed by the worker's successor.
AttemptJobs == [w \in {"w1", "w3"} |->
    {Applies("r1", "a", "d1", "quarantined", {1}), Decided(Applies("r1", "a", "d1", "accepted_with_gaps", {1})),
     Decided(Applies("r1", "a", "d1", "excluded", {1}))}]
\* Registrations, captures and an acceptance share blobs.
SharedJobs == [w \in {"w1", "w2"} |->
    IF w = "w2" THEN {Registers("m2", {1, 2}), Captures(2)}
    ELSE {Registers("m1", {1, 2}), Registers("m1", {2}), Applies("r1", "a", "d1", "accepted", {1, 2})}]
WaitingJobs == [w \in {"w1", "w2"} |->
    IF w = "w2" THEN {Registers("m2", {1, 2})} ELSE {Applies("r1", "a", "d1", "accepted", {1, 2})}]

Baseline == INSTANCE Acceptance WITH
  Workers <- {"w1", "w2"}, VersionOf <- Versions2, JobsOf <- BaselineJobs, Blobs <- {1, 2},
  Preset <- {"d1", "d2"}, MaxFence <- 2, MaxJobs <- 2, lease <- versionLease, results <- jobResults,
  events <- jobEvents, nextId <- jobId
Replayed == INSTANCE Acceptance WITH
  Workers <- {"w1", "w3"}, VersionOf <- Versions2, JobsOf <- AttemptJobs, Blobs <- {1},
  Preset <- {"d1"}, MaxFence <- 2, MaxJobs <- 3, lease <- versionLease, results <- jobResults,
  events <- jobEvents, nextId <- jobId
Shared == INSTANCE Acceptance WITH
  Workers <- {"w1", "w2"}, VersionOf <- Versions2, JobsOf <- SharedJobs, Blobs <- {1, 2},
  Preset <- {}, MaxFence <- 2, MaxJobs <- 1, lease <- versionLease, results <- jobResults,
  events <- jobEvents, nextId <- jobId
Waiting == INSTANCE Acceptance WITH
  Workers <- {"w1", "w2"}, VersionOf <- Versions2, JobsOf <- WaitingJobs, Blobs <- {1, 2},
  Preset <- {"d1"}, MaxFence <- 2, MaxJobs <- 1, lease <- versionLease, results <- jobResults,
  events <- jobEvents, nextId <- jobId

RestAcceptance == UNCHANGED <<case, vars, windowLease, windows, pages, outcomes, hosts, requests, claimed, holder, phase, todo,
  lockPages>>
IdleAcceptance ==
  /\ windowLease = Off /\ windows = Off /\ pages = Off /\ outcomes = Off /\ hosts = Off
  /\ requests = Off /\ claimed = Off /\ holder = Off /\ phase = Off /\ todo = Off /\ lockPages = Off
  /\ Init

-------------------------------------------------------------------------------
SuiteInit ==
  /\ case \in Cases
  /\ \/ /\ Init /\ case \in {"fencing", "acceptance", "decisions", "call"}
        /\ windowLease = Off /\ windows = Off /\ pages = Off /\ outcomes = Off /\ hosts = Off
        /\ requests = Off /\ claimed = Off /\ holder = Off /\ phase = Off /\ todo = Off
        /\ lockPages = Off /\ versionLease = Off /\ grant = Off /\ catalogue = Off /\ edges = Off
        /\ evidence = Off /\ jobResults = Off /\ jobEvents = Off /\ permits = Off /\ jobId = Off
        /\ tx = Off
     \/ /\ IdleSources
        /\ \/ case = "slots" /\ Slots!Init
           \/ case = "claims" /\ Claims!Init
           \/ case = "windows" /\ Listed!Init
           \/ case = "requests" /\ Requested!Init
     \/ case = "locks" /\ Locks!LocksInit /\ IdleLocks
     \/ /\ IdleAcceptance
        /\ \/ case = "baseline" /\ Baseline!Init
           \/ case = "replay" /\ Replayed!Init
           \/ case = "shared" /\ Shared!Init
           \/ case = "waiting" /\ Waiting!Init

SuiteNext ==
  \/ case = "fencing" /\ Next /\ InFencing' /\ UNCHANGED suite
  \/ case = "acceptance" /\ Next /\ InAcceptance' /\ UNCHANGED suite
  \/ case = "decisions" /\ Next /\ InDecisions' /\ UNCHANGED suite
  \/ case = "call" /\ Next /\ UNCHANGED suite
  \/ case = "slots" /\ Slots!Next /\ RestSources
  \/ case = "claims" /\ Claims!Next /\ RestSources
  \/ case = "windows" /\ Listed!Next /\ RestSources
  \/ case = "requests" /\ Requested!Next /\ RestSources
  \/ case = "locks" /\ Locks!LocksNext /\ RestLocks
  \/ case = "baseline" /\ Baseline!Next /\ RestAcceptance
  \/ case = "replay" /\ Replayed!Next /\ RestAcceptance
  \/ case = "shared" /\ Shared!Next /\ RestAcceptance
  \/ case = "waiting" /\ Waiting!Next /\ RestAcceptance

SuiteSpec == SuiteInit /\ [][SuiteNext]_suiteVars

\* The assumptions of the components hold in every instance.
ASSUME InstancesAssumption ==
    /\ Slots!SourcesAssumption /\ Claims!SourcesAssumption /\ Listed!SourcesAssumption
    /\ Requested!SourcesAssumption /\ Locks!JobAssumption

(***************************************************************************)
(* Properties: those of IntakeLedger under their own names, and            *)
(***************************************************************************)

\* The intake of a source keeps its books: a host's in_flight counter is the number of
\* claims and requests that own a slot of it (releaseDiscoveryHost), the claim marker of
\* a page agrees with the recorded outcomes of its claims (requireDiscoveryClaim), a
\* closed window holds no slot and works on no page (closeDiscoveryClaims), a window
\* completes only when everything it listed was followed (reconcileSourceWindow), and in
\* its body a transaction holds every page and host of the windows it locked, and no
\* group of transactions waits for itself (prelockSourceAccounting).
SourcesAccounted ==
    CASE case = "slots" -> Slots!SlotsAccounted
      [] case = "claims" -> Claims!TypeOK /\ Claims!MarkersMatchReceipts /\ Claims!ClosedHoldsNothing
      [] case = "windows" -> Listed!CompleteAccounted
      [] case = "requests" -> Requested!TypeOK /\ Requested!SlotsAccounted
      [] case = "locks" -> Locks!LocksOrdered
      [] OTHER -> TRUE

\* What ended stays ended: an ended window and the states of its pages never change
\* again, a captured artifact is never fetched again and an ended request never reopens
\* (sources_transitions.go).
EndedIsFinal ==
    [][/\ case = "windows" => Listed!WindowFinalStep
       /\ case = "requests" => Requested!RequestFinalStep]_suite

\* A document identity has one accepted baseline, whichever versions race for it
\* (lockAcceptance, validateBaseline); an accepted revision has its evidence and its
\* objects in the catalogue; a replayed job is answered with the rows its first execution
\* committed.
AcceptanceSound ==
    CASE case = "baseline" -> Baseline!OneBaseline /\ Baseline!AcceptedComplete
      [] case = "replay" -> Replayed!ReplaysAnswered
      [] case = "shared" -> Shared!TypeOK
      [] OTHER -> TRUE

(***************************************************************************)
(* Liveness: the calls of the ledger, the source transactions and the      *)
(* acceptance jobs end.  A running statement ends, and PostgreSQL hands a  *)
(* row lock that becomes free again and again to the one that waits.       *)
(***************************************************************************)
Call == <<c1, c2>>
Worker == <<"w1", "w2">>

Runs(n) ==
    \/ /\ case = "call"
       /\ ApplyResolve(Call[n]) \/ ApplyWrite(Call[n]) \/ ApplyCheck(Call[n]) \/ ApplyCommit(Call[n])
       /\ UNCHANGED suite
    \/ /\ case = "waiting"
       /\ \/ Waiting!FindResult(Worker[n]) \/ Waiting!FinishRegistration(Worker[n])
          \/ Waiting!Validate(Worker[n]) \/ Waiting!RecordAcceptance(Worker[n])
       /\ RestAcceptance

TakesLock(n) ==
    \/ /\ case = "call"
       /\ ApplyLockLease(Call[n]) \/ ApplyLockAcceptance(Call[n])
       /\ UNCHANGED suite
    \/ /\ case = "waiting"
       /\ \/ Waiting!LockLease(Worker[n]) \/ Waiting!AcquireBlobCatalogGuard(Worker[n])
          \/ Waiting!LockCatalogBlob(Worker[n]) \/ Waiting!InsertCatalogBlob(Worker[n])
          \/ Waiting!LockAcceptanceKey(Worker[n])
       /\ RestAcceptance

LiveSpec ==
    /\ SuiteSpec
    /\ \A n \in 1..2 : WF_suiteVars(Runs(n)) /\ SF_suiteVars(TakesLock(n))
    /\ \A t \in Transactions : WF_suiteVars(case = "locks" /\ Locks!Step(t) /\ RestLocks)

InCall(n) ==
    CASE case = "call" -> n \in 1..2 /\ Running(Call[n])
      [] case = "waiting" -> n \in 1..2 /\ tx[Worker[n]].pc # "idle"
      [] case = "locks" -> phase[<<"page", "document", "accept", "control">>[n]] # Locks!Ended

\* Every Apply, every source transaction and every acceptance job ends, however their
\* lock waits interleave: nobody waits for a circle of others.
TransactionsEnd == \A n \in 1..4 : InCall(n) ~> ~InCall(n)
===============================================================================
