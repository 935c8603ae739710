-------------------------------- MODULE MCDocuments --------------------------------
(***************************************************************************)
(* Small instances of the document side: admission to capacity slots in    *)
(* three scopes, the workflow of one document with its control sweep, and  *)
(* the document store under racing callers.  A behaviour is one case.      *)
(***************************************************************************)
EXTENDS DocumentAdmission

CONSTANTS Cases

VARIABLES case,
  wfSlot, wfReceipts, wfEvents, aged, wfLease, wfAcked, cp, wf, act, inbox, ctl, faults, gated,
  rows, nextId, storeLease, grant, storeEpoch, catalogued, accepted, tx, pages

suite == <<case,
  wfSlot, wfReceipts, wfEvents, aged, wfLease, wfAcked, cp, wf, act, inbox, ctl, faults, gated,
  rows, nextId, storeLease, grant, storeEpoch, catalogued, accepted, tx, pages>>
suiteVars == <<vars, suite>>

Off == "off"  \* the variables of the components a case leaves alone

(***************************************************************************)
(* The scopes of admission: deliveries 1 and 2 launch one version.         *)
(***************************************************************************)
FourDeliveries == 1..4
SharedVersion == [d \in 1..4 |-> <<"v1", "v1", "v2", "v3">>[d]]
OneDelivery == 1..1
OneVersion == [d \in 1..1 |-> "v1"]
Narrow == [processing |-> 1, open |-> 1]
Medium == [processing |-> 1, open |-> 2]
AllLimits == {Narrow, Medium, [processing |-> 1, open |-> 3], [processing |-> 2, open |-> 2]}
NarrowLimits == {Narrow}

OnlyOf(deliveries) ==
    /\ acked \subseteq deliveries /\ withdrawn \subseteq deliveries
    /\ \A d \in Deliveries \ deliveries : slot[d].state = "none"
    /\ \A v \in Versions \ {Version[d] : d \in deliveries} : lease[v].fence = 0

\* The whole life of one delivery's slot.
InSlot == due <= 1 /\ OnlyOf({1}) /\ limits.open \in {0, 1}
\* Two attempts of one version.
SameVersion == INSTANCE DocumentAdmission WITH Environment <- {"expire", "terminate", "observe"}
InVersions == due <= 2 /\ OnlyOf({1, 2}) /\ (limits.revision > 0 => limits.processing = 1 /\ limits.open = 2)
\* Three documents compete for capacity; the first delivery is withdrawn.
Competing == INSTANCE DocumentAdmission WITH Environment <- {"withdraw"}, MaxFence <- 1
InQueues ==
    /\ due > 0 => 1 \in withdrawn
    /\ withdrawn \subseteq {1, 2} /\ (due < 2 => withdrawn \subseteq {1}) /\ lease["v1"].fence <= 1
    /\ limits.revision > 0 => limits.open > 1 /\ (limits.processing = 1 => limits.open = 3)
    /\ limits.processing = 2 => lease["v3"].fence = 0

-------------------------------------------------------------------------------
(* One document under its workflow, its activities and the control sweep. *)
Workflow == INSTANCE DocumentWorkflow WITH
  Environment <- {"control", "crash", "expire", "detour"}, MaxTries <- 3, MaxFaults <- 1,
  MaxEvents <- 1, MaxRevision <- 12, slot <- wfSlot, events <- wfEvents, lease <- wfLease,
  acked <- wfAcked, receipts <- wfReceipts
Decisions == INSTANCE DocumentWorkflow WITH
  Environment <- {"crash", "decide", "wait"}, MaxTries <- 3, MaxFaults <- 1, MaxEvents <- 2,
  MaxRevision <- 14, slot <- wfSlot, events <- wfEvents, lease <- wfLease, acked <- wfAcked,
  receipts <- wfReceipts
Returned == INSTANCE DocumentWorkflow WITH
  Environment <- {"control", "crash"}, MaxTries <- 2, MaxFaults <- 1, MaxEvents <- 1,
  MaxRevision <- 12, slot <- wfSlot, events <- wfEvents, lease <- wfLease, acked <- wfAcked,
  receipts <- wfReceipts
Stopped == INSTANCE DocumentWorkflow WITH
  Environment <- {"control", "cancel"}, MaxTries <- 3, MaxFaults <- 0, MaxEvents <- 1,
  MaxRevision <- 12, slot <- wfSlot, events <- wfEvents, lease <- wfLease, acked <- wfAcked,
  receipts <- wfReceipts

RestWorkflow == UNCHANGED <<case, vars, rows, nextId, storeLease, grant, storeEpoch, catalogued, accepted, tx, pages>>
IdleWorkflow ==
  /\ rows = Off /\ nextId = Off /\ storeLease = Off /\ grant = Off /\ storeEpoch = Off
  /\ catalogued = Off /\ accepted = Off /\ tx = Off /\ pages = Off
  /\ Init

-------------------------------------------------------------------------------
(* The document store: callers of two versions, c1 and c3 of v1 and c2 of v2. *)
StoreRow(table, parent, key, place, value) ==
    [table |-> table, parent |-> parent, key |-> key, place |-> place, value |-> value]

CallOf(kind, parent, obs, items) ==
    [kind |-> kind, parent |-> parent, obs |-> obs, items |-> items, blobs |-> {}, prior |-> "", digest |-> "", mark |-> 0]

Mint(key, obs) == CallOf("mint", "", obs,
    {StoreRow("identity", "", key, 0, obs), StoreRow("assertion", key, obs, 0, "observed")})
Asserts(key, obs, kind) == CallOf("assertion", "", obs, {StoreRow("assertion", key, obs, 0, kind)})
Mapping(key, value) == CallOf("mapping", "", "", {StoreRow("mapping", "", key, 0, value)})
Revision(id, key, value) == CallOf("revision", id, "", {StoreRow("revision", id, key, 0, value)})
Provisions(rev, items) ==
    CallOf("provisions", rev, "", {StoreRow("provision", rev, i[1], i[2], i[3]) : i \in items})
Segments(rev, n) ==
    [CallOf("segments", rev, "", {StoreRow("segment", rev, "s1", 1, "m"), StoreRow("segment", rev, "s2", 2, n)})
        EXCEPT !.blobs = {"b"}]
Artifact(rev, value) ==
    [CallOf("artifact", rev, "", {StoreRow("artifact", rev, "text", 0, value)}) EXCEPT !.blobs = {"b"}]
Edit(rev, value) == [CallOf("edit", rev, "", {StoreRow("edit", rev, "e1", 0, value)}) EXCEPT !.blobs = {"b"}]
Report(rev, digest, value) == [CallOf("report", rev, "",
    {StoreRow("report", rev, digest, 0, value), StoreRow("finding", rev, digest, 0, value)}) EXCEPT !.digest = digest]
Comparison(rev, prior, digest, mark) == [CallOf("comparison", rev, "",
    {StoreRow("comparison", rev, digest, mark, prior)}) EXCEPT !.prior = prior, !.digest = digest, !.mark = mark]

StoreCallers == {"c1", "c2", "c3"}
Identities == [k \in {"r1", "r2", ""} |-> IF k = "" THEN "" ELSE "k1"]
Observed == [o \in {"o1", "o2", ""} |-> IF o = "" THEN "" ELSE "v1"]
ObservedMints == [o \in {"o1", "o2"} |-> IF o = "o1" THEN "v1" ELSE "v2"]
TwoVersions == [c \in StoreCallers |-> IF c = "c2" THEN "v2" ELSE "v1"]

NothingStored == {}
IdentityStored == {StoreRow("identity", "", "k1", 0, "o1"), StoreRow("assertion", "k1", "o1", 0, "observed")}
RevisionStored == IdentityStored \cup {StoreRow("revision", "k1", "r1", 0, "x")}
ReportStoredFirst ==
    RevisionStored \cup {StoreRow("report", "r1", "d1", 0, "x"), StoreRow("finding", "r1", "d1", 0, "x")}

\* Mints race on one observation and on one proposed key.
MintCalls == [c \in StoreCallers |-> IF c = "c2" THEN {Mint("k1", "o2")} ELSE {Mint("k1", "o1"), Mint("k3", "o1")}]
\* Revisions of one key by two versions, with mappings and assertions.
RevisionCalls == [c \in StoreCallers |->
    IF c = "c2" THEN {Revision("k1", "r1", "y"), Mapping("l1", "y")}
    ELSE {Revision("k1", "r1", "x"), Mapping("l1", "x"), Asserts("k1", "o1", "continuity")}]
\* Batches of one version that overlap, and their paged reads.
BatchCalls == [c \in StoreCallers |->
    {Provisions("r1", {<<"a", 1, "x">>}), Provisions("r1", {<<"a", 1, "x">>, <<"b", 1, "x">>}),
     Provisions("r1", {<<"a", 1, "x">>, <<"b", 2, "x">>}),
     [Provisions("r1", {<<"c", 2, "x">>}) EXCEPT !.obs = "o1"], Segments("r1", "m"), Segments("r1", "n"),
     Artifact("r1", "x"), Artifact("r1", "y"), Edit("r1", "x")}]
\* Reports that race for one key, and comparisons against them.
ReportCalls == [c \in StoreCallers |->
    IF c = "c2" THEN {Report("r2", "d2", "x"), Report("r2", "d1", "y"), Comparison("r2", "d1", "d2", 1)}
    ELSE {Report("r2", "d2", "x"), Report("r1", "d1", "x"), Comparison("r2", "d1", "d2", 0)}]
WaitingCalls == [c \in StoreCallers |->
    IF c = "c2" THEN {Report("r2", "d2", "x")} ELSE {Report("r2", "d2", "x"), Comparison("r2", "d1", "d2", 0)}]

Mints == INSTANCE DocumentStore WITH
  Callers <- {"c1", "c2", "c3"}, VersionOf <- TwoVersions, CallsOf <- MintCalls,
  ObservedBy <- ObservedMints, Blobs <- {}, IdentityOf <- Identities, Stored <- NothingStored,
  MaxItems <- 2, MaxFence <- 3, MaxEpoch <- 1, MaxAccepted <- 0, MaxCalls <- 1, MaxPages <- 0,
  lease <- storeLease, epoch <- storeEpoch
RevisionRaces == INSTANCE DocumentStore WITH
  Callers <- {"c1", "c2"}, VersionOf <- TwoVersions, CallsOf <- RevisionCalls,
  ObservedBy <- Observed, Blobs <- {"b"}, IdentityOf <- Identities, Stored <- IdentityStored,
  MaxItems <- 2, MaxFence <- 2, MaxEpoch <- 1, MaxAccepted <- 0, MaxCalls <- 1, MaxPages <- 0,
  lease <- storeLease, epoch <- storeEpoch
Batches == INSTANCE DocumentStore WITH
  Callers <- {"c1", "c3"}, VersionOf <- TwoVersions, CallsOf <- BatchCalls, ObservedBy <- Observed,
  Blobs <- {"b"}, IdentityOf <- Identities, Stored <- RevisionStored, MaxItems <- 2, MaxFence <- 2,
  MaxEpoch <- 2, MaxAccepted <- 0, MaxCalls <- 1, MaxPages <- 3, lease <- storeLease,
  epoch <- storeEpoch
Reports == INSTANCE DocumentStore WITH
  Callers <- {"c1", "c2"}, VersionOf <- TwoVersions, CallsOf <- ReportCalls, ObservedBy <- Observed,
  Blobs <- {"b"}, IdentityOf <- Identities, Stored <- ReportStoredFirst, MaxItems <- 2,
  MaxFence <- 2, MaxEpoch <- 1, MaxAccepted <- 0, MaxCalls <- 1, MaxPages <- 0, lease <- storeLease,
  epoch <- storeEpoch
StoreCalls == INSTANCE DocumentStore WITH
  Callers <- {"c1", "c2"}, VersionOf <- TwoVersions, CallsOf <- WaitingCalls,
  ObservedBy <- Observed, Blobs <- {}, IdentityOf <- Identities, Stored <- ReportStoredFirst,
  MaxItems <- 2, MaxFence <- 2, MaxEpoch <- 1, MaxAccepted <- 0, MaxCalls <- 1, MaxPages <- 0,
  lease <- storeLease, epoch <- storeEpoch

RestStore == UNCHANGED <<case, vars, wfSlot, wfReceipts, wfEvents, aged, wfLease, wfAcked, cp, wf, act, inbox, ctl, faults,
  gated>>
IdleStore ==
  /\ wfSlot = Off /\ wfReceipts = Off /\ wfEvents = Off /\ aged = Off /\ wfLease = Off
  /\ wfAcked = Off /\ cp = Off /\ wf = Off /\ act = Off /\ inbox = Off /\ ctl = Off /\ faults = Off
  /\ gated = Off
  /\ Init

-------------------------------------------------------------------------------
SuiteInit ==
  /\ case \in Cases
  /\ \/ /\ Init /\ case \in {"slot", "versions", "queues", "closure"}
        /\ wfSlot = Off /\ wfReceipts = Off /\ wfEvents = Off /\ aged = Off /\ wfLease = Off
        /\ wfAcked = Off /\ cp = Off /\ wf = Off /\ act = Off /\ inbox = Off /\ ctl = Off
        /\ faults = Off /\ gated = Off /\ rows = Off /\ nextId = Off /\ storeLease = Off
        /\ grant = Off /\ storeEpoch = Off /\ catalogued = Off /\ accepted = Off /\ tx = Off
        /\ pages = Off
     \/ /\ IdleWorkflow
        /\ \/ case = "workflow" /\ Workflow!Init
           \/ case = "decisions" /\ Decisions!Init
           \/ case = "returned" /\ Returned!Init
           \/ case = "stopped" /\ Stopped!Init
     \/ /\ IdleStore
        /\ \/ case = "mints" /\ Mints!Init
           \/ case = "revisions" /\ RevisionRaces!Init
           \/ case = "batches" /\ Batches!Init
           \/ case = "reports" /\ Reports!Init
           \/ case = "calls" /\ StoreCalls!Init

SuiteNext ==
  \/ case = "slot" /\ Next /\ InSlot' /\ UNCHANGED suite
  \/ case = "versions" /\ SameVersion!Next /\ InVersions' /\ UNCHANGED suite
  \/ case = "queues" /\ Competing!Next /\ InQueues' /\ UNCHANGED suite
  \/ case = "closure" /\ Next /\ UNCHANGED suite
  \/ case = "workflow" /\ Workflow!Next /\ RestWorkflow
  \/ case = "decisions" /\ Decisions!Next /\ RestWorkflow
  \/ case = "returned" /\ Returned!Next /\ RestWorkflow
  \/ case = "stopped" /\ Stopped!Next /\ RestWorkflow
  \/ case = "mints" /\ Mints!Next /\ RestStore
  \/ case = "revisions" /\ RevisionRaces!Next /\ RestStore
  \/ case = "batches" /\ Batches!Next /\ RestStore
  \/ case = "reports" /\ Reports!Next /\ RestStore
  \/ case = "calls" /\ StoreCalls!Next /\ RestStore

SuiteSpec == SuiteInit /\ [][SuiteNext]_suiteVars

\* The assumption of the workflow holds in every instance.
ASSUME InstancesAssumption ==
    Workflow!WorkflowAssumption /\ Decisions!WorkflowAssumption /\ Returned!WorkflowAssumption /\ Stopped!WorkflowAssumption

(***************************************************************************)
(* Properties: those of DocumentAdmission under their own names, and       *)
(***************************************************************************)

\* The store and the workflow say only what the database holds: a workflow reports an
\* outcome only when the ledger holds it and the slot is closed for it (documentAdmission,
\* DocumentIngestV2); mints of one observation that race mint one identity
\* (mint_document_identity); the answer "stored" is durable and exact, whoever won the
\* key; a traversal that reaches an empty page has returned every row that was there when
\* it began; and no batch or report ends unresolved because it kept losing to rows its
\* snapshot did not show.
AnswersHonest ==
    CASE case = "workflow" -> Workflow!TypeOK /\ Workflow!OutcomeHonest
      [] case = "mints" -> Mints!OneMintedIdentity
      [] case = "revisions" -> RevisionRaces!StoredMeansStored
      [] case = "batches" -> Batches!TraversalComplete
      [] case = "reports" -> Reports!TypeOK /\ Reports!RetriesSuffice
      [] OTHER -> TRUE

\* An acceptance is recorded only while its slot is processing under the recording grant,
\* a document resumed from quarantine is accepted only after its gates ran again, and a
\* row of the store is committed under the fence that its version's lease then has.
CommitsPermitted ==
    [][/\ case = "workflow" => Workflow!AppliedStep
       /\ case = "decisions" => Decisions!GatesStep
       /\ case = "mints" => Mints!FencedCommitsStep]_suite

(***************************************************************************)
(* Liveness: the reconciliation timer keeps sweeping live slots and sees a *)
(* terminal chain, workers poll their queues and timers fire, a statement  *)
(* that can run is run, and PostgreSQL hands a row lock that becomes free  *)
(* again and again to the one that waits.                                  *)
(***************************************************************************)
Caller == <<"c1", "c2">>

Runs(n) ==
    \/ /\ case = "calls"
       /\ \/ StoreCalls!ReadReceipt(Caller[n]) \/ StoreCalls!Resolve(Caller[n])
          \/ StoreCalls!CheckBeforeCommit(Caller[n]) \/ StoreCalls!Commit(Caller[n])
       /\ RestStore
    \/ /\ case = "returned"
       /\ \/ n = 1 /\ (Returned!ActivityStep \/ Returned!DrainOperation \/ Returned!WorkflowStep)
          \/ n = 2 /\ Returned!Reacquire
       /\ RestWorkflow
    \/ /\ case = "stopped"
       /\ \/ n = 1 /\ (Stopped!ActivityStep \/ Stopped!DrainOperation \/ Stopped!WorkflowStep)
          \/ n = 2 /\ Stopped!Reacquire
       /\ RestWorkflow

Sweeps ==
    /\ (case = "returned" /\ Returned!SweepStep) \/ (case = "stopped" /\ Stopped!SweepStep)
    /\ RestWorkflow
Ages ==
    /\ (case = "returned" /\ Returned!AgeQuarantine) \/ (case = "stopped" /\ Stopped!AgeQuarantine)
    /\ RestWorkflow

\* A caller waits for one lock at a time.
Takes(n) ==
    \/ /\ case = "calls"
       /\ StoreCalls!LockGrant(Caller[n]) \/ StoreCalls!BeginInsert(Caller[n]) \/ StoreCalls!FinishInsert(Caller[n])
       /\ RestStore
    \/ case = "closure" /\ n = 1 /\ Observe(1, "terminal") /\ UNCHANGED suite
    \/ case = "closure" /\ n = 2 /\ Reconcile(1) /\ seen[1].status = "terminal" /\ UNCHANGED suite

LiveSpec ==
    /\ SuiteSpec
    /\ \A n \in 1..2 : WF_suiteVars(Runs(n)) /\ SF_suiteVars(Takes(n))
    /\ WF_suiteVars(Sweeps) /\ WF_suiteVars(Ages)

Owed(n) ==
    CASE case = "closure" -> n = 1 /\ chain[1] = "terminal" /\ slot[1].state # "released"
      [] case \in {"returned", "stopped"} -> n = 1 /\ wfSlot.state # "released"
      [] case = "calls" -> tx[Caller[n]].pc # "idle"

\* A terminal workflow chain gives its slot back, a launched or abandoned document its
\* capacity, and every call of the store ends.
CapacityReturned == \A n \in 1..2 : Owed(n) ~> ~Owed(n)
===============================================================================
