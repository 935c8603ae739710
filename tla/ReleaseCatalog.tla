---------------------------- MODULE ReleaseCatalog ----------------------------
(***************************************************************************)
(* The durable side of internal/corpus/release: publishers move releases   *)
(* through their readiness states, operators switch the selected release,  *)
(* pins add retention holds and collectors claim and finalize releases     *)
(* nobody needs, all on the tables release_activation, corpus_release,     *)
(* release_retention_hold and release_retention_claim of one country.      *)
(*                                                                         *)
(* A transaction is cut where it can wait or where another one can commit  *)
(* in between: at its row lock, at the statement that follows and, for an  *)
(* activation, at the row of the release it retires.  The statements of a  *)
(* transaction that hold every lock they need are one step.  The adapter   *)
(* that issues them is not part of the repository: its transactions are    *)
(* those the comments of the queries demand.                               *)
(***************************************************************************)
EXTENDS Integers, Sequences, FiniteSets

CONSTANTS
    CorpusReleases, \* row ids of corpus_release, in id order
    Manifest,      \* the manifest stored with each release
    Published,     \* releases that were published when the model starts
    Past,          \* the releases activated so far, oldest first
    Publishers,    \* concurrent calls of Publish
    Operators,     \* concurrent calls of Activate
    Pins,          \* keys of pinned, in_flight and backup holds
    Backups,       \* the keys among them that hold without expiry
    Collectors,    \* retention owners, each with its batch key
    Limit,         \* rows one ClaimEligible takes
    MaxVersion,    \* bound on selection_version
    MaxFence       \* bound on fence_token

\* Manifest.Validate: every identity is there, every kind of evidence covers
\* every chunk and every gap was accepted, by a reference exactly when there
\* are gaps.
Valid(m) ==
    /\ m.identified
    /\ m.observations > 0 /\ m.revisions > 0 /\ m.provisions > 0 /\ m.chunks > 0
    /\ m.citations = m.chunks /\ m.provenance = m.chunks
    /\ m.vectors = m.chunks /\ m.lexical = m.chunks
    /\ m.accepted = m.gaps
    /\ m.gaps > 0 <=> m.reference

Incomplete == {r \in CorpusReleases : ~Valid(Manifest[r])}

NoRelease == -1
None == "none"
NoRequest == [version |-> 0, current |-> NoRelease]
Sessions == Publishers \cup Operators \cup Pins \cup Collectors
States == {"candidate", "validated", "ready", "active", "retired", "failed"}

CatalogAssumption ==
    /\ CorpusReleases \subseteq Nat /\ IsFiniteSet(CorpusReleases)
    /\ Published \subseteq CorpusReleases \ Incomplete
    /\ Past \in Seq(Published) /\ Len(Past) \in 0 .. MaxVersion
    /\ \A i \in 2 .. Len(Past) : Past[i] # Past[i - 1]
    /\ Backups \subseteq Pins
    /\ Limit \in Nat \ {0} /\ MaxVersion \in Nat /\ MaxFence \in Nat \ {0}
    /\ None \notin Sessions
    /\ Operators \cap (Publishers \cup Pins \cup Collectors) = {}

VARIABLES
    state,    \* corpus_release.state
    history,  \* history[v]: what release_activation held at version v
    holder,   \* release_retention_hold: active and rollback holds
    pin,      \* release_retention_hold: the hold of each key
    claim,    \* release_retention_claim
    lock,     \* the session that holds each corpus_release row
    switcher, \* the operator that holds the release_activation row
    place,    \* where each session is
    subject,  \* the release or releases it works on
    request,  \* an operator's expected version and current release
    answered, \* what its last call answered
    mine      \* the fence a collector was handed for each release, 0 if none

catalogVars == <<state, history, holder, pin, claim, lock, switcher, place, subject, request,
          answered, mine>>
retention == <<holder, pin, claim, mine>>
activation == <<request, switcher>>

Selected == [version |-> Len(history),
             current |-> IF history = <<>> THEN NoRelease ELSE history[Len(history)].current,
             previous |-> IF history = <<>> THEN NoRelease ELSE history[Len(history)].previous]

Available(r) == state[r] \in {"ready", "active", "retired"}

LiveClaim(r) == claim[r].life \in {"fresh", "aging"}

\* released_at IS NULL or finalized_at IS NOT NULL, on an existing row
BlockingClaim(r) == claim[r].life \notin {None, "released"}

HeldByKey(r) == \E k \in Pins : pin[k].release = r /\ pin[k].life = "live"

Held(r) == r \in holder.active \cup holder.rollback \/ HeldByKey(r)

CatalogInit ==
    /\ history = [v \in 1 .. Len(Past) |->
                    [current |-> Past[v], previous |-> IF v = 1 THEN NoRelease ELSE Past[v - 1]]]
    /\ state = [r \in CorpusReleases |->
                  IF r \notin Published THEN "candidate"
                  ELSE IF r = Selected.current THEN "active"
                  ELSE IF \E v \in 1 .. Len(Past) : Past[v] = r THEN "retired" ELSE "ready"]
    /\ holder = [active |-> {Selected.current} \cap CorpusReleases,
                 rollback |-> {Selected.previous} \cap CorpusReleases]
    /\ pin = [k \in Pins |-> [release |-> NoRelease, life |-> None]]
    /\ claim = [r \in CorpusReleases |-> [owner |-> None, fence |-> 0, life |-> None]]
    /\ lock = [r \in CorpusReleases |-> None]
    /\ switcher = None
    /\ place = [s \in Sessions |-> "idle"]
    /\ subject = [s \in Sessions |-> {}]
    /\ request = [o \in Operators |-> NoRequest]
    /\ answered = [o \in Operators |-> None]
    /\ mine = [c \in Collectors |-> [r \in CorpusReleases |-> 0]]

Goto(s, where) == place' = [place EXCEPT ![s] = where]

\* The call of a publisher, a pin or a collector returns.
Done(s) == Goto(s, "idle") /\ subject' = [subject EXCEPT ![s] = {}]

\* Activate returns; what it was asked is kept beside a successful answer.
AnswerActivation(o, answer) ==
    /\ Goto(o, "idle")
    /\ answered' = [answered EXCEPT ![o] = answer]
    /\ IF answer \in {"applied", "reconciled"}
       THEN UNCHANGED <<subject, request>>
       ELSE /\ subject' = [subject EXCEPT ![o] = {}]
            /\ request' = [request EXCEPT ![o] = NoRequest]

Lock(s, rs) == lock' = [r \in CorpusReleases |-> IF r \in rs THEN s ELSE lock[r]]

\* COMMIT and ROLLBACK give back every row the session locked
Unlock(s) ==
    /\ lock' = [r \in CorpusReleases |-> IF lock[r] = s THEN None ELSE lock[r]]
    /\ switcher' = IF switcher = s THEN None ELSE switcher

-----------------------------------------------------------------------------
(* Publish.                                                                *)

MCanBecomeFromAny(r, to) == TRUE

CanBecome(r, to) ==
    \/ state[r] = "candidate" /\ to \in {"validated", "failed"}
    \/ state[r] = "validated" /\ to \in {"ready", "failed"}

\* The UPDATE waits for the row; it changes no row when the state moved on.
SetCorpusReleaseReadiness(r, to) ==
    /\ lock[r] = None
    /\ state' = IF CanBecome(r, to) THEN [state EXCEPT ![r] = to] ELSE state

\* Any other release is refused at once and nothing changes.
PublishLoad(p, r) ==
    /\ place[p] = "idle"
    /\ \/ /\ r \in Incomplete /\ state[r] \in {"candidate", "validated"}
          /\ Goto(p, "failing")
       \/ /\ r \notin Incomplete /\ state[r] \in {"ready", "active"}
          /\ Goto(p, "rechecking")
       \/ /\ r \notin Incomplete /\ state[r] = "candidate"
          /\ Goto(p, "validating")
       \/ /\ r \notin Incomplete /\ state[r] = "validated"
          /\ Goto(p, "checking")
    /\ subject' = [subject EXCEPT ![p] = {r}]
    /\ UNCHANGED <<state, history, lock, answered, retention, activation>>

\* An update that found no row is an error to the caller.
PublishValidate(p) ==
    /\ place[p] = "validating"
    /\ \E r \in subject[p] :
         /\ SetCorpusReleaseReadiness(r, "validated")
         /\ IF CanBecome(r, "validated")
            THEN Goto(p, "checking") /\ UNCHANGED subject
            ELSE Done(p)
    /\ UNCHANGED <<history, lock, answered, retention, activation>>

\* Readiness.Check and CompatibleWith run outside any transaction.
PublishCheck(p) ==
    /\ place[p] = "checking"
    /\ \E next \in {"readying", "failing"} : Goto(p, next)
    /\ UNCHANGED <<state, history, lock, subject, answered, retention, activation>>

PublishReady(p) ==
    /\ place[p] = "readying"
    /\ \E r \in subject[p] : SetCorpusReleaseReadiness(r, "ready")
    /\ Done(p)
    /\ UNCHANGED <<history, lock, answered, retention, activation>>

RecordPublicationFailure(p) ==
    /\ place[p] = "failing"
    /\ \E r \in subject[p] : SetCorpusReleaseReadiness(r, "failed")
    /\ Done(p)
    /\ UNCHANGED <<history, lock, answered, retention, activation>>

\* Readiness is checked again and recorded nowhere.
CheckPublishedReadiness(p) ==
    /\ place[p] = "rechecking"
    /\ Done(p)
    /\ UNCHANGED <<state, history, lock, answered, retention, activation>>

-----------------------------------------------------------------------------
(* Activate.                                                               *)

MMatchesCurrent(selection, r, version, current) == selection.current = r

\* activationReplayed and activationMatches: the switch asked for is the last one
Matches(selection, r, version, current) ==
    /\ selection.version = version + 1
    /\ selection.current = r
    /\ selection.previous = current

\* A release that does not validate is refused at once.
ActivateLoad(o, r, version, current) ==
    /\ place[o] = "idle"
    /\ Available(r) /\ r \notin Incomplete
    /\ subject' = [subject EXCEPT ![o] = {r}]
    /\ request' = [request EXCEPT ![o] = [version |-> version, current |-> current]]
    /\ answered' = [answered EXCEPT ![o] = None]
    /\ Goto(o, "selecting")
    /\ UNCHANGED <<state, history, lock, switcher, retention>>

ActivateSelection(o) ==
    /\ place[o] = "selecting"
    /\ \E r \in subject[o] :
         \/ /\ Matches(Selected, r, request[o].version, request[o].current)
            /\ AnswerActivation(o, "reconciled")
         \/ /\ ~Matches(Selected, r, request[o].version, request[o].current)
            /\ \/ Selected.version # request[o].version
               \/ Selected.current # request[o].current
            /\ AnswerActivation(o, "conflict")
         \/ /\ Selected.version = request[o].version
            /\ Selected.current = request[o].current
            /\ Goto(o, "checking") /\ UNCHANGED <<answered, subject, request>>
    /\ UNCHANGED <<state, history, lock, switcher, retention>>

ActivateCheck(o) ==
    /\ place[o] = "checking"
    /\ \/ Goto(o, "locking") /\ UNCHANGED <<answered, subject, request>>
       \/ AnswerActivation(o, "error")
    /\ UNCHANGED <<state, history, lock, switcher, retention>>

LockCorpusReleaseForActivation(o) ==
    /\ place[o] = "locking"
    /\ \E r \in subject[o] : lock[r] = None /\ Lock(o, {r})
    /\ Goto(o, "switching")
    /\ UNCHANGED <<state, history, subject, answered, retention, activation>>

MSwitchableAnyVersion(o, r) == Available(r) /\ ~BlockingClaim(r) /\ Selected.current # r

MSwitchableClaimed(o, r) ==
    /\ Available(r)
    /\ Selected.version = request[o].version
    /\ Selected.current # r

\* The CTE candidate and the WHERE of switched.
Switchable(o, r) ==
    /\ Available(r)
    /\ ~BlockingClaim(r)
    /\ Selected.version = request[o].version
    /\ Selected.current # r

MActivateKeepsRow(o) ==
    /\ place[o] = "switching"
    /\ \E r \in subject[o] :
         \/ /\ Switchable(o, r) /\ switcher = None
            /\ switcher' = o
            /\ Goto(o, "retiring")
            /\ UNCHANGED lock
         \/ /\ ~Switchable(o, r)
            /\ Goto(o, "reconciling")
            /\ UNCHANGED <<switcher, lock>>
    /\ UNCHANGED <<state, history, subject, answered, request, retention>>

\* A statement that matches no row rolls back; one that matches waits for
\* the activation row and evaluates its WHERE again.
ActivateCorpusRelease(o) ==
    /\ place[o] = "switching"
    /\ \E r \in subject[o] :
         \/ /\ Switchable(o, r) /\ switcher = None
            /\ switcher' = o
            /\ Goto(o, "retiring")
            /\ UNCHANGED lock
         \/ /\ ~Switchable(o, r)
            /\ Unlock(o)
            /\ Goto(o, "reconciling")
    /\ UNCHANGED <<state, history, subject, answered, request, retention>>

MActivateCommitNoRetire(o) ==
    /\ place[o] = "retiring"
    /\ \E r \in subject[o] :
         /\ history' = Append(history, [current |-> r, previous |-> Selected.current])
         /\ state' = [state EXCEPT ![r] = "active"]
         /\ holder' = [active |-> {r}, rollback |-> {Selected.current} \cap CorpusReleases]
    /\ Unlock(o)
    /\ AnswerActivation(o, "applied")
    /\ UNCHANGED <<pin, claim, mine>>

\* retire_previous, mark_current and the hold rows, then COMMIT; the answer
\* may be lost on its way back.
ActivateCommit(o) ==
    /\ place[o] = "retiring"
    /\ \E r \in subject[o] :
         LET old == Selected.current IN
         /\ old \in CorpusReleases => lock[old] \in {None, o}
         /\ history' = Append(history, [current |-> r, previous |-> old])
         /\ state' = [q \in CorpusReleases |->
                        IF q = r THEN "active" ELSE IF q = old THEN "retired" ELSE state[q]]
         /\ holder' = [active |-> {r}, rollback |-> {old} \cap CorpusReleases]
    /\ Unlock(o)
    /\ \/ AnswerActivation(o, "applied")
       \/ Goto(o, "reconciling") /\ UNCHANGED <<answered, subject, request>>
    /\ UNCHANGED <<pin, claim, mine>>

\* The connection is lost inside the transaction.
ActivateAbort(o) ==
    /\ place[o] \in {"switching", "retiring"}
    /\ Unlock(o)
    /\ Goto(o, "reconciling")
    /\ UNCHANGED <<state, history, subject, answered, request, retention>>

\* The current release read first is the one the request named.
Reconcile(o) ==
    /\ place[o] = "reconciling"
    /\ \E r \in subject[o] :
         AnswerActivation(o, IF Matches(Selected, r, request[o].version, request[o].current)
                             THEN "reconciled" ELSE "error")
    /\ UNCHANGED <<state, history, lock, switcher, retention>>

-----------------------------------------------------------------------------
(* Holds.                                                                  *)

LockCorpusReleaseForPin(k, r) ==
    /\ place[k] = "idle"
    /\ pin[k].release \in {NoRelease, r}
    /\ lock[r] = None
    /\ Lock(k, {r})
    /\ subject' = [subject EXCEPT ![k] = {r}]
    /\ Goto(k, "pinning")
    /\ UNCHANGED <<state, history, answered, retention, activation>>

\* A pin renews its own hold with the same statement.
AddReleaseRetentionHold(k) ==
    /\ place[k] = "pinning"
    /\ \E r \in subject[k] :
         IF BlockingClaim(r)
         THEN UNCHANGED pin
         ELSE pin' = [pin EXCEPT ![k] = [release |-> r, life |-> "live"]]
    /\ Unlock(k)
    /\ Done(k)
    /\ UNCHANGED <<state, history, answered, holder, claim, request, mine>>

RemoveReleaseRetentionHold(k) ==
    /\ place[k] = "idle" /\ pin[k].life # None
    /\ pin' = [pin EXCEPT ![k] = [release |-> NoRelease, life |-> None]]
    /\ UNCHANGED <<state, history, lock, place, subject, answered, holder, claim, mine, activation>>

ExpireHold(k) ==
    /\ k \notin Backups /\ pin[k].life = "live"
    /\ pin' = [pin EXCEPT ![k].life = "expired"]
    /\ UNCHANGED <<state, history, lock, place, subject, answered, holder, claim, mine, activation>>

-----------------------------------------------------------------------------
(* Retention claims.                                                       *)

MUnprotectedByHolder(r) ==
    /\ r \notin {Selected.current, Selected.previous}
    /\ r \notin holder.active \cup holder.rollback

\* What every statement of a claim demands of the release itself.
Unprotected(r) ==
    /\ r \notin {Selected.current, Selected.previous}
    /\ ~Held(r)

Claimable(c, r) ==
    /\ state[r] \in {"retired", "failed"}
    /\ Unprotected(r)
    /\ \/ claim[r].life \in {None, "released", "expired"}
       \/ LiveClaim(r) /\ claim[r].owner = c

FirstRows(rows) == {r \in rows : Cardinality({q \in rows : q < r}) < Limit}

\* The snapshot of LockEligibleReleasesForRetention.
ListEligible(c) ==
    /\ place[c] = "idle"
    /\ \E r \in CorpusReleases : Claimable(c, r)
    /\ subject' = [subject EXCEPT ![c] = {r \in CorpusReleases : Claimable(c, r)}]
    /\ Goto(c, "locking")
    /\ UNCHANGED <<state, history, lock, answered, retention, activation>>

\* FOR UPDATE SKIP LOCKED with the LIMIT, on the rows of that snapshot.
LockEligibleReleasesForRetention(c) ==
    /\ place[c] = "locking"
    /\ LET rows == FirstRows({r \in subject[c] : /\ lock[r] = None
                                                 /\ state[r] \in {"retired", "failed"}})
       IN /\ \A r \in rows : claim[r].fence < MaxFence
          /\ Lock(c, rows)
          /\ subject' = [subject EXCEPT ![c] = rows]
    /\ Goto(c, "claiming")
    /\ UNCHANGED <<state, history, answered, retention, activation>>

MClaimedSameFence(c, r) ==
    IF LiveClaim(r) /\ claim[r].owner = c THEN claim[r]
    ELSE [owner |-> c, fence |-> IF claim[r].fence = 0 THEN 1 ELSE claim[r].fence, life |-> "fresh"]

\* The owner's own live claim keeps its fence and its expiry.
Claimed(c, r) ==
    IF LiveClaim(r) /\ claim[r].owner = c THEN claim[r]
    ELSE [owner |-> c, fence |-> claim[r].fence + 1, life |-> "fresh"]

MClaimKeepsRows(c) ==
    /\ place[c] = "claiming"
    /\ LET rows == {r \in subject[c] : Claimable(c, r)} IN
       /\ claim' = [r \in CorpusReleases |-> IF r \in rows THEN Claimed(c, r) ELSE claim[r]]
       /\ mine' = [mine EXCEPT ![c] =
                     [r \in CorpusReleases |-> IF r \in rows THEN claim'[r].fence ELSE @[r]]]
    /\ Done(c)
    /\ UNCHANGED <<state, history, answered, holder, pin, request, lock, switcher>>

\* The rows are claimed one by one in the transaction; RetentionService.Claim
\* then refuses the whole answer when one claim has less than half its time
\* left, although the rows are committed.
ClaimReleaseForRetention(c) ==
    /\ place[c] = "claiming"
    /\ LET rows == {r \in subject[c] : Claimable(c, r)} IN
       /\ claim' = [r \in CorpusReleases |-> IF r \in rows THEN Claimed(c, r) ELSE claim[r]]
       /\ \/ /\ \A r \in rows : claim'[r].life = "fresh"
             /\ mine' = [mine EXCEPT ![c] =
                           [r \in CorpusReleases |-> IF r \in rows THEN claim'[r].fence ELSE @[r]]]
          \/ UNCHANGED mine
    /\ Unlock(c)
    /\ Done(c)
    /\ UNCHANGED <<state, history, answered, holder, pin, request>>

\* The tuple every later statement names: owner and fence, still in force.
InForce(c, r) == LiveClaim(r) /\ claim[r].owner = c /\ claim[r].fence = mine[c][r]

RenewReleaseRetentionClaim(c, r) ==
    /\ place[c] = "idle" /\ mine[c][r] > 0
    /\ IF InForce(c, r)
       THEN claim' = [claim EXCEPT ![r].life = "fresh"] /\ UNCHANGED mine
       ELSE mine' = [mine EXCEPT ![c][r] = 0] /\ UNCHANGED claim
    /\ UNCHANGED <<state, history, lock, place, subject, answered, holder, pin, activation>>

ReleaseReleaseRetentionClaim(c, r) ==
    /\ place[c] = "idle" /\ mine[c][r] > 0
    /\ claim' = IF InForce(c, r) THEN [claim EXCEPT ![r].life = "released"] ELSE claim
    /\ mine' = [mine EXCEPT ![c][r] = 0]
    /\ UNCHANGED <<state, history, lock, place, subject, answered, holder, pin, activation>>

LockCorpusReleaseForRetentionFinalize(c, r) ==
    /\ place[c] = "idle" /\ mine[c][r] > 0
    /\ lock[r] = None
    /\ Lock(c, {r})
    /\ subject' = [subject EXCEPT ![c] = {r}]
    /\ Goto(c, "finalizing")
    /\ UNCHANGED <<state, history, answered, retention, activation>>

FinalizeReleaseRetentionClaim(c) ==
    /\ place[c] = "finalizing"
    /\ \E r \in subject[c] :
         /\ IF InForce(c, r) /\ Unprotected(r)
            THEN claim' = [claim EXCEPT ![r].life = "finalized"]
            ELSE UNCHANGED claim
         /\ mine' = [mine EXCEPT ![c][r] = 0]
    /\ Unlock(c)
    /\ Done(c)
    /\ UNCHANGED <<state, history, answered, holder, pin, request>>

\* Half of the claim's time passes, then the other half.
AgeClaim(r) ==
    /\ \/ claim[r].life = "fresh" /\ claim' = [claim EXCEPT ![r].life = "aging"]
       \/ claim[r].life = "aging" /\ claim' = [claim EXCEPT ![r].life = "expired"]
    /\ UNCHANGED <<state, history, lock, place, subject, answered, holder, pin, mine, activation>>

-----------------------------------------------------------------------------
PublishNext(p) ==
    \/ \E r \in CorpusReleases : PublishLoad(p, r)
    \/ PublishValidate(p) \/ PublishCheck(p) \/ PublishReady(p)
    \/ RecordPublicationFailure(p) \/ CheckPublishedReadiness(p)

ActivateNext(o) ==
    \/ \E r \in CorpusReleases, v \in Len(Past) .. MaxVersion - 1, q \in CorpusReleases \cup {NoRelease} :
         ActivateLoad(o, r, v, q)
    \/ ActivateSelection(o) \/ ActivateCheck(o) \/ LockCorpusReleaseForActivation(o)
    \/ ActivateCorpusRelease(o) \/ ActivateCommit(o) \/ ActivateAbort(o) \/ Reconcile(o)

PinNext(k) ==
    \/ \E r \in CorpusReleases : LockCorpusReleaseForPin(k, r)
    \/ AddReleaseRetentionHold(k) \/ RemoveReleaseRetentionHold(k) \/ ExpireHold(k)

CollectNext(c) ==
    \/ ListEligible(c) \/ LockEligibleReleasesForRetention(c) \/ ClaimReleaseForRetention(c)
    \/ FinalizeReleaseRetentionClaim(c)
    \/ \E r \in CorpusReleases : \/ RenewReleaseRetentionClaim(c, r)
                                 \/ ReleaseReleaseRetentionClaim(c, r)
                                 \/ LockCorpusReleaseForRetentionFinalize(c, r)

CatalogNext ==
    \/ \E p \in Publishers : PublishNext(p)
    \/ \E o \in Operators : ActivateNext(o)
    \/ \E k \in Pins : PinNext(k)
    \/ \E c \in Collectors : CollectNext(c)
    \/ \E r \in CorpusReleases : AgeClaim(r)

CatalogSpec == CatalogInit /\ [][CatalogNext]_catalogVars

(***************************************************************************)
(* Fairness: the database runs the statements of an open transaction and   *)
(* grants a row lock that is free again and again.  Nothing is assumed of  *)
(* callers between two calls.                                              *)
(***************************************************************************)
CatalogFairSpec ==
    /\ CatalogSpec
    /\ \A o \in Operators : /\ SF_catalogVars(ActivateCorpusRelease(o)) /\ SF_catalogVars(ActivateCommit(o))
                              /\ SF_catalogVars(LockCorpusReleaseForActivation(o))
    /\ \A k \in Pins : WF_catalogVars(AddReleaseRetentionHold(k))
    /\ \A c \in Collectors : /\ WF_catalogVars(ClaimReleaseForRetention(c))
                               /\ WF_catalogVars(FinalizeReleaseRetentionClaim(c))

(***************************************************************************)
(* Properties.                                                             *)
(***************************************************************************)

\* Every variable has its type.
CatalogTypeOK ==
    /\ state \in [CorpusReleases -> States]
    /\ Len(history) \in 0 .. MaxVersion
    /\ \A v \in 1 .. Len(history) :
          history[v] \in [current : CorpusReleases, previous : CorpusReleases \cup {NoRelease}]
    /\ holder \in [active : SUBSET CorpusReleases, rollback : SUBSET CorpusReleases]
    /\ pin \in [Pins -> [release : CorpusReleases \cup {NoRelease}, life : {None, "live", "expired"}]]
    /\ claim \in [CorpusReleases -> [owner : Collectors \cup {None}, fence : 0 .. MaxFence,
          life : {None, "fresh", "aging", "expired", "released", "finalized"}]]
    /\ lock \in [CorpusReleases -> Sessions \cup {None}]
    /\ switcher \in Operators \cup {None}
    /\ subject \in [Sessions -> SUBSET CorpusReleases]
    /\ request \in [Operators -> [version : 0 .. MaxVersion, current : CorpusReleases \cup {NoRelease}]]
    /\ answered \in [Operators -> {None, "applied", "reconciled", "conflict", "error"}]
    /\ mine \in [Collectors -> [CorpusReleases -> 0 .. MaxFence]]

\* Exactly the selected release is active, the one before it is retired, both
\* have their retention hold and no other release has one, whatever slow
\* publishers and other operators write meanwhile.
SelectionConsistent ==
    /\ {r \in CorpusReleases : state[r] = "active"} = {Selected.current} \cap CorpusReleases
    /\ Selected.previous \in CorpusReleases => state[Selected.previous] = "retired"
    /\ holder.active = {Selected.current} \cap CorpusReleases
    /\ holder.rollback = {Selected.previous} \cap CorpusReleases

\* From the moment a collector claims a release until it gives the claim up,
\* the release is neither selected nor the rollback target nor held: nothing
\* that is in use is ever deleted, and nothing is put to use while it may be.
ClaimExcludesUse ==
    \A r \in CorpusReleases : BlockingClaim(r) =>
        r \notin {Selected.current, Selected.previous} /\ ~Held(r)

\* Two collectors never hold the same fence of a release: a collector whose
\* claim expired cannot renew, release or finalize its successor's.
UniqueFence ==
    \A r \in CorpusReleases, c, d \in Collectors :
        c # d /\ mine[c][r] > 0 => mine[c][r] # mine[d][r]

\* Activate answers applied or reconciled only when the switch it was asked
\* for is in the history of the selection: at the version after the expected
\* one, from the expected release to the requested one.
HonestActivation ==
    \A o \in Operators : answered[o] \in {"applied", "reconciled"} =>
        /\ request[o].version < Len(history)
        /\ subject[o] = {history[request[o].version + 1].current}
        /\ request[o].current = history[request[o].version + 1].previous

\* Operators, publishers, pins and collectors of one country never disagree
\* about a release: the tables say the same of what is selected, Activate
\* answers what the history holds, and a claim excludes every use.
CatalogConsistent ==
    CatalogTypeOK /\ SelectionConsistent /\ HonestActivation /\ ClaimExcludesUse /\ UniqueFence

\* A release whose publication failed stays failed, and a selected one can
\* only become retired: a publisher that read an older state overwrites
\* nothing.
ReadinessStep ==
    \A r \in CorpusReleases :
     /\ state[r] = "failed" => state'[r] = "failed"
     /\ state[r] \in {"active", "retired"} => state'[r] \in {"active", "retired"}
ReadinessForward == [][ReadinessStep]_catalogVars

InTransaction(s) ==
    \/ place[s] \in {"switching", "retiring", "pinning", "claiming", "finalizing"}
    \/ s \in Operators /\ place[s] = "locking"

\* Every transaction ends: the row locks of activations, pins, claims and
\* finalizations are taken in an order that cannot deadlock, and an operator
\* that waits for a release gets its row.
TransactionsEnd == \A s \in Sessions : InTransaction(s) ~> ~InTransaction(s)
=============================================================================
