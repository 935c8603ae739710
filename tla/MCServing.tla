--------------------------------- MODULE MCServing ---------------------------------
(***************************************************************************)
(* Small instances of the serving side: the pools of open releases, the    *)
(* release catalogue, logins and OAuth grants, and retrieval while the     *)
(* pipeline writes.  A behaviour is one case.                              *)
(***************************************************************************)
EXTENDS ReleasePool, ReleaseCatalog, TLC

CONSTANTS Cases, q1, q2, q3, d1, d2, ra, rb, r1, r2, Unset

VARIABLES case,
  now, accounts, logins, sessions, cookies, callback, locked, registry, consents, fam, events, op,
  handed, job, gen, embedded, validity, relations, req, conn, law, changes, faults

suite == <<case, catalogVars,
  now, accounts, logins, sessions, cookies, callback, locked, registry, consents, fam, events, op,
  handed, job, gen, embedded, validity, relations, req, conn, law, changes, faults>>
suiteVars == <<vars, suite>>

Off == "off"  \* the variables of the components a case leaves alone

\* Requests at the token endpoint are interchangeable.
Symmetric == Permutations({r1, r2})

-------------------------------------------------------------------------------
(* Publication, activation and retention of releases. *)
Whole == [identified |-> TRUE, observations |-> 1, revisions |-> 1, provisions |-> 1, chunks |-> 2, citations |-> 2,
          provenance |-> 2, vectors |-> 2, lexical |-> 2, gaps |-> 1, accepted |-> 1, reference |-> TRUE]
AllWhole == [r \in 1..3 |-> Whole]
TwoWhole == [r \in 1..2 |-> Whole]
SecondUncovered == [r \in 1..5 |-> IF r = 2 THEN [Whole EXCEPT !.vectors = 1] ELSE Whole]
OnePast == <<1>>
ThreePast == <<1, 2, 3>>
Earlier == <<3, 4, 5>>

\* What the sessions of a case do to the catalogue.
Publication ==
  /\ \/ \E p \in Publishers : PublishNext(p)
     \/ ActivateNext("o1")
     \/ ListEligible("c1") \/ LockEligibleReleasesForRetention("c1") \/ ClaimReleaseForRetention("c1")
  /\ subject'["o1"] \subseteq {1} /\ request'["o1"] \in {NoRequest, [version |-> 3, current |-> 5]}
  /\ Len(history') <= 4
Activation == \E o \in Operators : ActivateNext(o)
Retention ==
  /\ \/ ActivateNext("o1")
     \/ \E c \in Collectors : CollectNext(c)
     \/ \E r \in CorpusReleases : AgeClaim(r)
  /\ Len(history') <= 4 /\ request'["o1"].version <= 3

Switches == INSTANCE ReleaseCatalog WITH
  CorpusReleases <- {1, 2}, Manifest <- TwoWhole, Published <- {1, 2}, Past <- OnePast, Publishers <- {},
  Operators <- {"o1", "o2"}, Pins <- {"k1"}, Backups <- {}, Collectors <- {}, Limit <- 1,
  MaxVersion <- 2, MaxFence <- 1
CollectorRuns == INSTANCE ReleaseCatalog WITH
  CorpusReleases <- {1, 2, 3}, Manifest <- AllWhole, Published <- {1,2,3}, Past <- ThreePast,
  Publishers <- {}, Operators <- {"o1"}, Pins <- {"k1"}, Backups <- {}, Collectors <- {"c1"},
  Limit <- 1, MaxVersion <- 4, MaxFence <- 1

RestCatalog == UNCHANGED <<case, vars, now, accounts, logins, sessions, cookies, callback, locked, registry, consents, fam,
  events, op, handed, job, gen, embedded, validity, relations, req, conn, law, changes, faults>>
IdleCatalog ==
  /\ now = Off /\ accounts = Off /\ logins = Off /\ sessions = Off /\ cookies = Off
  /\ callback = Off /\ locked = Off /\ registry = Off /\ consents = Off /\ fam = Off /\ events = Off
  /\ op = Off /\ handed = Off /\ job = Off /\ gen = Off /\ embedded = Off /\ validity = Off
  /\ relations = Off /\ req = Off /\ conn = Off /\ law = Off /\ changes = Off /\ faults = Off
  /\ Init

-------------------------------------------------------------------------------
(* Logins at the identity provider and web sessions. *)
LoginRaces == INSTANCE Identity WITH
  Accounts <- {"a1"}, Browsers <- {"b1"}, Logins <- {"l1", "l2"}, WebSessions <- {"s1", "s2"},
  Handles <- {}, Callbacks <- {"k1", "k2"}, ServerRequests <- {}, LoginLife <- 1, SessionLife <- 2,
  MaxTime <- 1, MaxEpoch <- 3

RestIdentity == UNCHANGED <<case, vars, catalogVars,
  registry, consents, fam, events, op, handed, job, gen, embedded, validity,
  relations, req, conn, law, changes, faults>>
IdleIdentity ==
  /\ CatalogInit
  /\ registry = Off /\ consents = Off /\ fam = Off
  /\ events = Off /\ op = Off /\ handed = Off /\ job = Off /\ gen = Off /\ embedded = Off
  /\ validity = Off /\ relations = Off /\ req = Off /\ conn = Off /\ law = Off /\ changes = Off
  /\ faults = Off
  /\ Init

-------------------------------------------------------------------------------
(* Consents, grants and token families. *)
Redemption == INSTANCE OAuthServer WITH
  Accounts <- {"a1"}, Browsers <- {"b1"}, Logins <- {"l1"}, WebSessions <- {"s1"}, Handles <- {"h1"},
  Callbacks <- {"k1"}, ServerRequests <- {r1, r2}, LoginLife <- 1, SessionLife <- 2, MaxTime <- 0,
  MaxEpoch <- 1, Clients <- {"c1", "c2"}, Grants <- {"g1"}, ConsentLife <- 1, CodeLife <- 1,
  AccessLife <- 1, RefreshLife <- 1, MaxCreds <- 6
Consent == INSTANCE OAuthServer WITH
  Accounts <- {"a1"}, Browsers <- {"b1"}, Logins <- {"l1", "l2"}, WebSessions <- {"s1", "s2"},
  Handles <- {"h1"}, Callbacks <- {"k1"}, ServerRequests <- {r1, r2}, LoginLife <- 1, SessionLife <- 1,
  MaxTime <- 0, MaxEpoch <- 2, Clients <- {"c1"}, Grants <- {"g1", "g2"}, ConsentLife <- 1,
  CodeLife <- 1, AccessLife <- 1, RefreshLife <- 1, MaxCreds <- 1
TokenRequests == INSTANCE OAuthServer WITH
  Accounts <- {"a1"}, Browsers <- {"b1"}, Logins <- {"l1"}, WebSessions <- {"s1"}, Handles <- {"h1"},
  Callbacks <- {"k1"}, ServerRequests <- {r1, r2}, LoginLife <- 1, SessionLife <- 1, MaxTime <- 0,
  MaxEpoch <- 3, Clients <- {"c1"}, Grants <- {"g1"}, ConsentLife <- 1, CodeLife <- 1,
  AccessLife <- 1, RefreshLife <- 1, MaxCreds <- 4

RestOAuth == UNCHANGED <<case, vars, catalogVars,
  gen, embedded, validity, relations, req, conn, law, changes, faults>>
IdleOAuth ==
  /\ CatalogInit
  /\ gen = Off /\ embedded = Off /\ validity = Off
  /\ relations = Off /\ req = Off /\ conn = Off /\ law = Off /\ changes = Off /\ faults = Off
  /\ Init

-------------------------------------------------------------------------------
(* Two documents of a consolidation family, a repealed one and one that is only named. *)
D(n) == <<"dieu", n>>
K(n) == <<"khoan", n>>
P(n) == <<"diem", n>>
MDocs == 1..4
MFragments == 1..7
MDocOf == <<1, 1, 1, 2, 2, 3, 3>>
MCitation == <<<<D(1), K(1), P(1)>>, <<D(1), K(1), P(2)>>, <<D(1), K(2)>>, <<D(1), K(1), P(1)>>, <<D(2)>>, <<D(1), K(1)>>, <<K(9)>>>>
MPairs == <<<<2, 1>>>>
Rel(i, f, t, ty) == [id |-> i, from |-> f, to |-> t, type |-> ty]
MRelations == {Rel(1, 2, 1, "consolidates"), Rel(2, 3, 1, "replaces"), Rel(3, 1, 4, "amends"), Rel(4, 1, 0, "amends"),
               Rel(5, 3, 2, "amends")}
NoLaw == [class |-> "", from |-> 0, to |-> 0]
LawRow(c, f, t) == [class |-> c, from |-> f, to |-> t]
LawInForce == LawRow("in_force", 1, 9)
Partial == LawRow("partial", 1, 9)
Expired == LawRow("expired", 1, 4)
MRows == {<<LawInForce, Partial, Expired, LawInForce>>, <<LawInForce, LawInForce, LawInForce, NoLaw>>, <<Expired, LawInForce, NoLaw, LawInForce>>}
MNewRows == {LawInForce, Expired}
Opts(strict, rollup, asOf, docs, topK, cap) ==
  [mode |-> "", topK |-> topK, vectorK |-> 0, bm25K |-> 0, rrfK |-> 0, docCap |-> cap, relatedK |-> 2, strict |-> strict,
   rollup |-> rollup, asOf |-> asOf, docs |-> docs]
Query(o, dense, lexical, named, boost) ==
  [opts |-> o, dense |-> dense, lexical |-> lexical, named |-> named, boost |-> boost, known |-> named # {}, scoped |-> TRUE, low |-> FALSE]
Dense == {<<6, 1, 4, 2, 7, 5, 3>>, <<5, 2, 6, 3, 1, 7, 4>>}
Lexical == {<<>>, <<7, 2, 5>>}
RankOpts == {Opts("", r, 0, {}, k, c) : r \in {"", "dieu", "none"}, k \in {1, 3}, c \in {1, 2}}
            \cup {Opts("false", "", 0, {}, 2, 1), Opts("", "", 5, {}, 2, 1), Opts("true", "none", 0, {1, 3}, 2, 1), Opts("", "", 0, {}, 9, 0)}
MQueries == {Query(o, d, l, {}, b) : o \in RankOpts, d \in Dense, l \in Lexical, b \in BOOLEAN}
            \cup {Query([Opts("", "", 0, {}, 2, 1) EXCEPT !.mode = m], d, l, {}, FALSE) : m \in {"bm25", "vector"}, d \in Dense, l \in Lexical}
MCfg == [topK |-> 8, vectorK |-> 2, bm25K |-> 2, rrfK |-> 1, docCap |-> 3, maxResults |-> 8, maxRelated |-> 4, embedder |-> TRUE,
         disableValidityFilter |-> FALSE, identifierScope |-> TRUE, multiplier |-> 1, floor |-> 3, lexicalWeight |-> 1, boostWeight |-> 2,
         nonCurrentCap |-> 2, overfetch |-> 3, relationLimit |-> 3, perRelation |-> 1, sectionAggregate |-> FALSE]
LiveRows == {<<LawInForce, Partial, Expired, LawInForce>>}
LiveFragments == 1..4
LiveDocOf == <<1, 2, 2, 3>>
LiveCitation == <<<<D(1), K(1), P(1)>>, <<D(1), K(1), P(1)>>, <<D(2)>>, <<D(1), K(1)>>>>
LiveQueries == {Query(Opts("", "", 0, {}, 2, 1), <<4, 1, 2, 3>>, <<3, 2>>, {}, FALSE)}
               \cup {Query([Opts("", "none", 0, {}, 2, 1) EXCEPT !.mode = "vector"], <<1, 2, 3, 4>>, <<>>, {}, FALSE)}

(* Section aggregation: two provisions of one law with two fragments each. *)
AggFragments == 1..6
AggDocOf == <<1, 1, 1, 1, 2, 2>>
AggCitation == <<<<D(1), K(1)>>, <<D(1), K(2)>>, <<D(2), K(1)>>, <<D(2), K(2)>>, <<D(1)>>, <<D(3)>>>>
AggRows == {<<LawInForce, LawInForce, NoLaw, NoLaw>>}
AggCfg == [MCfg EXCEPT !.sectionAggregate = TRUE, !.vectorK = 6]
AggQueries == {Query(Opts("true", "", 0, {}, k, c), d, l, {}, FALSE) :
                 d \in {<<1, 2, 5, 6, 3, 4>>, <<3, 1, 4, 2, 5, 6>>, <<5, 6, 1, 3, 2, 4>>, <<1, 2, 5, 3, 6, 4>>}, l \in {<<>>, <<4, 3>>}, k \in {1, 3}, c \in {1, 2}}

(* Two documents of one fragment each, to see every request end. *)
EndDocOf == <<1, 2>>
EndCitation == <<<<D(1)>>, <<D(2)>>>>
EndRows == {<<LawInForce, Expired, NoLaw, NoLaw>>}
EndCfg == [MCfg EXCEPT !.floor = 1, !.overfetch = 1, !.vectorK = 1]
EndQueries == {Query([Opts("", r, 0, {}, 1, 1) EXCEPT !.relatedK = 0], <<2, 1>>, <<1>>, n, FALSE) : r \in {"none"}, n \in {{}, {2}}}

Ranking == INSTANCE Retrieval WITH
  Fragments <- MFragments, Docs <- MDocs, DocOf <- MDocOf, Citation <- MCitation, Long <- {2},
  Binding <- {1, 2, 3}, Pairs <- MPairs, RelationRows <- MRelations, Rows <- MRows,
  NewRows <- MNewRows, Queries <- MQueries, Cfg <- MCfg, Scale <- 2520, MaxChanges <- 0,
  MaxFaults <- 0
LiveTables == INSTANCE Retrieval WITH
  Fragments <- LiveFragments, Docs <- MDocs, DocOf <- LiveDocOf, Citation <- LiveCitation, Long <- {2},
  Binding <- {1, 2, 3}, Pairs <- MPairs, RelationRows <- MRelations, Rows <- LiveRows,
  NewRows <- MNewRows, Queries <- LiveQueries, Cfg <- MCfg, Scale <- 2520, MaxChanges <- 2,
  MaxFaults <- 1
Promotion == INSTANCE Retrieval WITH
  Fragments <- AggFragments, Docs <- MDocs, DocOf <- AggDocOf, Citation <- AggCitation, Long <- {2},
  Binding <- {1, 2, 3}, Pairs <- MPairs, RelationRows <- MRelations, Rows <- AggRows,
  NewRows <- MNewRows, Queries <- AggQueries, Cfg <- AggCfg, Scale <- 2520, MaxChanges <- 0,
  MaxFaults <- 0
EndedSearch == INSTANCE Retrieval WITH
  Fragments <- {1, 2}, Docs <- MDocs, DocOf <- EndDocOf, Citation <- EndCitation, Long <- {2},
  Binding <- {1, 2, 3}, Pairs <- MPairs, RelationRows <- MRelations, Rows <- EndRows,
  NewRows <- MNewRows, Queries <- EndQueries, Cfg <- EndCfg, Scale <- 2520, MaxChanges <- 1,
  MaxFaults <- 1

RestSearch == UNCHANGED <<case, vars, catalogVars,
  now, accounts, logins, sessions, cookies, callback, locked, registry,
  consents, fam, events, op, handed, job>>
IdleSearch ==
  /\ CatalogInit
  /\ now = Off /\ accounts = Off /\ logins = Off
  /\ sessions = Off /\ cookies = Off /\ callback = Off /\ locked = Off /\ registry = Off
  /\ consents = Off /\ fam = Off /\ events = Off /\ op = Off /\ handed = Off /\ job = Off
  /\ Init

-------------------------------------------------------------------------------
SuiteInit ==
  /\ case \in Cases
  /\ \/ /\ Init /\ case \in {"pool"}
        /\ CatalogInit
        /\ now = Off /\ accounts = Off /\ logins = Off
        /\ sessions = Off /\ cookies = Off /\ callback = Off /\ locked = Off /\ registry = Off
        /\ consents = Off /\ fam = Off /\ events = Off /\ op = Off /\ handed = Off /\ job = Off
        /\ gen = Off /\ embedded = Off /\ validity = Off /\ relations = Off /\ req = Off
        /\ conn = Off /\ law = Off /\ changes = Off /\ faults = Off
     \/ /\ IdleCatalog
        /\ \/ case \in {"publication", "activation", "retention"} /\ CatalogInit
           \/ case = "switches" /\ Switches!CatalogInit
           \/ case = "collectors" /\ CollectorRuns!CatalogInit
     \/ case = "logins" /\ LoginRaces!IdentityInit /\ IdleIdentity
     \/ /\ IdleOAuth
        /\ \/ case = "redemption" /\ Redemption!OAuthInit
           \/ case = "consent" /\ Consent!OAuthInit
           \/ case = "tokens" /\ TokenRequests!OAuthInit
     \/ /\ IdleSearch
        /\ \/ case = "rank" /\ Ranking!Init
           \/ case = "live" /\ LiveTables!Init
           \/ case = "promote" /\ Promotion!Init
           \/ case = "answers" /\ EndedSearch!Init

SuiteNext ==
  \/ case = "pool" /\ Next /\ UNCHANGED suite
  \/ case = "publication" /\ Publication /\ RestCatalog
  \/ case = "activation" /\ Activation /\ RestCatalog
  \/ case = "retention" /\ Retention /\ RestCatalog
  \/ case = "switches" /\ Switches!CatalogNext /\ RestCatalog
  \/ case = "collectors" /\ CollectorRuns!CatalogNext /\ RestCatalog
  \/ case = "logins" /\ LoginRaces!IdentityNext /\ RestIdentity
  \/ case = "redemption" /\ Redemption!OAuthNext /\ RestOAuth
  \/ case = "consent" /\ Consent!OAuthNext /\ RestOAuth
  \/ case = "tokens" /\ TokenRequests!OAuthNext /\ RestOAuth
  \/ case = "rank" /\ Ranking!Next /\ RestSearch
  \/ case = "live" /\ LiveTables!Next /\ RestSearch
  \/ case = "promote" /\ Promotion!Next /\ RestSearch
  \/ case = "answers" /\ EndedSearch!Next /\ RestSearch

SuiteSpec == SuiteInit /\ [][SuiteNext]_suiteVars

\* The assumptions of the components hold in every instance.
ASSUME InstancesAssumption ==
    /\ CatalogAssumption /\ Switches!CatalogAssumption /\ CollectorRuns!CatalogAssumption
    /\ LoginRaces!IdentityAssumption /\ Redemption!IdentityAssumption /\ Consent!IdentityAssumption
    /\ TokenRequests!IdentityAssumption
    /\ Redemption!TokenLifeAssumption /\ Consent!TokenLifeAssumption /\ TokenRequests!TokenLifeAssumption

(***************************************************************************)
(* Properties: those of ReleasePool and ReleaseCatalog under their names, *)
(* and                                                                     *)
(***************************************************************************)

\* A login transaction makes at most one session; a grant never has two credentials that
\* could each be redeemed for tokens, and no answer carries a token whose transaction did
\* not commit; a consent makes at most one grant, of its session's account and epoch, and
\* while an account is blocked each of its grants and sessions is revoked.
CredentialsSingle ==
    CASE case = "logins" -> LoginRaces!IdentityTypeOK /\ LoginRaces!OneSessionPerLogin
      [] case = "redemption" ->
            Redemption!OAuthTypeOK /\ Redemption!LinearFamily /\ Redemption!HandedAreStored
      [] case = "consent" -> Consent!OneGrantPerConsent /\ Consent!BlockLeavesNone
      [] OTHER -> TRUE

\* A session is only made for an account that is active at that moment; once a login has
\* replaced a browser's session the old one is not accepted any more; a refusal for a
\* proved replay, or a denial, is in the database; and a failed publication stays failed.
RefusalsStick ==
    [][/\ case = "logins" => LoginRaces!NoSessionPastBlockStep /\ LoginRaces!ReplacedSessionStep
       /\ case = "redemption" => Redemption!RefusalsStep
       /\ case = "publication" => ReadinessStep]_suite

\* The per-document cap never shrinks the result (capPerDocument), a document's relations
\* are on its first hit and on no other, no chunk is returned twice; in the first pass, with
\* roll-up, no two hits of one document show the same provision, and no two hits of a
\* consolidation family have the same citation of their own.  Twins of a family that are
\* rolled up from different fragments both stay: what retrieve.go:786 says of them is not
\* claimed here.  A search that has a query vector comes back empty only when no law passes its
\* filter, promotion appends to the natural ranking, and with the current-law filter every
\* hit of the first pass was current law at some moment of the request.
AnswersSound ==
    CASE case = "rank" -> /\ Ranking!CapFair /\ Ranking!RelationsOnce /\ Ranking!NothingTwice
                          /\ Ranking!FamilyCollapsed /\ Ranking!NothingOnlyWhenNothing
      [] case = "promote" -> Promotion!NaturalKept /\ Promotion!FamilyCollapsed
      [] case = "live" ->
            LiveTables!TypeOK /\ LiveTables!NothingTwice /\ LiveTables!RankedUnderTheLaw
      [] OTHER -> TRUE

\* However few of the index's candidates pass the filter, the vector arm answers with as many
\* chunks as the exact scan would, of law that the pass may rank and in order of distance, also
\* while the tables change; a list shorter than asked for is the exact one.  Which chunks fill
\* a full list is up to the approximate index (vectorArm's retry).
ShortfallsRefilled ==
    [][/\ case = "rank" => Ranking!RefillStep
       /\ case = "live" => LiveTables!RefillStep]_suite

(***************************************************************************)
(* Liveness: a goroutine that runs is scheduled, a request ends by its     *)
(* deferred Close, the database runs the statements of an open             *)
(* transaction, and whoever waits for a row lock that becomes free again   *)
(* and again gets it.  Nothing is assumed of clients and operators.        *)
(***************************************************************************)
PoolCaller == <<q1, q2, d1>>
TokenRequest == <<r1, r2>>
Session == IF case = "switches" THEN <<"o1", "o2", "k1">> ELSE <<"o1", "c1", "k1">>

\* One goroutine or session is at one statement at a time.
Runs(n) ==
    \/ /\ case = "pool"
       /\ \/ n \in 1..2 /\ (Acquire(PoolCaller[n]) \/ Return(PoolCaller[n]) \/ CloseDurable(PoolCaller[n]))
          \/ CloseBundle(PoolCaller[n]) \/ FinishClose(PoolCaller[n])
       /\ UNCHANGED suite
    \/ case = "switches" /\ n = 3 /\ Switches!AddReleaseRetentionHold("k1") /\ RestCatalog
    \/ case = "collectors" /\ n = 3 /\ CollectorRuns!AddReleaseRetentionHold("k1") /\ RestCatalog
    \/ /\ case = "collectors" /\ n = 2
       /\ CollectorRuns!ClaimReleaseForRetention("c1") \/ CollectorRuns!FinalizeReleaseRetentionClaim("c1")
       /\ RestCatalog
    \/ case = "tokens" /\ n \in 1..2 /\ TokenRequests!Progress(TokenRequest[n]) /\ RestOAuth
    \/ /\ case = "tokens" /\ n = 3 /\ TokenRequests!CallbackStep("k1") /\ RestOAuth
       /\ UNCHANGED <<registry, consents, fam, events, op, handed, job>>
    \/ case = "answers" /\ n = 1 /\ EndedSearch!SearchStep /\ RestSearch

Takes(n) ==
    \/ case = "pool" /\ (AcquireOpen(PoolCaller[n]) \/ CloseLease(PoolCaller[n])) /\ UNCHANGED suite
    \/ /\ case = "switches"
       /\ \/ Switches!ActivateCorpusRelease(Session[n]) \/ Switches!ActivateCommit(Session[n])
          \/ Switches!LockCorpusReleaseForActivation(Session[n])
       /\ RestCatalog
    \/ /\ case = "collectors" /\ n = 1
       /\ \/ CollectorRuns!ActivateCorpusRelease("o1") \/ CollectorRuns!ActivateCommit("o1")
          \/ CollectorRuns!LockCorpusReleaseForActivation("o1")
       /\ RestCatalog
    \/ /\ case = "tokens"
       /\ TokenRequests!Begin(TokenRequest[n]) \/ TokenRequests!LockCredential(TokenRequest[n])
       /\ RestOAuth

LiveSpec ==
    /\ SuiteSpec
    /\ \A n \in 1..3 : WF_suiteVars(Runs(n))
    /\ \A n \in 1..2 : SF_suiteVars(Takes(n))

Asks(n) ==
    CASE case = "pool" -> n \in 1..2 /\ pc[PoolCaller[n]] = "pinned"
      [] case = "switches" -> Switches!InTransaction(Session[n])
      [] case = "collectors" -> CollectorRuns!InTransaction(Session[n])
      [] case = "tokens" -> n \in 1..2 /\ op[TokenRequest[n]].pc # "idle"
      [] case = "answers" -> n = 1 /\ req.pc \notin {"idle", "done", "failed"}

Served(n) == IF case = "pool" THEN n \in 1..2 /\ pc[PoolCaller[n]] = "leased" ELSE ~Asks(n)

\* A client that keeps pinning gets leases, also after failed closes, and every
\* transaction, token request and search ends.
RequestsServed == \A n \in 1..3 : []<>Asks(n) => []<>Served(n)
===============================================================================
