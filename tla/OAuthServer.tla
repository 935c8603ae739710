---------------------------- MODULE OAuthServer ----------------------------
(***************************************************************************)
(* The OAuth authorization server (pkg/oauthserver) on top of Identity:    *)
(* pending consents, grants with their family of credentials (code, PKCE   *)
(* record, access and refresh tokens), and the requests that use them.  A  *)
(* request owns one database transaction: it takes the row of the account  *)
(* before it reads a grant, works on its own copy of the family, and       *)
(* Operation.Finish decides whether the copy is committed.  Fosite, the    *)
(* protocol library, decides which store methods are called in which order.*)
(***************************************************************************)
EXTENDS Identity, Sequences, SequencesExt

CONSTANTS
    Clients,       \* client identifiers
    Grants,        \* rows of auth.oauth_grant
    ConsentLife, CodeLife, AccessLife, RefreshLife,
    MaxCreds       \* bound of the credentials of one grant

TokenLifeAssumption ==
    /\ {ConsentLife, CodeLife, AccessLife, RefreshLife} \subseteq Nat \ {0}
    /\ CodeLife <= AccessLife /\ AccessLife <= RefreshLife

VARIABLES
    registry,   \* the clients of the running configuration
    consents,   \* auth.pending_consent
    fam,        \* auth.oauth_grant with its auth.oauth_session rows
    events,     \* auth.oauth_security_event
    op,         \* the requests, each with its Operation
    handed,     \* credentials written to a client: <<grant, index>>
    job         \* the cleanup command: its time and its grant candidates

oauthVars == <<registry, consents, fam, events, op, handed, job>>
serverVars == <<identityVars, oauthVars>>

Kinds == {"authorize_code", "pkce", "access_token", "refresh_token"}
Live(c) == ~c.consumed /\ ~c.revoked

NoConsent == [row |-> "none", client |-> Unset, bound |-> Unset, expires |-> 0]
NoGrant == [row |-> "none", account |-> Unset, epoch |-> 0, client |-> Unset,
            reason |-> "none", retain |-> 0, handle |-> Unset, creds |-> <<>>]
NoOp == [pc |-> "idle", purpose |-> "none", client |-> Unset, account |-> Unset,
         epoch |-> 0, lockEpoch |-> 0, session |-> Unset, handle |-> Unset,
         wish |-> "none", grant |-> Unset, cred |-> 0, work |-> NoGrant,
         failed |-> FALSE, issued |-> FALSE, code |-> FALSE, pkce |-> FALSE,
         decided |-> "none", replay |-> "none", complete |-> FALSE, sp |-> 0,
         perr |-> "nil", out |-> "none"]

OAuthInit ==
    /\ IdentityInit
    /\ registry = Clients
    /\ consents = [h \in Handles |-> NoConsent]
    /\ fam = [g \in Grants |-> NoGrant]
    /\ events = {}
    /\ op = [o \in ServerRequests |-> NoOp]
    /\ handed = {}
    /\ job = [at |-> 0, todo |-> {}]

-----------------------------------------------------------------------------
(* Pending consents.                                                       *)

\* lockAndValidateConsent, up to the binding.
ConsentUsable(h, s) ==
    /\ consents[h].row = "open"
    /\ now < consents[h].expires
    /\ sessions[s].row = "row" /\ ~sessions[s].revoked /\ now < sessions[s].expires
    /\ accounts[sessions[s].account].status = "active"
    /\ accounts[sessions[s].account].epoch = sessions[s].epoch

\* A decision that consumed its consent keeps the rows of the session and of
\* the consent locked until its transaction ends.
Deciding(o) == op[o].purpose = "authorize" /\ op[o].decided # "none"
SessionRowFree(s) == \A o \in ServerRequests : Deciding(o) => op[o].session # s
ConsentRowFree(h) == \A o \in ServerRequests : Deciding(o) => op[o].handle # h

ConsentExpiry == now + ConsentLife

\* handleAuthorize: the validated request is sealed and stored, then its handle
\* becomes the browser's cookie.
CreatePendingConsent(b, h, c) ==
    /\ consents[h].row = "none"
    /\ c \in registry
    /\ consents' = [consents EXCEPT ![h] = [row |-> "open", client |-> c, bound |-> Unset,
                                            expires |-> ConsentExpiry]]
    /\ cookies' = [cookies EXCEPT ![b].handle = h]
    /\ UNCHANGED <<now, accounts, logins, sessions, callback, locked>>
    /\ UNCHANGED <<registry, fam, events, op, handed, job>>

\* The rest of handleAuthorize with a session, and handleResume: the consent is
\* bound to the website session of the browser and the page is rendered.
BindPendingConsent(b) ==
    LET h == cookies[b].handle
        s == cookies[b].session IN
    /\ h # Unset /\ Authenticate(b)
    /\ locked[sessions[s].account] = Unset
    /\ SessionRowFree(s) /\ ConsentRowFree(h)
    /\ ConsentUsable(h, s)
    /\ consents[h].bound = Unset
    /\ consents' = [consents EXCEPT ![h].bound = s]
    /\ UNCHANGED <<registry, fam, events, op, handed, job>>
    /\ UNCHANGED identityVars

\* handleAuthorize without a session, or a plain login.
StartLogin(b, l) ==
    /\ ~Authenticate(b)
    /\ BeginLogin(b, l, cookies[b].handle)
    /\ UNCHANGED oauthVars

-----------------------------------------------------------------------------
(* The consent decision: one Operation with purpose authorize.             *)

\* handleDecision before its transaction: the principal of the cookie and a
\* first read of the consent, which must be bound to that session.
StartDecision(o, b, wish) ==
    LET h == cookies[b].handle
        s == cookies[b].session IN
    /\ op[o].pc = "idle"
    /\ h # Unset /\ Authenticate(b)
    /\ locked[sessions[s].account] = Unset
    /\ SessionRowFree(s) /\ ConsentRowFree(h)
    /\ ConsentUsable(h, s)
    /\ consents[h].bound = s
    /\ consents[h].client \in registry
    /\ op' = [op EXCEPT ![o] =
            [NoOp EXCEPT !.pc = "begin", !.purpose = "authorize", !.wish = wish,
                         !.handle = h, !.session = s, !.client = consents[h].client,
                         !.account = sessions[s].account, !.epoch = sessions[s].epoch]]
    /\ UNCHANGED <<registry, consents, fam, events, handed, job>>
    /\ UNCHANGED identityVars

\* Store.Begin with purpose authorize takes the account row at once and is
\* rolled back when the account is not active.
Begin(o) ==
    LET a == op[o].account IN
    /\ op[o].pc = "begin"
    /\ locked[a] = Unset
    /\ IF accounts[a].status = "active"
       THEN /\ op' = [op EXCEPT ![o].pc = "consume", ![o].lockEpoch = accounts[a].epoch]
            /\ locked' = [locked EXCEPT ![a] = o]
       ELSE /\ op' = [op EXCEPT ![o] = [NoOp EXCEPT !.out = "denied"]]
            /\ UNCHANGED locked
    /\ UNCHANGED <<now, accounts, logins, sessions, cookies, callback>>
    /\ UNCHANGED <<registry, consents, fam, events, handed, job>>

\* ConsumePendingConsent: the consent is validated again under the locks; the
\* row is marked in the transaction, and a denial ends the protocol.
ConsumePendingConsent(o) ==
    LET h == op[o].handle
        s == op[o].session
        valid == ConsentUsable(h, s) /\ consents[h].bound = s IN
    /\ op[o].pc = "consume"
    /\ SessionRowFree(s) /\ ConsentRowFree(h)
    /\ op' = IF ~valid
             THEN [op EXCEPT ![o].pc = "finish", ![o].perr = "access_denied"]
             ELSE IF op[o].wish = "deny"
             THEN [op EXCEPT ![o].pc = "finish", ![o].perr = "access_denied",
                             ![o].decided = "deny"]
             ELSE [op EXCEPT ![o].pc = "code", ![o].decided = "approve"]
    /\ UNCHANGED <<registry, consents, fam, events, handed, job>>
    /\ UNCHANGED identityVars

Credential(kind, life) ==
    [kind |-> kind, consumed |-> FALSE, revoked |-> FALSE, expires |-> now + life]

\* CreateAuthorizeCodeSession: the grant and its code, for the principal whose
\* epoch the transaction found under the lock.
CreateAuthorizeCodeSession(o, g) ==
    /\ op[o].pc = "code"
    /\ fam[g].row = "none"
    /\ \A p \in ServerRequests : op[p].grant # g
    /\ op' = IF op[o].epoch = op[o].lockEpoch
             THEN [op EXCEPT ![o].pc = "challenge", ![o].issued = TRUE, ![o].code = TRUE,
                     ![o].grant = g,
                     ![o].work = [row |-> "row", account |-> op[o].account,
                                  epoch |-> op[o].epoch, client |-> op[o].client,
                                  reason |-> "none", retain |-> now + CodeLife,
                                  handle |-> op[o].handle,
                                  creds |-> <<Credential("authorize_code", CodeLife)>>]]
             ELSE [op EXCEPT ![o].pc = "finish", ![o].issued = TRUE,
                             ![o].perr = "access_denied"]
    /\ UNCHANGED <<registry, consents, fam, events, handed, job>>
    /\ UNCHANGED identityVars

\* CreatePKCERequestSession: the challenge of the code, in the same grant, with
\* the expiry of the code.
CreatePKCERequestSession(o) ==
    /\ op[o].pc = "challenge"
    /\ op' = [op EXCEPT ![o].pc = "finish", ![o].pkce = TRUE,
                        ![o].work.creds = Append(@, [@[1] EXCEPT !.kind = "pkce"])]
    /\ UNCHANGED <<registry, consents, fam, events, handed, job>>
    /\ UNCHANGED identityVars

-----------------------------------------------------------------------------
(* Requests that present a credential: token exchange, revocation, bearer. *)

Kind(g, i) == fam[g].creds[i].kind

\* The transaction of a presented credential begins without a lock.
Present(o, purpose, c, g, i) ==
    /\ op[o].pc = "idle"
    /\ op' = [op EXCEPT ![o] = [NoOp EXCEPT !.pc = "credential", !.purpose = purpose,
                                            !.client = c, !.grant = g, !.cred = i]]
    /\ UNCHANGED <<registry, consents, fam, events, handed, job>>
    /\ UNCHANGED identityVars

\* tokenCredential: a code or a refresh token, never both.
TokenCredential(g, i) == Kind(g, i) \in {"authorize_code", "refresh_token"}

\* handleToken: the form is checked and the client is registered.  MaxCreds
\* bounds how often a grant is refreshed.
HandleToken(o, c, g, i) ==
    /\ TokenCredential(g, i)
    /\ c \in registry
    /\ Live(fam[g].creds[i]) => Len(fam[g].creds) + 2 <= MaxCreds
    /\ Present(o, "exchange", c, g, i)

\* handleRevoke: an access or a refresh token of a registered client.
HandleRevoke(o, c, g, i) ==
    /\ Kind(g, i) \in {"access_token", "refresh_token"}
    /\ c \in registry
    /\ Present(o, "revocation", c, g, i)

\* Protect: a bearer token in front of the resource.
Protect(o, g, i) ==
    /\ Kind(g, i) = "access_token"
    /\ Present(o, "introspection", Unset, g, i)

\* validateLockedGrant.
GrantUsable(o, f) ==
    /\ accounts[f.account].status = "active"
    /\ accounts[f.account].epoch = f.epoch
    /\ f.reason = "none"
    /\ op[o].purpose # "introspection" => op[o].client = f.client
    /\ f.client \in registry

\* The credential check Fosite makes with the stored expiry.
Unexpired(c) == now <= c.expires

Refuse(o, err) == [op[o] EXCEPT !.pc = "finish", !.perr = err]

\* What a locked and valid grant lets the request do next, by what the
\* credential is and how far it is used: GetAuthorizeCodeSession,
\* GetRefreshTokenSession and GetAccessTokenSession.
AfterCode(o, f, c) ==
    IF c.consumed
    THEN IF Unexpired(c) THEN [op[o] EXCEPT !.pc = "revoke", !.replay = "code_replay", !.work = f]
                         ELSE Refuse(o, "invalid_grant")
    ELSE IF c.revoked \/ ~Unexpired(c) THEN Refuse(o, "invalid_grant")
    ELSE [op[o] EXCEPT !.pc = "verify", !.work = f]

AfterRefresh(o, f, c) ==
    IF op[o].purpose = "exchange"
    THEN IF c.consumed
         THEN IF Unexpired(c)
              THEN [op[o] EXCEPT !.pc = "revoke", !.replay = "refresh_replay", !.work = f]
              ELSE Refuse(o, "invalid_grant")
         ELSE IF c.revoked \/ ~Unexpired(c) THEN Refuse(o, "invalid_grant")
         ELSE [op[o] EXCEPT !.pc = "rotate", !.work = f]
    ELSE IF c.consumed \/ c.revoked \/ ~Unexpired(c) THEN Refuse(o, "nil")
    ELSE [op[o] EXCEPT !.pc = "revoke", !.work = f]

AfterAccess(o, f, c) ==
    IF op[o].purpose = "introspection"
    THEN IF ~Live(c) \/ ~Unexpired(c) THEN Refuse(o, "inactive") ELSE Refuse(o, "nil")
    ELSE IF ~Live(c) \/ ~Unexpired(c) THEN Refuse(o, "nil")
    ELSE [op[o] EXCEPT !.pc = "revoke", !.work = f]

NotFound(o) ==
    Refuse(o, CASE op[o].purpose = "exchange" -> "invalid_grant"
                [] op[o].purpose = "revocation" -> "nil"
                [] OTHER -> "inactive")

AfterGet(o) ==
    LET f == fam[op[o].grant]
        c == f.creds[op[o].cred] IN
    IF ~GrantUsable(o, f) THEN NotFound(o)
    ELSE CASE c.kind = "authorize_code" -> AfterCode(o, f, c)
           [] c.kind = "refresh_token" -> AfterRefresh(o, f, c)
           [] OTHER -> AfterAccess(o, f, c)

\* lockCredential: the owner is looked up, then the account, the grant and the
\* credential are locked in that order, and only then is anything decided.
LockCredential(o) ==
    LET f == fam[op[o].grant] IN
    /\ op[o].pc = "credential"
    /\ IF f.row = "row"
       THEN /\ locked[f.account] = Unset
            /\ locked' = [locked EXCEPT ![f.account] = o]
            /\ op' = [op EXCEPT ![o] = AfterGet(o)]
       ELSE op' = [op EXCEPT ![o] = NotFound(o)] /\ UNCHANGED locked
    /\ UNCHANGED <<now, accounts, logins, sessions, cookies, callback>>
    /\ UNCHANGED <<registry, consents, fam, events, handed, job>>

-----------------------------------------------------------------------------
(* Store methods inside a token exchange or a revocation.                  *)

\* ConsumeOAuthSession: only a credential neither consumed nor revoked.
Consume(f, i) == [f EXCEPT !.creds[i].consumed = TRUE]

ExtendRetention(f, until) == [f EXCEPT !.retain = IF until > @ THEN until ELSE @]

PKCEOf(f) == CHOOSE i \in DOMAIN f.creds : f.creds[i].kind = "pkce"

Own(o, rec) ==
    /\ op' = [op EXCEPT ![o] = rec]
    /\ UNCHANGED <<registry, consents, fam, events, handed, job>>
    /\ UNCHANGED identityVars

\* GetPKCERequestSession and DeletePKCERequestSession; the verifier may be wrong.
DeletePKCERequestSession(o) ==
    LET f == op[o].work IN
    /\ op[o].pc = "verify"
    /\ \/ /\ Live(f.creds[PKCEOf(f)])
          /\ \/ Own(o, [op[o] EXCEPT !.pc = "redeem", !.work = Consume(f, PKCEOf(f))])
             \/ Own(o, [Refuse(o, "invalid_grant") EXCEPT !.work = Consume(f, PKCEOf(f))])
       \/ /\ ~Live(f.creds[PKCEOf(f)])
          /\ Own(o, Refuse(o, "invalid_grant"))

\* InvalidateAuthorizeCodeSession, the first call in Fosite's savepoint.
InvalidateAuthorizeCodeSession(o) ==
    /\ op[o].pc = "redeem"
    /\ Own(o, [op[o] EXCEPT !.pc = "access", !.sp = 1, !.work = Consume(@, op[o].cred)])

RevokedAccess(f) ==
    [f EXCEPT !.creds = [i \in DOMAIN @ |->
        IF @[i].kind = "access_token" THEN [@[i] EXCEPT !.revoked = TRUE] ELSE @[i]]]

\* Mutant: the access tokens of the old refresh token live on.
MRotateRefreshToken(o) ==
    /\ op[o].pc = "rotate"
    /\ Own(o, [op[o] EXCEPT !.pc = "access", !.sp = 1, !.work = Consume(@, op[o].cred)])

\* RotateRefreshToken: the token is consumed and the access tokens of the grant
\* are revoked.
RotateRefreshToken(o) ==
    /\ op[o].pc = "rotate"
    /\ Own(o, [op[o] EXCEPT !.pc = "access", !.sp = 1,
                            !.work = RevokedAccess(Consume(@, op[o].cred))])

\* CreateAccessTokenSession.
CreateAccessTokenSession(o) ==
    LET f == op[o].work IN
    /\ op[o].pc = "access"
    /\ Own(o, [op[o] EXCEPT !.pc = "refresh", !.issued = TRUE,
                 !.work = ExtendRetention([f EXCEPT !.creds =
                                Append(@, Credential("access_token", AccessLife))],
                            now + AccessLife)])

\* CreateRefreshTokenSession, and the release of the savepoint.
CreateRefreshTokenSession(o) ==
    LET f == op[o].work IN
    /\ op[o].pc = "refresh"
    /\ Own(o, [op[o] EXCEPT !.pc = "finish", !.sp = 0,
                 !.work = ExtendRetention([f EXCEPT !.creds =
                                Append(@, Credential("refresh_token", RefreshLife))],
                            now + RefreshLife)])

RevokedFamily(f, reason) ==
    [f EXCEPT !.reason = IF @ = "none" THEN reason ELSE @,
              !.creds = [i \in DOMAIN @ |-> [@[i] EXCEPT !.revoked = TRUE]]]

\* revokeGrant, called for the access and for the refresh side of a replay or
\* of a revocation; the second call finds the family revoked.
RevokeGrant(o) ==
    /\ op[o].pc = "revoke"
    /\ Own(o, [op[o] EXCEPT !.pc = "finish",
                 !.work = RevokedFamily(@, IF op[o].replay # "none" THEN op[o].replay
                                           ELSE "client_revoked"),
                 !.complete = op[o].replay # "none",
                 !.perr = IF op[o].replay # "none" THEN "invalid_grant" ELSE "nil"])

\* A store call fails: op.fail.  Fosite rolls its savepoint back, which may fail
\* as well, and reports a server error.
InOperation(o) == op[o].pc \notin {"idle", "begin", "credential", "finish"}

StorageFault(o) ==
    /\ InOperation(o)
    /\ \E n \in {0, op[o].sp} :
           Own(o, [Refuse(o, "server_error") EXCEPT !.failed = TRUE, !.sp = n])

-----------------------------------------------------------------------------
(* Operation.Finish.                                                       *)

ApprovalComplete(o) ==
    op[o].purpose = "authorize" =>
        op[o].decided = "approve" /\ op[o].code /\ op[o].pkce

\* Mutant: only a request without a protocol error is committed.
MCommitOutcome(o) ==
    CASE op[o].failed \/ op[o].sp # 0 -> "inconsistent"
      [] op[o].perr = "nil" /\ ApprovalComplete(o) -> "committed"
      [] OTHER -> "rolled_back"

\* The commit policy, in the order of its cases.
CommitOutcome(o) ==
    LET p == op[o] IN
    IF p.failed \/ p.sp # 0 THEN "inconsistent"
    ELSE IF p.complete /\ p.replay # "none" /\ ~p.issued /\ p.perr = "invalid_grant"
    THEN "replay_committed"
    ELSE IF p.decided = "deny" /\ ~p.issued /\ p.perr = "access_denied"
    THEN "denied_committed"
    ELSE IF p.perr = "nil" /\ p.replay = "none" /\ ApprovalComplete(o) THEN "committed"
    ELSE IF p.replay # "none" \/ p.complete \/ p.decided # "none" \/ p.perr = "nil"
    THEN "inconsistent"
    ELSE "rolled_back"

Committing(o) == CommitOutcome(o) \in {"committed", "replay_committed", "denied_committed"}

\* The rows the transaction leaves when it commits.
Commit(o) ==
    /\ fam' = IF op[o].work.row = "row" THEN [fam EXCEPT ![op[o].grant] = op[o].work] ELSE fam
    /\ consents' = IF op[o].decided # "none"
                   THEN [consents EXCEPT ![op[o].handle].row = "consumed"] ELSE consents
    /\ events' = IF op[o].complete THEN events \cup {<<op[o].grant, op[o].replay>>} ELSE events

Rollback == UNCHANGED <<fam, consents, events>>

\* The credentials a committed answer carries: the code after an approval, the
\* two tokens after an exchange.
Written(o) ==
    CASE op[o].purpose = "authorize" -> {<<op[o].grant, 1>>}
      [] op[o].purpose = "exchange" ->
            {<<op[o].grant, Len(op[o].work.creds) - n>> : n \in {0, 1}}
      [] OTHER -> {}

\* The handler's answer: nothing of the protocol result is written unless
\* Finish succeeded.
ServerAnswer(o, committed) ==
    IF CommitOutcome(o) = "inconsistent" \/ (Committing(o) /\ ~committed) THEN "unavailable"
    ELSE IF op[o].perr # "nil" THEN op[o].perr
    ELSE "ok"

\* Finish and the answer.  The commit may fail, and a failed commit may have
\* taken effect although the server was told otherwise.
Finish(o) ==
    /\ op[o].pc = "finish"
    /\ \E committed, effective \in BOOLEAN :
        /\ committed => effective
        /\ ~Committing(o) => ~committed /\ ~effective
        /\ IF effective THEN Commit(o) ELSE Rollback
        /\ op' = [op EXCEPT ![o] = [NoOp EXCEPT !.out = ServerAnswer(o, committed)]]
        /\ handed' = IF ServerAnswer(o, committed) = "ok" THEN handed \cup Written(o) ELSE handed
        /\ cookies' = [b \in Browsers |->
               IF op[o].purpose = "authorize" /\ committed /\ cookies[b].handle = op[o].handle
               THEN [cookies[b] EXCEPT !.handle = Unset] ELSE cookies[b]]
    /\ locked' = UnlockAccounts(o)
    /\ UNCHANGED <<now, accounts, logins, sessions, callback, registry, job>>

-----------------------------------------------------------------------------
(* The operator, the cleanup command and restarts.                         *)

\* auth.block_user_account also revokes the account's grants.
BlockAccount(a) ==
    /\ Block(a)
    /\ fam' = [g \in Grants |-> IF fam[g].row = "row" /\ fam[g].account = a
                                    /\ fam[g].reason = "none"
                                THEN [fam[g] EXCEPT !.reason = "account_blocked"] ELSE fam[g]]
    /\ UNCHANGED <<registry, consents, events, op, handed, job>>

DeleteExpiredPendingConsents ==
    \E D \in (SUBSET {h \in Handles : consents[h].row \in {"open", "consumed"}
                            /\ consents[h].expires <= now /\ ConsentRowFree(h)}) \ {{}} :
        /\ consents' = [h \in Handles |-> IF h \in D THEN [consents[h] EXCEPT !.row = "deleted"]
                                          ELSE consents[h]]
        /\ UNCHANGED <<registry, fam, events, op, handed, job>>
        /\ UNCHANGED identityVars

\* An expired website session takes the consents bound to it along.
DeleteExpiredSessionsAndConsents ==
    \E D \in (SUBSET {s \in ExpiredSessions : SessionRowFree(s)}) \ {{}} :
        /\ sessions' = WithoutSessions(D)
        /\ consents' = [h \in Handles |->
                IF consents[h].bound \in D THEN [consents[h] EXCEPT !.row = "deleted"]
                ELSE consents[h]]
        /\ UNCHANGED <<now, accounts, logins, cookies, callback, locked>>
        /\ UNCHANGED <<registry, fam, events, op, handed, job>>

ListExpiredOAuthGrantCandidates ==
    /\ job.todo = {}
    /\ job' = [at |-> now, todo |-> {g \in Grants : fam[g].row = "row" /\ fam[g].retain <= now}]
    /\ job'.todo # {}
    /\ UNCHANGED <<registry, consents, fam, events, op, handed>>
    /\ UNCHANGED identityVars

\* deleteGrantFamily: a locked account is skipped, a grant whose retention was
\* extended since the listing is kept.
DeleteGrantFamily(g) ==
    /\ g \in job.todo
    /\ job' = [job EXCEPT !.todo = @ \ {g}]
    /\ fam' = IF fam[g].row = "row" /\ locked[fam[g].account] = Unset /\ fam[g].retain <= job.at
              THEN [fam EXCEPT ![g] = [@ EXCEPT !.row = "deleted", !.creds = <<>>]] ELSE fam
    /\ UNCHANGED <<registry, consents, events, op, handed>>
    /\ UNCHANGED identityVars

\* The server stops with its requests open; their transactions roll back and
\* the next process reads the client registry of its configuration.
Restart ==
    /\ \E R \in SUBSET Clients : registry' = R
    /\ op' = [o \in ServerRequests |-> NoOp]
    /\ callback' = [k \in Callbacks |-> NoCallback]
    /\ locked' = [a \in Accounts |-> Unset]
    /\ UNCHANGED <<now, accounts, logins, sessions, cookies>>
    /\ UNCHANGED <<consents, fam, events, handed, job>>

-----------------------------------------------------------------------------
Transact(o) ==
    \/ Begin(o) \/ LockCredential(o)
    \/ ConsumePendingConsent(o) \/ CreatePKCERequestSession(o)
    \/ \E g \in Grants : CreateAuthorizeCodeSession(o, g)
    \/ DeletePKCERequestSession(o) \/ InvalidateAuthorizeCodeSession(o)
    \/ RotateRefreshToken(o) \/ CreateAccessTokenSession(o) \/ CreateRefreshTokenSession(o)
    \/ RevokeGrant(o) \/ StorageFault(o) \/ Finish(o)

Login ==
    \/ Tick
    \/ \E k \in Callbacks, b \in Browsers : Arrive(k, b)
    \/ \E k \in Callbacks : CallbackStep(k)
    \/ \E b \in Browsers : SessionRowFree(cookies[b].session) /\ Logout(b)
    \/ \E a \in Accounts : Unblock(a)

OAuthNext ==
    \/ Login /\ UNCHANGED oauthVars
    \/ \E b \in Browsers, l \in Logins : StartLogin(b, l)
    \/ \E b \in Browsers, h \in Handles, c \in Clients : CreatePendingConsent(b, h, c)
    \/ \E b \in Browsers : BindPendingConsent(b)
    \/ \E o \in ServerRequests, b \in Browsers, wish \in {"approve", "deny"} : StartDecision(o, b, wish)
    \/ \E o \in ServerRequests, x \in handed :
          /\ fam[x[1]].row = "row"
          /\ \/ \E c \in Clients : HandleToken(o, c, x[1], x[2]) \/ HandleRevoke(o, c, x[1], x[2])
             \/ Protect(o, x[1], x[2])
    \/ \E o \in ServerRequests : Transact(o)
    \/ \E a \in Accounts : BlockAccount(a)
    \/ DeleteExpiredPendingConsents
    \/ DeleteExpiredSessionsAndConsents
    \/ ListExpiredOAuthGrantCandidates
    \/ \E g \in Grants : DeleteGrantFamily(g)
    \/ Restart

OAuthSpec == OAuthInit /\ [][OAuthNext]_serverVars

\* A request goes on once the database answers.  PostgreSQL queues the waiters
\* of a row, so a request that waits for its account gets the row in the end.
Progress(o) ==
    \/ ConsumePendingConsent(o) \/ CreatePKCERequestSession(o)
    \/ \E g \in Grants : CreateAuthorizeCodeSession(o, g)
    \/ DeletePKCERequestSession(o) \/ InvalidateAuthorizeCodeSession(o)
    \/ RotateRefreshToken(o) \/ CreateAccessTokenSession(o) \/ CreateRefreshTokenSession(o)
    \/ RevokeGrant(o) \/ Finish(o)

OAuthFairness ==
    /\ \A o \in ServerRequests : WF_serverVars(Progress(o)) /\ SF_serverVars(Begin(o)) /\ SF_serverVars(LockCredential(o))
    /\ \A k \in Callbacks : WF_serverVars(CallbackStep(k) /\ UNCHANGED oauthVars)

OAuthFairSpec == OAuthSpec /\ OAuthFairness

-----------------------------------------------------------------------------
OAuthTypeOK ==
    /\ IdentityTypeOK
    /\ registry \subseteq Clients
    /\ consents \in [Handles -> [row : {"none", "open", "consumed", "deleted"},
                                 client : Clients \cup {Unset}, bound : WebSessions \cup {Unset},
                                 expires : 0..(MaxTime + ConsentLife)]]
    /\ events \subseteq Grants \X {"code_replay", "refresh_replay"}
    /\ handed \subseteq Grants \X (1..MaxCreds)
    /\ \A g \in Grants :
          /\ fam[g].row \in {"none", "row", "deleted"}
          /\ Len(fam[g].creds) <= MaxCreds
          /\ \A i \in DOMAIN fam[g].creds : fam[g].creds[i].kind \in Kinds
    /\ \A o \in ServerRequests : op[o].sp \in 0..1 /\ (op[o].pc = "idle" => op[o].work = NoGrant)

\* A grant never has two credentials that could each be redeemed for tokens,
\* nor two access tokens that are accepted, whichever requests presented the
\* code or a refresh token at once and whichever of their steps failed.
LinearFamily ==
    \A g \in Grants :
        LET live(kinds) == {i \in DOMAIN fam[g].creds :
                              fam[g].creds[i].kind \in kinds /\ Live(fam[g].creds[i])} IN
        /\ Cardinality(live({"authorize_code", "refresh_token"})) <= 1
        /\ Cardinality(live({"access_token"})) <= 1

\* When a client is told invalid_grant for a proved replay, or a browser
\* access_denied for a denial, that decision is in the database: the family is
\* revoked and the replay recorded, the consent is used up.
RefusalsStep ==
    \A o \in ServerRequests : op[o].pc = "finish" /\ op'[o].pc = "idle" =>
    /\ op[o].replay # "none" /\ op'[o].out = "invalid_grant" =>
          /\ fam'[op[o].grant].reason # "none"
          /\ <<op[o].grant, op[o].replay>> \in events'
    /\ op[o].decided = "deny" /\ op'[o].out = "access_denied" =>
          consents'[op[o].handle].row = "consumed"
RefusalsStick == [][RefusalsStep]_serverVars

\* Whatever credential a client was given is a stored one: no answer carries a
\* token whose transaction did not commit.
HandedAreStored ==
    \A x \in handed : fam[x[1]].row # "none" /\
        (fam[x[1]].row = "row" => x[2] \in DOMAIN fam[x[1]].creds)

\* A consent makes at most one grant, however many decisions race, and the
\* grant is of the account and epoch of the session the consent was bound to.
OneGrantPerConsent ==
    \A g, k \in Grants : fam[g].row # "none" =>
        /\ fam[k].row # "none" /\ g # k => fam[g].handle # fam[k].handle
        /\ LET s == sessions[consents[fam[g].handle].bound] IN
              s.account = fam[g].account /\ s.epoch = fam[g].epoch

\* Blocking an account leaves nothing usable behind: while it is blocked, each
\* of its grants and sessions is revoked, also one that was being made when the
\* operator blocked it.
BlockLeavesNone ==
    \A a \in Accounts : accounts[a].status = "blocked" =>
        /\ \A g \in Grants : fam[g].row = "row" /\ fam[g].account = a => fam[g].reason # "none"
        /\ \A s \in WebSessions : sessions[s].row = "row" /\ sessions[s].account = a
                                     => sessions[s].revoked

\* Cleanup never deletes a family with a credential that has not expired,
\* although it lists candidates before it locks them.
OnlyExpiredStep ==
    \A g \in Grants : fam[g].row = "row" /\ fam'[g].row = "deleted" =>
        \A i \in DOMAIN fam[g].creds : fam[g].creds[i].expires <= now
OnlyExpiredDeleted == [][OnlyExpiredStep]_serverVars

\* Every request that began its transaction ends it: no request waits for ever
\* for an account row.
RequestsEnd == \A o \in ServerRequests : op[o].pc # "idle" ~> op[o].pc = "idle"

=============================================================================
