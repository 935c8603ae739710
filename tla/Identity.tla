------------------------------ MODULE Identity ------------------------------
(***************************************************************************)
(* Google login and website sessions (pkg/identity) over the auth schema:  *)
(* one-use login transactions, accounts with an authorization epoch, and   *)
(* opaque sessions.  The callback handler is several steps, because two    *)
(* callbacks of one browser, a block of the account and the cleanup job    *)
(* run between its statements.                                             *)
(***************************************************************************)
EXTENDS Naturals, FiniteSets

CONSTANTS
    Accounts,      \* identities the provider can assert (issuer and subject)
    Browsers,
    Logins,        \* rows of auth.login_transaction
    WebSessions,      \* rows of auth.web_session
    Handles,       \* pending consents a login may return to
    Callbacks,     \* callback requests in flight
    ServerRequests,      \* other requests that lock an account row (see OAuthServer)
    LoginLife, SessionLife,   \* lifetimes in clock ticks
    MaxTime,       \* bound of the clock
    MaxEpoch,      \* bound of the authorization epoch
    Unset

LifeAssumption == LoginLife \in Nat \ {0} /\ SessionLife \in Nat \ {0}

\* Who locks a row is a callback or another request, and Unset is nobody and nothing.
IdentityAssumption ==
    /\ LifeAssumption /\ MaxTime \in Nat /\ MaxEpoch \in Nat \ {0}
    /\ Unset \notin Accounts \cup Browsers \cup Logins \cup WebSessions \cup Callbacks \cup ServerRequests
    /\ Callbacks \cap ServerRequests = {}

VARIABLES
    now,        \* the clock of the server and of the database
    accounts,   \* auth.user_account
    logins,     \* auth.login_transaction
    sessions,   \* auth.web_session
    cookies,    \* what each browser holds: login, session and consent handle
    callback,   \* the callback requests
    locked      \* which request holds the row of an account FOR UPDATE

identityVars == <<now, accounts, logins, sessions, cookies, callback, locked>>

NoLogin == [row |-> "none", browser |-> Unset, handle |-> Unset, expires |-> 0]
NoSession == [row |-> "none", account |-> Unset, epoch |-> 0, revoked |-> FALSE,
              expires |-> 0, login |-> Unset]
NoCallback == [pc |-> "idle", browser |-> Unset, login |-> Unset, old |-> Unset,
               handle |-> Unset, account |-> Unset]

IdentityTypeOK ==
    /\ now \in 0..MaxTime
    /\ accounts \in [Accounts -> [known : BOOLEAN, status : {"active", "blocked"},
                                  epoch : 1..MaxEpoch]]
    /\ logins \in [Logins -> [row : {"none", "open", "consumed", "deleted"},
                              browser : Browsers \cup {Unset}, handle : Handles \cup {Unset},
                              expires : 0..(MaxTime + LoginLife)]]
    /\ sessions \in [WebSessions -> [row : {"none", "row", "deleted"},
                                     account : Accounts \cup {Unset}, epoch : 0..MaxEpoch,
                                     revoked : BOOLEAN, expires : 0..(MaxTime + SessionLife),
                                     login : Logins \cup {Unset}]]
    /\ cookies \in [Browsers -> [login : Logins \cup {Unset}, session : WebSessions \cup {Unset},
                                 handle : Handles \cup {Unset}]]
    /\ callback \in [Callbacks -> [pc : {"idle", "arrived", "consumed", "verified",
                                         "revoked", "locked"},
                                   browser : Browsers \cup {Unset}, login : Logins \cup {Unset},
                                   old : WebSessions \cup {Unset}, handle : Handles \cup {Unset},
                                   account : Accounts \cup {Unset}]]
    /\ locked \in [Accounts -> Callbacks \cup ServerRequests \cup {Unset}]

IdentityInit ==
    /\ now = 0
    /\ accounts = [a \in Accounts |-> [known |-> FALSE, status |-> "active", epoch |-> 1]]
    /\ logins = [l \in Logins |-> NoLogin]
    /\ sessions = [s \in WebSessions |-> NoSession]
    /\ cookies = [b \in Browsers |-> [login |-> Unset, session |-> Unset, handle |-> Unset]]
    /\ callback = [k \in Callbacks |-> NoCallback]
    /\ locked = [a \in Accounts |-> Unset]

-----------------------------------------------------------------------------
\* PostgresStore.Session: the account and the session as they are now.
Session(s) ==
    /\ s # Unset
    /\ sessions[s].row = "row"
    /\ accounts[sessions[s].account].status = "active"
    /\ ~sessions[s].revoked
    /\ sessions[s].expires > now
    /\ sessions[s].epoch = accounts[sessions[s].account].epoch

\* Manager.Authenticate: the session of the browser's cookie.
Authenticate(b) == Session(cookies[b].session)

\* UPDATE auth.web_session SET revoked_at ... WHERE session_hash AND revoked_at IS NULL.
RevokeWebSession(s) ==
    IF s # Unset /\ sessions[s].row = "row"
    THEN [sessions EXCEPT ![s].revoked = TRUE]
    ELSE sessions

Tick ==
    /\ now < MaxTime
    /\ now' = now + 1
    /\ UNCHANGED <<accounts, logins, sessions, cookies, callback, locked>>

LoginExpiry == now + LoginLife

\* BeginLogin stores the transaction before it sets the cookie and redirects;
\* a consent handle makes /oauth/resume the return path.
BeginLogin(b, l, h) ==
    /\ logins[l].row = "none"
    /\ h # Unset => cookies[b].handle = h
    /\ logins' = [logins EXCEPT ![l] = [row |-> "open", browser |-> b, handle |-> h,
                                        expires |-> LoginExpiry]]
    /\ cookies' = [cookies EXCEPT ![b].login = l]
    /\ UNCHANGED <<now, accounts, sessions, callback, locked>>

\* The browser returns from the provider with the state of its login; the
\* request carries the cookies of that moment and may be sent twice.
Arrive(k, b) ==
    /\ callback[k].pc = "idle"
    /\ cookies[b].login # Unset
    /\ callback' = [callback EXCEPT ![k] =
            [NoCallback EXCEPT !.pc = "arrived", !.browser = b, !.login = cookies[b].login,
                               !.old = cookies[b].session, !.handle = cookies[b].handle]]
    /\ UNCHANGED <<now, accounts, logins, sessions, cookies, locked>>

\* The condition of the UPDATE in ConsumeLogin, for the browser's own row.
OpenLogin(k) ==
    LET l == logins[callback[k].login] IN l.row = "open" /\ l.expires > now

EndCallback(k) == callback' = [callback EXCEPT ![k] = NoCallback]

\* ConsumeLogin, in one statement; then the cookie is cleared and the consent
\* handle of the request has to be the one the login was started for.
ConsumeLogin(k) ==
    /\ callback[k].pc = "arrived"
    /\ IF OpenLogin(k)
       THEN /\ logins' = [logins EXCEPT ![callback[k].login].row = "consumed"]
            /\ cookies' = [cookies EXCEPT ![callback[k].browser].login = Unset]
            /\ IF logins[callback[k].login].handle \in {Unset, callback[k].handle}
               THEN callback' = [callback EXCEPT ![k].pc = "consumed"]
               ELSE EndCallback(k)
       ELSE EndCallback(k) /\ UNCHANGED <<logins, cookies>>
    /\ UNCHANGED <<now, accounts, sessions, locked>>

\* The exchange of the code and the verified claims name an account, or the
\* provider is unavailable, refuses, or the claims do not match.
VerifyProfile(k, a) ==
    /\ callback[k].pc = "consumed"
    /\ \/ callback' = [callback EXCEPT ![k].pc = "verified", ![k].account = a]
       \/ EndCallback(k)
    /\ UNCHANGED <<now, accounts, logins, sessions, cookies, locked>>

\* The session of the old cookie ends before a new one is made.
RevokeOldSession(k) ==
    /\ callback[k].pc = "verified"
    /\ sessions' = RevokeWebSession(callback[k].old)
    /\ callback' = [callback EXCEPT ![k].pc = "revoked"]
    /\ UNCHANGED <<now, accounts, logins, cookies, locked>>

\* CompleteLogin up to the status check: the upsert and the lock take the
\* account row; a blocked account rolls the transaction back.
LockUserAccount(k) ==
    LET a == callback[k].account IN
    /\ callback[k].pc = "revoked"
    /\ locked[a] = Unset
    /\ IF accounts[a].status = "active"
       THEN /\ accounts' = [accounts EXCEPT ![a].known = TRUE]
            /\ locked' = [locked EXCEPT ![a] = k]
            /\ callback' = [callback EXCEPT ![k].pc = "locked"]
       ELSE EndCallback(k) /\ UNCHANGED <<accounts, locked>>
    /\ UNCHANGED <<now, logins, sessions, cookies>>

UnlockAccounts(p) == [a \in Accounts |-> IF locked[a] = p THEN Unset ELSE locked[a]]

\* CreateWebSession and the commit; the cookie follows the commit.
CompleteLogin(k, s) ==
    LET a == callback[k].account IN
    /\ callback[k].pc = "locked"
    /\ sessions[s].row = "none"
    /\ sessions' = [sessions EXCEPT ![s] =
            [row |-> "row", account |-> a, epoch |-> accounts[a].epoch, revoked |-> FALSE,
             expires |-> now + SessionLife, login |-> callback[k].login]]
    /\ cookies' = [cookies EXCEPT ![callback[k].browser].session = s]
    /\ locked' = UnlockAccounts(k)
    /\ EndCallback(k)
    /\ UNCHANGED <<now, accounts, logins>>

\* A storage error or a lost request ends the callback; the transaction rolls back.
AbandonCallback(k) ==
    /\ callback[k].pc # "idle"
    /\ locked' = UnlockAccounts(k)
    /\ EndCallback(k)
    /\ UNCHANGED <<now, accounts, logins, sessions, cookies>>

\* handleLogout: the browser's own session, found current, is revoked.
Logout(b) ==
    /\ Authenticate(b)
    /\ sessions' = RevokeWebSession(cookies[b].session)
    /\ cookies' = [cookies EXCEPT ![b].session = Unset]
    /\ UNCHANGED <<now, accounts, logins, callback, locked>>

-----------------------------------------------------------------------------
\* The operator's auth.block_user_account and auth.unblock_user_account, each
\* one transaction that first takes the account row.
RevokedSessionsOf(a) ==
    [s \in WebSessions |-> IF sessions[s].account = a /\ sessions[s].row = "row"
                           THEN [sessions[s] EXCEPT !.revoked = TRUE] ELSE sessions[s]]

Block(a) ==
    /\ accounts[a].known
    /\ locked[a] = Unset
    /\ accounts[a].epoch < MaxEpoch
    /\ accounts' = [accounts EXCEPT ![a].status = "blocked", ![a].epoch = @ + 1]
    /\ sessions' = RevokedSessionsOf(a)
    /\ UNCHANGED <<now, logins, cookies, callback, locked>>

Unblock(a) ==
    /\ accounts[a].known
    /\ locked[a] = Unset
    /\ accounts[a].epoch < MaxEpoch
    /\ accounts' = [accounts EXCEPT ![a].status = "active", ![a].epoch = @ + 1]
    /\ UNCHANGED <<now, logins, sessions, cookies, callback, locked>>

\* auth-cleanup: expired rows, in batches that skip what is locked.
DeleteExpiredLoginTransactions ==
    \E D \in (SUBSET {l \in Logins : logins[l].row \in {"open", "consumed"}
                                        /\ logins[l].expires <= now}) \ {{}} :
        /\ logins' = [l \in Logins |-> IF l \in D THEN [logins[l] EXCEPT !.row = "deleted"]
                                       ELSE logins[l]]
        /\ UNCHANGED <<now, accounts, sessions, cookies, callback, locked>>

ExpiredSessions == {s \in WebSessions : sessions[s].row = "row" /\ sessions[s].expires <= now}

WithoutSessions(D) ==
    [s \in WebSessions |-> IF s \in D THEN [sessions[s] EXCEPT !.row = "deleted"]
                           ELSE sessions[s]]

DeleteExpiredWebSessions ==
    \E D \in (SUBSET ExpiredSessions) \ {{}} :
        /\ sessions' = WithoutSessions(D)
        /\ UNCHANGED <<now, accounts, logins, cookies, callback, locked>>

CallbackStep(k) ==
    \/ ConsumeLogin(k)
    \/ \E a \in Accounts : VerifyProfile(k, a)
    \/ RevokeOldSession(k)
    \/ LockUserAccount(k)
    \/ \E s \in WebSessions : CompleteLogin(k, s)
    \/ AbandonCallback(k)

IdentityNext ==
    \/ Tick
    \/ \E b \in Browsers, l \in Logins : BeginLogin(b, l, Unset)
    \/ \E k \in Callbacks, b \in Browsers : Arrive(k, b)
    \/ \E k \in Callbacks : CallbackStep(k)
    \/ \E b \in Browsers : Logout(b)
    \/ \E a \in Accounts : Block(a) \/ Unblock(a)
    \/ DeleteExpiredLoginTransactions
    \/ DeleteExpiredWebSessions

IdentitySpec == IdentityInit /\ [][IdentityNext]_identityVars

-----------------------------------------------------------------------------
\* A login transaction makes at most one session, however often and in which
\* order the browser repeats its callback and cleanup runs.
OneSessionPerLogin ==
    \A s, t \in WebSessions :
        s # t /\ sessions[s].login # Unset => sessions[s].login # sessions[t].login

\* A session is only ever made for an account that is active at that moment,
\* in its current epoch, although the profile was verified steps earlier.
NoSessionPastBlockStep ==
    \A s \in WebSessions : sessions[s].row = "none" /\ sessions'[s].row = "row"
        => Session(s)'
NoSessionPastBlock == [][NoSessionPastBlockStep]_identityVars

\* Once a login has replaced a browser's session, the session of the cookie the
\* callback came with is not accepted any more.
ReplacedSessionStep ==
    \A k \in Callbacks, s \in WebSessions :
        /\ callback[k].pc = "locked"
        /\ callback[k].old = s
        /\ sessions' # sessions
        => ~Session(s)'
ReplacedSessionEnds == [][ReplacedSessionStep]_identityVars

=============================================================================
