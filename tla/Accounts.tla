------------------------------ MODULE Accounts ------------------------------
(***************************************************************************)
(* Accounts, sign-in and roles: login, register, logout and the OIDC       *)
(* sign-in (sso_login, sso_callback) of server/modules/auth.py, and        *)
(* change_user_role of server/modules/admin.py.  The rate limiter in front *)
(* of login shares no state with the rest: it is module LoginLimiter.      *)
(*                                                                         *)
(* A handler h is one request under way.  It is cut at its awaits: one     *)
(* action is one statement or remote call with the code up to the next     *)
(* one.  Rows a handler has inserted and not committed are in pend[h]; an  *)
(* INSERT that meets a key of another's pending row waits for it.          *)
(*                                                                         *)
(* An e-mail address is an address and whether it is written in mixed      *)
(* case; a username is a base and whether it has the crm- prefix.  The     *)
(* identity provider is external: it answers a flow once it has            *)
(* authenticated somebody, and accepts each code once.                     *)
(***************************************************************************)
EXTENDS Integers, Sequences, FiniteSets

CONSTANTS
    Handlers,      \* requests that may be under way at once
    Replicas,      \* processes, each with its JWKS cache
    Browsers,      \* holders of the _sso_pkce cookie
    Bases, Addrs,  \* usernames without prefix, e-mail addresses in lower case
    Owned,         \* addresses in the domain crm-enterprise.local
    Logins,        \* usernames and addresses given to login
    Signups,       \* names and addresses given to register
    Identities,    \* names and addresses the identity provider returns
    Roles,         \* _ALLOWED_ROLES
    Admin,         \* the administrator's row that bootstrap creates
    AbortsOnError, \* a failed statement dooms the transaction (PostgreSQL)
    MaxSessions, MaxFlows, MaxEvents   \* bounds on logins, sign-ins and events

Names == [crm : BOOLEAN, base : Bases]
Emails == [addr : Addrs, cased : BOOLEAN]
Users == [id : Nat, name : Names, email : Emails, role : Roles, sso : BOOLEAN]

ASSUME AccountsAssumption ==
    /\ IsFiniteSet(Handlers) /\ Replicas # {} /\ Browsers # {} /\ Identities # {}
    /\ Owned \subseteq Addrs /\ {"user", "admin"} \subseteq Roles
    /\ Admin \in Users /\ Admin.id = 0 /\ ~Admin.sso
    /\ Logins \subseteq Names \cup Emails
    /\ Signups \subseteq [name : Names, email : Emails]
    /\ Identities \subseteq [name : {n \in Names : ~n.crm}, email : Emails]
    /\ AbortsOnError \in BOOLEAN
    /\ {MaxSessions, MaxFlows, MaxEvents} \subseteq Nat

VARIABLES
    users,      \* committed rows of users
    ids,        \* identity column: the last id given out
    pend,       \* pend[h]: rows inserted and not yet committed
    sessions,   \* rows of user_sessions; fresh: no role change since the role was read
    minted,     \* number of session tokens made
    flow,       \* flow[f]: the f-th sign-in: its browser, identity and code
    pkce,       \* pkce[b]: flow in the signed cookie, 0 if there is none
    key,        \* signing key the provider publishes (it withdraws older ones)
    jwks,       \* jwks[rep]: key in _jwks_cache, 0 if there is none
    pc, req,    \* the handlers
    events      \* registrations, role changes, logouts, expiries, rotations, failed calls

storeVars == <<users, ids, sessions, minted>>
ssoVars == <<flow, pkce, key, jwks>>
vars == <<users, ids, pend, sessions, minted, flow, pkce, key, jwks,
          pc, req, events>>

Fold(e) == [e EXCEPT !.cased = FALSE]           \* LOWER(email)
Prefixed(n) == [n EXCEPT !.crm = TRUE]          \* "crm-" + username

NoRow == [uid |-> 0, role |-> "user", fresh |-> FALSE]
Blank == [rep |-> CHOOSE r \in Replicas : TRUE,
          browser |-> CHOOSE b \in Browsers : TRUE, flow |-> 0, fetched |-> 0,
          failed |-> FALSE, row |-> NoRow]

Init ==
    /\ users = {Admin} /\ ids = 0
    /\ pend = [h \in Handlers |-> {}]
    /\ sessions = {} /\ minted = 0
    /\ flow = <<>> /\ pkce = [b \in Browsers |-> 0]
    /\ key = 1 /\ jwks = [rep \in Replicas |-> 0]
    /\ pc = [h \in Handlers |-> "idle"] /\ req = [h \in Handlers |-> Blank]
    /\ events = 0

\* Handler h goes on at l, with r as its local variables.
Goto(h, l, r) == pc' = [pc EXCEPT ![h] = l] /\ req' = [req EXCEPT ![h] = r]

\* The row a handler keeps of a user it has read.
Read(u) == [uid |-> u.id, role |-> u.role, fresh |-> TRUE]

\* Unique keys of users: username and email.
Clash(u, v) == u.name = v.name \/ u.email = v.email
Taken(u) == \E v \in users : Clash(u, v)
Locked(h, u) == \E g \in Handlers \ {h} : \E v \in pend[g] : Clash(u, v)

NewUser(name, email, sso) ==
    [id |-> ids + 1, name |-> name, email |-> email, role |-> "user", sso |-> sso]

\* A row of user_sessions under a new token, with the role read before.
NewSession(r) ==
    [sid |-> minted + 1, uid |-> r.row.uid, role |-> r.row.role, fresh |-> r.row.fresh,
     flow |-> r.flow, browser |-> r.browser]

-----------------------------------------------------------------------------
(* Password login, past the limiter.                                       *)

\* ORDER BY of the lookup: CRM-owned addresses first, then the username as
\* given, with the prefix, and the e-mail.
Rank(u, login) ==
    (IF u.email.addr \in Owned THEN 0 ELSE 3)
        + (IF u.name = login THEN 0 ELSE IF u.email = login THEN 2 ELSE 1)
Matches(login) ==
    {u \in users : \/ u.name = login \/ u.email = login
                   \/ login \in Names /\ u.name = Prefixed(login)}
Best(login) == {u \in Matches(login) : \A v \in Matches(login) : Rank(u, login) <= Rank(v, login)}

\* The row is read and its password verified (that of an account made by SSO
\* is a placeholder no password verifies against).  A login that fails is
\* answered and changes nothing here.
LoginLookup(h, login) ==
    /\ pc[h] = "idle"
    /\ minted + Cardinality({g \in Handlers : pc[g] = "insert"}) < MaxSessions
    /\ \E u \in Best(login) :
          ~u.sso /\ Goto(h, "insert", [Blank EXCEPT !.row = Read(u)])
    /\ UNCHANGED <<storeVars, pend, ssoVars, events>>

\* The session is inserted and committed.
LoginInsert(h) ==
    /\ pc[h] = "insert"
    /\ sessions' = sessions \cup {NewSession(req[h])}
    /\ minted' = minted + 1
    /\ Goto(h, "idle", Blank)
    /\ UNCHANGED <<users, ids, pend, ssoVars, events>>

-----------------------------------------------------------------------------
(* Accounts, roles and sessions.                                           *)

\* register: one INSERT with the fixed role, the address as it was given, and
\* the commit; a taken name or address is an error.
Register(new) ==
    LET u == NewUser(new.name, new.email, FALSE)
    IN  /\ events < MaxEvents
        /\ \A h \in Handlers : \A v \in pend[h] : ~Clash(u, v)
        /\ ids' = ids + 1
        /\ users' = IF Taken(u) THEN users ELSE users \cup {u}
        /\ events' = events + 1
        /\ UNCHANGED <<pend, sessions, minted, ssoVars, pc, req>>

\* change_user_role by an administrator's session.  It updates users only:
\* sessions, and handlers that have read the row, keep the role they have.
ChangeRole(s, u, role) ==
    /\ s.role = "admin" /\ events < MaxEvents
    /\ users' = (users \ {u}) \cup {[u EXCEPT !.role = role]}
    /\ sessions' = {IF t.uid = u.id THEN [t EXCEPT !.fresh = FALSE] ELSE t : t \in sessions}
    /\ req' = [h \in Handlers |-> IF req[h].row.uid = u.id
                                  THEN [req[h] EXCEPT !.row.fresh = FALSE] ELSE req[h]]
    /\ events' = events + 1
    /\ UNCHANGED <<ids, pend, minted, ssoVars, pc>>

Logout(s) ==
    /\ events < MaxEvents
    /\ sessions' = sessions \ {s}
    /\ events' = events + 1
    /\ UNCHANGED <<users, ids, pend, minted, ssoVars, pc, req>>

-----------------------------------------------------------------------------
(* Sign-in with the identity provider.                                     *)

\* Mutant: every sign-in uses the same state.
FixedState == IF flow = <<>> THEN 1 ELSE Len(flow)

\* state, verifier and nonce are new random values.
FreshState == Len(flow) + 1

\* sso_login: the flow goes into the cookie and replaces an older one.
SsoLogin(b) ==
    /\ Len(flow) < MaxFlows
    /\ flow' = Append(flow, [browser |-> b, who |-> CHOOSE i \in Identities : TRUE,
                            code |-> "none", kid |-> 0])
    /\ pkce' = [pkce EXCEPT ![b] = FreshState]
    /\ UNCHANGED <<storeVars, pend, key, jwks, pc, req, events>>

CookieExpires(b) ==
    /\ pkce[b] # 0 /\ events < MaxEvents
    /\ pkce' = [pkce EXCEPT ![b] = 0]
    /\ events' = events + 1
    /\ UNCHANGED <<storeVars, pend, flow, key, jwks, pc, req>>

\* External: the provider publishes another signing key.
RotateKey ==
    /\ events < MaxEvents
    /\ key' = key + 1
    /\ events' = events + 1
    /\ UNCHANGED <<storeVars, pend, flow, pkce, jwks, pc, req>>

\* sso_callback: the redirect of flow f is opened in browser b.  By then the
\* provider (external) has authenticated somebody, whose address it returns in
\* any case; the redirect may be opened again.  Without the cookie of that flow
\* the answer is invalid_state.
Callback(h, b, rep, f, who) ==
    /\ pc[h] = "idle" /\ pkce[b] = f
    /\ \/ flow[f].code = "none" /\ flow' = [flow EXCEPT ![f] = [@ EXCEPT !.who = who, !.code = "unspent"]]
       \/ flow[f].code # "none" /\ who = flow[f].who /\ UNCHANGED flow
    /\ Goto(h, "exchange", [Blank EXCEPT !.rep = rep, !.browser = b, !.flow = f])
    /\ UNCHANGED <<storeVars, pend, pkce, key, jwks, events>>

\* The code is exchanged for an ID token signed with the current key.
Exchange(h) ==
    LET f == req[h].flow
    IN  /\ pc[h] = "exchange"
        /\ \/ /\ flow[f].code = "unspent"
              /\ flow' = [flow EXCEPT ![f] = [@ EXCEPT !.code = "spent", !.kid = key]]
              /\ Goto(h, "find_key", req[h])
           \/ /\ flow[f].code = "spent"
              /\ Goto(h, "idle", Blank) /\ UNCHANGED flow
        /\ UNCHANGED <<storeVars, pend, pkce, key, jwks, events>>

\* Mutant: a key that is not in the cache is not looked for again.
FetchIfEmpty(h, kid) == jwks[req[h].rep] = 0

\* _find_key: a cache miss, and a kid that is not in the cache, both lead to a
\* request for the published keys.  With its key the token verifies: it is the
\* provider's, for this client, and has the nonce of the flow.
MustFetch(h, kid) == jwks[req[h].rep] # kid

FindKey(h) ==
    LET kid == flow[req[h].flow].kid
    IN  /\ pc[h] = "find_key"
        /\ \/ /\ MustFetch(h, kid)
              /\ Goto(h, "fetch", req[h])
           \/ /\ ~MustFetch(h, kid)
              /\ Goto(h, IF jwks[req[h].rep] = kid THEN "select" ELSE "invalid", req[h])
        /\ UNCHANGED <<storeVars, pend, ssoVars, events>>

\* The provider answers, and later the answer reaches the handler.
FetchJwks(h) ==
    /\ pc[h] = "fetch"
    /\ Goto(h, "fetched", [req[h] EXCEPT !.fetched = key])
    /\ UNCHANGED <<storeVars, pend, ssoVars, events>>

StoreJwks(h) ==
    /\ pc[h] = "fetched"
    /\ jwks' = [jwks EXCEPT ![req[h].rep] = req[h].fetched]
    /\ Goto(h, IF req[h].fetched = flow[req[h].flow].kid THEN "select" ELSE "invalid",
            [req[h] EXCEPT !.fetched = 0])
    /\ UNCHANGED <<storeVars, pend, flow, pkce, key, events>>

\* Entries of _jwks_cache live for _OIDC_CACHE_TTL_S.
JwksExpires(rep) ==
    /\ jwks[rep] # 0 /\ events < MaxEvents
    /\ jwks' = [jwks EXCEPT ![rep] = 0]
    /\ events' = events + 1
    /\ UNCHANGED <<storeVars, pend, flow, pkce, key, pc, req>>

\* The exchange, the discovery document or the keys cannot be fetched.
SsoUnavailable(h) ==
    /\ pc[h] \in {"exchange", "find_key", "fetch"} /\ events < MaxEvents
    /\ events' = events + 1
    /\ Goto(h, "invalid", [req[h] EXCEPT !.failed = TRUE])
    /\ UNCHANGED <<storeVars, pend, ssoVars>>

\* The rows of an address, whatever its case.
OfAddress(S, e) == {u \in S : Fold(u.email) = Fold(e)}

\* Mutant: the address is stored as the provider wrote it.
RawAccount(h, prefix) ==
    LET w == flow[req[h].flow].who
    IN  NewUser(IF prefix THEN Prefixed(w.name) ELSE w.name, w.email, TRUE)

\* The row to provision, under the plain or the prefixed name.
SsoAccount(h, prefix) ==
    LET w == flow[req[h].flow].who
    IN  NewUser(IF prefix THEN Prefixed(w.name) ELSE w.name, Fold(w.email), TRUE)

\* The user exists: what was read is kept and the transaction ends.
SelectFound(h) ==
    /\ pc[h] = "select"
    /\ \E u \in OfAddress(users, flow[req[h].flow].who.email) :
          Goto(h, "session", [req[h] EXCEPT !.row = Read(u)])
    /\ UNCHANGED <<storeVars, pend, ssoVars, events>>

SelectNone(h) ==
    /\ pc[h] = "select" /\ OfAddress(users, flow[req[h].flow].who.email) = {}
    /\ Goto(h, "provision", req[h])
    /\ UNCHANGED <<storeVars, pend, ssoVars, events>>

\* INSERT of the plain name; on a unique violation once more with the prefix.
Provision(h) ==
    LET u == SsoAccount(h, FALSE)
    IN  /\ pc[h] = "provision" /\ ~Locked(h, u)
        /\ ids' = ids + 1
        /\ \/ /\ ~Taken(u)
              /\ pend' = [pend EXCEPT ![h] = {u}] /\ Goto(h, "reread", req[h])
           \/ Taken(u) /\ Goto(h, "retry", req[h]) /\ UNCHANGED pend
        /\ UNCHANGED <<users, sessions, minted, ssoVars, events>>

\* Mutant: the retry repeats the plain name.
RetryPlain(h) == SsoAccount(h, FALSE)

RetryAccount(h) == SsoAccount(h, TRUE)

\* The second INSERT: any error of it is the answer (500).
Retry(h) ==
    LET u == RetryAccount(h)
    IN  /\ pc[h] = "retry" /\ ~Locked(h, u)
        /\ ids' = ids + 1
        /\ \/ /\ ~Taken(u) /\ ~AbortsOnError
              /\ pend' = [pend EXCEPT ![h] = {u}] /\ Goto(h, "reread", req[h])
           \/ (Taken(u) \/ AbortsOnError) /\ Goto(h, "refused", req[h]) /\ UNCHANGED pend
        /\ UNCHANGED <<users, sessions, minted, ssoVars, events>>

\* The row is read back (the first of that address, in no order) and committed.
Reread(h) ==
    /\ pc[h] = "reread"
    /\ \E u \in OfAddress(users \cup pend[h], flow[req[h].flow].who.email) :
          Goto(h, "session", [req[h] EXCEPT !.row = Read(u)])
    /\ users' = users \cup pend[h]
    /\ pend' = [pend EXCEPT ![h] = {}]
    /\ UNCHANGED <<ids, sessions, minted, ssoVars, events>>

\* Mutant: the session gets the role of a new account.
NewcomerRow(r) == [NewSession(r) EXCEPT !.role = "user"]

SsoSessionRow(r) == NewSession(r)

\* In a transaction of its own: the session.  The answer deletes the cookie.
SsoSession(h) ==
    /\ pc[h] = "session"
    /\ sessions' = sessions \cup {SsoSessionRow(req[h])}
    /\ minted' = minted + 1
    /\ pkce' = [pkce EXCEPT ![req[h].browser] = 0]
    /\ Goto(h, "idle", Blank)
    /\ UNCHANGED <<users, ids, pend, flow, key, jwks, events>>

\* invalid_token, or the 500 of a failed provisioning, is sent.
SsoRejected(h) ==
    /\ pc[h] \in {"invalid", "refused"}
    /\ Goto(h, "idle", Blank)
    /\ UNCHANGED <<storeVars, pend, ssoVars, events>>

-----------------------------------------------------------------------------
SsoStep(h) ==
    \/ Exchange(h) \/ FindKey(h) \/ FetchJwks(h) \/ StoreJwks(h)
    \/ SelectFound(h) \/ SelectNone(h) \/ Provision(h) \/ Retry(h) \/ Reread(h)
    \/ SsoSession(h) \/ SsoRejected(h)

Next ==
    \/ \E h \in Handlers : LoginInsert(h) \/ SsoStep(h) \/ SsoUnavailable(h)
    \/ \E h \in Handlers, login \in Logins : LoginLookup(h, login)
    \/ \E new \in Signups : Register(new)
    \/ \E s \in sessions : Logout(s) \/ \E u \in users, role \in Roles : ChangeRole(s, u, role)
    \/ \E b \in Browsers : SsoLogin(b) \/ CookieExpires(b)
    \/ RotateKey
    \/ \E h \in Handlers, b \in Browsers, rep \in Replicas, f \in DOMAIN flow, who \in Identities :
          Callback(h, b, rep, f, who)
    \/ \E rep \in Replicas : JwksExpires(rep)

Spec == Init /\ [][Next]_vars

-----------------------------------------------------------------------------
(* Properties.                                                             *)

\* However often the provider returns an address, in whatever case and however
\* many first sign-ins race, sso_callback provisions one account for it.
OneSsoAccount ==
    \A u, v \in users : u.sso /\ v.sso /\ Fold(u.email) = Fold(v.email) => u = v

\* Usernames and addresses stay unique although rows are checked when inserted
\* and published when committed.
UniqueAccounts == \A u, v \in users : Clash(u, v) \/ u.id = v.id => u = v

\* A provisioning fails only if the address has an account by now (a race that
\* the next sign-in finds settled), or somebody else has both the plain and the
\* prefixed name.
RefusedWithReason ==
    \A h \in Handlers : pc[h] = "refused" =>
        LET w == flow[req[h].flow].who
        IN  \/ OfAddress(users, w.email) # {}
            \/ \A n \in {w.name, Prefixed(w.name)} : \E u \in users : u.name = n
            \/ AbortsOnError

\* The JWKS cache heals itself when keys rotate: whatever answers overtake each
\* other, a token is rejected only if its key is withdrawn or a call failed.
RotationHeals ==
    \A h \in Handlers : pc[h] = "invalid" =>
        req[h].failed \/ flow[req[h].flow].kid # key

\* A session from SSO is one of the person the provider authenticated, in the
\* browser that began the sign-in, and the only one of that sign-in.
SsoSessionGenuine ==
    \A s \in sessions : s.flow # 0 =>
        /\ flow[s.flow].browser = s.browser
        /\ \E u \in users : u.id = s.uid /\ Fold(u.email) = Fold(flow[s.flow].who.email)
        /\ \A t \in sessions : t.flow = s.flow => t = s

\* The role in a session is a copy: it differs from the user's only if the
\* role was changed after the sign-in read it.
RoleCopied ==
    \A s \in sessions : \E u \in users : u.id = s.uid /\ (s.fresh => s.role = u.role)
=============================================================================
