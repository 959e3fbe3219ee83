-------------------------- MODULE Accounts_proofs --------------------------
(***************************************************************************)
(* Proofs about Accounts for any number of requests, replicas, browsers,   *)
(* names and addresses: the keys of the users table, the accounts that SSO *)
(* provisions, and the roles that sessions copy.                           *)
(***************************************************************************)
EXTENDS Accounts, SequenceTheorems, TLAPS

Kept == [uid : Nat, role : Roles, fresh : BOOLEAN]
Requests == [rep : Replicas, browser : Browsers, flow : Nat, fetched : Nat,
             failed : BOOLEAN, row : Kept]
Flows == [browser : Browsers, who : Identities, code : {"none", "unspent", "spent"}, kid : Nat]
SessionRows == [sid : Nat, uid : Nat, role : Roles, fresh : BOOLEAN, flow : Nat, browser : Browsers]
Labels == {"idle", "insert", "exchange", "find_key", "fetch", "fetched", "select",
           "provision", "retry", "reread", "session", "invalid", "refused"}

StoreType ==
    /\ users \subseteq Users /\ ids \in Nat
    /\ pend \in [Handlers -> SUBSET Users]
    /\ sessions \subseteq SessionRows /\ minted \in Nat

SsoType ==
    /\ flow \in Seq(Flows) /\ pkce \in [Browsers -> Nat]
    /\ key \in Nat /\ jwks \in [Replicas -> Nat]

HandlerType ==
    /\ pc \in [Handlers -> Labels] /\ req \in [Handlers -> Requests]
    /\ events \in Nat

\* A handler past its callback knows its flow.
FlowKnown ==
    \A h \in Handlers : pc[h] \notin {"idle", "insert"} => req[h].flow \in 1..Len(flow)

AccountsType == StoreType /\ SsoType /\ HandlerType /\ FlowKnown

\* Two rows that no table with the unique keys and the identity column has both of.
Alike(u, v) == Clash(u, v) \/ u.id = v.id

\* Committed and pending rows together respect the keys.
KeysApart ==
    /\ \A u, v \in users : Alike(u, v) => u = v
    /\ \A h \in Handlers : \A u \in pend[h], v \in users : ~Alike(u, v)
    /\ \A g, h \in Handlers : g # h => \A u \in pend[g], v \in pend[h] : ~Alike(u, v)
    /\ \A h \in Handlers : \A u, v \in pend[h] : u = v

IdsGiven ==
    /\ \A u \in users : u.id <= ids
    /\ \A h \in Handlers : \A u \in pend[h] : u.id <= ids

\* SSO stores addresses in lower case.
SsoFolded ==
    /\ \A u \in users : u.sso => Fold(u.email) = u.email
    /\ \A h \in Handlers : \A u \in pend[h] : u.sso => Fold(u.email) = u.email

StoreInv == KeysApart /\ IdsGiven /\ SsoFolded

\* A role that was read is the user's, unless it has been changed since.
Truthful(x) == \E u \in users : u.id = x.uid /\ (x.fresh => x.role = u.role)
RolesRead ==
    /\ \A s \in sessions : Truthful(s)
    /\ \A h \in Handlers : pc[h] \in {"insert", "session"} => Truthful(req[h].row)

-----------------------------------------------------------------------------
LEMMA BlankType == Blank \in Requests /\ NoRow \in Kept
  <1>1. NoRow \in Kept
    BY AccountsAssumption DEF NoRow, Kept
  <1>2. (CHOOSE r \in Replicas : TRUE) \in Replicas /\ (CHOOSE b \in Browsers : TRUE) \in Browsers
    BY AccountsAssumption
  <1> QED BY <1>1, <1>2 DEF Blank, Requests

LEMMA ReadType == ASSUME NEW u \in Users PROVE Read(u) \in Kept /\ Read(u).uid = u.id
  BY DEF Read, Kept, Users

LEMMA UserFields ==
  ASSUME NEW u \in Users
  PROVE  /\ u.id \in Nat /\ u.name \in Names /\ u.email \in Emails /\ u.role \in Roles
         /\ u.sso \in BOOLEAN
         /\ \A role \in Roles : /\ [u EXCEPT !.role = role] \in Users
                                /\ [u EXCEPT !.role = role].id = u.id
                                /\ [u EXCEPT !.role = role].name = u.name
                                /\ [u EXCEPT !.role = role].email = u.email
                                /\ [u EXCEPT !.role = role].sso = u.sso
                                /\ [u EXCEPT !.role = role].role = role
  BY DEF Users

LEMMA FoldFacts == ASSUME NEW e \in Emails PROVE Fold(e) \in Emails /\ Fold(Fold(e)) = Fold(e)
  BY DEF Fold, Emails

LEMMA NewUserFields ==
  ASSUME NEW n \in Names, NEW e \in Emails, ids \in Nat
  PROVE  /\ NewUser(n, e, TRUE) \in Users /\ NewUser(n, e, FALSE) \in Users
         /\ NewUser(n, e, TRUE).id = ids + 1 /\ NewUser(n, e, FALSE).id = ids + 1
         /\ NewUser(n, e, TRUE).email = e /\ ~NewUser(n, e, FALSE).sso
  BY AccountsAssumption DEF NewUser, Users

LEMMA SsoAccountFields ==
  ASSUME AccountsType, NEW h \in Handlers, pc[h] \notin {"idle", "insert"}, NEW p \in BOOLEAN
  PROVE  /\ SsoAccount(h, p) \in Users /\ SsoAccount(h, p).id = ids + 1
         /\ Fold(SsoAccount(h, p).email) = SsoAccount(h, p).email
  <1> DEFINE w == flow[req[h].flow].who
             n == IF p THEN Prefixed(w.name) ELSE w.name
  <1>1. req[h].flow \in 1..Len(flow) /\ flow \in Seq(Flows) /\ ids \in Nat
    BY DEF AccountsType, FlowKnown, SsoType, StoreType
  <1>2. flow[req[h].flow] \in Flows
    BY <1>1, ElementOfSeq
  <1>3. w \in Identities
    BY <1>2 DEF Flows
  <1>4. w.name \in Names /\ w.email \in Emails
    BY <1>3, AccountsAssumption
  <1>5. Prefixed(w.name) \in Names
    BY <1>4 DEF Prefixed, Names
  <1>6. n \in Names /\ Fold(w.email) \in Emails /\ Fold(Fold(w.email)) = Fold(w.email)
    BY <1>4, <1>5, FoldFacts
  <1> DEFINE e == Fold(w.email)
             u == [id |-> ids + 1, name |-> n, email |-> e, role |-> "user", sso |-> TRUE]
  <1>7. SsoAccount(h, p) = u
    BY DEF SsoAccount, NewUser
  <1> HIDE DEF n, w
  <1>8. u \in Users /\ u.id = ids + 1 /\ u.email = e
    BY <1>1, <1>6, AccountsAssumption DEF Users
  <1>9. Fold(u.email) = u.email
    BY <1>6, <1>8
  <1> HIDE DEF u
  <1> QED BY <1>7, <1>8, <1>9

-----------------------------------------------------------------------------
(* Types.                                                                  *)

LEMMA InitType == Init => AccountsType
  <1> SUFFICES ASSUME Init PROVE AccountsType
    OBVIOUS
  <1>1. StoreType
    BY AccountsAssumption DEF Init, StoreType
  <1>2. SsoType
    BY DEF Init, SsoType
  <1>3. HandlerType
    BY BlankType DEF Init, HandlerType, Labels
  <1>4. FlowKnown
    BY DEF Init, FlowKnown
  <1> QED BY <1>1, <1>2, <1>3, <1>4 DEF AccountsType

\* A handler that goes on keeps the types.
LEMMA GotoType ==
  ASSUME HandlerType, NEW h \in Handlers, NEW l \in Labels, NEW r \in Requests,
         Goto(h, l, r), events' \in Nat
  PROVE  /\ HandlerType' /\ pc'[h] = l /\ req'[h] = r
         /\ \A g \in Handlers \ {h} : pc'[g] = pc[g] /\ req'[g] = req[g]
  BY DEF HandlerType, Goto

\* It still knows its flow if it did, flows being only added.
LEMMA GotoFlow ==
  ASSUME AccountsType, NEW h \in Handlers, NEW l \in Labels, NEW r \in Requests,
         Goto(h, l, r), SsoType', Len(flow') >= Len(flow),
         l \in {"idle", "insert"} \/ r.flow \in 1..Len(flow')
  PROVE  FlowKnown'
  <1>1. /\ pc'[h] = l /\ req'[h] = r
        /\ \A g \in Handlers \ {h} : pc'[g] = pc[g] /\ req'[g] = req[g]
    BY DEF AccountsType, HandlerType, Goto
  <1>2. flow \in Seq(Flows) /\ flow' \in Seq(Flows)
    BY DEF AccountsType, SsoType
  <1>3. Len(flow) \in Nat /\ Len(flow') \in Nat
    BY <1>2
  <1> SUFFICES ASSUME NEW g \in Handlers, pc'[g] \notin {"idle", "insert"}
               PROVE  req'[g].flow \in 1..Len(flow')
    BY DEF FlowKnown
  <1>4. CASE g = h
    BY <1>1, <1>4
  <1>5. CASE g # h
    <2>1. req[g].flow \in 1..Len(flow) /\ req'[g] = req[g]
      BY <1>1, <1>5 DEF AccountsType, FlowKnown
    <2> QED BY <1>3, <2>1
  <1> QED BY <1>4, <1>5

LEMMA MoveType ==
  ASSUME AccountsType, NEW h \in Handlers, NEW l \in Labels, NEW r \in Requests,
         Goto(h, l, r), StoreType', SsoType', events' \in Nat, Len(flow') >= Len(flow),
         l \in {"idle", "insert"} \/ r.flow \in 1..Len(flow')
  PROVE  AccountsType'
  <1>1. HandlerType'
    BY GotoType DEF AccountsType
  <1>2. FlowKnown'
    BY GotoFlow
  <1> QED BY <1>1, <1>2 DEF AccountsType

LEMMA StoreSame == StoreType /\ UNCHANGED <<storeVars, pend>> => StoreType'
  BY DEF StoreType, storeVars

LEMMA SsoSame == SsoType /\ UNCHANGED ssoVars => SsoType' /\ Len(flow') >= Len(flow)
  <1> SUFFICES ASSUME SsoType, UNCHANGED ssoVars PROVE SsoType' /\ Len(flow') >= Len(flow)
    OBVIOUS
  <1>1. SsoType' /\ flow' = flow /\ flow \in Seq(Flows)
    BY DEF SsoType, ssoVars
  <1>2. Len(flow) \in Nat
    BY <1>1
  <1> QED BY <1>1, <1>2

\* A step of a handler that touches nothing but its own state.
LEMMA LocalType ==
  ASSUME AccountsType, NEW h \in Handlers, NEW l \in Labels, NEW r \in Requests,
         Goto(h, l, r), UNCHANGED <<storeVars, pend, ssoVars>>, events' \in Nat,
         l \in {"idle", "insert"} \/ r.flow \in 1..Len(flow)
  PROVE  AccountsType'
  <1>1. StoreType' /\ SsoType' /\ Len(flow') >= Len(flow)
    BY StoreSame, SsoSame DEF AccountsType
  <1>2. flow' = flow
    BY DEF ssoVars
  <1> QED BY <1>1, <1>2, MoveType

LEMMA HandlerFacts ==
  ASSUME AccountsType, NEW h \in Handlers
  PROVE  /\ req[h] \in Requests /\ pc[h] \in Labels
         /\ req[h].rep \in Replicas /\ req[h].browser \in Browsers /\ req[h].flow \in Nat
         /\ req[h].row \in Kept /\ req[h].fetched \in Nat
         /\ \A x \in Kept : /\ [req[h] EXCEPT !.row = x] \in Requests
                            /\ [req[h] EXCEPT !.row = x].row = x
                            /\ [req[h] EXCEPT !.row = x].flow = req[h].flow
         /\ \A n \in Nat : /\ [req[h] EXCEPT !.fetched = n] \in Requests
                           /\ [req[h] EXCEPT !.fetched = n].flow = req[h].flow
         /\ [req[h] EXCEPT !.failed = TRUE] \in Requests
         /\ [req[h] EXCEPT !.failed = TRUE].flow = req[h].flow
  <1>1. req[h] \in Requests /\ pc[h] \in Labels
    BY DEF AccountsType, HandlerType
  <1> QED BY <1>1 DEF Requests

LEMMA NewSessionType ==
  ASSUME NEW r \in Requests, minted \in Nat
  PROVE  /\ NewSession(r) \in SessionRows /\ NewSession(r).uid = r.row.uid
         /\ NewSession(r).role = r.row.role /\ NewSession(r).fresh = r.row.fresh
  BY DEF NewSession, SessionRows, Requests, Kept

LEMMA FlowElement ==
  ASSUME AccountsType, NEW f \in 1..Len(flow)
  PROVE  /\ flow[f] \in Flows
         /\ \A x \in Flows : /\ [flow EXCEPT ![f] = x] \in Seq(Flows)
                             /\ Len([flow EXCEPT ![f] = x]) = Len(flow)
  <1>1. flow \in Seq(Flows)
    BY DEF AccountsType, SsoType
  <1> QED BY <1>1, ElementOfSeq, ExceptSeq

\* Sessions, registrations and roles.
LEMMA OfficeType ==
  ASSUME AccountsType
  PROVE  /\ \A h \in Handlers : LoginInsert(h) \/ SsoSession(h) => AccountsType'
         /\ \A new \in Signups : Register(new) => AccountsType'
         /\ \A s \in sessions, u \in users, role \in Roles : ChangeRole(s, u, role) => AccountsType'
         /\ \A s \in sessions : Logout(s) => AccountsType'
  <1>0. /\ StoreType /\ SsoType /\ HandlerType /\ FlowKnown
        /\ minted \in Nat /\ ids \in Nat /\ events \in Nat
    BY DEF AccountsType, StoreType, HandlerType
  <1>1. ASSUME NEW h \in Handlers, LoginInsert(h) \/ SsoSession(h) PROVE AccountsType'
    <2>1. NewSession(req[h]) \in SessionRows
      BY <1>0, HandlerFacts, NewSessionType
    <2>2. StoreType'
      BY <1>0, <1>1, <2>1 DEF LoginInsert, SsoSession, SsoSessionRow, StoreType
    <2>3. SsoType' /\ flow' = flow
      BY <1>0, <1>1, HandlerFacts DEF LoginInsert, SsoSession, SsoType, ssoVars
    <2>4. "idle" \in Labels /\ Goto(h, "idle", Blank) /\ events' = events
      BY <1>1 DEF LoginInsert, SsoSession, Labels
    <2>5. Len(flow') >= Len(flow)
      BY <1>0, <2>3 DEF SsoType
    <2> QED BY <1>0, <2>2, <2>3, <2>4, <2>5, BlankType, MoveType
  <1>2. ASSUME NEW new \in Signups, Register(new) PROVE AccountsType'
    <2> DEFINE u == NewUser(new.name, new.email, FALSE)
    <2>1. u \in Users
      BY <1>0, AccountsAssumption, NewUserFields
    <2> HIDE DEF u
    <2>2. /\ ids' = ids + 1 /\ users' \in {users, users \cup {u}} /\ pend' = pend
          /\ sessions' = sessions /\ minted' = minted /\ UNCHANGED ssoVars
          /\ pc' = pc /\ req' = req /\ events' = events + 1
      BY <1>2 DEF Register, u
    <2>3. StoreType'
      BY <1>0, <2>1, <2>2 DEF StoreType
    <2>4. SsoType' /\ FlowKnown' /\ HandlerType'
      BY <1>0, <2>2, SsoSame DEF FlowKnown, ssoVars, HandlerType
    <2> QED BY <2>3, <2>4 DEF AccountsType
  <1>3. ASSUME NEW s \in sessions, NEW u \in users, NEW role \in Roles, ChangeRole(s, u, role)
        PROVE  AccountsType'
    <2>1. u \in Users /\ [u EXCEPT !.role = role] \in Users
      BY <1>0, UserFields DEF StoreType
    <2>2. ASSUME NEW t \in SessionRows PROVE [t EXCEPT !.fresh = FALSE] \in SessionRows
      BY DEF SessionRows
    <2>3. ASSUME NEW h \in Handlers
          PROVE  /\ [req[h] EXCEPT !.row.fresh = FALSE] \in Requests
                 /\ [req[h] EXCEPT !.row.fresh = FALSE].flow = req[h].flow
      <3>1. req[h] \in Requests
        BY <1>0 DEF HandlerType
      <3> QED BY <3>1 DEF Requests, Kept
    <2>4. StoreType'
      BY <1>0, <1>3, <2>1, <2>2 DEF ChangeRole, StoreType
    <2>5. SsoType' /\ flow' = flow /\ pc' = pc
      BY <1>0, <1>3, SsoSame DEF ChangeRole, ssoVars
    <2>6. HandlerType'
      BY <1>0, <1>3, <2>3 DEF ChangeRole, HandlerType
    <2>7. ASSUME NEW h \in Handlers PROVE req'[h].flow = req[h].flow
      BY <1>3, <2>3 DEF ChangeRole
    <2>8. FlowKnown'
      BY <1>0, <2>5, <2>7 DEF FlowKnown
    <2> QED BY <2>4, <2>5, <2>6, <2>8 DEF AccountsType
  <1>4. ASSUME NEW s \in sessions, Logout(s) PROVE AccountsType'
    <2>1. StoreType'
      BY <1>0, <1>4 DEF Logout, StoreType
    <2>2. SsoType' /\ FlowKnown' /\ HandlerType'
      BY <1>0, <1>4, SsoSame DEF Logout, FlowKnown, ssoVars, HandlerType
    <2> QED BY <2>1, <2>2 DEF AccountsType
  <1> QED BY <1>1, <1>2, <1>3, <1>4

\* Sign-ins begin, cookies and keys come and go.
LEMMA WorldType ==
  ASSUME AccountsType
  PROVE  /\ \A b \in Browsers : SsoLogin(b) \/ CookieExpires(b) => AccountsType'
         /\ \A rep \in Replicas : JwksExpires(rep) => AccountsType'
         /\ RotateKey => AccountsType'
  <1>0. /\ StoreType /\ SsoType /\ HandlerType /\ FlowKnown /\ flow \in Seq(Flows)
        /\ Len(flow) \in Nat /\ events \in Nat
    BY DEF AccountsType, SsoType, HandlerType
  <1>1. ASSUME NEW b \in Browsers, SsoLogin(b) PROVE AccountsType'
    <2> DEFINE x == [browser |-> b, who |-> CHOOSE i \in Identities : TRUE,
                     code |-> "none", kid |-> 0]
    <2>1. x \in Flows
      BY AccountsAssumption DEF Flows
    <2>2. flow' = Append(flow, x)
      BY <1>1 DEF SsoLogin
    <2> HIDE DEF x
    <2>3. flow' \in Seq(Flows) /\ Len(flow') = Len(flow) + 1
      BY <1>0, <2>1, <2>2, AppendProperties
    <2>4. SsoType'
      BY <1>0, <1>1, <2>3 DEF SsoLogin, SsoType, FreshState
    <2>5. StoreType' /\ HandlerType' /\ pc' = pc /\ req' = req
      BY <1>0, <1>1, StoreSame DEF SsoLogin, HandlerType
    <2>6. FlowKnown'
      BY <1>0, <2>3, <2>5 DEF FlowKnown
    <2> QED BY <2>4, <2>5, <2>6 DEF AccountsType
  <1>2. ASSUME NEW b \in Browsers, CookieExpires(b) PROVE AccountsType'
    BY <1>0, <1>2, StoreSame DEF CookieExpires, AccountsType, SsoType, HandlerType, FlowKnown
  <1>3. ASSUME NEW rep \in Replicas, JwksExpires(rep) PROVE AccountsType'
    BY <1>0, <1>3, StoreSame DEF JwksExpires, AccountsType, SsoType, HandlerType, FlowKnown
  <1>4. CASE RotateKey
    BY <1>0, <1>4, StoreSame DEF RotateKey, AccountsType, SsoType, HandlerType, FlowKnown
  <1> QED BY <1>1, <1>2, <1>3, <1>4

\* The handlers of a sign-in up to its token.
LEMMA TokenType ==
  ASSUME AccountsType, NEW h \in Handlers
  PROVE  /\ Exchange(h) \/ FindKey(h) \/ FetchJwks(h) \/ StoreJwks(h) => AccountsType'
         /\ SsoUnavailable(h) \/ SsoRejected(h) => AccountsType'
         /\ \A b \in Browsers, rep \in Replicas, f \in DOMAIN flow, who \in Identities :
               Callback(h, b, rep, f, who) => AccountsType'
  <1>0. /\ StoreType /\ SsoType /\ HandlerType /\ FlowKnown /\ flow \in Seq(Flows)
        /\ Len(flow) \in Nat /\ events \in Nat /\ key \in Nat
    BY DEF AccountsType, SsoType, HandlerType
  <1>l. /\ "idle" \in Labels /\ "exchange" \in Labels /\ "find_key" \in Labels
        /\ "fetch" \in Labels /\ "fetched" \in Labels /\ "select" \in Labels
        /\ "invalid" \in Labels
    BY DEF Labels
  <1>k. pc[h] \notin {"idle", "insert"} => req[h].flow \in 1..Len(flow)
    BY <1>0 DEF FlowKnown
  <1>1. ASSUME Exchange(h) PROVE AccountsType'
    <2> DEFINE f == req[h].flow
    <2>1. f \in 1..Len(flow) /\ StoreType' /\ events' = events
          /\ UNCHANGED <<pkce, key, jwks>>
      BY <1>0, <1>1, <1>k, StoreSame DEF Exchange
    <2>2. CASE flow' = flow /\ Goto(h, "idle", Blank)
      <3>1. SsoType' /\ Len(flow') >= Len(flow)
        BY <1>0, <2>1, <2>2 DEF SsoType
      <3> QED BY <1>0, <1>l, <2>1, <2>2, <3>1, BlankType, MoveType
    <2>3. CASE /\ flow' = [flow EXCEPT ![f] = [@ EXCEPT !.code = "spent", !.kid = key]]
               /\ Goto(h, "find_key", req[h])
      <3>1. [flow[f] EXCEPT !.code = "spent", !.kid = key] \in Flows
        BY <1>0, <2>1, FlowElement DEF Flows
      <3>2. flow' \in Seq(Flows) /\ Len(flow') = Len(flow)
        BY <2>1, <2>3, <3>1, FlowElement
      <3>3. SsoType' /\ Len(flow') >= Len(flow)
        BY <1>0, <2>1, <3>2 DEF SsoType
      <3> QED BY <1>0, <1>l, <2>1, <2>3, <3>2, <3>3, HandlerFacts, MoveType
    <2> QED BY <1>1, <2>2, <2>3 DEF Exchange
  <1>2. ASSUME FindKey(h) PROVE AccountsType'
    <2>1. /\ \/ Goto(h, "fetch", req[h]) \/ Goto(h, "select", req[h]) \/ Goto(h, "invalid", req[h])
          /\ UNCHANGED <<storeVars, pend, ssoVars>> /\ events' = events
          /\ pc[h] \notin {"idle", "insert"}
      BY <1>2 DEF FindKey
    <2> QED BY <1>0, <1>l, <1>k, <2>1, HandlerFacts, LocalType
  <1>3. ASSUME FetchJwks(h) PROVE AccountsType'
    <2>1. /\ Goto(h, "fetched", [req[h] EXCEPT !.fetched = key])
          /\ UNCHANGED <<storeVars, pend, ssoVars>> /\ events' = events
          /\ pc[h] \notin {"idle", "insert"}
      BY <1>3 DEF FetchJwks
    <2>2. /\ [req[h] EXCEPT !.fetched = key] \in Requests
          /\ [req[h] EXCEPT !.fetched = key].flow = req[h].flow
      BY <1>0, HandlerFacts
    <2> QED BY <1>0, <1>l, <1>k, <2>1, <2>2, LocalType
  <1>4. ASSUME StoreJwks(h) PROVE AccountsType'
    <2>1. /\ \/ Goto(h, "select", [req[h] EXCEPT !.fetched = 0])
             \/ Goto(h, "invalid", [req[h] EXCEPT !.fetched = 0])
          /\ StoreType' /\ events' = events /\ flow' = flow /\ pkce' = pkce /\ key' = key
          /\ pc[h] \notin {"idle", "insert"}
      BY <1>0, <1>4, StoreSame DEF StoreJwks
    <2>2. /\ [req[h] EXCEPT !.fetched = 0] \in Requests
          /\ [req[h] EXCEPT !.fetched = 0].flow = req[h].flow
      BY HandlerFacts
    <2>3. SsoType' /\ Len(flow') >= Len(flow)
      <3>1. req[h].rep \in Replicas /\ req[h].fetched \in Nat
        BY HandlerFacts
      <3>2. jwks' = [jwks EXCEPT ![req[h].rep] = req[h].fetched]
        BY <1>4 DEF StoreJwks
      <3> QED BY <1>0, <2>1, <3>1, <3>2 DEF SsoType
    <2> QED BY <1>0, <1>l, <1>k, <2>1, <2>2, <2>3, MoveType
  <1>5. ASSUME SsoUnavailable(h) PROVE AccountsType'
    <2>1. /\ Goto(h, "invalid", [req[h] EXCEPT !.failed = TRUE])
          /\ UNCHANGED <<storeVars, pend, ssoVars>> /\ events' \in Nat
          /\ pc[h] \notin {"idle", "insert"}
      BY <1>0, <1>5 DEF SsoUnavailable
    <2>2. /\ [req[h] EXCEPT !.failed = TRUE] \in Requests
          /\ [req[h] EXCEPT !.failed = TRUE].flow = req[h].flow
      BY HandlerFacts
    <2> QED BY <1>0, <1>l, <1>k, <2>1, <2>2, LocalType
  <1>6. ASSUME SsoRejected(h) PROVE AccountsType'
    <2>1. /\ Goto(h, "idle", Blank) /\ UNCHANGED <<storeVars, pend, ssoVars>>
          /\ events' = events
      BY <1>6 DEF SsoRejected
    <2> QED BY <1>0, <1>l, <2>1, BlankType, LocalType
  <1>7. ASSUME NEW b \in Browsers, NEW rep \in Replicas, NEW f \in DOMAIN flow,
               NEW who \in Identities, Callback(h, b, rep, f, who)
        PROVE  AccountsType'
    <2> DEFINE r == [Blank EXCEPT !.rep = rep, !.browser = b, !.flow = f]
    <2>1. f \in 1..Len(flow) /\ StoreType' /\ events' = events
          /\ UNCHANGED <<pkce, key, jwks>> /\ Goto(h, "exchange", r)
      BY <1>0, <1>7, StoreSame DEF Callback
    <2>2. r \in Requests /\ r.flow = f
      <3>1. f \in Nat /\ Blank \in Requests
        BY <1>0, <2>1, BlankType
      <3> QED BY <3>1 DEF Requests
    <2> HIDE DEF r
    <2>3. flow' \in Seq(Flows) /\ Len(flow') = Len(flow)
      <3>1. CASE flow' = flow
        BY <1>0, <3>1
      <3>2. CASE flow' = [flow EXCEPT ![f] = [@ EXCEPT !.who = who, !.code = "unspent"]]
        <4>1. [flow[f] EXCEPT !.who = who, !.code = "unspent"] \in Flows
          BY <2>1, FlowElement DEF Flows
        <4> QED BY <2>1, <3>2, <4>1, FlowElement
      <3> QED BY <1>7, <3>1, <3>2 DEF Callback
    <2>4. SsoType' /\ Len(flow') >= Len(flow)
      BY <1>0, <2>1, <2>3 DEF SsoType
    <2> QED BY <1>0, <1>l, <2>1, <2>2, <2>3, <2>4, MoveType
  <1> QED BY <1>1, <1>2, <1>3, <1>4, <1>5, <1>6, <1>7

\* Reading a user and provisioning one.
LEMMA AccountType ==
  ASSUME AccountsType, NEW h \in Handlers
  PROVE  /\ \A login \in Logins : LoginLookup(h, login) => AccountsType'
         /\ SelectFound(h) \/ SelectNone(h) \/ Provision(h) \/ Retry(h) \/ Reread(h) => AccountsType'
  <1>0. /\ StoreType /\ SsoType /\ HandlerType /\ FlowKnown
        /\ ids \in Nat /\ events \in Nat /\ users \subseteq Users
        /\ pend \in [Handlers -> SUBSET Users]
    BY DEF AccountsType, StoreType, HandlerType
  <1>l. /\ "insert" \in Labels /\ "provision" \in Labels /\ "retry" \in Labels
        /\ "reread" \in Labels /\ "session" \in Labels /\ "refused" \in Labels
    BY DEF Labels
  <1>k. pc[h] \notin {"idle", "insert"} => req[h].flow \in 1..Len(flow)
    BY <1>0 DEF FlowKnown
  <1>1. ASSUME NEW login \in Logins, LoginLookup(h, login) PROVE AccountsType'
    <2>1. PICK u \in users : Goto(h, "insert", [Blank EXCEPT !.row = Read(u)])
      BY <1>1 DEF LoginLookup, Best, Matches
    <2>2. [Blank EXCEPT !.row = Read(u)] \in Requests
      BY <1>0, BlankType, ReadType DEF Requests
    <2>3. UNCHANGED <<storeVars, pend, ssoVars>> /\ events' = events
      BY <1>1 DEF LoginLookup
    <2> QED BY <1>0, <1>l, <2>1, <2>2, <2>3, LocalType
  <1>2. ASSUME SelectFound(h) PROVE AccountsType'
    <2>1. PICK u \in users : Goto(h, "session", [req[h] EXCEPT !.row = Read(u)])
      BY <1>2 DEF SelectFound, OfAddress
    <2>2. /\ [req[h] EXCEPT !.row = Read(u)] \in Requests
          /\ [req[h] EXCEPT !.row = Read(u)].flow = req[h].flow
      BY <1>0, HandlerFacts, ReadType
    <2>3. UNCHANGED <<storeVars, pend, ssoVars>> /\ events' = events
          /\ pc[h] \notin {"idle", "insert"}
      BY <1>2 DEF SelectFound
    <2> QED BY <1>0, <1>l, <1>k, <2>1, <2>2, <2>3, LocalType
  <1>3. ASSUME SelectNone(h) PROVE AccountsType'
    <2>1. /\ Goto(h, "provision", req[h]) /\ UNCHANGED <<storeVars, pend, ssoVars>>
          /\ events' = events /\ pc[h] \notin {"idle", "insert"}
      BY <1>3 DEF SelectNone
    <2> QED BY <1>0, <1>l, <1>k, <2>1, HandlerFacts, LocalType
  <1>4. ASSUME Provision(h) \/ Retry(h) PROVE AccountsType'
    <2>1. /\ pc[h] \notin {"idle", "insert"} /\ ids' = ids + 1 /\ events' = events
          /\ UNCHANGED <<users, sessions, minted, ssoVars>>
          /\ \/ Goto(h, "reread", req[h]) \/ Goto(h, "retry", req[h]) \/ Goto(h, "refused", req[h])
      BY <1>4 DEF Provision, Retry
    <2>2. SsoAccount(h, FALSE) \in Users /\ SsoAccount(h, TRUE) \in Users
      BY <2>1, SsoAccountFields
    <2>3. \/ pend' = pend \/ pend' = [pend EXCEPT ![h] = {SsoAccount(h, FALSE)}]
          \/ pend' = [pend EXCEPT ![h] = {SsoAccount(h, TRUE)}]
      BY <1>4 DEF Provision, Retry, RetryAccount
    <2>4. pend' \in [Handlers -> SUBSET Users]
      BY <1>0, <2>2, <2>3
    <2>5. StoreType'
      BY <1>0, <2>1, <2>4 DEF StoreType
    <2>6. SsoType' /\ Len(flow') >= Len(flow) /\ flow' = flow
      BY <1>0, <2>1, SsoSame DEF ssoVars
    <2> QED BY <1>0, <1>l, <1>k, <2>1, <2>5, <2>6, HandlerFacts, MoveType
  <1>5. ASSUME Reread(h) PROVE AccountsType'
    <2>1. PICK u \in users \cup pend[h] : Goto(h, "session", [req[h] EXCEPT !.row = Read(u)])
      BY <1>5 DEF Reread, OfAddress
    <2>2. /\ [req[h] EXCEPT !.row = Read(u)] \in Requests
          /\ [req[h] EXCEPT !.row = Read(u)].flow = req[h].flow
      BY <1>0, HandlerFacts, ReadType
    <2>3. /\ users' = users \cup pend[h] /\ pend' = [pend EXCEPT ![h] = {}]
          /\ UNCHANGED <<ids, sessions, minted, ssoVars>> /\ events' = events
          /\ pc[h] \notin {"idle", "insert"}
      BY <1>5 DEF Reread
    <2>4. StoreType'
      BY <1>0, <2>3 DEF StoreType
    <2>5. SsoType' /\ Len(flow') >= Len(flow) /\ flow' = flow
      BY <1>0, <2>3, SsoSame DEF ssoVars
    <2> QED BY <1>0, <1>l, <1>k, <2>1, <2>2, <2>3, <2>4, <2>5, MoveType
  <1> QED BY <1>1, <1>2, <1>3, <1>4, <1>5

LEMMA StepType == AccountsType /\ [Next]_vars => AccountsType'
  <1> SUFFICES ASSUME AccountsType, [Next]_vars PROVE AccountsType'
    OBVIOUS
  <1>1. CASE UNCHANGED vars
    BY <1>1 DEF vars, AccountsType, StoreType, SsoType, HandlerType, FlowKnown
  <1>2. ASSUME NEW h \in Handlers, LoginInsert(h) \/ SsoStep(h) \/ SsoUnavailable(h)
        PROVE  AccountsType'
    BY <1>2, OfficeType, TokenType, AccountType DEF SsoStep
  <1> QED BY <1>1, <1>2, OfficeType, WorldType, TokenType, AccountType DEF Next

-----------------------------------------------------------------------------
(* Keys.                                                                   *)

LEMMA InitStore == Init => StoreInv
  BY AccountsAssumption, UserFields DEF Init, StoreInv, KeysApart, IdsGiven, SsoFolded

LEMMA StoreKept == StoreInv /\ UNCHANGED <<users, pend, ids>> => StoreInv'
  BY DEF StoreInv, KeysApart, IdsGiven, SsoFolded, Alike, Clash

\* An identity value that is handed out is new.
LEMMA FreshId ==
  ASSUME AccountsType, StoreInv, NEW u \in Users, u.id = ids + 1
  PROVE  /\ \A v \in users : Alike(u, v) <=> Clash(u, v)
         /\ \A g \in Handlers : \A v \in pend[g] : Alike(u, v) <=> Clash(u, v)
  <1>0. users \subseteq Users /\ pend \in [Handlers -> SUBSET Users] /\ ids \in Nat
    BY DEF AccountsType, StoreType
  <1>1. ASSUME NEW v \in Users, v.id <= ids PROVE u.id # v.id
    BY <1>0, <1>1, UserFields
  <1> QED BY <1>0, <1>1 DEF StoreInv, IdsGiven, Alike

LEMMA AlikeSymmetric == \A u, v : Alike(u, v) <=> Alike(v, u)
  BY DEF Alike, Clash

\* A value of the identity column that no row keeps.
LEMMA SkipId ==
  ASSUME AccountsType, StoreInv, ids' = ids + 1, UNCHANGED <<users, pend>>
  PROVE  StoreInv'
  <1>0. users \subseteq Users /\ pend \in [Handlers -> SUBSET Users] /\ ids \in Nat
    BY DEF AccountsType, StoreType
  <1>1. KeysApart' /\ SsoFolded'
    BY DEF StoreInv, KeysApart, SsoFolded, Alike, Clash
  <1>2. ASSUME NEW v \in Users, v.id <= ids PROVE v.id <= ids + 1
    BY <1>0, <1>2, UserFields
  <1>3. IdsGiven'
    BY <1>0, <1>2 DEF StoreInv, IdsGiven
  <1> QED BY <1>1, <1>3 DEF StoreInv

\* A row is inserted and committed.
LEMMA AddRow ==
  ASSUME AccountsType, StoreInv, NEW u \in Users, u.id = ids + 1, ids' = ids + 1,
         u.sso => Fold(u.email) = u.email, ~Taken(u),
         \A h \in Handlers : \A v \in pend[h] : ~Clash(u, v),
         users' = users \cup {u}, pend' = pend
  PROVE  StoreInv'
  <1>0. users \subseteq Users /\ pend \in [Handlers -> SUBSET Users] /\ ids \in Nat
    BY DEF AccountsType, StoreType
  <1>1. /\ \A v \in users : ~Alike(u, v) /\ ~Alike(v, u)
        /\ \A g \in Handlers : \A v \in pend[g] : ~Alike(u, v) /\ ~Alike(v, u)
    BY FreshId, AlikeSymmetric DEF Taken
  <1>2. KeysApart'
    BY <1>1 DEF StoreInv, KeysApart, Alike, Clash
  <1>3. SsoFolded'
    BY DEF StoreInv, SsoFolded
  <1>4. ASSUME NEW v \in Users, v.id <= ids PROVE v.id <= ids + 1
    BY <1>0, <1>4, UserFields
  <1>5. IdsGiven'
    BY <1>0, <1>4 DEF StoreInv, IdsGiven
  <1> QED BY <1>2, <1>3, <1>5 DEF StoreInv

\* A row is inserted and not yet committed.
LEMMA PendRow ==
  ASSUME AccountsType, StoreInv, NEW h \in Handlers, NEW u \in Users, u.id = ids + 1, ids' = ids + 1,
         Fold(u.email) = u.email, ~Taken(u), ~Locked(h, u),
         pend' = [pend EXCEPT ![h] = {u}], users' = users
  PROVE  StoreInv'
  <1>0. users \subseteq Users /\ pend \in [Handlers -> SUBSET Users] /\ ids \in Nat
    BY DEF AccountsType, StoreType
  <1>1. /\ \A v \in users : ~Alike(u, v) /\ ~Alike(v, u)
        /\ \A g \in Handlers \ {h} : \A v \in pend[g] : ~Alike(u, v) /\ ~Alike(v, u)
    BY FreshId, AlikeSymmetric DEF Taken, Locked
  <1>2. pend'[h] = {u} /\ \A g \in Handlers \ {h} : pend'[g] = pend[g]
    BY <1>0
  <1>3. KeysApart'
    BY <1>1, <1>2 DEF StoreInv, KeysApart, Alike, Clash
  <1>4. SsoFolded'
    BY <1>2 DEF StoreInv, SsoFolded
  <1>5. ASSUME NEW v \in Users, v.id <= ids PROVE v.id <= ids + 1
    BY <1>0, <1>5, UserFields
  <1>6. IdsGiven'
    BY <1>0, <1>2, <1>5 DEF StoreInv, IdsGiven
  <1> QED BY <1>3, <1>4, <1>6 DEF StoreInv

LEMMA CommitRow ==
  ASSUME AccountsType, StoreInv, NEW h \in Handlers,
         users' = users \cup pend[h], pend' = [pend EXCEPT ![h] = {}], ids' = ids
  PROVE  StoreInv'
  <1>0. pend \in [Handlers -> SUBSET Users]
    BY DEF AccountsType, StoreType
  <1>1. pend'[h] = {} /\ \A g \in Handlers \ {h} : pend'[g] = pend[g]
    BY <1>0
  <1>2. KeysApart'
    BY <1>1, AlikeSymmetric DEF StoreInv, KeysApart, Alike, Clash
  <1>3. SsoFolded'
    BY <1>1 DEF StoreInv, SsoFolded
  <1>4. IdsGiven'
    BY <1>1 DEF StoreInv, IdsGiven
  <1> QED BY <1>2, <1>3, <1>4 DEF StoreInv

LEMMA RoleStore ==
  ASSUME AccountsType, StoreInv, NEW s \in sessions, NEW u \in users, NEW role \in Roles,
         ChangeRole(s, u, role)
  PROVE  StoreInv'
  <1> DEFINE w == [u EXCEPT !.role = role]
  <1>0. users \subseteq Users /\ ids \in Nat
    BY DEF AccountsType, StoreType
  <1>1. w.id = u.id /\ w.name = u.name /\ w.email = u.email /\ w.sso = u.sso
    BY <1>0, UserFields
  <1>2. users' = (users \ {u}) \cup {w} /\ pend' = pend /\ ids' = ids
    BY DEF ChangeRole
  <1> HIDE DEF w
  <1>3. \A v : (Alike(w, v) <=> Alike(u, v)) /\ (Alike(v, w) <=> Alike(v, u))
    BY <1>1 DEF Alike, Clash
  <1>4. KeysApart'
    BY <1>2, <1>3 DEF StoreInv, KeysApart
  <1>5. SsoFolded'
    BY <1>1, <1>2 DEF StoreInv, SsoFolded
  <1>6. IdsGiven'
    BY <1>1, <1>2 DEF StoreInv, IdsGiven
  <1> QED BY <1>4, <1>5, <1>6 DEF StoreInv

LEMMA StepStore == AccountsType /\ StoreInv /\ [Next]_vars => StoreInv'
  <1> SUFFICES ASSUME AccountsType, StoreInv, [Next]_vars PROVE StoreInv'
    OBVIOUS
  <1>0. ids \in Nat
    BY DEF AccountsType, StoreType
  <1>1. CASE UNCHANGED <<users, pend, ids>>
    BY <1>1, StoreKept
  <1>2. ASSUME NEW new \in Signups, Register(new) PROVE StoreInv'
    <2> DEFINE u == NewUser(new.name, new.email, FALSE)
    <2>1. u \in Users /\ u.id = ids + 1 /\ ~u.sso
      BY <1>0, AccountsAssumption, NewUserFields
    <2>2. /\ ids' = ids + 1 /\ pend' = pend
          /\ \A h \in Handlers : \A v \in pend[h] : ~Clash(u, v)
          /\ users' = IF Taken(u) THEN users ELSE users \cup {u}
      BY <1>2 DEF Register
    <2> HIDE DEF u
    <2>3. CASE Taken(u)
      BY <2>2, <2>3, SkipId
    <2>4. CASE ~Taken(u)
      BY <2>1, <2>2, <2>4, AddRow
    <2> QED BY <2>3, <2>4
  <1>3. ASSUME NEW h \in Handlers, Provision(h) PROVE StoreInv'
    <2>1. pc[h] \notin {"idle", "insert"} /\ ids' = ids + 1 /\ users' = users
      BY <1>3 DEF Provision
    <2> DEFINE u == SsoAccount(h, FALSE)
    <2>2. u \in Users /\ u.id = ids + 1 /\ Fold(u.email) = u.email
      BY <2>1, SsoAccountFields
    <2>3. /\ ~Locked(h, u)
          /\ \/ ~Taken(u) /\ pend' = [pend EXCEPT ![h] = {u}]
             \/ pend' = pend
      BY <1>3 DEF Provision
    <2> HIDE DEF u
    <2> QED BY <2>1, <2>2, <2>3, SkipId, PendRow
  <1>4. ASSUME NEW h \in Handlers, Retry(h) PROVE StoreInv'
    <2>1. pc[h] \notin {"idle", "insert"} /\ ids' = ids + 1 /\ users' = users
      BY <1>4 DEF Retry
    <2> DEFINE u == SsoAccount(h, TRUE)
    <2>2. u \in Users /\ u.id = ids + 1 /\ Fold(u.email) = u.email
      BY <2>1, SsoAccountFields
    <2>3. /\ ~Locked(h, u)
          /\ \/ ~Taken(u) /\ pend' = [pend EXCEPT ![h] = {u}]
             \/ pend' = pend
      BY <1>4 DEF Retry, RetryAccount
    <2> HIDE DEF u
    <2> QED BY <2>1, <2>2, <2>3, SkipId, PendRow
  <1>5. ASSUME NEW h \in Handlers, Reread(h) PROVE StoreInv'
    BY <1>5, CommitRow DEF Reread
  <1>6. ASSUME NEW h \in Handlers,
               \/ LoginInsert(h) \/ SsoUnavailable(h) \/ Exchange(h) \/ FindKey(h)
               \/ FetchJwks(h) \/ StoreJwks(h) \/ SelectFound(h) \/ SelectNone(h)
               \/ SsoSession(h) \/ SsoRejected(h) \/ \E login \in Logins : LoginLookup(h, login)
               \/ \E b \in Browsers, rep \in Replicas, f \in DOMAIN flow, who \in Identities :
                     Callback(h, b, rep, f, who)
        PROVE  UNCHANGED <<users, pend, ids>>
    BY <1>6 DEF LoginInsert, SsoUnavailable, Exchange, FindKey, FetchJwks, StoreJwks, SelectFound,
                SelectNone, SsoSession, SsoRejected, LoginLookup, Callback, storeVars
  <1>7. ASSUME \/ RotateKey
               \/ \E s \in sessions : Logout(s)
               \/ \E b \in Browsers : SsoLogin(b) \/ CookieExpires(b)
               \/ \E rep \in Replicas : JwksExpires(rep)
               \/ UNCHANGED vars
        PROVE  UNCHANGED <<users, pend, ids>>
    BY <1>7 DEF Logout, RotateKey, SsoLogin, CookieExpires, JwksExpires, storeVars, vars
  <1>8. ASSUME NEW h \in Handlers, LoginInsert(h) \/ SsoStep(h) \/ SsoUnavailable(h)
        PROVE  StoreInv'
    BY <1>8, <1>1, <1>3, <1>4, <1>5, <1>6 DEF SsoStep
  <1> QED BY <1>1, <1>2, <1>6, <1>7, <1>8, RoleStore DEF Next

-----------------------------------------------------------------------------
(* Roles.                                                                  *)

LEMMA InitRoles == Init => RolesRead
  BY DEF Init, RolesRead

\* What was read stays true while users are only added.
LEMMA StaysTruthful ==
  ASSUME users \subseteq users', NEW x, Truthful(x)
  PROVE  Truthful(x)'
  BY DEF Truthful

\* A handler goes on; if it is about to insert a session, with a row read now.
LEMMA MoveRoles ==
  ASSUME AccountsType, RolesRead, NEW h \in Handlers, NEW l \in Labels, NEW r \in Requests,
         Goto(h, l, r), events' \in Nat, users \subseteq users',
         \A s \in sessions' : s \in sessions \/ Truthful(s),
         l \in {"insert", "session"} => \E u \in users' : r.row = Read(u)
  PROVE  RolesRead'
  <1>1. /\ pc'[h] = l /\ req'[h] = r
        /\ \A g \in Handlers \ {h} : pc'[g] = pc[g] /\ req'[g] = req[g]
    BY GotoType DEF AccountsType
  <1>2. ASSUME NEW s \in sessions' PROVE Truthful(s)'
    BY <1>2, StaysTruthful DEF RolesRead
  <1>3. ASSUME NEW g \in Handlers, pc'[g] \in {"insert", "session"} PROVE Truthful(req[g].row)'
    <2>1. CASE g = h
      <3>1. PICK u \in users' : r.row = Read(u)
        BY <1>1, <1>3, <2>1
      <3> QED BY <1>1, <2>1, <3>1 DEF Truthful, Read
    <2>2. CASE g # h
      <3>1. Truthful(req[g].row) /\ req'[g] = req[g]
        BY <1>1, <1>3, <2>2 DEF RolesRead
      <3> QED BY <3>1 DEF Truthful
    <2> QED BY <2>1, <2>2
  <1> QED BY <1>2, <1>3 DEF RolesRead

\* change_user_role: everything read of that user is marked as no longer fresh.
LEMMA RoleRoles ==
  ASSUME AccountsType, StoreInv, RolesRead,
         NEW s \in sessions, NEW u \in users, NEW role \in Roles, ChangeRole(s, u, role)
  PROVE  RolesRead'
  <1> DEFINE w == [u EXCEPT !.role = role]
  <1>0. users \subseteq Users /\ sessions \subseteq SessionRows
    BY DEF AccountsType, StoreType
  <1>1. w.id = u.id
    BY <1>0, UserFields
  <1>2. /\ users' = (users \ {u}) \cup {w} /\ pc' = pc
        /\ sessions' = {IF t.uid = u.id THEN [t EXCEPT !.fresh = FALSE] ELSE t : t \in sessions}
        /\ \A h \in Handlers : req'[h] = IF req[h].row.uid = u.id
                                       THEN [req[h] EXCEPT !.row.fresh = FALSE] ELSE req[h]
    BY DEF ChangeRole
  <1> HIDE DEF w
  <1>3. ASSUME NEW x, Truthful(x), x.uid # u.id PROVE Truthful(x)'
    BY <1>2, <1>3 DEF Truthful
  <1>4. ASSUME NEW x, x.uid = u.id, ~x.fresh PROVE Truthful(x)'
    BY <1>1, <1>2, <1>4 DEF Truthful
  <1>5. ASSUME NEW t \in sessions' PROVE Truthful(t)'
    <2>1. PICK o \in sessions : t = IF o.uid = u.id THEN [o EXCEPT !.fresh = FALSE] ELSE o
      BY <1>2, <1>5
    <2>2. CASE o.uid = u.id
      <3>1. t.uid = u.id /\ ~t.fresh
        BY <1>0, <2>1, <2>2 DEF SessionRows
      <3> QED BY <1>4, <3>1
    <2>3. CASE o.uid # u.id
      BY <1>3, <2>1, <2>3 DEF RolesRead
    <2> QED BY <2>2, <2>3
  <1>6. ASSUME NEW h \in Handlers, pc'[h] \in {"insert", "session"} PROVE Truthful(req[h].row)'
    <2>1. req[h] \in Requests /\ Truthful(req[h].row)
      BY <1>2, <1>6, HandlerFacts DEF RolesRead
    <2>2. CASE req[h].row.uid = u.id
      <3>1. req'[h] = [req[h] EXCEPT !.row.fresh = FALSE]
        BY <1>2, <2>2
      <3>2. req'[h].row = [req[h].row EXCEPT !.fresh = FALSE]
        BY <2>1, <3>1 DEF Requests
      <3>3. req[h].row \in Kept
        BY <2>1 DEF Requests
      <3>4. req'[h].row.uid = u.id /\ ~req'[h].row.fresh
        BY <2>2, <3>2, <3>3 DEF Kept
      <3> QED BY <1>4, <3>4 DEF Truthful
    <2>3. CASE req[h].row.uid # u.id
      BY <1>2, <1>3, <2>1, <2>3 DEF Truthful
    <2> QED BY <2>2, <2>3
  <1> QED BY <1>5, <1>6 DEF RolesRead

LEMMA StepRoles == AccountsType /\ StoreInv /\ RolesRead /\ [Next]_vars => RolesRead'
  <1> SUFFICES ASSUME AccountsType, StoreInv, RolesRead, [Next]_vars PROVE RolesRead'
    OBVIOUS
  <1>0. /\ events \in Nat /\ minted \in Nat /\ users \subseteq Users /\ key \in Nat
        /\ pend \in [Handlers -> SUBSET Users]
    BY DEF AccountsType, StoreType, HandlerType, SsoType
  <1>l. /\ "idle" \in Labels /\ "insert" \in Labels /\ "exchange" \in Labels
        /\ "find_key" \in Labels /\ "fetch" \in Labels /\ "fetched" \in Labels
        /\ "select" \in Labels /\ "invalid" \in Labels /\ "provision" \in Labels
        /\ "retry" \in Labels /\ "reread" \in Labels /\ "session" \in Labels
        /\ "refused" \in Labels
    BY DEF Labels
  <1>1. ASSUME users \subseteq users', UNCHANGED <<pc, req>>, sessions' \subseteq sessions
        PROVE  RolesRead'
    BY <1>1 DEF RolesRead, Truthful
  <1>2. ASSUME \/ RotateKey
               \/ \E s \in sessions : Logout(s)
               \/ \E b \in Browsers : SsoLogin(b) \/ CookieExpires(b)
               \/ \E rep \in Replicas : JwksExpires(rep)
               \/ \E new \in Signups : Register(new)
               \/ UNCHANGED vars
        PROVE  RolesRead'
    <2>1. users \subseteq users' /\ UNCHANGED <<pc, req>> /\ sessions' \subseteq sessions
      BY <1>2 DEF Logout, RotateKey, SsoLogin, CookieExpires, JwksExpires, Register, storeVars, vars
    <2> QED BY <1>1, <2>1
  <1>3. ASSUME NEW h \in Handlers, LoginInsert(h) \/ SsoSession(h) PROVE RolesRead'
    <2>1. /\ pc[h] \in {"insert", "session"} /\ users' = users /\ events' = events
          /\ sessions' = sessions \cup {NewSession(req[h])} /\ Goto(h, "idle", Blank)
      BY <1>3 DEF LoginInsert, SsoSession, SsoSessionRow
    <2>2. Truthful(NewSession(req[h]))
      <3>1. Truthful(req[h].row) /\ req[h] \in Requests
        BY <2>1, HandlerFacts DEF RolesRead
      <3>2. /\ NewSession(req[h]).uid = req[h].row.uid /\ NewSession(req[h]).role = req[h].row.role
            /\ NewSession(req[h]).fresh = req[h].row.fresh
        BY <1>0, <3>1, NewSessionType
      <3> QED BY <3>1, <3>2 DEF Truthful
    <2> QED BY <1>0, <1>l, <2>1, <2>2, BlankType, MoveRoles
  <1>4. ASSUME NEW h \in Handlers, NEW login \in Logins, LoginLookup(h, login) PROVE RolesRead'
    <2>1. PICK u \in users : Goto(h, "insert", [Blank EXCEPT !.row = Read(u)])
      BY <1>4 DEF LoginLookup, Best, Matches
    <2>2. /\ [Blank EXCEPT !.row = Read(u)] \in Requests
          /\ [Blank EXCEPT !.row = Read(u)].row = Read(u)
      BY <1>0, BlankType, ReadType DEF Requests
    <2>3. users' = users /\ sessions' = sessions /\ events' = events
      BY <1>4 DEF LoginLookup, storeVars
    <2> QED BY <1>0, <1>l, <2>1, <2>2, <2>3, MoveRoles
  <1>5. ASSUME NEW h \in Handlers, SelectFound(h) \/ Reread(h) PROVE RolesRead'
    <2>1. users \subseteq users' /\ sessions' = sessions /\ events' = events /\ users' \subseteq Users
      BY <1>0, <1>5 DEF SelectFound, Reread, storeVars
    <2>2. PICK u \in users' : Goto(h, "session", [req[h] EXCEPT !.row = Read(u)])
      BY <1>5 DEF SelectFound, Reread, OfAddress, storeVars
    <2>3. /\ [req[h] EXCEPT !.row = Read(u)] \in Requests
          /\ [req[h] EXCEPT !.row = Read(u)].row = Read(u)
      BY <2>1, HandlerFacts, ReadType
    <2> QED BY <1>0, <1>l, <2>1, <2>2, <2>3, MoveRoles
  <1>6. ASSUME NEW h \in Handlers,
               \/ SsoUnavailable(h) \/ Exchange(h) \/ FindKey(h) \/ FetchJwks(h)
               \/ StoreJwks(h) \/ SelectNone(h) \/ Provision(h) \/ Retry(h) \/ SsoRejected(h)
        PROVE  RolesRead'
    <2>1. users' = users /\ sessions' = sessions /\ events' \in Nat
      <3>1. CASE SsoUnavailable(h)
        BY <1>0, <3>1 DEF SsoUnavailable, storeVars
      <3>2. CASE Exchange(h) \/ FindKey(h) \/ FetchJwks(h) \/ StoreJwks(h)
        BY <1>0, <3>2 DEF Exchange, FindKey, FetchJwks, StoreJwks, storeVars
      <3>3. CASE SelectNone(h) \/ Provision(h) \/ Retry(h) \/ SsoRejected(h)
        BY <1>0, <3>3 DEF SelectNone, Provision, Retry, SsoRejected, storeVars
      <3> QED BY <1>6, <3>1, <3>2, <3>3
    <2>2. \E l \in Labels \ {"insert", "session"}, r \in Requests : Goto(h, l, r)
      <3>1. /\ req[h] \in Requests /\ Blank \in Requests
            /\ [req[h] EXCEPT !.failed = TRUE] \in Requests
            /\ [req[h] EXCEPT !.fetched = 0] \in Requests
            /\ [req[h] EXCEPT !.fetched = key] \in Requests
        BY <1>0, HandlerFacts, BlankType
      <3> QED BY <1>l, <1>6, <3>1
              DEF SsoUnavailable, Exchange, FindKey, FetchJwks, StoreJwks, SelectNone,
                  Provision, Retry, SsoRejected
    <2> QED BY <2>1, <2>2, MoveRoles
  <1>7. ASSUME NEW h \in Handlers, NEW b \in Browsers, NEW rep \in Replicas, NEW f \in DOMAIN flow,
               NEW who \in Identities, Callback(h, b, rep, f, who)
        PROVE  RolesRead'
    <2> DEFINE r == [Blank EXCEPT !.rep = rep, !.browser = b, !.flow = f]
    <2>1. f \in Nat /\ Blank \in Requests
      BY BlankType DEF AccountsType, SsoType
    <2>2. r \in Requests
      BY <2>1 DEF Requests
    <2>3. users' = users /\ sessions' = sessions /\ events' = events /\ Goto(h, "exchange", r)
      BY <1>7 DEF Callback, storeVars
    <2> HIDE DEF r
    <2> QED BY <1>0, <1>l, <2>2, <2>3, MoveRoles
  <1>8. ASSUME NEW h \in Handlers, LoginInsert(h) \/ SsoStep(h) \/ SsoUnavailable(h)
        PROVE  RolesRead'
    BY <1>3, <1>5, <1>6, <1>8 DEF SsoStep
  <1> QED BY <1>2, <1>4, <1>7, <1>8, RoleRoles DEF Next

-----------------------------------------------------------------------------
AccountsInv == AccountsType /\ StoreInv /\ RolesRead

LEMMA Inductive ==
  /\ Init => AccountsInv
  /\ AccountsInv /\ [Next]_vars => AccountsInv'
  BY InitType, InitStore, InitRoles, StepType, StepStore, StepRoles DEF AccountsInv

\* Usernames, addresses and ids of committed users stay unique although a row is
\* checked when it is inserted and published when it is committed.
THEOREM AccountsUnique == Spec => []UniqueAccounts
  <1>1. AccountsInv => UniqueAccounts
    BY DEF AccountsInv, StoreInv, KeysApart, Alike, UniqueAccounts
  <1> QED BY <1>1, Inductive, PTL DEF Spec

\* However many first sign-ins of one address race, in whatever case the
\* provider writes it, sso_callback provisions one account.
THEOREM SsoProvisionsOnce == Spec => []OneSsoAccount
  <1>1. AccountsInv => OneSsoAccount
    BY DEF AccountsInv, StoreInv, KeysApart, SsoFolded, Alike, Clash, OneSsoAccount
  <1> QED BY <1>1, Inductive, PTL DEF Spec

\* The role in a session is the user's unless change_user_role came after the
\* sign-in read it.
THEOREM SessionRolesCopied == Spec => []RoleCopied
  <1>1. AccountsInv => RoleCopied
    BY DEF AccountsInv, RolesRead, Truthful, RoleCopied
  <1> QED BY <1>1, Inductive, PTL DEF Spec
-----------------------------------------------------------------------------
(* Sign-ins.  What a handler past its callback knows of its flow is a       *)
(* predicate of the rows U, the flows F, the published key k, its label l   *)
(* and its local variables r.                                              *)

\* The labels of a handler that has spent the code of its flow.
Spending == {"find_key", "fetch", "fetched", "select", "provision", "retry", "reread", "session"}
Redeemed(l, r) == l \in Spending \cup {"refused"} \/ (l = "invalid" /\ ~r.failed)

OfPerson(U, uid, email) == \E u \in U : u.id = uid /\ Fold(u.email) = Fold(email)
TakenBy(U, w, n) == (\E u \in U : Fold(u.email) = Fold(w.email)) \/ (\E u \in U : u.name = n)

Signed(U, F, k, l, r) ==
    LET x == F[r.flow]
    IN  /\ l \notin {"idle", "insert"} => x.browser = r.browser
        /\ l = "insert" => r.flow = 0
        /\ Redeemed(l, r) => x.code = "spent"
        /\ l = "session" => OfPerson(U, r.row.uid, x.who.email)
        /\ l = "fetched" => x.kid <= r.fetched /\ r.fetched <= k
        /\ l = "invalid" => r.failed \/ x.kid < k
        /\ l = "retry" => TakenBy(U, x.who, x.who.name)
        /\ l = "refused" =>
              \/ AbortsOnError
              \/ TakenBy(U, x.who, x.who.name) /\ TakenBy(U, x.who, Prefixed(x.who.name))

\* A session from SSO is of a flow that is over, and of its browser and person.
SessionSigned(U, F, s) ==
    s.flow # 0 =>
        /\ s.flow \in 1..Len(F) /\ F[s.flow].code = "spent" /\ F[s.flow].browser = s.browser
        /\ OfPerson(U, s.uid, F[s.flow].who.email)

\* No code is spent twice.
CodesApart ==
    /\ \A g, h \in Handlers :
          pc[g] \in Spending /\ pc[h] \in Spending /\ req[g].flow = req[h].flow => g = h
    /\ \A s \in sessions : s.flow # 0 =>
          /\ \A t \in sessions : t.flow = s.flow => t = s
          /\ \A h \in Handlers : pc[h] \in Spending => req[h].flow # s.flow

KidsPublished == \A f \in 1..Len(flow) : flow[f].kid <= key
CookiesOwned == \A b \in Browsers : pkce[b] # 0 => pkce[b] \in 1..Len(flow) /\ flow[pkce[b]].browser = b

SignInInv ==
    /\ KidsPublished /\ CookiesOwned /\ CodesApart
    /\ \A h \in Handlers : Signed(users, flow, key, pc[h], req[h])
    /\ \A s \in sessions : SessionSigned(users, flow, s)

\* Flows are added, keep their browser, and change no more once the code is
\* spent; users are added and keep their id, name and address.
FlowsStay(F, G) ==
    /\ Len(F) \in Nat /\ Len(G) \in Nat /\ Len(F) <= Len(G)
    /\ \A f \in 1..Len(F) : G[f].browser = F[f].browser /\ (F[f].code = "spent" => G[f] = F[f])
UsersStay(U, V) == \A u \in U : \E v \in V : v.id = u.id /\ v.name = u.name /\ v.email = u.email

LEMMA PersonStays ==
  ASSUME NEW U, NEW V, UsersStay(U, V)
  PROVE  /\ \A uid, email : OfPerson(U, uid, email) => OfPerson(V, uid, email)
         /\ \A w, n : TakenBy(U, w, n) => TakenBy(V, w, n)
  <1>1. ASSUME NEW uid, NEW email, OfPerson(U, uid, email) PROVE OfPerson(V, uid, email)
    <2>1. PICK u \in U : u.id = uid /\ Fold(u.email) = Fold(email)
      BY <1>1 DEF OfPerson
    <2>2. PICK v \in V : v.id = u.id /\ v.email = u.email
      BY DEF UsersStay
    <2> QED BY <2>1, <2>2 DEF OfPerson
  <1>2. ASSUME NEW w, NEW n, TakenBy(U, w, n) PROVE TakenBy(V, w, n)
    <2>1. PICK u \in U : Fold(u.email) = Fold(w.email) \/ u.name = n
      BY <1>2 DEF TakenBy
    <2>2. PICK v \in V : v.name = u.name /\ v.email = u.email
      BY DEF UsersStay
    <2> QED BY <2>1, <2>2 DEF TakenBy
  <1> QED BY <1>1, <1>2

\* What a handler knows of its flow stays true whatever others do.
LEMMA SignedStays ==
  ASSUME NEW U, NEW V, UsersStay(U, V), NEW F \in Seq(Flows), NEW G, FlowsStay(F, G),
         NEW k \in Nat, NEW kk \in Nat, k <= kk, NEW l, NEW r \in Requests, NEW q,
         q.flow = r.flow, q.browser = r.browser, q.fetched = r.fetched, q.failed = r.failed,
         q.row.uid = r.row.uid,
         l \notin {"idle", "insert"} => r.flow \in 1..Len(F),
         Signed(U, F, k, l, r)
  PROVE  Signed(V, G, kk, l, q)
  <1> DEFINE f == r.flow
  <1>1. CASE l \in {"idle", "insert"}
    BY <1>1 DEF Signed, Redeemed, Spending
  <1>2. CASE l \notin {"idle", "insert"}
    <2>1. f \in 1..Len(F) /\ F[f] \in Flows /\ r.fetched \in Nat
      BY <1>2, ElementOfSeq DEF Requests
    <2>2. F[f].kid \in Nat /\ G[f].browser = F[f].browser
      BY <2>1 DEF Flows, FlowsStay
    <2>3. Redeemed(l, r) => G[f] = F[f] /\ G[f].code = "spent"
      BY <2>1 DEF Signed, FlowsStay
    <2>4. Redeemed(l, q) <=> Redeemed(l, r)
      BY DEF Redeemed
    <2>5. CASE Redeemed(l, r)
      <3>1. G[f] = F[f] /\ G[f].code = "spent"
        BY <2>3, <2>5
      <3> QED BY <1>2, <2>1, <2>2, <3>1, PersonStays DEF Signed
    <2>6. CASE ~Redeemed(l, r)
      <3>1. l \notin Spending \cup {"refused"} /\ (l = "invalid" => r.failed)
        BY <2>6 DEF Redeemed
      <3> QED BY <1>2, <2>2, <2>4, <2>6, <3>1 DEF Signed, Spending
    <2> QED BY <2>5, <2>6
  <1> QED BY <1>1, <1>2

LEMMA SessionStays ==
  ASSUME NEW U, NEW V, UsersStay(U, V), NEW F, NEW G, FlowsStay(F, G), NEW s, NEW t,
         t.flow = s.flow, t.browser = s.browser, t.uid = s.uid, SessionSigned(U, F, s)
  PROVE  SessionSigned(V, G, t)
  <1> SUFFICES ASSUME s.flow # 0 PROVE SessionSigned(V, G, t)
    BY DEF SessionSigned
  <1>1. /\ s.flow \in 1..Len(F) /\ F[s.flow].code = "spent" /\ F[s.flow].browser = s.browser
        /\ OfPerson(U, s.uid, F[s.flow].who.email)
    BY DEF SessionSigned
  <1>2. G[s.flow] = F[s.flow] /\ s.flow \in 1..Len(G)
    BY <1>1 DEF FlowsStay
  <1>3. OfPerson(V, s.uid, F[s.flow].who.email)
    BY <1>1, PersonStays
  <1> QED BY <1>1, <1>2, <1>3 DEF SessionSigned

LEMMA SignInInitially == Init => SignInInv
  BY DEF Init, SignInInv, KidsPublished, CookiesOwned, CodesApart, Signed, Redeemed, Spending

LEMMA UsersGrow == ASSUME NEW U, NEW V, U \subseteq V PROVE UsersStay(U, V)
  BY DEF UsersStay

LEMMA FlowsSame == ASSUME AccountsType, flow' = flow PROVE FlowsStay(flow, flow')
  BY DEF AccountsType, SsoType, FlowsStay

LEMMA SignTypes ==
  ASSUME AccountsType
  PROVE  /\ key \in Nat /\ flow \in Seq(Flows) /\ Len(flow) \in Nat
         /\ \A f \in 1..Len(flow) : flow[f] \in Flows /\ flow[f].kid \in Nat
         /\ \A h \in Handlers : /\ req[h] \in Requests /\ pc[h] \in Labels
                                /\ pc[h] \notin {"idle", "insert"} => req[h].flow \in 1..Len(flow)
  <1>1. /\ key \in Nat /\ flow \in Seq(Flows) /\ Len(flow) \in Nat
    BY DEF AccountsType, SsoType
  <1>2. \A f \in 1..Len(flow) : flow[f] \in Flows
    BY <1>1, ElementOfSeq
  <1>3. \A f \in 1..Len(flow) : flow[f].kid \in Nat
    BY <1>2 DEF Flows
  <1> QED BY <1>1, <1>2, <1>3, HandlerFacts DEF AccountsType, FlowKnown

\* Handlers and sessions that stay where they are, while the rest moves on.
LEMMA SignInRest ==
  ASSUME AccountsType, SignInInv, FlowsStay(flow, flow'), UsersStay(users, users'),
         key' \in Nat, key <= key'
  PROVE  /\ \A h \in Handlers :
               pc'[h] = pc[h] /\ req'[h] = req[h] => Signed(users', flow', key', pc'[h], req'[h])
         /\ \A s \in sessions : SessionSigned(users', flow', s)
  <1>0. /\ key \in Nat /\ flow \in Seq(Flows)
        /\ \A h \in Handlers : /\ req[h] \in Requests
                               /\ pc[h] \notin {"idle", "insert"} => req[h].flow \in 1..Len(flow)
    BY SignTypes
  <1>1. ASSUME NEW h \in Handlers, pc'[h] = pc[h], req'[h] = req[h]
        PROVE  Signed(users', flow', key', pc'[h], req'[h])
    <2>1. Signed(users, flow, key, pc[h], req[h])
      BY DEF SignInInv
    <2> QED BY <1>0, <1>1, <2>1, SignedStays
  <1>2. \A s \in sessions : SessionSigned(users', flow', s)
    BY SessionStays DEF SignInInv
  <1> QED BY <1>1, <1>2

\* A handler goes on at l.  Either it holds the code of its flow already, or
\* nobody has spent that code.
LEMMA SignInMove ==
  ASSUME AccountsType, SignInInv, FlowsStay(flow, flow'), UsersStay(users, users'),
         key' = key, sessions' = sessions, NEW h \in Handlers, NEW l \in Labels, NEW r \in Requests,
         Goto(h, l, r), Signed(users', flow', key', l, r), KidsPublished', CookiesOwned',
         l \in Spending => \/ pc[h] \in Spending /\ r.flow = req[h].flow
                           \/ r.flow # 0 /\ flow[r.flow].code # "spent"
  PROVE  SignInInv'
  <1>1. /\ pc'[h] = l /\ req'[h] = r
        /\ \A g \in Handlers \ {h} : pc'[g] = pc[g] /\ req'[g] = req[g]
    BY DEF AccountsType, HandlerType, Goto
  <1>2. key' \in Nat /\ key <= key'
    BY SignTypes
  <1>3. \A g \in Handlers : Signed(users', flow', key', pc'[g], req'[g])
    BY <1>1, <1>2, SignInRest
  <1>4. \A s \in sessions' : SessionSigned(users', flow', s)
    BY <1>2, SignInRest
  <1>5. /\ \A g \in Handlers : pc[g] \in Spending => flow[req[g].flow].code = "spent"
        /\ \A s \in sessions : s.flow # 0 => flow[s.flow].code = "spent"
    BY DEF SignInInv, Signed, Redeemed, SessionSigned
  <1>6. CodesApart'
    <2>1. \A g \in Handlers \ {h} : l \in Spending /\ pc[g] \in Spending => r.flow # req[g].flow
      BY <1>5 DEF SignInInv, CodesApart
    <2>2. \A s \in sessions : s.flow # 0 /\ l \in Spending => r.flow # s.flow
      BY <1>5 DEF SignInInv, CodesApart
    <2> QED BY <1>1, <2>1, <2>2 DEF SignInInv, CodesApart
  <1> QED BY <1>3, <1>4, <1>6 DEF SignInInv

\* The same for a step that changes nothing of the flows, cookies and keys.
LEMMA SignInLocal ==
  ASSUME AccountsType, SignInInv, users \subseteq users', UNCHANGED <<flow, pkce, key, sessions>>,
         NEW h \in Handlers, NEW l \in Labels, NEW r \in Requests,
         Goto(h, l, r), Signed(users', flow, key, l, r),
         l \in Spending => pc[h] \in Spending /\ r.flow = req[h].flow
  PROVE  SignInInv'
  <1>1. FlowsStay(flow, flow') /\ UsersStay(users, users')
    BY FlowsSame, UsersGrow
  <1>2. KidsPublished' /\ CookiesOwned'
    BY DEF SignInInv, KidsPublished, CookiesOwned
  <1> QED BY <1>1, <1>2, SignInMove

\* The world: nobody's label changes, and sessions are not added.
LEMMA SignInWorld ==
  ASSUME AccountsType, SignInInv, FlowsStay(flow, flow'), UsersStay(users, users'),
         key' \in Nat, key <= key', UNCHANGED <<pc, req>>, sessions' \subseteq sessions,
         KidsPublished', CookiesOwned'
  PROVE  SignInInv'
  <1>1. /\ \A h \in Handlers : Signed(users', flow', key', pc'[h], req'[h])
        /\ \A s \in sessions' : SessionSigned(users', flow', s)
    BY SignInRest
  <1>2. CodesApart'
    BY DEF SignInInv, CodesApart
  <1> QED BY <1>1, <1>2 DEF SignInInv

LEMMA SignInWorldSteps ==
  ASSUME AccountsType, SignInInv
  PROVE  /\ \A new \in Signups : Register(new) => SignInInv'
         /\ \A s \in sessions : Logout(s) => SignInInv'
         /\ \A b \in Browsers : SsoLogin(b) \/ CookieExpires(b) => SignInInv'
         /\ \A rep \in Replicas : JwksExpires(rep) => SignInInv'
         /\ RotateKey => SignInInv'
         /\ UNCHANGED vars => SignInInv'
  <1>0. /\ key \in Nat /\ flow \in Seq(Flows) /\ Len(flow) \in Nat
        /\ \A f \in 1..Len(flow) : flow[f].kid \in Nat
        /\ KidsPublished /\ CookiesOwned /\ pkce \in [Browsers -> Nat]
    BY SignTypes DEF SignInInv, AccountsType, SsoType
  <1>1. ASSUME users \subseteq users', UNCHANGED <<flow, key, pc, req>>, sessions' \subseteq sessions,
               CookiesOwned'
        PROVE  SignInInv'
    <2>1. FlowsStay(flow, flow') /\ UsersStay(users, users') /\ KidsPublished' /\ key <= key'
      BY <1>0, <1>1, FlowsSame, UsersGrow DEF KidsPublished
    <2> QED BY <1>0, <1>1, <2>1, SignInWorld
  <1>2. ASSUME NEW new \in Signups, Register(new) PROVE SignInInv'
    <2>1. /\ users \subseteq users' /\ UNCHANGED <<flow, key, pkce, pc, req, sessions>>
      BY <1>2 DEF Register, ssoVars
    <2> QED BY <1>0, <1>1, <2>1 DEF CookiesOwned
  <1>3. ASSUME NEW s \in sessions, Logout(s) PROVE SignInInv'
    <2>1. users' = users /\ sessions' \subseteq sessions /\ UNCHANGED <<flow, key, pkce, pc, req>>
      BY <1>3 DEF Logout, ssoVars
    <2> QED BY <1>0, <1>1, <2>1 DEF CookiesOwned
  <1>4. ASSUME NEW b \in Browsers, CookieExpires(b) PROVE SignInInv'
    <2>1. /\ users' = users /\ UNCHANGED <<flow, key, pc, req, sessions>>
          /\ pkce' = [pkce EXCEPT ![b] = 0]
      BY <1>4 DEF CookieExpires, storeVars
    <2>2. CookiesOwned'
      BY <1>0, <2>1 DEF CookiesOwned
    <2> QED BY <1>1, <2>1, <2>2
  <1>5. ASSUME NEW b \in Browsers, SsoLogin(b) PROVE SignInInv'
    <2> DEFINE x == [browser |-> b, who |-> CHOOSE i \in Identities : TRUE,
                     code |-> "none", kid |-> 0]
    <2>1. /\ flow' = Append(flow, x) /\ pkce' = [pkce EXCEPT ![b] = Len(flow) + 1]
          /\ users' = users /\ UNCHANGED <<key, pc, req, sessions>>
      BY <1>5 DEF SsoLogin, FreshState, storeVars
    <2>2. x \in Flows /\ x.browser = b /\ x.kid = 0
      BY AccountsAssumption DEF Flows
    <2> HIDE DEF x
    <2>3. /\ Len(flow') = Len(flow) + 1 /\ flow'[Len(flow) + 1] = x
          /\ \A f \in 1..Len(flow) : flow'[f] = flow[f]
      BY <1>0, <2>1, <2>2, AppendProperties
    <2>4. FlowsStay(flow, flow') /\ UsersStay(users, users')
      BY <1>0, <2>1, <2>3, UsersGrow DEF FlowsStay
    <2>5. KidsPublished'
      <3> SUFFICES ASSUME NEW f \in 1..Len(flow') PROVE flow'[f].kid <= key'
        BY DEF KidsPublished
      <3>1. f \in 1..Len(flow) \/ f = Len(flow) + 1
        BY <1>0, <2>3
      <3> QED BY <1>0, <2>1, <2>2, <2>3, <3>1 DEF KidsPublished
    <2>6. CookiesOwned'
      <3> SUFFICES ASSUME NEW c \in Browsers, pkce'[c] # 0
                   PROVE  pkce'[c] \in 1..Len(flow') /\ flow'[pkce'[c]].browser = c
        BY DEF CookiesOwned
      <3>1. CASE c = b
        BY <1>0, <2>1, <2>2, <2>3, <3>1
      <3>2. CASE c # b
        <4>1. pkce'[c] = pkce[c] /\ pkce[c] \in 1..Len(flow) /\ flow[pkce[c]].browser = c
          BY <1>0, <2>1, <3>2 DEF CookiesOwned
        <4> QED BY <1>0, <2>3, <4>1
      <3> QED BY <3>1, <3>2
    <2>7. key' \in Nat /\ key <= key'
      BY <1>0, <2>1
    <2> QED BY <2>1, <2>4, <2>5, <2>6, <2>7, SignInWorld
  <1>6. ASSUME NEW rep \in Replicas, JwksExpires(rep) PROVE SignInInv'
    <2>1. users' = users /\ UNCHANGED <<flow, key, pkce, pc, req, sessions>>
      BY <1>6 DEF JwksExpires, storeVars
    <2> QED BY <1>0, <1>1, <2>1 DEF CookiesOwned
  <1>7. CASE RotateKey
    <2>1. key' = key + 1 /\ users' = users /\ UNCHANGED <<flow, pkce, pc, req, sessions>>
      BY <1>7 DEF RotateKey, storeVars
    <2>2. FlowsStay(flow, flow') /\ UsersStay(users, users') /\ CookiesOwned'
      BY <1>0, <2>1, FlowsSame, UsersGrow DEF CookiesOwned
    <2>3. KidsPublished' /\ key' \in Nat /\ key <= key'
      BY <1>0, <2>1 DEF KidsPublished
    <2> QED BY <2>1, <2>2, <2>3, SignInWorld
  <1>8. CASE UNCHANGED vars
    <2>1. users' = users /\ UNCHANGED <<flow, key, pkce, pc, req, sessions>>
      BY <1>8 DEF vars
    <2> QED BY <1>0, <1>1, <2>1 DEF CookiesOwned
  <1> QED BY <1>2, <1>3, <1>4, <1>5, <1>6, <1>7, <1>8

\* change_user_role touches roles and freshness only.
LEMMA SignInRole ==
  ASSUME AccountsType, SignInInv, NEW s \in sessions, NEW u \in users, NEW role \in Roles,
         ChangeRole(s, u, role)
  PROVE  SignInInv'
  <1> DEFINE w == [u EXCEPT !.role = role]
  <1>0. /\ key \in Nat /\ flow \in Seq(Flows) /\ users \subseteq Users /\ sessions \subseteq SessionRows
        /\ \A h \in Handlers : /\ req[h] \in Requests
                               /\ pc[h] \notin {"idle", "insert"} => req[h].flow \in 1..Len(flow)
    BY SignTypes DEF AccountsType, StoreType
  <1>1. w.id = u.id /\ w.name = u.name /\ w.email = u.email
    BY <1>0, UserFields
  <1>2. /\ users' = (users \ {u}) \cup {w} /\ UNCHANGED <<flow, pkce, key, pc>>
        /\ sessions' = {IF t.uid = u.id THEN [t EXCEPT !.fresh = FALSE] ELSE t : t \in sessions}
        /\ \A h \in Handlers : req'[h] = IF req[h].row.uid = u.id
                                       THEN [req[h] EXCEPT !.row.fresh = FALSE] ELSE req[h]
    BY DEF ChangeRole, ssoVars
  <1> HIDE DEF w
  <1>3. UsersStay(users, users') /\ FlowsStay(flow, flow') /\ key <= key'
    BY <1>0, <1>1, <1>2, FlowsSame DEF UsersStay
  <1>4. \A h \in Handlers : /\ req'[h].flow = req[h].flow /\ req'[h].browser = req[h].browser
                            /\ req'[h].fetched = req[h].fetched /\ req'[h].failed = req[h].failed
                            /\ req'[h].row.uid = req[h].row.uid
    <2> SUFFICES ASSUME NEW h \in Handlers
                 PROVE  LET q == [req[h] EXCEPT !.row.fresh = FALSE]
                        IN  /\ q.flow = req[h].flow /\ q.browser = req[h].browser
                            /\ q.fetched = req[h].fetched /\ q.failed = req[h].failed
                            /\ q.row.uid = req[h].row.uid
      BY <1>2
    <2>1. req[h] \in Requests /\ req[h].row \in Kept
      BY <1>0 DEF Requests
    <2> QED BY <2>1 DEF Requests, Kept
  <1>5. \A h \in Handlers : Signed(users', flow', key', pc'[h], req'[h])
    <2> SUFFICES ASSUME NEW h \in Handlers PROVE Signed(users', flow', key', pc'[h], req'[h])
      OBVIOUS
    <2>1. Signed(users, flow, key, pc[h], req[h])
      BY DEF SignInInv
    <2>2. Signed(users', flow', key', pc[h], req'[h])
      BY <1>0, <1>2, <1>3, <1>4, <2>1, SignedStays
    <2> QED BY <1>2, <2>2
  <1>6. \A t \in sessions : /\ [t EXCEPT !.fresh = FALSE].flow = t.flow
                            /\ [t EXCEPT !.fresh = FALSE].browser = t.browser
                            /\ [t EXCEPT !.fresh = FALSE].uid = t.uid
    BY <1>0 DEF SessionRows
  <1>7. \A t \in sessions' : \E o \in sessions :
           /\ t.flow = o.flow /\ t.browser = o.browser /\ t.uid = o.uid
           /\ t = IF o.uid = u.id THEN [o EXCEPT !.fresh = FALSE] ELSE o
    <2> TAKE t \in sessions'
    <2>1. PICK o \in sessions : t = IF o.uid = u.id THEN [o EXCEPT !.fresh = FALSE] ELSE o
      BY <1>2
    <2>2. t.flow = o.flow /\ t.browser = o.browser /\ t.uid = o.uid
      BY <1>6, <2>1
    <2> QED BY <2>1, <2>2
  <1>8. ASSUME NEW t \in sessions' PROVE SessionSigned(users', flow', t)
    <2>1. PICK o \in sessions : t.flow = o.flow /\ t.browser = o.browser /\ t.uid = o.uid
      BY <1>7
    <2>2. SessionSigned(users, flow, o)
      BY DEF SignInInv
    <2> QED BY <1>3, <2>1, <2>2, SessionStays
  <1>9. CodesApart'
    <2>1. \A t, x \in sessions' : t.flow # 0 /\ t.flow = x.flow => t = x
      <3> SUFFICES ASSUME NEW t \in sessions', NEW x \in sessions', t.flow # 0, t.flow = x.flow
                   PROVE  t = x
        OBVIOUS
      <3>1. PICK o \in sessions : t.flow = o.flow /\ t = IF o.uid = u.id THEN [o EXCEPT !.fresh = FALSE] ELSE o
        BY <1>7
      <3>2. PICK y \in sessions : x.flow = y.flow /\ x = IF y.uid = u.id THEN [y EXCEPT !.fresh = FALSE] ELSE y
        BY <1>7
      <3>3. o = y
        BY <3>1, <3>2 DEF SignInInv, CodesApart
      <3> QED BY <3>1, <3>2, <3>3
    <2>2. \A t \in sessions' : t.flow # 0 => \A h \in Handlers : pc[h] \in Spending => req[h].flow # t.flow
      BY <1>7 DEF SignInInv, CodesApart
    <2> QED BY <1>2, <1>4, <2>1, <2>2 DEF SignInInv, CodesApart
  <1>10. KidsPublished' /\ CookiesOwned'
    BY <1>2 DEF SignInInv, KidsPublished, CookiesOwned
  <1> QED BY <1>5, <1>8, <1>9, <1>10 DEF SignInInv

\* A session is inserted: of no flow by login, or of the flow whose code the
\* handler has spent.
LEMMA SignInSession ==
  ASSUME AccountsType, SignInInv, NEW h \in Handlers, LoginInsert(h) \/ SsoSession(h)
  PROVE  SignInInv'
  <1> DEFINE s == NewSession(req[h])
  <1>0. /\ key \in Nat /\ flow \in Seq(Flows) /\ Len(flow) \in Nat /\ req[h] \in Requests
        /\ pkce \in [Browsers -> Nat] /\ KidsPublished /\ CookiesOwned /\ CodesApart
        /\ Signed(users, flow, key, pc[h], req[h])
    BY SignTypes DEF AccountsType, SsoType, SignInInv
  <1>1. /\ pc[h] \in {"insert", "session"} /\ sessions' = sessions \cup {s} /\ Goto(h, "idle", Blank)
        /\ UNCHANGED <<users, flow, key>>
        /\ pkce' = pkce \/ pkce' = [pkce EXCEPT ![req[h].browser] = 0]
    BY DEF LoginInsert, SsoSession, SsoSessionRow, ssoVars
  <1>2. s.flow = req[h].flow /\ s.browser = req[h].browser /\ s.uid = req[h].row.uid
    BY DEF NewSession
  <1> HIDE DEF s
  <1>3. /\ pc'[h] = "idle" /\ req'[h] = Blank
        /\ \A g \in Handlers \ {h} : pc'[g] = pc[g] /\ req'[g] = req[g]
    BY <1>1, BlankType DEF AccountsType, HandlerType, Goto
  <1>4. UsersStay(users, users') /\ FlowsStay(flow, flow') /\ key' \in Nat /\ key <= key'
    BY <1>0, <1>1, FlowsSame, UsersGrow
  <1>5. KidsPublished' /\ CookiesOwned'
    BY <1>0, <1>1 DEF KidsPublished, CookiesOwned
  <1>6. \A g \in Handlers : Signed(users', flow', key', pc'[g], req'[g])
    <2>1. Signed(users', flow', key', "idle", Blank)
      BY DEF Signed, Redeemed, Spending
    <2> QED BY <1>3, <1>4, <2>1, SignInRest
  <1>7. CASE pc[h] = "insert"
    <2>1. s.flow = 0
      BY <1>0, <1>2, <1>7 DEF Signed
    <2>2. \A t \in sessions' : SessionSigned(users', flow', t)
      BY <1>1, <1>4, <2>1, SignInRest DEF SessionSigned
    <2>3. CodesApart'
      BY <1>0, <1>1, <1>3, <2>1 DEF CodesApart, Spending
    <2> QED BY <1>5, <1>6, <2>2, <2>3 DEF SignInInv
  <1>8. CASE pc[h] = "session"
    <2>1. req[h].flow \in 1..Len(flow)
      BY <1>8, SignTypes
    <2>2. /\ flow[s.flow].browser = s.browser /\ flow[s.flow].code = "spent"
          /\ OfPerson(users, s.uid, flow[s.flow].who.email)
      BY <1>0, <1>2, <1>8 DEF Signed, Redeemed, Spending
    <2>3. SessionSigned(users', flow', s)
      BY <1>1, <1>2, <2>1, <2>2 DEF SessionSigned
    <2>4. \A t \in sessions' : SessionSigned(users', flow', t)
      BY <1>1, <1>4, <2>3, SignInRest
    <2>5. "session" \in Spending /\ "idle" \notin Spending
      BY DEF Spending
    <2>6. \A t \in sessions : t.flow # 0 => t.flow # s.flow
      BY <1>0, <1>2, <1>8, <2>5 DEF CodesApart
    <2>7. \A g \in Handlers \ {h} : pc[g] \in Spending => req[g].flow # s.flow
      BY <1>0, <1>2, <1>8, <2>5 DEF CodesApart
    <2>8. CodesApart'
      <3>1. \A f, g \in Handlers :
               pc'[f] \in Spending /\ pc'[g] \in Spending /\ req'[f].flow = req'[g].flow => f = g
        BY <1>0, <1>3, <2>5 DEF CodesApart
      <3>2. \A x \in sessions' : x.flow # 0 => \A t \in sessions' : t.flow = x.flow => t = x
        BY <1>0, <1>1, <2>6 DEF CodesApart
      <3>3. \A x \in sessions' : x.flow # 0 => \A g \in Handlers : pc'[g] \in Spending => req'[g].flow # x.flow
        BY <1>0, <1>1, <1>3, <2>5, <2>7 DEF CodesApart
      <3> QED BY <3>1, <3>2, <3>3 DEF CodesApart
    <2> QED BY <1>5, <1>6, <2>4, <2>8 DEF SignInInv
  <1> QED BY <1>1, <1>7, <1>8

\* A request comes in: a login without a flow, or a callback, whose browser has
\* the cookie of its flow.
LEMMA SignInBegins ==
  ASSUME AccountsType, SignInInv, NEW h \in Handlers,
         \/ \E login \in Logins : LoginLookup(h, login)
         \/ \E b \in Browsers, rep \in Replicas, f \in DOMAIN flow, who \in Identities :
               Callback(h, b, rep, f, who)
  PROVE  SignInInv'
  <1>0. /\ key \in Nat /\ flow \in Seq(Flows) /\ Len(flow) \in Nat
        /\ \A f \in 1..Len(flow) : flow[f] \in Flows
        /\ Blank \in Requests /\ users \subseteq Users /\ KidsPublished /\ CookiesOwned
    BY SignTypes, BlankType DEF AccountsType, StoreType, SignInInv
  <1>1. ASSUME NEW login \in Logins, LoginLookup(h, login) PROVE SignInInv'
    <2>1. PICK u \in users : Goto(h, "insert", [Blank EXCEPT !.row = Read(u)])
      BY <1>1 DEF LoginLookup, Best, Matches
    <2> DEFINE r == [Blank EXCEPT !.row = Read(u)]
    <2>2. r \in Requests /\ r.flow = 0
      BY <1>0, ReadType DEF Requests, Blank
    <2>3. Goto(h, "insert", r) /\ users' = users /\ UNCHANGED <<flow, pkce, key, sessions>>
      BY <1>1, <2>1 DEF LoginLookup, storeVars, ssoVars
    <2> HIDE DEF r
    <2>4. Signed(users', flow, key, "insert", r)
      BY <2>2 DEF Signed, Redeemed, Spending
    <2>5. "insert" \in Labels /\ "insert" \notin Spending
      BY DEF Labels, Spending
    <2> QED BY <2>2, <2>3, <2>4, <2>5, SignInLocal
  <1>2. ASSUME NEW b \in Browsers, NEW rep \in Replicas, NEW f \in DOMAIN flow, NEW who \in Identities,
               Callback(h, b, rep, f, who)
        PROVE  SignInInv'
    <2> DEFINE r == [Blank EXCEPT !.rep = rep, !.browser = b, !.flow = f]
               x == [flow[f] EXCEPT !.who = who, !.code = "unspent"]
    <2>1. f \in 1..Len(flow) /\ f \in Nat /\ flow[f] \in Flows
      BY <1>0
    <2>2. r \in Requests /\ r.flow = f /\ r.browser = b
      BY <1>0, <2>1 DEF Requests
    <2>3. /\ pkce[b] = f /\ Goto(h, "exchange", r)
          /\ \/ flow[f].code = "none" /\ flow' = [flow EXCEPT ![f] = x]
             \/ flow' = flow
          /\ users' = users /\ UNCHANGED <<pkce, key, sessions>>
      BY <1>2 DEF Callback, storeVars
    <2>4. x \in Flows /\ x.browser = flow[f].browser /\ x.kid = flow[f].kid
      BY <2>1 DEF Flows
    <2> HIDE DEF r, x
    <2>5. /\ Len(flow') = Len(flow) /\ flow'[f] \in {flow[f], x}
          /\ \A g \in 1..Len(flow) : g # f => flow'[g] = flow[g]
      BY <1>0, <2>1, <2>3, <2>4, FlowElement
    <2>6. /\ \A g \in 1..Len(flow) : flow'[g].browser = flow[g].browser /\ flow'[g].kid = flow[g].kid
          /\ FlowsStay(flow, flow') /\ UsersStay(users, users')
      BY <1>0, <2>3, <2>4, <2>5, UsersGrow DEF FlowsStay
    <2>7. KidsPublished' /\ CookiesOwned'
      BY <1>0, <2>3, <2>5, <2>6 DEF KidsPublished, CookiesOwned
    <2>8. flow[f].browser = b
      BY <1>0, <2>1, <2>3 DEF CookiesOwned
    <2>9. Signed(users', flow', key', "exchange", r)
      BY <2>1, <2>2, <2>6, <2>8 DEF Signed, Redeemed, Spending
    <2>10. "exchange" \in Labels /\ "exchange" \notin Spending
      BY DEF Labels, Spending
    <2> QED BY <2>2, <2>3, <2>6, <2>7, <2>9, <2>10, SignInMove
  <1> QED BY <1>1, <1>2

\* The code of a flow is exchanged once; the ID token is signed with a key that
\* is published.
LEMMA SignInExchange ==
  ASSUME AccountsType, SignInInv, NEW h \in Handlers, Exchange(h)
  PROVE  SignInInv'
  <1> DEFINE f == req[h].flow
             x == [flow[f] EXCEPT !.code = "spent", !.kid = key]
  <1>0. /\ key \in Nat /\ flow \in Seq(Flows) /\ Len(flow) \in Nat
        /\ KidsPublished /\ CookiesOwned /\ pc[h] = "exchange" /\ req[h] \in Requests
        /\ users' = users /\ UNCHANGED <<pkce, key, sessions>>
    BY SignTypes DEF SignInInv, Exchange, storeVars
  <1>1. f \in 1..Len(flow) /\ flow[f] \in Flows /\ f # 0
    BY <1>0, SignTypes
  <1>2. CASE flow[f].code = "unspent" /\ flow' = [flow EXCEPT ![f] = x] /\ Goto(h, "find_key", req[h])
    <2>1. x \in Flows /\ x.browser = flow[f].browser /\ x.kid = key /\ x.code = "spent"
      BY <1>0, <1>1 DEF Flows
    <2> HIDE DEF x
    <2>2. /\ Len(flow') = Len(flow) /\ flow'[f] = x
          /\ \A g \in 1..Len(flow) : g # f => flow'[g] = flow[g]
      BY <1>0, <1>1, <1>2, <2>1, FlowElement
    <2>3. FlowsStay(flow, flow') /\ UsersStay(users, users')
      BY <1>0, <1>2, <2>1, <2>2, UsersGrow DEF FlowsStay
    <2>4. KidsPublished'
      BY <1>0, <2>1, <2>2 DEF KidsPublished
    <2>5. CookiesOwned'
      BY <1>0, <2>1, <2>2 DEF CookiesOwned
    <2>6. flow[f].browser = req[h].browser
      BY <1>0 DEF SignInInv, Signed
    <2>7. Signed(users', flow', key', "find_key", req[h])
      BY <2>1, <2>2, <2>6 DEF Signed, Redeemed
    <2>8. "find_key" \in Labels
      BY DEF Labels
    <2> QED BY <1>0, <1>1, <1>2, <2>3, <2>4, <2>5, <2>7, <2>8, SignInMove
  <1>3. CASE Goto(h, "idle", Blank) /\ flow' = flow
    <2>1. Signed(users', flow, key, "idle", Blank) /\ "idle" \in Labels /\ "idle" \notin Spending
      BY DEF Signed, Redeemed, Spending, Labels
    <2> QED BY <1>0, <1>3, <2>1, BlankType, SignInLocal
  <1> QED BY <1>2, <1>3 DEF Exchange

\* The JWKS cache: a key that is fetched is at least as new as the token's.
LEMMA SignInKeys ==
  ASSUME AccountsType, SignInInv, NEW h \in Handlers,
         FindKey(h) \/ FetchJwks(h) \/ StoreJwks(h) \/ SsoUnavailable(h) \/ SsoRejected(h)
  PROVE  SignInInv'
  <1> DEFINE x == flow[req[h].flow]
  <1>0. /\ key \in Nat /\ KidsPublished /\ req[h] \in Requests /\ req[h].fetched \in Nat
        /\ pc[h] \in {"exchange", "find_key", "fetch", "fetched", "invalid", "refused"}
        /\ users' = users /\ UNCHANGED <<flow, pkce, key, sessions>>
    BY SignTypes, HandlerFacts
       DEF SignInInv, FindKey, FetchJwks, StoreJwks, SsoUnavailable, SsoRejected, storeVars, ssoVars
  <1>1. req[h].flow \in 1..Len(flow) /\ x.kid \in Nat /\ x.kid <= key
    BY <1>0, SignTypes DEF KidsPublished
  <1>2. /\ x.browser = req[h].browser
        /\ pc[h] \in {"find_key", "fetch", "fetched"} => x.code = "spent"
        /\ pc[h] = "fetched" => x.kid <= req[h].fetched /\ req[h].fetched <= key
    BY <1>0 DEF SignInInv, Signed, Redeemed, Spending
  <1>l. /\ {"idle", "fetch", "fetched", "select", "invalid"} \subseteq Labels
        /\ {"find_key", "fetch", "fetched", "select"} \subseteq Spending
        /\ "idle" \notin Spending /\ "invalid" \notin Spending
    BY DEF Labels, Spending
  <1>3. CASE FindKey(h)
    <2>1. pc[h] = "find_key" /\ (Goto(h, "fetch", req[h]) \/ Goto(h, "select", req[h]))
      BY <1>3 DEF FindKey, MustFetch
    <2>2. Signed(users', flow, key, "fetch", req[h]) /\ Signed(users', flow, key, "select", req[h])
      BY <1>2, <2>1 DEF Signed
    <2> QED BY <1>0, <1>l, <2>1, <2>2, SignInLocal
  <1>4. CASE FetchJwks(h)
    <2> DEFINE r == [req[h] EXCEPT !.fetched = key]
    <2>1. pc[h] = "fetch" /\ Goto(h, "fetched", r)
      BY <1>4 DEF FetchJwks
    <2>2. r \in Requests /\ r.flow = req[h].flow /\ r.browser = req[h].browser /\ r.fetched = key
      BY <1>0 DEF Requests
    <2> HIDE DEF r
    <2>3. Signed(users', flow, key, "fetched", r)
      BY <1>0, <1>1, <1>2, <2>1, <2>2 DEF Signed
    <2> QED BY <1>0, <1>l, <2>1, <2>2, <2>3, SignInLocal
  <1>5. CASE StoreJwks(h)
    <2> DEFINE r == [req[h] EXCEPT !.fetched = 0]
    <2>1. /\ pc[h] = "fetched"
          /\ Goto(h, IF req[h].fetched = x.kid THEN "select" ELSE "invalid", r)
      BY <1>5 DEF StoreJwks
    <2>2. /\ r \in Requests /\ r.flow = req[h].flow /\ r.browser = req[h].browser
      BY <1>0 DEF Requests
    <2> HIDE DEF r
    <2>3. CASE req[h].fetched = x.kid
      <3>1. Signed(users', flow, key, "select", r)
        BY <1>2, <2>1, <2>2 DEF Signed
      <3> QED BY <1>0, <1>l, <2>1, <2>2, <2>3, <3>1, SignInLocal
    <2>4. CASE req[h].fetched # x.kid
      <3>1. x.kid < key
        BY <1>0, <1>1, <1>2, <2>1, <2>4
      <3>2. Signed(users', flow, key, "invalid", r)
        BY <1>2, <2>1, <2>2, <3>1 DEF Signed
      <3> QED BY <1>0, <1>l, <2>1, <2>2, <2>4, <3>2, SignInLocal
    <2> QED BY <2>3, <2>4
  <1>6. CASE SsoUnavailable(h)
    <2> DEFINE r == [req[h] EXCEPT !.failed = TRUE]
    <2>1. Goto(h, "invalid", r)
      BY <1>6 DEF SsoUnavailable
    <2>2. r \in Requests /\ r.flow = req[h].flow /\ r.browser = req[h].browser /\ r.failed
      BY <1>0 DEF Requests
    <2> HIDE DEF r
    <2>3. Signed(users', flow, key, "invalid", r)
      BY <1>2, <2>2 DEF Signed, Redeemed, Spending
    <2> QED BY <1>0, <1>l, <2>1, <2>2, <2>3, SignInLocal
  <1>7. CASE SsoRejected(h)
    <2>1. Goto(h, "idle", Blank)
      BY <1>7 DEF SsoRejected
    <2>2. Signed(users', flow, key, "idle", Blank)
      BY DEF Signed, Redeemed, Spending
    <2> QED BY <1>0, <1>l, <2>1, <2>2, BlankType, SignInLocal
  <1> QED BY <1>3, <1>4, <1>5, <1>6, <1>7

\* The row that a clash is with has the address, or the name that was tried.
LEMMA ClashTaken ==
  ASSUME AccountsType, NEW h \in Handlers, pc[h] \notin {"idle", "insert"}, NEW p \in BOOLEAN,
         Taken(SsoAccount(h, p))
  PROVE  LET w == flow[req[h].flow].who
         IN  TakenBy(users, w, IF p THEN Prefixed(w.name) ELSE w.name)
  <1> DEFINE w == flow[req[h].flow].who
             n == IF p THEN Prefixed(w.name) ELSE w.name
  <1>1. w \in Identities
    BY SignTypes DEF Flows
  <1>2. w.email \in Emails
    BY <1>1, AccountsAssumption
  <1> HIDE DEF w
  <1>3. SsoAccount(h, p).name = n /\ SsoAccount(h, p).email = Fold(w.email)
    BY DEF SsoAccount, NewUser, w
  <1>4. PICK v \in users : v.name = n \/ v.email = Fold(w.email)
    BY <1>3 DEF Taken, Clash
  <1>5. Fold(Fold(w.email)) = Fold(w.email)
    BY <1>2, FoldFacts
  <1>6. TakenBy(users, w, n)
    BY <1>4, <1>5 DEF TakenBy
  <1> QED BY <1>6 DEF w

LEMMA SignInAccount ==
  ASSUME AccountsType, SignInInv, NEW h \in Handlers,
         SelectFound(h) \/ SelectNone(h) \/ Provision(h) \/ Retry(h) \/ Reread(h)
  PROVE  SignInInv'
  <1> DEFINE x == flow[req[h].flow]
  <1>0. /\ key \in Nat /\ req[h] \in Requests /\ users \subseteq Users
        /\ pend \in [Handlers -> SUBSET Users]
        /\ pc[h] \in {"select", "provision", "retry", "reread"}
        /\ users \subseteq users' /\ UNCHANGED <<flow, pkce, key, sessions>>
    BY SignTypes
       DEF AccountsType, StoreType, SelectFound, SelectNone, Provision, Retry, Reread, storeVars, ssoVars
  <1>2. /\ x.browser = req[h].browser /\ x.code = "spent"
        /\ pc[h] = "retry" => TakenBy(users, x.who, x.who.name)
    BY <1>0 DEF SignInInv, Signed, Redeemed, Spending
  <1>l. /\ {"provision", "retry", "reread", "session", "refused"} \subseteq Labels
        /\ {"select", "provision", "retry", "reread", "session"} \subseteq Spending
        /\ "refused" \notin Spending
    BY DEF Labels, Spending
  <1>3. CASE SelectFound(h) \/ Reread(h)
    <2>1. PICK u \in users' : /\ Fold(u.email) = Fold(x.who.email)
                              /\ Goto(h, "session", [req[h] EXCEPT !.row = Read(u)])
      BY <1>3 DEF SelectFound, Reread, OfAddress, storeVars
    <2> DEFINE r == [req[h] EXCEPT !.row = Read(u)]
    <2>2. users' \subseteq Users
      BY <1>0, <1>3 DEF SelectFound, Reread, storeVars
    <2>3. Read(u) \in Kept /\ Read(u).uid = u.id
      BY <2>2, ReadType
    <2>4. /\ r \in Requests /\ r.flow = req[h].flow /\ r.browser = req[h].browser /\ r.row = Read(u)
      BY <1>0, <2>3 DEF Requests
    <2>5. Goto(h, "session", r)
      BY <2>1
    <2> HIDE DEF r
    <2>6. OfPerson(users', r.row.uid, x.who.email)
      BY <2>1, <2>3, <2>4 DEF OfPerson
    <2>7. Signed(users', flow, key, "session", r)
      BY <1>2, <2>4, <2>6 DEF Signed
    <2> QED BY <1>0, <1>l, <2>4, <2>5, <2>7, SignInLocal
  <1>4. CASE SelectNone(h) \/ Provision(h)
    <2>1. \E l \in {"provision", "reread"} : Goto(h, l, req[h])
          \/ (Goto(h, "retry", req[h]) /\ Taken(SsoAccount(h, FALSE)))
      BY <1>4 DEF SelectNone, Provision
    <2>2. Signed(users', flow, key, "provision", req[h]) /\ Signed(users', flow, key, "reread", req[h])
      BY <1>2 DEF Signed
    <2>3. ASSUME Taken(SsoAccount(h, FALSE)) PROVE Signed(users', flow, key, "retry", req[h])
      <3>1. TakenBy(users, x.who, x.who.name)
        BY <1>0, <2>3, ClashTaken
      <3>2. TakenBy(users', x.who, x.who.name)
        BY <1>0, <3>1, UsersGrow, PersonStays
      <3> QED BY <1>2, <3>2 DEF Signed
    <2> QED BY <1>0, <1>l, <2>1, <2>2, <2>3, SignInLocal
  <1>5. CASE Retry(h)
    <2>1. /\ pc[h] = "retry" /\ users' = users
          /\ \/ Goto(h, "reread", req[h])
             \/ Goto(h, "refused", req[h]) /\ (Taken(SsoAccount(h, TRUE)) \/ AbortsOnError)
      BY <1>5 DEF Retry, RetryAccount
    <2>2. Signed(users', flow, key, "reread", req[h])
      BY <1>2 DEF Signed
    <2>3. ASSUME Taken(SsoAccount(h, TRUE)) \/ AbortsOnError
          PROVE  Signed(users', flow, key, "refused", req[h])
      <3>1. AbortsOnError \/ TakenBy(users, x.who, Prefixed(x.who.name))
        BY <1>0, <2>3, ClashTaken
      <3> QED BY <1>2, <2>1, <3>1 DEF Signed
    <2> QED BY <1>0, <1>l, <2>1, <2>2, <2>3, SignInLocal
  <1> QED BY <1>3, <1>4, <1>5

LEMMA SignInStep == AccountsType /\ SignInInv /\ [Next]_vars => SignInInv'
  <1> SUFFICES ASSUME AccountsType, SignInInv, [Next]_vars PROVE SignInInv'
    OBVIOUS
  <1>1. ASSUME NEW h \in Handlers, LoginInsert(h) \/ SsoStep(h) \/ SsoUnavailable(h)
        PROVE  SignInInv'
    BY <1>1, SignInSession, SignInExchange, SignInKeys, SignInAccount DEF SsoStep
  <1> QED BY <1>1, SignInWorldSteps, SignInRole, SignInBegins DEF Next

-----------------------------------------------------------------------------
LEMMA SignInAlways == Spec => [](AccountsType /\ SignInInv)
  BY InitType, StepType, SignInInitially, SignInStep, PTL DEF Spec

\* A session from SSO belongs to the person the provider authenticated, is in the
\* browser that began the sign-in, and is the only one of that sign-in, whatever
\* redirects are opened twice and whichever requests race.
THEOREM SignInsGenuine == Spec => []SsoSessionGenuine
  <1>1. SignInInv => SsoSessionGenuine
    BY DEF SignInInv, SessionSigned, CodesApart, OfPerson, SsoSessionGenuine
  <1> QED BY <1>1, SignInAlways, PTL

\* A token is rejected only if its key is withdrawn by now or a call failed,
\* whatever answers of the provider overtake each other in the cache.
THEOREM CacheHeals == Spec => []RotationHeals
  <1>1. AccountsType /\ SignInInv => RotationHeals
    <2> SUFFICES ASSUME AccountsType, SignInInv, NEW h \in Handlers, pc[h] = "invalid", ~req[h].failed
                 PROVE  flow[req[h].flow].kid # key
      BY DEF RotationHeals
    <2>1. flow[req[h].flow].kid < key
      BY DEF SignInInv, Signed
    <2>2. flow[req[h].flow].kid \in Nat /\ key \in Nat
      BY SignTypes
    <2> QED BY <2>1, <2>2
  <1> QED BY <1>1, SignInAlways, PTL

\* A provisioning is refused only if the address has an account by now, both
\* names are taken, or the failed INSERT has doomed the transaction.
THEOREM RefusalsExplained == Spec => []RefusedWithReason
  <1>1. SignInInv => RefusedWithReason
    <2> SUFFICES ASSUME SignInInv, NEW h \in Handlers, pc[h] = "refused", ~AbortsOnError,
                        OfAddress(users, flow[req[h].flow].who.email) = {}
                 PROVE  LET w == flow[req[h].flow].who
                        IN  \A n \in {w.name, Prefixed(w.name)} : \E u \in users : u.name = n
      BY DEF RefusedWithReason
    <2> DEFINE w == flow[req[h].flow].who
    <2>1. TakenBy(users, w, w.name) /\ TakenBy(users, w, Prefixed(w.name))
      BY DEF SignInInv, Signed
    <2>2. \A u \in users : Fold(u.email) # Fold(w.email)
      BY DEF OfAddress
    <2> QED BY <2>1, <2>2 DEF TakenBy
  <1> QED BY <1>1, SignInAlways, PTL

=============================================================================
