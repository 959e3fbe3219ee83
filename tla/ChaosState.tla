----------------------------- MODULE ChaosState -----------------------------
(***************************************************************************)
(* Chaos scenarios: apply and clear of server/chaos/admin.py, and the      *)
(* reader get_active_state of server/chaos/registry.py.  Replicas and the  *)
(* shop keep no copy of the scenario: whoever injects faults reads the     *)
(* table each time.                                                        *)
(*                                                                         *)
(* The table chaos_state has no key that two scenarios would meet on.  A   *)
(* request deletes the rows it sees; a row that another transaction has    *)
(* deleted and not committed makes the DELETE wait.                        *)
(*                                                                         *)
(* The role is read from request.state.session, which no code under        *)
(* server/ sets: SessionRoles is what a layer in front would put there.    *)
(***************************************************************************)
EXTENDS Integers

CONSTANTS
    Operators,       \* requests under way at once
    SessionRoles,    \* roles found in request.state.session
    Ttls,            \* values of ttl_seconds, at most MAX_TTL_SECONDS
    MaxChaosRequests, \* bound: scenarios applied and cleared
    MaxClock         \* bound: time

ASSUME ChaosAssumption ==
    Ttls \subseteq Nat /\ MaxChaosRequests \in Nat /\ MaxClock \in Nat

VARIABLES
    rows,            \* committed rows: id, applied, expires; began and ended for the properties
    chaosReq,        \* chaosReq[o]: the request under way
    clock,
    requests,        \* applies and clears so far
    turn             \* number of DELETEs and commits so far

chaosVars == <<rows, chaosReq, clock, requests, turn>>

Row == [id : Nat, applied : Nat, expires : Nat, began : Nat, ended : Nat]
NoRequest == [at |-> "idle", id |-> 0, applied |-> 0, expires |-> 0, began |-> 0, doomed |-> {}]

ChaosInit ==
    /\ rows = {} /\ clock = 0 /\ requests = 0 /\ turn = 0
    /\ chaosReq = [o \in Operators |-> NoRequest]

Permitted == "chaos-operator" \in SessionRoles          \* require_role
LockedRows(o) == UNION {chaosReq[p].doomed : p \in Operators \ {o}}

\* apply_scenario: the times are taken before the transaction begins.
ApplyScenario(o, ttl) ==
    /\ Permitted /\ chaosReq[o].at = "idle" /\ requests < MaxChaosRequests
    /\ clock + ttl <= MaxClock
    /\ requests' = requests + 1
    /\ chaosReq' = [chaosReq EXCEPT ![o] =
                       [at |-> "apply", id |-> requests + 1, applied |-> clock,
                        expires |-> clock + ttl, began |-> 0, doomed |-> {}]]
    /\ UNCHANGED <<rows, clock, turn>>

ClearScenario(o) ==
    /\ Permitted /\ chaosReq[o].at = "idle" /\ requests < MaxChaosRequests
    /\ requests' = requests + 1
    /\ chaosReq' = [chaosReq EXCEPT ![o].at = "clear"]
    /\ UNCHANGED <<rows, clock, turn>>

\* Mutant: only rows that have expired are deleted.
ExpiredOnly == {r \in rows : r.expires <= clock}

Visible == rows

\* DELETE FROM chaos_state
DeleteRows(o) ==
    LET q == chaosReq[o]
    IN  /\ q.at \in {"apply", "clear"} /\ Visible \cap LockedRows(o) = {}
        /\ turn' = turn + 1
        /\ chaosReq' = [chaosReq EXCEPT ![o] =
                           [at |-> IF q.at = "apply" THEN "insert" ELSE "commit", id |-> q.id,
                            applied |-> q.applied, expires |-> q.expires,
                            began |-> turn + 1, doomed |-> Visible]]
        /\ UNCHANGED <<rows, clock, requests>>

\* The transaction of o commits, adding new.
ChaosCommit(o, new) ==
    /\ turn' = turn + 1
    /\ rows' = (rows \ chaosReq[o].doomed) \cup new
    /\ chaosReq' = [chaosReq EXCEPT ![o] = NoRequest]
    /\ UNCHANGED <<clock, requests>>

\* INSERT under a new id, and the commit.
InsertRow(o) ==
    LET q == chaosReq[o]
    IN  /\ q.at = "insert"
        /\ ChaosCommit(o, {[id |-> q.id, applied |-> q.applied, expires |-> q.expires,
                       began |-> q.began, ended |-> turn + 1]})

CommitClear(o) == chaosReq[o].at = "commit" /\ ChaosCommit(o, {})

\* A statement or the commit fails and the transaction is rolled back.  Apply
\* answers 500; clear swallows the error and answers ok all the same.
ChaosFails(o) ==
    /\ chaosReq[o].at # "idle"
    /\ chaosReq' = [chaosReq EXCEPT ![o] = NoRequest]
    /\ UNCHANGED <<rows, clock, requests, turn>>

PassTime ==
    /\ clock < MaxClock /\ clock' = clock + 1
    /\ UNCHANGED <<rows, chaosReq, requests, turn>>

ChaosNext ==
    \/ \E o \in Operators, ttl \in Ttls : ApplyScenario(o, ttl)
    \/ \E o \in Operators : \/ ClearScenario(o) \/ DeleteRows(o)
                            \/ InsertRow(o) \/ CommitClear(o) \/ ChaosFails(o)
    \/ PassTime

\* Time passes and requests go on.
ChaosFairness ==
    /\ WF_chaosVars(PassTime)
    /\ \A o \in Operators : WF_chaosVars(DeleteRows(o) \/ InsertRow(o) \/ CommitClear(o))

ChaosSpec == ChaosInit /\ [][ChaosNext]_chaosVars /\ ChaosFairness

\* Mutant: an expired scenario goes on.
AnyLive == rows

\* Rows that have not expired, and of these the latest: get_active_state.
Live == {r \in rows : r.expires > clock}
ActiveState == {r \in Live : \A s \in Live : s.applied <= r.applied}

-----------------------------------------------------------------------------
ChaosTypeOK ==
    /\ rows \subseteq Row
    /\ chaosReq \in [Operators -> [at : {"idle", "apply", "clear", "insert", "commit"}, id : Nat,
                                   applied : Nat, expires : Nat, began : Nat, doomed : SUBSET Row]]
    /\ clock \in Nat /\ requests \in Nat /\ turn \in Nat

\* _persist deletes "any prior row so only one active scenario exists at a
\* time".  Two exist only if their transactions overlapped: neither began its
\* DELETE after the other had committed, whatever failed or was cleared between.
OneScenarioUnlessRaced ==
    \A r, s \in rows : r # s => r.began < s.ended /\ s.began < r.ended

\* Once nobody applies scenarios any more, chaos ends by its time to live, even
\* if every clear fails and is answered with ok.
ChaosEnds == <>[](ActiveState = {})
=============================================================================
