---------------------------- MODULE SessionGate ----------------------------
(***************************************************************************)
(* Authentication of a request: SessionGateMiddleware.dispatch             *)
(* (server/middleware/session_gate.py) in front of get_current_user, the   *)
(* in-process session cache and the user_sessions table that all replicas  *)
(* share (server/modules/auth.py).                                         *)
(*                                                                         *)
(* A request takes a slot of the semaphore _auth_inflight, queues a lookup *)
(* for the thread pool _auth_executor and waits for it with a timeout.     *)
(* The timeout cancels a lookup that is still queued: its entry, now None, *)
(* stays in the queue until a thread takes it out.  A lookup that a thread *)
(* has begun cannot be cancelled and goes on by itself.                    *)
(*                                                                         *)
(* Time is counted in ticks: a cache entry is the number of ticks it may   *)
(* still be used.                                                          *)
(***************************************************************************)
EXTENDS Integers, FiniteSets, Sequences

CONSTANTS
    Replicas,     \* processes of the application
    Workers,      \* threads of _auth_executor in each replica
    Requests,     \* requests that may be under way at once
    Sids,         \* session tokens
    TTL,          \* _SESSION_CACHE_TTL
    None,         \* no cookie, no request
    MaxQueue,     \* bound on the queue of a replica
    MaxFaults     \* bound on failed or hung lookups and restarts

ASSUME GateAssumption ==
    /\ IsFiniteSet(Workers) /\ Workers # {}
    /\ IsFiniteSet(Requests)
    /\ TTL \in Nat /\ MaxQueue \in Nat /\ MaxFaults \in Nat
    /\ None \notin Sids /\ None \notin Requests

VARIABLES
    issued,    \* tokens ever handed out by login or sso_callback
    sessions,  \* rows of user_sessions
    cache,     \* cache[rep][s]: ticks the entry of s in _session_cache lives
    pc, at, sid, answer,   \* the requests
    free,      \* free[rep]: value of _auth_inflight
    queue,     \* queue[rep]: lookups no thread has begun, None if cancelled
    thread,    \* thread[rep][w]: what thread w is doing
    faults

storeVars == <<issued, sessions>>
requestVars == <<pc, at, sid, answer>>
vars == <<issued, sessions, cache, pc, at, sid, answer, free, queue, thread, faults>>

Capacity == 2 * Cardinality(Workers)

Idle == [st |-> "idle", sid |-> None, req |-> None]
Elements(q) == {q[i] : i \in DOMAIN q} \ {None}
Served(T) == {T[w].req : w \in Workers} \ {None}
Distinct(q) == \A i, j \in DOMAIN q : q[i] = q[j] => i = j \/ q[i] = None

Thread == [st : {"idle", "select", "found", "missed", "hung"},
           sid : Sids \cup {None}, req : Requests \cup {None}]

Entry == Requests \cup {None}

Init ==
    /\ issued = {} /\ sessions = {}
    /\ cache = [rep \in Replicas |-> [s \in Sids |-> 0]]
    /\ pc = [r \in Requests |-> "idle"]
    /\ at \in [Requests -> Replicas]
    /\ sid = [r \in Requests |-> None]
    /\ answer = [r \in Requests |-> "none"]
    /\ free = [rep \in Replicas |-> Capacity]
    /\ queue = [rep \in Replicas |-> <<>>]
    /\ thread = [rep \in Replicas |-> [w \in Workers |-> Idle]]
    /\ faults = 0

-----------------------------------------------------------------------------
(* The session store.                                                      *)

\* login and sso_callback insert a row under a new random token.
Login(s) ==
    /\ s \notin issued
    /\ issued' = issued \cup {s}
    /\ sessions' = sessions \cup {s}
    /\ UNCHANGED <<cache, requestVars, free, queue, thread, faults>>

\* logout deletes the row, and no cache entry.
Logout(s) ==
    /\ s \in issued
    /\ sessions' = sessions \ {s}
    /\ UNCHANGED <<issued, cache, requestVars, free, queue, thread, faults>>

\* A tick of the clock.
Tick ==
    /\ \E rep \in Replicas, s \in Sids : cache[rep][s] > 0
    /\ cache' = [rep \in Replicas |-> [s \in Sids |->
                    IF cache[rep][s] > 0 THEN cache[rep][s] - 1 ELSE 0]]
    /\ UNCHANGED <<storeVars, requestVars, free, queue, thread, faults>>

-----------------------------------------------------------------------------
(* The event loop: dispatch.                                               *)

\* Requests of a replica that wait for a slot.
Waiting(rep) == {r \in Requests : pc[r] = "admit" /\ at[r] = rep}

\* A request that needs a session arrives.
Arrive(r, rep, s) ==
    /\ pc[r] = "idle"
    /\ Len(queue[rep]) + Cardinality(Waiting(rep)) < MaxQueue
    /\ pc' = [pc EXCEPT ![r] = "admit"]
    /\ at' = [at EXCEPT ![r] = rep]
    /\ sid' = [sid EXCEPT ![r] = s]
    /\ UNCHANGED <<storeVars, cache, answer, free, queue, thread, faults>>

\* A request for one of _PUBLIC_PREFIXES goes through.
ArrivePublic(r, rep) ==
    /\ pc[r] = "idle"
    /\ pc' = [pc EXCEPT ![r] = "answered"]
    /\ at' = [at EXCEPT ![r] = rep]
    /\ sid' = [sid EXCEPT ![r] = None]
    /\ answer' = [answer EXCEPT ![r] = "public"]
    /\ UNCHANGED <<storeVars, cache, free, queue, thread, faults>>

\* Mutant: the lookup is handed over whether or not a slot is free.
AdmitUnguarded(r) ==
    /\ pc[r] = "admit"
    /\ free' = [free EXCEPT ![at[r]] = @ - 1]
    /\ queue' = [queue EXCEPT ![at[r]] = Append(@, r)]
    /\ pc' = [pc EXCEPT ![r] = "lookup"]
    /\ UNCHANGED <<storeVars, cache, at, sid, answer, thread, faults>>

\* The slot is acquired and the lookup handed to the executor.
Admit(r) ==
    /\ pc[r] = "admit" /\ free[at[r]] > 0
    /\ free' = [free EXCEPT ![at[r]] = @ - 1]
    /\ queue' = [queue EXCEPT ![at[r]] = Append(@, r)]
    /\ pc' = [pc EXCEPT ![r] = "lookup"]
    /\ UNCHANGED <<storeVars, cache, at, sid, answer, thread, faults>>

\* No slot within 500 ms: 503.
AdmitTimeout(r) ==
    /\ pc[r] = "admit" /\ free[at[r]] = 0
    /\ pc' = [pc EXCEPT ![r] = "answered"]
    /\ answer' = [answer EXCEPT ![r] = "auth_saturated"]
    /\ UNCHANGED <<storeVars, cache, at, sid, free, queue, thread, faults>>

\* Mutants: the timeout keeps the slot; it does not cancel the lookup; nothing
\* bounds the wait.
TimeoutKeepsSlot(r) ==
    /\ pc[r] = "lookup"
    /\ \E w \in Workers :
          /\ thread[at[r]][w].req = r
          /\ thread' = [thread EXCEPT ![at[r]][w].req = None]
    /\ pc' = [pc EXCEPT ![r] = "answered"]
    /\ answer' = [answer EXCEPT ![r] = "auth_timeout"]
    /\ UNCHANGED <<storeVars, cache, at, sid, free, queue, faults>>

TimeoutWithoutCancel(r) ==
    /\ pc[r] = "lookup"
    /\ free' = [free EXCEPT ![at[r]] = @ + 1]
    /\ pc' = [pc EXCEPT ![r] = "answered"]
    /\ answer' = [answer EXCEPT ![r] = "auth_timeout"]
    /\ UNCHANGED <<storeVars, cache, at, sid, queue, thread, faults>>

NoTimeout(r) == FALSE

\* wait_for gives up after _AUTH_LOOKUP_TIMEOUT_S: 503, and the slot is free.
\* A queued lookup is cancelled, a running one goes on for nobody.
LookupTimeout(r) ==
    /\ pc[r] = "lookup"
    /\ \/ \E i \in DOMAIN queue[at[r]] :
             /\ queue[at[r]][i] = r
             /\ queue' = [queue EXCEPT ![at[r]][i] = None]
             /\ UNCHANGED thread
       \/ \E w \in Workers :
             /\ thread[at[r]][w].req = r
             /\ thread' = [thread EXCEPT ![at[r]][w].req = None]
             /\ UNCHANGED queue
    /\ free' = [free EXCEPT ![at[r]] = @ + 1]
    /\ pc' = [pc EXCEPT ![r] = "answered"]
    /\ answer' = [answer EXCEPT ![r] = "auth_timeout"]
    /\ UNCHANGED <<storeVars, cache, at, sid, faults>>

\* The response is sent.
Finish(r) ==
    /\ pc[r] = "answered"
    /\ pc' = [pc EXCEPT ![r] = "idle"]
    /\ answer' = [answer EXCEPT ![r] = "none"]
    /\ UNCHANGED <<storeVars, cache, at, sid, free, queue, thread, faults>>

-----------------------------------------------------------------------------
(* The threads of the executor: get_current_user.                          *)

\* Thread w ends its lookup with a verdict; the request, if it still waits,
\* is answered and releases its slot.
Return(rep, w, verdict) ==
    LET r == thread[rep][w].req
    IN  /\ thread' = [thread EXCEPT ![rep][w] = Idle]
        /\ \/ /\ r = None
              /\ UNCHANGED <<pc, answer, free>>
           \/ /\ r # None
              /\ pc' = [pc EXCEPT ![r] = "answered"]
              /\ answer' = [answer EXCEPT ![r] = verdict]
              /\ free' = [free EXCEPT ![rep] = @ + 1]
        /\ UNCHANGED <<storeVars, at, sid>>

\* A cancelled lookup is taken from the queue and forgotten.
Discard(rep, w) ==
    /\ thread[rep][w].st = "idle" /\ queue[rep] # <<>> /\ Head(queue[rep]) = None
    /\ queue' = [queue EXCEPT ![rep] = Tail(@)]
    /\ UNCHANGED <<storeVars, cache, requestVars, free, thread, faults>>

\* Mutant: a hit in the cache renews the entry.
SlidingCache(rep, w) ==
    LET r == Head(queue[rep])
    IN  /\ thread[rep][w].st = "idle" /\ queue[rep] # <<>> /\ r # None
        /\ sid[r] # None /\ cache[rep][sid[r]] > 0
        /\ answer' = [answer EXCEPT ![r] = "ok"]
        /\ cache' = [cache EXCEPT ![rep][sid[r]] = TTL]
        /\ queue' = [queue EXCEPT ![rep] = Tail(@)]
        /\ pc' = [pc EXCEPT ![r] = "answered"]
        /\ free' = [free EXCEPT ![rep] = @ + 1]
        /\ UNCHANGED <<storeVars, at, sid, thread, faults>>

\* A thread takes the oldest lookup: without a cookie, or with a live cache
\* entry, it is over at once.
BeginCached(rep, w) ==
    LET r == Head(queue[rep])
    IN  /\ thread[rep][w].st = "idle" /\ queue[rep] # <<>> /\ r # None
        /\ \/ sid[r] = None /\ answer' = [answer EXCEPT ![r] = "denied"]
           \/ /\ sid[r] # None /\ cache[rep][sid[r]] > 0
              /\ answer' = [answer EXCEPT ![r] = "ok"]
        /\ queue' = [queue EXCEPT ![rep] = Tail(@)]
        /\ pc' = [pc EXCEPT ![r] = "answered"]
        /\ free' = [free EXCEPT ![rep] = @ + 1]
        /\ UNCHANGED <<storeVars, cache, at, sid, thread, faults>>

\* Otherwise it connects to the database.
BeginSelect(rep, w) ==
    LET r == Head(queue[rep])
    IN  /\ thread[rep][w].st = "idle" /\ queue[rep] # <<>> /\ r # None
        /\ sid[r] # None /\ cache[rep][sid[r]] = 0
        /\ queue' = [queue EXCEPT ![rep] = Tail(@)]
        /\ thread' = [thread EXCEPT ![rep][w] =
                         [st |-> "select", sid |-> sid[r], req |-> r]]
        /\ UNCHANGED <<storeVars, cache, requestVars, free, faults>>

\* SELECT ... FROM user_sessions.
Select(rep, w) ==
    /\ thread[rep][w].st = "select"
    /\ thread' = [thread EXCEPT ![rep][w].st =
          IF thread[rep][w].sid \in sessions THEN "found" ELSE "missed"]
    /\ UNCHANGED <<storeVars, cache, requestVars, free, queue, faults>>

\* The row is cached from now on, and returned.
ReturnFound(rep, w) ==
    /\ thread[rep][w].st = "found"
    /\ cache' = [cache EXCEPT ![rep][thread[rep][w].sid] = TTL]
    /\ Return(rep, w, "ok")
    /\ UNCHANGED <<queue, faults>>

\* No row: the cache entry is dropped, the verdict is None.
ReturnMissed(rep, w) ==
    /\ thread[rep][w].st = "missed"
    /\ cache' = [cache EXCEPT ![rep][thread[rep][w].sid] = 0]
    /\ Return(rep, w, "denied")
    /\ UNCHANGED <<queue, faults>>

\* Mutant: a lookup that raises returns None, as if there were no session.
FailureIsNoSession(rep, w) ==
    /\ thread[rep][w].st = "select" /\ faults < MaxFaults
    /\ Return(rep, w, "denied")
    /\ faults' = faults + 1
    /\ UNCHANGED <<cache, queue>>

\* The lookup raises: SessionLookupUnavailable, 503.
LookupFails(rep, w) ==
    /\ thread[rep][w].st = "select" /\ faults < MaxFaults
    /\ Return(rep, w, "auth_backend_error")
    /\ faults' = faults + 1
    /\ UNCHANGED <<cache, queue>>

\* The connection hangs; it may fail much later, or never.
Hang(rep, w) ==
    /\ thread[rep][w].st = "select" /\ faults < MaxFaults
    /\ thread' = [thread EXCEPT ![rep][w].st = "hung"]
    /\ faults' = faults + 1
    /\ UNCHANGED <<storeVars, cache, requestVars, free, queue>>

HungFails(rep, w) ==
    /\ thread[rep][w].st = "hung"
    /\ Return(rep, w, "auth_backend_error")
    /\ UNCHANGED <<cache, queue, faults>>

\* The replica is restarted: its memory and its requests are gone.
Restart(rep) ==
    /\ faults < MaxFaults
    /\ faults' = faults + 1
    /\ cache' = [cache EXCEPT ![rep] = [s \in Sids |-> 0]]
    /\ pc' = [r \in Requests |-> IF at[r] = rep THEN "idle" ELSE pc[r]]
    /\ answer' = [r \in Requests |-> IF at[r] = rep THEN "none" ELSE answer[r]]
    /\ free' = [free EXCEPT ![rep] = Capacity]
    /\ queue' = [queue EXCEPT ![rep] = <<>>]
    /\ thread' = [thread EXCEPT ![rep] = [w \in Workers |-> Idle]]
    /\ UNCHANGED <<storeVars, at, sid>>

-----------------------------------------------------------------------------
GateStep(r) == Admit(r) \/ AdmitTimeout(r) \/ LookupTimeout(r) \/ Finish(r)

ThreadStep(rep, w) ==
    \/ Discard(rep, w) \/ BeginCached(rep, w) \/ BeginSelect(rep, w)
    \/ Select(rep, w) \/ ReturnFound(rep, w) \/ ReturnMissed(rep, w)

Next ==
    \/ \E s \in Sids : Login(s) \/ Logout(s)
    \/ Tick
    \/ \E r \in Requests, rep \in Replicas :
          ArrivePublic(r, rep) \/ \E s \in issued \cup {None} : Arrive(r, rep, s)
    \/ \E r \in Requests : GateStep(r)
    \/ \E rep \in Replicas, w \in Workers :
          ThreadStep(rep, w) \/ LookupFails(rep, w) \/ Hang(rep, w) \/ HungFails(rep, w)
    \/ \E rep \in Replicas : Restart(rep)

Spec == Init /\ [][Next]_vars

\* Time passes and the event loop runs; a thread that is not hung goes on.
Fairness ==
    /\ WF_vars(Tick)
    /\ \A r \in Requests : WF_vars(GateStep(r))
    /\ \A rep \in Replicas, w \in Workers : WF_vars(ThreadStep(rep, w))

FairSpec == Spec /\ Fairness

-----------------------------------------------------------------------------
(* Properties.                                                             *)

\* Every variable has its type; in particular the semaphore is never negative,
\* sessions are of tokens handed out, and cache entries live at most TTL.
TypeOK ==
    /\ issued \subseteq Sids /\ sessions \subseteq issued
    /\ cache \in [Replicas -> [Sids -> 0..TTL]]
    /\ pc \in [Requests -> {"idle", "admit", "lookup", "answered"}]
    /\ at \in [Requests -> Replicas] /\ sid \in [Requests -> issued \cup {None}]
    /\ answer \in [Requests -> {"none", "public", "ok", "denied", "auth_saturated",
                                "auth_timeout", "auth_backend_error"}]
    /\ free \in [Replicas -> Nat]
    /\ queue \in [Replicas -> Seq(Entry)]
    /\ thread \in [Replicas -> [Workers -> Thread]]
    /\ faults \in Nat

LookupsOf(rep) == {r \in Requests : pc[r] = "lookup" /\ at[r] = rep}
BusyThreads(rep) == {w \in Workers : thread[rep][w].st # "idle"}

\* The semaphore neither leaks nor gains a slot, whatever way a request leaves
\* the gate: it counts the requests that wait for a lookup.
SemaphoreExact ==
    \A rep \in Replicas : free[rep] + Cardinality(LookupsOf(rep)) = Capacity

\* The requests L of a replica that wait are those its queue q and its threads
\* T work for, each once, with the cookie c of the request.
Matched(L, q, T, c) ==
    /\ L = Elements(q) \cup Served(T) /\ Elements(q) \cap Served(T) = {}
    /\ Distinct(q)
    /\ \A v, w \in Workers : T[v].req = T[w].req => v = w \/ T[v].req = None
    /\ \A w \in Workers : T[w].req # None => T[w].sid = c[T[w].req] /\ T[w].st # "idle"

\* A request that waits for a lookup has exactly one, queued or begun, for its
\* own cookie, in its own replica; no lookup answers any other request.
OneLookupEach ==
    \A rep \in Replicas : Matched(LookupsOf(rep), queue[rep], thread[rep], sid)

\* The lookups that still have to query user_sessions, or are doing so, stay
\* within the slots and the threads together: those whose request has given up
\* included, and even while threads are stuck on hung connections.
LookupsBounded ==
    \A rep \in Replicas :
       Cardinality(Elements(queue[rep])) + Cardinality(BusyThreads(rep))
          <= Capacity + Cardinality(Workers)

\* "Admission control: bound the number of auth lookups that can be in-flight
\* (running or queued) at once.  Without this, a DB stall turns into an unbounded
\* queue": while every thread is stuck in a lookup, the queue of the executor
\* holds no more entries than there are slots.
AdmissionControl ==
    \A rep \in Replicas : BusyThreads(rep) = Workers => Len(queue[rep]) <= Capacity

\* An outage of the session store is never taken for a missing session: a
\* request is told to log in only when its session is gone.
NoForcedLogout ==
    \A r \in Requests : pc[r] = "answered" /\ answer[r] = "denied" => sid[r] \notin sessions

\* What a thread knows of its token: it was handed out, and once the SELECT has
\* missed it has no row.  Tokens are never handed out again.
LookupsGenuine ==
    \A rep \in Replicas, w \in Workers :
       /\ thread[rep][w].sid \in issued \cup {None}
       /\ thread[rep][w].st = "missed" => thread[rep][w].sid \notin sessions

\* Every request is answered, even when every thread is stuck.
EveryRequestAnswered ==
    \A r \in Requests : pc[r] \in {"admit", "lookup"} ~> pc[r] \in {"answered", "idle"}

\* logout takes effect: although cache entries outlive the row, requests with
\* the token of a deleted session are not served for ever.
LogoutTakesEffect ==
    <>[](\A r \in Requests : pc[r] = "answered" /\ answer[r] = "ok" => sid[r] \in sessions)

=============================================================================
