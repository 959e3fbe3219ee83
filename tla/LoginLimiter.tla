---------------------------- MODULE LoginLimiter ----------------------------
(***************************************************************************)
(* The rate limiter in front of login (server/modules/auth.py): every      *)
(* process keeps, per client address, a list of the times of failed        *)
(* logins.  The length of the list is checked before the first await of    *)
(* the handler and the list is extended after the last one.                *)
(*                                                                         *)
(* Times older than LOGIN_WINDOW_SECONDS are pruned before a list is       *)
(* measured, so a list is the number of its times inside the window.  A    *)
(* handler holds the list it found: after another handler's success has    *)
(* popped that list, what it appends is seen by nobody.                    *)
(***************************************************************************)
EXTENDS Integers, FiniteSets

CONSTANTS
    LoginHandlers,   \* logins under way at once
    Processes,       \* replicas, each with its _login_attempts
    Clients,         \* client addresses
    MaxAttempts      \* cfg.max_login_attempts

ASSUME LimiterAssumption ==
    /\ IsFiniteSet(LoginHandlers) /\ LoginHandlers # {}
    /\ Processes # {} /\ Clients # {}
    /\ MaxAttempts \in Nat \ {0}

Buckets == Processes \X Clients

VARIABLES
    failures,        \* failures[k]: times inside the window in list k
    login            \* login[h]: the bucket of the login under way in h

limiterVars == <<failures, login>>

Free == [busy |-> FALSE, bucket |-> CHOOSE k \in Buckets : TRUE, attached |-> FALSE]

\* The logins that may still append to the list of k.
InFlight(k) == {h \in LoginHandlers : login[h].busy /\ login[h].bucket = k /\ login[h].attached}

LimiterInit ==
    /\ failures = [k \in Buckets |-> 0]
    /\ login = [h \in LoginHandlers |-> Free]

-----------------------------------------------------------------------------
\* Mutant: one login too many is let through.
AllowedOffByOne(k) == failures[k] <= MaxAttempts

Allowed(k) == failures[k] < MaxAttempts

\* setdefault, prune and check are one step: there is no await between them.
Admit(h, k) ==
    /\ ~login[h].busy /\ Allowed(k)
    /\ login' = [login EXCEPT ![h] = [busy |-> TRUE, bucket |-> k, attached |-> TRUE]]
    /\ UNCHANGED failures

\* Mutant: a login that is turned away counts as a failure.
CountRejected(n) == IF n < MaxAttempts + 2 THEN n + 1 ELSE n

\* A login that is turned away (429) is not appended.
AfterRejection(n) == n

Reject(h, k) ==
    /\ ~login[h].busy /\ ~Allowed(k)
    /\ failures' = [failures EXCEPT ![k] = AfterRejection(@)]
    /\ UNCHANGED login

\* No such user, or a wrong password.
LoginFails(h) ==
    /\ login[h].busy
    /\ failures' = [failures EXCEPT ![login[h].bucket] = IF login[h].attached THEN @ + 1 ELSE @]
    /\ login' = [login EXCEPT ![h] = Free]

\* The list of the address is popped, whichever list the handler holds.
LoginSucceeds(h) ==
    LET k == login[h].bucket
    IN  /\ login[h].busy
        /\ failures' = [failures EXCEPT ![k] = 0]
        /\ login' = [g \in LoginHandlers |->
                        IF g = h THEN Free
                        ELSE [login[g] EXCEPT !.attached = @ /\ login[g].bucket # k]]

\* The lookup or the INSERT of the session raises: nothing is counted.
LoginRaises(h) ==
    /\ login[h].busy
    /\ login' = [login EXCEPT ![h] = Free]
    /\ UNCHANGED failures

\* The oldest time leaves the window.
LeaveWindow(k) ==
    /\ failures[k] > 0
    /\ failures' = [failures EXCEPT ![k] = @ - 1]
    /\ UNCHANGED login

\* The process ends, and the lists and logins it holds with it.
LimiterRestart(p) ==
    /\ failures' = [k \in Buckets |-> IF k[1] = p THEN 0 ELSE failures[k]]
    /\ login' = [h \in LoginHandlers |-> IF login[h].bucket[1] = p THEN Free ELSE login[h]]

LimiterNext ==
    \/ \E h \in LoginHandlers, k \in Buckets : Admit(h, k) \/ Reject(h, k)
    \/ \E h \in LoginHandlers : LoginFails(h) \/ LoginSucceeds(h) \/ LoginRaises(h)
    \/ \E k \in Buckets : LeaveWindow(k)
    \/ \E p \in Processes : LimiterRestart(p)

\* Time passes.
LimiterFairness == \A k \in Buckets : WF_limiterVars(LeaveWindow(k))

LimiterSpec == LimiterInit /\ [][LimiterNext]_limiterVars /\ LimiterFairness

-----------------------------------------------------------------------------
LimiterTypeOK ==
    /\ failures \in [Buckets -> Nat]
    /\ login \in [LoginHandlers -> [busy : BOOLEAN, bucket : Buckets, attached : BOOLEAN]]

\* The check of login is not atomic with the append: logins that are under way
\* together all pass it.  What a client gains by that is bounded by the number
\* of logins under way, whatever lists are popped, pruned or lost in between.
LimiterOvershoot ==
    \A k \in Buckets :
        failures[k] + Cardinality(InFlight(k)) < MaxAttempts + Cardinality(LoginHandlers)

\* A client that is shut out gets in again although it keeps trying.
LimiterReopens ==
    \A k \in Buckets : failures[k] >= MaxAttempts ~> failures[k] < MaxAttempts
=============================================================================
