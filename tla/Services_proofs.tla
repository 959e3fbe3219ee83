--------------------------- MODULE Services_proofs ---------------------------
(***************************************************************************)
(* Proofs about the services around the core, for every value of their     *)
(* constants: the login limiter, the log queue, chaos scenarios and the    *)
(* order generators.                                                       *)
(***************************************************************************)
EXTENDS LoginLimiter, LogDispatch, ChaosState, Generators,
        FiniteSetTheorems, TLAPS

-----------------------------------------------------------------------------
(* The login limiter, for any number of logins under way, replicas, client *)
(* addresses and allowed attempts.                                         *)

LoginStates == [busy : BOOLEAN, bucket : Buckets, attached : BOOLEAN]

LEMMA FreeType == Free \in LoginStates
  <1>0. PICK p \in Processes, c \in Clients : TRUE
    BY LimiterAssumption
  <1>1. <<p, c>> \in Buckets
    BY <1>0 DEF Buckets
  <1>2. (CHOOSE k \in Buckets : TRUE) \in Buckets
    BY <1>1
  <1> QED BY <1>2 DEF Free, LoginStates

\* Fewer holders are not more holders, and there are no more than handlers.
LEMMA HoldingBounds ==
  ASSUME NEW S, NEW T, S \subseteq T, T \subseteq LoginHandlers
  PROVE  /\ IsFiniteSet(S) /\ IsFiniteSet(T)
         /\ Cardinality(S) \in Nat /\ Cardinality(T) \in Nat
         /\ Cardinality(S) <= Cardinality(T)
         /\ Cardinality(T) <= Cardinality(LoginHandlers)
         /\ Cardinality(LoginHandlers) \in Nat
  <1>1. IsFiniteSet(LoginHandlers)
    BY LimiterAssumption
  <1>2. IsFiniteSet(T) /\ Cardinality(T) <= Cardinality(LoginHandlers)
    BY <1>1, FS_Subset
  <1>3. IsFiniteSet(S) /\ Cardinality(S) <= Cardinality(T)
    BY <1>2, FS_Subset
  <1> QED BY <1>1, <1>2, <1>3, FS_CardinalityType

LEMMA HandlersExist == Cardinality(LoginHandlers) \in Nat /\ Cardinality(LoginHandlers) >= 1
  <1>1. IsFiniteSet(LoginHandlers) /\ LoginHandlers # {}
    BY LimiterAssumption
  <1>2. Cardinality(LoginHandlers) \in Nat /\ Cardinality(LoginHandlers) # 0
    BY <1>1, FS_CardinalityType, FS_EmptySet
  <1> QED BY <1>2

LimiterInv == LimiterTypeOK /\ LimiterOvershoot

LEMMA LimiterInitially == LimiterInit => LimiterInv
  <1> SUFFICES ASSUME LimiterInit PROVE LimiterInv
    OBVIOUS
  <1>1. LimiterTypeOK
    BY FreeType DEF LimiterInit, LimiterTypeOK, LoginStates
  <1>2. ASSUME NEW k \in Buckets
        PROVE  failures[k] + Cardinality(InFlight(k)) < MaxAttempts + Cardinality(LoginHandlers)
    <2>1. InFlight(k) = {}
      BY DEF InFlight, LimiterInit, Free
    <2>2. Cardinality(InFlight(k)) = 0
      BY <2>1, FS_EmptySet
    <2> QED BY <2>2, HandlersExist, LimiterAssumption DEF LimiterInit
  <1> QED BY <1>1, <1>2 DEF LimiterInv, LimiterOvershoot

\* Each list keeps its type.
LEMMA LimiterTypeStep == LimiterTypeOK /\ [LimiterNext]_limiterVars => LimiterTypeOK'
  <1> SUFFICES ASSUME LimiterTypeOK, [LimiterNext]_limiterVars PROVE LimiterTypeOK'
    OBVIOUS
  <1> USE DEF LimiterTypeOK, LoginStates
  <1>1. ASSUME NEW h \in LoginHandlers, NEW k \in Buckets, Admit(h, k) PROVE LimiterTypeOK'
    BY <1>1 DEF Admit
  <1>2. ASSUME NEW h \in LoginHandlers, NEW k \in Buckets, Reject(h, k) PROVE LimiterTypeOK'
    BY <1>2 DEF Reject, AfterRejection
  <1>3. ASSUME NEW h \in LoginHandlers, LoginFails(h) PROVE LimiterTypeOK'
    BY <1>3, FreeType DEF LoginFails
  <1>4. ASSUME NEW h \in LoginHandlers, LoginSucceeds(h) PROVE LimiterTypeOK'
    BY <1>4, FreeType DEF LoginSucceeds
  <1>5. ASSUME NEW h \in LoginHandlers, LoginRaises(h) PROVE LimiterTypeOK'
    BY <1>5, FreeType DEF LoginRaises
  <1>6. ASSUME NEW k \in Buckets, LeaveWindow(k) PROVE LimiterTypeOK'
    BY <1>6 DEF LeaveWindow
  <1>7. ASSUME NEW p \in Processes, LimiterRestart(p) PROVE LimiterTypeOK'
    BY <1>7, FreeType DEF LimiterRestart
  <1>8. CASE UNCHANGED limiterVars
    BY <1>8 DEF limiterVars
  <1> QED BY <1>1, <1>2, <1>3, <1>4, <1>5, <1>6, <1>7, <1>8 DEF LimiterNext

\* A list that does not grow, held by no more logins, keeps its bound.
LEMMA BoundKept ==
  ASSUME NEW k \in Buckets, LimiterTypeOK, LimiterTypeOK', LimiterOvershoot,
         failures'[k] <= failures[k], InFlight(k)' \subseteq InFlight(k)
  PROVE  (failures[k] + Cardinality(InFlight(k)) < MaxAttempts + Cardinality(LoginHandlers))'
  <1>1. InFlight(k) \subseteq LoginHandlers
    BY DEF InFlight
  <1>2. /\ Cardinality(InFlight(k)') <= Cardinality(InFlight(k))
        /\ Cardinality(InFlight(k)') \in Nat /\ Cardinality(InFlight(k)) \in Nat
    BY <1>1, HoldingBounds
  <1>3. failures[k] \in Nat /\ failures'[k] \in Nat
    BY DEF LimiterTypeOK
  <1>4. failures[k] + Cardinality(InFlight(k)) < MaxAttempts + Cardinality(LoginHandlers)
    BY DEF LimiterOvershoot
  <1> QED BY <1>2, <1>3, <1>4, HandlersExist, LimiterAssumption

\* The inductive step of the bound, action by action, for the list of k.
LEMMA LimiterStep == LimiterInv /\ [LimiterNext]_limiterVars => LimiterInv'
  <1> SUFFICES ASSUME LimiterInv, [LimiterNext]_limiterVars PROVE LimiterInv'
    OBVIOUS
  <1>0. LimiterTypeOK /\ LimiterTypeOK' /\ LimiterOvershoot
    BY LimiterTypeStep DEF LimiterInv
  <1> SUFFICES ASSUME NEW k \in Buckets
               PROVE  (failures[k] + Cardinality(InFlight(k)) < MaxAttempts + Cardinality(LoginHandlers))'
    BY <1>0 DEF LimiterInv, LimiterOvershoot
  <1> DEFINE Bound == failures[k] + Cardinality(InFlight(k)) < MaxAttempts + Cardinality(LoginHandlers)
  <1>a. failures[k] \in Nat /\ failures'[k] \in Nat
    BY <1>0 DEF LimiterTypeOK
  <1>b. /\ InFlight(k) \subseteq LoginHandlers /\ InFlight(k)' \subseteq LoginHandlers
        /\ Bound /\ MaxAttempts \in Nat \ {0}
    BY <1>0, LimiterAssumption DEF InFlight, LimiterOvershoot
  <1>1. ASSUME NEW h \in LoginHandlers, NEW j \in Buckets, Admit(h, j) PROVE Bound'
    <2>1. CASE j = k
      <3>1. failures'[k] < MaxAttempts
        BY <1>1, <2>1 DEF Admit, Allowed
      <3>2. Cardinality(InFlight(k)') <= Cardinality(LoginHandlers) /\ Cardinality(InFlight(k)') \in Nat
        BY <1>b, HoldingBounds
      <3> QED BY <1>a, <1>b, <3>1, <3>2, HandlersExist
    <2>2. CASE j # k
      <3>1. InFlight(k)' \subseteq InFlight(k)
        BY <1>0, <1>1, <2>2 DEF Admit, InFlight, LimiterTypeOK
      <3>2. failures'[k] <= failures[k]
        BY <1>1, <1>a DEF Admit
      <3> QED BY <1>0, <3>1, <3>2, BoundKept
    <2> QED BY <2>1, <2>2
  <1>2. ASSUME NEW h \in LoginHandlers, NEW j \in Buckets, Reject(h, j) PROVE Bound'
    <2>1. failures'[k] <= failures[k] /\ InFlight(k)' \subseteq InFlight(k)
      BY <1>0, <1>2 DEF Reject, AfterRejection, InFlight, LimiterTypeOK
    <2> QED BY <1>0, <2>1, BoundKept
  <1>3. ASSUME NEW h \in LoginHandlers, LoginFails(h) PROVE Bound'
    <2>1. InFlight(k)' = InFlight(k) \ {h}
      BY <1>0, <1>3 DEF LoginFails, InFlight, LimiterTypeOK, Free
    <2>2. CASE h \in InFlight(k)
      <3>1. failures'[k] = failures[k] + 1
        BY <1>0, <1>3, <2>2 DEF LoginFails, InFlight, LimiterTypeOK
      <3>2. IsFiniteSet(InFlight(k)) /\ Cardinality(InFlight(k)) \in Nat
        BY <1>b, HoldingBounds
      <3>3. Cardinality(InFlight(k)') = Cardinality(InFlight(k)) - 1
        BY <2>1, <2>2, <3>2, FS_RemoveElement
      <3> QED BY <1>a, <1>b, <3>1, <3>2, <3>3, HandlersExist
    <2>3. CASE h \notin InFlight(k)
      <3>1. failures'[k] = failures[k]
        BY <1>0, <1>3, <2>3 DEF LoginFails, InFlight, LimiterTypeOK
      <3>2. failures'[k] <= failures[k] /\ InFlight(k)' \subseteq InFlight(k)
        BY <1>a, <2>1, <3>1
      <3> QED BY <1>0, <3>2, BoundKept
    <2> QED BY <2>2, <2>3
  <1>4. ASSUME NEW h \in LoginHandlers, LoginSucceeds(h) PROVE Bound'
    <2>1. InFlight(k)' \subseteq InFlight(k)
      BY <1>0, <1>4 DEF LoginSucceeds, InFlight, LimiterTypeOK, Free
    <2>2. failures'[k] <= failures[k]
      BY <1>0, <1>4 DEF LoginSucceeds, LimiterTypeOK
    <2> QED BY <1>0, <2>1, <2>2, BoundKept
  <1>5. ASSUME NEW h \in LoginHandlers, LoginRaises(h) PROVE Bound'
    <2>1. InFlight(k)' \subseteq InFlight(k)
      BY <1>0, <1>5 DEF LoginRaises, InFlight, LimiterTypeOK, Free
    <2>2. failures'[k] <= failures[k]
      BY <1>a, <1>5 DEF LoginRaises
    <2> QED BY <1>0, <2>1, <2>2, BoundKept
  <1>6. ASSUME NEW j \in Buckets, LeaveWindow(j) PROVE Bound'
    <2>1. InFlight(k)' \subseteq InFlight(k)
      BY <1>6 DEF LeaveWindow, InFlight
    <2>2. failures'[k] <= failures[k]
      BY <1>0, <1>6 DEF LeaveWindow, LimiterTypeOK
    <2> QED BY <1>0, <2>1, <2>2, BoundKept
  <1>7. ASSUME NEW p \in Processes, LimiterRestart(p) PROVE Bound'
    <2>1. InFlight(k)' \subseteq InFlight(k)
      BY <1>0, <1>7 DEF LimiterRestart, InFlight, LimiterTypeOK, Free
    <2>2. failures'[k] <= failures[k]
      BY <1>0, <1>7 DEF LimiterRestart, LimiterTypeOK
    <2> QED BY <1>0, <2>1, <2>2, BoundKept
  <1>8. CASE UNCHANGED limiterVars
    <2>1. failures'[k] <= failures[k] /\ InFlight(k)' \subseteq InFlight(k)
      BY <1>8, <1>a DEF limiterVars, InFlight
    <2> QED BY <1>0, <2>1, BoundKept
  <1> QED BY <1>1, <1>2, <1>3, <1>4, <1>5, <1>6, <1>7, <1>8 DEF LimiterNext

\* However many logins of a client overlap in login, and whatever lists are
\* popped, pruned or lost, its failures exceed the limit by fewer than the
\* logins that can be under way at once.
THEOREM OvershootBounded == LimiterSpec => []LimiterOvershoot
  <1>1. LimiterInv => LimiterOvershoot
    BY DEF LimiterInv
  <1> QED BY <1>1, LimiterInitially, LimiterStep, PTL DEF LimiterSpec

-----------------------------------------------------------------------------
(* The log queue, for any number of records and restarts.                  *)

LogInv == LogTypeOK /\ LogInOrder

LEMMA EmptyQueue == <<>> \in Seq(Nat) /\ Len(<<>>) = 0
  OBVIOUS

LEMMA LogInitially == LogInit => LogInv
  <1> SUFFICES ASSUME LogInit PROVE LogInv
    OBVIOUS
  <1>1. LogTypeOK
    BY EmptyQueue DEF LogInit, LogTypeOK
  <1>2. LogInOrder
    BY EmptyQueue DEF LogInit, LogInOrder
  <1> QED BY <1>1, <1>2 DEF LogInv

\* The record taken out is the one after those done with; the rest moves up.
LEMMA GetStep == LogInv /\ Get => LogInv'
  <1> SUFFICES ASSUME LogInv, Get PROVE LogInv'
    OBVIOUS
  <1> USE DEF LogInv, LogTypeOK, LogInOrder, Get
  <1>1. /\ queue \in Seq(Nat) /\ queue # <<>> /\ Len(queue) \in Nat /\ Len(queue) >= 1
        /\ queue' = Tail(queue)
    OBVIOUS
  <1>2. /\ queue' \in Seq(Nat) /\ Len(queue') = Len(queue) - 1
        /\ \A i \in 1..Len(queue') : queue'[i] = queue[i + 1]
    BY <1>1
  <1>3. hand' = queue[1] /\ queue[1] = handled + 1
    BY <1>1
  <1>4. \A i \in 1..Len(queue') : queue'[i] = pushed' - Len(queue') + i
    <2> SUFFICES ASSUME NEW i \in 1..Len(queue') PROVE queue'[i] = pushed' - Len(queue') + i
      OBVIOUS
    <2>1. i + 1 \in 1..Len(queue) /\ queue'[i] = queue[i + 1]
      BY <1>1, <1>2
    <2>2. queue[i + 1] = pushed - Len(queue) + (i + 1)
      BY <2>1
    <2> QED BY <1>1, <1>2, <2>1, <2>2
  <1>5. /\ worker' = "oci" /\ handled' = handled /\ pushed' = pushed
        /\ Len(queue') + handled' + 1 = pushed'
    BY <1>1, <1>2
  <1> QED BY <1>2, <1>3, <1>4, <1>5

\* A record pushed goes behind the others.
LEMMA PushStep == LogInv /\ PushLog => LogInv'
  <1> SUFFICES ASSUME LogInv, PushLog PROVE LogInv'
    OBVIOUS
  <1> USE DEF LogInv, LogTypeOK, LogInOrder, PushLog
  <1>1. queue \in Seq(Nat) /\ Len(queue) \in Nat /\ pushed \in Nat /\ pushed' = pushed + 1
    OBVIOUS
  <1>2. /\ queue' \in Seq(Nat) /\ Len(queue') = Len(queue) + 1
        /\ \A i \in 1..Len(queue) : queue'[i] = queue[i]
        /\ queue'[Len(queue) + 1] = pushed + 1
    BY <1>1
  <1>3. \A i \in 1..Len(queue') : queue'[i] = pushed' - Len(queue') + i
    <2> SUFFICES ASSUME NEW i \in 1..Len(queue') PROVE queue'[i] = pushed' - Len(queue') + i
      OBVIOUS
    <2>1. CASE i \in 1..Len(queue)
      BY <1>1, <1>2, <2>1
    <2>2. CASE i = Len(queue) + 1
      BY <1>1, <1>2, <2>2
    <2> QED BY <1>1, <1>2, <2>1, <2>2
  <1>4. /\ hand' = hand /\ worker' = worker /\ handled' = handled
        /\ client' = client /\ logRestarts' = logRestarts
    OBVIOUS
  <1>5. Len(queue') + handled' + (IF worker' = "waiting" THEN 0 ELSE 1) = pushed'
    BY <1>1, <1>2, <1>4
  <1>6. LogTypeOK'
    BY <1>1, <1>2, <1>4
  <1>7. hand' = IF worker' = "waiting" THEN 0 ELSE handled' + 1
    BY <1>4
  <1> QED BY <1>3, <1>5, <1>6, <1>7

LEMMA LogStep == LogInv /\ [LogNext]_logVars => LogInv'
  <1> SUFFICES ASSUME LogInv, [LogNext]_logVars PROVE LogInv'
    OBVIOUS
  <1> USE DEF LogInv, LogTypeOK, LogInOrder
  <1>1. CASE PushLog
    BY <1>1, PushStep
  <1>2. CASE Get
    BY <1>2, GetStep
  <1>3. CASE OciSkipped
    BY <1>3 DEF OciSkipped
  <1>4. CASE OciPut
    BY <1>4 DEF OciPut
  <1>5. CASE OciFails
    BY <1>5 DEF OciFails
  <1>6. CASE PushToSplunk
    BY <1>6 DEF PushToSplunk
  <1>7. CASE LogRestart
    <2>0. queue' \in Seq(Nat)
      BY <1>7, EmptyQueue DEF LogRestart
    <2>a. client' \in BOOLEAN
      BY <1>7 DEF LogRestart
    <2>b. worker' = "waiting" /\ hand' = 0 /\ pushed' = 0 /\ handled' = 0 /\ logRestarts' = logRestarts + 1
      BY <1>7 DEF LogRestart
    <2>1. LogTypeOK'
      BY <2>0, <2>a, <2>b
    <2>2. /\ queue' = <<>> /\ Len(queue') = 0 /\ worker' = "waiting"
          /\ hand' = 0 /\ pushed' = 0 /\ handled' = 0
      BY <1>7, EmptyQueue DEF LogRestart
    <2>3. LogInOrder'
      BY <2>2
    <2> QED BY <2>1, <2>3
  <1>8. CASE UNCHANGED logVars
    BY <1>8 DEF logVars
  <1> QED BY <1>1, <1>2, <1>3, <1>4, <1>5, <1>6, <1>7, <1>8 DEF LogNext, LogWorker

\* No record of push_log is lost, doubled or overtaken between the queue and the
\* worker thread, whatever calls fail and however often the process restarts.
THEOREM RecordsInOrder == LogSpec => []LogInOrder
  <1>1. LogInv => LogInOrder
    BY DEF LogInv
  <1> QED BY <1>1, LogInitially, LogStep, PTL DEF LogSpec

-----------------------------------------------------------------------------
(* Chaos scenarios, for any number of operators, scenarios and times to live.*)

Requests == [at : {"idle", "apply", "clear", "insert", "commit"}, id : Nat,
             applied : Nat, expires : Nat, began : Nat, doomed : SUBSET Row]

\* A row was committed after its DELETE, and before now.
RowsOrdered == \A r \in rows : r.began < r.ended /\ r.ended <= turn

\* Every row that was there when a request deleted is one that it will remove:
\* what else there is was committed since.
DoomedIsAll ==
    \A o \in Operators : chaosReq[o].at = "insert" =>
        /\ chaosReq[o].began <= turn
        /\ \A r \in rows : r.ended <= chaosReq[o].began => r \in chaosReq[o].doomed

ChaosInv == ChaosTypeOK /\ RowsOrdered /\ DoomedIsAll /\ OneScenarioUnlessRaced

LEMMA NoRequestType == NoRequest \in Requests /\ NoRequest.at = "idle"
  BY DEF NoRequest, Requests

LEMMA ChaosInitially == ChaosInit => ChaosInv
  <1> SUFFICES ASSUME ChaosInit PROVE ChaosInv
    OBVIOUS
  <1>1. ChaosTypeOK
    BY NoRequestType DEF ChaosInit, ChaosTypeOK, Requests
  <1>2. RowsOrdered /\ OneScenarioUnlessRaced
    BY DEF ChaosInit, RowsOrdered, OneScenarioUnlessRaced
  <1>3. DoomedIsAll
    BY NoRequestType DEF ChaosInit, DoomedIsAll
  <1> QED BY <1>1, <1>2, <1>3 DEF ChaosInv

\* A request that leaves the rows alone and is not about to insert.
LEMMA RequestStep ==
  ASSUME ChaosInv, NEW o \in Operators, NEW q \in Requests, q.at # "insert",
         chaosReq' = [chaosReq EXCEPT ![o] = q],
         requests' \in Nat, UNCHANGED <<rows, clock, turn>>
  PROVE  ChaosInv'
  <1>1. ChaosTypeOK'
    BY DEF ChaosInv, ChaosTypeOK, Requests
  <1>2. RowsOrdered' /\ OneScenarioUnlessRaced'
    BY DEF ChaosInv, RowsOrdered, OneScenarioUnlessRaced
  <1>3. DoomedIsAll'
    BY DEF ChaosInv, ChaosTypeOK, DoomedIsAll
  <1> QED BY <1>1, <1>2, <1>3 DEF ChaosInv

\* DELETE: all rows there are become doomed.
LEMMA DeleteStep ==
  ASSUME ChaosInv, NEW o \in Operators, DeleteRows(o)
  PROVE  ChaosInv'
  <1> DEFINE to == IF chaosReq[o].at = "apply" THEN "insert" ELSE "commit"
             q == [at |-> to, id |-> chaosReq[o].id, applied |-> chaosReq[o].applied,
                   expires |-> chaosReq[o].expires, began |-> turn + 1, doomed |-> rows]
  <1>0. to \in {"insert", "commit"}
    OBVIOUS
  <1>1. /\ turn \in Nat /\ turn' = turn + 1 /\ rows' = rows /\ rows \subseteq Row
        /\ chaosReq[o] \in Requests /\ chaosReq \in [Operators -> Requests]
    BY DEF DeleteRows, ChaosInv, ChaosTypeOK, Requests
  <1>e. chaosReq' = [chaosReq EXCEPT ![o] = q]
    BY DEF DeleteRows, Visible
  <1> HIDE DEF to
  <1>2. q \in Requests /\ q.began = turn + 1 /\ q.doomed = rows
    BY <1>0, <1>1 DEF Requests
  <1> HIDE DEF q
  <1>3. ChaosTypeOK'
    BY <1>1, <1>2, <1>e DEF DeleteRows, ChaosInv, ChaosTypeOK, Requests
  <1>4. RowsOrdered'
    <2> SUFFICES ASSUME NEW r \in rows PROVE r.began < r.ended /\ r.ended <= turn'
      BY <1>1 DEF RowsOrdered
    <2>1. r.ended \in Nat /\ r.began < r.ended /\ r.ended <= turn
      BY <1>1 DEF ChaosInv, RowsOrdered, Row
    <2> QED BY <1>1, <2>1
  <1>5. OneScenarioUnlessRaced'
    BY <1>1 DEF ChaosInv, OneScenarioUnlessRaced
  <1>6. DoomedIsAll'
    <2> SUFFICES ASSUME NEW p \in Operators, chaosReq'[p].at = "insert"
                 PROVE  /\ chaosReq'[p].began <= turn'
                        /\ \A r \in rows : r.ended <= chaosReq'[p].began => r \in chaosReq'[p].doomed
      BY <1>1 DEF DoomedIsAll
    <2>1. CASE p = o
      <3>1. chaosReq'[p] = q
        BY <1>1, <1>e, <2>1
      <3> QED BY <1>1, <1>2, <3>1
    <2>2. CASE p # o
      <3>1. chaosReq'[p] = chaosReq[p] /\ chaosReq[p].began \in Nat
        BY <1>1, <1>e, <2>2 DEF Requests
      <3>2. /\ chaosReq[p].began <= turn
            /\ \A r \in rows : r.ended <= chaosReq[p].began => r \in chaosReq[p].doomed
        BY <3>1 DEF ChaosInv, DoomedIsAll
      <3> QED BY <1>1, <3>1, <3>2
    <2> QED BY <2>1, <2>2
  <1> QED BY <1>3, <1>4, <1>5, <1>6 DEF ChaosInv

\* A commit removes the doomed rows and adds at most one, which comes last.
LEMMA CommitStep ==
  ASSUME ChaosInv, NEW o \in Operators, NEW new \in SUBSET Row, ChaosCommit(o, new),
         \A n \in new : /\ n.ended = turn + 1 /\ n.began <= turn
                        /\ \A r \in rows \ chaosReq[o].doomed : n.began < r.ended,
         \A m, n \in new : m = n
  PROVE  ChaosInv'
  <1>1. /\ turn \in Nat /\ turn' = turn + 1 /\ rows \subseteq Row
        /\ rows' = (rows \ chaosReq[o].doomed) \cup new
        /\ chaosReq \in [Operators -> Requests]
        /\ chaosReq' = [chaosReq EXCEPT ![o] = NoRequest]
    BY DEF ChaosCommit, ChaosInv, ChaosTypeOK, Requests
  <1>2. ChaosTypeOK'
    BY <1>1, NoRequestType DEF ChaosCommit, ChaosInv, ChaosTypeOK, Requests
  <1>3. ASSUME NEW r \in rows
        PROVE  r.ended \in Nat /\ r.began \in Nat /\ r.began < r.ended /\ r.ended <= turn
    BY <1>1 DEF ChaosInv, RowsOrdered, Row
  <1>4. ASSUME NEW n \in new PROVE n.began \in Nat /\ n.ended = turn + 1 /\ n.began <= turn
    BY <1>4 DEF Row
  <1>5. RowsOrdered'
    <2> SUFFICES ASSUME NEW r \in rows' PROVE r.began < r.ended /\ r.ended <= turn'
      BY DEF RowsOrdered
    <2>1. CASE r \in rows
      BY <1>1, <1>3, <2>1
    <2>2. CASE r \in new
      BY <1>1, <1>4, <2>2
    <2> QED BY <1>1, <2>1, <2>2
  <1>6. OneScenarioUnlessRaced'
    <2> SUFFICES ASSUME NEW r \in rows', NEW s \in rows', r # s
                 PROVE  r.began < s.ended /\ s.began < r.ended
      BY DEF OneScenarioUnlessRaced
    <2>1. ASSUME NEW n \in new, NEW x \in rows \ chaosReq[o].doomed
          PROVE  n.began < x.ended /\ x.began < n.ended
      BY <1>1, <1>3, <1>4
    <2>2. CASE r \in new /\ s \in new
      BY <2>2
    <2>3. CASE r \in new /\ s \in rows \ chaosReq[o].doomed
      BY <2>1, <2>3
    <2>4. CASE r \in rows \ chaosReq[o].doomed /\ s \in new
      BY <2>1, <2>4
    <2>5. CASE r \in rows /\ s \in rows
      BY <2>5 DEF ChaosInv, OneScenarioUnlessRaced
    <2> QED BY <1>1, <2>2, <2>3, <2>4, <2>5
  <1>7. DoomedIsAll'
    <2> SUFFICES ASSUME NEW p \in Operators, chaosReq'[p].at = "insert"
                 PROVE  /\ chaosReq'[p].began <= turn'
                        /\ \A r \in rows' : r.ended <= chaosReq'[p].began => r \in chaosReq'[p].doomed
      BY DEF DoomedIsAll
    <2>1. p # o /\ chaosReq'[p] = chaosReq[p] /\ chaosReq[p].began \in Nat
      BY <1>1, NoRequestType DEF Requests
    <2>2. /\ chaosReq[p].began <= turn
          /\ \A r \in rows : r.ended <= chaosReq[p].began => r \in chaosReq[p].doomed
      BY <2>1 DEF ChaosInv, DoomedIsAll
    <2>3. ASSUME NEW r \in rows', r.ended <= chaosReq[p].began PROVE r \in chaosReq[p].doomed
      <3>1. CASE r \in rows
        BY <2>2, <2>3, <3>1
      <3>2. CASE r \in new
        BY <1>1, <1>4, <2>1, <2>2, <2>3, <3>2
      <3> QED BY <1>1, <2>3, <3>1, <3>2
    <2> QED BY <1>1, <2>1, <2>2, <2>3
  <1> QED BY <1>2, <1>5, <1>6, <1>7 DEF ChaosInv

\* INSERT and commit of apply_scenario.
LEMMA InsertStep ==
  ASSUME ChaosInv, NEW o \in Operators, InsertRow(o)
  PROVE  ChaosInv'
  <1> DEFINE q == chaosReq[o]
             n == [id |-> q.id, applied |-> q.applied, expires |-> q.expires,
                   began |-> q.began, ended |-> turn + 1]
  <1>1. q \in Requests /\ turn \in Nat /\ q.at = "insert" /\ rows \subseteq Row
    BY DEF InsertRow, ChaosInv, ChaosTypeOK, Requests
  <1>2. n \in Row /\ n.ended = turn + 1 /\ n.began = q.began
    BY <1>1 DEF Requests, Row
  <1>3. /\ q.began <= turn
        /\ \A r \in rows : r.ended <= q.began => r \in q.doomed
    BY <1>1 DEF ChaosInv, DoomedIsAll
  <1>4. ASSUME NEW r \in rows \ q.doomed PROVE n.began < r.ended
    <2>1. r.ended \in Nat /\ q.began \in Nat
      BY <1>1 DEF Row, Requests
    <2> QED BY <1>2, <1>3, <2>1
  <1>5. ChaosCommit(o, {n})
    BY DEF InsertRow
  <1> HIDE DEF n
  <1> QED BY <1>2, <1>3, <1>4, <1>5, CommitStep

LEMMA ChaosStep == ChaosInv /\ [ChaosNext]_chaosVars => ChaosInv'
  <1> SUFFICES ASSUME ChaosInv, [ChaosNext]_chaosVars PROVE ChaosInv'
    OBVIOUS
  <1>0. /\ chaosReq \in [Operators -> Requests] /\ Ttls \subseteq Nat
        /\ clock \in Nat /\ requests \in Nat /\ turn \in Nat
    BY ChaosAssumption DEF ChaosInv, ChaosTypeOK, Requests
  <1>1. ASSUME NEW o \in Operators, NEW ttl \in Ttls, ApplyScenario(o, ttl) PROVE ChaosInv'
    <2> DEFINE q == [at |-> "apply", id |-> requests + 1, applied |-> clock,
                     expires |-> clock + ttl, began |-> 0, doomed |-> {}]
    <2>1. q \in Requests /\ q.at = "apply"
      BY <1>0 DEF Requests
    <2>2. /\ chaosReq' = [chaosReq EXCEPT ![o] = q] /\ requests' \in Nat
          /\ UNCHANGED <<rows, clock, turn>>
      BY <1>0, <1>1 DEF ApplyScenario
    <2> HIDE DEF q
    <2> QED BY <2>1, <2>2, RequestStep
  <1>2. ASSUME NEW o \in Operators, ClearScenario(o) PROVE ChaosInv'
    <2> DEFINE q == [chaosReq[o] EXCEPT !.at = "clear"]
    <2>1. q \in Requests /\ q.at = "clear"
      BY <1>0 DEF Requests
    <2>2. /\ chaosReq' = [chaosReq EXCEPT ![o] = q] /\ requests' \in Nat
          /\ UNCHANGED <<rows, clock, turn>>
      BY <1>0, <1>2 DEF ClearScenario
    <2> HIDE DEF q
    <2> QED BY <2>1, <2>2, RequestStep
  <1>3. ASSUME NEW o \in Operators, DeleteRows(o) PROVE ChaosInv'
    BY <1>3, DeleteStep
  <1>4. ASSUME NEW o \in Operators, InsertRow(o) PROVE ChaosInv'
    BY <1>4, InsertStep
  <1>5. ASSUME NEW o \in Operators, CommitClear(o) PROVE ChaosInv'
    <2>1. ChaosCommit(o, {})
      BY <1>5 DEF CommitClear
    <2> QED BY <2>1, CommitStep
  <1>6. ASSUME NEW o \in Operators, ChaosFails(o) PROVE ChaosInv'
    <2>1. /\ chaosReq' = [chaosReq EXCEPT ![o] = NoRequest] /\ requests' \in Nat
          /\ UNCHANGED <<rows, clock, turn>>
      BY <1>0, <1>6 DEF ChaosFails
    <2>2. NoRequest \in Requests /\ NoRequest.at # "insert"
      BY NoRequestType
    <2> QED BY <2>1, <2>2, RequestStep
  <1>7. CASE PassTime
    <2>1. /\ clock' \in Nat /\ UNCHANGED <<rows, chaosReq, requests, turn>>
      BY <1>0, <1>7 DEF PassTime
    <2> QED BY <2>1 DEF ChaosInv, ChaosTypeOK, RowsOrdered, DoomedIsAll, OneScenarioUnlessRaced
  <1>8. CASE UNCHANGED chaosVars
    BY <1>8 DEF chaosVars, ChaosInv, ChaosTypeOK, RowsOrdered, DoomedIsAll, OneScenarioUnlessRaced
  <1> QED BY <1>1, <1>2, <1>3, <1>4, <1>5, <1>6, <1>7, <1>8 DEF ChaosNext

\* Two scenarios are stored at once only if the transactions that applied them
\* overlapped, whatever requests failed or were cleared in between.
THEOREM ScenariosRaced == ChaosSpec => []OneScenarioUnlessRaced
  <1>1. ChaosInv => OneScenarioUnlessRaced
    BY DEF ChaosInv
  <1> QED BY <1>1, ChaosInitially, ChaosStep, PTL DEF ChaosSpec

-----------------------------------------------------------------------------
(* The order generators, for any number of requests, any batch and pool    *)
(* size, and any products and customers.                                   *)

GenKinds == {"orders", "backlog", "high_value"}
GenProducts == SimProducts \cup {CHOOSE p \in SimProducts : TRUE}
GenItems == [batch : Nat, kind : GenKinds, n : Nat, product : GenProducts]
GenStates == [at : {"idle", "customer", "product", "write", "commit"}, kind : GenKinds,
              batch : Nat, left : Nat, given : BOOLEAN, found : BOOLEAN,
              product : GenProducts, wrote : SUBSET GenItems]

GenType ==
    /\ catalog \subseteq SimProducts /\ generated \subseteq GenItems
    /\ gen \in [Gens -> GenStates] /\ batches \in Nat

\* A batch under way: it has written the orders it has counted down, all but a
\* backlog every one of them, and has found a customer for the next.
BatchSoFar(b) ==
    /\ \A o \in b.wrote : o.batch = b.batch /\ o.kind = b.kind
    /\ b.at = "idle" => b.wrote = {}
    /\ b.at \in {"customer", "product", "write"} => b.left \in 1..BatchSize
    /\ b.at = "commit" => b.left = 0
    /\ b.kind = "orders" /\ b.at # "idle" => {o.n : o \in b.wrote} = (b.left + 1)..BatchSize
    /\ b.kind = "orders" /\ b.at = "product" => b.found

\* Batches have numbers of their own.
BatchesApart ==
    /\ \A g \in Gens : gen[g].at # "idle" => gen[g].batch <= batches
    /\ \A g, h \in Gens :
          gen[g].at # "idle" /\ gen[h].at # "idle" /\ gen[g].batch = gen[h].batch => g = h
    /\ \A o \in generated :
          /\ o.batch <= batches
          /\ \A g \in Gens : gen[g].at # "idle" => gen[g].batch # o.batch

GenInv == GenType /\ BatchesApart /\ (\A g \in Gens : BatchSoFar(gen[g])) /\ BatchWhole

\* A request that is not under way.
LEMMA NoBatchFacts == NoBatch \in GenStates /\ NoBatch.at = "idle" /\ BatchSoFar(NoBatch)
  BY DEF NoBatch, GenStates, GenKinds, GenProducts, BatchSoFar

LEMMA GenInitially == GenInit => GenInv
  BY NoBatchFacts DEF GenInit, GenInv, GenType, BatchesApart, BatchWhole

\* A request that goes on with its batch, or ends, disturbs nothing else.
LEMMA GenMove ==
  ASSUME GenInv, NEW g \in Gens, NEW b \in GenStates, GenGoto(g, b), BatchSoFar(b),
         b.at = "idle" \/ (gen[g].at # "idle" /\ b.batch = gen[g].batch),
         generated' = generated, batches' = batches, catalog' = catalog
  PROVE  GenInv'
  <1>1. gen' \in [Gens -> GenStates] /\ gen'[g] = b /\ \A h \in Gens \ {g} : gen'[h] = gen[h]
    BY DEF GenInv, GenType, GenGoto
  <1>2. GenType' /\ \A h \in Gens : BatchSoFar(gen'[h])
    BY <1>1 DEF GenInv, GenType
  <1>3. BatchesApart'
    BY <1>1 DEF GenInv, BatchesApart
  <1>4. BatchWhole'
    BY DEF GenInv, BatchWhole
  <1> QED BY <1>2, <1>3, <1>4 DEF GenInv

LEMMA GenEnds ==
  ASSUME GenInv, NEW g \in Gens, GiveUp(g),
         generated' = generated, batches' = batches, catalog' = catalog
  PROVE  GenInv'
  BY NoBatchFacts, GenMove DEF GiveUp

\* A batch begins with a number of its own.
LEMMA GenBegins ==
  ASSUME GenInv, NEW g \in Gens, NEW kind \in GenKinds, NEW given \in BOOLEAN,
         NEW count \in 1..BatchSize, kind = "orders" => count = BatchSize,
         Generate(g, kind, given, count)
  PROVE  GenInv'
  <1> DEFINE b == [NoBatch EXCEPT !.at = "customer", !.kind = kind, !.batch = batches + 1,
                                  !.given = given, !.left = count]
  <1>0. BatchSize \in Nat
    BY GenAssumption
  <1>1. gen' = [gen EXCEPT ![g] = b] /\ batches' = batches + 1 /\ batches \in Nat
        /\ generated' = generated /\ catalog' = catalog
    BY DEF Generate, GenGoto, GenInv, GenType
  <1>2. b \in GenStates /\ b.at = "customer" /\ b.batch = batches + 1 /\ b.wrote = {}
        /\ b.left = count /\ b.kind = kind
    <2>1. NoBatch \in GenStates /\ NoBatch.wrote = {}
      BY NoBatchFacts DEF NoBatch
    <2>2. batches + 1 \in Nat /\ count \in Nat
      BY <1>0, <1>1
    <2> HIDE DEF b
    <2> QED BY <2>1, <2>2 DEF GenStates, b
  <1> HIDE DEF b
  <1>3. BatchSoFar(b)
    BY <1>0, <1>2 DEF BatchSoFar
  <1>4. gen' \in [Gens -> GenStates] /\ gen'[g] = b /\ \A h \in Gens \ {g} : gen'[h] = gen[h]
    BY <1>1, <1>2 DEF GenInv, GenType
  <1>5. GenType'
    BY <1>1, <1>4 DEF GenInv, GenType
  <1>6. \A h \in Gens : gen[h].batch \in Nat
    BY DEF GenInv, GenType, GenStates
  <1>7. \A o \in generated : o.batch \in Nat
    BY DEF GenInv, GenType, GenItems
  <1>8. BatchesApart'
    <2>1. \A h \in Gens : gen'[h].at # "idle" => gen'[h].batch <= batches'
      BY <1>1, <1>2, <1>4, <1>6 DEF GenInv, BatchesApart
    <2>2. \A h \in Gens \ {g} : gen'[h].at # "idle" => gen'[h].batch # b.batch
      BY <1>1, <1>2, <1>4, <1>6 DEF GenInv, BatchesApart
    <2>3. \A o \in generated : o.batch <= batches' /\ o.batch # b.batch
      BY <1>1, <1>2, <1>7 DEF GenInv, BatchesApart
    <2> QED BY <1>1, <1>4, <2>1, <2>2, <2>3 DEF GenInv, BatchesApart
  <1>9. BatchWhole'
    BY <1>1 DEF GenInv, BatchWhole
  <1> QED BY <1>3, <1>4, <1>5, <1>8, <1>9 DEF GenInv

\* The order after this one, when this one is written or may be left out.
LEMMA NextOrderFacts ==
  ASSUME NEW b \in GenStates, BatchSoFar(b), b.at \in {"product", "write"},
         NEW w \in SUBSET GenItems, \A o \in w : o.batch = b.batch /\ o.kind = b.kind,
         b.kind = "orders" => {o.n : o \in w} = {o.n : o \in b.wrote} \cup {b.left}
  PROVE  LET c == [NextOrder(b) EXCEPT !.wrote = w]
         IN  c \in GenStates /\ BatchSoFar(c) /\ c.batch = b.batch
  <1> DEFINE c == [NextOrder(b) EXCEPT !.wrote = w]
  <1>0. BatchSize \in Nat /\ b.left \in Nat /\ b.left \in 1..BatchSize
    BY GenAssumption DEF GenStates, BatchSoFar
  <1>1. c \in GenStates /\ c.batch = b.batch /\ c.wrote = w /\ c.left = b.left - 1
        /\ c.kind = b.kind /\ c.at = (IF b.left = 1 THEN "commit" ELSE "customer")
    <2> DEFINE at == IF b.left = 1 THEN "commit" ELSE "customer"
    <2>1. b.left - 1 \in Nat /\ at \in {"customer", "commit"}
      BY <1>0
    <2>2. c = [b EXCEPT !.left = b.left - 1, !.at = at, !.wrote = w]
      BY DEF NextOrder, GenStates
    <2> HIDE DEF at, c
    <2>3. c \in GenStates /\ c.batch = b.batch /\ c.wrote = w /\ c.left = b.left - 1
          /\ c.kind = b.kind /\ c.at = at
      BY <2>1, <2>2 DEF GenStates
    <2> QED BY <2>3 DEF at
  <1> HIDE DEF c
  <1>2. b.kind = "orders" => {o.n : o \in w} = ((b.left - 1) + 1)..BatchSize
    <2>1. (b.left + 1)..BatchSize \cup {b.left} = ((b.left - 1) + 1)..BatchSize
      BY <1>0
    <2>2. b.kind = "orders" => {o.n : o \in b.wrote} = (b.left + 1)..BatchSize
      BY DEF BatchSoFar
    <2> QED BY <2>1, <2>2
  <1>3. BatchSoFar(c)
    BY <1>0, <1>1, <1>2 DEF BatchSoFar
  <1> QED BY <1>1, <1>3 DEF c

\* A backlog order without customer or product is left out.
LEMMA GenSkips ==
  ASSUME GenInv, NEW g \in Gens, gen[g].at = "product", gen[g].kind # "orders",
         GenGoto(g, NextOrder(gen[g])),
         generated' = generated, batches' = batches, catalog' = catalog
  PROVE  GenInv'
  <1> DEFINE b == gen[g]
             c == [NextOrder(b) EXCEPT !.wrote = b.wrote]
  <1>1. b \in GenStates /\ BatchSoFar(b)
    BY DEF GenInv, GenType
  <1>2. b.wrote \in SUBSET GenItems
    BY <1>1 DEF GenStates
  <1>3. \A o \in b.wrote : o.batch = b.batch /\ o.kind = b.kind
    BY <1>1 DEF BatchSoFar
  <1>4. c \in GenStates /\ BatchSoFar(c) /\ c.batch = b.batch
    BY <1>1, <1>2, <1>3, NextOrderFacts
  <1>5. c = NextOrder(b)
    BY <1>1 DEF NextOrder, GenStates
  <1> QED BY <1>4, <1>5, GenMove

\* The steps of one request.
LEMMA GenRequestStep ==
  ASSUME GenInv, NEW g \in Gens, GenStep(g) \/ PoolTimeout(g)
  PROVE  GenInv'
  <1> DEFINE b == gen[g]
  <1>1. b \in GenStates /\ BatchSoFar(b)
    BY DEF GenInv, GenType
  <1>2. CASE PickCustomer(g)
    <2>1. CASE b.given \/ people # {} \/ b.kind = "backlog"
      <3> DEFINE c == [b EXCEPT !.at = "product", !.found = b.given \/ people # {}]
      <3>1. GenGoto(g, c) /\ b.at = "customer"
            /\ generated' = generated /\ batches' = batches /\ catalog' = catalog
        BY <1>2, <2>1 DEF PickCustomer
      <3>2. (b.given \/ people # {}) \in BOOLEAN
        BY <1>1 DEF GenStates
      <3>3. c \in GenStates /\ c.at = "product" /\ c.batch = b.batch /\ c.wrote = b.wrote
            /\ c.left = b.left /\ c.kind = b.kind /\ (c.found <=> b.given \/ people # {})
        BY <1>1, <3>2 DEF GenStates
      <3> HIDE DEF c
      <3>4. BatchSoFar(c)
        BY <1>1, <2>1, <3>1, <3>3 DEF BatchSoFar
      <3> QED BY <3>1, <3>3, <3>4, GenMove
    <2>2. CASE ~(b.given \/ people # {} \/ b.kind = "backlog")
      BY <1>2, <2>2, GenEnds DEF PickCustomer
    <2> QED BY <2>1, <2>2
  <1>3. CASE PickProduct(g)
    <2>0. b.at = "product" /\ generated' = generated /\ batches' = batches /\ catalog' = catalog
      BY <1>3 DEF PickProduct
    <2>1. ASSUME NEW p \in catalog, b.found, GenGoto(g, [b EXCEPT !.at = "write", !.product = p])
          PROVE  GenInv'
      <3> DEFINE c == [b EXCEPT !.at = "write", !.product = p]
      <3>1. p \in GenProducts
        BY DEF GenInv, GenType, GenProducts
      <3>2. c \in GenStates /\ c.at = "write" /\ c.batch = b.batch /\ c.wrote = b.wrote
            /\ c.left = b.left /\ c.kind = b.kind
        BY <1>1, <3>1 DEF GenStates
      <3>3. GenGoto(g, c)
        BY <2>1
      <3> HIDE DEF c
      <3>4. BatchSoFar(c)
        BY <1>1, <2>0, <3>2 DEF BatchSoFar
      <3> QED BY <2>0, <3>2, <3>3, <3>4, GenMove
    <2>2. CASE ~b.found /\ GenGoto(g, NextOrder(b))
      <3>1. b.kind # "orders"
        BY <1>1, <2>0, <2>2 DEF BatchSoFar
      <3> QED BY <2>0, <2>2, <3>1, GenSkips
    <2>3. CASE b.kind = "backlog" /\ GenGoto(g, NextOrder(b))
      BY <2>0, <2>3, GenSkips
    <2>4. CASE GiveUp(g)
      BY <2>0, <2>4, GenEnds
    <2> QED BY <1>3, <2>1, <2>2, <2>3, <2>4 DEF PickProduct
  <1>4. CASE WriteOrder(g)
    <2>0. b.at = "write" /\ generated' = generated /\ batches' = batches /\ catalog' = catalog
      BY <1>4 DEF WriteOrder
    <2> DEFINE o == [batch |-> b.batch, kind |-> b.kind, n |-> b.left, product |-> b.product]
               w == b.wrote \cup {o}
               c == [NextOrder(b) EXCEPT !.wrote = w]
    <2>1. CASE GenGoto(g, [NextOrder(b) EXCEPT !.wrote = @ \cup {o}])
      <3>1. o \in GenItems /\ o.batch = b.batch /\ o.kind = b.kind /\ o.n = b.left
        BY <1>1 DEF GenStates, GenItems
      <3>2. NextOrder(b).wrote = b.wrote
        BY <1>1 DEF NextOrder, GenStates
      <3>3. GenGoto(g, c)
        BY <2>1, <3>2 DEF GenGoto
      <3> HIDE DEF o
      <3>4. w \in SUBSET GenItems
        BY <1>1, <3>1 DEF GenStates
      <3>5. \A x \in w : x.batch = b.batch /\ x.kind = b.kind
        BY <1>1, <3>1 DEF BatchSoFar
      <3>6. {x.n : x \in w} = {x.n : x \in b.wrote} \cup {b.left}
        BY <3>1
      <3> HIDE DEF w
      <3>7. c \in GenStates /\ BatchSoFar(c) /\ c.batch = b.batch
        BY <1>1, <2>0, <3>4, <3>5, <3>6, NextOrderFacts
      <3> QED BY <2>0, <3>3, <3>7, GenMove
    <2>2. CASE GiveUp(g)
      BY <2>0, <2>2, GenEnds
    <2> QED BY <1>4, <2>1, <2>2 DEF WriteOrder
  <1>5. CASE CommitBatch(g)
    <2>1. /\ b.at = "commit" /\ generated' = generated \cup b.wrote
          /\ gen' = [gen EXCEPT ![g] = NoBatch] /\ batches' = batches /\ catalog' = catalog
      BY <1>5 DEF CommitBatch, GiveUp, GenGoto
    <2>2. gen' \in [Gens -> GenStates] /\ gen'[g].at = "idle" /\ BatchSoFar(gen'[g])
          /\ \A h \in Gens \ {g} : gen'[h] = gen[h]
      BY <2>1, NoBatchFacts DEF GenInv, GenType
    <2>3. GenType'
      BY <1>1, <2>1, <2>2 DEF GenInv, GenType, GenStates
    <2>4. \A o \in b.wrote : o.batch = b.batch /\ o.kind = b.kind
      BY <1>1 DEF BatchSoFar
    <2>5. \A o \in generated : o.batch # b.batch
      BY <2>1 DEF GenInv, BatchesApart
    <2>6. BatchesApart'
      BY <2>1, <2>2, <2>4 DEF GenInv, BatchesApart
    <2>7. ASSUME NEW o \in generated', o.kind = "orders"
          PROVE  {m.n : m \in {p \in generated' : p.batch = o.batch}} = 1..BatchSize
      <3>1. CASE o \in b.wrote
        <4>1. {p \in generated' : p.batch = o.batch} = b.wrote
          BY <2>1, <2>4, <2>5, <3>1
        <4>2. b.kind = "orders" /\ b.left = 0
          BY <1>1, <2>1, <2>4, <2>7, <3>1 DEF BatchSoFar
        <4>3. {m.n : m \in b.wrote} = (b.left + 1)..BatchSize
          BY <1>1, <2>1, <4>2 DEF BatchSoFar
        <4> QED BY <4>1, <4>2, <4>3
      <3>2. CASE o \in generated
        <4>1. {p \in generated' : p.batch = o.batch} = {p \in generated : p.batch = o.batch}
          BY <2>1, <2>4, <2>5, <3>2
        <4> QED BY <2>7, <3>2, <4>1 DEF GenInv, BatchWhole
      <3> QED BY <2>1, <3>1, <3>2
    <2>8. BatchWhole'
      BY <2>7 DEF BatchWhole
    <2> QED BY <2>2, <2>3, <2>6, <2>8 DEF GenInv
  <1>6. CASE PoolTimeout(g)
    BY <1>6, GenEnds DEF PoolTimeout
  <1> QED BY <1>2, <1>3, <1>4, <1>5, <1>6 DEF GenStep

LEMMA GenNextStep == GenInv /\ [GenNext]_genVars => GenInv'
  <1> SUFFICES ASSUME GenInv, [GenNext]_genVars PROVE GenInv'
    OBVIOUS
  <1>1. ASSUME NEW g \in Gens, NEW given \in BOOLEAN, GenerateOrders(g, given) \/ HighValueOrder(g, given)
        PROVE  GenInv'
    BY <1>1, GenAssumption, GenBegins DEF GenerateOrders, HighValueOrder, GenKinds
  <1>2. ASSUME NEW g \in Gens, GenerateBacklog(g) PROVE GenInv'
    <2>1. "backlog" \in GenKinds /\ BatchSize \in 1..BatchSize
      BY GenAssumption DEF GenKinds
    <2>2. Generate(g, "backlog", FALSE, BatchSize)
      BY <1>2 DEF GenerateBacklog
    <2> QED BY <2>1, <2>2, GenBegins
  <1>3. ASSUME NEW g \in Gens, GenStep(g) \/ PoolTimeout(g) PROVE GenInv'
    BY <1>3, GenRequestStep
  <1>4. ASSUME NEW p \in SimProducts, RemoveProduct(p) PROVE GenInv'
    BY <1>4 DEF RemoveProduct, GenInv, GenType, BatchesApart, BatchWhole
  <1>5. ASSUME NEW c \in SimCustomers, AddCustomer(c) PROVE GenInv'
    BY <1>5 DEF AddCustomer, GenInv, GenType, BatchesApart, BatchWhole
  <1>6. CASE UNCHANGED genVars
    BY <1>6 DEF genVars, GenInv, GenType, BatchesApart, BatchWhole
  <1> QED BY <1>1, <1>2, <1>3, <1>4, <1>5, <1>6 DEF GenNext

\* generate_orders commits a batch whole or not at all, whatever is deleted and
\* whichever requests run out of connections between two of its orders.
THEOREM BatchesWhole == GenSpec => []BatchWhole
  <1>1. GenInv => BatchWhole
    BY DEF GenInv
  <1> QED BY <1>1, GenInitially, GenNextStep, PTL DEF GenSpec

=============================================================================
