------------------------- MODULE SessionGate_proofs -------------------------
(***************************************************************************)
(* Proofs about SessionGate for any number of replicas, threads, requests  *)
(* and sessions.                                                           *)
(***************************************************************************)
EXTENDS SessionGate, FiniteSetTheorems, TLAPS

-----------------------------------------------------------------------------
(* The queue of the executor.                                              *)

\* A lookup is queued.
LEMMA AppendFacts ==
  ASSUME NEW q \in Seq(Entry), NEW r \in Requests
  PROVE  /\ Append(q, r) \in Seq(Entry)
         /\ Elements(Append(q, r)) = Elements(q) \cup {r}
         /\ Distinct(q) /\ r \notin Elements(q) => Distinct(Append(q, r))
  <1>0. r # None /\ r \in Entry
    BY GateAssumption DEF Entry
  <1>1. /\ Append(q, r) \in Seq(Entry) /\ Len(Append(q, r)) = Len(q) + 1
        /\ DOMAIN Append(q, r) = 1..(Len(q) + 1) /\ DOMAIN q = 1..Len(q) /\ Len(q) \in Nat
        /\ \A i \in 1..Len(q) : Append(q, r)[i] = q[i]
        /\ Append(q, r)[Len(q) + 1] = r
    BY <1>0
  <1> DEFINE q1 == Append(q, r)
  <1> HIDE DEF q1
  <1>2. Elements(q1) = Elements(q) \cup {r}
    <2>1. ASSUME NEW i \in DOMAIN q1 PROVE q1[i] \in Elements(q) \cup {r, None}
      <3>1. CASE i = Len(q) + 1
        BY <1>1, <3>1 DEF q1
      <3>2. CASE i # Len(q) + 1
        <4>1. i \in DOMAIN q /\ q1[i] = q[i]
          BY <1>1, <2>1, <3>2 DEF q1
        <4> QED BY <4>1 DEF Elements
      <3> QED BY <3>1, <3>2
    <2>2. ASSUME NEW i \in DOMAIN q PROVE q[i] \in Elements(q1) \cup {None}
      <3>1. i \in DOMAIN q1 /\ q1[i] = q[i]
        BY <1>1, <2>2 DEF q1
      <3> QED BY <3>1 DEF Elements
    <2>3. r \in Elements(q1)
      <3>1. Len(q) + 1 \in DOMAIN q1 /\ q1[Len(q) + 1] = r
        BY <1>1 DEF q1
      <3> QED BY <1>0, <3>1 DEF Elements
    <2> QED BY <1>0, <2>1, <2>2, <2>3 DEF Elements
  <1>3. ASSUME Distinct(q), r \notin Elements(q) PROVE Distinct(q1)
    <2> SUFFICES ASSUME NEW i \in DOMAIN q1, NEW j \in DOMAIN q1, q1[i] = q1[j], i # j,
                        q1[i] # None
                 PROVE  FALSE
      BY DEF Distinct
    <2>1. \A k \in DOMAIN q1 : k = Len(q) + 1 \/ (k \in DOMAIN q /\ q1[k] = q[k])
      BY <1>1 DEF q1
    <2>2. \A k \in DOMAIN q : q[k] # r
      BY <1>0, <1>3 DEF Elements
    <2>3. q1[Len(q) + 1] = r
      BY <1>1 DEF q1
    <2> QED BY <1>3, <2>1, <2>2, <2>3 DEF Distinct
  <1> QED BY <1>1, <1>2, <1>3 DEF q1

\* A queued lookup is cancelled.
LEMMA CancelFacts ==
  ASSUME NEW q \in Seq(Entry), NEW k \in DOMAIN q
  PROVE  /\ [q EXCEPT ![k] = None] \in Seq(Entry)
         /\ Distinct(q) => /\ Elements([q EXCEPT ![k] = None]) = Elements(q) \ {q[k]}
                           /\ Distinct([q EXCEPT ![k] = None])
  <1> DEFINE q1 == [q EXCEPT ![k] = None]
  <1>1. q1 \in Seq(Entry)
    <2>1. q \in [1..Len(q) -> Entry] /\ Len(q) \in Nat /\ None \in Entry
      BY DEF Entry
    <2>2. q1 \in [1..Len(q) -> Entry]
      BY <2>1
    <2> QED BY <2>1, <2>2
  <1>2. DOMAIN q1 = DOMAIN q /\ q1[k] = None /\ \A i \in DOMAIN q \ {k} : q1[i] = q[i]
    OBVIOUS
  <1> HIDE DEF q1
  <1>3. ASSUME Distinct(q) PROVE Elements(q1) = Elements(q) \ {q[k]} /\ Distinct(q1)
    <2>1. \A i \in DOMAIN q \ {k} : q[i] = q[k] => q[i] = None
      BY <1>3 DEF Distinct
    <2>2. Elements(q1) = Elements(q) \ {q[k]}
      BY <1>2, <2>1 DEF Elements
    <2>3. Distinct(q1)
      BY <1>2, <1>3 DEF Distinct
    <2> QED BY <2>2, <2>3
  <1> QED BY <1>1, <1>3 DEF q1

\* The oldest entry leaves the queue.
LEMMA TailFacts ==
  ASSUME NEW q \in Seq(Entry), q # <<>>
  PROVE  /\ Tail(q) \in Seq(Entry) /\ Head(q) \in Entry
         /\ Head(q) # None => Head(q) \in Elements(q) /\ Head(q) \in Requests
         /\ Distinct(q) => Elements(Tail(q)) = Elements(q) \ {Head(q)} /\ Distinct(Tail(q))
  <1> DEFINE t == Tail(q)
             n == Len(q) - 1
  <1>1. /\ Len(q) \in Nat \ {0} /\ DOMAIN q = 1..Len(q) /\ Head(q) = q[1] /\ Head(q) \in Entry
        /\ t \in Seq(Entry) /\ Len(t) = n /\ DOMAIN t = 1..Len(t)
        /\ \A j \in 1..n : t[j] = q[j + 1]
    OBVIOUS
  <1> HIDE DEF t, n
  <1>2. /\ n \in Nat /\ 1 \in DOMAIN q /\ DOMAIN t = 1..n
        /\ \A j \in DOMAIN t : j + 1 \in DOMAIN q /\ j + 1 # 1 /\ t[j] = q[j + 1]
        /\ \A i \in DOMAIN q \ {1} : i - 1 \in DOMAIN t /\ t[i - 1] = q[i]
    <2>1. n \in Nat /\ Len(q) = n + 1
      BY <1>1 DEF n
    <2>2. \A j \in 1..n : j + 1 \in 1..(n + 1) /\ j + 1 # 1
      BY <2>1
    <2>3. \A i \in 1..(n + 1) : i # 1 => i - 1 \in 1..n /\ (i - 1) + 1 = i
      BY <2>1
    <2>4. 1 \in 1..(n + 1)
      BY <2>1
    <2>5. \A i \in DOMAIN q \ {1} : i - 1 \in DOMAIN t /\ t[i - 1] = q[i]
      BY <1>1, <2>1, <2>3
    <2> QED BY <1>1, <2>1, <2>2, <2>4, <2>5
  <1>3. Head(q) # None => Head(q) \in Elements(q) /\ Head(q) \in Requests
    BY <1>1, <1>2 DEF Elements, Entry
  <1>4. ASSUME Distinct(q) PROVE Elements(t) = Elements(q) \ {Head(q)} /\ Distinct(t)
    <2>1. ASSUME NEW j \in DOMAIN t, t[j] # None PROVE t[j] \in Elements(q) /\ t[j] # Head(q)
      BY <1>1, <1>2, <1>4, <2>1 DEF Elements, Distinct
    <2>2. ASSUME NEW i \in DOMAIN q, q[i] # Head(q), q[i] # None PROVE q[i] \in Elements(t)
      BY <1>1, <1>2, <2>2 DEF Elements
    <2>3. Distinct(t)
      <3> SUFFICES ASSUME NEW i \in DOMAIN t, NEW j \in DOMAIN t, t[i] = t[j], t[i] # None
                   PROVE  i = j
        BY DEF Distinct
      <3>1. i + 1 \in DOMAIN q /\ j + 1 \in DOMAIN q /\ q[i + 1] = q[j + 1] /\ q[i + 1] # None
        BY <1>2
      <3>2. i + 1 = j + 1
        BY <1>4, <3>1 DEF Distinct
      <3>3. i \in Nat /\ j \in Nat
        <4>1. i \in 1..n /\ j \in 1..n /\ n \in Nat
          BY <1>2
        <4> QED BY <4>1
      <3> QED BY <3>2, <3>3
    <2> QED BY <2>1, <2>2, <2>3 DEF Elements
  <1> QED BY <1>1, <1>3, <1>4 DEF t

-----------------------------------------------------------------------------
(* Types.                                                                  *)

\* The number of slots is a natural number.
LEMMA CapacityType == Capacity \in Nat /\ Cardinality(Workers) \in Nat
  BY FS_CardinalityType, GateAssumption DEF Capacity

\* An idle thread is a thread.
LEMMA IdleType == Idle \in Thread
  BY DEF Idle, Thread

\* Changing one field of one thread.
LEMMA SetState ==
  ASSUME NEW t \in Thread, NEW st \in {"idle", "select", "found", "missed", "hung"}
  PROVE  /\ [t EXCEPT !.st = st] \in Thread /\ [t EXCEPT !.st = st].st = st
         /\ [t EXCEPT !.st = st].sid = t.sid /\ [t EXCEPT !.st = st].req = t.req
  BY DEF Thread

\* Taking the request from a thread leaves the rest of it.
LEMMA SetRequest ==
  ASSUME NEW t \in Thread
  PROVE  /\ [t EXCEPT !.req = None] \in Thread /\ [t EXCEPT !.req = None].req = None
         /\ [t EXCEPT !.req = None].sid = t.sid /\ [t EXCEPT !.req = None].st = t.st
  BY DEF Thread

\* A write to one entry of a cache leaves a cache.
LEMMA CacheWrite ==
  ASSUME NEW c \in [Sids -> 0..TTL], NEW n \in 0..TTL, NEW x
  PROVE  [c EXCEPT ![x] = n] \in [Sids -> 0..TTL]
  OBVIOUS

Answers == {"none", "public", "ok", "denied", "auth_saturated", "auth_timeout",
            "auth_backend_error"}

\* The end of a lookup keeps the types ...
LEMMA ReturnType ==
  ASSUME TypeOK, NEW rep \in Replicas, NEW w \in Workers, NEW verdict \in Answers,
         Return(rep, w, verdict)
  PROVE  /\ issued' \subseteq Sids /\ sessions' \subseteq issued'
         /\ pc' \in [Requests -> {"idle", "admit", "lookup", "answered"}]
         /\ at' \in [Requests -> Replicas] /\ sid' \in [Requests -> issued' \cup {None}]
         /\ answer' \in [Requests -> Answers]
         /\ free' \in [Replicas -> Nat] /\ thread' \in [Replicas -> [Workers -> Thread]]
  <1> USE DEF TypeOK
  <1>1. thread' \in [Replicas -> [Workers -> Thread]]
    BY IdleType DEF Return
  <1> DEFINE r == thread[rep][w].req
  <1>a. thread[rep][w] \in Thread
    OBVIOUS
  <1>b. r \in Requests \cup {None}
    BY <1>a DEF Thread
  <1>c. \/ r = None /\ UNCHANGED <<pc, answer, free>>
        \/ /\ r # None /\ pc' = [pc EXCEPT ![r] = "answered"]
           /\ answer' = [answer EXCEPT ![r] = verdict]
           /\ free' = [free EXCEPT ![rep] = @ + 1]
    BY DEF Return
  <1> HIDE DEF r
  <1>2. /\ pc' \in [Requests -> {"idle", "admit", "lookup", "answered"}]
        /\ answer' \in [Requests -> Answers] /\ free' \in [Replicas -> Nat]
    <2>1. CASE r = None
      BY <1>c, <2>1 DEF Answers
    <2>2. CASE r # None
      <3>1. r \in Requests /\ pc' = [pc EXCEPT ![r] = "answered"]
            /\ answer' = [answer EXCEPT ![r] = verdict] /\ free' = [free EXCEPT ![rep] = @ + 1]
        BY <1>b, <1>c, <2>2
      <3> QED BY <3>1 DEF Answers
    <2> QED BY <2>1, <2>2
  <1> QED BY <1>1, <1>2 DEF Return, storeVars

\* ... as does every step of a thread ...
LEMMA ThreadStepType ==
  ASSUME TypeOK, NEW rep \in Replicas, NEW w \in Workers,
         ThreadStep(rep, w) \/ LookupFails(rep, w) \/ Hang(rep, w) \/ HungFails(rep, w)
  PROVE  TypeOK'
  <1> USE DEF TypeOK
  <1>1. queue[rep] \in Seq(Entry) /\ thread[rep] \in [Workers -> Thread]
        /\ thread[rep][w] \in Thread
    OBVIOUS
  <1>2. ASSUME queue[rep] # <<>>
        PROVE  /\ Tail(queue[rep]) \in Seq(Entry)
               /\ Head(queue[rep]) # None => Head(queue[rep]) \in Requests
    BY <1>1, <1>2, TailFacts
  <1>0. CASE Discard(rep, w)
    <2>1. Tail(queue[rep]) \in Seq(Entry)
      BY <1>0, <1>2 DEF Discard
    <2>2. queue' \in [Replicas -> Seq(Entry)]
      BY <1>0, <2>1 DEF Discard
    <2> QED BY <1>0, <2>2 DEF Discard, storeVars, requestVars
  <1>3. CASE BeginCached(rep, w)
    <2>1. Head(queue[rep]) \in Requests /\ Tail(queue[rep]) \in Seq(Entry)
      BY <1>2, <1>3 DEF BeginCached
    <2>2. queue' \in [Replicas -> Seq(Entry)]
      BY <1>3, <2>1 DEF BeginCached
    <2>3. PICK v \in {"ok", "denied"} : answer' = [answer EXCEPT ![Head(queue[rep])] = v]
      BY <1>3 DEF BeginCached
    <2> QED BY <1>3, <2>1, <2>2, <2>3 DEF BeginCached, storeVars
  <1>4. CASE BeginSelect(rep, w)
    <2>1. Head(queue[rep]) \in Requests /\ Tail(queue[rep]) \in Seq(Entry)
      BY <1>2, <1>4 DEF BeginSelect
    <2>2. queue' \in [Replicas -> Seq(Entry)]
      BY <1>4, <2>1 DEF BeginSelect
    <2>3. [st |-> "select", sid |-> sid[Head(queue[rep])], req |-> Head(queue[rep])] \in Thread
      BY <2>1 DEF Thread
    <2>4. thread' \in [Replicas -> [Workers -> Thread]]
      BY <1>4, <2>3 DEF BeginSelect
    <2> QED BY <1>4, <2>2, <2>4 DEF BeginSelect, storeVars, requestVars
  <1>5. CASE Select(rep, w) \/ Hang(rep, w)
    <2>1. PICK st \in {"found", "missed", "hung"} : thread' = [thread EXCEPT ![rep][w].st = st]
      BY <1>5 DEF Select, Hang
    <2>2. thread' \in [Replicas -> [Workers -> Thread]]
      <3>1. [thread[rep][w] EXCEPT !.st = st] \in Thread
        BY <1>1, SetState
      <3> QED BY <2>1, <3>1
    <2> QED BY <1>5, <2>2 DEF Select, Hang, storeVars, requestVars
  <1>6. CASE ReturnFound(rep, w) \/ ReturnMissed(rep, w)
    <2>1. PICK v \in {"ok", "denied"} : Return(rep, w, v)
      BY <1>6 DEF ReturnFound, ReturnMissed
    <2>2. cache' \in [Replicas -> [Sids -> 0..TTL]]
      <3>1. \A n \in 0..TTL :
               [cache[rep] EXCEPT ![thread[rep][w].sid] = n] \in [Sids -> 0..TTL]
        BY CacheWrite
      <3> DEFINE new(n) == [cache EXCEPT ![rep] = [cache[rep] EXCEPT ![thread[rep][w].sid] = n]]
      <3>2. cache' = new(TTL) \/ cache' = new(0)
        BY <1>6 DEF ReturnFound, ReturnMissed
      <3>3. new(TTL) \in [Replicas -> [Sids -> 0..TTL]] /\ new(0) \in [Replicas -> [Sids -> 0..TTL]]
        BY <3>1, GateAssumption
      <3> QED BY <3>2, <3>3
    <2>3. v \in Answers
      BY DEF Answers
    <2> QED BY <1>6, <2>1, <2>2, <2>3, ReturnType DEF ReturnFound, ReturnMissed, Answers
  <1>7. CASE LookupFails(rep, w) \/ HungFails(rep, w)
    <2>1. Return(rep, w, "auth_backend_error")
      BY <1>7 DEF LookupFails, HungFails
    <2>2. "auth_backend_error" \in Answers
      BY DEF Answers
    <2> QED BY <1>7, <2>1, <2>2, ReturnType DEF LookupFails, HungFails, Answers
  <1> QED BY <1>0, <1>3, <1>4, <1>5, <1>6, <1>7 DEF ThreadStep

\* ... of dispatch for one request ...
LEMMA GateStepType ==
  ASSUME TypeOK, NEW r \in Requests, GateStep(r)
  PROVE  TypeOK'
  <1> USE DEF TypeOK
  <1>1. at[r] \in Replicas /\ queue[at[r]] \in Seq(Entry)
        /\ thread[at[r]] \in [Workers -> Thread]
    OBVIOUS
  <1>2. CASE Admit(r)
    <2>1. Append(queue[at[r]], r) \in Seq(Entry)
      BY <1>1, AppendFacts
    <2>2. queue' \in [Replicas -> Seq(Entry)]
      BY <1>2, <2>1 DEF Admit
    <2> QED BY <1>1, <1>2, <2>2 DEF Admit, storeVars
  <1>3. CASE AdmitTimeout(r)
    BY <1>3 DEF AdmitTimeout, storeVars
  <1>4. CASE LookupTimeout(r)
    <2>1. \A i \in DOMAIN queue[at[r]] : [queue[at[r]] EXCEPT ![i] = None] \in Seq(Entry)
      BY <1>1, CancelFacts
    <2>2. queue' \in [Replicas -> Seq(Entry)]
      <3>1. ASSUME NEW i \in DOMAIN queue[at[r]],
                   queue' = [queue EXCEPT ![at[r]][i] = None]
            PROVE  queue' \in [Replicas -> Seq(Entry)]
        BY <1>1, <2>1, <3>1
      <3> QED BY <1>4, <3>1 DEF LookupTimeout
    <2>3. thread' \in [Replicas -> [Workers -> Thread]]
      <3>1. ASSUME NEW w \in Workers, thread' = [thread EXCEPT ![at[r]][w].req = None]
            PROVE  thread' \in [Replicas -> [Workers -> Thread]]
        <4>1. [thread[at[r]][w] EXCEPT !.req = None] \in Thread
          BY <1>1, SetRequest
        <4> QED BY <1>1, <3>1, <4>1
      <3> QED BY <1>4, <3>1 DEF LookupTimeout
    <2>4. /\ free' = [free EXCEPT ![at[r]] = @ + 1]
          /\ pc' = [pc EXCEPT ![r] = "answered"]
          /\ answer' = [answer EXCEPT ![r] = "auth_timeout"]
          /\ UNCHANGED <<storeVars, cache, at, sid, faults>>
      BY <1>4 DEF LookupTimeout
    <2> QED BY <1>1, <2>2, <2>3, <2>4 DEF storeVars
  <1>5. CASE Finish(r)
    BY <1>5 DEF Finish, storeVars
  <1> QED BY <1>2, <1>3, <1>4, <1>5 DEF GateStep

\* ... and of the clients, the clock and the faults.
LEMMA OtherStepType ==
  ASSUME TypeOK,
         \/ \E s \in Sids : Login(s) \/ Logout(s)
         \/ Tick
         \/ \E r \in Requests, rep \in Replicas :
               ArrivePublic(r, rep) \/ \E s \in issued \cup {None} : Arrive(r, rep, s)
         \/ \E rep \in Replicas : Restart(rep)
  PROVE  TypeOK'
  <1> USE DEF TypeOK
  <1>1. ASSUME NEW s \in Sids, Login(s) \/ Logout(s) PROVE TypeOK'
    BY <1>1 DEF Login, Logout, requestVars
  <1>2. CASE Tick
    <2>1. cache' \in [Replicas -> [Sids -> 0..TTL]]
      <3>1. \A rep \in Replicas, s \in Sids :
               (IF cache[rep][s] > 0 THEN cache[rep][s] - 1 ELSE 0) \in 0..TTL
        BY GateAssumption
      <3> QED BY <1>2, <3>1 DEF Tick
    <2> QED BY <1>2, <2>1 DEF Tick, storeVars, requestVars
  <1>3. ASSUME NEW r \in Requests, NEW rep \in Replicas, ArrivePublic(r, rep) PROVE TypeOK'
    BY <1>3 DEF ArrivePublic, storeVars
  <1>4. ASSUME NEW r \in Requests, NEW rep \in Replicas, NEW s \in issued \cup {None},
               Arrive(r, rep, s)
        PROVE  TypeOK'
    BY <1>4 DEF Arrive, storeVars
  <1>5. ASSUME NEW rep \in Replicas, Restart(rep) PROVE TypeOK'
    <2>1. thread' \in [Replicas -> [Workers -> Thread]]
      BY <1>5, IdleType DEF Restart
    <2>2. cache' \in [Replicas -> [Sids -> 0..TTL]]
      BY <1>5, GateAssumption DEF Restart
    <2>3. queue' \in [Replicas -> Seq(Entry)] /\ free' \in [Replicas -> Nat]
      BY <1>5, CapacityType DEF Restart
    <2> QED BY <1>5, <2>1, <2>2, <2>3 DEF Restart, storeVars
  <1> QED BY <1>1, <1>2, <1>3, <1>4, <1>5

\* Type correctness of the session gate, for every value of the constants.
THEOREM GateTypeCorrect == Spec => []TypeOK
  <1>1. Init => TypeOK
    BY CapacityType, IdleType, GateAssumption DEF Init, TypeOK
  <1>2. TypeOK /\ [Next]_vars => TypeOK'
    <2> SUFFICES ASSUME TypeOK, [Next]_vars PROVE TypeOK'
      OBVIOUS
    <2>1. CASE Next
      BY <2>1, ThreadStepType, GateStepType, OtherStepType DEF Next
    <2>2. CASE UNCHANGED vars
      BY <2>2 DEF vars, TypeOK
    <2> QED BY <2>1, <2>2
  <1> QED BY <1>1, <1>2, PTL DEF Spec

-----------------------------------------------------------------------------
(* Requests and lookups.                                                   *)

\* A request joins the queue.
LEMMA MatchedAppend ==
  ASSUME NEW L, NEW q \in Seq(Entry), NEW T, NEW c, Matched(L, q, T, c),
         NEW r \in Requests, r \notin L
  PROVE  Matched(L \cup {r}, Append(q, r), T, c)
  <1>1. Elements(Append(q, r)) = Elements(q) \cup {r} /\ Distinct(Append(q, r))
    BY AppendFacts DEF Matched
  <1> QED BY <1>1 DEF Matched

\* A queued lookup is cancelled.
LEMMA MatchedCancel ==
  ASSUME NEW L, NEW q \in Seq(Entry), NEW T, NEW c, Matched(L, q, T, c), NEW i \in DOMAIN q,
         q[i] # None
  PROVE  Matched(L \ {q[i]}, [q EXCEPT ![i] = None], T, c)
  <1> DEFINE q1 == [q EXCEPT ![i] = None]
  <1>1. Elements(q1) = Elements(q) \ {q[i]} /\ Distinct(q1)
    BY CancelFacts DEF Matched
  <1>2. q[i] \in Elements(q)
    BY DEF Elements
  <1> HIDE DEF q1
  <1>3. Matched(L \ {q[i]}, q1, T, c)
    BY <1>1, <1>2 DEF Matched
  <1> QED BY <1>3 DEF q1

\* The oldest entry is begun and ended at once, or was cancelled.
LEMMA MatchedTail ==
  ASSUME NEW L, NEW q \in Seq(Entry), NEW T, NEW c, Matched(L, q, T, c), q # <<>>
  PROVE  Matched(L \ {Head(q)}, Tail(q), T, c)
  <1>1. Elements(Tail(q)) = Elements(q) \ {Head(q)} /\ Distinct(Tail(q))
        /\ (Head(q) # None => Head(q) \in Elements(q))
    BY TailFacts DEF Matched
  <1>2. None \notin Served(T) /\ None \notin Elements(q)
    BY DEF Served, Elements
  <1> QED BY <1>1, <1>2 DEF Matched

\* An idle thread begins the oldest lookup.
LEMMA MatchedBegin ==
  ASSUME NEW L, NEW q \in Seq(Entry), NEW T \in [Workers -> Thread], NEW c,
         Matched(L, q, T, c), q # <<>>, Head(q) # None, NEW w \in Workers, T[w].st = "idle"
  PROVE  Matched(L, Tail(q),
                 [T EXCEPT ![w] = [st |-> "select", sid |-> c[Head(q)], req |-> Head(q)]], c)
  <1> DEFINE h == Head(q)
             t == [st |-> "select", sid |-> c[h], req |-> h]
             T1 == [T EXCEPT ![w] = t]
  <1>1. /\ Elements(Tail(q)) = Elements(q) \ {h} /\ Distinct(Tail(q))
        /\ h \in Elements(q) /\ h \in Requests
    BY TailFacts DEF Matched
  <1> HIDE DEF h
  <1>2. T[w].req = None /\ h # None /\ h \notin Served(T)
    BY <1>1, GateAssumption DEF Matched
  <1>3. /\ T1[w].req = h /\ T1[w].sid = c[h] /\ T1[w].st = "select"
        /\ \A v \in Workers \ {w} : T1[v] = T[v]
    OBVIOUS
  <1> HIDE DEF T1
  <1>4. Served(T1) = Served(T) \cup {h}
    BY <1>2, <1>3 DEF Served
  <1>5. \A v \in Workers : T[v].req # h
    BY <1>2 DEF Served
  <1>6. \A v, u \in Workers : T1[v].req = T1[u].req => v = u \/ T1[v].req = None
    BY <1>3, <1>5 DEF Matched
  <1>7. \A v \in Workers : T1[v].req # None => T1[v].sid = c[T1[v].req] /\ T1[v].st # "idle"
    BY <1>3 DEF Matched
  <1>8. /\ L = Elements(Tail(q)) \cup Served(T1)
        /\ Elements(Tail(q)) \cap Served(T1) = {}
    BY <1>1, <1>2, <1>4 DEF Matched
  <1> QED BY <1>1, <1>6, <1>7, <1>8 DEF Matched, T1, h

\* A busy thread goes on.
LEMMA MatchedState ==
  ASSUME NEW L, NEW q, NEW T \in [Workers -> Thread], NEW c, Matched(L, q, T, c),
         NEW w \in Workers, NEW st \in {"select", "found", "missed", "hung"}
  PROVE  Matched(L, q, [T EXCEPT ![w].st = st], c)
  <1> DEFINE t == [T[w] EXCEPT !.st = st]
             T1 == [T EXCEPT ![w].st = st]
  <1>1. t.req = T[w].req /\ t.sid = T[w].sid /\ t.st = st
    BY SetState
  <1>2. T1[w] = t /\ \A v \in Workers \ {w} : T1[v] = T[v]
    OBVIOUS
  <1> HIDE DEF t, T1
  <1>3. Served(T1) = Served(T)
    BY <1>1, <1>2 DEF Served
  <1>4. \A v \in Workers : T1[v].req = T[v].req /\ T1[v].sid = T[v].sid
    BY <1>1, <1>2
  <1>5. \A v \in Workers : T1[v].req # None => T1[v].st # "idle"
    BY <1>1, <1>2 DEF Matched
  <1>6. Matched(L, q, T1, c)
    BY <1>3, <1>4, <1>5 DEF Matched
  <1> QED BY <1>6 DEF T1

\* A request stops waiting for its thread, or the thread ends its lookup.
LEMMA MatchedRelease ==
  ASSUME NEW L, NEW q \in Seq(Entry), NEW T \in [Workers -> Thread], NEW c,
         Matched(L, q, T, c), NEW w \in Workers, NEW t \in Thread, t.req = None
  PROVE  Matched(L \ {T[w].req}, q, [T EXCEPT ![w] = t], c)
  <1> DEFINE T1 == [T EXCEPT ![w] = t]
             r == T[w].req
  <1>1. T1[w] = t /\ \A v \in Workers \ {w} : T1[v] = T[v]
    OBVIOUS
  <1> HIDE DEF T1
  <1>2. Served(T1) = Served(T) \ {r}
    <2>1. \A v \in Workers \ {w} : T[v].req = r => r = None
      BY DEF Matched
    <2> QED BY <1>1, <2>1 DEF Served
  <1>3. r = None \/ r \in Served(T)
    BY DEF Served
  <1>4. None \notin Served(T)
    BY DEF Served
  <1>5. Elements(q) \ {r} = Elements(q) \/ r = None
    BY <1>3 DEF Matched
  <1>a. None \notin Elements(q)
    BY GateAssumption DEF Elements
  <1>6. CASE r = None
    <2>1. L \ {r} = L /\ Served(T1) = Served(T)
      BY <1>2, <1>4, <1>6, <1>a DEF Matched
    <2>2. \A v \in Workers : T1[v].req # None => T1[v] = T[v]
      BY <1>1
    <2> QED BY <1>1, <2>1, <2>2 DEF Matched, T1
  <1>7. CASE r # None
    BY <1>1, <1>2, <1>3, <1>5, <1>7 DEF Matched, T1
  <1> QED BY <1>6, <1>7

-----------------------------------------------------------------------------
(* Slots.                                                                  *)

\* The two invariants that hold step by step: requests and lookups agree, and
\* the semaphore counts the requests that wait.
GateInv == OneLookupEach /\ SemaphoreExact

\* Nobody starts or stops waiting.
LEMMA Stay ==
  ASSUME TypeOK, GateInv, free' = free, NEW rep \in Replicas,
         \A r \in Requests : /\ pc'[r] = "lookup" <=> pc[r] = "lookup"
                             /\ pc[r] = "lookup" => at'[r] = at[r] /\ sid'[r] = sid[r],
         \/ queue'[rep] = queue[rep] /\ thread'[rep] = thread[rep]
         \/ Matched(LookupsOf(rep), queue'[rep], thread'[rep], sid) /\ sid' = sid
  PROVE  /\ Matched(LookupsOf(rep)', queue'[rep], thread'[rep], sid')
         /\ free'[rep] + Cardinality(LookupsOf(rep)') = Capacity
  <1>1. LookupsOf(rep)' = LookupsOf(rep)
    BY DEF LookupsOf
  <1>2. Matched(LookupsOf(rep), queue[rep], thread[rep], sid)
    BY DEF GateInv, OneLookupEach
  <1>3. free[rep] + Cardinality(LookupsOf(rep)) = Capacity
    BY DEF GateInv, SemaphoreExact
  <1>4. CASE queue'[rep] = queue[rep] /\ thread'[rep] = thread[rep]
    <2>1. \A r \in LookupsOf(rep) : sid'[r] = sid[r]
      BY DEF LookupsOf
    <2>2. \A w \in Workers : thread[rep][w].req # None => thread[rep][w].req \in LookupsOf(rep)
      BY <1>2 DEF Matched, Served
    <2>3. Matched(LookupsOf(rep), queue[rep], thread[rep], sid')
      BY <1>2, <2>1, <2>2 DEF Matched
    <2> QED BY <1>1, <1>3, <1>4, <2>3
  <1>5. CASE Matched(LookupsOf(rep), queue'[rep], thread'[rep], sid) /\ sid' = sid
    BY <1>1, <1>3, <1>5
  <1> QED BY <1>4, <1>5

\* A step that begins and ends no lookup keeps the invariant.
LEMMA Untouched ==
  ASSUME TypeOK, GateInv, UNCHANGED <<free, queue, thread>>,
         \A r \in Requests : /\ pc'[r] = "lookup" <=> pc[r] = "lookup"
                             /\ pc[r] = "lookup" => at'[r] = at[r] /\ sid'[r] = sid[r]
  PROVE  GateInv'
  <1>1. ASSUME NEW rep \in Replicas
        PROVE  /\ Matched(LookupsOf(rep)', queue'[rep], thread'[rep], sid')
               /\ free'[rep] + Cardinality(LookupsOf(rep)') = Capacity
    <2>1. queue'[rep] = queue[rep] /\ thread'[rep] = thread[rep] /\ free' = free
      OBVIOUS
    <2> QED BY <2>1, Stay
  <1> QED BY <1>1 DEF GateInv, OneLookupEach, SemaphoreExact

\* Finite sets of requests, and what one request more or less makes.
LEMMA LookupsFinite == \A rep : IsFiniteSet(LookupsOf(rep))
  <1> SUFFICES ASSUME NEW rep PROVE IsFiniteSet(LookupsOf(rep))
    OBVIOUS
  <1>1. LookupsOf(rep) \subseteq Requests
    BY DEF LookupsOf
  <1> QED BY <1>1, FS_Subset, GateAssumption

\* Both invariants, one replica at a time: where nothing changes they stay.
LEMMA Combine ==
  ASSUME TypeOK, GateInv, NEW a \in Replicas, UNCHANGED sid,
         \A rep \in Replicas \ {a} :
            /\ queue'[rep] = queue[rep] /\ thread'[rep] = thread[rep]
            /\ free'[rep] = free[rep] /\ LookupsOf(rep)' = LookupsOf(rep),
         Matched(LookupsOf(a)', queue'[a], thread'[a], sid'),
         free'[a] + Cardinality(LookupsOf(a)') = Capacity
  PROVE  GateInv'
  <1>1. \A rep \in Replicas : Matched(LookupsOf(rep), queue[rep], thread[rep], sid)
    BY DEF GateInv, OneLookupEach
  <1>2. \A rep \in Replicas : free[rep] + Cardinality(LookupsOf(rep)) = Capacity
    BY DEF GateInv, SemaphoreExact
  <1>3. ASSUME NEW rep \in Replicas
        PROVE  Matched(LookupsOf(rep)', queue'[rep], thread'[rep], sid')
    <2>1. CASE rep = a
      BY <2>1
    <2>2. CASE rep # a
      BY <1>1, <2>2
    <2> QED BY <2>1, <2>2
  <1>4. ASSUME NEW rep \in Replicas
        PROVE  free'[rep] + Cardinality(LookupsOf(rep)') = Capacity
    <2>1. CASE rep = a
      BY <2>1
    <2>2. CASE rep # a
      BY <1>2, <2>2
    <2> QED BY <2>1, <2>2
  <1> QED BY <1>3, <1>4 DEF GateInv, OneLookupEach, SemaphoreExact

\* Request r of replica at[r] takes a slot and a lookup.
LEMMA Enter ==
  ASSUME TypeOK, GateInv, NEW r \in Requests, Admit(r)
  PROVE  GateInv'
  <1>a. PICK a \in Replicas : a = at[r]
    BY DEF TypeOK
  <1> DEFINE n == Cardinality(LookupsOf(a))
  <1>0. queue[a] \in Seq(Entry) /\ free[a] \in Nat
    BY DEF TypeOK
  <1>1. /\ pc[r] = "admit" /\ free[a] > 0 /\ UNCHANGED <<at, sid, thread>>
        /\ free' = [free EXCEPT ![a] = @ - 1] /\ pc' = [pc EXCEPT ![r] = "lookup"]
        /\ queue' = [queue EXCEPT ![a] = Append(@, r)]
    BY <1>a DEF Admit
  <1>2. r \notin LookupsOf(a) /\ LookupsOf(a)' = LookupsOf(a) \cup {r}
        /\ \A rep \in Replicas \ {a} : LookupsOf(rep)' = LookupsOf(rep)
    BY <1>a, <1>1 DEF LookupsOf, TypeOK
  <1>3. /\ free'[a] = free[a] - 1 /\ queue'[a] = Append(queue[a], r)
        /\ \A rep \in Replicas \ {a} : free'[rep] = free[rep] /\ queue'[rep] = queue[rep]
    BY <1>0, <1>1 DEF TypeOK
  <1>4. Matched(LookupsOf(a), queue[a], thread[a], sid) /\ free[a] + n = Capacity
    BY <1>0 DEF GateInv, OneLookupEach, SemaphoreExact
  <1>5. Matched(LookupsOf(a) \cup {r}, Append(queue[a], r), thread[a], sid)
    BY <1>0, <1>2, <1>4, MatchedAppend
  <1>6. Cardinality(LookupsOf(a) \cup {r}) = n + 1 /\ n \in Nat
    BY <1>2, LookupsFinite, FS_AddElement, FS_CardinalityType
  <1>7. Cardinality(LookupsOf(a)') = n + 1
    BY <1>2, <1>6
  <1> HIDE DEF n
  <1>8. free'[a] + Cardinality(LookupsOf(a)') = Capacity
    <2>1. free'[a] = free[a] - 1 /\ free[a] \in Nat /\ n \in Nat /\ free[a] + n = Capacity
      BY <1>0, <1>3, <1>4, <1>6
    <2>2. (free[a] - 1) + (n + 1) = Capacity
      BY <2>1
    <2> QED BY <1>7, <2>1, <2>2
  <1>9. Matched(LookupsOf(a)', queue'[a], thread'[a], sid')
    BY <1>1, <1>2, <1>3, <1>5
  <1> QED BY <1>0, <1>1, <1>2, <1>3, <1>8, <1>9, Combine

\* Request r of replica a is answered and gives its slot back.
LEMMA Leave ==
  ASSUME TypeOK, GateInv, NEW r \in Requests, NEW a \in Replicas, r \in LookupsOf(a),
         pc' = [pc EXCEPT ![r] = "answered"], UNCHANGED <<at, sid>>,
         free' = [free EXCEPT ![a] = @ + 1],
         \A rep \in Replicas \ {a} : queue'[rep] = queue[rep] /\ thread'[rep] = thread[rep],
         Matched(LookupsOf(a) \ {r}, queue'[a], thread'[a], sid)
  PROVE  GateInv'
  <1> DEFINE n == Cardinality(LookupsOf(a))
  <1>1. LookupsOf(a)' = LookupsOf(a) \ {r}
        /\ \A rep \in Replicas \ {a} : LookupsOf(rep)' = LookupsOf(rep)
    BY DEF LookupsOf, TypeOK
  <1>2. free[a] \in Nat /\ free'[a] = free[a] + 1
        /\ \A rep \in Replicas \ {a} : free'[rep] = free[rep]
    BY DEF TypeOK
  <1>3. free[a] + n = Capacity
    BY DEF GateInv, SemaphoreExact
  <1>4. Cardinality(LookupsOf(a) \ {r}) = n - 1 /\ n \in Nat
    BY LookupsFinite, FS_RemoveElement, FS_CardinalityType
  <1>5. Cardinality(LookupsOf(a)') = n - 1
    BY <1>1, <1>4
  <1> HIDE DEF n
  <1>6. free'[a] + Cardinality(LookupsOf(a)') = Capacity
    BY <1>2, <1>3, <1>4, <1>5
  <1>7. Matched(LookupsOf(a)', queue'[a], thread'[a], sid')
    BY <1>1
  <1> QED BY <1>1, <1>2, <1>6, <1>7, Combine

\* A lookup of replica a goes on, and everybody keeps waiting.
LEMMA GoOn ==
  ASSUME TypeOK, GateInv, NEW a \in Replicas, UNCHANGED <<pc, at, sid, free>>,
         \A rep \in Replicas \ {a} : queue'[rep] = queue[rep] /\ thread'[rep] = thread[rep],
         Matched(LookupsOf(a), queue'[a], thread'[a], sid)
  PROVE  GateInv'
  <1>1. \A rep : LookupsOf(rep)' = LookupsOf(rep)
    BY DEF LookupsOf
  <1>2. free[a] + Cardinality(LookupsOf(a)) = Capacity
    BY DEF GateInv, SemaphoreExact
  <1>3. LookupsOf(a)' = LookupsOf(a) /\ free'[a] = free[a] /\ UNCHANGED sid
        /\ \A rep \in Replicas \ {a} : free'[rep] = free[rep] /\ LookupsOf(rep)' = LookupsOf(rep)
    BY <1>1
  <1>4. free'[a] + Cardinality(LookupsOf(a)') = Capacity
    BY <1>2, <1>3
  <1>5. Matched(LookupsOf(a)', queue'[a], thread'[a], sid')
    BY <1>3
  <1> QED BY <1>3, <1>4, <1>5, Combine

\* A lookup of thread w ends with a verdict.
LEMMA ReturnInv ==
  ASSUME TypeOK, GateInv, NEW a \in Replicas, NEW w \in Workers, NEW v, Return(a, w, v),
         UNCHANGED queue
  PROVE  GateInv'
  <1> DEFINE r == thread[a][w].req
  <1>1. /\ thread[a] \in [Workers -> Thread] /\ queue[a] \in Seq(Entry)
        /\ thread[a][w] \in Thread
    BY DEF TypeOK
  <1>2. r \in Requests \cup {None}
    BY <1>1 DEF Thread
  <1>3. Matched(LookupsOf(a), queue[a], thread[a], sid)
    BY DEF GateInv, OneLookupEach
  <1>4. Idle.req = None
    BY DEF Idle
  <1>5. Matched(LookupsOf(a) \ {r}, queue[a], [thread[a] EXCEPT ![w] = Idle], sid)
    BY <1>1, <1>3, <1>4, IdleType, MatchedRelease
  <1>6. /\ thread'[a] = [thread[a] EXCEPT ![w] = Idle]
        /\ \A rep \in Replicas \ {a} : thread'[rep] = thread[rep]
    BY DEF Return, TypeOK
  <1>7. Matched(LookupsOf(a) \ {r}, queue'[a], thread'[a], sid)
    BY <1>5, <1>6
  <1>8. CASE r = None
    <2>1. LookupsOf(a) \ {r} = LookupsOf(a)
      BY <1>8, GateAssumption DEF LookupsOf
    <2>2. UNCHANGED <<pc, at, sid, free>>
      BY <1>8 DEF Return
    <2> QED BY <1>6, <1>7, <2>1, <2>2, GoOn
  <1>9. CASE r # None
    <2>1. r \in Requests /\ r \in LookupsOf(a)
      BY <1>2, <1>3, <1>9 DEF Matched, Served
    <2>2. /\ pc' = [pc EXCEPT ![r] = "answered"] /\ UNCHANGED <<at, sid>>
          /\ free' = [free EXCEPT ![a] = @ + 1]
      BY <1>9 DEF Return
    <2> HIDE DEF r
    <2> QED BY <1>6, <1>7, <2>1, <2>2, Leave
  <1> QED BY <1>8, <1>9

\* A replica that restarts begins again with all its slots and no lookup.
LEMMA RestartInv ==
  ASSUME TypeOK, GateInv, NEW a \in Replicas, Restart(a)
  PROVE  GateInv'
  <1> DEFINE T == [w \in Workers |-> Idle]
  <1>1. /\ UNCHANGED <<at, sid>>
        /\ pc' = [r \in Requests |-> IF at[r] = a THEN "idle" ELSE pc[r]]
        /\ free'[a] = Capacity /\ queue'[a] = <<>> /\ thread'[a] = T
        /\ \A rep \in Replicas \ {a} : /\ queue'[rep] = queue[rep] /\ thread'[rep] = thread[rep]
                                       /\ free'[rep] = free[rep]
    BY DEF Restart, TypeOK
  <1>2. LookupsOf(a)' = {} /\ \A rep \in Replicas \ {a} : LookupsOf(rep)' = LookupsOf(rep)
    BY <1>1 DEF LookupsOf
  <1>3. Elements(<<>>) = {} /\ Distinct(<<>>)
    BY DEF Elements, Distinct
  <1>4. \A w \in Workers : T[w].req = None
    BY DEF Idle
  <1> HIDE DEF T
  <1>5. Served(T) = {}
    BY <1>4 DEF Served
  <1>6. Matched({}, <<>>, T, sid)
    BY <1>3, <1>4, <1>5 DEF Matched
  <1>7. Matched(LookupsOf(a)', queue'[a], thread'[a], sid')
    BY <1>1, <1>2, <1>6
  <1>8. Cardinality(LookupsOf(a)') = 0
    BY <1>2, FS_EmptySet
  <1>9. free'[a] + Cardinality(LookupsOf(a)') = Capacity
    BY <1>1, <1>8, CapacityType
  <1> QED BY <1>1, <1>2, <1>7, <1>9, Combine

\* wait_for gives up: the lookup is cancelled or abandoned.
LEMMA LookupTimeoutInv ==
  ASSUME TypeOK, GateInv, NEW r \in Requests, LookupTimeout(r)
  PROVE  GateInv'
  <1>a. PICK a \in Replicas : a = at[r]
    BY DEF TypeOK
  <1>1. /\ queue[a] \in Seq(Entry) /\ thread[a] \in [Workers -> Thread]
        /\ r \in LookupsOf(a)
    BY <1>a DEF TypeOK, LookupsOf, LookupTimeout
  <1>2. /\ pc' = [pc EXCEPT ![r] = "answered"] /\ UNCHANGED <<at, sid>>
        /\ free' = [free EXCEPT ![a] = @ + 1]
    BY <1>a DEF LookupTimeout
  <1>3. Matched(LookupsOf(a), queue[a], thread[a], sid)
    BY DEF GateInv, OneLookupEach
  <1>4. ASSUME NEW i \in DOMAIN queue[a], queue[a][i] = r,
               queue' = [queue EXCEPT ![a][i] = None], UNCHANGED thread
        PROVE  GateInv'
    <2>1. queue'[a] = [queue[a] EXCEPT ![i] = None] /\ thread'[a] = thread[a]
          /\ \A rep \in Replicas \ {a} : queue'[rep] = queue[rep] /\ thread'[rep] = thread[rep]
      BY <1>4 DEF TypeOK
    <2>2. Matched(LookupsOf(a) \ {r}, [queue[a] EXCEPT ![i] = None], thread[a], sid)
      BY <1>1, <1>3, <1>4, MatchedCancel, GateAssumption
    <2>3. Matched(LookupsOf(a) \ {r}, queue'[a], thread'[a], sid)
      BY <2>1, <2>2
    <2> QED BY <1>1, <1>2, <2>1, <2>3, Leave
  <1>5. ASSUME NEW w \in Workers, thread[a][w].req = r,
               thread' = [thread EXCEPT ![a][w].req = None], UNCHANGED queue
        PROVE  GateInv'
    <2> DEFINE t == [thread[a][w] EXCEPT !.req = None]
    <2>1. thread'[a] = [thread[a] EXCEPT ![w] = t] /\ queue'[a] = queue[a]
          /\ \A rep \in Replicas \ {a} : queue'[rep] = queue[rep] /\ thread'[rep] = thread[rep]
      BY <1>5 DEF TypeOK
    <2>2. t \in Thread /\ t.req = None
      BY <1>1, SetRequest
    <2> HIDE DEF t
    <2>3. Matched(LookupsOf(a) \ {r}, queue[a], [thread[a] EXCEPT ![w] = t], sid)
      BY <1>1, <1>3, <1>5, <2>2, MatchedRelease
    <2>4. Matched(LookupsOf(a) \ {r}, queue'[a], thread'[a], sid)
      BY <2>1, <2>3
    <2> QED BY <1>1, <1>2, <2>1, <2>4, Leave
  <1> QED BY <1>4, <1>5, <1>a DEF LookupTimeout

\* Steps of a thread.
LEMMA ThreadStepInv ==
  ASSUME TypeOK, GateInv, NEW a \in Replicas, NEW w \in Workers,
         ThreadStep(a, w) \/ LookupFails(a, w) \/ Hang(a, w) \/ HungFails(a, w)
  PROVE  GateInv'
  <1>1. /\ queue[a] \in Seq(Entry) /\ thread[a] \in [Workers -> Thread]
        /\ thread[a][w] \in Thread
    BY DEF TypeOK
  <1>2. Matched(LookupsOf(a), queue[a], thread[a], sid)
    BY DEF GateInv, OneLookupEach
  <1>3. CASE BeginCached(a, w)
    <2>1. queue[a] # <<>> /\ Head(queue[a]) # None
      BY <1>3 DEF BeginCached
    <2>2. Matched(LookupsOf(a) \ {Head(queue[a])}, Tail(queue[a]), thread[a], sid)
      BY <1>1, <1>2, <2>1, MatchedTail
    <2>3. PICK r \in Requests : r = Head(queue[a])
      BY <1>1, <2>1, TailFacts
    <2>4. r \in LookupsOf(a)
      BY <1>1, <1>2, <2>1, <2>3, TailFacts DEF Matched
    <2>5. /\ pc' = [pc EXCEPT ![r] = "answered"] /\ UNCHANGED <<at, sid>>
          /\ free' = [free EXCEPT ![a] = @ + 1]
          /\ queue'[a] = Tail(queue[a]) /\ thread'[a] = thread[a]
          /\ \A rep \in Replicas \ {a} : queue'[rep] = queue[rep] /\ thread'[rep] = thread[rep]
      BY <1>3, <2>3 DEF BeginCached, TypeOK
    <2>6. Matched(LookupsOf(a) \ {r}, queue'[a], thread'[a], sid)
      BY <2>2, <2>3, <2>5
    <2> QED BY <2>4, <2>5, <2>6, Leave
  <1>4. CASE BeginSelect(a, w)
    <2> DEFINE T == [thread[a] EXCEPT ![w] =
                        [st |-> "select", sid |-> sid[Head(queue[a])], req |-> Head(queue[a])]]
    <2>1. queue[a] # <<>> /\ Head(queue[a]) # None /\ thread[a][w].st = "idle"
      BY <1>4 DEF BeginSelect
    <2>2. Matched(LookupsOf(a), Tail(queue[a]), T, sid)
      BY <1>1, <1>2, <2>1, MatchedBegin
    <2>3. /\ queue'[a] = Tail(queue[a]) /\ thread'[a] = T
          /\ \A rep \in Replicas \ {a} : queue'[rep] = queue[rep] /\ thread'[rep] = thread[rep]
      BY <1>4 DEF BeginSelect, TypeOK
    <2>4. UNCHANGED <<pc, at, sid, free>>
      BY <1>4 DEF BeginSelect, requestVars
    <2> HIDE DEF T
    <2>5. Matched(LookupsOf(a), queue'[a], thread'[a], sid)
      BY <2>2, <2>3
    <2> QED BY <2>3, <2>4, <2>5, GoOn
  <1>5. CASE Select(a, w) \/ Hang(a, w)
    <2>1. PICK st \in {"select", "found", "missed", "hung"} :
             thread' = [thread EXCEPT ![a][w].st = st]
      BY <1>5 DEF Select, Hang
    <2>2. Matched(LookupsOf(a), queue[a], [thread[a] EXCEPT ![w].st = st], sid)
      BY <1>1, <1>2, MatchedState
    <2>3. /\ thread'[a] = [thread[a] EXCEPT ![w].st = st]
          /\ \A rep \in Replicas \ {a} : thread'[rep] = thread[rep]
      BY <2>1 DEF TypeOK
    <2>4. UNCHANGED <<pc, at, sid, free, queue>>
      BY <1>5 DEF Select, Hang, requestVars
    <2>5. Matched(LookupsOf(a), queue'[a], thread'[a], sid)
      BY <2>2, <2>3, <2>4
    <2> QED BY <2>3, <2>4, <2>5, GoOn
  <1>6. CASE ReturnFound(a, w) \/ ReturnMissed(a, w) \/ LookupFails(a, w) \/ HungFails(a, w)
    BY <1>6, ReturnInv DEF ReturnFound, ReturnMissed, LookupFails, HungFails
  <1>7. CASE Discard(a, w)
    <2>1. queue[a] # <<>> /\ Head(queue[a]) = None
      BY <1>7 DEF Discard
    <2>2. LookupsOf(a) \ {Head(queue[a])} = LookupsOf(a)
      BY <2>1, GateAssumption DEF LookupsOf
    <2>3. Matched(LookupsOf(a), Tail(queue[a]), thread[a], sid)
      BY <1>1, <1>2, <2>1, <2>2, MatchedTail
    <2>4. /\ queue'[a] = Tail(queue[a]) /\ thread'[a] = thread[a]
          /\ UNCHANGED <<pc, at, sid, free>>
          /\ \A rep \in Replicas \ {a} : queue'[rep] = queue[rep] /\ thread'[rep] = thread[rep]
      BY <1>7 DEF Discard, requestVars, TypeOK
    <2>5. Matched(LookupsOf(a), queue'[a], thread'[a], sid)
      BY <2>3, <2>4
    <2> QED BY <2>4, <2>5, GoOn
  <1> QED BY <1>3, <1>4, <1>5, <1>6, <1>7 DEF ThreadStep

\* Every step keeps the invariant.
LEMMA NextInv ==
  ASSUME TypeOK, GateInv, [Next]_vars
  PROVE  GateInv'
  <1> DEFINE Same == /\ UNCHANGED <<free, queue, thread>>
                     /\ \A r \in Requests :
                          /\ pc'[r] = "lookup" <=> pc[r] = "lookup"
                          /\ pc[r] = "lookup" => at'[r] = at[r] /\ sid'[r] = sid[r]
  <1>0. Same => GateInv'
    BY Untouched
  <1>1. ASSUME NEW s \in Sids, Login(s) \/ Logout(s) PROVE Same
    BY <1>1 DEF Login, Logout, requestVars
  <1>2. CASE Tick
    <2>1. Same
      BY <1>2 DEF Tick, requestVars
    <2> QED BY <1>0, <2>1
  <1>3. ASSUME NEW r \in Requests, NEW rep \in Replicas, ArrivePublic(r, rep) PROVE Same
    BY <1>3 DEF ArrivePublic, TypeOK
  <1>4. ASSUME NEW r \in Requests, NEW rep \in Replicas, NEW s, Arrive(r, rep, s) PROVE Same
    BY <1>4 DEF Arrive, TypeOK
  <1>5. ASSUME NEW r \in Requests, AdmitTimeout(r) \/ Finish(r) PROVE Same
    BY <1>5 DEF AdmitTimeout, Finish, TypeOK
  <1>6. CASE UNCHANGED vars
    <2>1. Same
      BY <1>6 DEF vars
    <2> QED BY <1>0, <2>1
  <1> HIDE DEF Same
  <1>7. ASSUME NEW r \in Requests, GateStep(r) PROVE GateInv'
    BY <1>0, <1>5, <1>7, Enter, LookupTimeoutInv DEF GateStep
  <1> QED BY <1>0, <1>1, <1>2, <1>3, <1>4, <1>6, <1>7, ThreadStepInv, RestartInv DEF Next

\* At first all slots are free and nobody waits.
LEMMA InitInv == Init => GateInv
  <1> SUFFICES ASSUME Init, NEW rep \in Replicas
               PROVE  /\ Matched(LookupsOf(rep), queue[rep], thread[rep], sid)
                      /\ free[rep] + Cardinality(LookupsOf(rep)) = Capacity
    BY DEF GateInv, OneLookupEach, SemaphoreExact
  <1> DEFINE T == [w \in Workers |-> Idle]
  <1>1. LookupsOf(rep) = {}
    BY DEF Init, LookupsOf
  <1>2. queue[rep] = <<>> /\ thread[rep] = T /\ free[rep] = Capacity
    BY DEF Init
  <1>3. \A w \in Workers : T[w].req = None
    BY DEF Idle
  <1> HIDE DEF T
  <1>4. Elements(<<>>) = {} /\ Distinct(<<>>) /\ Served(T) = {}
    BY <1>3 DEF Elements, Distinct, Served
  <1>5. Matched({}, <<>>, T, sid)
    BY <1>3, <1>4 DEF Matched
  <1>6. Cardinality(LookupsOf(rep)) = 0
    BY <1>1, FS_EmptySet
  <1>7. free[rep] + Cardinality(LookupsOf(rep)) = Capacity
    BY <1>2, <1>6, CapacityType
  <1> QED BY <1>1, <1>2, <1>5, <1>7

\* dispatch never leaks or gains a slot of _auth_inflight, and pairs every
\* request that waits with one lookup for its own cookie.
THEOREM GateExact == Spec => [](OneLookupEach /\ SemaphoreExact)
  <1>1. TypeOK /\ GateInv /\ [Next]_vars => GateInv'
    BY NextInv
  <1>2. GateInv => OneLookupEach /\ SemaphoreExact
    BY DEF GateInv
  <1> QED BY <1>1, <1>2, InitInv, GateTypeCorrect, PTL DEF Spec

\* No request waits for two lookups, and no lookup that has timed out can answer.
THEOREM GatePaired == Spec => []OneLookupEach
  BY GateExact, PTL

-----------------------------------------------------------------------------
(* Consequences.                                                           *)

\* Queued lookups belong to waiting requests, which the semaphore counts; the
\* others have a thread each.
LEMMA BoundFromInv ==
  ASSUME TypeOK, GateInv
  PROVE  LookupsBounded
  <1> SUFFICES ASSUME NEW rep \in Replicas
               PROVE  Cardinality(Elements(queue[rep])) + Cardinality(BusyThreads(rep))
                         <= Capacity + Cardinality(Workers)
    BY DEF LookupsBounded
  <1> DEFINE E == Elements(queue[rep])
             L == LookupsOf(rep)
             B == BusyThreads(rep)
  <1>1. free[rep] \in Nat
    BY DEF TypeOK
  <1>2. E \in SUBSET L /\ free[rep] + Cardinality(L) = Capacity
    BY DEF GateInv, OneLookupEach, Matched, SemaphoreExact
  <1>3. IsFiniteSet(L) /\ Cardinality(L) \in Nat
    BY LookupsFinite, FS_CardinalityType
  <1>4. B \in SUBSET Workers
    BY DEF BusyThreads
  <1>5. Cardinality(B) \in Nat /\ Cardinality(B) <= Cardinality(Workers)
    BY <1>4, FS_Subset, FS_CardinalityType, GateAssumption
  <1>6. Cardinality(E) \in Nat /\ Cardinality(E) <= Cardinality(L)
    BY <1>2, <1>3, FS_Subset, FS_CardinalityType
  <1> HIDE DEF E, L, B
  <1>7. Cardinality(E) <= Capacity
    BY <1>1, <1>2, <1>3, <1>6, CapacityType
  <1>8. Cardinality(E) + Cardinality(B) <= Capacity + Cardinality(Workers)
    BY <1>5, <1>6, <1>7, CapacityType
  <1> QED BY <1>8 DEF E, B

\* The lookups running or waiting in a replica never exceed the slots of
\* _auth_inflight and the threads of _auth_executor together.
THEOREM GateBounded == Spec => []LookupsBounded
  <1>1. GateInv <=> OneLookupEach /\ SemaphoreExact
    BY DEF GateInv
  <1> QED BY <1>1, BoundFromInv, GateExact, GateTypeCorrect, PTL

\* No step makes a missed token valid: tokens are handed out once.
LEMMA GenuineStep ==
  ASSUME TypeOK, TypeOK', LookupsGenuine, [Next]_vars
  PROVE  LookupsGenuine'
  <1> SUFFICES ASSUME NEW rep \in Replicas, NEW w \in Workers
               PROVE  /\ thread'[rep][w].sid \in issued' \cup {None}
                      /\ thread'[rep][w].st = "missed" => thread'[rep][w].sid \notin sessions'
    BY DEF LookupsGenuine
  <1> DEFINE t == thread[rep][w]
             Good == /\ thread'[rep][w].sid \in issued' \cup {None}
                     /\ thread'[rep][w].st = "missed" => thread'[rep][w].sid \notin sessions'
  <1>1. /\ t \in Thread /\ thread[rep] \in [Workers -> Thread] /\ None \notin issued
        /\ sessions \subseteq issued
    BY GateAssumption DEF TypeOK
  <1>2. t.sid \in issued \cup {None} /\ (t.st = "missed" => t.sid \notin sessions)
    BY DEF LookupsGenuine
  <1>3. ASSUME thread'[rep][w].sid = t.sid, thread'[rep][w].st = t.st, UNCHANGED storeVars
        PROVE  Good
    BY <1>2, <1>3 DEF storeVars
  <1>4. ASSUME thread'[rep][w] = Idle, UNCHANGED storeVars
        PROVE  Good
    BY <1>4 DEF Idle
  <1>5. ASSUME NEW s \in Sids, Login(s) \/ Logout(s) PROVE Good
    BY <1>1, <1>2, <1>5, GateAssumption DEF Login, Logout
  <1>6. ASSUME \/ Tick \/ UNCHANGED vars
               \/ \E r \in Requests, p \in Replicas :
                     ArrivePublic(r, p) \/ \E s \in issued \cup {None} : Arrive(r, p, s)
               \/ \E r \in Requests : Admit(r) \/ AdmitTimeout(r) \/ Finish(r)
        PROVE  Good
    <2>1. UNCHANGED <<thread, storeVars>>
      BY <1>6 DEF Tick, vars, ArrivePublic, Arrive, Admit, AdmitTimeout, Finish, storeVars
    <2> QED BY <1>3, <2>1
  <1>7. ASSUME NEW r \in Requests, LookupTimeout(r) PROVE Good
    <2>1. UNCHANGED storeVars
      BY <1>7 DEF LookupTimeout
    <2>2. [t EXCEPT !.req = None].sid = t.sid /\ [t EXCEPT !.req = None].st = t.st
      BY <1>1, SetRequest
    <2>3. thread'[rep][w] = t \/ thread'[rep][w] = [t EXCEPT !.req = None]
      <3>1. CASE UNCHANGED thread
        BY <3>1
      <3>2. ASSUME NEW v \in Workers, thread' = [thread EXCEPT ![at[r]][v].req = None]
            PROVE  thread'[rep][w] = t \/ thread'[rep][w] = [t EXCEPT !.req = None]
        BY <1>1, <3>2 DEF TypeOK
      <3> QED BY <1>7, <3>1, <3>2 DEF LookupTimeout
    <2> HIDE DEF t
    <2> QED BY <1>3, <2>1, <2>2, <2>3
  <1>8. ASSUME NEW p \in Replicas, Restart(p) PROVE Good
    <2>1. UNCHANGED storeVars /\ (thread'[rep][w] = t \/ thread'[rep][w] = Idle)
      BY <1>8 DEF Restart, TypeOK
    <2> QED BY <1>3, <1>4, <2>1
  <1>9. ASSUME NEW p \in Replicas, NEW v \in Workers,
               ThreadStep(p, v) \/ LookupFails(p, v) \/ Hang(p, v) \/ HungFails(p, v)
        PROVE  Good
    <2>1. CASE BeginCached(p, v) \/ Discard(p, v)
      BY <1>3, <2>1 DEF BeginCached, Discard
    <2>2. CASE BeginSelect(p, v)
      <3>1. PICK r \in Requests : r = Head(queue[p])
        BY <2>2, TailFacts DEF BeginSelect, TypeOK
      <3>2. sid[r] \in issued \cup {None} /\ UNCHANGED storeVars
        BY <2>2 DEF BeginSelect, TypeOK
      <3>3. \/ thread'[rep][w] = t
            \/ thread'[rep][w] = [st |-> "select", sid |-> sid[r], req |-> r]
        BY <1>1, <2>2, <3>1 DEF BeginSelect, TypeOK
      <3> QED BY <1>3, <3>2, <3>3 DEF storeVars
    <2>3. CASE Select(p, v) \/ Hang(p, v)
      <3>1. PICK st \in {"found", "missed", "hung"} :
               /\ thread' = [thread EXCEPT ![p][v].st = st]
               /\ st = "missed" => thread[p][v].sid \notin sessions
        BY <2>3 DEF Select, Hang
      <3>2. UNCHANGED storeVars
        BY <2>3 DEF Select, Hang
      <3>3. [t EXCEPT !.st = st].sid = t.sid /\ [t EXCEPT !.st = st].st = st
        BY <1>1, SetState
      <3>4. \/ thread'[rep][w] = t
            \/ thread'[rep][w] = [t EXCEPT !.st = st] /\ p = rep /\ v = w
        BY <1>1, <3>1 DEF TypeOK
      <3> HIDE DEF t
      <3>5. CASE thread'[rep][w] = t
        BY <1>3, <3>2, <3>5
      <3>6. CASE thread'[rep][w] = [t EXCEPT !.st = st] /\ p = rep /\ v = w
        BY <1>2, <3>1, <3>2, <3>3, <3>6 DEF t, storeVars
      <3> QED BY <3>4, <3>5, <3>6
    <2>4. CASE \/ ReturnFound(p, v) \/ ReturnMissed(p, v) \/ LookupFails(p, v) \/ HungFails(p, v)
      <3>1. /\ thread' = [thread EXCEPT ![p][v] = Idle] /\ UNCHANGED storeVars
        BY <2>4 DEF ReturnFound, ReturnMissed, LookupFails, HungFails, Return
      <3>2. thread'[rep][w] = t \/ thread'[rep][w] = Idle
        BY <1>1, <3>1 DEF TypeOK
      <3> QED BY <1>3, <1>4, <3>1, <3>2
    <2> QED BY <1>9, <2>1, <2>2, <2>3, <2>4 DEF ThreadStep
  <1> HIDE DEF Good
  <1>10. Good
    <2>1. ASSUME NEW r \in Requests, GateStep(r) PROVE Good
      BY <1>6, <1>7, <2>1 DEF GateStep
    <2>2. CASE UNCHANGED vars
      BY <1>6, <2>2
    <2>3. CASE Next
      BY <1>5, <1>6, <1>8, <1>9, <2>1, <2>3 DEF Next
    <2> QED BY <2>2, <2>3
  <1> QED BY <1>10 DEF Good

\* A request is denied only by a lookup without a cookie or with a missed SELECT.
LEMMA NoForcedLogoutStep ==
  ASSUME TypeOK, GateInv, LookupsGenuine, NoForcedLogout, [Next]_vars
  PROVE  NoForcedLogout'
  <1> SUFFICES ASSUME NEW x \in Requests, pc'[x] = "answered", answer'[x] = "denied",
                      sid'[x] \in sessions'
               PROVE  FALSE
    BY DEF NoForcedLogout
  <1>0. ~(pc[x] = "answered" /\ answer[x] = "denied") \/ sid[x] \notin sessions
    BY DEF NoForcedLogout
  <1>1. None \notin issued /\ sessions \subseteq issued /\ sid[x] \in issued \cup {None}
    BY GateAssumption DEF TypeOK
  \* What was answered before stays so, and nobody's session comes back.
  <1>2. ASSUME pc'[x] = pc[x], answer'[x] = answer[x], sid'[x] = sid[x], UNCHANGED sessions
        PROVE  FALSE
    BY <1>0, <1>2
  <1>3. ASSUME NEW s \in Sids, Login(s) \/ Logout(s) PROVE FALSE
    <2>1. pc'[x] = pc[x] /\ answer'[x] = answer[x] /\ sid'[x] = sid[x]
      BY <1>3 DEF Login, Logout, requestVars
    <2>2. sid[x] # s \/ sessions' \subseteq sessions
      BY <1>1, <1>3, GateAssumption DEF Login, Logout
    <2>3. sessions' \subseteq sessions \cup {s}
      BY <1>3 DEF Login, Logout
    <2> QED BY <1>0, <2>1, <2>2, <2>3
  <1>4. ASSUME Tick \/ UNCHANGED vars PROVE FALSE
    <2>1. UNCHANGED <<pc, answer, sid, sessions>>
      BY <1>4 DEF Tick, vars, requestVars, storeVars
    <2> QED BY <1>2, <2>1
  <1>5. ASSUME NEW r \in Requests, NEW p \in Replicas, NEW s \in issued \cup {None},
               ArrivePublic(r, p) \/ Arrive(r, p, s)
        PROVE  FALSE
    <2>1. UNCHANGED sessions /\ (x # r => pc'[x] = pc[x] /\ sid'[x] = sid[x])
      BY <1>5 DEF ArrivePublic, Arrive, TypeOK, storeVars
    <2>2. x # r => answer'[x] = answer[x]
      BY <1>5 DEF ArrivePublic, Arrive, TypeOK
    <2>3. pc'[r] = "admit" \/ answer'[r] = "public"
      BY <1>5 DEF ArrivePublic, Arrive, TypeOK
    <2> QED BY <1>2, <2>1, <2>2, <2>3
  <1>6. ASSUME NEW r \in Requests, GateStep(r) PROVE FALSE
    <2>1. UNCHANGED <<sid, sessions>>
      BY <1>6 DEF GateStep, Admit, AdmitTimeout, LookupTimeout, Finish, storeVars
    <2>2. x # r => pc'[x] = pc[x] /\ answer'[x] = answer[x]
      BY <1>6 DEF GateStep, Admit, AdmitTimeout, LookupTimeout, Finish, TypeOK
    <2>3. pc'[r] # "answered" \/ answer'[r] # "denied"
      <3>1. CASE Admit(r) \/ Finish(r)
        BY <3>1 DEF Admit, Finish, TypeOK
      <3>2. CASE AdmitTimeout(r) \/ LookupTimeout(r)
        BY <3>2 DEF AdmitTimeout, LookupTimeout, TypeOK
      <3> QED BY <1>6, <3>1, <3>2 DEF GateStep
    <2> QED BY <1>2, <2>1, <2>2, <2>3
  <1>7. ASSUME NEW p \in Replicas, NEW w \in Workers,
               ThreadStep(p, w) \/ LookupFails(p, w) \/ Hang(p, w) \/ HungFails(p, w)
        PROVE  FALSE
    <2>1. ASSUME BeginCached(p, w) PROVE FALSE
      <3>1. PICK r \in Requests : r = Head(queue[p])
        BY <2>1, TailFacts DEF BeginCached, TypeOK
      <3>2. /\ pc' = [pc EXCEPT ![r] = "answered"] /\ UNCHANGED <<sid, sessions>>
            /\ \/ sid[r] = None /\ answer' = [answer EXCEPT ![r] = "denied"]
               \/ answer' = [answer EXCEPT ![r] = "ok"]
        BY <2>1, <3>1 DEF BeginCached, storeVars
      <3> QED BY <1>1, <1>2, <3>2 DEF TypeOK
    <2>2. ASSUME Discard(p, w) \/ BeginSelect(p, w) \/ Select(p, w) \/ Hang(p, w) PROVE FALSE
      BY <1>2, <2>2 DEF Discard, BeginSelect, Select, Hang, requestVars, storeVars
    <2>3. ASSUME NEW v \in Answers, Return(p, w, v),
                 v = "denied" => thread[p][w].st = "missed"
          PROVE  FALSE
      <3> DEFINE r == thread[p][w].req
      <3>1. UNCHANGED <<sid, sessions>>
        BY <2>3 DEF Return, storeVars
      <3>2. ASSUME r = None PROVE FALSE
        BY <1>2, <2>3, <3>1, <3>2 DEF Return
      <3>3. ASSUME r # None PROVE FALSE
        <4>1. pc' = [pc EXCEPT ![r] = "answered"] /\ answer' = [answer EXCEPT ![r] = v]
          BY <2>3, <3>3 DEF Return
        <4>2. thread[p][w].sid = sid[r]
          BY <3>3 DEF GateInv, OneLookupEach, Matched
        <4>3. thread[p][w].st = "missed" => thread[p][w].sid \notin sessions
          BY DEF LookupsGenuine
        <4> HIDE DEF r
        <4>4. v = "denied" => sid[r] \notin sessions
          BY <2>3, <4>2, <4>3 DEF r
        <4>5. CASE x = r
          BY <3>1, <4>1, <4>4, <4>5 DEF TypeOK
        <4>6. CASE x # r
          BY <1>2, <3>1, <4>1, <4>6 DEF TypeOK
        <4> QED BY <4>5, <4>6
      <3> QED BY <3>2, <3>3
    <2>4. ASSUME ReturnFound(p, w) PROVE FALSE
      BY <2>3, <2>4 DEF ReturnFound, Answers
    <2>5. ASSUME ReturnMissed(p, w) PROVE FALSE
      BY <2>3, <2>5 DEF ReturnMissed, Answers
    <2>6. ASSUME LookupFails(p, w) \/ HungFails(p, w) PROVE FALSE
      BY <2>3, <2>6 DEF LookupFails, HungFails, Answers
    <2> QED BY <1>7, <2>1, <2>2, <2>4, <2>5, <2>6 DEF ThreadStep
  <1>8. ASSUME NEW p \in Replicas, Restart(p) PROVE FALSE
    <2>1. pc'[x] = pc[x] /\ answer'[x] = answer[x] /\ UNCHANGED <<sid, sessions>>
      BY <1>8 DEF Restart, storeVars
    <2> QED BY <1>2, <2>1
  <1>9. CASE Next
    BY <1>3, <1>4, <1>5, <1>6, <1>7, <1>8, <1>9 DEF Next
  <1> QED BY <1>4, <1>9

\* A request is answered "denied" only if its session has no row: whatever fails
\* between dispatch and user_sessions, nobody with a session is sent to login.
THEOREM OutageIsNotLogout == Spec => []NoForcedLogout
  <1>1. Init => LookupsGenuine /\ NoForcedLogout
    BY DEF Init, LookupsGenuine, NoForcedLogout, Idle
  <1>2. GateInv <=> OneLookupEach /\ SemaphoreExact
    BY DEF GateInv
  <1>3. TypeOK /\ TypeOK' /\ GateInv /\ LookupsGenuine /\ NoForcedLogout /\ [Next]_vars
           => LookupsGenuine' /\ NoForcedLogout'
    BY GenuineStep, NoForcedLogoutStep
  <1> QED BY <1>1, <1>2, <1>3, GateExact, GateTypeCorrect, PTL DEF Spec

=============================================================================
